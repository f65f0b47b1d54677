-------------------------- MODULE SupervisorProof ---------------------------
(***************************************************************************)
(* Proofs about Supervisor, for every table of processes, every crash      *)
(* limit and every number of process ids and commands.                     *)
(***************************************************************************)
EXTENDS Supervisor, FiniteSetTheorems, WellFoundedInduction, TLAPS

(* Least finds an element: the loops over a set of entries end with it.    *)
LEMMA LeastIn == ASSUME NEW S \in SUBSET Nat, S # {} PROVE Least(S) \in S
  <1>1. PICK x \in S : \A y \in S : <<y, x>> \notin OpToRel(<, Nat)
    BY NatLessThanWellFounded, WFMin, Zenon
  <1>2. \A y \in S : ~(y < x)
    BY <1>1, Zenon DEF OpToRel
  <1>3. \A y \in S : x <= y
    BY <1>2
  <1> QED
    BY <1>3 DEF Least

LEMMA EntryNat == Entry \subseteq Nat /\ Cardinality(Entry) \in Nat \ {0}
  <1>1. Cardinality(Entry) \in Nat
    BY TableAssumption, FS_CardinalityType
  <1>2. Cardinality(Entry) # 0
    BY TableAssumption, FS_EmptySet
  <1> QED
    BY <1>1, <1>2, TableAssumption

(* The entry at hand is one that the loop has still to visit.              *)
LEMMA HereIn ==
  ASSUME NEW f \in Frame, TypeOK, todo[f] # {}
  PROVE  Here(f) \in todo[f] /\ Here(f) \in Entry
  <1>1. todo[f] \in SUBSET Entry
    BY DEF TypeOK
  <1>2. Least(todo[f]) \in todo[f]
    BY <1>1, LeastIn, EntryNat
  <1> QED
    BY <1>1, <1>2 DEF Here

LEMMA FreeIn ==
  ASSUME NEW S \in SUBSET Pid, S # {} PROVE Least(S) \in S
  BY LeastIn, TableAssumption DEF Pid

-----------------------------------------------------------------------------
(* A step that neither forks nor counts, and leaves every frame on its side*)
(* of the count, keeps what is counted.                                    *)
LEMMA CountKept ==
  ASSUME StartsCounted, ~clash' => ~clash, UNCHANGED <<crz, forks>>,
         \A g \in Frame, j \in Entry : /\ Passed(g, j)' <=> Passed(g, j)
                                       /\ Counting(g, j)' <=> Counting(g, j)
                                       /\ Counting(g, j) => reg'[g] = reg[g]
  PROVE  StartsCounted'
  <1> SUFFICES ASSUME ~clash, NEW j \in Entry PROVE CountedFor(j)'
    BY DEF StartsCounted
  <1>1. CountedFor(j)
    BY DEF StartsCounted
  <1> QED
    BY <1>1 DEF CountedFor

(* Clearing a counter keeps it too, wherever the frames are: the start that*)
(* is under way is counted after it, and was forked before.                *)
LEMMA CountCleared ==
  ASSUME TypeOK, NEW j \in Entry, CountedFor(j), reg' = reg,
         \A g \in Frame : /\ Counting(g, j)' <=> Counting(g, j)
                          /\ Passed(g, j)' <=> Passed(g, j),
         \/ crz'[j] = crz[j] /\ forks'[j] = forks[j]
         \/ crz'[j] = 0 /\ forks'[j] = 0
  PROVE  CountedFor(j)'
  <1>1. MaxCrash \in Nat \ {0} /\ \A g \in Frame : reg[g] \in Nat
    BY TableAssumption DEF TypeOK
  <1>2. CASE crz'[j] = crz[j] /\ forks'[j] = forks[j]
    BY <1>2 DEF CountedFor
  <1>3. CASE crz'[j] = 0 /\ forks'[j] = 0
    BY <1>1, <1>3 DEF CountedFor
  <1> QED
    BY <1>2, <1>3

-----------------------------------------------------------------------------
(* One lemma per action.                                                   *)

LEMMA PKillKept ==
  ASSUME ChildInv, NEW f \in Frame, PKill(f) PROVE ChildInv'
  <1> DEFINE i == Here(f)
  <1> USE DEF ChildInv
  <1>1. pc[f] = "pkill" /\ todo[f] # {} /\ i \in Entry
    BY HereIn DEF PKill, At, TypeOK, Starting
  <1>2. /\ pc' = [pc EXCEPT ![f] = "check"]
        /\ UNCHANGED <<run, pid, crz, nproc, image, ignored, todo, got, reg, op, cmds,
                       missed, forks, fate>>
    BY DEF PKill, Goto, table
  <1>3. \A g \in Frame : Here(g)' = Here(g)
    BY <1>2 DEF Here
  <1>4. \A p \in Pid : child'[p] = child[p] \/ (child[p] = "alive" /\ child'[p] = "dying")
    BY DEF PKill
  <1>5. TypeOK'
    BY <1>1, <1>2 DEF TypeOK, PKill, Starting, Rival
  <1>6. TableSeen'
    BY <1>1, <1>2 DEF TableSeen, TypeOK
  <1>7. StartsCounted'
    <2>1. ~clash' => ~clash
      BY Zenon DEF PKill
    <2>2. \A g \in Frame, j \in Entry : /\ Passed(g, j)' <=> Passed(g, j)
                                        /\ Counting(g, j)' <=> Counting(g, j)
                                        /\ Counting(g, j) => reg'[g] = reg[g]
      BY <1>1, <1>2, <1>3 DEF Passed, Counting, TypeOK
    <2> QED
      BY <1>2, <2>1, <2>2, CountKept
  <1>8. Apart'
    <2>1. ~clash' => ~clash /\ ~Rival(f, i)
      BY Zenon DEF PKill
    <2>2. ~clash' => \A g \in Frame \ {f} : pc[g] \in Starting => Here(g) # i
      BY <2>1 DEF Rival
    <2> QED
      BY <1>1, <1>2, <1>3, <2>1, <2>2 DEF Apart, TypeOK, Starting
  <1>9. Cleared'
    BY <1>1, <1>2, <1>3, <1>4, TableAssumption DEF Cleared, TypeOK, PKill, Alive
  <1>10. Accounted'
    BY <1>1, <1>2, <1>3, <1>4 DEF Accounted, Alive, Stored, Storing, TypeOK, PKill
  <1>11. Single'
    BY <1>1, <1>2, <1>4 DEF Single, Alive, TypeOK, PKill
  <1>12. ForksSucceed'
    BY <1>1, <1>2, <1>4 DEF ForksSucceed, TypeOK
  <1>13. Reaped'
    BY <1>1, <1>2, <1>4 DEF Reaped, TypeOK
  <1> QED
    BY <1>5, <1>6, <1>7, <1>8, <1>9, <1>10, <1>11, <1>12, <1>13

(* The end of a turn of the loop: the frame has another entry to start, or *)
(* none.                                                                   *)
LEMMA ReturnShape ==
  ASSUME TypeOK, NEW f \in Frame, pc[f] \in Starting, Return(f)
  PROVE  /\ pc' = [pc EXCEPT ![f] = pc'[f]]
         /\ pc'[f] \in {"rearm", "pkill", "idle", "up"}
         /\ todo' = [todo EXCEPT ![f] = todo'[f]]
         /\ todo'[f] \in SUBSET Entry
         /\ pc'[f] \in {"pkill", "up"} => todo'[f] # {}
         /\ got' = [got EXCEPT ![f] = 0] /\ reg' = [reg EXCEPT ![f] = 0]
         /\ op' \in {"none", "conf", "up", "dn", "quit"}
         /\ pc' \in [Frame -> Starting \cup {"idle", "match", "rearm", "read", "up", "dn"}]
         /\ \A g \in Frame \ {f} : pc'[g] = pc[g] /\ Here(g)' = Here(g)
         /\ pc'["main"] = "read" <=> pc["main"] = "read"
  <1> DEFINE rest == todo[f] \ {Here(f)}
             next == CASE f \in Handler -> IF rest = {} THEN "rearm" ELSE "pkill"
                       [] f = "main" -> IF rest = {} THEN "idle"
                                        ELSE IF op = "up" THEN "up" ELSE "pkill"
  <1>1. /\ todo' = [todo EXCEPT ![f] = rest]
        /\ got' = [got EXCEPT ![f] = 0]
        /\ reg' = [reg EXCEPT ![f] = 0]
        /\ op' \in {"none", op}
        /\ pc' = [pc EXCEPT ![f] = next]
    BY DEF Return, Goto
  <1>2. rest \in SUBSET Entry
    BY DEF TypeOK
  <1>3. next \in {"rearm", "pkill", "idle", "up"} /\ (next \in {"pkill", "up"} => rest # {})
    BY DEF Frame, Handler
  <1> HIDE DEF next, rest
  <1>4. pc'[f] = next /\ todo'[f] = rest
    BY <1>1 DEF TypeOK
  <1>5. \A g \in Frame \ {f} : pc'[g] = pc[g] /\ todo'[g] = todo[g]
    BY <1>1 DEF TypeOK
  <1>6. \A g \in Frame \ {f} : Here(g)' = Here(g)
    BY <1>5 DEF Here
  <1>7. pc' \in [Frame -> Starting \cup {"idle", "match", "rearm", "read", "up", "dn"}]
    BY <1>1, <1>3 DEF TypeOK, Starting
  <1>8. pc'["main"] = "read" <=> pc["main"] = "read"
    BY <1>1, <1>3, <1>5 DEF TypeOK, Starting, Frame
  <1>9. op' \in {"none", "conf", "up", "dn", "quit"}
    BY <1>1 DEF TypeOK
  <1> QED
    BY <1>1, <1>2, <1>3, <1>4, <1>5, <1>6, <1>7, <1>8, <1>9

LEMMA GiveUpKept ==
  ASSUME ChildInv, NEW f \in Frame, GiveUp(f) PROVE ChildInv'
  <1> DEFINE i == Here(f)
  <1> USE DEF ChildInv
  <1>1. pc[f] = "check" /\ todo[f] # {} /\ i \in Entry /\ crz[i] >= MaxCrash
    BY HereIn DEF GiveUp, At, TypeOK, Starting, TooMany
  <1>2. /\ run' = [run EXCEPT ![i] = 0]
        /\ Return(f)
        /\ UNCHANGED <<pid, crz, nproc, image, pending, ignored, cmds, missed, clash,
                       forks>>
        /\ \/ /\ pid[i] = -1 /\ fate' = "all"
              /\ child' = [p \in Pid |-> Killed(child, p)[p]]
           \/ pid[i] # -1 /\ fate' = fate /\ child' = Killed(child, pid[i])
    BY DEF GiveUp
  <1>3. /\ pc' = [pc EXCEPT ![f] = pc'[f]]
        /\ pc'[f] \in {"rearm", "pkill", "idle", "up"}
        /\ todo' = [todo EXCEPT ![f] = todo'[f]]
        /\ todo'[f] \in SUBSET Entry
        /\ pc'[f] \in {"pkill", "up"} => todo'[f] # {}
        /\ got' = [got EXCEPT ![f] = 0] /\ reg' = [reg EXCEPT ![f] = 0]
        /\ op' \in {"none", "conf", "up", "dn", "quit"}
        /\ pc' \in [Frame -> Starting \cup {"idle", "match", "rearm", "read", "up", "dn"}]
        /\ \A g \in Frame \ {f} : pc'[g] = pc[g] /\ Here(g)' = Here(g)
        /\ pc'["main"] = "read" <=> pc["main"] = "read"
    BY <1>1, <1>2, ReturnShape DEF Starting
  <1>4. /\ child' \in [Pid -> {"none", "alive", "dying", "zombie", "gone"}]
        /\ \A p \in Pid : child'[p] = child[p] \/ (child[p] = "alive" /\ child'[p] = "dying")
    <2>1. CASE child' = [p \in Pid |-> Killed(child, p)[p]]
      <3>1. \A p \in Pid : child'[p] = IF child[p] = "alive" THEN "dying" ELSE child[p]
        BY <2>1 DEF Killed, TypeOK
      <3> QED
        BY <2>1, <3>1 DEF TypeOK
    <2>2. CASE child' = Killed(child, pid[i])
      BY <1>1, <2>2 DEF Killed, TypeOK
    <2> QED
      BY <1>2, <2>1, <2>2
  <1>5. TypeOK'
    BY <1>1, <1>2, <1>3, <1>4 DEF TypeOK, Starting
  <1>6. TableSeen'
    BY <1>2, <1>3 DEF TableSeen
  <1>7. StartsCounted'
    <2>1. \A g \in Frame, j \in Entry : /\ Passed(g, j)' <=> Passed(g, j)
                                        /\ Counting(g, j)' <=> Counting(g, j)
                                        /\ Counting(g, j) => reg'[g] = reg[g]
      BY <1>1, <1>3 DEF Passed, Counting, TypeOK
    <2> QED
      BY <1>2, <2>1, CountKept
  <1>8. Apart'
    BY <1>1, <1>2, <1>3 DEF Apart, TypeOK, Starting
  <1>9. Cleared'
    BY <1>1, <1>2, <1>3, <1>4 DEF Cleared, TypeOK, Alive
  <1>10. Accounted'
    <2> SUFFICES ASSUME ~clash, NEW p \in Alive'
                 PROVE  /\ image[p] \in Entry
                        /\ Stored(p)' \/ \E g \in Frame : Storing(g, p)'
      BY <1>2 DEF Accounted
    <2>1. p \in Alive /\ image[p] # i
      BY <1>1, <1>4 DEF Alive, Cleared
    <2>2. image[p] \in Entry /\ (Stored(p) \/ \E g \in Frame : Storing(g, p))
      BY <2>1 DEF Accounted
    <2>3. CASE Stored(p)
      BY <1>1, <1>2, <2>1, <2>2, <2>3 DEF Stored, TypeOK
    <2>4. ASSUME NEW g \in Frame, Storing(g, p) PROVE Storing(g, p)'
      BY <1>1, <1>2, <1>3, <2>1, <2>2, <2>4 DEF Storing, TypeOK
    <2> QED
      BY <2>2, <2>3, <2>4
  <1>11. Single'
    BY <1>1, <1>2, <1>4 DEF Single, Alive
  <1>12. ForksSucceed'
    BY <1>1, <1>2, <1>3, <1>4 DEF ForksSucceed, TypeOK
  <1>13. Reaped'
    BY <1>1, <1>2, <1>3, <1>4 DEF Reaped, TypeOK
  <1> QED
    BY <1>5, <1>6, <1>7, <1>8, <1>9, <1>10, <1>11, <1>12, <1>13

LEMMA ForkKept ==
  ASSUME ChildInv, NEW f \in Frame, Fork(f) PROVE ChildInv'
  <1> DEFINE i == Here(f)
             told == Killed(child, pid[i])
             free == {p \in Pid : child[p] = "none"}
             new == Least(free)
  <1> USE DEF ChildInv
  <1>1. pc[f] = "check" /\ todo[f] # {} /\ i \in Entry /\ ~(crz[i] >= MaxCrash)
    BY HereIn DEF Fork, At, TypeOK, Starting, TooMany
  <1>2. /\ pc' = [pc EXCEPT ![f] = "pid"]
        /\ UNCHANGED <<run, pid, crz, nproc, pending, ignored, todo, reg, op, cmds,
                       missed, clash, fate>>
        /\ forks' = [forks EXCEPT ![i] = IF free # {} THEN @ + 1 ELSE @]
    BY DEF Fork, Goto, table
  <1>3. \A g \in Frame : Here(g)' = Here(g)
    BY <1>2 DEF Here
  <1>4. /\ told \in [Pid -> {"none", "alive", "dying", "zombie", "gone"}]
        /\ \A p \in Pid : told[p] = child[p] \/ (child[p] = "alive" /\ told[p] = "dying")
    BY <1>1 DEF Killed, TypeOK
  <1>5. \/ /\ free # {} /\ new \in Pid /\ child[new] = "none"
           /\ child' = [told EXCEPT ![new] = "alive"]
           /\ image' = [image EXCEPT ![new] = i]
           /\ got' = [got EXCEPT ![f] = new]
        \/ free = {} /\ child' = told /\ image' = image /\ got' = [got EXCEPT ![f] = -1]
    <2>1. free # {} => new \in Pid /\ child[new] = "none"
      BY FreeIn
    <2> QED
      BY <2>1 DEF Fork
  <1> HIDE DEF told, new
  <1>6. \A p \in Pid : child'[p] = "none" => child[p] = "none"
    BY <1>4, <1>5
  <1>7. /\ \A p \in Alive' : \/ p \in Alive /\ image'[p] = image[p]
                             \/ /\ image'[p] = i /\ got'[f] = p
                                /\ child[p] = "none"
        /\ \A p \in Alive : child[p] # "none"
    BY <1>4, <1>5 DEF Alive, TypeOK
  <1>8. TypeOK'
    <2>1. i \in Nat
      BY <1>1, EntryNat
    <2> QED
      BY <1>1, <1>2, <1>4, <1>5, <2>1 DEF TypeOK, Starting
  <1>9. TableSeen'
    BY <1>1, <1>2 DEF TableSeen, TypeOK
  <1>10. StartsCounted'
    <2> SUFFICES ASSUME ~clash, NEW j \in Entry
                 PROVE  CountedFor(j)'
      BY <1>2 DEF StartsCounted
    <2>0. CountedFor(j)
      BY DEF StartsCounted
    <2>1. \A g \in Frame : /\ Counting(g, j)' <=> Counting(g, j)
                           /\ Passed(g, j)' <=> Passed(g, j) \/ (g = f /\ j = i)
      BY <1>1, <1>2, <1>3 DEF Passed, Counting, TypeOK
    <2>2. /\ MaxCrash \in Nat /\ crz[j] \in Nat /\ forks[j] \in Nat
          /\ \A g \in Frame : reg[g] \in Nat
      BY TableAssumption DEF TypeOK
    <2>3. CASE j # i
      BY <1>2, <2>0, <2>1, <2>3 DEF CountedFor
    <2>4. CASE j = i
      <3>1. \A g \in Frame : ~Passed(g, j) /\ ~Counting(g, j)
        BY <1>1, <2>4 DEF Passed, Counting, Apart, Starting
      <3>2. forks[j] <= crz[j] /\ crz[j] < MaxCrash
        BY <1>1, <2>0, <2>2, <2>4, <3>1 DEF CountedFor
      <3>3. forks'[j] <= crz[j] + 1
        BY <1>1, <1>2, <2>2, <2>4, <3>2 DEF TypeOK
      <3>4. crz[j] <= MaxCrash /\ forks'[j] <= MaxCrash
        <4>1. forks'[j] \in Nat
          BY <1>1, <1>2, <2>2, <2>4 DEF TypeOK
        <4> QED
          BY <2>2, <3>2, <3>3, <4>1
      <3> QED
        BY <1>2, <2>1, <2>4, <3>1, <3>2, <3>3, <3>4 DEF CountedFor
    <2> QED
      BY <2>3, <2>4
  <1>11. Apart'
    BY <1>1, <1>2, <1>3 DEF Apart, TypeOK, Starting
  <1>12. Cleared'
    <2> SUFFICES ASSUME ~clash, NEW g \in Frame, NEW p \in Alive',
                        pc'[g] \in {"check", "pid"}, image'[p] = Here(g)
                 PROVE  pc'[g] = "pid" /\ got'[g] = p
      BY <1>2, <1>3 DEF Cleared
    <2>1. CASE g = f
      BY <1>1, <1>2, <1>7, <2>1 DEF Cleared, TypeOK
    <2>2. CASE g # f
      <3>1. pc'[g] = pc[g] /\ got'[g] = got[g] /\ Here(g) # i
        BY <1>1, <1>2, <1>5, <2>2 DEF TypeOK, Apart, Starting
      <3> QED
        BY <1>7, <3>1 DEF Cleared
    <2> QED
      BY <2>1, <2>2
  <1>13. Accounted'
    <2> SUFFICES ASSUME ~clash, NEW p \in Alive'
                 PROVE  /\ image'[p] \in Entry
                        /\ Stored(p)' \/ \E g \in Frame : Storing(g, p)'
      BY <1>2 DEF Accounted
    <2>1. CASE p \in Alive /\ image'[p] = image[p]
      <3>1. image[p] \in Entry /\ image[p] # i /\ (Stored(p) \/ \E g \in Frame : Storing(g, p))
        BY <1>1, <2>1 DEF Accounted, Cleared
      <3>2. CASE Stored(p)
        BY <1>2, <2>1, <3>1, <3>2 DEF Stored
      <3>3. ASSUME NEW g \in Frame, Storing(g, p) PROVE Storing(g, p)'
        <4>1. g # f
          BY <3>1, <3>3 DEF Storing
        <4>2. pc'[g] = pc[g] /\ got'[g] = got[g]
          BY <1>2, <1>5, <4>1 DEF TypeOK
        <4> QED
          BY <1>2, <1>3, <2>1, <3>3, <4>2 DEF Storing
      <3> QED
        BY <2>1, <3>1, <3>2, <3>3
    <2>2. CASE image'[p] = i /\ got'[f] = p
      <3>1. Storing(f, p)'
        BY <1>1, <1>2, <1>3, <2>2 DEF Storing, TypeOK
      <3> QED
        BY <1>1, <2>2, <3>1
    <2> QED
      BY <1>7, <2>1, <2>2
  <1>14. Single'
    <2> SUFFICES ASSUME ~clash, NEW p \in Alive', NEW q \in Alive', p # q
                 PROVE  image'[p] # image'[q]
      BY <1>2 DEF Single
    <2>1. \A r \in Alive : image[r] # i
      BY <1>1 DEF Cleared
    <2> QED
      BY <1>7, <2>1 DEF Single
  <1>15. ForksSucceed'
    <2> SUFFICES ASSUME NEW p \in Pid, child'[p] = "none"
                 PROVE  /\ fate = "ok" /\ \A j \in Entry : pid[j] # -1
                        /\ \A g \in Frame : pc'[g] = "pid" => got'[g] # -1
      BY <1>2 DEF ForksSucceed
    <2>1. child[p] = "none" /\ p \in free
      BY <1>6
    <2>2. new \in Pid /\ new # -1 /\ got' = [got EXCEPT ![f] = new]
      BY <1>5, <2>1, TableAssumption DEF Pid
    <2> QED
      BY <1>2, <2>1, <2>2 DEF ForksSucceed, TypeOK
  <1>16. Reaped'
    BY <1>1, <1>2, <1>4, <1>5 DEF Reaped, TypeOK
  <1> QED
    BY <1>8, <1>9, <1>10, <1>11, <1>12, <1>13, <1>14, <1>15, <1>16

LEMMA StorePidKept ==
  ASSUME ChildInv, NEW f \in Frame, StorePid(f) PROVE ChildInv'
  <1> DEFINE i == Here(f)
  <1> USE DEF ChildInv
  <1>1. pc[f] = "pid" /\ todo[f] # {} /\ i \in Entry
    BY HereIn DEF StorePid, At, TypeOK, Starting
  <1>2. /\ pc' = [pc EXCEPT ![f] = "run"]
        /\ pid' = [pid EXCEPT ![i] = got[f]]
        /\ UNCHANGED <<run, crz, nproc, child, image, pending, ignored, todo, got,
                       reg, op, cmds, missed, clash, forks, fate>>
    BY DEF StorePid, Goto, kids, hist
  <1>3. \A g \in Frame : Here(g)' = Here(g)
    BY <1>2 DEF Here
  <1>4. TypeOK'
    BY <1>1, <1>2 DEF TypeOK, Starting
  <1>5. TableSeen'
    BY <1>1, <1>2 DEF TableSeen, TypeOK
  <1>6. StartsCounted'
    <2>1. \A g \in Frame, j \in Entry : /\ Passed(g, j)' <=> Passed(g, j)
                                        /\ Counting(g, j)' <=> Counting(g, j)
                                        /\ Counting(g, j) => reg'[g] = reg[g]
      BY <1>1, <1>2, <1>3 DEF Passed, Counting, TypeOK
    <2> QED
      BY <1>2, <2>1, CountKept
  <1>7. Apart'
    BY <1>1, <1>2, <1>3 DEF Apart, TypeOK, Starting
  <1>8. Cleared'
    BY <1>1, <1>2, <1>3 DEF Cleared, TypeOK, Alive
  <1>9. Accounted'
    <2> SUFFICES ASSUME ~clash, NEW p \in Alive
                 PROVE  /\ image[p] \in Entry
                        /\ Stored(p)' \/ \E g \in Frame : Storing(g, p)'
      BY <1>2 DEF Accounted, Alive
    <2>1. image[p] \in Entry /\ (Stored(p) \/ \E g \in Frame : Storing(g, p))
      BY DEF Accounted
    <2>2. CASE image[p] = i
      <3>1. got[f] = p
        BY <1>1, <2>2 DEF Cleared
      <3>2. Storing(f, p)'
        BY <1>1, <1>2, <1>3, <2>2, <3>1 DEF Storing, TypeOK
      <3> QED
        BY <2>1, <3>2
    <2>3. CASE image[p] # i
      <3>1. pid'[image[p]] = pid[image[p]]
        BY <1>2, <2>1, <2>3 DEF TypeOK
      <3>2. ASSUME NEW g \in Frame, Storing(g, p) PROVE Storing(g, p)'
        BY <1>1, <1>2, <1>3, <2>3, <3>1, <3>2 DEF Storing, TypeOK
      <3>3. Stored(p) => Stored(p)'
        BY <1>2, <3>1 DEF Stored
      <3> QED
        BY <2>1, <3>2, <3>3
    <2> QED
      BY <2>2, <2>3
  <1>10. Single'
    BY <1>2 DEF Single, Alive
  <1>11. ForksSucceed'
    BY <1>1, <1>2 DEF ForksSucceed, TypeOK
  <1>12. Reaped'
    BY <1>1, <1>2 DEF Reaped, TypeOK
  <1> QED
    BY <1>4, <1>5, <1>6, <1>7, <1>8, <1>9, <1>10, <1>11, <1>12

LEMMA StoreRunKept ==
  ASSUME ChildInv, NEW f \in Frame, StoreRun(f) PROVE ChildInv'
  <1> DEFINE i == Here(f)
  <1> USE DEF ChildInv
  <1>1. pc[f] = "run" /\ todo[f] # {} /\ i \in Entry
    BY HereIn DEF StoreRun, At, TypeOK, Starting
  <1>2. /\ run' = [run EXCEPT ![i] = 1]
        /\ reg' = [reg EXCEPT ![f] = crz[i]]
        /\ pc' = [pc EXCEPT ![f] = "count"]
        /\ UNCHANGED <<pid, crz, nproc, child, image, pending, ignored, todo, got, op,
                       cmds, missed, clash, forks, fate>>
    BY DEF StoreRun, Running, Goto, kids, hist
  <1>3. \A g \in Frame : Here(g)' = Here(g)
    BY <1>2 DEF Here
  <1>4. TypeOK'
    BY <1>1, <1>2 DEF TypeOK, Starting
  <1>5. TableSeen'
    BY <1>1, <1>2 DEF TableSeen, TypeOK
  <1>6. StartsCounted'
    <2> SUFFICES ASSUME ~clash, NEW j \in Entry
                 PROVE  CountedFor(j)'
      BY <1>2 DEF StartsCounted
    <2>0. CountedFor(j)
      BY DEF StartsCounted
    <2>1. \A g \in Frame : /\ Counting(g, j)' <=> Counting(g, j) \/ (g = f /\ j = i)
                           /\ Passed(g, j)' => Passed(g, j)
                           /\ g # f => reg'[g] = reg[g]
                           /\ Passed(g, j) => Passed(g, j)' \/ (g = f /\ j = i)
      BY <1>1, <1>2, <1>3 DEF Passed, Counting, TypeOK
    <2>2. Passed(f, i) /\ reg'[f] = crz[i] /\ ~Counting(f, j)
      BY <1>1, <1>2 DEF Passed, Counting, TypeOK
    <2> QED
      BY <1>2, <2>0, <2>1, <2>2 DEF CountedFor
  <1>7. Apart'
    BY <1>1, <1>2, <1>3 DEF Apart, TypeOK, Starting
  <1>8. Cleared'
    BY <1>1, <1>2, <1>3 DEF Cleared, TypeOK, Alive
  <1>9. Accounted'
    <2> SUFFICES ASSUME ~clash, NEW p \in Alive
                 PROVE  /\ image[p] \in Entry
                        /\ Stored(p)' \/ \E g \in Frame : Storing(g, p)'
      BY <1>2 DEF Accounted, Alive
    <2>1. image[p] \in Entry /\ (Stored(p) \/ \E g \in Frame : Storing(g, p))
      BY DEF Accounted
    <2>2. Stored(p) => Stored(p)'
      BY <1>1, <1>2, <2>1 DEF Stored, TypeOK
    <2>3. Storing(f, p) => Stored(p)'
      BY <1>1, <1>2, <2>1 DEF Stored, Storing, TypeOK
    <2>4. ASSUME NEW g \in Frame \ {f}, Storing(g, p) PROVE Storing(g, p)'
      BY <1>2, <1>3, <2>4 DEF Storing, TypeOK
    <2> QED
      BY <2>1, <2>2, <2>3, <2>4
  <1>10. Single'
    BY <1>2 DEF Single, Alive
  <1>11. ForksSucceed'
    BY <1>1, <1>2 DEF ForksSucceed, TypeOK
  <1>12. Reaped'
    BY <1>1, <1>2 DEF Reaped, TypeOK
  <1> QED
    BY <1>4, <1>5, <1>6, <1>7, <1>8, <1>9, <1>10, <1>11, <1>12

LEMMA CountStepKept ==
  ASSUME ChildInv, NEW f \in Frame, Count(f) PROVE ChildInv'
  <1> DEFINE i == Here(f)
  <1> USE DEF ChildInv
  <1>1. pc[f] = "count" /\ todo[f] # {} /\ i \in Entry
    BY HereIn DEF Count, At, TypeOK, Starting
  <1>2. /\ crz' = [crz EXCEPT ![i] = reg[f] + 1]
        /\ Return(f)
        /\ UNCHANGED <<run, pid, nproc, child, image, pending, ignored, cmds, missed,
                       clash, forks, fate>>
    BY DEF Count, kids, hist
  <1>3. /\ pc' = [pc EXCEPT ![f] = pc'[f]]
        /\ pc'[f] \in {"rearm", "pkill", "idle", "up"}
        /\ todo' = [todo EXCEPT ![f] = todo'[f]]
        /\ todo'[f] \in SUBSET Entry
        /\ pc'[f] \in {"pkill", "up"} => todo'[f] # {}
        /\ got' = [got EXCEPT ![f] = 0] /\ reg' = [reg EXCEPT ![f] = 0]
        /\ op' \in {"none", "conf", "up", "dn", "quit"}
        /\ pc' \in [Frame -> Starting \cup {"idle", "match", "rearm", "read", "up", "dn"}]
        /\ \A g \in Frame \ {f} : pc'[g] = pc[g] /\ Here(g)' = Here(g)
        /\ pc'["main"] = "read" <=> pc["main"] = "read"
    BY <1>1, <1>2, ReturnShape DEF Starting
  <1>4. StartsCounted'
    <2> SUFFICES ASSUME ~clash, NEW j \in Entry
                 PROVE  CountedFor(j)'
      BY <1>2 DEF StartsCounted
    <2>0. CountedFor(j)
      BY DEF StartsCounted
    <2>1. \A g \in Frame \ {f} : /\ Counting(g, j)' <=> Counting(g, j)
                                 /\ Passed(g, j)' <=> Passed(g, j)
                                 /\ reg'[g] = reg[g]
      BY <1>1, <1>3 DEF Passed, Counting, TypeOK
    <2>2. ~Passed(f, j)' /\ ~Counting(f, j)' /\ ~Passed(f, j)
      BY <1>1, <1>3 DEF Passed, Counting, TypeOK
    <2>3. CASE j # i
      <3>1. crz'[j] = crz[j] /\ ~Counting(f, j)
        BY <1>2, <2>3 DEF Counting, TypeOK
      <3> QED
        BY <1>2, <2>0, <2>1, <2>2, <3>1 DEF CountedFor
    <2>4. CASE j = i
      <3>1. \A g \in Frame \ {f} : ~Passed(g, j) /\ ~Counting(g, j)
        BY <1>1, <2>4 DEF Passed, Counting, Apart, Starting
      <3>2. reg[f] < MaxCrash /\ forks[j] <= reg[f] + 1 /\ forks[j] <= MaxCrash
        BY <1>1, <2>0, <2>4 DEF CountedFor, Counting
      <3>3. crz'[j] = reg[f] + 1 /\ reg[f] \in Nat /\ MaxCrash \in Nat
        BY <1>1, <1>2, <2>4, TableAssumption DEF TypeOK
      <3>4. crz'[j] <= MaxCrash /\ forks[j] <= crz'[j]
        BY <3>2, <3>3
      <3>5. \A g \in Frame : ~Passed(g, j)' /\ ~Counting(g, j)'
        BY <2>1, <2>2, <3>1
      <3> QED
        BY <1>2, <3>2, <3>4, <3>5 DEF CountedFor
    <2> QED
      BY <2>3, <2>4
  <1>5. TypeOK'
    <2>1. crz' \in [Entry -> Nat] /\ reg' \in [Frame -> Nat]
      BY <1>1, <1>2, <1>3 DEF TypeOK
    <2> QED
      BY <1>1, <1>2, <1>3, <2>1 DEF TypeOK, Starting
  <1>6. TableSeen'
    BY <1>2, <1>3 DEF TableSeen
  <1>7. Apart'
    BY <1>1, <1>2, <1>3 DEF Apart, TypeOK, Starting
  <1>8. Cleared'
    BY <1>1, <1>2, <1>3 DEF Cleared, TypeOK, Alive
  <1>9. Accounted'
    <2>1. ASSUME NEW g \in Frame, NEW p \in Alive, Storing(g, p) PROVE Storing(g, p)'
      <3>1. g # f
        BY <1>1, <2>1 DEF Storing
      <3>2. pc'[g] = pc[g] /\ got'[g] = got[g] /\ Here(g)' = Here(g)
        BY <1>3, <3>1 DEF TypeOK
      <3> QED
        BY <1>2, <2>1, <3>2 DEF Storing
    <2> QED
      BY <1>2, <2>1 DEF Accounted, Alive, Stored
  <1>10. Single'
    BY <1>2 DEF Single, Alive
  <1>11. ForksSucceed'
    BY <1>1, <1>2, <1>3 DEF ForksSucceed, TypeOK
  <1>12. Reaped'
    BY <1>1, <1>2, <1>3 DEF Reaped, TypeOK
  <1> QED
    BY <1>4, <1>5, <1>6, <1>7, <1>8, <1>9, <1>10, <1>11, <1>12

(* What only moves children on, or nothing but the handlers, keeps the     *)
(* rest.                                                                   *)
LEMMA ExitKept ==
  ASSUME ChildInv, NEW q \in Pid, Exit(q) PROVE ChildInv'
  <1> USE DEF ChildInv
  <1>1. /\ child' = [child EXCEPT ![q] = child'[q]]
        /\ child'[q] \in {"gone", "zombie"} /\ child[q] \in {"alive", "dying"}
        /\ pending' \in BOOLEAN /\ missed' \in BOOLEAN
        /\ image' = [image EXCEPT ![q] = 0]
        /\ UNCHANGED <<run, pid, crz, nproc, ignored, pc, todo, got, reg, op, cmds,
                       clash, forks, fate>>
    BY DEF Exit, table, frames, TypeOK
  <1>2. \A g \in Frame : Here(g)' = Here(g)
    BY <1>1 DEF Here
  <1>3. Alive' = Alive \ {q} /\ \A p \in Alive' : image'[p] = image[p]
    BY <1>1 DEF Alive, TypeOK
  <1>4. TypeOK'
    BY <1>1 DEF TypeOK
  <1>5. TableSeen' /\ Apart'
    BY <1>1, <1>2 DEF TableSeen, Apart
  <1>6. StartsCounted'
    <2>1. \A g \in Frame, j \in Entry : /\ Passed(g, j)' <=> Passed(g, j)
                                        /\ Counting(g, j)' <=> Counting(g, j)
                                        /\ Counting(g, j) => reg'[g] = reg[g]
      BY <1>1, <1>2 DEF Passed, Counting, TypeOK
    <2> QED
      BY <1>1, <2>1, CountKept
  <1>7. Cleared'
    BY <1>1, <1>2, <1>3 DEF Cleared
  <1>8. Accounted' /\ Single'
    BY <1>1, <1>2, <1>3 DEF Accounted, Single, Stored, Storing
  <1>9. ForksSucceed'
    BY <1>1 DEF ForksSucceed, TypeOK
  <1>10. Reaped'
    BY <1>1 DEF Reaped, TypeOK
  <1> QED
    BY <1>4, <1>5, <1>6, <1>7, <1>8, <1>9, <1>10

LEMMA DeliverKept ==
  ASSUME ChildInv, NEW f \in Handler, Deliver(f) PROVE ChildInv'
  <1> USE DEF ChildInv
  <1>1. f \in Frame /\ pc[f] = "idle"
    BY DEF Deliver, Frame, Handler
  <1>2. /\ pc' = [pc EXCEPT ![f] = "match"]
        /\ UNCHANGED <<run, pid, crz, nproc, image, ignored, todo, reg, op, cmds, missed,
                       clash, forks, fate>>
        /\ pending' = FALSE
    BY DEF Deliver, Goto, table, hist
  <1>3. /\ got' = [got EXCEPT ![f] = got'[f]] /\ got'[f] \in Pid \cup {-1, 0}
        /\ child' \in [Pid -> {"none", "alive", "dying", "zombie", "gone"}]
        /\ got'[f] \in Pid => child'[got'[f]] = "gone"
        /\ \A p \in Pid : child'[p] = child[p] \/ (child[p] = "zombie" /\ child'[p] = "gone")
    <2>1. CASE \E p \in Pid : /\ child[p] = "zombie"
                              /\ child' = [child EXCEPT ![p] = "gone"]
                              /\ got' = [got EXCEPT ![f] = p]
      BY <1>1, <2>1 DEF TypeOK
    <2>2. CASE /\ child' = child
               /\ got' = [got EXCEPT ![f] = IF \E p \in Pid : child[p] \in {"alive", "dying"}
                                            THEN 0 ELSE -1]
      BY <1>1, <2>2, TableAssumption DEF TypeOK, Pid
    <2> QED
      BY <2>1, <2>2 DEF Deliver
  <1>4. \A g \in Frame : Here(g)' = Here(g)
    BY <1>2 DEF Here
  <1>5. Alive' = Alive
    BY <1>3 DEF Alive
  <1>6. TypeOK'
    BY <1>1, <1>2, <1>3 DEF TypeOK, Starting
  <1>7. TableSeen' /\ Apart'
    BY <1>1, <1>2, <1>4 DEF TableSeen, Apart, TypeOK, Handler, Starting
  <1>8. StartsCounted'
    <2>1. \A g \in Frame, j \in Entry : /\ Passed(g, j)' <=> Passed(g, j)
                                        /\ Counting(g, j)' <=> Counting(g, j)
                                        /\ Counting(g, j) => reg'[g] = reg[g]
      BY <1>1, <1>2, <1>4 DEF Passed, Counting, TypeOK
    <2> QED
      BY <1>2, <2>1, CountKept
  <1>9. Cleared'
    BY <1>1, <1>2, <1>3, <1>4, <1>5 DEF Cleared, TypeOK
  <1>10. Accounted'
    <2>1. ASSUME NEW p \in Alive, NEW g \in Frame, Storing(g, p) PROVE Storing(g, p)'
      BY <1>1, <1>2, <1>3, <1>4, <2>1 DEF Storing, TypeOK
    <2> QED
      BY <1>2, <1>5, <2>1 DEF Accounted, Stored
  <1>11. Single'
    BY <1>2, <1>5 DEF Single
  <1>12. ForksSucceed'
    BY <1>1, <1>2, <1>3 DEF ForksSucceed, TypeOK
  <1>13. Reaped'
    BY <1>1, <1>2, <1>3 DEF Reaped, TypeOK
  <1> QED
    BY <1>6, <1>7, <1>8, <1>9, <1>10, <1>11, <1>12, <1>13

(* The handler forgets the pid of a child that has been reaped: no child   *)
(* that runs loses its place in the table.                                 *)
LEMMA MatchKept ==
  ASSUME ChildInv, NEW f \in Handler, Match(f) PROVE ChildInv'
  <1> USE DEF ChildInv
  <1>1. f \in Frame /\ pc[f] = "match"
    BY DEF Match, At, Frame, Handler
  <1>2. /\ pc' = [pc EXCEPT ![f] = IF Dead(f) = {} THEN "rearm" ELSE "pkill"]
        /\ pid' = [i \in Entry |-> IF i \in Dead(f) THEN 0 ELSE pid[i]]
        /\ todo' = [todo EXCEPT ![f] = Dead(f)]
        /\ got' = [got EXCEPT ![f] = 0]
        /\ missed' = (missed \/ nproc = 0)
        /\ UNCHANGED <<run, crz, nproc, child, image, pending, ignored, reg, op, cmds,
                       clash, forks, fate>>
    BY DEF Match, Goto, Handle, kids
  <1>3. Dead(f) \in SUBSET Entry /\ \A i \in Dead(f) : pid[i] = got[f]
    BY DEF Dead, Visible
  <1>4. \A g \in Frame \ {f} : Here(g)' = Here(g) /\ pc'[g] = pc[g]
    BY <1>2 DEF Here, TypeOK
  <1>5. pc'[f] \in {"rearm", "pkill"}
    BY <1>1, <1>2 DEF TypeOK
  <1>6. Alive' = Alive
    BY <1>2 DEF Alive
  <1>7. TypeOK'
    BY <1>1, <1>2, <1>3, <1>4 DEF TypeOK, Starting
  <1>8. TableSeen'
    BY <1>2, <1>4 DEF TableSeen, Handler, Frame
  <1>9. Apart'
    BY <1>2, <1>4, <1>5 DEF Apart, Starting
  <1>10. StartsCounted'
    <2>1. \A g \in Frame, j \in Entry : /\ Passed(g, j)' <=> Passed(g, j)
                                        /\ Counting(g, j)' <=> Counting(g, j)
                                        /\ Counting(g, j) => reg'[g] = reg[g]
      BY <1>1, <1>2, <1>4, <1>5 DEF Passed, Counting, TypeOK
    <2> QED
      BY <1>2, <2>1, CountKept
  <1>11. Cleared'
    BY <1>1, <1>2, <1>4, <1>5, <1>6 DEF Cleared, TypeOK
  <1>12. Accounted'
    <2> SUFFICES ASSUME ~clash, NEW p \in Alive
                 PROVE  /\ image[p] \in Entry
                        /\ Stored(p)' \/ \E g \in Frame : Storing(g, p)'
      BY <1>2, <1>6 DEF Accounted
    <2>1. image[p] \in Entry /\ (Stored(p) \/ \E g \in Frame : Storing(g, p))
      BY DEF Accounted
    <2>2. pid[image[p]] = p => pid'[image[p]] = p
      <3>1. p \in Pid /\ child[p] # "gone"
        BY DEF Alive
      <3>2. got[f] # p
        BY <1>1, <3>1 DEF Reaped
      <3> QED
        BY <1>2, <1>3, <2>1, <3>2 DEF TypeOK
    <2>3. Stored(p) => Stored(p)'
      BY <1>2, <2>2 DEF Stored
    <2>4. ASSUME NEW g \in Frame, Storing(g, p) PROVE Storing(g, p)'
      BY <1>1, <1>2, <1>4, <2>2, <2>4 DEF Storing, TypeOK
    <2> QED
      BY <2>1, <2>3, <2>4
  <1>13. Single'
    BY <1>2, <1>6 DEF Single
  <1>14. ForksSucceed'
    BY <1>1, <1>2, <1>4, <1>5 DEF ForksSucceed, TypeOK
  <1>15. Reaped'
    BY <1>1, <1>2, <1>4, <1>5 DEF Reaped, TypeOK
  <1> QED
    BY <1>7, <1>8, <1>9, <1>10, <1>11, <1>12, <1>13, <1>14, <1>15

LEMMA RearmKept ==
  ASSUME ChildInv, NEW f \in Handler, Rearm(f) PROVE ChildInv'
  <1> USE DEF ChildInv
  <1>1. f \in Frame /\ pc[f] = "rearm"
    BY DEF Rearm, At, Frame, Handler
  <1>2. /\ pc' = [pc EXCEPT ![f] = "idle"] /\ ignored' = FALSE
        /\ UNCHANGED <<run, pid, crz, nproc, child, image, pending, todo, got, reg, op,
                       cmds, missed, clash, forks, fate>>
    BY DEF Rearm, Goto, table, kids, hist
  <1>3. \A g \in Frame : Here(g)' = Here(g)
    BY <1>2 DEF Here
  <1>4. TypeOK'
    BY <1>1, <1>2 DEF TypeOK, Starting
  <1>5. TableSeen' /\ Apart'
    BY <1>1, <1>2, <1>3 DEF TableSeen, Apart, TypeOK, Handler, Starting
  <1>6. StartsCounted'
    <2>1. \A g \in Frame, j \in Entry : /\ Passed(g, j)' <=> Passed(g, j)
                                        /\ Counting(g, j)' <=> Counting(g, j)
                                        /\ Counting(g, j) => reg'[g] = reg[g]
      BY <1>1, <1>2, <1>3 DEF Passed, Counting, TypeOK
    <2> QED
      BY <1>2, <2>1, CountKept
  <1>7. Cleared'
    BY <1>1, <1>2, <1>3 DEF Cleared, TypeOK, Alive
  <1>8. Accounted'
    BY <1>1, <1>2, <1>3 DEF Accounted, Stored, Storing, TypeOK, Alive
  <1>9. Single'
    BY <1>2 DEF Single, Alive
  <1>10. ForksSucceed' /\ Reaped'
    BY <1>1, <1>2 DEF ForksSucceed, Reaped, TypeOK
  <1> QED
    BY <1>4, <1>5, <1>6, <1>7, <1>8, <1>9, <1>10

(* The operator's commands only set up main's loop.                        *)
LEMMA CommandKept ==
  ASSUME ChildInv, NEW what \in {"conf", "up", "dn"}, NEW where \in {"read", "up", "dn"},
         NEW S \in SUBSET Entry, where # "read" => S # {},
         Command(what, where, S)
  PROVE  ChildInv'
  <1> USE DEF ChildInv
  <1>1. "main" \in Frame /\ pc["main"] = "idle"
    BY DEF Command, At, Frame
  <1>2. /\ pc' = [pc EXCEPT !["main"] = where] /\ todo' = [todo EXCEPT !["main"] = S]
        /\ cmds' = cmds + 1 /\ cmds < MaxCmds /\ op' = what
        /\ UNCHANGED <<run, pid, crz, nproc, child, image, pending, ignored, got, reg,
                       missed, clash, forks, fate>>
    BY DEF Command, Goto, table, kids, hist
  <1>3. /\ pc'["main"] = where
        /\ \A g \in Frame \ {"main"} : pc'[g] = pc[g] /\ Here(g)' = Here(g)
    BY <1>1, <1>2 DEF Here, TypeOK
  <1>4. TypeOK'
    BY <1>1, <1>2, TableAssumption DEF TypeOK, Starting
  <1>5. TableSeen'
    BY <1>1, <1>2, <1>3 DEF TableSeen
  <1>6. Apart'
    BY <1>2, <1>3 DEF Apart, Starting
  <1>7. StartsCounted'
    <2>1. \A g \in Frame, j \in Entry : /\ Passed(g, j)' <=> Passed(g, j)
                                        /\ Counting(g, j)' <=> Counting(g, j)
                                        /\ Counting(g, j) => reg'[g] = reg[g]
      BY <1>1, <1>2, <1>3 DEF Passed, Counting, TypeOK
    <2> QED
      BY <1>2, <2>1, CountKept
  <1>8. Cleared'
    BY <1>2, <1>3 DEF Cleared, Alive
  <1>9. Accounted'
    BY <1>1, <1>2, <1>3 DEF Accounted, Stored, Storing, Alive
  <1>10. Single'
    BY <1>2 DEF Single, Alive
  <1>11. ForksSucceed' /\ Reaped'
    BY <1>2, <1>3 DEF ForksSucceed, Reaped
  <1> QED
    BY <1>4, <1>5, <1>6, <1>7, <1>8, <1>9, <1>10, <1>11

LEMMA ReadTableKept ==
  ASSUME ChildInv, ReadTable PROVE ChildInv'
  <1> USE DEF ChildInv
  <1>1. "main" \in Frame /\ pc["main"] = "read"
    BY DEF ReadTable, At, Frame
  <1>2. /\ UNCHANGED <<run, pid, child, image, pending, ignored, got, reg, op, cmds,
                       missed, clash, fate>>
        /\ \/ nproc' = 0 /\ UNCHANGED <<crz, forks, todo, pc>>
           \/ /\ nproc' = Cardinality(Entry)
              /\ crz' = [i \in Entry |-> 0] /\ forks' = [i \in Entry |-> 0]
              /\ todo' = [todo EXCEPT !["main"] = Entry]
              /\ pc' = [pc EXCEPT !["main"] = "pkill"]
    BY DEF ReadTable, Goto, kids, hist
  <1>3. /\ pc'["main"] \in {"read", "pkill"}
        /\ \A g \in Frame \ {"main"} : pc'[g] = pc[g] /\ Here(g)' = Here(g)
    BY <1>1, <1>2 DEF Here, TypeOK
  <1>4. TypeOK'
    <2>1. nproc' \in Nat
      BY <1>2, TableAssumption, EntryNat DEF TypeOK
    <2>2. crz' \in [Entry -> Nat] /\ forks' \in [Entry -> Nat]
      BY <1>2 DEF TypeOK
    <2>3. todo' \in [Frame -> SUBSET Entry]
      BY <1>2 DEF TypeOK
    <2>4. pc' \in [Frame -> Starting \cup {"idle", "match", "rearm", "read", "up", "dn"}]
      BY <1>2 DEF TypeOK, Starting
    <2>5. \A f \in Frame : pc'[f] \in Starting \cup {"up", "dn"} => todo'[f] # {}
      BY <1>1, <1>2, TableAssumption DEF TypeOK, Starting
    <2> QED
      BY <1>2, <2>1, <2>2, <2>3, <2>4, <2>5 DEF TypeOK
  <1>5. TableSeen'
    BY <1>1, <1>2, <1>3 DEF TableSeen
  <1>6. Apart'
    BY <1>2, <1>3 DEF Apart, Starting
  <1>7. StartsCounted'
    <2> SUFFICES ASSUME ~clash, NEW j \in Entry
                 PROVE  CountedFor(j)'
      BY <1>2 DEF StartsCounted
    <2>0. CountedFor(j) /\ reg' = reg
      BY <1>2 DEF StartsCounted
    <2>1. \A g \in Frame : /\ Counting(g, j)' <=> Counting(g, j)
                           /\ Passed(g, j)' <=> Passed(g, j)
      BY <1>1, <1>3 DEF Passed, Counting
    <2>2. \/ crz'[j] = crz[j] /\ forks'[j] = forks[j]
          \/ crz'[j] = 0 /\ forks'[j] = 0
      BY <1>2
    <2> QED
      BY <2>0, <2>1, <2>2, CountCleared
  <1>8. Cleared'
    BY <1>2, <1>3 DEF Cleared, Alive
  <1>9. Accounted'
    BY <1>1, <1>2, <1>3 DEF Accounted, Stored, Storing, Alive
  <1>10. Single'
    BY <1>2 DEF Single, Alive
  <1>11. ForksSucceed' /\ Reaped'
    BY <1>2, <1>3 DEF ForksSucceed, Reaped
  <1> QED
    BY <1>4, <1>5, <1>6, <1>7, <1>8, <1>9, <1>10, <1>11

(* An entry whose run flag the operator clears has its child killed.       *)
LEMMA StopKeepsAccount ==
  ASSUME TypeOK, Accounted, NEW i \in Entry, Stop(i), UNCHANGED <<pid, image, clash>>,
         pc["main"] \in {"up", "dn"},
         \A g \in Frame \ {"main"} : pc'[g] = pc[g] /\ Here(g)' = Here(g) /\ got'[g] = got[g]
  PROVE  /\ Accounted'
         /\ child' \in [Pid -> {"none", "alive", "dying", "zombie", "gone"}]
         /\ \A p \in Pid : child'[p] = child[p] \/ (child[p] = "alive" /\ child'[p] = "dying")
         /\ run' = [run EXCEPT ![i] = 0]
  <1>1. /\ child' \in [Pid -> {"none", "alive", "dying", "zombie", "gone"}]
        /\ \A p \in Pid : child'[p] = child[p] \/ (child[p] = "alive" /\ child'[p] = "dying")
        /\ run' = [run EXCEPT ![i] = 0]
    BY DEF Stop, Killed, TypeOK
  <1>2. \A p \in Alive' : p \in Alive /\ pid[i] # p
    BY <1>1 DEF Alive, Stop, Killed, TypeOK
  <1>3. Accounted'
    <2> SUFFICES ASSUME ~clash, NEW p \in Alive'
                 PROVE  /\ image[p] \in Entry
                        /\ Stored(p)' \/ \E g \in Frame : Storing(g, p)'
      BY DEF Accounted
    <2>1. p \in Alive /\ image[p] \in Entry /\ (Stored(p) \/ \E g \in Frame : Storing(g, p))
      BY <1>2 DEF Accounted
    <2>2. Stored(p) => Stored(p)'
      BY <1>1, <1>2, <2>1 DEF Stored, TypeOK
    <2>3. ASSUME NEW g \in Frame, Storing(g, p) PROVE Storing(g, p)'
      BY <2>3 DEF Storing
    <2> QED
      BY <2>1, <2>2, <2>3
  <1> QED
    BY <1>1, <1>3

LEMMA UpKept ==
  ASSUME ChildInv, Up PROVE ChildInv'
  <1> DEFINE i == Here("main")
  <1> USE DEF ChildInv
  <1>1. "main" \in Frame /\ pc["main"] = "up" /\ todo["main"] # {} /\ i \in Entry
    BY HereIn DEF Up, At, TypeOK, Starting, Frame
  <1>2. /\ Stop(i) /\ pc' = [pc EXCEPT !["main"] = "pkill"]
        /\ UNCHANGED <<pid, crz, nproc, image, pending, ignored, todo, got, reg, op,
                       cmds, missed, clash, forks, fate>>
    BY DEF Up, Goto, hist
  <1>3. /\ pc'["main"] = "pkill"
        /\ \A g \in Frame \ {"main"} : pc'[g] = pc[g]
        /\ \A g \in Frame : Here(g)' = Here(g)
    BY <1>1, <1>2 DEF Here, TypeOK
  <1>4. /\ Accounted'
        /\ child' \in [Pid -> {"none", "alive", "dying", "zombie", "gone"}]
        /\ \A p \in Pid : child'[p] = child[p] \/ (child[p] = "alive" /\ child'[p] = "dying")
        /\ run' = [run EXCEPT ![i] = 0]
    BY <1>1, <1>2, <1>3, StopKeepsAccount
  <1>5. TypeOK'
    BY <1>1, <1>2, <1>4 DEF TypeOK, Starting
  <1>6. TableSeen' /\ Apart'
    BY <1>1, <1>2, <1>3 DEF TableSeen, Apart, Starting
  <1>7. StartsCounted'
    <2>1. \A g \in Frame, j \in Entry : /\ Passed(g, j)' <=> Passed(g, j)
                                        /\ Counting(g, j)' <=> Counting(g, j)
                                        /\ Counting(g, j) => reg'[g] = reg[g]
      BY <1>1, <1>2, <1>3 DEF Passed, Counting, TypeOK
    <2> QED
      BY <1>2, <2>1, CountKept
  <1>8. Cleared' /\ Single'
    BY <1>2, <1>3, <1>4 DEF Cleared, Single, Alive
  <1>9. ForksSucceed' /\ Reaped'
    BY <1>2, <1>3, <1>4 DEF ForksSucceed, Reaped
  <1> QED
    BY <1>4, <1>5, <1>6, <1>7, <1>8, <1>9

LEMMA DnKept ==
  ASSUME ChildInv, Dn PROVE ChildInv'
  <1> DEFINE i == Here("main")
  <1> USE DEF ChildInv
  <1>1. "main" \in Frame /\ pc["main"] = "dn" /\ todo["main"] # {} /\ i \in Entry
        /\ i \in todo["main"]
    BY HereIn DEF Dn, At, TypeOK, Starting, Frame
  <1>2. /\ Stop(i)
        /\ pc' = [pc EXCEPT !["main"] = IF todo["main"] = {i} THEN "idle" ELSE "dn"]
        /\ todo' = [todo EXCEPT !["main"] = @ \ {i}]
        /\ op' \in {"none", op}
        /\ UNCHANGED <<pid, crz, nproc, image, pending, ignored, got, reg, cmds,
                       missed, clash, forks, fate>>
    BY DEF Dn, Goto, hist
  <1>3. /\ pc'["main"] \in {"idle", "dn"}
        /\ pc'["main"] = "dn" => todo'["main"] # {}
        /\ \A g \in Frame \ {"main"} : pc'[g] = pc[g] /\ Here(g)' = Here(g)
    BY <1>1, <1>2 DEF Here, TypeOK
  <1>4. /\ Accounted'
        /\ child' \in [Pid -> {"none", "alive", "dying", "zombie", "gone"}]
        /\ \A p \in Pid : child'[p] = child[p] \/ (child[p] = "alive" /\ child'[p] = "dying")
        /\ run' = [run EXCEPT ![i] = 0]
    BY <1>1, <1>2, <1>3, StopKeepsAccount
  <1>5. TypeOK'
    BY <1>1, <1>2, <1>3, <1>4 DEF TypeOK, Starting
  <1>6. TableSeen' /\ Apart'
    BY <1>1, <1>2, <1>3 DEF TableSeen, Apart, Starting
  <1>7. StartsCounted'
    <2>1. \A g \in Frame, j \in Entry : /\ Passed(g, j)' <=> Passed(g, j)
                                        /\ Counting(g, j)' <=> Counting(g, j)
                                        /\ Counting(g, j) => reg'[g] = reg[g]
      BY <1>1, <1>2, <1>3 DEF Passed, Counting, TypeOK
    <2> QED
      BY <1>2, <2>1, CountKept
  <1>8. Cleared' /\ Single'
    BY <1>2, <1>3, <1>4 DEF Cleared, Single, Alive
  <1>9. ForksSucceed' /\ Reaped'
    BY <1>2, <1>3, <1>4 DEF ForksSucceed, Reaped
  <1> QED
    BY <1>4, <1>5, <1>6, <1>7, <1>8, <1>9

LEMMA QuitKept ==
  ASSUME ChildInv, Quit PROVE ChildInv'
  <1> USE DEF ChildInv
  <1>1. /\ cmds' = cmds + 1 /\ cmds < MaxCmds /\ op' = "quit" /\ ignored' = TRUE
        /\ pending' = FALSE
        /\ UNCHANGED <<run, pid, crz, nproc, image, pc, todo, got, reg, missed, clash,
                       forks, fate>>
    BY DEF Quit, table, frames, hist
  <1>2. /\ child' \in [Pid -> {"none", "alive", "dying", "zombie", "gone"}]
        /\ \A p \in Pid : child'[p] = child[p] \/ (child[p] = "alive" /\ child'[p] = "dying")
    BY DEF Quit, TypeOK
  <1>3. \A g \in Frame : Here(g)' = Here(g)
    BY <1>1 DEF Here
  <1>4. Alive' \subseteq Alive
    BY <1>2 DEF Alive
  <1>5. TypeOK'
    <2>1. cmds' \in 0..MaxCmds
      BY <1>1, TableAssumption DEF TypeOK
    <2> QED
      BY <1>1, <1>2, <2>1 DEF TypeOK
  <1>6. TableSeen' /\ Apart'
    BY <1>1, <1>3 DEF TableSeen, Apart
  <1>7. StartsCounted'
    <2>1. \A g \in Frame, j \in Entry : /\ Passed(g, j)' <=> Passed(g, j)
                                        /\ Counting(g, j)' <=> Counting(g, j)
                                        /\ Counting(g, j) => reg'[g] = reg[g]
      BY <1>1, <1>3 DEF Passed, Counting, TypeOK
    <2> QED
      BY <1>1, <2>1, CountKept
  <1>8. Cleared' /\ Single'
    BY <1>1, <1>3, <1>4 DEF Cleared, Single
  <1>9. Accounted'
    BY <1>1, <1>3, <1>4 DEF Accounted, Stored, Storing
  <1>10. ForksSucceed' /\ Reaped'
    BY <1>1, <1>2 DEF ForksSucceed, Reaped
  <1> QED
    BY <1>5, <1>6, <1>7, <1>8, <1>9, <1>10

LEMMA SecondKept ==
  ASSUME ChildInv, NEW i \in Entry, Second(i) PROVE ChildInv'
  <1> USE DEF ChildInv
  <1>1. /\ crz' = [crz EXCEPT ![i] = 0] /\ forks' = [forks EXCEPT ![i] = 0]
        /\ UNCHANGED <<run, pid, nproc, child, image, pending, ignored, pc, todo, got,
                       reg, op, cmds, missed, clash, fate>>
    BY DEF Second, kids, frames
  <1>2. \A g \in Frame : Here(g)' = Here(g)
    BY <1>1 DEF Here
  <1>3. TypeOK'
    BY <1>1 DEF TypeOK
  <1>4. TableSeen' /\ Apart'
    BY <1>1, <1>2 DEF TableSeen, Apart
  <1>5. StartsCounted'
    <2> SUFFICES ASSUME ~clash, NEW j \in Entry
                 PROVE  CountedFor(j)'
      BY <1>1 DEF StartsCounted
    <2>0. CountedFor(j) /\ reg' = reg
      BY <1>1 DEF StartsCounted
    <2>1. \A g \in Frame : /\ Counting(g, j)' <=> Counting(g, j)
                           /\ Passed(g, j)' <=> Passed(g, j)
      BY <1>1, <1>2 DEF Passed, Counting
    <2>2. \/ crz'[j] = crz[j] /\ forks'[j] = forks[j]
          \/ crz'[j] = 0 /\ forks'[j] = 0
      BY <1>1 DEF TypeOK
    <2> QED
      BY <2>0, <2>1, <2>2, CountCleared
  <1>6. Cleared' /\ Single'
    BY <1>1, <1>2 DEF Cleared, Single, Alive
  <1>7. Accounted'
    BY <1>1, <1>2 DEF Accounted, Stored, Storing, Alive
  <1>8. ForksSucceed' /\ Reaped'
    BY <1>1 DEF ForksSucceed, Reaped
  <1> QED
    BY <1>3, <1>4, <1>5, <1>6, <1>7, <1>8

-----------------------------------------------------------------------------
(* The invariant, and what follows from it.                                *)

LEMMA InitKept == Init => ChildInv
  <1> SUFFICES ASSUME Init PROVE ChildInv
    OBVIOUS
  <1> USE DEF Init
  <1>0. 0 \in 0..MaxCmds
    BY TableAssumption
  <1>1. TypeOK
    <2>1. cmds \in 0..MaxCmds
      BY <1>0, Zenon
    <2>2. /\ run \in [Entry -> {0, 1}] /\ pid \in [Entry -> Pid \cup {-1, 0}]
          /\ child \in [Pid -> {"none", "alive", "dying", "zombie", "gone"}]
          /\ image \in [Pid -> Nat] /\ nproc \in Nat /\ crz \in [Entry -> Nat]
          /\ reg \in [Frame -> Nat] /\ forks \in [Entry -> Nat]
          /\ got \in [Frame -> Pid \cup {-1, 0}]
      OBVIOUS
    <2>3. /\ pc \in [Frame -> Starting \cup {"idle", "match", "rearm", "read", "up", "dn"}]
          /\ todo \in [Frame -> SUBSET Entry]
          /\ \A f \in Frame : pc[f] \notin Starting \cup {"up", "dn"}
      BY DEF Starting
    <2> QED
      BY <2>1, <2>2, <2>3 DEF TypeOK
  <1>2. \A f \in Frame : pc[f] \in {"read", "idle"}
    OBVIOUS
  <1>3. Alive = {}
    BY DEF Alive
  <1>4. TableSeen
    BY <1>2 DEF TableSeen, Frame
  <1>5. StartsCounted
    <2>1. \A j \in Entry : /\ crz[j] = 0 /\ forks[j] = 0
                           /\ \A f \in Frame : ~Passed(f, j) /\ ~Counting(f, j)
      BY <1>2 DEF Passed, Counting
    <2> QED
      BY <2>1, TableAssumption DEF StartsCounted, CountedFor
  <1>6. Apart /\ Reaped
    BY <1>2 DEF Apart, Reaped, Starting
  <1>7. Cleared /\ Single /\ Accounted
    BY <1>3 DEF Cleared, Single, Accounted
  <1>8. ForksSucceed
    BY <1>2 DEF ForksSucceed
  <1> QED
    BY <1>1, <1>4, <1>5, <1>6, <1>7, <1>8 DEF ChildInv

(* While main waits for a command the table can be seen, and is not empty. *)
LEMMA VisibleThen ==
  ASSUME ChildInv, pc["main"] = "idle" PROVE Visible \in SUBSET Entry /\ Visible # {}
  <1>1. nproc = Cardinality(Entry)
    BY DEF ChildInv, TableSeen
  <1>2. PICK n \in Nat \ {0} : n = Cardinality(Entry) /\ Entry = 0..(n - 1)
    BY EntryNat, TableAssumption
  <1>3. 0 \in 0..(n - 1) /\ 0 < n
    OBVIOUS
  <1>4. 0 \in Entry /\ 0 < nproc
    BY <1>1, <1>2, <1>3, Zenon
  <1> QED
    BY <1>4 DEF Visible

LEMMA NextKept == ChildInv /\ [Next]_vars => ChildInv'
  <1> SUFFICES ASSUME ChildInv, [Next]_vars PROVE ChildInv'
    OBVIOUS
  <1>1. CASE UNCHANGED vars
    <2> USE <1>1 DEF vars, table, kids, frames, hist
    <2>1. TypeOK' /\ TableSeen' /\ Reaped' /\ ForksSucceed'
      BY DEF ChildInv, TypeOK, TableSeen, Reaped, ForksSucceed
    <2>2. StartsCounted' /\ Apart' /\ Cleared'
      BY DEF ChildInv, StartsCounted, CountedFor, Passed, Counting, Apart, Cleared,
             Here, Alive
    <2>3. Accounted' /\ Single'
      BY DEF ChildInv, Accounted, Single, Stored, Storing, Here, Alive
    <2> QED
      BY <2>1, <2>2, <2>3 DEF ChildInv
  <1>2. ASSUME NEW f \in Frame, Start(f) PROVE ChildInv'
    BY <1>2, PKillKept, GiveUpKept, ForkKept, StorePidKept, StoreRunKept,
       CountStepKept DEF Start
  <1>3. ASSUME NEW f \in Handler, Sig(f) PROVE ChildInv'
    BY <1>3, DeliverKept, MatchKept, RearmKept DEF Sig
  <1>4. ASSUME NEW p \in Pid, Exit(p) PROVE ChildInv'
    BY <1>4, ExitKept
  <1>5. CASE Main
    <2>1. ASSUME NEW S \in {{i} : i \in Visible} \cup {Visible},
                 NEW what \in {"up", "dn"}, Command(what, what, S)
          PROVE  ChildInv'
      <3>1. pc["main"] = "idle"
        BY <2>1 DEF Command, At
      <3>2. S \in SUBSET Entry /\ S # {}
        BY <3>1, VisibleThen
      <3> QED
        BY <2>1, <3>2, CommandKept
    <2>2. CASE ProcUp \/ ProcDn
      BY <2>1, <2>2 DEF ProcUp, ProcDn
    <2>3. CASE ProcConf
      BY <2>3, CommandKept DEF ProcConf
    <2> QED
      BY <1>5, <2>2, <2>3, ReadTableKept, UpKept, DnKept, QuitKept DEF Main
  <1>6. ASSUME NEW i \in Entry, Second(i) PROVE ChildInv'
    BY <1>6, SecondKept
  <1> QED
    BY <1>1, <1>2, <1>3, <1>4, <1>5, <1>6 DEF Next

(* The invariant holds of every behaviour of the supervisor.               *)
THEOREM ChildInvariant == Spec => []ChildInv
  BY InitKept, NextKept, PTL DEF Spec

(* The variables of shell.c have the values their C types, and the bounds, *)
(* allow, and a loop that is under way has an entry to visit.              *)
THEOREM SupervisorTypes == Spec => []TypeOK
  <1>1. ChildInv => TypeOK
    BY DEF ChildInv
  <1> QED
    BY <1>1, ChildInvariant, PTL

(* As long as no entry is being started twice at once, two instances of a  *)
(* program never run at once; no entry is forked more often than the crash *)
(* limit allows between two clearings of its counter, which get_proc_info  *)
(* may do at any point of a start, also between the load and the store of  *)
(* the increment; and kill(-1, SIGKILL) needs a fork that failed.          *)
THEOREM OneInstanceEach == Spec => []OneInstance
  <1>1. ChildInv => OneInstance
    <2> SUFFICES ASSUME ChildInv, ~clash PROVE OneInstance
      BY DEF OneInstance
    <2>1. \A p, q \in Alive : p # q => image[p] # image[q]
      BY DEF ChildInv, Single
    <2>2. \A i \in Entry : forks[i] <= MaxCrash
      BY DEF ChildInv, StartsCounted, CountedFor
    <2>3. (\E p \in Pid : child[p] = "none") => fate = "ok"
      BY DEF ChildInv, ForksSucceed
    <2> QED
      BY <2>1, <2>2, <2>3 DEF OneInstance
  <1> QED
    BY <1>1, ChildInvariant, PTL

(* Whenever nothing is under way, the table names every child that runs.   *)
THEOREM TableNamesChildren == Spec => []TableTrue
  <1>1. ChildInv => TableTrue
    <2> SUFFICES ASSUME ChildInv, ~clash, Idle, NEW p \in Alive PROVE Stored(p)
      BY DEF TableTrue, Stored
    <2>1. \A f \in Frame : ~Storing(f, p)
      BY DEF Storing, Idle
    <2> QED
      BY <2>1 DEF ChildInv, Accounted
  <1> QED
    BY <1>1, ChildInvariant, PTL
=============================================================================

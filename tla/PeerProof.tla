------------------------------ MODULE PeerProof ------------------------------
(***************************************************************************)
(* Proofs about Peer, for every set of addresses, heap cells and           *)
(* application threads, and all the periods the assumption allows.         *)
(***************************************************************************)
EXTENDS Peer, FiniteSetTheorems, WellFoundedInduction, TLAPS

-----------------------------------------------------------------------------
(* Lemmas about the list.                                                  *)

LEMMA LeastNat ==
  ASSUME NEW S \in SUBSET Nat, S # {} PROVE \E x \in S : \A y \in S : x <= y
  <1>1. PICK x \in S : \A y \in S : <<y, x>> \notin OpToRel(<, Nat)
    BY NatLessThanWellFounded, WFMin, Zenon
  <1>2. \A y \in S : ~(y < x)
    BY <1>1, Zenon DEF OpToRel
  <1>3. \A y \in S : x <= y
    BY <1>2
  <1> QED
    BY <1>3

(* peerhash puts a peer behind the last one whose predecessors and itself  *)
(* have no greater address.                                                *)
LEMMA HashedAt ==
  ASSUME list \in Seq(Node), NEW n \in Node, NEW a \in Int,
         \A i \in 1..Len(list) : cell[list[i]].addr \in Int
  PROVE  \E k \in 0..Len(list) :
           /\ Hashed(n, a) = [i \in 1..(Len(list) + 1) |->
                IF i <= k THEN list[i] ELSE IF i = k + 1 THEN n ELSE list[i - 1]]
           /\ \A j \in 1..k : cell[list[j]].addr <= a
           /\ k < Len(list) => cell[list[k + 1]].addr > a
  <1> DEFINE S == {i \in 1..Len(list) : \A j \in 1..i : cell[list[j]].addr <= a}
             Over == {i \in 1..Len(list) : cell[list[i]].addr > a}
  <1>1. Len(list) \in Nat
    OBVIOUS
  <1>2. \E k \in 0..Len(list) :
          /\ \A j \in 1..k : cell[list[j]].addr <= a
          /\ k < Len(list) => cell[list[k + 1]].addr > a
    <2>1. CASE Over = {}
      <3>1. \A j \in 1..Len(list) : cell[list[j]].addr <= a
        BY <2>1
      <3> QED
        BY <1>1, <3>1
    <2>2. CASE Over # {}
      <3>1. PICK x \in Over : \A y \in Over : x <= y
        <4>1. Over \in SUBSET Nat
          BY <1>1
        <4> HIDE DEF Over
        <4> QED
          BY <2>2, <4>1, LeastNat
      <3>2. /\ x \in 1..Len(list) /\ cell[list[x]].addr > a /\ x - 1 \in 0..Len(list)
            /\ x - 1 < Len(list) /\ (x - 1) + 1 = x
        BY <1>1, <3>1
      <3>3. \A j \in 1..(x - 1) : cell[list[j]].addr <= a
        <4> SUFFICES ASSUME NEW j \in 1..(x - 1) PROVE cell[list[j]].addr <= a
          OBVIOUS
        <4>1. j \in 1..Len(list) /\ j < x
          BY <1>1, <3>2
        <4>2. j \notin Over
          BY <3>1, <3>2, <4>1
        <4> QED
          BY <4>1, <4>2
      <3> QED
        BY <3>2, <3>3
    <2> QED
      BY <2>1, <2>2
  <1>3. PICK k \in 0..Len(list) :
          /\ \A j \in 1..k : cell[list[j]].addr <= a
          /\ k < Len(list) => cell[list[k + 1]].addr > a
    BY <1>2
  <1>4. S = 1..k
    <2>1. ASSUME NEW i \in S PROVE i \in 1..k
      <3>1. i \in 1..Len(list) /\ \A j \in 1..i : cell[list[j]].addr <= a
        OBVIOUS
      <3>2. CASE k < i
        <4>1. k + 1 \in 1..i /\ k + 1 \in 1..Len(list) /\ k < Len(list)
          BY <1>1, <3>1, <3>2
        <4> QED
          BY <1>3, <3>1, <4>1
      <3> QED
        BY <1>1, <3>1, <3>2
    <2>2. ASSUME NEW i \in 1..k PROVE i \in S
      <3>1. i \in 1..Len(list) /\ \A j \in 1..i : j \in 1..k
        BY <1>1
      <3> QED
        BY <1>3, <3>1
    <2> QED
      BY <2>1, <2>2
  <1>5. Cardinality(S) = k
    <2>1. Cardinality(1..k) = (IF 1 > k THEN 0 ELSE k - 1 + 1)
      BY FS_Interval
    <2>2. Cardinality(1..k) = k
      BY <1>1, <2>1
    <2> QED
      BY <1>4, <2>2, Zenon
  <1>6. Hashed(n, a) = [i \in 1..(Len(list) + 1) |->
          IF i <= k THEN list[i] ELSE IF i = k + 1 THEN n ELSE list[i - 1]]
    <2> HIDE DEF S
    <2> QED
      BY <1>5, Zenon DEF Hashed, S
  <1> QED
    BY <1>3, <1>6

(* A cell that is on the list has one place there.                         *)
LEMMA IndexOf ==
  ASSUME TypeOK, OnList, NEW n \in Linked
  PROVE  Index(n) \in 1..Len(list) /\ list[Index(n)] = n
  BY DEF Linked, Index

(* What follows it is on the list.                                         *)
LEMMA SuccIn ==
  ASSUME TypeOK, OnList, NEW n \in Linked
  PROVE  /\ Succ(n) \in Linked \cup {NULL}
         /\ Succ(n) \in Node \cup {NULL}
  <1>1. Index(n) \in 1..Len(list) /\ list[Index(n)] = n
    BY IndexOf
  <1>2. list \in Seq(Node) /\ Len(list) \in Nat
    BY DEF TypeOK
  <1>3. Index(n) < Len(list) => Index(n) + 1 \in 1..Len(list) /\ list[Index(n) + 1] \in Node
    <2>1. \A i \in 1..Len(list) : list[i] \in Node
      BY <1>2
    <2>2. Index(n) < Len(list) => Index(n) + 1 \in 1..Len(list)
      BY <1>1, <1>2
    <2> QED
      BY <2>1, <2>2
  <1> QED
    BY <1>3, Zenon DEF Succ, Linked

LEMMA FirstIn ==
  ASSUME TypeOK PROVE First \in Linked \cup {NULL} /\ First \in Node \cup {NULL}
  <1>1. list \in Seq(Node)
    BY DEF TypeOK
  <1>2. list # <<>> => 1 \in 1..Len(list) /\ list[1] \in Node
    BY <1>1
  <1> QED
    BY <1>2 DEF First, Linked

LEMMA CellType ==
  ASSUME TypeOK, NEW n \in Node, cell[n] # Free
  PROVE  /\ cell[n] \in Peer /\ cell[n].addr \in Addr /\ cell[n].addr \in Int
         /\ cell[n].age \in Age /\ cell[n].age \in Int /\ cell[n].stat \in {0, 1}
  <1>1. cell[n] \in Peer
    BY DEF TypeOK
  <1>2. cell[n].addr \in Addr /\ cell[n].age \in Age /\ cell[n].stat \in {0, 1}
    BY <1>1 DEF Peer
  <1>3. Age \subseteq Int /\ Addr \subseteq Int
    BY PeerAssumption DEF Age
  <1> QED
    BY <1>1, <1>2, <1>3

(* What peerhash does to the list, and peerunhash.                         *)
LEMMA HashedList ==
  ASSUME TypeOK, OnList, NEW n \in Node, cell[n] = Free, NEW a \in Addr, list' = Hashed(n, a)
  PROVE  \E k \in 0..Len(list) :
           /\ list' \in Seq(Node) /\ Len(list') = Len(list) + 1
           /\ \A i \in 1..k : i \in 1..Len(list) /\ list'[i] = list[i]
           /\ list'[k + 1] = n
           /\ \A i \in (k + 2)..(Len(list) + 1) :
                i - 1 \in 1..Len(list) /\ list'[i] = list[i - 1]
           /\ \A j \in 1..k : cell[list[j]].addr <= a
           /\ k < Len(list) => cell[list[k + 1]].addr > a
  <1>1. /\ list \in Seq(Node) /\ a \in Int /\ Len(list) \in Nat
        /\ \A i \in 1..Len(list) : list[i] \in Node /\ cell[list[i]].addr \in Int
    <2>1. list \in Seq(Node) /\ a \in Int /\ \A i \in 1..Len(list) : list[i] \in Node
      BY PeerAssumption DEF TypeOK
    <2>2. \A i \in 1..Len(list) : list[i] \in Node /\ cell[list[i]] # Free
      BY <2>1 DEF OnList, Linked
    <2> QED
      BY <2>1, <2>2, CellType
  <1>2. PICK k \in 0..Len(list) :
          /\ list' = [i \in 1..(Len(list) + 1) |->
               IF i <= k THEN list[i] ELSE IF i = k + 1 THEN n ELSE list[i - 1]]
          /\ \A j \in 1..k : cell[list[j]].addr <= a
          /\ k < Len(list) => cell[list[k + 1]].addr > a
    BY <1>1, HashedAt
  <1>3. \A i \in 1..(Len(list) + 1) : ~(i <= k) /\ i # k + 1 => i - 1 \in 1..Len(list)
    BY <1>1
  <1>4. list' \in Seq(Node) /\ Len(list') = Len(list) + 1
    BY <1>1, <1>2, <1>3
  <1>5. /\ \A i \in 1..k : i \in 1..Len(list) /\ list'[i] = list[i]
        /\ list'[k + 1] = n
        /\ \A i \in (k + 2)..(Len(list) + 1) :
             i - 1 \in 1..Len(list) /\ list'[i] = list[i - 1]
    BY <1>1, <1>2
  <1> QED
    BY <1>2, <1>4, <1>5, Zenon

LEMMA UnhashedList ==
  ASSUME TypeOK, OnList, NEW n \in Linked, list' = Unhashed(n)
  PROVE  \E k \in 1..Len(list) :
           /\ list[k] = n
           /\ list' \in Seq(Node) /\ Len(list') = Len(list) - 1
           /\ \A i \in 1..(k - 1) : i \in 1..Len(list) /\ list'[i] = list[i]
           /\ \A i \in k..(Len(list) - 1) :
                i + 1 \in 1..Len(list) /\ list'[i] = list[i + 1]
  <1>1. Index(n) \in 1..Len(list) /\ list[Index(n)] = n
    BY IndexOf
  <1>2. /\ list \in Seq(Node) /\ Len(list) \in Nat /\ Len(list) > 0
        /\ \A i \in 1..Len(list) : list[i] \in Node
    BY <1>1 DEF TypeOK
  <1>3. list' = [i \in 1..(Len(list) - 1) |-> IF i < Index(n) THEN list[i] ELSE list[i + 1]]
    BY Zenon DEF Unhashed
  <1>4. list' \in Seq(Node) /\ Len(list') = Len(list) - 1
    <2>1. \A i \in 1..(Len(list) - 1) : i \in 1..Len(list) /\ i + 1 \in 1..Len(list)
      BY <1>2
    <2> QED
      BY <1>2, <1>3, <2>1
  <1> QED
    BY <1>1, <1>2, <1>3, <1>4

-----------------------------------------------------------------------------
(* What the actions have in common.                                        *)

Ordered == \A i, j \in 1..Len(list) : i < j => cell[list[i]].addr < cell[list[j]].addr
Placed  == Linked = {n \in Node : cell[n] # Free}

(* An action that neither frees nor renames a peer leaves the list as it   *)
(* was.                                                                    *)
LEMMA ListKept ==
  ASSUME PeerInv, list' = list, cell' \in [Node -> Peer \cup {Free}],
         \A n \in Node : /\ cell'[n] = Free <=> cell[n] = Free
                         /\ cell[n] # Free => cell'[n].addr = cell[n].addr
  PROVE  /\ Linked' = Linked /\ OnList' /\ Placed' /\ (~raced => Ordered')
         /\ UNCHANGED <<raced, fate>> => SerialSafe'
         /\ UNCHANGED <<raced, pc, at, arg>> => Missed' /\ Aimed'
  <1>1. /\ \A n \in Linked : n \in Node /\ cell[n] # Free /\ cell'[n].addr = cell[n].addr
        /\ Linked = {n \in Node : cell[n] # Free}
    BY DEF PeerInv, OnList
  <1>2. Linked' = Linked
    BY DEF Linked
  <1>3. \A i \in 1..Len(list) : list[i] \in Linked
    BY DEF Linked
  <1>4. OnList' /\ Placed'
    BY <1>1, <1>2 DEF OnList, Placed, PeerInv
  <1>5. ~raced => Ordered'
    BY <1>1, <1>3 DEF Ordered, PeerInv, SerialSafe
  <1>6. UNCHANGED <<raced, fate>> => SerialSafe'
    BY <1>4, <1>5 DEF SerialSafe, Placed, Ordered, PeerInv
  <1>7. UNCHANGED <<raced, pc, at, arg>> => Missed' /\ Aimed'
    BY <1>1, <1>2, <1>3 DEF Missed, Aimed, PeerInv
  <1> QED
    BY <1>2, <1>4, <1>5, <1>6, <1>7

(* The walkers are who they were.                                          *)
LEMMA WalksKept ==
  ASSUME PeerInv, UNCHANGED <<mode, holder, pc, at, arg, left, raced>>
  PROVE  Roles' /\ Locked' /\ Apart'
  BY DEF PeerInv, Roles, Locked, Apart, Busy

LEMMA Distinct ==
  /\ Task \in Walker /\ Checker \in Walker /\ Client \subseteq Walker
  /\ Task \notin Client /\ Checker \notin Client /\ Task # Checker
  /\ \A w \in Walker : w # NULL
  BY PeerAssumption DEF Walker

-----------------------------------------------------------------------------
(* One lemma per action.                                                   *)

(* The network and the hosts.                                              *)
LEMMA NetworkKept ==
  ASSUME PeerInv, NEW a \in Host, Answer(a) \/ Lose(a) \/ Flip(a) PROVE PeerInv'
  <1> USE DEF PeerInv
  <1>1. UNCHANGED <<list, cell, holder, pc, at, arg, sleep, left, mode, peercnt,
                    calls, quiet, raced, fate>>
    BY DEF Answer, Lose, Flip, peers, walks, checks, config
  <1>2. probed' \subseteq Addr /\ answers' \subseteq Addr /\ alive' \subseteq Addr
    BY PeerAssumption DEF Answer, Lose, Flip, TypeOK
  <1>3. TypeOK'
    BY <1>1, <1>2 DEF TypeOK
  <1>4. SerialSafe' /\ OnList' /\ Aimed' /\ Missed'
    BY <1>1, <1>3, ListKept DEF TypeOK
  <1>5. Aged'
    BY <1>1 DEF Aged
  <1> QED
    BY <1>1, <1>3, <1>4, <1>5, WalksKept

LEMMA InitPeer2Kept ==
  ASSUME PeerInv, NEW n \in Tunnels, InitPeer2(n) PROVE PeerInv'
  <1> USE DEF PeerInv
  <1>1. /\ UNCHANGED <<list, cell, holder, pc, at, arg, left, probed, answers, alive,
                       quiet, raced, fate>>
        /\ calls < MaxCalls /\ calls' = calls + 1 /\ peercnt' = n
        /\ mode' = IF mode = "off" THEN "tunnel" ELSE mode
        /\ sleep' = IF mode = "off" THEN 0 ELSE sleep
        /\ ~raced
    BY DEF InitPeer2, peers, walks, network
  <1>2. TypeOK'
    <2>1. calls' \in 0..MaxCalls /\ peercnt' \in Nat /\ sleep' \in 0..Duration
      BY <1>1, PeerAssumption DEF TypeOK
    <2> QED
      BY <1>1, <2>1 DEF TypeOK
  <1>3. SerialSafe' /\ OnList' /\ Aimed' /\ Missed'
    BY <1>1, <1>2, ListKept DEF TypeOK
  <1>4. Aged'
    BY <1>1 DEF Aged
  <1>5. Locked'
    BY <1>1 DEF Locked, Busy
  <1>6. Apart'
    <2>1. mode = "off" => \A w \in {Task, Checker} : ~Busy(w)
      BY DEF Locked
    <2>2. \A v, w \in Walker : v # w /\ Busy(v) /\ Busy(w) /\ mode = "off" => FALSE
      BY <1>1, <2>1 DEF Apart, Walker
    <2> QED
      BY <1>1, <2>2 DEF Apart, Busy
  <1>7. Roles'
    BY <1>1 DEF Roles
  <1> QED
    BY <1>2, <1>3, <1>4, <1>5, <1>6, <1>7

(* A second passes: a peer's age grows no faster than its silence.         *)
LEMMA TickKept ==
  ASSUME PeerInv, Tick PROVE PeerInv'
  <1> USE DEF PeerInv
  <1>1. /\ UNCHANGED <<list, holder, pc, at, arg, left, probed, answers, alive, mode,
                       peercnt, calls, raced, fate>>
        /\ ~raced /\ sleep > 0 /\ sleep' = sleep - 1
        /\ cell' = [n \in Node |-> Older(n)]
        /\ quiet' = [a \in Addr |-> IF (\E n \in Linked : cell[n].addr = a)
                                       /\ quiet[a] < Expire
                                    THEN quiet[a] + 1 ELSE quiet[a]]
    BY DEF Tick, walks, network, config
  <1>2. ASSUME NEW n \in Node
        PROVE  /\ cell'[n] \in Peer \cup {Free}
               /\ cell'[n] = Free <=> cell[n] = Free
               /\ cell[n] # Free =>
                    /\ cell'[n].addr = cell[n].addr /\ cell'[n].stat = cell[n].stat
                    /\ cell'[n].age = IF cell[n].age <= Expire THEN cell[n].age + 1
                                      ELSE cell[n].age
    <2>1. cell'[n] = Older(n)
      BY <1>1
    <2>2. CASE cell[n] = Free
      BY <2>1, <2>2 DEF Older
    <2>3. CASE cell[n] # Free
      <3>1. /\ cell[n] \in Peer /\ cell[n].addr \in Addr /\ cell[n].age \in Age
            /\ cell[n].stat \in {0, 1} /\ cell[n].age \in Int /\ Expire \in Nat
        BY <2>3, CellType, PeerAssumption
      <3>2. CASE cell[n].age <= Expire
        <4>1. cell'[n] = [cell[n] EXCEPT !.age = cell[n].age + 1]
          BY <2>1, <2>3, <3>2 DEF Older
        <4>2. cell[n].age + 1 \in Age
          BY <3>1, <3>2 DEF Age
        <4>3. cell'[n] \in Peer /\ cell'[n].age = cell[n].age + 1
              /\ cell'[n].addr = cell[n].addr /\ cell'[n].stat = cell[n].stat
          BY <3>1, <4>1, <4>2 DEF Peer
        <4>4. cell'[n] # Free
          BY <4>3, FreeAssumption
        <4> QED
          BY <2>3, <3>2, <4>3, <4>4
      <3>3. CASE ~(cell[n].age <= Expire)
        BY <2>1, <2>3, <3>1, <3>3 DEF Older
      <3> QED
        BY <3>2, <3>3
    <2> QED
      BY <2>2, <2>3
  <1>3. cell' \in [Node -> Peer \cup {Free}]
    BY <1>1, <1>2
  <1>4. TypeOK'
    <2>1. sleep' \in 0..Duration
      BY <1>1, PeerAssumption DEF TypeOK
    <2>2. \A a \in Addr : quiet'[a] \in 0..Expire
      BY <1>1, PeerAssumption DEF TypeOK
    <2>3. quiet' \in [Addr -> 0..Expire]
      BY <1>1, <2>2
    <2> QED
      BY <1>1, <1>3, <2>1, <2>3 DEF TypeOK
  <1>5. SerialSafe' /\ OnList' /\ Aimed' /\ Missed'
    BY <1>1, <1>2, <1>3, ListKept
  <1>6. Aged'
    <2> SUFFICES ASSUME NEW n \in Node, cell'[n] # Free
                 PROVE  cell'[n].age <= quiet'[cell'[n].addr] \/ quiet'[cell'[n].addr] >= Expire
      BY DEF Aged
    <2> DEFINE a == cell[n].addr
    <2>1. cell[n] # Free /\ n \in Linked /\ a \in Addr /\ cell'[n].addr = a
      BY <1>2, CellType DEF OnList
    <2>2. quiet'[a] = IF quiet[a] < Expire THEN quiet[a] + 1 ELSE quiet[a]
      BY <1>1, <2>1
    <2>3. cell[n].age <= quiet[a] \/ quiet[a] >= Expire
      BY <1>1, <2>1 DEF Aged
    <2>4. /\ cell[n].age \in Int /\ quiet[a] \in Int /\ Expire \in Int
          /\ cell'[n].age \in {cell[n].age, cell[n].age + 1}
      BY <1>2, <2>1, CellType, PeerAssumption DEF TypeOK
    <2> HIDE DEF a
    <2>5. cell'[n].age <= quiet'[a] \/ quiet'[a] >= Expire
      BY <2>2, <2>3, <2>4
    <2> QED
      BY <2>1, <2>5
  <1> QED
    BY <1>1, <1>4, <1>5, <1>6, WalksKept

(* The clock set back makes peers younger.                                 *)
LEMMA SetBackKept ==
  ASSUME PeerInv, SetBack PROVE PeerInv'
  <1> USE DEF PeerInv
  <1>1. /\ UNCHANGED <<list, holder, pc, at, arg, sleep, left, probed, answers, alive,
                       mode, peercnt, quiet, raced, fate>>
        /\ calls < MaxCalls /\ calls' = calls + 1
        /\ cell' = [n \in Node |-> IF cell[n] # Free /\ cell[n].age >= 0
                                   THEN [cell[n] EXCEPT !.age = @ - 1] ELSE cell[n]]
    BY DEF SetBack, walks, checks, network, config
  <1>2. ASSUME NEW n \in Node
        PROVE  /\ cell'[n] \in Peer \cup {Free}
               /\ cell'[n] = Free <=> cell[n] = Free
               /\ cell[n] # Free =>
                    /\ cell'[n].addr = cell[n].addr /\ cell'[n].stat = cell[n].stat
                    /\ cell'[n].age \in {cell[n].age, cell[n].age - 1}
    <2>1. CASE cell[n] = Free \/ ~(cell[n].age >= 0)
      BY <1>1, <2>1 DEF TypeOK
    <2>2. CASE cell[n] # Free /\ cell[n].age >= 0
      <3>1. /\ cell[n] \in Peer /\ cell[n].addr \in Addr /\ cell[n].age \in Age
            /\ cell[n].stat \in {0, 1} /\ cell[n].age \in Int /\ Expire \in Nat
        BY <2>2, CellType, PeerAssumption
      <3>2. cell'[n] = [cell[n] EXCEPT !.age = cell[n].age - 1]
        BY <1>1, <2>2
      <3>3. cell[n].age - 1 \in Age
        BY <2>2, <3>1 DEF Age
      <3>4. cell'[n] \in Peer /\ cell'[n].age = cell[n].age - 1
            /\ cell'[n].addr = cell[n].addr /\ cell'[n].stat = cell[n].stat
        BY <3>1, <3>2, <3>3 DEF Peer
      <3> QED
        BY <2>2, <3>4, FreeAssumption
    <2> QED
      BY <2>1, <2>2
  <1>3. cell' \in [Node -> Peer \cup {Free}]
    BY <1>1, <1>2
  <1>4. TypeOK'
    <2>1. calls' \in 0..MaxCalls
      BY <1>1, PeerAssumption DEF TypeOK
    <2> QED
      BY <1>1, <1>3, <2>1 DEF TypeOK
  <1>5. SerialSafe' /\ OnList' /\ Aimed' /\ Missed'
    BY <1>1, <1>2, <1>3, ListKept
  <1>6. Aged'
    <2> SUFFICES ASSUME ~raced, NEW n \in Node, cell'[n] # Free
                 PROVE  cell'[n].age <= quiet[cell'[n].addr] \/ quiet[cell'[n].addr] >= Expire
      BY <1>1 DEF Aged
    <2>1. cell[n] # Free /\ cell[n].addr \in Addr /\ cell'[n].addr = cell[n].addr
      BY <1>2, CellType
    <2>2. cell[n].age <= quiet[cell[n].addr] \/ quiet[cell[n].addr] >= Expire
      BY <2>1 DEF Aged
    <2>3. /\ cell[n].age \in Int /\ quiet[cell[n].addr] \in Int
          /\ cell'[n].age \in {cell[n].age, cell[n].age - 1}
      BY <1>2, <2>1, CellType, PeerAssumption DEF TypeOK
    <2> QED
      BY <2>1, <2>2, <2>3
  <1> QED
    BY <1>1, <1>4, <1>5, <1>6, WalksKept

(* A walk begins at the first peer; it meets another one or is apart.      *)
LEMMA WalkStarted ==
  ASSUME PeerInv, NEW w \in Walker, NEW what, NEW a, StartWalk(w, what, a), ~Busy(w),
         UNCHANGED <<list, cell, mode, quiet, fate>>,
         w \in Client => what \in {"add", "del"} /\ a \in Addr /\ holder' = holder,
         w = Task => what = "reply" /\ a \in Addr,
         w = Checker => what = "expire" /\ a = NULL,
         w # Checker => left' = left,
         w \in {Task, Checker} =>
           /\ mode # "off"
           /\ IF mode = "tunnel" THEN holder' = holder ELSE holder = NULL /\ holder' = w
  PROVE  /\ SerialSafe' /\ OnList' /\ Roles' /\ Locked' /\ Apart' /\ Aimed' /\ Missed'
         /\ Aged'
         /\ pc' \in [Walker -> {"idle", "add", "del", "free", "reply", "sleep", "expire",
                                "gap", "probe"}]
         /\ at' \in [Walker -> Node \cup {NULL}] /\ arg' \in [Walker -> Addr \cup {NULL}]
         /\ holder' \in Walker \cup {NULL} /\ raced' \in BOOLEAN
  <1> USE DEF PeerInv
  <1>1. /\ pc' = [pc EXCEPT ![w] = what] /\ at' = [at EXCEPT ![w] = First]
        /\ arg' = [arg EXCEPT ![w] = a] /\ raced' = (raced \/ Meets(w))
    BY DEF StartWalk, Goto, PointTo
  <1>2. /\ pc'[w] = what /\ at'[w] = First /\ arg'[w] = a
        /\ \A v \in Walker \ {w} : pc'[v] = pc[v] /\ at'[v] = at[v] /\ arg'[v] = arg[v]
    BY <1>1 DEF TypeOK
  <1>3. First \in Linked \cup {NULL} /\ First \in Node \cup {NULL}
    BY FirstIn
  <1>4. w \in Client \/ w = Task \/ w = Checker
    BY DEF Walker
  <1>5. ~raced' => ~raced /\ ~Meets(w)
    BY <1>1, Zenon
  <1>6. /\ pc' \in [Walker -> {"idle", "add", "del", "free", "reply", "sleep", "expire",
                               "gap", "probe"}]
        /\ at' \in [Walker -> Node \cup {NULL}] /\ arg' \in [Walker -> Addr \cup {NULL}]
        /\ holder' \in Walker \cup {NULL} /\ raced' \in BOOLEAN
    <2>1. what \in {"idle", "add", "del", "free", "reply", "sleep", "expire", "gap", "probe"}
          /\ a \in Addr \cup {NULL}
      BY <1>4
    <2>2. raced' \in BOOLEAN
      BY <1>1 DEF TypeOK, Meets
    <2>3. holder' \in Walker \cup {NULL}
      BY <1>4 DEF TypeOK
    <2> QED
      BY <1>1, <1>3, <2>1, <2>2, <2>3 DEF TypeOK
  <1>7. Linked' = Linked /\ OnList' /\ Placed' /\ (~raced => Ordered')
    BY ListKept DEF TypeOK
  <1>8. SerialSafe'
    BY <1>5, <1>7 DEF SerialSafe, Placed, Ordered
  <1>9. Roles'
    BY <1>2, <1>4, Distinct DEF Roles
  <1>10. Locked'
    BY <1>2, <1>4, Distinct DEF Locked, Busy
  <1>11. Apart'
    <2> SUFFICES ASSUME ~raced', NEW u \in Walker, NEW v \in Walker, u # v, Busy(u)', Busy(v)'
                 PROVE  mode # "tunnel" /\ ~({u, v} \subseteq Client)
      BY DEF Apart
    <2>1. ~raced /\ \A x \in Walker \ {w} : Busy(x) => mode # "tunnel" /\ ~({x, w} \subseteq Client)
      BY <1>5 DEF Meets
    <2>2. \A x \in Walker \ {w} : Busy(x)' <=> Busy(x)
      BY <1>2 DEF Busy
    <2>3. CASE u # w /\ v # w
      BY <2>1, <2>2, <2>3 DEF Apart
    <2>4. CASE u = w
      BY <2>1, <2>2, <2>4
    <2>5. CASE v = w
      BY <2>1, <2>2, <2>5
    <2> QED
      BY <2>3, <2>4, <2>5
  <1>12. Aimed'
    <2>1. w \in Walker => what # "free"
      BY <1>4
    <2> QED
      BY <1>2, <1>3, <1>5, <1>7, <2>1 DEF Aimed
  <1>13. Missed'
    <2> SUFFICES ASSUME ~raced', NEW c \in Client, pc'[c] = "add",
                        NEW i \in 1..Len(list), NEW k \in 1..Len(list),
                        at'[c] = NULL \/ (list[k] = at'[c] /\ i < k)
                 PROVE  cell[list[i]].addr # arg'[c]
      BY DEF Missed
    <2>1. c \in Walker
      BY Distinct
    <2>2. CASE c # w
      BY <1>2, <1>5, <2>1, <2>2 DEF Missed
    <2>3. CASE c = w
      <3>1. list \in Seq(Node) /\ Len(list) \in Nat /\ 1 \in 1..Len(list) /\ list # <<>>
        BY DEF TypeOK
      <3>2. First = list[1] /\ list[1] \in Node /\ First # NULL
        BY <3>1, PeerAssumption DEF First
      <3>3. list[k] = list[1] /\ i < k
        BY <1>2, <2>3, <3>2
      <3>4. k \in Nat /\ i \in Nat /\ 1 < k
        BY <3>1, <3>3
      <3>5. list[1] # list[k]
        BY <3>1, <3>4 DEF OnList
      <3> QED
        BY <3>3, <3>5
    <2> QED
      BY <2>2, <2>3
  <1>14. Aged'
    BY <1>5 DEF Aged
  <1> QED
    BY <1>6, <1>7, <1>8, <1>9, <1>10, <1>11, <1>12, <1>13, <1>14

(* A walker that is done leaves the list as it is.                         *)
LEMMA WalkDone ==
  ASSUME PeerInv, NEW w \in Walker \ {Checker}, Done(w), list' = list, cell' \in [Node -> Peer \cup {Free}],
         \A n \in Node : /\ cell'[n] = Free <=> cell[n] = Free
                         /\ cell[n] # Free => cell'[n].addr = cell[n].addr,
         UNCHANGED <<mode, left, raced>>,
         holder' = holder \/ (holder = w /\ holder' = NULL)
  PROVE  /\ Roles' /\ Locked' /\ Apart' /\ Aimed' /\ Missed'
         /\ pc' \in [Walker -> {"idle", "add", "del", "free", "reply", "sleep", "expire",
                                "gap", "probe"}]
         /\ at' \in [Walker -> Node \cup {NULL}] /\ arg' \in [Walker -> Addr \cup {NULL}]
         /\ holder' \in Walker \cup {NULL}
  <1> USE DEF PeerInv
  <1>1. /\ pc'[w] = "idle" /\ at'[w] = NULL
        /\ \A v \in Walker \ {w} : pc'[v] = pc[v] /\ at'[v] = at[v] /\ arg'[v] = arg[v]
    BY DEF Done, TypeOK
  <1>2. Linked' = Linked
    BY DEF Linked
  <1>3. /\ pc' \in [Walker -> {"idle", "add", "del", "free", "reply", "sleep", "expire",
                               "gap", "probe"}]
        /\ at' \in [Walker -> Node \cup {NULL}] /\ arg' \in [Walker -> Addr \cup {NULL}]
        /\ holder' \in Walker \cup {NULL}
    BY DEF Done, TypeOK
  <1>4. Roles'
    <2>1. pc'[Checker] = pc[Checker]
      BY <1>1, Distinct
    <2>2. \A c \in Client : pc'[c] \in {"idle", "add", "del", "free"}
      BY <1>1, Distinct DEF Roles
    <2>3. pc'[Task] \in {"idle", "reply"}
      BY <1>1, Distinct DEF Roles
    <2>4. \A v \in Walker : /\ pc'[v] \in {"add", "del", "reply"} => arg'[v] \in Addr
                            /\ pc'[v] \in {"idle", "sleep", "gap"} => at'[v] = NULL
      BY <1>1 DEF Roles
    <2> QED
      BY <2>1, <2>2, <2>3, <2>4 DEF Roles
  <1>5. Locked'
    BY <1>1, Distinct DEF Locked, Busy
  <1>6. Apart'
    BY <1>1 DEF Apart, Busy
  <1>7. Aimed'
    BY <1>1, <1>2 DEF Aimed
  <1>8. Missed'
    <2> SUFFICES ASSUME ~raced, NEW c \in Client, pc'[c] = "add",
                        NEW i \in 1..Len(list), NEW k \in 1..Len(list),
                        at'[c] = NULL \/ (list[k] = at'[c] /\ i < k)
                 PROVE  cell'[list[i]].addr # arg'[c]
      BY DEF Missed
    <2>1. c # w /\ c \in Walker
      BY <1>1, Distinct
    <2>2. cell[list[i]].addr # arg[c]
      BY <1>1, <2>1 DEF Missed
    <2>3. list[i] \in Node /\ cell[list[i]] # Free
      BY DEF OnList, Linked
    <2> QED
      BY <1>1, <2>1, <2>2, <2>3
  <1> QED
    BY <1>3, <1>4, <1>5, <1>6, <1>7, <1>8

LEMMA CallKept ==
  ASSUME PeerInv, NEW c \in Client, NEW what \in {"add", "del"}, NEW a \in Addr, Call(c, what, a)
  PROVE  PeerInv'
  <1> USE DEF PeerInv
  <1>1. /\ UNCHANGED <<list, cell, holder, sleep, left, probed, answers, alive, mode,
                       peercnt, quiet, fate>>
        /\ calls < MaxCalls /\ calls' = calls + 1 /\ pc[c] = "idle"
        /\ StartWalk(c, what, a)
    BY DEF Call, peers, checks, network, config
  <1>2. c \in Walker /\ c # Task /\ c # Checker /\ ~Busy(c)
    BY <1>1, Distinct DEF Busy
  <1>3. /\ SerialSafe' /\ OnList' /\ Roles' /\ Locked' /\ Apart' /\ Aimed' /\ Missed'
        /\ Aged'
        /\ pc' \in [Walker -> {"idle", "add", "del", "free", "reply", "sleep", "expire",
                               "gap", "probe"}]
        /\ at' \in [Walker -> Node \cup {NULL}] /\ arg' \in [Walker -> Addr \cup {NULL}]
        /\ holder' \in Walker \cup {NULL} /\ raced' \in BOOLEAN
    BY <1>1, <1>2, WalkStarted
  <1>4. calls' \in 0..MaxCalls
    BY <1>1, PeerAssumption DEF TypeOK
  <1>5. TypeOK'
    BY <1>1, <1>3, <1>4 DEF TypeOK
  <1> QED
    BY <1>3, <1>5

LEMMA ReceiveKept ==
  ASSUME PeerInv, NEW a \in Host, Receive(a) PROVE PeerInv'
  <1> USE DEF PeerInv
  <1>1. /\ UNCHANGED <<list, cell, sleep, left, probed, alive, mode, peercnt, calls,
                       quiet, fate>>
        /\ mode # "off" /\ pc[Task] = "idle" /\ answers' = answers \ {a}
        /\ StartWalk(Task, "reply", a)
        /\ IF mode = "tunnel" THEN holder' = holder ELSE holder = NULL /\ holder' = Task
    BY Distinct DEF Receive, Locks, Acquire, checks, config
  <1>2. a \in Addr /\ ~Busy(Task)
    BY <1>1, PeerAssumption DEF Busy
  <1>3. /\ SerialSafe' /\ OnList' /\ Roles' /\ Locked' /\ Apart' /\ Aimed' /\ Missed'
        /\ Aged'
        /\ pc' \in [Walker -> {"idle", "add", "del", "free", "reply", "sleep", "expire",
                               "gap", "probe"}]
        /\ at' \in [Walker -> Node \cup {NULL}] /\ arg' \in [Walker -> Addr \cup {NULL}]
        /\ holder' \in Walker \cup {NULL} /\ raced' \in BOOLEAN
    BY <1>1, <1>2, Distinct, WalkStarted
  <1>4. TypeOK'
    BY <1>1, <1>3 DEF TypeOK
  <1> QED
    BY <1>3, <1>4

LEMMA WakeKept ==
  ASSUME PeerInv, Wake PROVE PeerInv'
  <1> USE DEF PeerInv
  <1>1. /\ UNCHANGED <<list, cell, probed, answers, alive, mode, peercnt, calls, quiet,
                       fate>>
        /\ mode # "off" /\ pc[Checker] = "sleep" /\ sleep' = 1
        /\ left' = (IF mode = "tunnel" THEN peercnt ELSE 1)
        /\ StartWalk(Checker, "expire", NULL)
        /\ IF mode = "tunnel" THEN holder' = holder ELSE holder = NULL /\ holder' = Checker
    BY Distinct DEF Wake, Locks, Acquire, network, config
  <1>2. ~Busy(Checker)
    BY <1>1 DEF Busy
  <1>3. /\ SerialSafe' /\ OnList' /\ Roles' /\ Locked' /\ Apart' /\ Aimed' /\ Missed'
        /\ Aged'
        /\ pc' \in [Walker -> {"idle", "add", "del", "free", "reply", "sleep", "expire",
                               "gap", "probe"}]
        /\ at' \in [Walker -> Node \cup {NULL}] /\ arg' \in [Walker -> Addr \cup {NULL}]
        /\ holder' \in Walker \cup {NULL} /\ raced' \in BOOLEAN
    BY <1>1, <1>2, Distinct, WalkStarted
  <1>4. left' \in Nat /\ sleep' \in 0..Duration
    BY <1>1, PeerAssumption DEF TypeOK
  <1>5. TypeOK'
    BY <1>1, <1>3, <1>4 DEF TypeOK
  <1> QED
    BY <1>3, <1>5

LEMMA ReturnKept ==
  ASSUME PeerInv, NEW c \in Client, Return(c) \/ AddFails(c) PROVE PeerInv'
  <1> USE DEF PeerInv
  <1>1. /\ UNCHANGED <<list, cell, holder, sleep, left, probed, answers, alive, mode,
                       peercnt, calls, quiet, raced, fate>>
        /\ Done(c)
    BY DEF Return, AddFails, peers, checks, network, config
  <1>2. /\ Roles' /\ Locked' /\ Apart' /\ Aimed' /\ Missed'
        /\ pc' \in [Walker -> {"idle", "add", "del", "free", "reply", "sleep", "expire",
                               "gap", "probe"}]
        /\ at' \in [Walker -> Node \cup {NULL}] /\ arg' \in [Walker -> Addr \cup {NULL}]
    <2>1. c \in Walker \ {Checker} /\ cell' \in [Node -> Peer \cup {Free}]
      BY <1>1, Distinct DEF TypeOK
    <2> QED
      BY <1>1, <2>1, WalkDone
  <1>3. TypeOK'
    BY <1>1, <1>2 DEF TypeOK
  <1>4. SerialSafe' /\ OnList'
    BY <1>1, <1>3, ListKept DEF TypeOK
  <1>5. Aged'
    BY <1>1 DEF Aged
  <1> QED
    BY <1>2, <1>3, <1>4, <1>5

(* The node that is passed does not have the address that is looked for.   *)
LEMMA FindNextKept ==
  ASSUME PeerInv, NEW w \in Walker, FindNext(w) PROVE PeerInv'
  <1> USE DEF PeerInv
  <1>1. /\ UNCHANGED <<list, cell, holder, pc, arg, sleep, left, probed, answers, alive,
                       mode, peercnt, calls, quiet, raced, fate>>
        /\ pc[w] \in {"add", "del", "reply"}
        /\ at[w] # NULL /\ cell[at[w]] # Free /\ cell[at[w]].addr # arg[w]
        /\ at' = [at EXCEPT ![w] = Succ(at[w])]
    BY DEF FindNext, Sound, PointTo, peers, checks, network, config
  <1>2. at[w] \in Linked /\ at[w] \in Node
    BY <1>1 DEF TypeOK, OnList
  <1>3. Succ(at[w]) \in Linked \cup {NULL} /\ Succ(at[w]) \in Node \cup {NULL}
    BY <1>2, SuccIn
  <1>4. at'[w] = Succ(at[w]) /\ \A v \in Walker \ {w} : at'[v] = at[v]
    BY <1>1 DEF TypeOK
  <1>5. TypeOK'
    BY <1>1, <1>3 DEF TypeOK
  <1>6. SerialSafe' /\ OnList' /\ Linked' = Linked
    BY <1>1, <1>5, ListKept DEF TypeOK
  <1>7. Roles' /\ Locked' /\ Apart'
    BY <1>1, <1>4 DEF Roles, Locked, Apart, Busy
  <1>8. Aimed'
    BY <1>1, <1>3, <1>4, <1>6 DEF Aimed
  <1>9. Missed'
    <2> SUFFICES ASSUME ~raced, NEW c \in Client, pc[c] = "add",
                        NEW i \in 1..Len(list), NEW k \in 1..Len(list),
                        at'[c] = NULL \/ (list[k] = at'[c] /\ i < k)
                 PROVE  cell[list[i]].addr # arg[c]
      BY <1>1 DEF Missed
    <2>1. c \in Walker
      BY Distinct
    <2>2. CASE c # w
      BY <1>4, <2>1, <2>2 DEF Missed
    <2>3. CASE c = w
      <3> DEFINE x == Index(at[w])
      <3>1. x \in 1..Len(list) /\ list[x] = at[w]
        BY <1>2, IndexOf
      <3>2. list \in Seq(Node) /\ Len(list) \in Nat
        BY DEF TypeOK
      <3>3. i <= x
        <4>1. CASE x < Len(list)
          <5>1. at'[w] = list[x + 1] /\ x + 1 \in 1..Len(list) /\ list[x + 1] \in Node
            BY <1>4, <3>1, <3>2, <4>1 DEF Succ
          <5>2. list[k] = list[x + 1] /\ i < k
            BY <2>3, <5>1, PeerAssumption
          <5>3. k = x + 1
            BY <3>2, <5>1, <5>2 DEF OnList
          <5> QED
            BY <3>1, <3>2, <5>2, <5>3
        <4> QED
          BY <3>1, <3>2, <4>1
      <3>4. CASE i = x
        BY <1>1, <2>3, <3>1, <3>4
      <3>5. CASE i < x
        BY <1>1, <2>3, <3>1, <3>5 DEF Missed
      <3> QED
        BY <3>1, <3>2, <3>3, <3>4, <3>5
    <2> QED
      BY <2>2, <2>3
  <1>10. Aged'
    BY <1>1 DEF Aged
  <1> QED
    BY <1>5, <1>6, <1>7, <1>8, <1>9, <1>10

(* No walker that is apart from the others comes upon a freed node.        *)
LEMMA FaultKept ==
  ASSUME PeerInv, NEW w \in Walker, Fault(w) PROVE PeerInv'
  <1> USE DEF PeerInv
  <1>1. /\ UNCHANGED <<list, cell, holder, pc, at, arg, sleep, left, probed, answers,
                       alive, mode, peercnt, calls, quiet, raced>>
        /\ fate' = "fault" /\ at[w] # NULL /\ cell[at[w]] = Free
    BY DEF Fault, peers, walks, checks, network, config
  <1>2. raced
    BY <1>1 DEF Aimed, OnList
  <1>3. TypeOK'
    BY <1>1 DEF TypeOK
  <1>4. OnList' /\ Aimed' /\ Missed'
    BY <1>1, <1>3, ListKept DEF TypeOK
  <1>5. SerialSafe' /\ Aged'
    BY <1>1, <1>2 DEF SerialSafe, Aged
  <1> QED
    BY <1>1, <1>3, <1>4, <1>5, WalksKept

LEMMA DeleteKept ==
  ASSUME PeerInv, NEW c \in Client, Delete(c) PROVE PeerInv'
  <1> USE DEF PeerInv
  <1>1. /\ UNCHANGED <<list, cell, holder, at, arg, sleep, left, probed, answers, alive,
                       mode, peercnt, calls, quiet, raced, fate>>
        /\ pc[c] = "del" /\ at[c] # NULL
        /\ pc' = [pc EXCEPT ![c] = "free"]
    BY DEF Delete, Found, Sound, Goto, peers, checks, network, config
  <1>2. /\ pc'[c] = "free" /\ c \in Walker /\ c # Task /\ c # Checker
        /\ \A v \in Walker \ {c} : pc'[v] = pc[v]
    BY <1>1, Distinct DEF TypeOK
  <1>3. TypeOK'
    BY <1>1 DEF TypeOK
  <1>4. SerialSafe' /\ OnList' /\ Linked' = Linked
    BY <1>1, <1>3, ListKept DEF TypeOK
  <1>5. Roles' /\ Locked'
    BY <1>1, <1>2, Distinct DEF Roles, Locked, Busy
  <1>6. Apart'
    BY <1>1, <1>2 DEF Apart, Busy
  <1>7. Aimed'
    BY <1>1, <1>2, <1>4 DEF Aimed
  <1>8. Missed'
    <2>1. \A d \in Client : pc'[d] = "add" => pc[d] = "add"
      BY <1>2, Distinct
    <2> QED
      BY <1>1, <2>1 DEF Missed
  <1>9. Aged'
    BY <1>1 DEF Aged
  <1> QED
    BY <1>3, <1>4, <1>5, <1>6, <1>7, <1>8, <1>9

LEMMA EndPassKept ==
  ASSUME PeerInv, EndPass PROVE PeerInv'
  <1> USE DEF PeerInv
  <1>1. /\ UNCHANGED <<list, cell, at, arg, left, probed, answers, alive, mode, peercnt,
                       calls, quiet, raced, fate>>
        /\ pc[Checker] \in {"expire", "probe"} /\ at[Checker] = NULL
        /\ pc' = [pc EXCEPT ![Checker] = pc'[Checker]]
        /\ pc'[Checker] = "gap" => left > 0 /\ holder' = holder
        /\ pc'[Checker] \in {"gap", "sleep"}
        /\ sleep' \in {sleep, Duration}
        /\ holder' = holder \/ (holder = Checker /\ holder' = NULL)
    BY Distinct DEF EndPass, MorePasses, Goto, Release, network, config, TypeOK
  <1>2. \A v \in Walker \ {Checker} : pc'[v] = pc[v]
    BY <1>1 DEF TypeOK
  <1>3. TypeOK'
    <2>1. sleep' \in 0..Duration
      BY <1>1, PeerAssumption DEF TypeOK
    <2>2. pc' \in [Walker -> {"idle", "add", "del", "free", "reply", "sleep", "expire",
                              "gap", "probe"}]
      BY <1>1 DEF TypeOK
    <2> QED
      BY <1>1, <2>1, <2>2 DEF TypeOK
  <1>4. SerialSafe' /\ OnList' /\ Linked' = Linked
    BY <1>1, <1>3, ListKept DEF TypeOK
  <1>5. Roles'
    <2>1. \A c \in Client : pc'[c] = pc[c]
      BY <1>2, Distinct
    <2>2. pc'[Task] = pc[Task]
      BY <1>2, Distinct
    <2>3. \A v \in Walker : /\ pc'[v] \in {"add", "del", "reply"} => arg'[v] \in Addr
                            /\ pc'[v] \in {"idle", "sleep", "gap"} => at'[v] = NULL
      BY <1>1, <1>2 DEF Roles
    <2> QED
      BY <1>1, <2>1, <2>2, <2>3 DEF Roles
  <1>6. Locked'
    BY <1>1, <1>2, Distinct DEF Locked, Busy
  <1>7. Apart'
    BY <1>1, <1>2 DEF Apart, Busy
  <1>8. Aimed'
    BY <1>1, <1>2, <1>4 DEF Aimed
  <1>9. Missed'
    <2>1. \A d \in Client : pc'[d] = pc[d]
      BY <1>2, Distinct
    <2> QED
      BY <1>1, <2>1 DEF Missed
  <1>10. Aged'
    BY <1>1 DEF Aged
  <1> QED
    BY <1>3, <1>4, <1>5, <1>6, <1>7, <1>8, <1>9, <1>10

LEMMA NextPassKept ==
  ASSUME PeerInv, NextPass PROVE PeerInv'
  <1> USE DEF PeerInv
  <1>1. /\ UNCHANGED <<list, cell, holder, arg, sleep, probed, answers, alive, mode,
                       peercnt, calls, quiet, raced, fate>>
        /\ pc[Checker] = "gap" /\ left' = left - 1
        /\ pc' = [pc EXCEPT ![Checker] = "probe"] /\ at' = [at EXCEPT ![Checker] = First]
    BY DEF NextPass, Goto, PointTo, peers, network, config
  <1>2. /\ pc'[Checker] = "probe" /\ at'[Checker] = First
        /\ \A v \in Walker \ {Checker} : pc'[v] = pc[v] /\ at'[v] = at[v]
    BY <1>1, Distinct DEF TypeOK
  <1>3. First \in Linked \cup {NULL} /\ First \in Node \cup {NULL}
    BY FirstIn
  <1>4. TypeOK'
    <2>1. left' \in Nat
      BY <1>1 DEF TypeOK, Roles
    <2> QED
      BY <1>1, <1>3, <2>1 DEF TypeOK
  <1>5. SerialSafe' /\ OnList' /\ Linked' = Linked
    BY <1>1, <1>4, ListKept DEF TypeOK
  <1>6. Roles' /\ Locked'
    BY <1>1, <1>2, Distinct DEF Roles, Locked, Busy
  <1>7. Apart'
    BY <1>1, <1>2 DEF Apart, Busy
  <1>8. Aimed'
    BY <1>1, <1>2, <1>3, <1>5 DEF Aimed
  <1>9. Missed'
    <2>1. \A d \in Client : pc'[d] = pc[d] /\ at'[d] = at[d]
      BY <1>2, Distinct
    <2> QED
      BY <1>1, <2>1 DEF Missed
  <1>10. Aged'
    BY <1>1 DEF Aged
  <1> QED
    BY <1>4, <1>5, <1>6, <1>7, <1>8, <1>9, <1>10

(* What the first pass makes of a peer.                                    *)
LEMMA JudgedPeer ==
  ASSUME NEW p \in Peer
  PROVE  /\ Judged(p) \in Peer /\ Judged(p).addr = p.addr
         /\ Judged(p).age = IF p.age < 0 THEN 0 ELSE p.age
         /\ Judged(p).stat = IF p.age >= Expire THEN 0 ELSE p.stat
  <1>1. p.age \in Int /\ Expire \in Nat /\ p.age \in Age /\ p.stat \in {0, 1}
    BY PeerAssumption DEF Peer, Age
  <1>2. (IF p.age < 0 THEN 0 ELSE p.age) \in Age
    BY <1>1 DEF Age
  <1>3. /\ Judged(p).addr = p.addr
        /\ Judged(p).age = IF p.age < 0 THEN 0 ELSE p.age
        /\ Judged(p).stat = IF (IF p.age < 0 THEN 0 ELSE p.age) >= Expire THEN 0 ELSE p.stat
        /\ Judged(p) \in Peer
    BY <1>1, <1>2 DEF Judged, Peer
  <1>4. (IF p.age < 0 THEN 0 ELSE p.age) >= Expire <=> p.age >= Expire
    BY <1>1, PeerAssumption
  <1> QED
    BY <1>3, <1>4

(* What holds when the checking thread goes on from the peer it is at.     *)
LEMMA CheckedKept ==
  ASSUME PeerInv, pc[Checker] \in {"expire", "probe"}, Sound(Checker),
         at' = [at EXCEPT ![Checker] = Succ(at[Checker])],
         UNCHANGED <<list, holder, pc, arg, left, mode, raced, fate, quiet>>,
         cell' = [cell EXCEPT ![at[Checker]] = cell'[at[Checker]]],
         cell'[at[Checker]] \in Peer,
         cell'[at[Checker]].addr = cell[at[Checker]].addr,
         cell'[at[Checker]].age \in {0, cell[at[Checker]].age}
  PROVE  /\ SerialSafe' /\ OnList' /\ Roles' /\ Locked' /\ Apart' /\ Aimed' /\ Missed'
         /\ Aged'
         /\ cell' \in [Node -> Peer \cup {Free}] /\ at' \in [Walker -> Node \cup {NULL}]
  <1> DEFINE n == at[Checker]
  <1> USE DEF PeerInv
  <1>1. n \in Node /\ n \in Linked /\ cell[n] # Free
    BY Distinct DEF Sound, TypeOK, OnList
  <1>2. Succ(n) \in Linked \cup {NULL} /\ Succ(n) \in Node \cup {NULL}
    BY <1>1, SuccIn
  <1>3. /\ cell' \in [Node -> Peer \cup {Free}] /\ at' \in [Walker -> Node \cup {NULL}]
        /\ at'[Checker] = Succ(n) /\ \A v \in Walker \ {Checker} : at'[v] = at[v]
    BY <1>1, <1>2, Distinct DEF TypeOK
  <1>4. \A m \in Node : /\ cell'[m] = Free <=> cell[m] = Free
                        /\ cell[m] # Free => cell'[m].addr = cell[m].addr
    BY <1>1, FreeAssumption DEF TypeOK
  <1>5. SerialSafe' /\ OnList' /\ Linked' = Linked
    BY <1>3, <1>4, ListKept
  <1>6. Roles' /\ Locked' /\ Apart'
    BY <1>3 DEF Roles, Locked, Apart, Busy
  <1>7. Aimed'
    BY <1>2, <1>3, <1>5 DEF Aimed
  <1>8. Missed'
    <2> SUFFICES ASSUME ~raced, NEW c \in Client, pc[c] = "add",
                        NEW i \in 1..Len(list), NEW k \in 1..Len(list),
                        at'[c] = NULL \/ (list[k] = at'[c] /\ i < k)
                 PROVE  cell'[list[i]].addr # arg[c]
      BY DEF Missed
    <2>1. cell[list[i]].addr # arg[c]
      BY <1>3, Distinct DEF Missed
    <2>2. list[i] \in Node /\ cell[list[i]] # Free
      BY DEF OnList, Linked
    <2> QED
      BY <1>4, <2>1, <2>2
  <1>9. Aged'
    <2> SUFFICES ASSUME ~raced, NEW m \in Node, cell'[m] # Free
                 PROVE  cell'[m].age <= quiet[cell'[m].addr] \/ quiet[cell'[m].addr] >= Expire
      BY DEF Aged
    <2>1. /\ cell[m] # Free /\ cell'[m].addr = cell[m].addr /\ cell[m].addr \in Addr
          /\ cell'[m].age \in {0, cell[m].age} /\ cell[m].age \in Int
      BY <1>1, <1>4, CellType DEF TypeOK
    <2>2. quiet[cell[m].addr] \in Nat
      <3>1. quiet[cell[m].addr] \in 0..Expire
        BY <2>1, Zenon DEF TypeOK
      <3> QED
        BY <3>1, PeerAssumption
    <2>3. cell[m].age <= quiet[cell[m].addr] \/ quiet[cell[m].addr] >= Expire
      BY <2>1 DEF Aged
    <2> QED
      BY <2>1, <2>2, <2>3
  <1> QED
    BY <1>3, <1>5, <1>6, <1>7, <1>8, <1>9

(* Which peer is at hand when the checking thread looks at one.            *)
LEMMA AtHand ==
  ASSUME PeerInv, Sound(Checker)
  PROVE  at[Checker] \in Node /\ cell[at[Checker]] # Free /\ cell[at[Checker]] \in Peer
  BY Distinct DEF Sound, PeerInv, TypeOK

LEMMA SilentKept ==
  ASSUME PeerInv, Silent PROVE PeerInv'
  <1> USE DEF PeerInv
  <1> DEFINE n == at[Checker]
  <1>1. /\ UNCHANGED <<list, holder, pc, arg, sleep, left, probed, answers, alive, mode,
                       peercnt, calls, quiet, raced, fate>>
        /\ pc[Checker] = "expire" /\ Sound(Checker)
        /\ cell' = [cell EXCEPT ![n] = Judged(cell[n])]
        /\ at' = [at EXCEPT ![Checker] = Succ(at[Checker])]
    BY DEF Silent, PointTo, checks, network, config
  <1>2. n \in Node /\ cell[n] \in Peer /\ cell'[n] = Judged(cell[n])
    BY <1>1, AtHand DEF TypeOK
  <1>3. /\ SerialSafe' /\ OnList' /\ Roles' /\ Locked' /\ Apart' /\ Aimed' /\ Missed'
        /\ Aged'
        /\ cell' \in [Node -> Peer \cup {Free}] /\ at' \in [Walker -> Node \cup {NULL}]
    <2>1. cell'[n] \in Peer /\ cell'[n].addr = cell[n].addr /\ cell'[n].age \in {0, cell[n].age}
      BY <1>2, JudgedPeer
    <2> QED
      BY <1>1, <1>2, <2>1, CheckedKept
  <1>4. TypeOK'
    BY <1>1, <1>3 DEF TypeOK
  <1> QED
    BY <1>3, <1>4

LEMMA ProbeKept ==
  ASSUME PeerInv, Probe PROVE PeerInv'
  <1> USE DEF PeerInv
  <1> DEFINE n == at[Checker]
  <1>1. /\ UNCHANGED <<list, holder, pc, arg, sleep, left, answers, alive, mode,
                       peercnt, calls, quiet, raced, fate>>
        /\ pc[Checker] = "probe" /\ Sound(Checker)
        /\ cell' = cell \/ cell' = [cell EXCEPT ![n].age = 0]
        /\ probed' = probed \/ probed' = probed \cup ({cell[n].addr} \cap Host)
        /\ at' = [at EXCEPT ![Checker] = Succ(at[Checker])]
    BY DEF Probe, PointTo, checks, config
  <1>2. n \in Node /\ cell[n] \in Peer
    BY <1>1, AtHand
  <1>3. /\ cell' = [cell EXCEPT ![n] = cell'[n]] /\ cell'[n] \in Peer
        /\ cell'[n].addr = cell[n].addr /\ cell'[n].age \in {0, cell[n].age}
    <2>1. CASE cell' = cell
      BY <1>2, <2>1 DEF TypeOK
    <2>2. CASE cell' = [cell EXCEPT ![n].age = 0]
      <3>1. 0 \in Age
        BY PeerAssumption DEF Age
      <3>2. cell' = [cell EXCEPT ![n] = [cell[n] EXCEPT !.age = 0]]
        BY <2>2
      <3>3. /\ [cell[n] EXCEPT !.age = 0] \in Peer /\ [cell[n] EXCEPT !.age = 0].age = 0
            /\ [cell[n] EXCEPT !.age = 0].addr = cell[n].addr
        BY <1>2, <3>1 DEF Peer
      <3>4. cell'[n] = [cell[n] EXCEPT !.age = 0]
        BY <1>2, <3>2 DEF TypeOK
      <3> QED
        BY <3>2, <3>3, <3>4
    <2> QED
      BY <1>1, <2>1, <2>2
  <1>4. /\ SerialSafe' /\ OnList' /\ Roles' /\ Locked' /\ Apart' /\ Aimed' /\ Missed'
        /\ Aged'
        /\ cell' \in [Node -> Peer \cup {Free}] /\ at' \in [Walker -> Node \cup {NULL}]
    BY <1>1, <1>3, CheckedKept
  <1>5. TypeOK'
    <2>1. probed' \subseteq Addr
      BY <1>1, PeerAssumption DEF TypeOK
    <2> QED
      BY <1>1, <1>4, <2>1 DEF TypeOK
  <1> QED
    BY <1>4, <1>5

(* An answer makes its peer young, and it is heard of now.                 *)
LEMMA ReplyKept ==
  ASSUME PeerInv, Reply PROVE PeerInv'
  <1> USE DEF PeerInv
  <1> DEFINE n == at[Task]
  <1>1. /\ UNCHANGED <<list, sleep, left, probed, answers, alive, mode, peercnt, calls,
                       raced, fate>>
        /\ pc[Task] = "reply" /\ Done(Task)
        /\ holder' = holder \/ (holder = Task /\ holder' = NULL)
        /\ \/ /\ Found(Task) /\ Stamp(n) /\ quiet' = [quiet EXCEPT ![arg[Task]] = 0]
           \/ UNCHANGED <<cell, quiet>>
    BY DEF Reply, Release, checks, network, config
  <1>2. arg[Task] \in Addr
    BY <1>1, Distinct DEF Roles
  <1>3. /\ cell' \in [Node -> Peer \cup {Free}]
        /\ \A m \in Node : /\ cell'[m] = Free <=> cell[m] = Free
                           /\ cell[m] # Free => cell'[m].addr = cell[m].addr
        /\ \A m \in Node : cell[m] # Free => \/ cell'[m] = cell[m] /\ UNCHANGED quiet
                                             \/ cell'[m] = cell[m] /\ cell[m].addr # arg[Task]
                                             \/ cell'[m].age = 0
                                             \/ raced
    <2>1. CASE Found(Task) /\ Stamp(n) /\ quiet' = [quiet EXCEPT ![arg[Task]] = 0]
      <3>1. n \in Node /\ cell[n] # Free /\ cell[n].addr = arg[Task]
        BY <2>1, Distinct DEF Found, Sound, TypeOK
      <3>2. cell[n] \in Peer /\ 0 \in Age
        BY <3>1, CellType, PeerAssumption DEF Age
      <3>3. PICK p : p = [cell[n] EXCEPT !.age = 0, !.stat = 1]
        OBVIOUS
      <3>4. p \in Peer /\ p.addr = cell[n].addr /\ p.age = 0 /\ p # Free
        BY <3>2, <3>3, FreeAssumption DEF Peer
      <3>5. cell' = [cell EXCEPT ![n] = p]
        <4>1. cell' = [cell EXCEPT ![n] = [[cell[n] EXCEPT !.age = 0] EXCEPT !.stat = 1]]
          BY <2>1, <3>1, <3>2 DEF Stamp, TypeOK
        <4>2. [[cell[n] EXCEPT !.age = 0] EXCEPT !.stat = 1] = p
          BY <3>2, <3>3 DEF Peer
        <4> QED
          BY <4>1, <4>2
      <3>6. /\ cell' \in [Node -> Peer \cup {Free}] /\ cell'[n] = p
            /\ \A m \in Node \ {n} : cell'[m] = cell[m]
        BY <3>1, <3>4, <3>5 DEF TypeOK
      <3>7. ~raced => \A m \in Node \ {n} : cell[m] # Free => cell[m].addr # arg[Task]
        <4> SUFFICES ASSUME ~raced, NEW m \in Node \ {n}, cell[m] # Free
                     PROVE  cell[m].addr # cell[n].addr
          BY <3>1
        <4>1. m \in Linked /\ n \in Linked
          BY <3>1 DEF OnList
        <4>2. PICK i \in 1..Len(list), j \in 1..Len(list) : m = list[i] /\ n = list[j]
          BY <4>1 DEF Linked
        <4>3. i # j /\ i \in Nat /\ j \in Nat
          BY <4>2 DEF TypeOK
        <4>4. cell[m].addr < cell[n].addr \/ cell[n].addr < cell[m].addr
          BY <4>2, <4>3 DEF SerialSafe
        <4>5. cell[m].addr \in Int /\ cell[n].addr \in Int
          BY <3>1, CellType
        <4> QED
          BY <4>4, <4>5
      <3> QED
        BY <3>1, <3>4, <3>6, <3>7
    <2>2. CASE UNCHANGED <<cell, quiet>>
      BY <2>2 DEF TypeOK
    <2> QED
      BY <1>1, <2>1, <2>2
  <1>4. /\ Roles' /\ Locked' /\ Apart' /\ Aimed' /\ Missed'
        /\ pc' \in [Walker -> {"idle", "add", "del", "free", "reply", "sleep", "expire",
                               "gap", "probe"}]
        /\ at' \in [Walker -> Node \cup {NULL}] /\ arg' \in [Walker -> Addr \cup {NULL}]
        /\ holder' \in Walker \cup {NULL}
    <2>1. Task \in Walker \ {Checker}
      BY Distinct
    <2> QED
      BY <1>1, <1>3, <2>1, WalkDone
  <1>5. quiet' \in [Addr -> 0..Expire] /\ \A a \in Addr : quiet'[a] = quiet[a] \/ quiet'[a] = 0
    <2>1. 0 \in 0..Expire
      BY PeerAssumption
    <2> QED
      BY <1>1, <2>1 DEF TypeOK
  <1>6. TypeOK'
    BY <1>1, <1>3, <1>4, <1>5 DEF TypeOK
  <1>7. SerialSafe' /\ OnList'
    BY <1>1, <1>3, ListKept
  <1>8. Aged'
    <2> SUFFICES ASSUME ~raced, NEW m \in Node, cell'[m] # Free
                 PROVE  cell'[m].age <= quiet'[cell'[m].addr] \/ quiet'[cell'[m].addr] >= Expire
      BY <1>1 DEF Aged
    <2>1. cell[m] # Free /\ cell'[m].addr = cell[m].addr /\ cell[m].addr \in Addr
      BY <1>3, CellType
    <2>2. cell[m].age <= quiet[cell[m].addr] \/ quiet[cell[m].addr] >= Expire
      BY <2>1 DEF Aged
    <2>3. CASE cell'[m].age = 0
      <3>1. quiet'[cell[m].addr] \in 0..Expire
        BY <1>5, <2>1
      <3> QED
        BY <2>1, <2>3, <3>1, PeerAssumption
    <2>4. CASE cell'[m] = cell[m] /\ (UNCHANGED quiet \/ cell[m].addr # arg[Task])
      <3>1. quiet'[cell[m].addr] = quiet[cell[m].addr]
        BY <1>1, <2>1, <2>4 DEF TypeOK
      <3> QED
        BY <2>2, <2>4, <3>1
    <2> QED
      BY <1>3, <2>1, <2>3, <2>4
  <1> QED
    BY <1>4, <1>6, <1>7, <1>8

(* A client that takes the lock without a race is alone.                   *)
LEMMA Alone ==
  ASSUME PeerInv, NEW c \in Client, Busy(c), holder = NULL, ~raced
  PROVE  \A v \in Walker \ {c} : ~Busy(v) /\ at[v] = NULL /\ pc[v] # "add" /\ pc[v] # "free"
  <1> SUFFICES ASSUME NEW v \in Walker \ {c}
               PROVE  ~Busy(v) /\ at[v] = NULL /\ pc[v] # "add" /\ pc[v] # "free"
    OBVIOUS
  <1>1. ~Busy(v)
    <2>1. CASE v \in Client
      BY <2>1, Distinct DEF PeerInv, Apart
    <2>2. CASE v \in {Task, Checker}
      <3>1. SUFFICES ASSUME Busy(v) PROVE FALSE
        OBVIOUS
      <3>2. mode # "off" /\ (mode = "plain" => holder = v)
        BY <2>2, <3>1 DEF PeerInv, Locked
      <3>3. mode = "tunnel"
        BY <3>2, Distinct DEF PeerInv, TypeOK
      <3> QED
        BY <3>1, <3>3, Distinct DEF PeerInv, Apart
    <2> QED
      BY <2>1, <2>2 DEF Walker
  <1>2. pc[v] \in {"idle", "sleep"}
    BY <1>1 DEF Busy
  <1>3. at[v] = NULL
    BY <1>2 DEF PeerInv, Roles
  <1> QED
    BY <1>1, <1>2, <1>3

(* Its address is none of the list's: the peer goes between the smaller    *)
(* ones and the greater ones.                                              *)
LEMMA AddKept ==
  ASSUME PeerInv, NEW c \in Client, Add(c) PROVE PeerInv'
  <1> USE DEF PeerInv
  <1> DEFINE a == arg[c]
             new == [addr |-> a, age |-> Duration, stat |-> 1]
  <1>1. /\ UNCHANGED <<holder, sleep, left, probed, answers, alive, peercnt, calls,
                       raced, fate>>
        /\ pc[c] = "add" /\ at[c] = NULL /\ holder = NULL /\ Done(c)
        /\ mode' = (IF mode = "off" THEN "plain" ELSE mode)
        /\ quiet' = [quiet EXCEPT ![a] = Duration]
    BY DEF Add, NotFound, checks, network
  <1>2. PICK n \in Node : cell[n] = Free /\ cell' = [cell EXCEPT ![n] = new] /\ list' = Hashed(n, a)
    <2>1. (CHOOSE n \in FreeNodes : TRUE) \in FreeNodes
      BY Zenon DEF Add
    <2> QED
      BY <2>1 DEF Add, FreeNodes
  <1>3. c \in Walker /\ a \in Addr /\ a \in Int /\ c # Task /\ c # Checker /\ Busy(c)
    BY <1>1, Distinct, PeerAssumption DEF Roles, Busy
  <1>4. PICK k \in 0..Len(list) :
           /\ list' \in Seq(Node) /\ Len(list') = Len(list) + 1
           /\ \A i \in 1..k : i \in 1..Len(list) /\ list'[i] = list[i]
           /\ list'[k + 1] = n
           /\ \A i \in (k + 2)..(Len(list) + 1) :
                i - 1 \in 1..Len(list) /\ list'[i] = list[i - 1]
           /\ \A j \in 1..k : cell[list[j]].addr <= a
           /\ k < Len(list) => cell[list[k + 1]].addr > a
    BY <1>2, <1>3, HashedList
  <1>5. new \in Peer /\ new # Free /\ new.addr = a /\ new.age = Duration
    <2>1. Duration \in Age
      BY PeerAssumption DEF Age
    <2>2. new \in Peer
      BY <1>3, <2>1 DEF Peer
    <2> QED
      BY <2>2, FreeAssumption
  <1> HIDE DEF new
  <1>6. /\ cell' \in [Node -> Peer \cup {Free}] /\ cell'[n] = new
        /\ \A m \in Node \ {n} : cell'[m] = cell[m]
    BY <1>2, <1>5 DEF TypeOK
  <1>7. /\ \A v \in Walker \ {c} : pc'[v] = pc[v] /\ at'[v] = at[v] /\ arg'[v] = arg[v]
        /\ pc'[c] = "idle" /\ at'[c] = NULL
    BY <1>1, <1>3 DEF Done, TypeOK
  <1>8. /\ list \in Seq(Node) /\ Len(list) \in Nat /\ k \in Nat /\ k <= Len(list)
        /\ \A i \in 1..Len(list) : list[i] \in Node /\ list[i] # n /\ list[i] \in Linked
    BY <1>2 DEF TypeOK, OnList, Linked
  <1>9. TypeOK'
    <2>1. quiet' \in [Addr -> 0..Expire]
      <3>1. Duration \in 0..Expire
        BY PeerAssumption
      <3> QED
        BY <1>1, <1>3, <3>1 DEF TypeOK
    <2>2. /\ pc' \in [Walker -> {"idle", "add", "del", "free", "reply", "sleep", "expire",
                                 "gap", "probe"}]
          /\ at' \in [Walker -> Node \cup {NULL}] /\ arg' \in [Walker -> Addr \cup {NULL}]
          /\ mode' \in {"off", "plain", "tunnel"}
      BY <1>1 DEF Done, TypeOK
    <2> QED
      BY <1>1, <1>4, <1>6, <2>1, <2>2 DEF TypeOK
  <1>10. \A i \in 1..(Len(list) + 1) :
           \/ i \in 1..k /\ i \in 1..Len(list) /\ list'[i] = list[i]
           \/ i = k + 1 /\ list'[i] = n
           \/ i \in (k + 2)..(Len(list) + 1) /\ i - 1 \in 1..Len(list) /\ list'[i] = list[i - 1]
              /\ i - 1 > k
    <2> SUFFICES ASSUME NEW i \in 1..(Len(list) + 1)
                 PROVE  \/ i \in 1..k \/ i = k + 1
                        \/ i \in (k + 2)..(Len(list) + 1) /\ i - 1 > k
      BY <1>4
    <2> QED
      BY <1>8
  <1>11. OnList'
    <2>1. Linked' = Linked \cup {n}
      <3>1. Linked' \subseteq Linked \cup {n}
        BY <1>4, <1>10, SMTT(30) DEF Linked
      <3>2. n \in Linked'
        <4>1. k + 1 \in 1..Len(list')
          BY <1>4, <1>8
        <4> QED
          BY <1>4, <4>1 DEF Linked
      <3>3. ASSUME NEW i \in 1..Len(list) PROVE list[i] \in Linked'
        <4>1. CASE i <= k
          <5>1. i \in 1..k /\ i \in 1..Len(list')
            BY <1>4, <1>8, <4>1
          <5> QED
            BY <1>4, <5>1 DEF Linked
        <4>2. CASE i > k
          <5>1. /\ i + 1 \in (k + 2)..(Len(list) + 1) /\ i + 1 \in 1..Len(list')
                /\ (i + 1) - 1 = i
            BY <1>4, <1>8, <4>2
          <5>2. list'[i + 1] = list[i]
            BY <1>4, <5>1
          <5> QED
            BY <5>1, <5>2 DEF Linked
        <4> QED
          BY <1>8, <4>1, <4>2
      <3>4. \A m \in Linked : \E i \in 1..Len(list) : m = list[i]
        BY DEF Linked
      <3> QED
        BY <3>1, <3>2, <3>3, <3>4
    <2>2. {m \in Node : cell'[m] # Free} = {m \in Node : cell[m] # Free} \cup {n}
      BY <1>5, <1>6
    <2>3. ASSUME NEW i \in 1..Len(list'), NEW j \in 1..Len(list'), i < j
          PROVE  list'[i] # list'[j]
      <3>1. i \in 1..(Len(list) + 1) /\ j \in 1..(Len(list) + 1) /\ i \in Nat /\ j \in Nat
        BY <1>4
      <3>2. CASE j \in 1..k
        <4>1. i \in 1..k
          BY <1>8, <2>3, <3>1, <3>2
        <4> QED
          BY <1>4, <2>3, <3>2, <4>1 DEF OnList
      <3>3. CASE j = k + 1
        <4>1. i \in 1..k
          BY <1>8, <2>3, <3>1, <3>3
        <4> QED
          BY <1>4, <1>8, <3>3, <4>1
      <3>4. CASE j \in (k + 2)..(Len(list) + 1)
        <4>1. j - 1 \in 1..Len(list) /\ list'[j] = list[j - 1] /\ j - 1 > k
          BY <1>4, <1>8, <3>4
        <4>2. CASE i \in 1..k
          <5>1. i \in 1..Len(list) /\ i < j - 1 /\ list'[i] = list[i]
            BY <1>4, <1>8, <4>1, <4>2
          <5> QED
            BY <4>1, <5>1 DEF OnList
        <4>3. CASE i = k + 1
          BY <1>4, <1>8, <4>1, <4>3
        <4>4. CASE i \in (k + 2)..(Len(list) + 1)
          <5>1. i - 1 \in 1..Len(list) /\ list'[i] = list[i - 1] /\ i - 1 < j - 1
            BY <1>4, <1>8, <2>3, <3>1, <4>4
          <5> QED
            BY <4>1, <5>1 DEF OnList
        <4> QED
          BY <1>10, <3>1, <4>2, <4>3, <4>4
      <3> QED
        BY <1>10, <3>1, <3>2, <3>3, <3>4
    <2> QED
      BY <2>1, <2>2, <2>3 DEF OnList
  <1>12. ~raced => /\ \A v \in Walker \ {c} : /\ ~Busy(v) /\ at[v] = NULL /\ pc[v] # "add"
                                              /\ pc[v] # "free"
                   /\ \A i \in 1..Len(list) : cell[list[i]].addr # a
    BY <1>1, <1>3, Alone DEF Missed
  <1>13. SerialSafe'
    <2> SUFFICES ASSUME ~raced
                 PROVE  \A i, j \in 1..Len(list') :
                          i < j => cell'[list'[i]].addr < cell'[list'[j]].addr
      BY <1>1, <1>11 DEF SerialSafe, OnList
    <2>1. \A i \in 1..Len(list) : /\ cell'[list[i]] = cell[list[i]]
                                  /\ cell[list[i]].addr \in Int /\ cell[list[i]].addr # a
      BY <1>6, <1>8, <1>12, CellType DEF OnList
    <2>2. \A i \in 1..k : i \in 1..Len(list) /\ cell[list[i]].addr < a
      BY <1>3, <1>4, <1>8, <2>1
    <2>3. ASSUME NEW i \in 1..Len(list), i > k PROVE cell[list[i]].addr > a
      <3>1. k + 1 \in 1..Len(list) /\ k < Len(list) /\ k + 1 <= i
        BY <1>8, <2>3
      <3>2. cell[list[k + 1]].addr > a
        BY <1>4, <3>1
      <3>3. CASE k + 1 < i
        <4>1. cell[list[k + 1]].addr < cell[list[i]].addr
          BY <3>1, <3>3 DEF SerialSafe
        <4> QED
          BY <1>3, <2>1, <3>1, <3>2, <4>1
      <3> QED
        BY <1>8, <3>1, <3>2, <3>3
    <2> SUFFICES ASSUME NEW i \in 1..(Len(list) + 1), NEW j \in 1..(Len(list) + 1), i < j
                 PROVE  cell'[list'[i]].addr < cell'[list'[j]].addr
      BY <1>4
    <2>4. CASE j \in 1..k
      <3>1. i \in 1..k
        BY <1>8, <2>4
      <3> QED
        BY <1>4, <2>1, <2>4, <3>1 DEF SerialSafe
    <2>5. CASE j = k + 1
      <3>1. i \in 1..k /\ list'[j] = n
        BY <1>4, <1>8, <2>5
      <3> QED
        BY <1>4, <1>5, <1>6, <2>1, <2>2, <3>1
    <2>6. CASE j \in (k + 2)..(Len(list) + 1)
      <3>1. /\ j - 1 \in 1..Len(list) /\ list'[j] = list[j - 1] /\ j - 1 > k
            /\ cell'[list'[j]] = cell[list[j - 1]] /\ cell[list[j - 1]].addr > a
        BY <1>4, <1>8, <2>1, <2>3, <2>6
      <3>2. CASE i \in 1..k
        <4>1. cell[list[i]].addr < cell[list[j - 1]].addr
          BY <1>3, <2>1, <2>2, <3>1, <3>2
        <4> QED
          BY <1>4, <2>1, <3>1, <3>2, <4>1
      <3>3. CASE i = k + 1
        BY <1>4, <1>5, <1>6, <3>1, <3>3
      <3>4. CASE i \in (k + 2)..(Len(list) + 1)
        <4>1. i - 1 \in 1..Len(list) /\ list'[i] = list[i - 1] /\ i - 1 < j - 1
          BY <1>4, <1>8, <3>4
        <4> QED
          BY <2>1, <3>1, <4>1 DEF SerialSafe
      <3> QED
        BY <1>10, <3>2, <3>3, <3>4
    <2> QED
      BY <1>10, <2>4, <2>5, <2>6
  <1>14. Roles'
    <2>1. pc'[Checker] = pc[Checker] /\ pc'[Task] = pc[Task]
      BY <1>3, <1>7, Distinct
    <2>2. \A d \in Client : pc'[d] \in {"idle", "add", "del", "free"}
      BY <1>7, Distinct DEF Roles
    <2>3. \A v \in Walker : /\ pc'[v] \in {"add", "del", "reply"} => arg'[v] \in Addr
                            /\ pc'[v] \in {"idle", "sleep", "gap"} => at'[v] = NULL
      BY <1>7 DEF Roles
    <2> QED
      BY <1>1, <2>1, <2>2, <2>3 DEF Roles
  <1>15. Locked'
    <2>1. \A v \in {Task, Checker} : Busy(v)' <=> Busy(v)
      BY <1>3, <1>7, Distinct DEF Busy
    <2> QED
      BY <1>1, <2>1 DEF Locked
  <1>16. Apart'
    BY <1>1, <1>7, <1>12 DEF Apart, Busy
  <1>17. Aimed'
    BY <1>1, <1>7, <1>12 DEF Aimed
  <1>18. Missed'
    <2>1. ~raced => \A d \in Client : pc'[d] # "add"
      BY <1>7, <1>12, Distinct
    <2> QED
      BY <1>1, <2>1 DEF Missed
  <1>19. Aged'
    <2> SUFFICES ASSUME ~raced, NEW m \in Node, cell'[m] # Free
                 PROVE  cell'[m].age <= quiet'[cell'[m].addr] \/ quiet'[cell'[m].addr] >= Expire
      BY <1>1 DEF Aged
    <2>1. CASE m = n
      <3>1. quiet'[a] = Duration
        BY <1>1, <1>3 DEF TypeOK
      <3> QED
        BY <1>5, <1>6, <2>1, <3>1, PeerAssumption
    <2>2. CASE m # n
      <3>1. cell'[m] = cell[m] /\ m \in Linked /\ cell[m].addr \in Addr
        BY <1>6, <2>2, CellType DEF OnList
      <3>2. cell[m].addr # a
        BY <1>12, <3>1 DEF Linked
      <3>3. quiet'[cell[m].addr] = quiet[cell[m].addr]
        BY <1>1, <3>1, <3>2 DEF TypeOK
      <3> QED
        BY <3>1, <3>3 DEF Aged
    <2> QED
      BY <2>1, <2>2
  <1> QED
    BY <1>9, <1>11, <1>13, <1>14, <1>15, <1>16, <1>17, <1>18, <1>19

(* Nobody else points to the peer that is freed.                           *)
LEMMA FreeNodeKept ==
  ASSUME PeerInv, NEW c \in Client, FreeNode(c) PROVE PeerInv'
  <1> USE DEF PeerInv
  <1> DEFINE n == at[c]
             a == cell[n].addr
  <1>1. /\ UNCHANGED <<holder, sleep, left, probed, answers, alive, mode, peercnt,
                       calls, raced, fate>>
        /\ pc[c] = "free" /\ holder = NULL /\ Done(c)
        /\ list' = Unhashed(n)
        /\ cell' = [cell EXCEPT ![n] = Free]
        /\ quiet' = [quiet EXCEPT ![a] = 0]
    BY DEF FreeNode, checks, network, config
  <1>2. /\ c \in Walker /\ c # Task /\ c # Checker /\ Busy(c)
        /\ n \in Node /\ n \in Linked /\ cell[n] # Free
    BY <1>1, Distinct DEF FreeNode, Sound, Busy, TypeOK, OnList
  <1>3. PICK k \in 1..Len(list) :
           /\ list[k] = n
           /\ list' \in Seq(Node) /\ Len(list') = Len(list) - 1
           /\ \A i \in 1..(k - 1) : i \in 1..Len(list) /\ list'[i] = list[i]
           /\ \A i \in k..(Len(list) - 1) :
                i + 1 \in 1..Len(list) /\ list'[i] = list[i + 1]
    BY <1>1, <1>2, UnhashedList
  <1>4. /\ cell' \in [Node -> Peer \cup {Free}] /\ cell'[n] = Free
        /\ \A m \in Node \ {n} : cell'[m] = cell[m]
    BY <1>1, <1>2 DEF TypeOK
  <1>5. /\ \A v \in Walker \ {c} : pc'[v] = pc[v] /\ at'[v] = at[v] /\ arg'[v] = arg[v]
        /\ pc'[c] = "idle" /\ at'[c] = NULL
    BY <1>1, <1>2 DEF Done, TypeOK
  <1>6. /\ list \in Seq(Node) /\ Len(list) \in Nat /\ k \in Nat \ {0} /\ k <= Len(list)
        /\ \A i \in 1..Len(list) : /\ list[i] \in Node /\ list[i] \in Linked
                                   /\ i # k => list[i] # n
    <2>1. list \in Seq(Node) /\ Len(list) \in Nat /\ k \in Nat \ {0} /\ k <= Len(list)
      BY DEF TypeOK
    <2>2. ASSUME NEW i \in 1..Len(list), i # k PROVE list[i] # n
      <3>1. i \in Nat /\ (i < k \/ k < i)
        BY <2>1, <2>2
      <3> QED
        BY <1>3, <3>1 DEF OnList
    <2> QED
      BY <2>1, <2>2 DEF Linked
  <1>7. TypeOK'
    <2>1. quiet' \in [Addr -> 0..Expire]
      <3>1. 0 \in 0..Expire /\ a \in Addr
        BY <1>2, CellType, PeerAssumption
      <3> QED
        BY <1>1, <3>1 DEF TypeOK
    <2>2. /\ pc' \in [Walker -> {"idle", "add", "del", "free", "reply", "sleep", "expire",
                                 "gap", "probe"}]
          /\ at' \in [Walker -> Node \cup {NULL}] /\ arg' \in [Walker -> Addr \cup {NULL}]
      BY <1>1 DEF Done, TypeOK
    <2> QED
      BY <1>1, <1>3, <1>4, <2>1, <2>2 DEF TypeOK
  (* Where an entry of the shorter list was.                               *)
  <1>8. ASSUME NEW i \in 1..Len(list')
        PROVE  \E x \in 1..Len(list) : /\ list'[i] = list[x] /\ x # k
                                       /\ x = IF i < k THEN i ELSE i + 1
    <2>1. i \in 1..(Len(list) - 1) /\ i \in Nat
      BY <1>3
    <2>2. CASE i < k
      <3>1. i \in 1..(k - 1) /\ i \in 1..Len(list) /\ i # k
        BY <1>6, <2>1, <2>2
      <3> QED
        BY <1>3, <2>2, <3>1
    <2>3. CASE ~(i < k)
      <3>1. i \in k..(Len(list) - 1) /\ i + 1 \in 1..Len(list) /\ i + 1 # k
        BY <1>6, <2>1, <2>3
      <3> QED
        BY <1>3, <2>3, <3>1
    <2> QED
      BY <2>2, <2>3
  <1>9. ASSUME NEW i \in 1..Len(list'), NEW j \in 1..Len(list'), i < j
        PROVE  \E x, y \in 1..Len(list) :
                 x < y /\ x # k /\ y # k /\ list'[i] = list[x] /\ list'[j] = list[y]
    <2>1. PICK x \in 1..Len(list) : /\ list'[i] = list[x] /\ x # k
                                    /\ x = IF i < k THEN i ELSE i + 1
      BY <1>8
    <2>2. PICK y \in 1..Len(list) : /\ list'[j] = list[y] /\ y # k
                                    /\ y = IF j < k THEN j ELSE j + 1
      BY <1>8
    <2>3. i \in Nat /\ j \in Nat
      BY <1>3
    <2>4. x < y
      BY <1>6, <1>9, <2>1, <2>2, <2>3
    <2> QED
      BY <2>1, <2>2, <2>4
  <1>10. OnList'
    <2>1. Linked' = Linked \ {n}
      <3>1. ASSUME NEW i \in 1..Len(list') PROVE list'[i] \in Linked \ {n}
        BY <1>6, <1>8
      <3>2. ASSUME NEW x \in 1..Len(list), x # k PROVE list[x] \in Linked'
        <4>1. CASE x < k
          <5>1. x \in 1..(k - 1) /\ x \in 1..Len(list')
            BY <1>3, <1>6, <4>1
          <5> QED
            BY <1>3, <5>1 DEF Linked
        <4>2. CASE x > k
          <5>1. x - 1 \in k..(Len(list) - 1) /\ x - 1 \in 1..Len(list') /\ (x - 1) + 1 = x
            BY <1>3, <1>6, <4>2
          <5>2. list'[x - 1] = list[x]
            BY <1>3, <5>1
          <5> QED
            BY <5>1, <5>2 DEF Linked
        <4> QED
          BY <1>6, <3>2, <4>1, <4>2
      <3>3. ASSUME NEW m \in Linked \ {n} PROVE m \in Linked'
        <4>1. PICK x \in 1..Len(list) : m = list[x]
          BY DEF Linked
        <4>2. x # k
          BY <1>3, <4>1
        <4> QED
          BY <3>2, <4>1, <4>2
      <3>4. ASSUME NEW m \in Linked' PROVE m \in Linked \ {n}
        BY <3>1 DEF Linked
      <3> QED
        BY <3>3, <3>4
    <2>2. {m \in Node : cell'[m] # Free} = {m \in Node : cell[m] # Free} \ {n}
      BY <1>2, <1>4
    <2>3. \A i, j \in 1..Len(list') : i < j => list'[i] # list'[j]
      BY <1>9 DEF OnList
    <2> QED
      BY <2>1, <2>2, <2>3 DEF OnList
  <1>11. ~raced => \A v \in Walker \ {c} : /\ ~Busy(v) /\ at[v] = NULL /\ pc[v] # "add"
                                           /\ pc[v] # "free"
    BY <1>1, <1>2, Alone
  <1>12. SerialSafe'
    <2> SUFFICES ASSUME ~raced, NEW i \in 1..Len(list'), NEW j \in 1..Len(list'), i < j
                 PROVE  cell'[list'[i]].addr < cell'[list'[j]].addr
      BY <1>1, <1>10 DEF SerialSafe, OnList
    <2>1. PICK x, y \in 1..Len(list) :
            x < y /\ x # k /\ y # k /\ list'[i] = list[x] /\ list'[j] = list[y]
      BY <1>9
    <2>2. cell'[list[x]] = cell[list[x]] /\ cell'[list[y]] = cell[list[y]]
      BY <1>4, <1>6, <2>1
    <2> QED
      BY <2>1, <2>2 DEF SerialSafe
  <1>13. Roles'
    <2>1. pc'[Checker] = pc[Checker] /\ pc'[Task] = pc[Task]
      BY <1>2, <1>5, Distinct
    <2>2. \A d \in Client : pc'[d] \in {"idle", "add", "del", "free"}
      BY <1>5, Distinct DEF Roles
    <2>3. \A v \in Walker : /\ pc'[v] \in {"add", "del", "reply"} => arg'[v] \in Addr
                            /\ pc'[v] \in {"idle", "sleep", "gap"} => at'[v] = NULL
      BY <1>5 DEF Roles
    <2> QED
      BY <1>1, <2>1, <2>2, <2>3 DEF Roles
  <1>14. Locked'
    <2>1. \A v \in {Task, Checker} : Busy(v)' <=> Busy(v)
      BY <1>2, <1>5, Distinct DEF Busy
    <2> QED
      BY <1>1, <2>1 DEF Locked
  <1>15. Apart'
    BY <1>1, <1>5, <1>11 DEF Apart, Busy
  <1>16. Aimed'
    BY <1>1, <1>5, <1>11 DEF Aimed
  <1>17. Missed'
    <2>1. ~raced => \A d \in Client : pc'[d] # "add"
      BY <1>5, <1>11, Distinct
    <2> QED
      BY <1>1, <2>1 DEF Missed
  <1>18. Aged'
    <2> SUFFICES ASSUME ~raced, NEW m \in Node, cell'[m] # Free
                 PROVE  cell'[m].age <= quiet'[cell'[m].addr] \/ quiet'[cell'[m].addr] >= Expire
      BY <1>1 DEF Aged
    <2>1. m # n /\ cell'[m] = cell[m] /\ m \in Linked /\ cell[m].addr \in Addr
      BY <1>4, CellType DEF OnList
    <2>2. PICK x \in 1..Len(list) : m = list[x]
      BY <2>1 DEF Linked
    <2>3. x # k /\ x \in Nat /\ (x < k \/ k < x)
      BY <1>3, <1>6, <2>1, <2>2
    <2>4. cell[m].addr < a \/ a < cell[m].addr
      BY <1>3, <2>2, <2>3 DEF SerialSafe
    <2>5. cell[m].addr # a
      BY <1>2, <2>1, <2>4, CellType
    <2>6. quiet'[cell[m].addr] = quiet[cell[m].addr]
      BY <1>1, <2>1, <2>5 DEF TypeOK
    <2> QED
      BY <2>1, <2>6 DEF Aged
  <1> QED
    BY <1>7, <1>10, <1>12, <1>13, <1>14, <1>15, <1>16, <1>17, <1>18

-----------------------------------------------------------------------------
(* The invariant, and what follows from it.                                *)

LEMMA PeerInit == Init => PeerInv
  <1> SUFFICES ASSUME Init PROVE PeerInv
    OBVIOUS
  <1> USE DEF Init
  <1>1. TypeOK
    <2>1. Duration \in 0..Duration /\ 0 \in 0..MaxCalls /\ 0 \in 0..Expire
      BY PeerAssumption
    <2>2. /\ quiet \in [Addr -> 0..Expire] /\ sleep \in 0..Duration /\ calls \in 0..MaxCalls
      BY <2>1
    <2>3. cell \in [Node -> Peer \cup {Free}] /\ list \in Seq(Node)
      OBVIOUS
    <2>4. alive \subseteq Addr
      BY PeerAssumption
    <2> QED
      BY <2>2, <2>3, <2>4 DEF TypeOK
  <1>2. Len(list) = 0 /\ Linked = {}
    BY DEF Linked
  <1>3. SerialSafe /\ OnList
    BY <1>2 DEF SerialSafe, OnList
  <1>4. \A w \in Walker : pc[w] \in {"idle", "sleep"} /\ at[w] = NULL /\ ~Busy(w)
    BY DEF Busy
  <1>5. Roles /\ Locked /\ Apart
    BY <1>4, Distinct DEF Roles, Locked, Apart
  <1>6. Aimed /\ Missed
    BY <1>4, Distinct DEF Aimed, Missed
  <1>7. Aged
    BY DEF Aged
  <1> QED
    BY <1>1, <1>3, <1>5, <1>6, <1>7 DEF PeerInv

LEMMA PeerNext == PeerInv /\ [Next]_vars => PeerInv'
  <1> SUFFICES ASSUME PeerInv, [Next]_vars PROVE PeerInv'
    OBVIOUS
  <1>1. CASE UNCHANGED vars
    <2> USE <1>1 DEF vars, peers, walks, checks, network, config
    <2>1. TypeOK'
      BY DEF PeerInv, TypeOK
    <2>2. SerialSafe' /\ OnList' /\ Aimed' /\ Missed'
      BY <2>1, ListKept DEF TypeOK
    <2>3. Aged'
      BY DEF PeerInv, Aged
    <2> QED
      BY <2>1, <2>2, <2>3, WalksKept DEF PeerInv
  <1>2. ASSUME NEW c \in Client, Api(c) PROVE PeerInv'
    BY <1>2, CallKept, ReturnKept, AddKept, DeleteKept, FreeNodeKept DEF Api
  <1>3. ASSUME NEW n \in Tunnels, InitPeer2(n) PROVE PeerInv'
    BY <1>3, InitPeer2Kept
  <1>4. ASSUME NEW w \in Walker, FindNext(w) \/ Fault(w) PROVE PeerInv'
    BY <1>4, FindNextKept, FaultKept
  <1>5. ASSUME NEW a \in Host, Receive(a) PROVE PeerInv'
    BY <1>5, ReceiveKept
  <1>6. CASE Reply \/ Check
    BY <1>6, ReplyKept, WakeKept, SilentKept, EndPassKept, NextPassKept, ProbeKept DEF Check
  <1>7. CASE World
    BY <1>7, NetworkKept, TickKept, SetBackKept DEF World
  <1> QED
    BY <1>1, <1>2, <1>3, <1>4, <1>5, <1>6, <1>7 DEF Next

(* The invariant holds of every behaviour of the peer monitor.             *)
THEOREM PeerInvariant == Spec => []PeerInv
  BY PeerInit, PeerNext, PTL DEF Spec

(* peeradd, peerdel and the two threads of peer.c keep the list in order,  *)
(* with one entry for each address and every allocated peer on it, and no  *)
(* freed peer is used, as long as no two walks meet that no lock keeps     *)
(* apart; and whatever happens, the variables keep their types.            *)
THEOREM ListIsSafe == Spec => []ListSafe
  <1>1. PeerInv => ListSafe
    BY DEF PeerInv, ListSafe
  <1> QED
    BY <1>1, PeerInvariant, PTL

(* peercheck reports a peer down only when it has been silent for          *)
(* PEER_ICMP_EXPIRE seconds.                                               *)
THEOREM DownIsSilent == Spec => DownMeansSilent
  <1> DEFINE Silence == \A n \in Node :
               cell[n] # Free /\ cell'[n] # Free /\ ~raced =>
                 (cell[n].stat = 1 /\ cell'[n].stat = 0
                    => quiet[cell[n].addr] >= Expire)
  <1>1. PeerInv /\ [Next]_vars => [Silence]_vars
    <2> SUFFICES ASSUME PeerInv, Next, NEW n \in Node, cell[n] # Free, cell'[n] # Free, ~raced,
                        cell[n].stat = 1, cell'[n].stat = 0
                 PROVE  quiet[cell[n].addr] >= Expire
      BY DEF vars
    <2>1. cell[n] \in Peer /\ cell[n].addr \in Addr /\ cell[n].age \in Int
      BY CellType DEF PeerInv
    <2>2. cell' # cell
      OBVIOUS
    <2>3. cell \in [Node -> Peer \cup {Free}]
      BY DEF PeerInv, TypeOK
    <2>4. CASE Silent
      <3>1. n = at[Checker] /\ cell'[n] = Judged(cell[n])
        BY <2>3, <2>4 DEF Silent
      <3>2. cell[n].age >= Expire
        BY <2>1, <3>1, JudgedPeer
      <3>3. cell[n].age <= quiet[cell[n].addr] \/ quiet[cell[n].addr] >= Expire
        BY DEF PeerInv, Aged
      <3>4. quiet[cell[n].addr] \in 0..Expire /\ Expire \in Nat
        BY <2>1, PeerAssumption DEF PeerInv, TypeOK
      <3> QED
        BY <2>1, <3>2, <3>3, <3>4
    <2>5. CASE Probe
      <3>1. cell' = [cell EXCEPT ![at[Checker]].age = 0]
        BY <2>2, <2>5 DEF Probe
      <3>2. cell'[n].stat = cell[n].stat
        BY <2>1, <2>3, <3>1 DEF Peer
      <3> QED
        BY <3>2
    <2>6. CASE Reply
      <3>1. cell' = [cell EXCEPT ![at[Task]].age = 0, ![at[Task]].stat = 1]
        BY <2>2, <2>6 DEF Reply, Stamp
      <3>2. cell'[n].stat = cell[n].stat \/ cell'[n].stat = 1
        BY <2>1, <2>3, <3>1 DEF Peer
      <3> QED
        BY <3>2
    <2>7. CASE Tick
      <3>1. cell'[n] = Older(n)
        BY <2>7 DEF Tick
      <3>2. cell'[n].stat = cell[n].stat
        BY <2>1, <3>1 DEF Older, Peer
      <3> QED
        BY <3>2
    <2>8. CASE SetBack
      <3>1. cell'[n] = IF cell[n].age >= 0 THEN [cell[n] EXCEPT !.age = @ - 1] ELSE cell[n]
        BY <2>8 DEF SetBack
      <3>2. cell'[n].stat = cell[n].stat
        BY <2>1, <3>1 DEF Peer
      <3> QED
        BY <3>2
    <2>9. ASSUME NEW c \in Client, Add(c) PROVE FALSE
      <3>1. PICK m \in Node : cell[m] = Free /\ \E p : cell' = [cell EXCEPT ![m] = p]
        <4>1. (CHOOSE m \in FreeNodes : TRUE) \in FreeNodes
          BY <2>9, Zenon DEF Add
        <4> QED
          BY <2>9, <4>1 DEF Add, FreeNodes
      <3> QED
        BY <2>3, <3>1
    <2>10. ASSUME NEW c \in Client, FreeNode(c) PROVE FALSE
      <3>1. cell' = [cell EXCEPT ![at[c]] = Free]
        BY <2>10 DEF FreeNode
      <3> QED
        BY <2>3, <3>1
    <2>11. ASSUME NEW c \in Client, Api(c) PROVE Add(c) \/ FreeNode(c)
      BY <2>2, <2>11 DEF Api, Call, Return, AddFails, Delete, peers
    <2>12. ASSUME NEW m \in Tunnels, InitPeer2(m) PROVE FALSE
      BY <2>2, <2>12 DEF InitPeer2, peers
    <2>13. ASSUME NEW w \in Walker, FindNext(w) \/ Fault(w) PROVE FALSE
      BY <2>2, <2>13 DEF FindNext, Fault, peers
    <2>14. ASSUME NEW a \in Host, Receive(a) PROVE FALSE
      BY <2>2, <2>14 DEF Receive
    <2>15. Check => Silent \/ Probe
      BY <2>2 DEF Check, Wake, EndPass, NextPass, peers
    <2>16. World => Tick \/ SetBack
      BY <2>2 DEF World, Answer, Lose, Flip, peers
    <2> QED
      BY <2>4, <2>5, <2>6, <2>7, <2>8, <2>9, <2>10, <2>11, <2>12, <2>13, <2>14, <2>15,
         <2>16 DEF Next
  <1>2. PeerInv /\ [Next]_vars => [\A n \in Node :
          cell[n] # Free /\ cell'[n] # Free /\ ~raced =>
            (cell[n].stat = 1 /\ cell'[n].stat = 0
               => quiet[cell[n].addr] >= Expire)]_vars
    BY <1>1
  <1> QED
    BY <1>2, PeerInvariant, PTL DEF Spec, DownMeansSilent
=============================================================================

----------------------------- MODULE TimerProof -----------------------------
(***************************************************************************)
(* Proofs about Timer, for every value of its constants.                   *)
(***************************************************************************)
EXTENDS Timer, FiniteSetTheorems, TLAPS

LEMMA ModRange == ASSUME NEW x \in Int, NEW n \in Nat \ {0}
                  PROVE  x % n \in 0..(n - 1)
  OBVIOUS

LEMMA DivNat == ASSUME NEW x \in Nat, NEW n \in Nat \ {0}
                PROVE  x \div n \in Nat
  OBVIOUS

LEMMA HashSlot == ASSUME NEW t \in Timeb PROVE Hash(t) \in Slot
  <1>1. t.time \in Int /\ t.millitm \in Int
    BY DEF Timeb, Millis
  <1>2. (t.time % SecWidth) \in Int
    BY <1>1, TimeAssumption, ModRange
  <1>3. MS \in Int
    BY TimeAssumption
  <1>4. (t.time % SecWidth) * MS + t.millitm \in Int
    BY <1>1, <1>2, <1>3
  <1>5. WheelSize \in Nat \ {0}
    BY TimeAssumption
  <1> QED
    BY <1>4, <1>5, ModRange DEF Hash, Slot

LEMMA WallTimeb == Wall \subseteq Timeb
  BY TimeAssumption DEF Wall, Timeb, Millis

LEMMA PlusType ==
  ASSUME NEW t \in Wall, NEW sec \in Nat, NEW ms \in 0..(MS - 1)
  PROVE  Plus(t, sec, ms) \in Timeb
  <1>1. t.time \in Int /\ t.millitm \in 0..(MS - 1)
    BY DEF Wall
  <1>2. MS \in Nat /\ U16 \in Nat /\ 2 * MS <= U16
    BY TimeAssumption
  <1>3. CASE t.millitm + ms >= MS
    <2>1. t.time + sec + 1 \in Int /\ t.millitm + ms - MS \in 0..(U16 - 1)
      BY <1>1, <1>2, <1>3
    <2> QED
      BY <1>3, <2>1 DEF Plus, Timeb, Millis
  <1>4. CASE ~(t.millitm + ms >= MS)
    <2>1. t.time + sec \in Int /\ t.millitm + ms \in 0..(U16 - 1)
      BY <1>1, <1>2, <1>4
    <2> QED
      BY <1>4, <2>1 DEF Plus, Timeb, Millis
  <1> QED
    BY <1>3, <1>4

LEMMA AfterType == ASSUME NEW t \in Wall, NEW d \in Delay
                   PROVE  After(t, d) \in Timeb
  <1>1. d \in Nat /\ d \in Int /\ MS \in Nat \ {0}
    BY TimeAssumption
  <1>2. d % MS \in 0..(MS - 1)
    BY <1>1, ModRange
  <1>3. d \div MS \in Nat
    BY <1>1, DivNat
  <1> QED
    BY <1>2, <1>3, PlusType DEF After

LEMMA ResyncedType == ASSUME NEW t \in Timeb, NEW a \in Int, NEW b \in Int
                      PROVE  Resynced(t, a, b) \in Timeb
  <1> DEFINE sec == t.time + a
             tmp == sec + b
  <1>1. sec \in Int /\ tmp \in Int
    BY DEF Timeb
  <1>2. U16 \in Nat \ {0} /\ MS \in Nat
    BY TimeAssumption
  <1> HIDE DEF tmp
  <1>3. (tmp % U16) \in Millis
    BY <1>1, <1>2, ModRange DEF Millis
  <1>5. tmp + MS \in Int
    BY <1>1, <1>2
  <1>6. ((tmp + MS) % U16) \in Millis
    BY <1>5, <1>2, ModRange DEF Millis
  <1>4. Resynced(t, a, b) = IF tmp < 0 THEN [time |-> sec - 1, millitm |-> (tmp + MS) % U16]
                                       ELSE [time |-> sec, millitm |-> tmp % U16]
    BY DEF Resynced, tmp
  <1> HIDE DEF sec
  <1> QED
    BY <1>1, <1>3, <1>4, <1>6 DEF Timeb

-----------------------------------------------------------------------------
(* The heap discipline.                                                    *)

LEMMA HeapInit == Init => HeapInv
  <1> SUFFICES ASSUME Init PROVE HeapInv
    OBVIOUS
  <1>1. clock \in Wall
    BY TimeAssumption DEF Init, Wall
  <1>2. TypeOK
    BY <1>1, ThreadAssumption, KeyAssumption DEF Init, TypeOK, Thread
  <1>3. PcInv
    BY DEF Init, PcInv
  <1>4. Held = {} /\ Wheel = {} /\ Queued = {}
    BY DEF Init, Held, Wheel, Queued, Elems
  <1>5. OnePlace
    BY <1>4 DEF Init, OnePlace, Once
  <1> QED
    BY <1>2, <1>3, <1>5 DEF HeapInv

(* Steps that touch neither the heap nor a list.                           *)
LEMMA HeapFrame ==
  ASSUME OnePlace, UNCHANGED <<heap, thlist, khash, tqueue, te>>
  PROVE  OnePlace'
  <1>1. Held' = Held /\ Wheel' = Wheel /\ Queued' = Queued
    BY DEF Held, Wheel, Queued
  <1> QED
    BY <1>1 DEF OnePlace

LEMMA ClockHeap == HeapInv /\ Clock => HeapInv'
  <1> SUFFICES ASSUME HeapInv, Clock PROVE HeapInv'
    OBVIOUS
  <1>1. clock' \in Wall
    <2>0. /\ clock = [time |-> clock.time, millitm |-> clock.millitm]
          /\ clock.time \in Int /\ clock.millitm \in 0..(MS - 1)
          /\ MS \in Nat \ {0} /\ Jumps \subseteq Int
      BY TimeAssumption DEF HeapInv, TypeOK, Wall
    <2>1. CASE ClockTick
      BY <2>0, <2>1 DEF ClockTick, Wall
    <2>2. CASE ClockStep
      BY <2>0, <2>2 DEF ClockStep, Wall
    <2> QED
      BY <2>1, <2>2 DEF Clock
  <1>2. UNCHANGED <<internal, ext, scanned, tpc, heap, wheelVars, tqueue, cbpc,
                    clientVars>>
    BY DEF Clock, ClockTick, ClockStep
  <1>3. TypeOK' /\ PcInv'
    BY <1>1, <1>2 DEF HeapInv, TypeOK, PcInv, wheelVars, clientVars
  <1>4. OnePlace'
    BY <1>2, HeapFrame DEF HeapInv, wheelVars, clientVars
  <1> QED
    BY <1>3, <1>4 DEF HeapInv

(* timer_check up to the scan: only Resync touches an entry, and it keeps  *)
(* the wheel's entries, each in the one slot its new expiry hashes to.     *)
LEMMA CheckHeap ==
  HeapInv /\ (StartCheck \/ ReadClock \/ Follow \/ Resync) => HeapInv'
  <1> SUFFICES ASSUME HeapInv, StartCheck \/ ReadClock \/ Follow \/ Resync
               PROVE  HeapInv'
    OBVIOUS
  <1>1. CASE StartCheck \/ ReadClock \/ Follow
    <2>1. UNCHANGED <<clock, heap, wheelVars, tqueue, cbpc, clientVars>>
      BY <1>1 DEF StartCheck, ReadClock, Follow
    <2>2. /\ internal' \in Wall /\ ext' \in Wall /\ scanned' \in Wall
          /\ tpc' \in {"start", "sleep", "sync", "scan"}
      BY <1>1 DEF StartCheck, ReadClock, Follow, HeapInv, TypeOK
    <2>3. TypeOK' /\ PcInv'
      BY <2>1, <2>2 DEF HeapInv, TypeOK, PcInv, wheelVars, clientVars
    <2>4. OnePlace'
      BY <2>1, HeapFrame DEF HeapInv, wheelVars, clientVars
    <2> QED
      BY <2>3, <2>4 DEF HeapInv
  <1>2. CASE Resync
    <2>1. \A e \in Wheel : e \in Entry /\ heap[e] \in Cell
      BY DEF HeapInv, TypeOK, OnePlace, Wheel
    <2>2. \A e \in Wheel : Hash(heap'[e].t) \in Slot
                           /\ heap'[e] \in Cell
      <3> SUFFICES ASSUME NEW e \in Wheel
                   PROVE  Hash(heap'[e].t) \in Slot /\ heap'[e] \in Cell
        OBVIOUS
      <3> DEFINE a == ext.time - internal.time
                 b == ext.millitm - internal.millitm
      <3>1. e \in Entry /\ heap[e] \in Cell
        BY <2>1
      <3>2. a \in Int /\ b \in Int
        BY DEF HeapInv, TypeOK, Wall
      <3>3. heap'[e] = [heap[e] EXCEPT !.t = Resynced(@, a, b)]
        BY <1>2, <3>1 DEF Resync
      <3> HIDE DEF a, b
      <3>4. Resynced(heap[e].t, a, b) \in Timeb
        BY <3>1, <3>2, ResyncedType DEF Cell
      <3>5. heap'[e] \in Cell /\ heap'[e].t \in Timeb
        BY <3>1, <3>3, <3>4 DEF Cell
      <3> QED
        BY <3>5, HashSlot
    <2>3. heap' \in [Entry -> Cell \cup {Free}]
      BY <1>2, <2>2 DEF Resync, HeapInv, TypeOK
    <2>4. \A e \in Entry : heap'[e] # Free <=> heap[e] # Free
      BY <1>2, <2>1, <2>2, KeyAssumption DEF Resync, HeapInv, TypeOK
    <2>5. /\ thlist' = [i \in Slot |-> {e \in Wheel : Hash(heap'[e].t) = i}]
          /\ internal' = clock /\ ext' = clock /\ scanned' = clock
          /\ tpc' = "scan"
          /\ UNCHANGED <<clock, khash, newer, tqueue, cbpc, cbTid, pc, tid, te>>
      BY <1>2 DEF Resync, Rehashed, clientVars
    <2>6. thlist' \in [Slot -> SUBSET Entry]
      BY <2>1, <2>5
    <2>7. TypeOK' /\ PcInv'
      BY <2>3, <2>5, <2>6 DEF HeapInv, TypeOK, PcInv
    <2>8. Wheel' = Wheel /\ Held' = Held /\ Queued' = Queued
      BY <2>2, <2>5 DEF Wheel, Held, Queued
    <2>9. OnePlace'
      BY <2>4, <2>5, <2>8 DEF HeapInv, OnePlace
    <2> QED
      BY <2>7, <2>9 DEF HeapInv
  <1> QED
    BY <1>1, <1>2

(* A batch lists the due entries, each once.                               *)
LEMMA BatchType ==
  ASSUME NEW D, D \subseteq Entry, NEW q \in Batches(D)
  PROVE  q \in Seq(D) /\ Elems(q) = D /\ Once(q)
  <1>1. IsFiniteSet(D)
    BY ThreadAssumption, FS_Subset
  <1>2. Cardinality(D) \in Nat
    BY <1>1, FS_CardinalityType
  <1> DEFINE n == Cardinality(D)
  <1>3. /\ q \in [1..n -> D]
        /\ \A e \in D : \E i \in DOMAIN q : q[i] = e
        /\ \A i, j \in DOMAIN q : i < j => q[i] # q[j]
    BY DEF Batches
  <1> HIDE DEF n
  <1>4. n \in Nat
    BY <1>2 DEF n
  <1>5. q \in Seq(D) /\ Len(q) = n /\ DOMAIN q = 1..n
    BY <1>3, <1>4
  <1>6. Elems(q) = D
    BY <1>3, <1>5 DEF Elems
  <1>7. Once(q)
    <2> SUFFICES ASSUME NEW i \in 1..n, NEW j \in 1..n, i # j
                 PROVE  q[i] # q[j]
      BY <1>5 DEF Once
    <2>1. i < j \/ j < i
      BY <1>4
    <2> QED
      BY <1>3, <1>5, <2>1
  <1> QED
    BY <1>5, <1>6, <1>7

LEMMA ConcatOnce ==
  ASSUME NEW S, NEW q \in Seq(S), NEW r \in Seq(S),
         Once(q), Once(r), Elems(q) \cap Elems(r) = {}
  PROVE  /\ q \o r \in Seq(S)
         /\ Once(q \o r)
         /\ Elems(q \o r) = Elems(q) \cup Elems(r)
  <1> DEFINE c == q \o r
             m == Len(q)
             n == Len(r)
  <1>1. m \in Nat /\ n \in Nat
    OBVIOUS
  <1>2. /\ c \in Seq(S) /\ Len(c) = m + n
        /\ \A i \in 1..(m + n) : c[i] = IF i <= m THEN q[i] ELSE r[i - m]
    OBVIOUS
  <1>3. /\ \A i, j \in 1..m : i # j => q[i] # q[j]
        /\ \A i, j \in 1..n : i # j => r[i] # r[j]
        /\ \A i \in 1..m, j \in 1..n : q[i] # r[j]
    BY DEF Once, Elems
  <1> HIDE DEF c, m, n
  <1>4. \A i \in 1..(m + n) : IF i <= m THEN i \in 1..m ELSE i - m \in 1..n
    BY <1>1
  <1>5. ASSUME NEW i \in 1..(m + n), NEW j \in 1..(m + n), i # j
        PROVE  c[i] # c[j]
    <2>1. CASE i <= m /\ j <= m
      BY <1>1, <1>2, <1>3, <1>4, <1>5, <2>1
    <2>2. CASE i <= m /\ ~(j <= m)
      BY <1>1, <1>2, <1>3, <1>4, <2>2
    <2>3. CASE ~(i <= m) /\ j <= m
      BY <1>1, <1>2, <1>3, <1>4, <2>3
    <2>4. CASE ~(i <= m) /\ ~(j <= m)
      <3>1. i - m \in 1..n /\ j - m \in 1..n /\ i - m # j - m
        BY <1>1, <1>4, <1>5, <2>4
      <3> QED
        BY <1>2, <1>3, <2>4, <3>1
    <2> QED
      BY <2>1, <2>2, <2>3, <2>4
  <1>6. \A i \in 1..m : i \in 1..(m + n) /\ c[i] = q[i]
    BY <1>1, <1>2
  <1>7. \A i \in 1..n : i + m \in 1..(m + n) /\ c[i + m] = r[i]
    BY <1>1, <1>2
  <1>8. \A i \in 1..(m + n) : \/ i \in 1..m /\ c[i] = q[i]
                              \/ i - m \in 1..n /\ c[i] = r[i - m]
    BY <1>2, <1>4
  <1>9. Once(c)
    BY <1>2, <1>5 DEF Once
  <1>10. Elems(c) = Elems(q) \cup Elems(r)
    <2>1. Elems(q) = {q[i] : i \in 1..m} /\ Elems(r) = {r[i] : i \in 1..n}
      BY DEF Elems, m, n
    <2>2. Elems(c) = {c[i] : i \in 1..(m + n)}
      BY <1>2 DEF Elems
    <2>3. \A x : x \in Elems(c) => x \in Elems(q) \cup Elems(r)
      BY <1>8, <2>1, <2>2
    <2>4. \A x : x \in Elems(q) \cup Elems(r) => x \in Elems(c)
      BY <1>6, <1>7, <2>1, <2>2
    <2> QED
      BY <2>3, <2>4
  <1> QED
    BY <1>2, <1>9, <1>10 DEF c

(* Taking the head off a list without repetition.                          *)
LEMMA TailOnce ==
  ASSUME NEW S, NEW q \in Seq(S), q # <<>>, Once(q)
  PROVE  /\ Head(q) \in Elems(q) /\ Head(q) \in S
         /\ Tail(q) \in Seq(S)
         /\ Once(Tail(q))
         /\ Elems(Tail(q)) = Elems(q) \ {Head(q)}
  <1> DEFINE r == Tail(q)
             n == Len(q)
  <1>1. /\ n \in Nat \ {0} /\ Head(q) = q[1] /\ q[1] \in S
        /\ r \in Seq(S) /\ Len(r) = n - 1
        /\ \A i \in 1..(n - 1) : i + 1 \in 1..n /\ r[i] = q[i + 1]
    OBVIOUS
  <1>2. \A i, j \in 1..n : i # j => q[i] # q[j]
    BY DEF Once
  <1> HIDE DEF r, n
  <1>3. \A i \in 1..n : i # 1 => i - 1 \in 1..(n - 1) /\ q[i] = r[i - 1]
    BY <1>1
  <1>4. 1 \in 1..n /\ \A i \in 1..(n - 1) : r[i] # q[1]
    BY <1>1, <1>2
  <1>5. Elems(r) = Elems(q) \ {q[1]} /\ q[1] \in Elems(q)
    BY <1>1, <1>3, <1>4 DEF Elems, n
  <1>6. Once(r)
    <2> SUFFICES ASSUME NEW i \in 1..(n - 1), NEW j \in 1..(n - 1), i # j
                 PROVE  r[i] # r[j]
      BY <1>1 DEF Once
    <2>1. i + 1 # j + 1 /\ i + 1 \in 1..n /\ j + 1 \in 1..n
      BY <1>1
    <2> QED
      BY <1>1, <1>2, <2>1
  <1> QED
    BY <1>1, <1>5, <1>6 DEF r

LEMMA ScanHeap == HeapInv /\ Scan => HeapInv'
  <1> SUFFICES ASSUME HeapInv, Scan PROVE HeapInv'
    OBVIOUS
  <1>1. Due \subseteq Wheel /\ Wheel \subseteq Entry
    BY DEF Due, ScanSlots, Wheel, HeapInv, TypeOK
  <1>2. PICK q \in Batches(Due) : tqueue' = q \o tqueue
    BY DEF Scan
  <1> HIDE DEF Due
  <1>3. q \in Seq(Due) /\ Elems(q) = Due /\ Once(q)
    BY <1>1, BatchType
  <1>4. Due \subseteq Entry /\ q \in Seq(Entry) /\ tqueue \in Seq(Entry)
    BY <1>1, <1>3 DEF HeapInv, TypeOK
  <1>5. Once(tqueue) /\ Elems(q) \cap Elems(tqueue) = {}
    BY <1>1, <1>3 DEF HeapInv, OnePlace, Queued
  <1>6. /\ tqueue' \in Seq(Entry) /\ Once(tqueue')
        /\ Queued' = Due \cup Queued
    BY <1>2, <1>3, <1>4, <1>5, ConcatOnce DEF Queued
  <1>7. /\ thlist' = [i \in Slot |-> thlist[i] \ Due]
        /\ khash' = khash \ Due
        /\ newer' = newer \cap (khash' \X khash')
        /\ cbpc' = (IF Due # {} /\ cbpc = "wait" THEN "woken" ELSE cbpc)
        /\ cbpc # "fn"
        /\ scanned' = internal /\ tpc' = "sleep"
        /\ UNCHANGED <<clock, internal, ext, heap, cbTid, pc, tid, te>>
    BY DEF Scan, Unlink, KUnhash, clientVars
  <1>8. Wheel' = Wheel \ Due /\ Held' = Held
    BY <1>7 DEF Wheel, Held
  <1>9. TypeOK' /\ PcInv'
    BY <1>6, <1>7 DEF HeapInv, TypeOK, PcInv
  <1>10. OnePlace'
    <2>1. \A i \in Slot : thlist'[i] \subseteq thlist[i]
      BY <1>7
    <2> QED
      BY <1>1, <1>6, <1>7, <1>8, <2>1 DEF HeapInv, OnePlace
  <1> QED
    BY <1>9, <1>10 DEF HeapInv

LEMMA CbHeap == HeapInv /\ CbStep => HeapInv'
  <1> SUFFICES ASSUME HeapInv, CbStep PROVE HeapInv'
    OBVIOUS
  <1>1. CASE CbWait \/ CbSpurious \/ CbResume \/ CbRun \/ CbUnlock
    <2>1. /\ UNCHANGED <<timeVars, tpc, heap, wheelVars, tqueue, clientVars>>
          /\ cbpc' \in {"lock", "wait", "woken", "loop", "fn"}
          /\ cbpc' = "fn" => tqueue # <<>>
      BY <1>1 DEF CbWait, CbSpurious, CbResume, CbRun, CbUnlock, CbGoto, CbKeeps
    <2>2. TypeOK' /\ PcInv'
      BY <2>1 DEF HeapInv, TypeOK, PcInv, timeVars, wheelVars, clientVars
    <2>3. OnePlace'
      BY <2>1, HeapFrame DEF HeapInv, wheelVars, clientVars
    <2> QED
      BY <2>2, <2>3 DEF HeapInv
  <1>2. CASE CbReturn
    <2>1. /\ tqueue # <<>> /\ tqueue \in Seq(Entry)
          /\ heap' = [heap EXCEPT ![Head(tqueue)] = Free]
          /\ tqueue' = Tail(tqueue)
          /\ cbpc' = "loop"
          /\ UNCHANGED <<clock, internal, ext, scanned, tpc, thlist, khash, newer,
                         cbTid, pc, tid, te>>
      BY <1>2 DEF CbReturn, CbGoto, CbKeeps, HeapInv, TypeOK, PcInv, timeVars,
                  wheelVars, clientVars
    <2>2. /\ Head(tqueue) \in Queued /\ Head(tqueue) \in Entry
          /\ tqueue' \in Seq(Entry) /\ Once(tqueue')
          /\ Queued' = Queued \ {Head(tqueue)}
      BY <2>1, TailOnce DEF HeapInv, OnePlace, Queued
    <2>3. TypeOK' /\ PcInv'
      BY <2>1, <2>2 DEF HeapInv, TypeOK, PcInv
    <2>8. Wheel' = Wheel /\ Held' = Held
      BY <2>1 DEF Wheel, Held
    <2>9. \A e \in Entry : heap'[e] # Free <=> heap[e] # Free /\ e # Head(tqueue)
      BY <2>1, <2>2 DEF HeapInv, TypeOK
    <2>10. OnePlace'
      BY <2>1, <2>2, <2>8, <2>9 DEF HeapInv, OnePlace
    <2> QED
      BY <2>3, <2>10 DEF HeapInv
  <1> QED
    BY <1>1, <1>2 DEF CbStep

LEMMA NewEntryHeap ==
  ASSUME HeapInv, NEW t \in Thread, NEW k \in Key, NEW d \in Delay,
         pc[t] # "hash", NewEntry(t, k, d)
  PROVE  HeapInv'
  <1>1. PICK e \in Entry :
          /\ heap[e] = Free
          /\ heap' = [heap EXCEPT ![e] = [key |-> k, t |-> After(internal, d)]]
          /\ te' = [te EXCEPT ![t] = e]
    BY DEF NewEntry
  <1>2. /\ pc' = [pc EXCEPT ![t] = "hash"] /\ tid' = [tid EXCEPT ![t] = 0]
        /\ UNCHANGED <<clock, internal, ext, scanned, tpc, thlist, khash, newer,
                       tqueue, cbpc, cbTid>>
    BY DEF NewEntry, timeVars, wheelVars
  <1>3. After(internal, d) \in Timeb
    BY AfterType DEF HeapInv, TypeOK
  <1>4. [key |-> k, t |-> After(internal, d)] \in Cell
    BY <1>3 DEF Cell
  <1>5. e # NULL /\ te[t] = NULL
    BY ThreadAssumption DEF HeapInv, TypeOK, PcInv
  <1>6. TypeOK' /\ PcInv'
    <2>1. TypeOK'
      BY <1>1, <1>2, <1>4, KeyAssumption DEF HeapInv, TypeOK
    <2>2. PcInv'
      BY <1>1, <1>2, <1>5 DEF HeapInv, TypeOK, PcInv
    <2> QED
      BY <2>1, <2>2
  <1>7. e \notin Held \cup Wheel \cup Queued
    BY <1>1 DEF HeapInv, OnePlace
  <1>8. Held' = Held \cup {e} /\ Wheel' = Wheel /\ Queued' = Queued
    BY <1>1, <1>2, <1>5 DEF Held, Wheel, Queued, HeapInv, TypeOK
  <1>9. \A f \in Entry : heap'[f] # Free <=> heap[f] # Free \/ f = e
    BY <1>1, <1>4, KeyAssumption DEF HeapInv, TypeOK
  <1>10. \A s \in Thread : te[s] # e
    BY <1>5, <1>7 DEF Held
  <1>11. OnePlace'
    BY <1>1, <1>2, <1>7, <1>8, <1>9, <1>10 DEF HeapInv, TypeOK, OnePlace
  <1> QED
    BY <1>6, <1>11 DEF HeapInv

LEMMA HashEntryHeap ==
  ASSUME HeapInv, NEW t \in Thread, HashEntry(t)
  PROVE  HeapInv'
  <1> DEFINE e == te[t]
  <1>1. e \in Entry /\ e \in Held /\ e # NULL /\ heap[e] \in Cell
    BY DEF HashEntry, HeapInv, TypeOK, PcInv, OnePlace, Held
  <1>2. /\ pc' = [pc EXCEPT ![t] = "idle"] /\ te' = [te EXCEPT ![t] = NULL]
        /\ UNCHANGED <<clock, internal, ext, scanned, tpc, tqueue, cbpc, cbTid, tid>>
    BY DEF HashEntry, timeVars
  <1>3. Held' = Held \ {e} /\ Queued' = Queued
    BY <1>1, <1>2 DEF Held, Queued, HeapInv, TypeOK, OnePlace
  <1>4. \A r, s \in Thread : r # s /\ te'[r] # NULL => te'[r] # te'[s]
    BY <1>2 DEF HeapInv, TypeOK, OnePlace
  <1>5. PcInv'
    BY <1>2 DEF HeapInv, TypeOK, PcInv
  <1>6. CASE heap' = [heap EXCEPT ![e] = Free] /\ UNCHANGED wheelVars
    <2>1. TypeOK'
      BY <1>2, <1>6 DEF HeapInv, TypeOK, wheelVars
    <2>2. Wheel' = Wheel
      BY <1>6 DEF Wheel, wheelVars
    <2>3. \A f \in Entry : heap'[f] # Free <=> heap[f] # Free /\ f # e
      BY <1>1, <1>6 DEF HeapInv, TypeOK
    <2>4. OnePlace'
      BY <1>1, <1>2, <1>3, <1>4, <1>6, <2>2, <2>3 DEF HeapInv, OnePlace, wheelVars
    <2> QED
      BY <1>5, <2>1, <2>4 DEF HeapInv
  <1>7. CASE /\ thlist' = [thlist EXCEPT ![Hash(heap[e].t)] = @ \cup {e}]
             /\ khash' = khash \cup {e}
             /\ newer' = newer \cup
                  {<<e, f>> : f \in {g \in khash : KeyBucket[heap[g].key]
                                                     = KeyBucket[heap[e].key]}}
             /\ UNCHANGED heap
    <2>1. Hash(heap[e].t) \in Slot
      BY <1>1, HashSlot DEF Cell
    <2> DEFINE i0 == Hash(heap[e].t)
    <2>2. /\ thlist' = [thlist EXCEPT ![i0] = @ \cup {e}] /\ i0 \in Slot
          /\ thlist \in [Slot -> SUBSET Entry] /\ khash \subseteq Entry
      BY <1>7, <2>1 DEF HeapInv, TypeOK
    <2> HIDE DEF i0
    <2>3. thlist' \in [Slot -> SUBSET Entry]
      BY <1>1, <2>2
    <2>4. newer' \in SUBSET (Entry \X Entry)
      BY <1>1, <1>7, <2>2 DEF HeapInv, TypeOK
    <2>5. TypeOK'
      BY <1>1, <1>2, <1>7, <2>2, <2>3, <2>4 DEF HeapInv, TypeOK
    <2>6. Wheel' = Wheel \cup {e}
      BY <1>1, <2>2 DEF Wheel
    <2>7. e \notin Wheel /\ e \notin Queued
      BY <1>1 DEF HeapInv, OnePlace
    <2>8. \A i, j \in Slot : i # j => thlist'[i] \cap thlist'[j] = {}
      <3>1. \A i \in Slot : e \notin thlist[i]
        BY <2>7 DEF Wheel
      <3> QED
        BY <2>2, <3>1 DEF HeapInv, OnePlace
    <2>9. OnePlace'
      BY <1>1, <1>2, <1>3, <1>4, <1>7, <2>6, <2>7, <2>8 DEF HeapInv, OnePlace
    <2> QED
      BY <1>5, <2>5, <2>9 DEF HeapInv
  <1> QED
    BY <1>6, <1>7 DEF HashEntry

LEMMA DelHeap ==
  ASSUME HeapInv, NEW t \in Thread, NEW k \in Key, Del(t, k)
  PROVE  HeapInv'
  <1>1. PICK e \in KFind(k) : /\ Unlink({e}) /\ KUnhash({e})
                              /\ heap' = [heap EXCEPT ![e] = Free]
    BY DEF Del
  <1>2. e \in khash /\ e \in Wheel /\ e \in Entry
    BY DEF KFind, Matches, HeapInv, TypeOK, OnePlace
  <1>3. /\ thlist' = [i \in Slot |-> thlist[i] \ {e}]
        /\ khash' = khash \ {e} /\ newer' = newer \cap (khash' \X khash')
        /\ UNCHANGED <<clock, internal, ext, scanned, tpc, tqueue, cbpc, cbTid,
                       pc, tid, te>>
    BY <1>1 DEF Del, Unlink, KUnhash, timeVars, clientVars
  <1>4. TypeOK' /\ PcInv'
    BY <1>1, <1>3 DEF HeapInv, TypeOK, PcInv
  <1>5. Wheel' = Wheel \ {e} /\ Held' = Held /\ Queued' = Queued
    BY <1>3 DEF Wheel, Held, Queued
  <1>6. \A f \in Entry : heap'[f] # Free <=> heap[f] # Free /\ f # e
    BY <1>1, <1>2 DEF HeapInv, TypeOK
  <1>7. OnePlace'
    BY <1>2, <1>3, <1>5, <1>6 DEF HeapInv, OnePlace
  <1> QED
    BY <1>4, <1>7 DEF HeapInv

LEMMA ApiHeap == ASSUME HeapInv, NEW t \in Thread, Api(t) PROVE HeapInv'
  <1>1. CASE NewTid(t)
    <2>1. NextTid \in Tid
      BY KeyAssumption DEF NextTid, Tid, HeapInv, TypeOK
    <2>2. /\ cbTid' = NextTid /\ tid' = [tid EXCEPT ![t] = NextTid]
          /\ pc' = [pc EXCEPT ![t] = "tid"] /\ pc[t] = "idle"
          /\ UNCHANGED <<clock, internal, ext, scanned, tpc, heap, thlist, khash,
                         newer, tqueue, cbpc, te>>
      BY <1>1 DEF NewTid, timeVars, wheelVars
    <2>3. TypeOK' /\ PcInv'
      BY <2>1, <2>2 DEF HeapInv, TypeOK, PcInv, Tid
    <2>4. OnePlace'
      BY <2>2, HeapFrame DEF HeapInv
    <2> QED
      BY <2>3, <2>4 DEF HeapInv
  <1>2. ASSUME NEW d \in Delay, CbAdd(t, d) PROVE HeapInv'
    <2>1. tid[t] \in Key /\ pc[t] = "tid"
      BY <1>2 DEF CbAdd, HeapInv, PcInv, Key
    <2> QED
      BY <1>2, <2>1, NewEntryHeap DEF CbAdd
  <1>3. ASSUME NEW k \in StrKey, NEW d \in Delay, TimerAdd(t, k, d) PROVE HeapInv'
    BY <1>3, NewEntryHeap DEF TimerAdd, Key
  <1>4. CASE MallocFails(t)
    <2>1. /\ pc[t] = "tid" /\ pc' = [pc EXCEPT ![t] = "idle"]
          /\ tid' = [tid EXCEPT ![t] = 0]
          /\ UNCHANGED <<clock, internal, ext, scanned, tpc, heap, thlist, khash,
                         newer, tqueue, cbpc, cbTid, te>>
      BY <1>4 DEF MallocFails, timeVars, wheelVars
    <2>2. TypeOK' /\ PcInv'
      BY <2>1, KeyAssumption DEF HeapInv, TypeOK, PcInv
    <2>3. OnePlace'
      BY <2>1, HeapFrame DEF HeapInv
    <2> QED
      BY <2>2, <2>3 DEF HeapInv
  <1>5. CASE HashEntry(t)
    BY <1>5, HashEntryHeap
  <1>6. ASSUME NEW k \in Key, Del(t, k) PROVE HeapInv'
    BY <1>6, DelHeap
  <1> QED
    BY <1>1, <1>2, <1>3, <1>4, <1>5, <1>6 DEF Api

LEMMA NextHeap == HeapInv /\ [Next]_vars => HeapInv'
  <1> SUFFICES ASSUME HeapInv, [Next]_vars PROVE HeapInv'
    OBVIOUS
  <1>1. CASE UNCHANGED vars
    <2>1. UNCHANGED <<clock, internal, ext, scanned, tpc, heap, thlist, khash, newer,
                      tqueue, cbpc, cbTid, pc, tid, te>>
      BY <1>1 DEF vars, timeVars, wheelVars, clientVars
    <2>2. TypeOK' /\ PcInv'
      BY <2>1 DEF HeapInv, TypeOK, PcInv
    <2> QED
      BY <2>1, <2>2, HeapFrame DEF HeapInv
  <1>2. CASE Clock
    BY <1>2, ClockHeap
  <1>3. CASE Check
    BY <1>3, CheckHeap, ScanHeap DEF Check
  <1>4. CASE CbStep
    BY <1>4, CbHeap
  <1>5. ASSUME NEW t \in Thread, Api(t) PROVE HeapInv'
    BY <1>5, ApiHeap
  <1> QED
    BY <1>1, <1>2, <1>3, <1>4, <1>5 DEF Next

(* The heap discipline holds in every reachable state.                     *)
THEOREM HeapSafe == Spec => []HeapInv
  BY HeapInit, NextHeap, PTL DEF Spec

(* Every variable of the timer service keeps its type.                     *)
THEOREM TypeCorrect == Spec => []TypeOK
  <1>1. HeapInv => TypeOK
    BY DEF HeapInv
  <1> QED
    BY <1>1, HeapSafe, PTL

(* However clients, callbacks, the scan and the clock interleave, every    *)
(* allocated entry is reachable from exactly one place, and nothing freed  *)
(* is reachable at all.                                                    *)
THEOREM MemorySafety == Spec => []OnePlace
  <1>1. HeapInv => OnePlace
    BY DEF HeapInv
  <1> QED
    BY <1>1, HeapSafe, PTL

-----------------------------------------------------------------------------
(* Keys and slots.  A step that neither hashes an entry nor resynchronises *)
(* leaves the entries that stay linked as they are, and only a scan adds   *)
(* to the queue.                                                           *)

Linking(t) == HashEntry(t) /\ heap[te[t]] # Free /\ Matches(heap[te[t]].key) = {}

LinksKept ==
  /\ khash' \subseteq khash
  /\ \A i \in Slot : thlist'[i] \subseteq thlist[i]
  /\ \A e \in khash' : heap'[e] = heap[e]

QueueKept == Queued' \subseteq Queued /\ \A e \in Queued' : heap'[e] = heap[e]

LEMMA UnchangedKept ==
  UNCHANGED <<heap, thlist, khash, tqueue>> => LinksKept /\ QueueKept
  BY DEF LinksKept, QueueKept, Queued

LEMMA OneCellKept ==
  ASSUME HeapInv, NEW e \in Entry, heap[e] = Free \/ e \in Held, NEW v,
         heap' = [heap EXCEPT ![e] = v], UNCHANGED <<thlist, khash, tqueue>>
  PROVE  LinksKept /\ QueueKept
  <1>1. e \notin khash /\ e \notin Queued
    BY DEF HeapInv, OnePlace
  <1>2. Queued' = Queued
    BY DEF Queued
  <1>3. \A f : f # e /\ f \in Entry => heap'[f] = heap[f]
    BY DEF HeapInv, TypeOK
  <1>4. khash \subseteq Entry /\ Queued \subseteq Entry
    BY DEF HeapInv, TypeOK, Queued, Elems
  <1> QED
    BY <1>1, <1>2, <1>3, <1>4 DEF LinksKept, QueueKept

LEMMA ApiShape ==
  ASSUME HeapInv, NEW t \in Thread, Api(t)
  PROVE  QueueKept /\ (LinksKept \/ Linking(t))
  <1>1. CASE NewTid(t) \/ MallocFails(t)
    BY <1>1, UnchangedKept DEF NewTid, MallocFails, wheelVars
  <1>2. ASSUME NEW k, NEW d, NewEntry(t, k, d) PROVE LinksKept /\ QueueKept
    <2>1. PICK e \in Entry : /\ heap[e] = Free
                             /\ heap' = [heap EXCEPT ![e] =
                                           [key |-> k, t |-> After(internal, d)]]
      BY <1>2 DEF NewEntry
    <2>2. UNCHANGED <<thlist, khash, tqueue>>
      BY <1>2 DEF NewEntry, wheelVars
    <2> QED
      BY <2>1, <2>2, OneCellKept
  <1>3. CASE HashEntry(t)
    <2>1. te[t] \in Entry /\ te[t] \in Held /\ heap[te[t]] # Free
      BY <1>3 DEF HashEntry, HeapInv, TypeOK, PcInv, OnePlace, Held
    <2>2. CASE Matches(heap[te[t]].key) = {}
      <3>1. UNCHANGED <<heap, tqueue>>
        BY <1>3, <2>2 DEF HashEntry
      <3>2. QueueKept
        BY <3>1 DEF QueueKept, Queued
      <3> QED
        BY <1>3, <2>1, <2>2, <3>2 DEF Linking
    <2>3. CASE Matches(heap[te[t]].key) # {}
      <3>1. /\ heap' = [heap EXCEPT ![te[t]] = Free]
            /\ UNCHANGED <<thlist, khash, tqueue>>
        BY <1>3, <2>3 DEF HashEntry, wheelVars
      <3> QED
        BY <2>1, <3>1, OneCellKept
    <2> QED
      BY <2>2, <2>3
  <1>4. ASSUME NEW k, Del(t, k) PROVE LinksKept /\ QueueKept
    <2>1. PICK e \in KFind(k) : /\ Unlink({e}) /\ KUnhash({e})
                                /\ heap' = [heap EXCEPT ![e] = Free]
      BY <1>4 DEF Del
    <2>2. e \in Entry /\ e \in Wheel /\ e \notin Queued
      BY DEF KFind, Matches, HeapInv, TypeOK, OnePlace
    <2>3. Queued' = Queued
      BY <1>4 DEF Del, Queued
    <2>4. khash \subseteq Entry /\ Queued \subseteq Entry
      BY DEF HeapInv, TypeOK, Queued, Elems
    <2>5. \A f \in Entry : f # e => heap'[f] = heap[f]
      BY <2>1 DEF HeapInv, TypeOK
    <2> QED
      BY <2>1, <2>2, <2>3, <2>4, <2>5 DEF Unlink, KUnhash, LinksKept, QueueKept
  <1> QED
    BY <1>1, <1>2, <1>3, <1>4 DEF Api, CbAdd, TimerAdd

LEMMA StepShape ==
  ASSUME HeapInv, [Next]_vars
  PROVE  /\ LinksKept \/ Resync \/ \E t \in Thread : Linking(t)
         /\ QueueKept \/ Scan
  <1>1. CASE UNCHANGED vars \/ Clock \/ StartCheck \/ ReadClock \/ Follow
    BY <1>1, UnchangedKept DEF vars, Clock, ClockTick, ClockStep, StartCheck,
       ReadClock, Follow, wheelVars
  <1>2. CASE Resync
    <2>1. \A e \in Queued : e \in Entry /\ e \notin Wheel
      BY DEF HeapInv, TypeOK, OnePlace, Queued, Elems
    <2>2. Queued' = Queued
      BY <1>2 DEF Resync, Queued
    <2>3. \A e \in Entry : e \notin Wheel => heap'[e] = heap[e]
      BY <1>2 DEF Resync
    <2> QED
      BY <1>2, <2>1, <2>2, <2>3 DEF QueueKept
  <1>3. CASE Scan
    <2>1. LinksKept
      BY <1>3 DEF Scan, Unlink, KUnhash, LinksKept
    <2> QED
      BY <1>3, <2>1
  <1>4. CASE CbStep
    <2>1. CASE CbReturn
      <3>1. /\ tqueue # <<>> /\ tqueue \in Seq(Entry) /\ Once(tqueue)
            /\ heap' = [heap EXCEPT ![Head(tqueue)] = Free]
            /\ tqueue' = Tail(tqueue)
            /\ UNCHANGED <<thlist, khash>>
        BY <2>1 DEF CbReturn, CbGoto, CbKeeps, HeapInv, TypeOK, PcInv, OnePlace,
                    wheelVars
      <3>2. /\ Head(tqueue) \in Queued /\ Queued' = Queued \ {Head(tqueue)}
        BY <3>1, TailOnce DEF Queued
      <3>3. /\ Head(tqueue) \notin khash
            /\ khash \subseteq Entry /\ Queued \subseteq Entry
        BY <3>2 DEF HeapInv, TypeOK, OnePlace, Queued, Elems
      <3>4. \A f \in Entry : f # Head(tqueue) => heap'[f] = heap[f]
        BY <3>1 DEF HeapInv, TypeOK
      <3> QED
        BY <3>1, <3>2, <3>3, <3>4 DEF LinksKept, QueueKept
    <2>2. CASE CbWait \/ CbSpurious \/ CbResume \/ CbRun \/ CbUnlock
      <3>1. UNCHANGED <<heap, thlist, khash, tqueue>>
        BY <2>2 DEF CbWait, CbSpurious, CbResume, CbRun, CbUnlock, CbKeeps, wheelVars
      <3> QED
        BY <3>1, UnchangedKept
    <2> QED
      BY <1>4, <2>1, <2>2 DEF CbStep
  <1>5. ASSUME NEW t \in Thread, Api(t)
        PROVE  QueueKept /\ (LinksKept \/ Linking(t))
    BY <1>5, ApiShape
  <1> QED
    BY <1>1, <1>2, <1>3, <1>4, <1>5 DEF Next, Check

LEMMA LinkingShape ==
  ASSUME HeapInv, NEW t \in Thread, Linking(t)
  PROVE  /\ te[t] \in Entry /\ te[t] \notin khash /\ heap[te[t]] \in Cell
         /\ khash' = khash \cup {te[t]}
         /\ thlist' = [thlist EXCEPT ![Hash(heap[te[t]].t)] = @ \cup {te[t]}]
         /\ UNCHANGED heap
  BY DEF Linking, HashEntry, HeapInv, TypeOK, PcInv, OnePlace, Held

LEMMA KeysStep == HeapInv /\ UniqueKeys /\ [Next]_vars => UniqueKeys'
  <1> SUFFICES ASSUME HeapInv, UniqueKeys, [Next]_vars PROVE UniqueKeys'
    OBVIOUS
  <1>1. CASE LinksKept
    BY <1>1 DEF LinksKept, UniqueKeys
  <1>2. CASE Resync
    <2>1. \A e \in khash : e \in Entry /\ e \in Wheel /\ heap[e] \in Cell
      BY DEF HeapInv, TypeOK, OnePlace
    <2>2. \A e \in khash : heap'[e].key = heap[e].key
      BY <1>2, <2>1 DEF Resync, Cell
    <2>3. khash' = khash
      BY <1>2 DEF Resync
    <2> QED
      BY <2>2, <2>3 DEF UniqueKeys
  <1>3. ASSUME NEW t \in Thread, Linking(t) PROVE UniqueKeys'
    <2> DEFINE e == te[t]
    <2>1. heap[e].key \in Key
      BY <1>3, LinkingShape DEF Cell
    <2>2. \A f \in khash : heap[f].key # heap[e].key
      BY <1>3, <2>1, KeyAssumption DEF Linking, Matches
    <2> QED
      BY <1>3, <2>2, LinkingShape DEF UniqueKeys
  <1> QED
    BY <1>1, <1>2, <1>3, StepShape

(* A key names at most one live timer, for any number of callers and any   *)
(* width of the tid counter.                                               *)
THEOREM KeysUnique == Spec => []UniqueKeys
  <1>1. Init => UniqueKeys
    BY DEF Init, UniqueKeys
  <1> QED
    BY <1>1, KeysStep, HeapSafe, PTL DEF Spec

LEMMA SlotStep == HeapInv /\ SlotHash /\ [Next]_vars => SlotHash'
  <1> SUFFICES ASSUME HeapInv, SlotHash, [Next]_vars PROVE SlotHash'
    OBVIOUS
  <1>1. CASE LinksKept
    <2>1. HeapInv'
      BY NextHeap
    <2>2. \A i \in Slot : thlist'[i] \subseteq khash'
      BY <2>1 DEF HeapInv, OnePlace, Wheel
    <2>3. \A i \in Slot : \A e \in thlist'[i] : e \in thlist[i] /\ heap'[e] = heap[e]
      BY <1>1, <2>2 DEF LinksKept
    <2> QED
      BY <2>3 DEF SlotHash, Hash
  <1>2. CASE Resync
    BY <1>2 DEF Resync, Rehashed, SlotHash, Hash
  <1>3. ASSUME NEW t \in Thread, Linking(t) PROVE SlotHash'
    <2> DEFINE s == Hash(heap[te[t]].t)
    <2>1. s \in Slot
      BY <1>3, LinkingShape, HashSlot DEF Cell
    <2>2. /\ thlist' = [thlist EXCEPT ![s] = @ \cup {te[t]}]
          /\ UNCHANGED heap
      BY <1>3, LinkingShape
    <2>3. \A i \in Slot : \A e \in thlist'[i] : e \in thlist[i] \/ (e = te[t] /\ i = s)
      BY <2>1, <2>2 DEF HeapInv, TypeOK
    <2> QED
      BY <2>2, <2>3 DEF SlotHash, Hash
  <1> QED
    BY <1>1, <1>2, <1>3, StepShape

(* Every linked entry is where the scan will look for its expiry.          *)
THEOREM SlotsRight == Spec => []SlotHash
  <1>1. Init => SlotHash
    BY DEF Init, SlotHash
  <1> QED
    BY <1>1, SlotStep, HeapSafe, PTL DEF Spec

-----------------------------------------------------------------------------
(* The queue and the clock.  Expired(a, b) is a <= b.                      *)

LEMMA ExpiredTrans ==
  ASSUME NEW a \in Timeb, NEW b \in Timeb, NEW c \in Timeb,
         Expired(a, b), Expired(b, c)
  PROVE  Expired(a, c)
  BY DEF Expired, Timeb, Millis

LEMMA ExpiredRefl == ASSUME NEW a \in Timeb PROVE Expired(a, a)
  BY DEF Expired, Timeb, Millis

LEMMA ClockForward ==
  ASSUME HeapInv, Jumps \subseteq Nat, [Next]_vars
  PROVE  Expired(clock, clock')
  <1>1. /\ clock = [time |-> clock.time, millitm |-> clock.millitm]
        /\ clock.time \in Int /\ clock.millitm \in 0..(MS - 1) /\ MS \in Nat
    BY TimeAssumption DEF HeapInv, TypeOK, Wall
  <1>2. CASE ClockTick
    BY <1>1, <1>2 DEF ClockTick, Expired
  <1>3. CASE ClockStep
    BY <1>1, <1>3 DEF ClockStep, Expired
  <1>4. CASE UNCHANGED clock
    BY <1>4, ExpiredRefl, WallTimeb DEF HeapInv, TypeOK, Expired
  <1>5. Check => UNCHANGED clock
    BY DEF Check, StartCheck, ReadClock, Follow, Resync, Scan
  <1>6. CbStep => UNCHANGED clock
    BY DEF CbStep, CbWait, CbSpurious, CbResume, CbRun, CbReturn, CbUnlock, CbKeeps,
           timeVars
  <1>7. \A t \in Thread : Api(t) => UNCHANGED clock
    BY DEF Api, NewTid, CbAdd, TimerAdd, NewEntry, MallocFails, HashEntry, Del, timeVars
  <1> QED
    BY <1>2, <1>3, <1>4, <1>5, <1>6, <1>7 DEF Next, Clock, vars, timeVars

LEMMA TimeStep ==
  ASSUME HeapInv, Jumps \subseteq Nat, TimeInv, [Next]_vars
  PROVE  TimeInv' /\ Expired(internal, internal')
  <1>1. /\ clock \in Timeb /\ internal \in Timeb /\ ext \in Timeb /\ clock' \in Timeb
    BY NextHeap, WallTimeb DEF HeapInv, TypeOK
  <1>2. Expired(clock, clock') /\ Expired(internal, clock) /\ Expired(ext, clock)
    BY ClockForward DEF TimeInv
  <1>3. Expired(internal, clock') /\ Expired(ext, clock')
    BY <1>1, <1>2, ExpiredTrans
  <1>4. CASE UNCHANGED <<internal, ext>> /\ (tpc' = "sync" => tpc = "sync")
    BY <1>1, <1>3, <1>4, ExpiredRefl DEF TimeInv, Expired
  <1>5. CASE ReadClock
    BY <1>1, <1>2, <1>3, <1>5, ExpiredRefl DEF ReadClock, TimeInv, Expired
  <1>6. CASE Follow
    BY <1>2, <1>3, <1>6 DEF Follow, TimeInv, Expired
  <1>7. CASE Resync
    BY <1>2, <1>3, <1>7 DEF Resync, TimeInv, Expired
  <1>8. Clock \/ StartCheck \/ Scan \/ UNCHANGED vars =>
          UNCHANGED <<internal, ext>> /\ (tpc' = "sync" => tpc = "sync")
    BY DEF Clock, ClockTick, ClockStep, StartCheck, Scan, vars, timeVars
  <1>9. CbStep => UNCHANGED <<internal, ext, tpc>>
    BY DEF CbStep, CbWait, CbSpurious, CbResume, CbRun, CbReturn, CbUnlock, CbKeeps,
           timeVars
  <1>10. \A t \in Thread : Api(t) => UNCHANGED <<internal, ext, tpc>>
    BY DEF Api, NewTid, CbAdd, TimerAdd, NewEntry, MallocFails, HashEntry, Del, timeVars
  <1> QED
    BY <1>4, <1>5, <1>6, <1>7, <1>8, <1>9, <1>10 DEF Next, Check

LEMMA QueueStep ==
  ASSUME HeapInv, Jumps \subseteq Nat, TimeInv, QueueExpired, [Next]_vars
  PROVE  QueueExpired'
  <1>1. \A e \in Queued : Expired(heap[e].t, internal) /\ heap[e].t \in Timeb
    BY DEF QueueExpired, HeapInv, TypeOK, OnePlace, Queued, Elems, Cell
  <1>2. internal \in Timeb /\ internal' \in Timeb /\ Expired(internal, internal')
    BY NextHeap, WallTimeb, TimeStep DEF HeapInv, TypeOK
  <1>3. \A e \in Queued : Expired(heap[e].t, internal')
    BY <1>1, <1>2, ExpiredTrans
  <1>4. CASE QueueKept
    BY <1>3, <1>4 DEF QueueKept, QueueExpired
  <1>5. CASE Scan
    <2>1. PICK q \in Batches(Due) : tqueue' = q \o tqueue
      BY <1>5 DEF Scan
    <2>2. \A e \in Due : e \in Entry /\ e \in Wheel /\ Expired(heap[e].t, internal)
      BY DEF Due, ScanSlots, Wheel, HeapInv, TypeOK
    <2> HIDE DEF Due
    <2>3. Due \subseteq Entry /\ Due \cap Queued = {}
      BY <2>2 DEF HeapInv, OnePlace
    <2>4. q \in Seq(Due) /\ Elems(q) = Due /\ Once(q)
      BY <2>3, BatchType
    <2>5. q \in Seq(Entry) /\ tqueue \in Seq(Entry) /\ Once(tqueue)
      BY <2>3, <2>4 DEF HeapInv, TypeOK, OnePlace
    <2>6. Queued' = Due \cup Queued
      BY <2>1, <2>3, <2>4, <2>5, ConcatOnce DEF Queued
    <2>7. UNCHANGED <<heap, internal>>
      BY <1>5 DEF Scan
    <2> QED
      BY <1>1, <2>2, <2>6, <2>7 DEF QueueExpired
  <1> QED
    BY <1>4, <1>5, StepShape

(* On a clock that is never stepped back, nothing is released before the   *)
(* service's clock has reached its expiry, and nothing that has been       *)
(* released is postponed again, whatever _tsync does meanwhile.            *)
THEOREM NothingEarly == Spec => []QueueExpired
  <1> DEFINE I == Jumps \subseteq Nat => TimeInv /\ QueueExpired
  <1>1. Init => I
    BY HeapInit, WallTimeb, ExpiredRefl
    DEF Init, HeapInv, TypeOK, TimeInv, QueueExpired, Queued, Elems
  <1>2. HeapInv /\ I /\ [Next]_vars => I'
    BY TimeStep, QueueStep
  <1>3. I => QueueExpired
    BY DEF QueueExpired
  <1> HIDE DEF I
  <1> QED
    BY <1>1, <1>2, <1>3, HeapSafe, PTL DEF Spec

-----------------------------------------------------------------------------
(* The arithmetic of the wheel.                                            *)

LEMMA DivMod ==
  ASSUME NEW x \in Int, NEW n \in Nat \ {0}
  PROVE  x \div n \in Int /\ x % n \in 0..(n - 1) /\ x = (x \div n) * n + (x % n)
  OBVIOUS

LEMMA TimesMono ==
  ASSUME NEW a \in Int, NEW b \in Int, NEW n \in Nat \ {0}, a < b
  PROVE  a * n + n <= b * n
  <1>1. b - a - 1 \in Nat /\ n \in Nat
    OBVIOUS
  <1>2. (b - a - 1) * n >= 0
    BY <1>1
  <1> QED
    BY <1>2

LEMMA Divided ==
  ASSUME NEW q \in Int, NEW n \in Nat \ {0}, NEW m \in 0..(n - 1)
  PROVE  (q * n + m) % n = m /\ (q * n + m) \div n = q
  <1> DEFINE x == q * n + m
             d == x \div n
             r == x % n
             A == d * n
             B == q * n
  <1>1. B \in Int /\ x \in Int /\ x = B + m
    OBVIOUS
  <1>2. d \in Int /\ r \in 0..(n - 1) /\ x = A + r /\ A \in Int
    BY <1>1, DivMod
  <1>3. d < q => A + n <= B
    BY <1>2, TimesMono
  <1>4. q < d => B + n <= A
    BY <1>2, TimesMono
  <1>5. d = q => A = B
    OBVIOUS
  <1> HIDE DEF A, B, r, d, x
  <1>6. d = q /\ r = m
    BY <1>1, <1>2, <1>3, <1>4, <1>5
  <1> QED
    BY <1>6 DEF d, r, x

(* On a wheel of n slots, three times in order and less than a turn apart  *)
(* are in that order around it.                                            *)
LEMMA AroundWheel ==
  ASSUME NEW n \in Nat \ {0}, NEW a \in Int, NEW t \in Int, NEW b \in Int,
         a <= t, t < b, b - a < n
  PROVE  IF a % n <= b % n THEN a % n <= t % n /\ t % n < b % n
                           ELSE a % n <= t % n \/ t % n < b % n
  <1> DEFINE q == a \div n
             k == q * n
  <1>1. q \in Int /\ a % n \in 0..(n - 1) /\ a = k + (a % n) /\ k \in Int
    BY DivMod
  <1>2. ASSUME NEW x \in Int, k <= x, x < k + 2 * n
        PROVE  x % n = IF x < k + n THEN x - k ELSE x - k - n
    <2>1. CASE x < k + n
      <3> DEFINE m == x - k
      <3>1. m \in 0..(n - 1) /\ x = q * n + m
        BY <1>1, <1>2, <2>1
      <3> HIDE DEF k, q, m
      <3>2. x % n = m
        BY <1>1, <3>1, Divided
      <3> QED
        BY <2>1, <3>2 DEF m
    <2>2. CASE ~(x < k + n)
      <3> DEFINE m == x - k - n
      <3>1. (q + 1) * n = k + n
        BY <1>1
      <3>2. m \in 0..(n - 1) /\ x = (q + 1) * n + m /\ q + 1 \in Int
        BY <1>1, <1>2, <2>2, <3>1
      <3> HIDE DEF k, q, m
      <3>3. x % n = m
        BY <3>2, Divided
      <3> QED
        BY <2>2, <3>3 DEF m
    <2> QED
      BY <2>1, <2>2
  <1> HIDE DEF k, q
  <1>3. k <= a /\ a < k + n /\ n > 0
    <2> DEFINE r == a % n
    <2>1. r \in 0..(n - 1) /\ a = k + r
      BY <1>1
    <2> HIDE DEF r
    <2> QED
      BY <1>1, <2>1
  <1>4. /\ k <= t /\ t < k + 2 * n
        /\ k <= b /\ b < k + 2 * n /\ a < k + 2 * n
    BY <1>1, <1>3
  <1> DEFINE ra == a % n
             rt == t % n
             rb == b % n
  <1>5. /\ ra = IF a < k + n THEN a - k ELSE a - k - n
        /\ rt = IF t < k + n THEN t - k ELSE t - k - n
        /\ rb = IF b < k + n THEN b - k ELSE b - k - n
    BY <1>2, <1>3, <1>4
  <1> HIDE DEF ra, rt, rb
  <1>6. IF ra <= rb THEN ra <= rt /\ rt < rb ELSE ra <= rt \/ rt < rb
    BY <1>1, <1>3, <1>5
  <1> QED
    BY <1>6 DEF ra, rt, rb

(* Ticks keeps the order of times whose milliseconds are below a second.   *)
LEMMA TicksOrder ==
  ASSUME NEW a \in Wall, NEW b \in Wall
  PROVE  /\ Ticks(a) \in Int
         /\ a.time < b.time => Ticks(a) - a.millitm + MS <= Ticks(b) - b.millitm
         /\ a.time = b.time => Ticks(a) - a.millitm = Ticks(b) - b.millitm
         /\ Before(a, b) <=> Ticks(a) < Ticks(b)
  <1> DEFINE A == a.time * MS
             B == b.time * MS
  <1>1. /\ a.time \in Int /\ b.time \in Int /\ MS \in Nat \ {0}
        /\ a.millitm \in 0..(MS - 1) /\ b.millitm \in 0..(MS - 1)
    BY TimeAssumption DEF Wall
  <1>2. A \in Int /\ B \in Int
    BY <1>1
  <1>3. a.time < b.time => A + MS <= B
    BY <1>1, TimesMono
  <1>4. b.time < a.time => B + MS <= A
    BY <1>1, TimesMono
  <1>5. a.time = b.time => A = B
    OBVIOUS
  <1>6. Ticks(a) = A + a.millitm /\ Ticks(b) = B + b.millitm
    BY DEF Ticks
  <1> HIDE DEF A, B
  <1> QED
    BY <1>1, <1>2, <1>3, <1>4, <1>5, <1>6 DEF Before

(* A scan from a to b of less than a turn visits the slot of every expiry  *)
(* between them, also across the second where the seconds wrap, if it is   *)
(* then shorter than a second.                                             *)
LEMMA ScanVisits ==
  ASSUME NEW a \in Wall, NEW b \in Wall, NEW t \in Wall,
         ~Before(t, a), Before(t, b), b.time - a.time <= MaxDiff,
         Wraps(a, b) => Ticks(b) - Ticks(a) < MS
  PROVE  Hash(t) \in ScanSlots(Hash(a), Hash(b))
  <1> DEFINE W == WheelSize
             S == SecWidth
             L(x) == (x.time % S) * MS + x.millitm
  <1>1. /\ W \in Nat \ {0} /\ S \in Nat \ {0} /\ S = W + 1 /\ MS \in Nat \ {0}
        /\ MaxDiff \in Nat /\ W > (MaxDiff + 1) * MS
    BY TimeAssumption, WheelAssumption
  <1>2. \A x \in {a, b, t} : x.time \in Int /\ x.millitm \in 0..(MS - 1)
    BY DEF Wall
  <1>3. Hash(a) \in Slot /\ Hash(b) \in Slot /\ Hash(t) \in Slot
    BY HashSlot, WallTimeb
  <1>4. Ticks(a) <= Ticks(t) /\ Ticks(t) < Ticks(b)
        /\ Ticks(a) \in Int /\ Ticks(t) \in Int /\ Ticks(b) \in Int
    <2>1. ~(Ticks(t) < Ticks(a)) /\ Ticks(t) < Ticks(b)
          /\ Ticks(a) \in Int /\ Ticks(t) \in Int /\ Ticks(b) \in Int
      BY TicksOrder
    <2> QED
      BY <2>1
  <1>5. Hash(a) = L(a) % W /\ Hash(b) = L(b) % W /\ Hash(t) = L(t) % W
    BY DEF Hash
  <1>6. a.time <= t.time /\ t.time <= b.time
    BY <1>2 DEF Before
  <1>7. MS <= W
    <2>1. MaxDiff * MS >= 0 /\ (MaxDiff + 1) * MS = MaxDiff * MS + MS
      BY <1>1
    <2> QED
      BY <1>1, <2>1
  <1>8. \A x \in {a, b, t} :
          /\ x.time \div S \in Int /\ x.time % S \in 0..(S - 1)
          /\ x.time = (x.time \div S) * S + (x.time % S)
          /\ L(x) \in Int
    <2> SUFFICES ASSUME NEW x \in {a, b, t}
                 PROVE  /\ x.time \div S \in Int /\ x.time % S \in 0..(S - 1)
                        /\ x.time = (x.time \div S) * S + (x.time % S)
                        /\ L(x) \in Int
      OBVIOUS
    <2>1. /\ x.time \div S \in Int /\ x.time % S \in 0..(S - 1)
          /\ x.time = (x.time \div S) * S + (x.time % S)
      BY <1>1, <1>2, DivMod
    <2>2. (x.time % S) * MS \in Int
      BY <1>1, <2>1
    <2> QED
      BY <1>2, <2>1, <2>2
  <1>9. ASSUME ~Wraps(a, b) PROVE Hash(t) \in ScanSlots(Hash(a), Hash(b))
    <2> DEFINE d == a.time \div S
               C == (d * S) * MS
    <2>1. d \in Int /\ d * S \in Int /\ C \in Int
      BY <1>1, <1>8
    <2>2. a.time \div S = d /\ b.time \div S = d
      BY <1>9 DEF Wraps
    <2>3. t.time \div S = d
      <3> DEFINE e == t.time \div S
                 D == d * S
                 E == e * S
      <3>1. e \in Int /\ E \in Int /\ t.time = E + (t.time % S)
        BY <1>1, <1>8
      <3>2. a.time = D + (a.time % S) /\ b.time = D + (b.time % S) /\ D \in Int
        BY <1>8, <2>1, <2>2
      <3>3. e < d => E + S <= D
        BY <1>1, <2>1, <3>1, TimesMono
      <3>4. d < e => D + S <= E
        BY <1>1, <2>1, <3>1, TimesMono
      <3> DEFINE ra == a.time % S
                 rt == t.time % S
                 rb == b.time % S
      <3>5. ra \in 0..(S - 1) /\ rt \in 0..(S - 1) /\ rb \in 0..(S - 1)
        BY <1>8
      <3>6. a.time = D + ra /\ b.time = D + rb /\ t.time = E + rt
        BY <3>1, <3>2
      <3>7. S \in Nat /\ d \in Int /\ D \in Int /\ e \in Int /\ E \in Int
        BY <1>1, <2>1, <3>1, <3>2
      <3> HIDE DEF d, e, D, E, ra, rt, rb
      <3>8. e = d
        BY <1>6, <3>3, <3>4, <3>5, <3>6, <3>7
      <3> QED
        BY <3>8 DEF e
    <2>4. ASSUME NEW x \in {a, b, t} PROVE Ticks(x) = C + L(x)
      <3>1. x.time \div S = d
        BY <2>2, <2>3
      <3>2. x.time = d * S + (x.time % S)
        BY <1>8, <3>1
      <3> DEFINE D == d * S
                 r == x.time % S
      <3>3. D \in Int /\ r \in Int /\ x.time = D + r
        BY <1>8, <2>1, <3>2
      <3> HIDE DEF D, r
      <3>4. x.time * MS = D * MS + r * MS
        BY <1>1, <3>3
      <3>5. D * MS \in Int /\ r * MS \in Int
        BY <1>1, <3>3
      <3>6. x.time * MS + x.millitm = D * MS + (r * MS + x.millitm)
        BY <1>2, <3>4, <3>5
      <3> QED
        BY <3>6 DEF Ticks, D, r
    <2>5. Ticks(b) - Ticks(a) < W
      <3> DEFINE A == a.time * MS
                 B == b.time * MS
                 M == MaxDiff * MS
      <3>1. A \in Int /\ B \in Int /\ M \in Int /\ M + MS < W
        BY <1>1, <1>2
      <3>2. B - A <= M
        <4> DEFINE e == b.time - a.time
        <4>1. e * MS = B - A /\ e \in Int
          BY <1>1, <1>2
        <4>2. CASE e = MaxDiff
          <5>1. e * MS = M
            BY <4>2
          <5> HIDE DEF A, B, M, e
          <5> QED
            BY <3>1, <4>1, <5>1
        <4>3. CASE e < MaxDiff
          <5>1. e * MS + MS <= M
            BY <1>1, <4>1, <4>3, TimesMono
          <5>2. MS \in Nat
            BY <1>1
          <5> HIDE DEF A, B, M, e
          <5> QED
            BY <3>1, <4>1, <5>1, <5>2
        <4>4. e <= MaxDiff /\ MaxDiff \in Int
          BY <1>1
        <4> HIDE DEF A, B, M, e
        <4> QED
          BY <4>1, <4>2, <4>3, <4>4
      <3>3. Ticks(a) = A + a.millitm /\ Ticks(b) = B + b.millitm
        BY DEF Ticks
      <3> HIDE DEF A, B, M
      <3> QED
        BY <1>1, <1>2, <3>1, <3>2, <3>3
    <2> HIDE DEF C, L, d
    <2>6. L(a) <= L(t) /\ L(t) < L(b) /\ L(b) - L(a) < W
      BY <1>4, <1>8, <2>1, <2>4, <2>5
    <2>7. IF L(a) % W <= L(b) % W
          THEN L(a) % W <= L(t) % W /\ L(t) % W < L(b) % W
          ELSE L(a) % W <= L(t) % W \/ L(t) % W < L(b) % W
      BY <1>1, <1>8, <2>6, AroundWheel
    <2> QED
      BY <1>3, <1>5, <2>7 DEF ScanSlots
  <1>10. ASSUME Wraps(a, b) PROVE Hash(t) \in ScanSlots(Hash(a), Hash(b))
    <2>1. a.time < b.time
      BY <1>2, <1>6, <1>10 DEF Wraps
    <2>2. b.time = a.time + 1
      <3> SUFFICES ASSUME a.time + 1 < b.time PROVE FALSE
        BY <1>2, <2>1
      <3> DEFINE c == [time |-> a.time + 1, millitm |-> 0]
      <3>1. c \in Wall /\ c.time = a.time + 1 /\ c.millitm = 0
        BY <1>1, <1>2 DEF Wall
      <3>2. /\ Ticks(c) \in Int
            /\ Ticks(a) - a.millitm + MS <= Ticks(c) - c.millitm
            /\ Ticks(c) - c.millitm + MS <= Ticks(b) - b.millitm
        <4> HIDE DEF c
        <4>1. a.time < c.time /\ c.time < b.time
          BY <1>2, <3>1
        <4> QED
          BY <3>1, <4>1, TicksOrder
      <3> HIDE DEF c
      <3> QED
        BY <1>1, <1>2, <1>4, <1>10, <3>1, <3>2
    <2>3. b.millitm < a.millitm
      BY <1>1, <1>2, <1>4, <1>10, <2>1, TicksOrder
    <2>4. a.time % S = W /\ b.time % S = 0
      <3> DEFINE d == a.time \div S
                 r == a.time % S
      <3>1. d \in Int /\ r \in 0..(S - 1) /\ a.time = d * S + r /\ d * S \in Int
        BY <1>1, <1>8
      <3>2. r = S - 1
        <4> SUFFICES ASSUME r # S - 1 PROVE FALSE
          OBVIOUS
        <4> DEFINE D == d * S
        <4>0. S \in Nat /\ a.time = D + r /\ D \in Int /\ r \in 0..(S - 1)
          BY <1>1, <3>1
        <4> HIDE DEF d, r, D
        <4>3. r + 1 \in 0..(S - 1) /\ b.time = D + (r + 1)
          BY <2>2, <4>0
        <4>1. r + 1 \in 0..(S - 1) /\ b.time = d * S + (r + 1)
          BY <4>3 DEF D
        <4>2. b.time \div S = d
          BY <1>1, <3>1, <4>1, Divided
        <4> QED
          BY <1>10, <4>2 DEF Wraps, d
      <3> HIDE DEF d, r
      <3>3. (d + 1) * S = d * S + S
        BY <1>1, <3>1
      <3>4. b.time = (d + 1) * S + 0 /\ d + 1 \in Int /\ 0 \in 0..(S - 1)
        BY <1>1, <2>2, <3>1, <3>2, <3>3
      <3>5. b.time % S = 0
        BY <1>1, <3>4, Divided
      <3> QED
        BY <1>1, <3>2, <3>5 DEF r
    <2>5. ASSUME NEW x \in {a, b, t}, x.time = a.time \/ x.time = b.time
          PROVE  Hash(x) = x.millitm
      <3>1. x.millitm \in 0..(W - 1)
        BY <1>1, <1>2, <1>7
      <3>2. CASE x.time = a.time
        <4>1. W * MS = MS * W /\ MS \in Int
          BY <1>1
        <4>3. W \in Nat \ {0}
          BY <1>1
        <4>2. (MS * W + x.millitm) % W = x.millitm
          BY <3>1, <4>1, <4>3, Divided
        <4> QED
          BY <2>4, <3>2, <4>1, <4>2 DEF Hash
      <3>3. CASE x.time = b.time
        <4>1. 0 * MS = 0 * W /\ 0 \in Int
          BY <1>1
        <4>2. (0 * W + x.millitm) % W = x.millitm
          BY <1>1, <3>1, Divided
        <4> QED
          BY <2>4, <3>3, <4>1, <4>2 DEF Hash
      <3> QED
        BY <2>5, <3>2, <3>3
    <2>6. t.time = a.time \/ t.time = b.time
      BY <1>2, <1>6, <2>2
    <2>7. /\ Hash(a) = a.millitm /\ Hash(b) = b.millitm /\ Hash(t) = t.millitm
      BY <2>5, <2>6
    <2>8. a.millitm <= t.millitm \/ t.millitm < b.millitm
      BY <1>2, <2>1, <2>6 DEF Before
    <2> QED
      BY <1>2, <1>3, <2>3, <2>7, <2>8 DEF ScanSlots
  <1> QED
    BY <1>9, <1>10

-----------------------------------------------------------------------------
(* A scan leaves nothing behind.                                           *)

LEMMA PaceInit == Init => PaceInv
  BY TimeAssumption DEF Init, PaceInv

LEMMA PaceStep == HeapInv /\ PaceInv /\ [Next]_vars => PaceInv'
  <1> SUFFICES ASSUME HeapInv, PaceInv, [Next]_vars PROVE PaceInv'
    OBVIOUS
  <1>1. /\ clock.time \in Int /\ internal.time \in Int /\ ext.time \in Int
        /\ scanned.time \in Int /\ Epoch \in Nat /\ MaxDiff \in Nat
        /\ clock = [time |-> clock.time, millitm |-> clock.millitm]
    BY TimeAssumption DEF HeapInv, TypeOK, Wall
  <1>2. CASE UNCHANGED <<clock, internal, scanned, tpc>>
    BY <1>2 DEF PaceInv
  <1>3. CASE Clock
    <2>1. clock'.time >= Epoch
      BY <1>1, <1>3 DEF Clock, ClockTick, ClockStep, PaceInv
    <2> QED
      BY <1>3, <2>1 DEF Clock, ClockTick, ClockStep, PaceInv
  <1>4. CASE StartCheck
    BY <1>1, <1>4 DEF StartCheck, PaceInv
  <1>5. CASE ReadClock
    BY <1>1, <1>5 DEF ReadClock, PaceInv
  <1>6. CASE Follow
    BY <1>1, <1>6 DEF Follow, OutOfSync, TimeDiff, PaceInv
  <1>7. CASE Resync
    BY <1>1, <1>7 DEF Resync, PaceInv
  <1>8. CASE Scan
    BY <1>1, <1>8 DEF Scan, PaceInv
  <1>9. CbStep => UNCHANGED <<clock, internal, scanned, tpc>>
    BY DEF CbStep, CbWait, CbSpurious, CbResume, CbRun, CbReturn, CbUnlock, CbKeeps,
           timeVars
  <1>10. \A t \in Thread : Api(t) => UNCHANGED <<clock, internal, scanned, tpc>>
    BY DEF Api, NewTid, CbAdd, TimerAdd, NewEntry, MallocFails, HashEntry, Del, timeVars
  <1>11. UNCHANGED vars => UNCHANGED <<clock, internal, scanned, tpc>>
    BY DEF vars, timeVars
  <1> QED
    BY <1>2, <1>3, <1>4, <1>5, <1>6, <1>7, <1>8, <1>9, <1>10, <1>11 DEF Next, Check

(* Only Scan ends a scan.                                                  *)
LEMMA EndsScan ==
  ASSUME [Next]_vars, tpc = "scan", tpc' = "sleep"
  PROVE  Scan
  <1>1. Clock \/ CbStep \/ UNCHANGED vars => UNCHANGED tpc
    BY DEF Clock, ClockTick, ClockStep, CbStep, CbWait, CbSpurious, CbResume, CbRun,
           CbReturn, CbUnlock, CbKeeps, vars
  <1>2. \A t \in Thread : Api(t) => UNCHANGED tpc
    BY DEF Api, NewTid, CbAdd, TimerAdd, NewEntry, MallocFails, HashEntry, Del
  <1>3. ~StartCheck /\ ~ReadClock /\ ~Follow /\ ~Resync
    BY DEF StartCheck, ReadClock, Follow, Resync
  <1> QED
    BY <1>1, <1>2, <1>3 DEF Next, Check

LEMMA ScanStep ==
  ASSUME HeapInv, SlotHash, PaceInv, Scan,
         Wraps(scanned, internal) => Ticks(internal) - Ticks(scanned) < MS,
         NEW e \in Wheel'
  PROVE  \/ heap[e].t.millitm >= MS
         \/ Before(heap[e].t, scanned)
         \/ ~Before(heap[e].t, internal)
  <1>1. PICK i \in Slot : e \in thlist[i] /\ e \notin Due
    BY DEF Scan, Unlink, Wheel
  <1>2. Hash(heap[e].t) = i
    BY <1>1 DEF SlotHash
  <1>3. e \in Entry /\ heap[e] \in Cell
    BY <1>1 DEF HeapInv, TypeOK, OnePlace, Wheel
  <1> DEFINE t == heap[e].t
  <1>4. SUFFICES ASSUME ~(t.millitm >= MS), ~Before(t, scanned), Before(t, internal)
                 PROVE  FALSE
    OBVIOUS
  <1>5. t \in Timeb /\ t.time \in Int /\ t.millitm \in Nat /\ MS \in Nat
    BY <1>3, TimeAssumption DEF Cell, Timeb, Millis
  <1>6. t \in Wall
    <2>1. t = [time |-> t.time, millitm |-> t.millitm]
      BY <1>5 DEF Timeb
    <2>2. t.millitm \in 0..(MS - 1)
      BY <1>4, <1>5
    <2> QED
      BY <1>5, <2>1, <2>2 DEF Wall
  <1>7. scanned \in Wall /\ internal \in Wall /\ internal.time - scanned.time <= MaxDiff
    BY DEF HeapInv, TypeOK, Scan, PaceInv
  <1>8. Hash(t) \in ScanSlots(Hash(scanned), Hash(internal))
    BY <1>4, <1>6, <1>7, ScanVisits
  <1>9. Expired(t, internal)
    BY <1>4, <1>5, <1>7 DEF Before, Expired, Wall
  <1> QED
    BY <1>1, <1>2, <1>8, <1>9 DEF Due

(* Of the timers whose expiry lies between the previous scan and the       *)
(* clock, none is still linked when a scan ends.                           *)
THEOREM ScanLeavesNone == Spec => ScanComplete
  <1>1. Init => SlotHash /\ PaceInv
    BY PaceInit DEF Init, SlotHash
  <1>2. HeapInv /\ SlotHash /\ PaceInv /\ [Next]_vars
          => [tpc = "scan" /\ tpc' = "sleep"
                /\ (Wraps(scanned, internal) => Ticks(internal) - Ticks(scanned) < MS)
              => \A e \in Wheel' : \/ heap[e].t.millitm >= MS
                                   \/ Before(heap[e].t, scanned)
                                   \/ ~Before(heap[e].t, internal)]_vars
    BY EndsScan, ScanStep
  <1> QED
    BY <1>1, <1>2, SlotStep, PaceStep, HeapSafe, PTL DEF Spec, ScanComplete
=============================================================================

----------------------------- MODULE FilesProof -----------------------------
(***************************************************************************)
(* Proofs about the texts that the library reads and writes: the log, for  *)
(* every number of threads, days, files and lines; the table of interfaces *)
(* that it reads from what ifconfig prints, for all sets of devices; and   *)
(* configuration files, for every text, number of edits and crashes.       *)
(*                                                                         *)
(* What a recursive function makes of a text line by line or word by word  *)
(* is shown of a function with its equations, which exists (ByTurns), by   *)
(* induction up to a number (UpTo).                                        *)
(***************************************************************************)
EXTENDS ConfFile, IfTable, LogFile,
        FiniteSetTheorems, SequenceTheorems, WellFoundedInduction, TLAPS

-----------------------------------------------------------------------------
(* The log.                                                                *)

LEMMA LimitBounds ==
  Limit \in Nat \ {0} /\ \A s \in {DefSize} \cup Slot : s \in Nat /\ s <= Limit
  <1> DEFINE k == Cardinality(Slot)
             S == {DefSize} \cup Slot
  <1>1. k \in Nat /\ Slot = 1..k /\ 1 \in Slot /\ DefSize \in Nat \ {0}
    BY LogAssumption, FS_CardinalityType
  <1> HIDE DEF k
  <1>2. \E x \in S : \A y \in S : x >= y
    <2>1. CASE DefSize >= k
      BY <1>1, <2>1
    <2>2. CASE ~(DefSize >= k)
      BY <1>1, <2>2
    <2> QED
      BY <2>1, <2>2
  <1>3. Limit = CHOOSE x \in S : \A y \in S : x >= y
    BY DEF Limit, Max
  <1>4. Limit \in S /\ \A y \in S : Limit >= y
    BY <1>2, <1>3
  <1> QED
    BY <1>1, <1>4

LEMMA NumbersAboveZero == \A i \in Slot \cup Day : i \in Nat /\ i # 0
  <1> DEFINE k == Cardinality(Slot)
             n == Cardinality(Day)
  <1>1. k \in Nat /\ Slot = 1..k /\ n \in Nat /\ Day = 1..n
    BY LogAssumption, FS_CardinalityType
  <1> HIDE DEF k, n
  <1> QED
    BY <1>1

(* Every set of numbers has a least one.                                   *)
LEMMA LeastOf ==
  ASSUME NEW S \in SUBSET Nat, S # {}
  PROVE  \E m \in S : \A n \in S : m <= n
  <1>1. PICK m \in S : \A n \in S : <<n, m>> \notin OpToRel(<, Nat)
    BY NatLessThanWellFounded, WFMin, Zenon
  <1>2. \A n \in S : ~(n < m)
    BY <1>1, Zenon DEF OpToRel
  <1> QED
    BY <1>2

(* check_fsize chooses a number that is free, or that of a file whose last *)
(* line is as old as any.                                                  *)
LEMMA PlaceIsRight ==
  ASSUME Kinds, log.fname # NoName
  PROVE  /\ Place \in Nums /\ Place \in Slot
         /\ files[log.fname][Place] = NoFile \/ Oldest(Place)
  <1> DEFINE k == Cardinality(Slot)
  <1>a. k \in Nat /\ Slot = 1..k /\ DefNum \in Slot
    BY LogAssumption, FS_CardinalityType
  <1>b. log.fname \in Day /\ log.fnum \in Slot
    BY <1>a DEF Kinds, Logs
  <1> HIDE DEF k
  <1>1. /\ log.fname \in Day /\ log.fnum \in Slot /\ Nums \subseteq Slot /\ Nums # {}
        /\ Nums \subseteq Nat /\ Taken \subseteq Nums
    BY <1>a, <1>b DEF Nums, Taken
  <1>2. CASE Taken # Nums
    <2> DEFINE Unused == Nums \ Taken
    <2>1. Unused \in SUBSET Nat /\ Unused # {}
      BY <1>1, <1>2
    <2>2. \E m \in Unused : \A n \in Unused : m <= n
      BY <2>1, LeastOf
    <2>3. Place = CHOOSE m \in Unused : \A n \in Unused : m <= n
      BY <1>2 DEF Place, Min
    <2>4. Place \in Unused
      BY <2>2, <2>3
    <2> QED
      BY <1>1, <2>4 DEF Taken
  <1>3. CASE Taken = Nums
    <2>1. \A i \in Nums : files[log.fname][i] # NoFile /\ Time(i) \in Nat
      <3> TAKE i \in Nums
      <3>1. i \in Taken
        BY <1>3
      <3>2. files[log.fname][i] # NoFile /\ files[log.fname][i] \in File \cup {NoFile}
        BY <1>1, <3>1 DEF Taken, Kinds
      <3> QED
        BY <3>2 DEF Time, File
    <2> DEFINE T == {Time(i) : i \in Nums}
    <2>2. T \in SUBSET Nat /\ T # {}
      BY <1>1, <2>1
    <2>3. PICK m \in T : \A n \in T : m <= n
      BY <2>2, LeastOf
    <2> DEFINE I == {i \in Nums : Time(i) = m}
    <2>4. I \in SUBSET Nat /\ I # {}
      BY <1>1, <2>3
    <2>5. PICK i \in I : \A j \in I : i <= j
      BY <2>4, LeastOf
    <2>6. \A j \in Nums \ {i} : Time(i) < Time(j) \/ (Time(i) = Time(j) /\ i < j)
      <3> TAKE j \in Nums \ {i}
      <3>1. Time(i) = m /\ m <= Time(j) /\ Time(j) \in Nat /\ m \in Nat
        BY <2>1, <2>2, <2>3, <2>5
      <3>2. CASE Time(j) = m
        BY <1>1, <2>5, <3>1, <3>2
      <3>3. CASE Time(j) # m
        BY <3>1, <3>3
      <3> QED
        BY <3>2, <3>3
    <2>7. Place = CHOOSE q \in Nums : \A j \in Nums \ {q} :
                    Time(q) < Time(j) \/ (Time(q) = Time(j) /\ q < j)
      BY <1>3 DEF Place
    <2>8. Place \in Nums /\ \A j \in Nums \ {Place} :
            Time(Place) < Time(j) \/ (Time(Place) = Time(j) /\ Place < j)
      BY <2>5, <2>6, <2>7
    <2>9. \A j \in Nums : Time(Place) <= Time(j)
      BY <2>1, <2>8
    <2> QED
      BY <1>1, <2>1, <2>8, <2>9 DEF Oldest
  <1> QED
    BY <1>2, <1>3

LEMMA LogInitInv == RInit => RInv
  <1> SUFFICES ASSUME RInit PROVE RInv
    OBVIOUS
  <1> USE DEF RInit
  <1>0. 1 \in Day /\ DefNum \in Slot /\ MaxLine \in Nat /\ MaxTick \in Nat /\ MaxExtra \in Nat
    BY LogAssumption
  <1>1. Kinds
    <2>1. log \in Logs
      BY <1>0 DEF Logs
    <2>2. target \in [Logger -> Day \X ({0} \cup Slot)]
      BY <1>0
    <2>3. /\ files \in [Day -> [{0} \cup Slot -> File \cup {NoFile}]]
          /\ errs \in [Day -> SUBSET (1..MaxLine)]
      OBVIOUS
    <2> QED
      BY <1>0, <2>1, <2>2, <2>3 DEF Kinds
  <1>2. LinesKept
    BY DEF LinesKept
  <1>3. Sized
    <2>1. \A t \in Logger : pc[t] # "write"
      OBVIOUS
    <2>2. Writers = {}
      BY <2>1 DEF Writers
    <2>3. \A d \in Day, i \in {0} \cup Slot : Lines(files[d][i]) = {}
      BY DEF Lines
    <2>4. Cardinality({}) = 0 /\ Cardinality(Logger) \in Nat
      BY LogAssumption, FS_EmptySet, FS_CardinalityType
    <2>5. Limit \in Nat \ {0}
      BY LimitBounds
    <2>6. 0 < Limit + Cardinality(Logger)
      BY <2>4, <2>5
    <2>7. Cardinality(Writers) = 0
      BY <2>2, <2>4
    <2>8. \A d \in Day, i \in {0} \cup Slot : Cardinality(Lines(files[d][i])) = 0
      BY <2>3, <2>4
    <2> QED
      BY <2>6, <2>7, <2>8 DEF Sized
  <1>4. Named /\ Alone /\ Aimed
    BY <1>0, LogAssumption DEF Named, Alone, Aimed, NoName
  <1> QED
    BY <1>1, <1>2, <1>3, <1>4 DEF RInv

(* A step of the log, with the calls' tests of the level left out.         *)
LEMMA LogSteps ==
  ASSUME [RNext]_rvars
  PROVE  \/ \E t \in Logger : (ToLog(t) \/ ToErr(t)) /\ check_date(t)
         \/ \E t \in Logger : Restart(t) \/ SetName(t) \/ Size(t)
         \/ \E t \in Logger : Rename(t) \/ Write(t) \/ WriteErr(t)
         \/ \E n, s \in Slot : LogSet(n, s)
         \/ SetLogLevel(2) \/ Tick \/ Midnight \/ UNCHANGED rvars
  BY DEF RNext, lprintf, logprn, logdump, eprintf, errprn

LEMMA KindsKept ==
  ASSUME RInv, [RNext]_rvars PROVE Kinds'
  <1> USE DEF RInv, Kinds
  <1>0. LogAssumption
    BY LogAssumption
  <1>1. ASSUME NEW t \in Logger, ToLog(t) \/ ToErr(t), check_date(t) PROVE Kinds'
    <2>1. /\ err' \in [Logger -> BOOLEAN] /\ errors' \in Nat
          /\ errors' + sets <= MaxExtra
      <3>1. CASE ToLog(t)
        BY <3>1 DEF ToLog
      <3>2. CASE ToErr(t)
        BY <1>0, <3>2 DEF ToErr, LogAssumption
      <3> QED
        BY <1>1, <3>1, <3>2
    <2>2. line' \in [Logger -> 0..MaxLine] /\ said' \in 0..MaxLine
      BY <1>0, <1>1 DEF check_date, LogAssumption
    <2>3. pc' \in [Logger -> Under \cup {"idle"}]
      BY <1>1 DEF check_date, Under
    <2>4. UNCHANGED <<today, now, log, files, errs, target, sets>>
      BY <1>1 DEF check_date, clock
    <2>5. \A u \in Logger : pc'[u] # "idle" => line'[u] # 0
      BY <1>1 DEF check_date
    <2> QED
      BY <2>1, <2>2, <2>3, <2>4, <2>5
  <1>2. ASSUME NEW t \in Logger, Restart(t) PROVE Kinds'
    <2>1. log' \in Logs
      BY <1>2, <1>0 DEF Restart, Logs
    <2> QED
      BY <1>2, <2>1 DEF Restart, GoesOn, clock, Under
  <1>3. ASSUME NEW t \in Logger, SetName(t) PROVE Kinds'
    <2>1. log' \in Logs
      BY <1>3 DEF SetName, Logs
    <2> QED
      BY <1>3, <2>1 DEF SetName, GoesOn, clock, Under
  <1>4. ASSUME NEW t \in Logger, Size(t) PROVE Kinds'
    <2>1. target' \in [Logger -> Day \X ({0} \cup Slot)]
      <3>1. CASE Full
        <4>1. log.fname # NoName
          BY <3>1 DEF Full, Base
        <4>2. log.fname \in Day /\ Place \in Slot
          BY <4>1, PlaceIsRight DEF Logs
        <4> QED
          BY <1>4, <3>1, <4>2 DEF Size
      <3>2. CASE ~Full
        BY <1>4, <3>2 DEF Size
      <3> QED
        BY <3>1, <3>2
    <2>2. pc' \in [Logger -> Under \cup {"idle"}]
      BY <1>4 DEF Size, GoesOn, Under
    <2> QED
      BY <1>4, <2>1, <2>2 DEF Size, GoesOn, clock
  <1>5. ASSUME NEW t \in Logger, Rename(t) PROVE Kinds'
    <2>1. files' \in [Day -> [{0} \cup Slot -> File \cup {NoFile}]]
      <3>1. CASE Base = NoFile
        BY <1>5, <3>1 DEF Rename
      <3>2. CASE Base # NoFile
        <4>1. log.fname \in Day /\ Base \in File \cup {NoFile}
          BY <3>2 DEF Base, Logs
        <4>2. target[t][1] \in Day /\ target[t][2] \in {0} \cup Slot
          OBVIOUS
        <4> DEFINE fs == [files EXCEPT ![target[t][1]][target[t][2]] = Base]
        <4>3. fs \in [Day -> [{0} \cup Slot -> File \cup {NoFile}]]
          BY <4>1, <4>2
        <4>4. files' = [fs EXCEPT ![log.fname][0] = NoFile]
          BY <1>5, <3>2 DEF Rename
        <4> HIDE DEF fs
        <4> QED
          BY <4>1, <4>3, <4>4
      <3> QED
        BY <3>1, <3>2
    <2>2. pc' \in [Logger -> Under \cup {"idle"}]
      BY <1>5 DEF Rename, GoesOn, Under
    <2> QED
      BY <1>5, <2>1, <2>2 DEF Rename, GoesOn, clock
  <1>6. ASSUME NEW t \in Logger, Returns(t)
        PROVE  /\ pc' \in [Logger -> Under \cup {"idle"}] /\ err' \in [Logger -> BOOLEAN]
               /\ line' \in [Logger -> 0..MaxLine]
               /\ \A u \in Logger : pc'[u] # "idle" => line'[u] # 0
               /\ target' \in [Logger -> Day \X ({0} \cup Slot)]
               /\ UNCHANGED <<today, now, said, errors, sets>>
    <2>1. <<1, 0>> \in Day \X ({0} \cup Slot) /\ 0 \in 0..MaxLine
      BY <1>0 DEF LogAssumption
    <2>2. target' \in [Logger -> Day \X ({0} \cup Slot)]
      BY <1>6, <2>1 DEF Returns
    <2>3. line' \in [Logger -> 0..MaxLine]
      BY <1>6, <2>1 DEF Returns
    <2>4. \A u \in Logger : pc'[u] # "idle" => line'[u] # 0
      BY <1>6 DEF Returns
    <2> QED
      BY <1>6, <2>2, <2>3, <2>4 DEF Returns, clock
  <1>7. ASSUME NEW t \in Logger, Write(t) PROVE Kinds'
    <2>0. Returns(t) /\ UNCHANGED <<log, errs>>
      BY <1>7 DEF Write
    <2>1. files' \in [Day -> [{0} \cup Slot -> File \cup {NoFile}]]
      <3>1. CASE log.fname = NoName
        BY <1>7, <3>1 DEF Write
      <3>2. CASE log.fname # NoName
        <4> DEFINE f == files[log.fname][0]
                   g == [lines |-> Lines(f) \cup {line[t]}, time |-> now]
        <4>1. log.fname \in Day /\ f \in File \cup {NoFile}
          BY <3>2 DEF Logs
        <4>2. Lines(f) \in SUBSET (1..MaxLine)
          BY <4>1 DEF Lines, File
        <4>3. line[t] \in 1..MaxLine
          BY <1>7 DEF Write
        <4>4. g \in File
          BY <4>2, <4>3 DEF File
        <4>5. files' = [files EXCEPT ![log.fname][0] = g]
          BY <1>7, <3>2 DEF Write
        <4> HIDE DEF g, f
        <4> QED
          BY <4>1, <4>4, <4>5
      <3> QED
        BY <3>1, <3>2
    <2> QED
      BY <1>6, <2>0, <2>1
  <1>8. ASSUME NEW t \in Logger, WriteErr(t) PROVE Kinds'
    <2>0. Returns(t) /\ UNCHANGED <<log, files>>
      BY <1>8 DEF WriteErr
    <2>1. log.err_fname \in Day /\ line[t] \in 1..MaxLine
      BY <1>8 DEF WriteErr, Logs
    <2>2. errs' \in [Day -> SUBSET (1..MaxLine)]
      BY <1>8, <2>1 DEF WriteErr
    <2> QED
      BY <1>6, <2>0, <2>2
  <1>9. ASSUME NEW n \in Slot, NEW s \in Slot, LogSet(n, s) PROVE Kinds'
    <2>1. log' \in Logs
      BY <1>9 DEF LogSet, Setting, Logs
    <2>2. sets' \in Nat /\ errors + sets' <= MaxExtra
      BY <1>9, <1>0 DEF LogSet, Setting, LogAssumption
    <2> QED
      BY <1>9, <2>1, <2>2 DEF LogSet, Setting, clock
  <1>10. ASSUME SetLogLevel(2) PROVE Kinds'
    <2>1. log' \in Logs
      <3>1. log' = [log EXCEPT !.level = 2] /\ 2 \in 1..2
        BY <1>10 DEF SetLogLevel, Setting
      <3> QED
        BY <3>1 DEF Logs
    <2>2. sets' \in Nat /\ errors + sets' <= MaxExtra
      BY <1>10, <1>0 DEF SetLogLevel, Setting, LogAssumption
    <2> QED
      BY <1>10, <2>1, <2>2 DEF SetLogLevel, Setting, clock
  <1>11. ASSUME Tick \/ Midnight \/ UNCHANGED rvars PROVE Kinds'
    <2>1. CASE Tick
      <3>1. now' \in 0..MaxTick
        BY <1>0, <2>1 DEF Tick, LogAssumption
      <3> QED
        BY <2>1, <3>1 DEF Tick, rcalls
    <2>2. CASE Midnight
      BY <2>2 DEF Midnight, rcalls
    <2>3. CASE UNCHANGED rvars
      BY <2>3 DEF rvars, rcalls, clock
    <2> QED
      BY <1>11, <2>1, <2>2, <2>3
  <1> QED
    BY LogSteps, <1>1, <1>2, <1>3, <1>4, <1>5, <1>7, <1>8, <1>9, <1>10, <1>11

(* A line is kept when its call is under way, or it is in a file, was in   *)
(* one that a rename replaced, or was lost.                                *)
IsKept(x) == \/ \E t \in Logger : pc[t] # "idle" /\ line[t] = x
             \/ \E d \in Day : \E i \in {0} \cup Slot : x \in Lines(files[d][i])
             \/ \E d \in Day : x \in errs[d]
             \/ x \in aged \/ x \in lost

LEMMA KeptLines == LinesKept <=> \A x \in 1..said : IsKept(x)
  <1> DEFINE under == {line[t] : t \in {u \in Logger : pc[u] # "idle"}}
  <1>1. \A x : x \in All \cup aged \cup lost \/ x \in under <=> IsKept(x)
    BY DEF All, IsKept
  <1>2. LinesKept <=> (1..said) \ under \subseteq All \cup aged \cup lost
    BY DEF LinesKept
  <1> HIDE DEF under
  <1> QED
    BY <1>1, <1>2

LEMMA LinesKeptKept ==
  ASSUME RInv, [RNext]_rvars PROVE LinesKept'
  <1> USE DEF RInv
  <1>0. \A x \in 1..said : IsKept(x)
    BY KeptLines
  <1>a. SUFFICES ASSUME NEW x \in 1..said' PROVE IsKept(x)'
    BY DEF LinesKept, IsKept, All
  <1>1. ASSUME NEW t \in Logger, check_date(t) PROVE IsKept(x)'
    <2>1. /\ said \in Nat /\ said' = said + 1
          /\ pc' = [pc EXCEPT ![t] = IF log.date # today THEN "blank" ELSE "size"]
          /\ line' = [line EXCEPT ![t] = said + 1] /\ pc[t] = "idle"
          /\ UNCHANGED <<files, errs, aged, lost>>
      BY <1>1 DEF check_date, Kinds, rhist
    <2>2. CASE x = said + 1
      BY <2>1, <2>2 DEF IsKept, Kinds
    <2>3. CASE x \in 1..said
      BY <1>0, <2>1, <2>3 DEF IsKept, Kinds
    <2> QED
      BY <2>1, <2>2, <2>3
  <1>2. ASSUME NEW t \in Logger, pc[t] # "idle", pc'[t] # "idle",
               \A u \in Logger \ {t} : pc'[u] = pc[u],
               UNCHANGED <<line, said, files, errs, aged, lost>>
        PROVE  IsKept(x)'
    BY <1>0, <1>2 DEF IsKept
  <1>3. ASSUME NEW t \in Logger, Restart(t) \/ SetName(t) \/ Size(t) PROVE IsKept(x)'
    BY <1>2, <1>3 DEF Restart, SetName, Size, GoesOn, rhist, Kinds
  <1>4. ASSUME NEW t \in Logger, Rename(t) PROVE IsKept(x)'
    <2>1. /\ pc[t] = "rename" /\ pc' = [pc EXCEPT ![t] = "write"]
          /\ UNCHANGED <<said, line, errs, lost>>
      BY <1>4 DEF Rename, GoesOn
    <2>2. CASE Base = NoFile
      BY <1>2, <1>4, <2>1, <2>2 DEF Rename, Kinds
    <2>3. CASE Base # NoFile
      <3> DEFINE a == target[t][1]
                 b == target[t][2]
      <3>1. /\ log.fname \in Day /\ Base = files[log.fname][0]
            /\ a \in Day /\ b \in {0} \cup Slot /\ b # 0
        BY <2>1, <2>3, NumbersAboveZero DEF Base, Kinds, Logs, Aimed
      <3>2. /\ aged' = aged \cup Lines(files[a][b])
            /\ files' = [[files EXCEPT ![a][b] = Base] EXCEPT ![log.fname][0] = NoFile]
        BY <1>4, <2>3 DEF Rename
      <3> HIDE DEF a, b
      <3>3. /\ files'[a][b] = Base
            /\ \A d \in Day, i \in {0} \cup Slot :
                 (d = a /\ i = b) \/ (d = log.fname /\ i = 0) \/ files'[d][i] = files[d][i]
        BY <3>1, <3>2 DEF Kinds
      <3>4. CASE \E d \in Day : \E i \in {0} \cup Slot : x \in Lines(files[d][i])
        <4>1. PICK d \in Day, i \in {0} \cup Slot : x \in Lines(files[d][i])
          BY <3>4
        <4>2. x \in Lines(files[a][b]) \/ x \in Lines(Base)
                \/ files'[d][i] = files[d][i]
          BY <3>1, <3>3, <4>1
        <4>3. CASE x \in Lines(files[a][b])
          BY <3>2, <4>3 DEF IsKept
        <4>4. CASE x \in Lines(Base)
          BY <3>1, <3>3, <4>4, Zenon DEF IsKept
        <4>5. CASE files'[d][i] = files[d][i]
          <5>1. x \in Lines(files'[d][i])
            BY <4>1, <4>5, Zenon
          <5> QED
            BY <4>1, <5>1, Zenon DEF IsKept
        <4> QED
          BY <4>2, <4>3, <4>4, <4>5, Zenon
      <3> QED
        BY <1>0, <2>1, <3>2, <3>4 DEF IsKept, Kinds
    <2> QED
      BY <2>2, <2>3
  <1>5. ASSUME NEW t \in Logger, Returns(t), x # line[t],
               \A d \in Day : errs[d] \subseteq errs'[d],
               \A d \in Day, i \in {0} \cup Slot : Lines(files[d][i]) \subseteq Lines(files'[d][i]),
               aged' = aged, lost \subseteq lost'
        PROVE  IsKept(x)'
    <2>1. x \in 1..said /\ \A u \in Logger \ {t} : pc'[u] = pc[u] /\ line'[u] = line[u]
      BY <1>5 DEF Returns, Kinds
    <2>2. IsKept(x)
      BY <1>0, <2>1
    <2>3. CASE \E u \in Logger : pc[u] # "idle" /\ line[u] = x
      <3>1. PICK u \in Logger : pc[u] # "idle" /\ line[u] = x
        BY <2>3
      <3>2. u # t
        BY <1>5, <3>1
      <3>3. pc'[u] # "idle" /\ line'[u] = x
        BY <2>1, <3>1, <3>2
      <3> QED
        BY <3>3 DEF IsKept
    <2>4. CASE \E d \in Day : \E i \in {0} \cup Slot : x \in Lines(files[d][i])
      <3>1. \E d \in Day : \E i \in {0} \cup Slot : x \in Lines(files'[d][i])
        BY <1>5, <2>4
      <3> QED
        BY <3>1 DEF IsKept, Lines
    <2>5. CASE \E d \in Day : x \in errs[d]
      <3>1. \E d \in Day : x \in errs'[d]
        BY <1>5, <2>5
      <3> QED
        BY <3>1 DEF IsKept
    <2>6. CASE x \in aged \/ x \in lost
      BY <1>5, <2>6 DEF IsKept
    <2> QED
      BY <2>2, <2>3, <2>4, <2>5, <2>6 DEF IsKept
  <1>6. ASSUME NEW t \in Logger, Write(t) PROVE IsKept(x)'
    <2>1. Returns(t) /\ UNCHANGED <<log, errs, aged>>
      BY <1>6 DEF Write
    <2>2. CASE log.fname = NoName
      <3>1. lost' = lost \cup {line[t]} /\ UNCHANGED files
        BY <1>6, <2>2 DEF Write
      <3>2. CASE x = line[t]
        BY <3>1, <3>2 DEF IsKept
      <3> QED
        BY <1>5, <2>1, <3>1, <3>2
    <2>3. CASE log.fname # NoName
      <3> DEFINE f == files[log.fname][0]
                 g == [lines |-> Lines(f) \cup {line[t]}, time |-> now]
      <3>1. files' = [files EXCEPT ![log.fname][0] = g] /\ UNCHANGED lost
        BY <1>6, <2>3 DEF Write
      <3>2. log.fname \in Day /\ f \in File \cup {NoFile}
        BY <2>3 DEF Kinds, Logs
      <3>3. line[t] \in 1..MaxLine /\ Lines(f) \in SUBSET (1..MaxLine) /\ now \in 0..MaxTick
        BY <1>6, <3>2 DEF Write, Kinds, Lines, File
      <3>4. g # NoFile /\ g.lines = Lines(f) \cup {line[t]}
        BY <3>3, LogAssumption
      <3>5. Lines(g) = Lines(f) \cup {line[t]}
        BY <3>4 DEF Lines
      <3>6. f = files[log.fname][0]
        OBVIOUS
      <3> HIDE DEF f, g
      <3>7. /\ files'[log.fname][0] = g
            /\ \A d \in Day, i \in {0} \cup Slot :
                 (d = log.fname /\ i = 0) \/ files'[d][i] = files[d][i]
        BY <3>1, <3>2 DEF Kinds
      <3>8. \A d \in Day, i \in {0} \cup Slot : Lines(files[d][i]) \subseteq Lines(files'[d][i])
        BY <3>5, <3>6, <3>7
      <3>9. CASE x = line[t]
        BY <3>2, <3>5, <3>7, <3>9 DEF IsKept
      <3> QED
        BY <1>5, <2>1, <3>1, <3>8, <3>9
    <2> QED
      BY <2>2, <2>3
  <1>7. ASSUME NEW t \in Logger, WriteErr(t) PROVE IsKept(x)'
    <2>1. /\ Returns(t) /\ UNCHANGED <<files, aged, lost>>
          /\ errs' = [errs EXCEPT ![log.err_fname] = @ \cup {line[t]}] /\ log.err_fname \in Day
      BY <1>7 DEF WriteErr, rhist, Kinds, Logs
    <2>2. CASE x = line[t]
      BY <2>1, <2>2 DEF IsKept, Kinds
    <2>3. \A d \in Day : errs[d] \subseteq errs'[d]
      BY <2>1 DEF Kinds
    <2> QED
      BY <1>5, <2>1, <2>2, <2>3
  <1>8. ASSUME UNCHANGED <<pc, line, said, files, errs, aged, lost>> PROVE IsKept(x)'
    BY <1>0, <1>8 DEF IsKept
  <1> QED
    BY LogSteps, <1>1, <1>3, <1>4, <1>6, <1>7, <1>8
       DEF LogSet, SetLogLevel, Setting, Tick, Midnight, rvars, rcalls, rhist

(* The limits, and how many threads can be writing.                        *)
LEMMA SizeFacts ==
  ASSUME Kinds
  PROVE  /\ Cardinality(Logger) \in Nat /\ IsFiniteSet(Writers)
         /\ Cardinality(Writers) \in Nat /\ Cardinality(Writers) <= Cardinality(Logger)
         /\ Limit \in Nat \ {0}
         /\ log.fsize \in Nat /\ log.fsize <= Limit
         /\ \A d \in Day, i \in {0} \cup Slot :
              /\ IsFiniteSet(Lines(files[d][i])) /\ Cardinality(Lines(files[d][i])) \in Nat
              /\ files[d][i] = NoFile => Cardinality(Lines(files[d][i])) = 0
  <1>1. IsFiniteSet(Logger) /\ Writers \subseteq Logger
    BY LogAssumption DEF Writers
  <1>2. /\ IsFiniteSet(Writers) /\ Cardinality(Writers) <= Cardinality(Logger)
        /\ Cardinality(Writers) \in Nat /\ Cardinality(Logger) \in Nat
    BY <1>1, FS_Subset, FS_CardinalityType
  <1>3. log.fsize \in {DefSize} \cup Slot
    BY DEF Kinds, Logs
  <1>4. ASSUME NEW d \in Day, NEW i \in {0} \cup Slot
        PROVE  /\ IsFiniteSet(Lines(files[d][i])) /\ Cardinality(Lines(files[d][i])) \in Nat
               /\ files[d][i] = NoFile => Cardinality(Lines(files[d][i])) = 0
    <2>1. files[d][i] \in File \cup {NoFile}
      BY DEF Kinds
    <2>2. Lines(files[d][i]) \in SUBSET (1..MaxLine)
      BY <2>1 DEF Lines, File
    <2>3. IsFiniteSet(1..MaxLine)
      <3>1. 1 \in Int /\ MaxLine \in Int
        BY LogAssumption
      <3> QED
        BY <3>1, FS_Interval
    <2>4. IsFiniteSet(Lines(files[d][i]))
      BY <2>2, <2>3, FS_Subset
    <2>5. files[d][i] = NoFile => Lines(files[d][i]) = {}
      BY DEF Lines
    <2> QED
      BY <2>4, <2>5, FS_CardinalityType, FS_EmptySet
  <1> QED
    BY <1>2, <1>3, <1>4, LimitBounds

(* The bound on a file: it counts with the threads that will write to it.  *)
Small(d, i) == Cardinality(Lines(files[d][i])) < Limit + Cardinality(Logger)
FitsLimit(d) == Cardinality(Lines(files[d][0])) + (IF log.fname = d THEN Cardinality(Writers) ELSE 0)
             < Limit + Cardinality(Logger)

(* The name's file fits as soon as it is empty or not yet at its size.     *)
LEMMA Roomy ==
  ASSUME Kinds, log.fname \in Day, ~Full, NEW n \in Nat, n <= Cardinality(Logger)
  PROVE  Cardinality(Lines(files[log.fname][0])) + n < Limit + Cardinality(Logger)
  <1> DEFINE c == Cardinality(Lines(files[log.fname][0]))
             l == Cardinality(Logger)
  <1>1. c \in Nat /\ l \in Nat /\ Limit \in Nat \ {0} /\ log.fsize \in Nat /\ log.fsize <= Limit
    BY SizeFacts
  <1>2. c < Limit
    <2>1. log.fname # NoName
      BY NumbersAboveZero DEF NoName
    <2>2. Base = files[log.fname][0]
      BY <2>1 DEF Base
    <2>3. CASE files[log.fname][0] = NoFile
      BY <1>1, <2>3, SizeFacts
    <2>4. CASE files[log.fname][0] # NoFile
      <3>1. ~(Cardinality(Base.lines) >= log.fsize) /\ Lines(Base) = Base.lines
        BY <2>2, <2>4 DEF Full, Lines
      <3>2. ~(c >= log.fsize)
        BY <2>2, <3>1
      <3> QED
        BY <1>1, <3>2
    <2> QED
      BY <2>3, <2>4
  <1> HIDE DEF c, l
  <1>3. c + n < Limit + l
    BY <1>1, <1>2 DEF l
  <1> QED
    BY <1>3 DEF c, l

LEMMA SizedKept ==
  ASSUME RInv, [RNext]_rvars, ~reopened' PROVE Sized'
  <1> DEFINE l == Cardinality(Logger)
             w == Cardinality(Writers)
             c(d, i) == Cardinality(Lines(files[d][i]))
  <1>0. /\ Kinds /\ ~reopened /\ Aimed
        /\ \A d \in Day : FitsLimit(d) /\ \A i \in Slot : Small(d, i)
    <2>1. ~reopened
      BY LogSteps DEF check_date, Restart, SetName, Size, Rename, Write, WriteErr, LogSet,
         SetLogLevel, Setting, Tick, Midnight, rvars, rhist
    <2> QED
      BY <2>1 DEF RInv, Sized, FitsLimit, Small
  <1>a. SUFFICES ASSUME NEW d \in Day PROVE FitsLimit(d)' /\ \A i \in Slot : Small(d, i)'
    BY DEF Sized, FitsLimit, Small
  <1>b. /\ l \in Nat /\ w \in Nat /\ w <= l /\ IsFiniteSet(Writers) /\ Limit \in Nat \ {0}
        /\ \A i \in {0} \cup Slot : c(d, i) \in Nat /\ (files[d][i] = NoFile => c(d, i) = 0)
    BY <1>0, SizeFacts
  <1>c. w' \in Nat /\ w' <= l
    <2>1. Writers' \subseteq Logger /\ IsFiniteSet(Logger)
      BY LogAssumption DEF Writers
    <2> QED
      BY <2>1, FS_Subset, FS_CardinalityType
  <1>d. d # NoName
    BY NumbersAboveZero DEF NoName
  <1>e. /\ \A i \in Slot : c(d, i) < Limit + l
        /\ c(d, 0) + (IF log.fname = d THEN w ELSE 0) < Limit + l
        /\ c(d, 0) < Limit + l
    <2>1. FitsLimit(d) /\ \A i \in Slot : Small(d, i)
      BY <1>0
    <2>2. /\ \A i \in Slot : c(d, i) < Limit + l
          /\ c(d, 0) + (IF log.fname = d THEN w ELSE 0) < Limit + l
      BY <2>1 DEF FitsLimit, Small
    <2> HIDE DEF c, l, w
    <2> QED
      BY <1>b, <2>2
  <1>f. Limit' = Limit /\ l' = l
    BY DEF Limit
  <1>g. ASSUME /\ (c(d, 0))' + (IF log'.fname = d THEN w' ELSE 0) < Limit + l
               /\ \A i \in Slot : (c(d, i))' < Limit + l
        PROVE  FitsLimit(d)' /\ \A i \in Slot : Small(d, i)'
    BY <1>f, <1>g DEF FitsLimit, Small
  <1>1. ASSUME UNCHANGED files, log'.fname = log.fname \/ log'.fname = NoName, w' <= w
        PROVE  FitsLimit(d)' /\ \A i \in Slot : Small(d, i)'
    <2>1. \A i \in {0} \cup Slot : (c(d, i))' = c(d, i)
      BY <1>1
    <2>2. /\ (c(d, 0))' + (IF log'.fname = d THEN w' ELSE 0) < Limit + l
          /\ \A i \in Slot : (c(d, i))' < Limit + l
      BY <1>1, <1>b, <1>c, <1>d, <1>e, <2>1
    <2> QED
      BY <1>g, <2>2
  <1>2. ASSUME \A t \in Logger : pc'[t] = "write" <=> pc[t] = "write"
        PROVE  w' <= w
    <2>1. Writers' = Writers
      BY <1>2 DEF Writers
    <2>2. w' = w
      BY <2>1
    <2> QED
      BY <1>b, <2>2
  <1>3. ASSUME NEW t \in Logger, Returns(t), pc[t] = "write"
        PROVE  w' = w - 1 /\ w >= 1
    <2>1. Writers' = Writers \ {t} /\ t \in Writers
      BY <1>0, <1>3 DEF Writers, Returns, Kinds
    <2>2. Cardinality(Writers \ {t}) = w - 1
      BY <1>b, <2>1, FS_RemoveElement
    <2>3. w' = w - 1
      BY <2>1, <2>2
    <2> QED
      BY <1>b, <1>c, <2>3
  <1>4. ASSUME NEW t \in Logger, check_date(t) PROVE FitsLimit(d)' /\ \A i \in Slot : Small(d, i)'
    <2>1. UNCHANGED <<files, log>> /\ \A u \in Logger : pc'[u] = "write" <=> pc[u] = "write"
      BY <1>0, <1>4 DEF check_date, Kinds
    <2> QED
      BY <1>1, <1>2, <2>1
  <1>5. ASSUME NEW t \in Logger, Restart(t) PROVE FitsLimit(d)' /\ \A i \in Slot : Small(d, i)'
    <2>1. /\ UNCHANGED files /\ log'.fname = NoName
          /\ \A u \in Logger : pc'[u] = "write" <=> pc[u] = "write"
      BY <1>0, <1>5 DEF Restart, GoesOn, Kinds, Logs
    <2> QED
      BY <1>1, <1>2, <2>1
  <1>6. ASSUME NEW t \in Logger, SetName(t) PROVE FitsLimit(d)' /\ \A i \in Slot : Small(d, i)'
    <2>1. UNCHANGED files /\ \A u \in Logger : pc'[u] = "write" <=> pc[u] = "write"
      BY <1>0, <1>6 DEF SetName, GoesOn, Kinds
    <2>2. CASE UNCHANGED log
      BY <1>1, <1>2, <2>1, <2>2
    <2>3. CASE log' = [log EXCEPT !.fname = today, !.err_fname = today]
               /\ reopened' = (reopened \/ files[today][0] # NoFile)
      <3>1. files[today][0] = NoFile /\ log'.fname = today
        BY <1>0, <2>3 DEF Kinds, Logs
      <3>2. d = today => c(d, 0) = 0
        BY <1>b, <3>1
      <3>3. \A i \in {0} \cup Slot : (c(d, i))' = c(d, i)
        BY <2>1
      <3>4. (c(d, 0))' + (IF log'.fname = d THEN w' ELSE 0) < Limit + l
        <4>1. CASE d = today
          BY <1>b, <1>c, <3>1, <3>2, <3>3, <4>1
        <4>2. CASE d # today
          BY <1>b, <1>e, <3>1, <3>3, <4>2
        <4> QED
          BY <4>1, <4>2
      <3>5. \A i \in Slot : (c(d, i))' < Limit + l
        BY <1>e, <3>3
      <3> QED
        BY <1>g, <3>4, <3>5
    <2> QED
      BY <1>6, <2>2, <2>3 DEF SetName
  <1>7. ASSUME ~Full, UNCHANGED <<files, log>> PROVE FitsLimit(d)' /\ \A i \in Slot : Small(d, i)'
    <2>1. \A i \in {0} \cup Slot : (c(d, i))' = c(d, i)
      BY <1>7
    <2>2. log.fname = d => c(d, 0) + w' < Limit + l
      BY <1>0, <1>7, <1>c, Roomy
    <2> HIDE DEF c, l, w
    <2>3. /\ (c(d, 0))' + (IF log'.fname = d THEN w' ELSE 0) < Limit + l
          /\ \A i \in Slot : (c(d, i))' < Limit + l
      BY <1>7, <1>b, <1>c, <1>e, <2>1, <2>2
    <2> QED
      BY <1>g, <2>3
  <1>8. ASSUME NEW t \in Logger, Size(t) PROVE FitsLimit(d)' /\ \A i \in Slot : Small(d, i)'
    <2>1. CASE Full
      <3>1. UNCHANGED <<files, log>> /\ \A u \in Logger : pc'[u] = "write" <=> pc[u] = "write"
        BY <1>0, <1>8, <2>1 DEF Size, GoesOn, Kinds
      <3> QED
        BY <1>1, <1>2, <3>1
    <2>2. CASE ~Full
      BY <1>7, <1>8, <2>2 DEF Size
    <2> QED
      BY <2>1, <2>2
  <1>9. ASSUME NEW t \in Logger, Rename(t) PROVE FitsLimit(d)' /\ \A i \in Slot : Small(d, i)'
    <2>1. CASE Base = NoFile
      BY <1>7, <1>9, <2>1 DEF Rename, Full
    <2>2. CASE Base # NoFile
      <3> DEFINE a == target[t][1]
                 b == target[t][2]
                 f == log.fname
      <3>1. /\ f \in Day /\ Base = files[f][0] /\ a \in Day /\ b \in Slot /\ b # 0
        <4>1. pc[t] = "rename" /\ target[t] \in Day \X ({0} \cup Slot)
          BY <1>0, <1>9 DEF Kinds, Rename
        <4>2. a \in Day /\ b \in Slot /\ b # 0
          BY <1>0, <4>1, NumbersAboveZero DEF Aimed
        <4>3. f \in Day /\ Base = files[f][0]
          BY <1>0, <2>2 DEF Base, Kinds, Logs
        <4> QED
          BY <4>2, <4>3
      <3>2. files' = [[files EXCEPT ![a][b] = Base] EXCEPT ![f][0] = NoFile] /\ log' = log
        BY <1>9, <2>2 DEF Rename
      <3>3. Cardinality(Lines(Base)) < Limit + l
        <4>1. FitsLimit(f) /\ Cardinality(Lines(Base)) \in Nat
          BY <1>0, <3>1, SizeFacts
        <4>2. Cardinality(Lines(files[f][0])) + w < Limit + l
          BY <4>1 DEF FitsLimit
        <4> QED
          BY <1>b, <3>1, <4>1, <4>2
      <3> HIDE DEF a, b, f
      <3>4. /\ files'[f][0] = NoFile
            /\ d # f => files'[d][0] = files[d][0]
            /\ \A i \in Slot : files'[d][i] = Base \/ files'[d][i] = files[d][i]
        <4> DEFINE fs == [files EXCEPT ![a][b] = Base]
        <4>a. files \in [Day -> [{0} \cup Slot -> File \cup {NoFile}]]
          BY <1>0 DEF Kinds
        <4>b. Base \in File \cup {NoFile}
          BY <3>1, <4>a
        <4>1. /\ fs \in [Day -> [{0} \cup Slot -> File \cup {NoFile}]]
              /\ fs[d][0] = files[d][0]
              /\ \A i \in Slot : fs[d][i] = Base \/ fs[d][i] = files[d][i]
          BY <3>1, <4>a, <4>b
        <4>2. files' = [fs EXCEPT ![f][0] = NoFile]
          BY <3>2
        <4>3. \A i \in Slot : i # 0
          BY NumbersAboveZero
        <4> HIDE DEF fs
        <4> QED
          BY <3>1, <4>1, <4>2, <4>3
      <3>5. \A i \in Slot : (c(d, i))' < Limit + l
        BY <1>e, <3>3, <3>4
      <3>6. (c(d, 0))' + (IF log'.fname = d THEN w' ELSE 0) < Limit + l
        <4>1. CASE d = f
          <5>1. (c(d, 0))' = 0
            BY <3>4, <4>1, FS_EmptySet DEF Lines
          <5> QED
            BY <1>b, <1>c, <5>1
        <4>2. CASE d # f
          <5>1. (c(d, 0))' = c(d, 0)
            BY <3>4, <4>2
          <5>2. log'.fname # d
            BY <3>2, <4>2 DEF f
          <5> QED
            BY <1>b, <1>e, <5>1, <5>2
        <4> QED
          BY <4>1, <4>2
      <3> QED
        BY <1>g, <3>5, <3>6
    <2> QED
      BY <2>1, <2>2
  <1>10. ASSUME NEW t \in Logger, Write(t) PROVE FitsLimit(d)' /\ \A i \in Slot : Small(d, i)'
    <2>1. Returns(t) /\ pc[t] = "write" /\ UNCHANGED log
      BY <1>10 DEF Write
    <2>2. w' = w - 1 /\ w >= 1
      BY <1>3, <2>1
    <2>3. CASE log.fname = NoName
      <3>1. UNCHANGED files
        BY <1>10, <2>3 DEF Write
      <3> QED
        BY <1>1, <1>b, <2>1, <2>2, <3>1
    <2>4. CASE log.fname # NoName
      <3> DEFINE f == log.fname
                 old == Lines(files[f][0])
                 g == [lines |-> old \cup {line[t]}, time |-> now]
      <3>1. files' = [files EXCEPT ![f][0] = g] /\ f \in Day
        BY <1>0, <1>10, <2>4 DEF Write, Kinds, Logs
      <3>2. files[f][0] \in File \cup {NoFile} /\ line[t] \in 1..MaxLine /\ now \in 0..MaxTick
        BY <1>0, <2>1, <3>1 DEF Kinds
      <3>3. old \in SUBSET (1..MaxLine)
        BY <3>2 DEF Lines, File
      <3>4. Lines(g) = old \cup {line[t]}
        BY <3>2, <3>3, LogAssumption DEF Lines
      <3>5. Cardinality(Lines(g)) = Cardinality(old) \/ Cardinality(Lines(g)) = Cardinality(old) + 1
        <4>1. IsFiniteSet(old)
          BY <1>0, <3>1, SizeFacts
        <4>2. Cardinality(old \cup {line[t]})
                = IF line[t] \in old THEN Cardinality(old) ELSE Cardinality(old) + 1
          BY <4>1, FS_AddElement
        <4> QED
          BY <3>4, <4>2
      <3> HIDE DEF g
      <3>6. /\ files'[f][0] = g
            /\ d # f => files'[d][0] = files[d][0]
            /\ \A i \in Slot : files'[d][i] = files[d][i]
        BY <1>0, <3>1, NumbersAboveZero DEF Kinds
      <3>7. \A i \in Slot : (c(d, i))' < Limit + l
        BY <1>e, <3>6
      <3>8. (c(d, 0))' + (IF log'.fname = d THEN w' ELSE 0) < Limit + l
        <4>1. CASE d = f
          <5>1. (c(d, 0))' = c(d, 0) \/ (c(d, 0))' = c(d, 0) + 1
            BY <3>5, <3>6, <4>1
          <5>2. c(d, 0) + w < Limit + l /\ c(d, 0) \in Nat
            BY <1>b, <1>e, <4>1
          <5> QED
            BY <1>b, <1>c, <2>1, <2>2, <5>1, <5>2
        <4>2. CASE d # f
          BY <1>b, <1>e, <2>1, <3>6, <4>2
        <4> QED
          BY <4>1, <4>2
      <3> QED
        BY <1>g, <3>7, <3>8
    <2> QED
      BY <2>3, <2>4
  <1>11. ASSUME NEW t \in Logger, WriteErr(t) PROVE FitsLimit(d)' /\ \A i \in Slot : Small(d, i)'
    <2>1. Returns(t) /\ pc[t] = "write" /\ UNCHANGED <<log, files>>
      BY <1>11 DEF WriteErr
    <2>2. w' = w - 1 /\ w >= 1
      BY <1>3, <2>1
    <2> QED
      BY <1>1, <1>b, <2>1, <2>2
  <1>12. ASSUME UNCHANGED <<pc, files>>, log'.fname = log.fname
         PROVE  FitsLimit(d)' /\ \A i \in Slot : Small(d, i)'
    BY <1>1, <1>2, <1>12
  <1>13. ASSUME NEW n, NEW s, LogSet(n, s) \/ SetLogLevel(2)
         PROVE  FitsLimit(d)' /\ \A i \in Slot : Small(d, i)'
    BY <1>0, <1>12, <1>13 DEF LogSet, SetLogLevel, Setting, Kinds, Logs
  <1> QED
    BY LogSteps, <1>4, <1>5, <1>6, <1>8, <1>9, <1>10, <1>11, <1>12, <1>13
       DEF Tick, Midnight, rvars, rcalls

LEMMA NamedKept ==
  ASSUME RInv, [RNext]_rvars PROVE Named' /\ Aimed'
  <1> USE DEF RInv
  <1>1. ASSUME NEW t \in Logger, pc[t] # "name", UNCHANGED log, failed \subseteq failed',
               \A u \in Logger \ {t} : pc'[u] = pc[u]
        PROVE  Named'
    BY <1>1 DEF Named
  <1>2. ASSUME NEW t \in Logger, pc'[t] # "rename",
               \A u \in Logger \ {t} : pc'[u] = pc[u] /\ target'[u] = target[u]
        PROVE  Aimed'
    BY <1>2 DEF Aimed
  <1>3. ASSUME NEW t \in Logger, check_date(t) PROVE Named' /\ Aimed'
    BY <1>1, <1>2, <1>3 DEF check_date, rhist, Kinds
  <1>4. ASSUME NEW t \in Logger, Restart(t) PROVE Named' /\ Aimed'
    <2>1. pc' = [pc EXCEPT ![t] = "name"] /\ UNCHANGED target
      BY <1>4 DEF Restart, GoesOn
    <2>2. pc'[t] = "name"
      BY <2>1 DEF Kinds
    <2> QED
      BY <1>2, <2>1, <2>2 DEF Kinds, Named
  <1>5. ASSUME NEW t \in Logger, SetName(t) PROVE Named' /\ Aimed'
    <2>1. pc' = [pc EXCEPT ![t] = "size"] /\ UNCHANGED target
      BY <1>5 DEF SetName, GoesOn
    <2>2. CASE log' = [log EXCEPT !.fname = today, !.err_fname = today]
      <3>1. log'.fname = today /\ today # NoName
        BY <2>2, NumbersAboveZero DEF Kinds, Logs, NoName
      <3> QED
        BY <1>2, <2>1, <3>1 DEF Kinds, Named
    <2>3. CASE failed' = failed \cup {log.date} /\ UNCHANGED log
      BY <1>2, <2>1, <2>3 DEF Kinds, Named
    <2> QED
      BY <1>5, <2>2, <2>3 DEF SetName
  <1>6. ASSUME NEW t \in Logger, Size(t) PROVE Named' /\ Aimed'
    <2>1. Named'
      BY <1>1, <1>6 DEF Size, GoesOn, rhist, Kinds
    <2>2. CASE Full
      <3>1. log.fname # NoName
        BY <2>2 DEF Full, Base
      <3>2. Place \in Slot /\ log.fname \in Day
        BY <3>1, PlaceIsRight DEF Kinds, Logs
      <3>3. target' = [target EXCEPT ![t] = <<log.fname, Place>>]
        BY <1>6, <2>2 DEF Size
      <3>4. target'[t][2] = Place /\ \A u \in Logger \ {t} : target'[u] = target[u]
        BY <3>3 DEF Kinds
      <3>5. \A u \in Logger \ {t} : pc'[u] = pc[u]
        BY <1>6 DEF Size, GoesOn, Kinds
      <3> QED
        BY <2>1, <3>2, <3>4, <3>5 DEF Aimed
    <2>3. CASE ~Full
      BY <1>2, <1>6, <2>1, <2>3 DEF Size, GoesOn, Kinds
    <2> QED
      BY <2>2, <2>3
  <1>7. ASSUME NEW t \in Logger, Rename(t) PROVE Named' /\ Aimed'
    BY <1>1, <1>2, <1>7 DEF Rename, GoesOn, Kinds
  <1>8. ASSUME NEW t \in Logger, Write(t) \/ WriteErr(t) PROVE Named' /\ Aimed'
    BY <1>1, <1>2, <1>8 DEF Write, WriteErr, Returns, Kinds, rhist
  <1>9. ASSUME NEW n, NEW s, LogSet(n, s) \/ SetLogLevel(2) PROVE Named' /\ Aimed'
    <2>1. /\ UNCHANGED <<pc, target, failed>>
          /\ log'.fname = log.fname /\ log'.date = log.date
      BY <1>9 DEF LogSet, SetLogLevel, Setting, Kinds, Logs
    <2> QED
      BY <2>1 DEF Named, Aimed
  <1>10. ASSUME UNCHANGED <<log, pc, target, failed>> PROVE Named' /\ Aimed'
    BY <1>10 DEF Named, Aimed
  <1> QED
    BY LogSteps, <1>3, <1>4, <1>5, <1>6, <1>7, <1>8, <1>9, <1>10
       DEF Tick, Midnight, rvars, rcalls, rhist

LEMMA AloneKept ==
  ASSUME RInv, [RNext]_rvars, ~raced' PROVE Alone'
  <1> DEFINE f == log.fname
             Chosen(t) == /\ log.fname # NoName /\ target[t][1] = log.fname
                          /\ target[t][2] \in Nums
                          /\ files[log.fname][target[t][2]] = NoFile \/ Oldest(target[t][2])
             Sole == \A t \in Logger : pc[t] = "name" =>
                       log.fname = NoName /\ \A u \in Logger : pc[u] = "name" => u = t
  <1>0. Kinds /\ ~raced /\ Sole /\ \A t \in Logger : pc[t] = "rename" => Chosen(t)
    <2>1. ~raced
      BY LogSteps DEF check_date, Restart, SetName, Size, Rename, Write, WriteErr, LogSet,
         SetLogLevel, Setting, Tick, Midnight, rvars, rhist
    <2> QED
      BY <2>1 DEF RInv, Alone
  <1>a. ASSUME Sole', \A t \in Logger : pc'[t] = "rename" => Chosen(t)' PROVE Alone'
    BY <1>a DEF Alone
  <1>b. f # NoName => f \in Day /\ Nums \subseteq Slot
    <2>1. log.fnum \in Slot /\ (f # NoName => f \in Day)
      BY <1>0, LogAssumption DEF Kinds, Logs
    <2>2. Nums \subseteq Slot
      <3> DEFINE k == Cardinality(Slot)
      <3>1. k \in Nat /\ Slot = 1..k
        BY LogAssumption, FS_CardinalityType
      <3> HIDE DEF k
      <3> QED
        BY <2>1, <3>1 DEF Nums
    <2> QED
      BY <2>1, <2>2
  <1>c. ASSUME NEW u \in Logger, pc[u] = "rename", target'[u] = target[u],
               log'.fname = f, log'.fnum = log.fnum,
               f \in Day => \A i \in Slot : files'[f][i] = files[f][i]
        PROVE  Chosen(u)'
    <2>1. Chosen(u) /\ f \in Day /\ Nums \subseteq Slot /\ Nums' = Nums
      BY <1>0, <1>b, <1>c DEF Nums
    <2>2. \A i \in Nums : files'[log'.fname][i] = files[log.fname][i]
      BY <1>c, <2>1
    <2>3. PICK i : i = target[u][2]
      OBVIOUS
    <2>4. Oldest(i) => Oldest(i)'
      <3>1. \A j \in Nums' : files'[log'.fname][j] = files[log.fname][j]
        BY <2>1, <2>2
      <3>2. i \in Nums /\ i \in Nums'
        BY <2>1, <2>3
      <3> QED
        BY <2>1, <3>1, <3>2 DEF Oldest, Time
    <2>5. target'[u][2] = i /\ target'[u][1] = target[u][1]
      BY <1>c, <2>3
    <2>6. i \in Nums' /\ (files'[log'.fname][i] = NoFile \/ Oldest(i)')
      BY <2>1, <2>2, <2>3, <2>4
    <2> QED
      BY <1>c, <2>1, <2>5, <2>6
  <1>1. ASSUME NEW t \in Logger, UNCHANGED <<log, files>>,
               \A u \in Logger \ {t} : pc'[u] = pc[u] /\ target'[u] = target[u],
               pc'[t] # "name", pc'[t] # "rename"
        PROVE  Alone'
    BY <1>0, <1>c, <1>1, <1>a
  <1>2. ASSUME NEW t \in Logger, check_date(t) PROVE Alone'
    BY <1>0, <1>1, <1>2 DEF check_date, Kinds
  <1>3. ASSUME NEW t \in Logger, Restart(t) PROVE Alone'
    <2>1. /\ pc' = [pc EXCEPT ![t] = "name"] /\ log'.fname = NoName
          /\ \A u \in Logger \ {t} : pc[u] \notin Under
      BY <1>0, <1>3 DEF Restart, GoesOn, Others, Kinds, Logs
    <2>2. \A u \in Logger : pc'[u] # "rename" /\ (pc'[u] = "name" => u = t)
      BY <1>0, <2>1 DEF Kinds, Under
    <2> QED
      BY <1>a, <2>1, <2>2
  <1>4. ASSUME NEW t \in Logger, SetName(t) PROVE Alone'
    <2>1. pc[t] = "name" /\ pc' = [pc EXCEPT ![t] = "size"]
      BY <1>4 DEF SetName, GoesOn
    <2>2. f = NoName /\ \A u \in Logger : pc[u] = "name" => u = t
      BY <1>0, <2>1
    <2>3. \A u \in Logger : pc'[u] # "rename" /\ pc'[u] # "name"
      BY <1>0, <2>1, <2>2 DEF Kinds
    <2> QED
      BY <1>a, <2>3
  <1>5. ASSUME NEW t \in Logger, Size(t) PROVE Alone'
    <2>1. CASE Full
      <3>1. f # NoName
        BY <2>1 DEF Full, Base
      <3>2. /\ Place \in Nums
            /\ files[log.fname][Place] = NoFile \/ Oldest(Place)
        BY <1>0, <3>1, PlaceIsRight
      <3>3. /\ pc' = [pc EXCEPT ![t] = "rename"] /\ UNCHANGED <<log, files>>
            /\ target' = [target EXCEPT ![t] = <<f, Place>>]
        BY <1>5, <2>1 DEF Size, GoesOn
      <3>4. target'[t][1] = f /\ target'[t][2] = Place
        BY <1>0, <3>3 DEF Kinds
      <3>5. PICK i : i = Place
        OBVIOUS
      <3>6. Oldest(i)' <=> Oldest(i)
        BY <3>3 DEF Oldest, Nums, Time
      <3>7. Chosen(t)'
        <4>1. Nums' = Nums
          BY <3>3 DEF Nums
        <4> QED
          BY <3>1, <3>2, <3>3, <3>4, <3>5, <3>6, <4>1
      <3>8. \A u \in Logger \ {t} : pc'[u] = pc[u] /\ target'[u] = target[u]
        BY <1>0, <3>3 DEF Kinds
      <3>9. \A u \in Logger : pc'[u] = "rename" => Chosen(u)'
        BY <1>0, <1>c, <3>3, <3>7, <3>8
      <3>10. \A u \in Logger : pc'[u] # "name"
        BY <1>0, <3>1, <3>3 DEF Kinds
      <3> QED
        BY <1>a, <3>9, <3>10
    <2>2. CASE ~Full
      BY <1>0, <1>1, <1>5, <2>2 DEF Size, GoesOn, Kinds
    <2> QED
      BY <2>1, <2>2
  <1>6. ASSUME NEW t \in Logger, Rename(t) PROVE Alone'
    <2>1. /\ pc' = [pc EXCEPT ![t] = "write"] /\ UNCHANGED log /\ pc[t] = "rename"
          /\ \A u \in Logger \ {t} : pc[u] # "rename"
      BY <1>6 DEF Rename, GoesOn, Others
    <2>2. \A u \in Logger : pc'[u] # "rename" /\ (pc'[u] = "name" => pc[u] = "name")
      BY <1>0, <2>1 DEF Kinds
    <2>3. Sole'
      BY <1>0, <2>1, <2>2
    <2> QED
      BY <1>a, <2>2, <2>3
  <1>7. ASSUME NEW t \in Logger, Returns(t), UNCHANGED log,
               f \in Day => \A i \in Slot : files'[f][i] = files[f][i]
        PROVE  Alone'
    <2>1. /\ pc'[t] = "idle"
          /\ \A u \in Logger \ {t} : pc'[u] = pc[u] /\ target'[u] = target[u]
      BY <1>0, <1>7 DEF Returns, Kinds
    <2> QED
      BY <1>0, <1>a, <1>c, <1>7, <2>1
  <1>8. ASSUME NEW t \in Logger, Write(t) PROVE Alone'
    <2>1. f \in Day => \A i \in Slot : files'[f][i] = files[f][i]
      BY <1>0, <1>8, NumbersAboveZero DEF Write, Kinds
    <2> QED
      BY <1>7, <1>8, <2>1 DEF Write
  <1>9. ASSUME NEW t \in Logger, WriteErr(t) PROVE Alone'
    BY <1>7, <1>9 DEF WriteErr
  <1>10. ASSUME NEW n, NEW s, LogSet(n, s) \/ SetLogLevel(2) PROVE Alone'
    <2>1. \A t \in Logger : pc'[t] \notin Under
      BY <1>10 DEF LogSet, SetLogLevel, Setting
    <2> QED
      BY <1>a, <2>1 DEF Under
  <1>11. ASSUME UNCHANGED <<log, files, pc, target>> PROVE Alone'
    BY <1>0, <1>c, <1>11, <1>a
  <1> QED
    BY LogSteps, <1>2, <1>3, <1>4, <1>5, <1>6, <1>8, <1>9, <1>10, <1>11
       DEF Tick, Midnight, rvars, rcalls

LEMMA LogNextInv ==
  ASSUME RInv, [RNext]_rvars PROVE RInv'
  <1>1. Kinds' /\ LinesKept' /\ Named' /\ Aimed'
    BY KindsKept, LinesKeptKept, NamedKept
  <1>2. Sized'
    BY SizedKept DEF Sized
  <1>3. Alone'
    BY AloneKept DEF Alone
  <1> QED
    BY <1>1, <1>2, <1>3 DEF RInv

(* Only a call that has no name to open loses its line, and then Named says *)
(* why there is none.                                                      *)
LEMMA SilentStep ==
  ASSUME RInv, [RNext]_rvars, lost' # lost
  PROVE  log.date \in failed \/ \E t \in Logger : pc[t] = "name"
  <1>1. \E t \in Logger : Write(t) /\ log.fname = NoName
    BY LogSteps DEF check_date, Restart, SetName, Size, Rename, Write, WriteErr, LogSet,
       SetLogLevel, Setting, Tick, Midnight, rvars, rhist
  <1> QED
    BY <1>1 DEF RInv, Named

(* Only a rename replaces a file, and Alone says which.                    *)
LEMMA OldestStep ==
  ASSUME RInv, [RNext]_rvars, aged' # aged, ~raced'
  PROVE  \E i \in Nums :
           /\ Lines(files[log.fname][i]) \subseteq aged'
           /\ \A j \in Nums : files[log.fname][j] # NoFile /\ Time(i) <= Time(j)
  <1>1. PICK t \in Logger : Rename(t)
    BY LogSteps DEF check_date, Restart, SetName, Size, Write, WriteErr, LogSet,
       SetLogLevel, Setting, Tick, Midnight, rvars, rhist
  <1>2. /\ pc[t] = "rename"
        /\ aged' = aged \cup Lines(files[target[t][1]][target[t][2]])
    BY <1>1 DEF Rename
  <1>3. ~raced
    BY <1>1 DEF Rename
  <1>4. /\ target[t][1] = log.fname /\ target[t][2] \in Nums
        /\ files[log.fname][target[t][2]] = NoFile \/ Oldest(target[t][2])
    BY <1>2, <1>3 DEF RInv, Alone
  <1>5. files[log.fname][target[t][2]] # NoFile
    BY <1>2, <1>4 DEF Lines
  <1> QED
    BY <1>2, <1>4, <1>5 DEF Oldest

(* The log, for every number of threads that share it, of days, of renamed *)
(* files and lines: files stay within their limit by a line for each       *)
(* thread, a line is in a file, or aged with one, or its call could not    *)
(* open the file and there is a reason; and of the renamed files the one   *)
(* that check_fsize has replaced is as old as any.                         *)
THEOREM LogIsKept == RSpec => LogKept
  <1>1. RInv => RTypeOK /\ LinesKept
    <2> SUFFICES ASSUME RInv PROVE RTypeOK
      BY DEF RInv
    <2>1. errors + sets \in 0..MaxExtra /\ log.fname \in {NoName} \cup Day /\ log.date \in Day
            /\ log.err_fname \in Day
      BY LogAssumption DEF RInv, Kinds, Logs
    <2>2. ASSUME NEW d \in Day, NEW i \in {0} \cup Slot, ~reopened
          PROVE  Cardinality(Lines(files[d][i])) < Limit + Cardinality(Logger)
      <3> DEFINE c == Cardinality(Lines(files[d][i]))
      <3>1. /\ c \in Nat /\ Cardinality(Writers) \in Nat /\ Cardinality(Logger) \in Nat
            /\ Limit \in Nat
        BY SizeFacts DEF RInv
      <3>2. CASE i = 0
        <4>1. c + (IF log.fname = d THEN Cardinality(Writers) ELSE 0)
                < Limit + Cardinality(Logger)
          BY <2>2, <3>2 DEF RInv, Sized
        <4> QED
          BY <3>1, <4>1
      <3>3. CASE i \in Slot
        BY <2>2, <3>3 DEF RInv, Sized
      <3> QED
        BY <3>2, <3>3
    <2> QED
      BY <2>1, <2>2 DEF RTypeOK, RInv, Kinds, Limit
  <1>2. RInv /\ [RNext]_rvars =>
          [aged' # aged /\ ~raced' =>
             \E i \in Nums :
               /\ Lines(files[log.fname][i]) \subseteq aged'
               /\ \A j \in Nums : files[log.fname][j] # NoFile /\ Time(i) <= Time(j)]_rvars
    BY OldestStep
  <1>3. RInv /\ [RNext]_rvars =>
          [lost' # lost => log.date \in failed \/ \E t \in Logger : pc[t] = "name"]_rvars
    BY SilentStep
  <1> QED
    BY LogInitInv, LogNextInv, <1>1, <1>2, <1>3, PTL DEF RSpec, LogKept, OldestGoes, Silent

-----------------------------------------------------------------------------
(* The table of interfaces: lists of words and of entries.                 *)

(* Induction up to a number, of a set.                                     *)
LEMMA UpTo ==
  ASSUME NEW N \in Nat, NEW P, 0 \in P, \A k \in 1..N : k - 1 \in P => k \in P
  PROVE  0..N \subseteq P
  <1> DEFINE Bad == {k \in 0..N : k \notin P}
  <1>1. SUFFICES ASSUME Bad # {} PROVE FALSE
    OBVIOUS
  <1>2. Bad \in SUBSET Nat
    OBVIOUS
  <1>3. PICK k \in Bad : \A j \in Bad : k <= j
    BY <1>1, <1>2, LeastOf
  <1>4. k \in 1..N /\ k - 1 \in 0..N /\ ~(k <= k - 1)
    BY <1>3
  <1>5. k - 1 \in P
    BY <1>3, <1>4
  <1> QED
    BY <1>3, <1>4, <1>5

(* A function given by its turns: step[i] makes f[i] of f[i - 1].          *)
Made(f, S, a, step, n) ==
  f \in [0..n -> S] /\ f[0] = a /\ \A i \in 1..n : f[i] = step[i][f[i - 1]]

(* There is one.                                                           *)
LEMMA ByTurns ==
  ASSUME NEW S, NEW a \in S, NEW N \in Nat, NEW step \in [1..N -> [S -> S]]
  PROVE  \E f : Made(f, S, a, step, N)
  <1> DEFINE P == {n \in 0..N : \E f : Made(f, S, a, step, n)}
  <1>1. 0 \in P
    <2> DEFINE f == [i \in 0..0 |-> a]
    <2>1. Made(f, S, a, step, 0)
      BY DEF Made
    <2> QED
      BY <2>1
  <1>2. ASSUME NEW n \in 1..N, n - 1 \in P PROVE n \in P
    <2>1. PICK f : Made(f, S, a, step, n - 1)
      BY <1>2
    <2> DEFINE g == [i \in 0..n |-> IF i = n THEN step[n][f[n - 1]] ELSE f[i]]
    <2>2. f[n - 1] \in S /\ step[n] \in [S -> S]
      BY <2>1 DEF Made
    <2>3. step[n][f[n - 1]] \in S
      BY <2>2
    <2>4. g \in [0..n -> S]
      BY <2>1, <2>3 DEF Made
    <2>5. g[0] = a /\ g[n] = step[n][g[n - 1]]
      BY <2>1 DEF Made
    <2>6. ASSUME NEW i \in 1..(n - 1) PROVE g[i] = step[i][g[i - 1]]
      <3>1. g[i] = f[i] /\ g[i - 1] = f[i - 1]
        OBVIOUS
      <3> QED
        BY <2>1, <3>1 DEF Made
    <2> HIDE DEF g
    <2>7. ASSUME NEW i \in 1..n PROVE g[i] = step[i][g[i - 1]]
      <3>1. i = n \/ i \in 1..(n - 1)
        OBVIOUS
      <3> QED
        BY <2>5, <2>6, <3>1
    <2>8. Made(g, S, a, step, n)
      BY <2>4, <2>5, <2>7 DEF Made
    <2> QED
      BY <2>8
  <1>3. 0..N \subseteq P
    <2> HIDE DEF P
    <2> QED
      BY <1>1, <1>2, UpTo
  <1> QED
    BY <1>3

-----------------------------------------------------------------------------
(* What is printed about a device.                                         *)

EndWords == {Word("RX", 0), Word("TX", 0), Word("Interrupt:", 0)}
WordsOf(d) ==
  {Word("name", d.name), Word("HWaddr", d.mac), Word("addr:", d.addr),
   Word("Mask:", d.addr), Word("addr:", 0), Word("UP", TRUE), Word("MTU:", d.mtu)}
WordSet == EndWords \cup UNION {WordsOf(d) : d \in Device}
Among(s) == {s[i] : i \in 1..Len(s)}
Behind(s) == {s[i] : i \in 2..Len(s)}

IsJoined(u, s, t) ==
  /\ u \in Seq(WordSet) /\ Len(u) = Len(s) + Len(t)
  /\ Len(s) \in Nat /\ Len(t) \in Nat /\ Len(u) \in Nat
  /\ \A i \in 1..Len(s) : i \in 1..Len(u) /\ u[i] = s[i]
  /\ \A i \in 1..Len(t) : i + Len(s) \in 1..Len(u) /\ u[i + Len(s)] = t[i]
  /\ \A i \in 1..Len(u) : \/ i \in 1..Len(s)
                         \/ (i - Len(s) \in 1..Len(t) /\ u[i] = t[i - Len(s)])

(* Two sequences joined, by their places.                                  *)
LEMMA TwoParts ==
  ASSUME NEW s \in Seq(WordSet), NEW t \in Seq(WordSet), NEW u, u = s \o t
  PROVE  IsJoined(u, s, t)
  <1>1. u \in Seq(WordSet) /\ Len(u) = Len(s) + Len(t)
    BY ConcatProperties
  <1>2. \A i \in 1..(Len(s) + Len(t)) :
          u[i] = IF i <= Len(s) THEN s[i] ELSE t[i - Len(s)]
    BY ConcatProperties, Zenon
  <1>3. Len(s) \in Nat /\ Len(t) \in Nat
    OBVIOUS
  <1>4. \A i \in 1..Len(s) : i \in 1..Len(u) /\ u[i] = s[i]
    BY <1>1, <1>2, <1>3
  <1>5. \A i \in 1..Len(t) : i + Len(s) \in 1..Len(u) /\ u[i + Len(s)] = t[i]
    <2> TAKE i \in 1..Len(t)
    <2>1. i + Len(s) \in 1..(Len(s) + Len(t)) /\ ~(i + Len(s) <= Len(s))
          /\ (i + Len(s)) - Len(s) = i
      BY <1>3
    <2> QED
      BY <1>1, <1>2, <2>1
  <1>6. \A i \in 1..Len(u) : i \in 1..Len(s)
          \/ (i - Len(s) \in 1..Len(t) /\ u[i] = t[i - Len(s)])
    BY <1>1, <1>2, <1>3
  <1> QED
    BY <1>1, <1>3, <1>4, <1>5, <1>6 DEF IsJoined

(* And by what they hold.                                                  *)
LEMMA JoinedIs ==
  ASSUME NEW s \in Seq(WordSet), NEW t \in Seq(WordSet)
  PROVE  /\ s \o t \in Seq(WordSet) /\ Len(s \o t) = Len(s) + Len(t)
         /\ Among(s \o t) = Among(s) \cup Among(t)
         /\ Len(s) >= 1 => /\ (s \o t)[1] = s[1] /\ Len(s \o t) >= 1
                          /\ Behind(s \o t) = Behind(s) \cup Among(t)
  <1> DEFINE u == s \o t
  <1>0. IsJoined(u, s, t)
    BY TwoParts
  <1> HIDE DEF u
  <1>1. u \in Seq(WordSet) /\ Len(u) = Len(s) + Len(t)
    BY <1>0 DEF IsJoined
  <1>3. Len(s) \in Nat /\ Len(t) \in Nat
    BY <1>0 DEF IsJoined
  <1>4. \A i \in 1..Len(s) : i \in 1..Len(u) /\ u[i] = s[i]
    BY <1>0 DEF IsJoined
  <1>5. \A i \in 1..Len(t) : i + Len(s) \in 1..Len(u) /\ u[i + Len(s)] = t[i]
    BY <1>0, Zenon DEF IsJoined
  <1>6. \A i \in 1..Len(u) : i \in 1..Len(s)
          \/ (i - Len(s) \in 1..Len(t) /\ u[i] = t[i - Len(s)])
    BY <1>0, Zenon DEF IsJoined
  <1>7. Among(u) = Among(s) \cup Among(t)
    <2>1. \A x : x \in Among(u) <=> \E k \in 1..Len(u) : u[k] = x
      BY DEF Among
    <2>2. \A x : x \in Among(s) <=> \E k \in 1..Len(s) : s[k] = x
      BY DEF Among
    <2>3. \A x : x \in Among(t) <=> \E k \in 1..Len(t) : t[k] = x
      BY DEF Among
    <2>4. ASSUME NEW x \in Among(u) PROVE x \in Among(s) \cup Among(t)
      <3>1. PICK k \in 1..Len(u) : u[k] = x
        BY <2>1
      <3>2. CASE k \in 1..Len(s)
        BY <1>4, <2>2, <3>1, <3>2
      <3>3. CASE k - Len(s) \in 1..Len(t) /\ u[k] = t[k - Len(s)]
        BY <2>3, <3>1, <3>3
      <3> QED
        BY <1>6, <3>2, <3>3
    <2>5. ASSUME NEW x \in Among(s) PROVE x \in Among(u)
      BY <1>4, <2>1, <2>2
    <2>6. ASSUME NEW x \in Among(t) PROVE x \in Among(u)
      <3>1. PICK k \in 1..Len(t) : t[k] = x
        BY <2>3
      <3> QED
        BY <1>5, <2>1, <3>1
    <2> QED
      BY <2>4, <2>5, <2>6
  <1>8. ASSUME Len(s) >= 1
        PROVE  u[1] = s[1] /\ Len(u) >= 1 /\ Behind(u) = Behind(s) \cup Among(t)
    <2>1. \A x : x \in Behind(u) <=> \E k \in 2..Len(u) : u[k] = x
      BY DEF Behind
    <2>2. \A x : x \in Behind(s) <=> \E k \in 2..Len(s) : s[k] = x
      BY DEF Behind
    <2>3. \A x : x \in Among(t) <=> \E k \in 1..Len(t) : t[k] = x
      BY DEF Among
    <2>4. ASSUME NEW x \in Behind(u) PROVE x \in Behind(s) \cup Among(t)
      <3>1. PICK k \in 2..Len(u) : u[k] = x
        BY <2>1
      <3>2. k \in 1..Len(u)
        BY <1>1, <1>3, <3>1
      <3>3. CASE k \in 1..Len(s)
        <4>1. k \in 2..Len(s) /\ s[k] = x
          BY <1>3, <1>4, <3>1, <3>3
        <4> QED
          BY <2>2, <4>1
      <3>4. CASE k - Len(s) \in 1..Len(t) /\ u[k] = t[k - Len(s)]
        BY <2>3, <3>1, <3>4
      <3> QED
        BY <1>6, <3>2, <3>3, <3>4
    <2>5. ASSUME NEW x \in Behind(s) PROVE x \in Behind(u)
      <3>1. PICK k \in 2..Len(s) : s[k] = x
        BY <2>2
      <3>2. k \in 1..Len(s) /\ k \in 2..Len(u)
        BY <1>1, <1>3, <3>1
      <3> QED
        BY <1>4, <2>1, <3>1, <3>2
    <2>6. ASSUME NEW x \in Among(t) PROVE x \in Behind(u)
      <3>1. PICK k \in 1..Len(t) : t[k] = x
        BY <2>3
      <3>2. k + Len(s) \in 2..Len(u)
        BY <1>1, <1>3, <1>8, <3>1
      <3> QED
        BY <1>5, <2>1, <3>1, <3>2
    <2>7. u[1] = s[1] /\ Len(u) >= 1
      <3>1. 1 \in 1..Len(s)
        BY <1>3, <1>8
      <3> QED
        BY <1>1, <1>3, <1>4, <1>8, <3>1
    <2> QED
      BY <2>4, <2>5, <2>6, <2>7
  <1> QED
    BY <1>1, <1>7, <1>8 DEF u

(* Short sequences.                                                        *)
LEMMA Short ==
  ASSUME NEW S
  PROVE  /\ <<>> \in Seq(S) /\ Len(<<>>) = 0 /\ Among(<<>>) = {}
         /\ \A x \in S : <<x>> \in Seq(S) /\ Len(<<x>>) = 1 /\ Among(<<x>>) = {x}
         /\ \A x, y \in S : /\ <<x, y>> \in Seq(S) /\ Len(<<x, y>>) = 2
                           /\ Among(<<x, y>>) = {x, y}
         /\ \A x, y, z \in S : /\ <<x, y, z>> \in Seq(S) /\ Len(<<x, y, z>>) = 3
                              /\ Among(<<x, y, z>>) = {x, y, z}
  <1>1. <<>> \in Seq(S) /\ Len(<<>>) = 0 /\ Among(<<>>) = {}
    BY DEF Among
  <1>2. ASSUME NEW x \in S
        PROVE  <<x>> \in Seq(S) /\ Len(<<x>>) = 1 /\ Among(<<x>>) = {x}
    BY DEF Among
  <1>3. ASSUME NEW x \in S, NEW y \in S
        PROVE  <<x, y>> \in Seq(S) /\ Len(<<x, y>>) = 2 /\ Among(<<x, y>>) = {x, y}
    <2> DEFINE s == <<x, y>>
    <2>1. s \in Seq(S) /\ Len(s) = 2 /\ s[1] = x /\ s[2] = y
      OBVIOUS
    <2> HIDE DEF s
    <2>2. 1..2 = {1, 2}
      OBVIOUS
    <2>3. Among(s) = {x, y}
      BY <2>1, <2>2 DEF Among
    <2> QED
      BY <2>1, <2>3 DEF s
  <1>4. ASSUME NEW x \in S, NEW y \in S, NEW z \in S
        PROVE  /\ <<x, y, z>> \in Seq(S) /\ Len(<<x, y, z>>) = 3
               /\ Among(<<x, y, z>>) = {x, y, z}
    <2> DEFINE s == <<x, y, z>>
    <2>1. s \in Seq(S) /\ Len(s) = 3 /\ s[1] = x /\ s[2] = y /\ s[3] = z
      OBVIOUS
    <2> HIDE DEF s
    <2>2. 1..3 = {1, 2, 3}
      OBVIOUS
    <2>3. Among(s) = {x, y, z}
      BY <2>1, <2>2 DEF Among
    <2> QED
      BY <2>1, <2>3 DEF s
  <1> QED
    BY <1>1, <1>2, <1>3, <1>4

(* The words that fill an entry in.                                        *)
Filling(d) ==
  (IF d.mac = 0 THEN {} ELSE {Word("HWaddr", d.mac)})
    \cup (IF d.addr = 0 THEN {}
          ELSE {Word("addr:", d.addr), Word("Mask:", d.addr), Word("addr:", 0)})
    \cup (IF d.up THEN {Word("UP", TRUE)} ELSE {}) \cup {Word("MTU:", d.mtu)}

PrintedSo(p, d) ==
  /\ p \in Seq(WordSet) /\ Len(p) \in 2..10 /\ p[1] = Word("name", d.name)
  /\ \E m \in 2..Len(p) :
       /\ {p[i] : i \in 2..m} = Filling(d)
       /\ \A i \in (m + 1)..Len(p) : p[i] \in EndWords
       /\ m < Len(p) <=> ~d.alias \/ d.irq

(* What is printed about a device is of that form.                         *)
LEMMA PrintedIs ==
  ASSUME NEW d \in Device PROVE PrintedSo(Printed(d), d)
  <1> DEFINE a == <<Word("name", d.name)>>
             b == IF d.mac = 0 THEN <<>> ELSE <<Word("HWaddr", d.mac)>>
             c == IF d.addr = 0 THEN <<>>
                  ELSE <<Word("addr:", d.addr), Word("Mask:", d.addr),
                    Word("addr:", 0)>>
             u == IF d.up THEN <<Word("UP", TRUE)>> ELSE <<>>
             m == <<Word("MTU:", d.mtu)>>
             r == IF d.alias THEN <<>> ELSE <<Word("RX", 0), Word("TX", 0)>>
             q == IF d.irq THEN <<Word("Interrupt:", 0)>> ELSE <<>>
  <1>0. d.up \in BOOLEAN /\ d.alias \in BOOLEAN /\ d.irq \in BOOLEAN
    BY TableAssumption
  <1>w. /\ Word("name", d.name) \in WordSet /\ Word("HWaddr", d.mac) \in WordSet
        /\ Word("addr:", d.addr) \in WordSet /\ Word("Mask:", d.addr) \in WordSet
        /\ Word("addr:", 0) \in WordSet /\ Word("UP", TRUE) \in WordSet
        /\ Word("MTU:", d.mtu) \in WordSet /\ EndWords \subseteq WordSet
    <2>1. WordsOf(d) \subseteq WordSet
      BY Zenon DEF WordSet
    <2>2. EndWords \subseteq WordSet
      BY Zenon DEF WordSet
    <2> QED
      BY <2>1, <2>2, Zenon DEF WordsOf
  <1>1. a \in Seq(WordSet) /\ Len(a) = 1 /\ a[1] = Word("name", d.name)
    BY <1>w, Short
  <1>2. b \in Seq(WordSet) /\ Len(b) \in 0..1
        /\ Among(b) = IF d.mac = 0 THEN {} ELSE {Word("HWaddr", d.mac)}
    <2>1. CASE d.mac = 0
      BY <2>1, Short
    <2>2. CASE d.mac # 0
      BY <1>w, <2>2, Short
    <2> QED
      BY <2>1, <2>2, Zenon
  <1>3. c \in Seq(WordSet) /\ Len(c) \in 0..3
        /\ Among(c) = IF d.addr = 0 THEN {}
                      ELSE {Word("addr:", d.addr), Word("Mask:", d.addr),
                        Word("addr:", 0)}
    <2>1. CASE d.addr = 0
      BY <2>1, Short
    <2>2. CASE d.addr # 0
      BY <1>w, <2>2, Short
    <2> QED
      BY <2>1, <2>2, Zenon
  <1>4. u \in Seq(WordSet) /\ Len(u) \in 0..1
        /\ Among(u) = IF d.up THEN {Word("UP", TRUE)} ELSE {}
    <2>1. CASE d.up
      <3>1. u = <<Word("UP", TRUE)>>
        BY <2>1
      <3> HIDE DEF u
      <3> DEFINE x == Word("UP", TRUE)
      <3>2. x \in WordSet
        BY <1>w
      <3> HIDE DEF x
      <3>3. u = <<x>>
        BY <3>1 DEF x
      <3>4. u \in Seq(WordSet) /\ Len(u) = 1 /\ Among(u) = {x}
        BY <3>2, <3>3, Short
      <3>5. Len(u) \in 0..1
        BY <3>4
      <3> QED
        BY <2>1, <3>4, <3>5, Zenon DEF x
    <2>2. CASE ~d.up
      BY <2>2, Short
    <2> QED
      BY <1>0, <2>1, <2>2, Zenon
  <1>5. m \in Seq(WordSet) /\ Len(m) = 1 /\ Among(m) = {Word("MTU:", d.mtu)}
    BY <1>w, Short
  <1>e. Word("RX", 0) \in EndWords /\ Word("TX", 0) \in EndWords
        /\ Word("Interrupt:", 0) \in EndWords
    BY DEF EndWords
  <1>6. r \in Seq(WordSet) /\ Len(r) \in 0..2 /\ Among(r) \subseteq EndWords
        /\ (Len(r) > 0 <=> ~d.alias)
    <2>1. CASE d.alias
      BY <2>1, Short
    <2>2. CASE ~d.alias
      <3> DEFINE x == Word("RX", 0)
                 y == Word("TX", 0)
      <3>1. r = <<x, y>> /\ x \in EndWords /\ y \in EndWords
            /\ x \in WordSet /\ y \in WordSet
        BY <1>w, <1>e, <2>2
      <3> HIDE DEF r, x, y
      <3>2. r \in Seq(WordSet) /\ Len(r) = 2 /\ Among(r) = {x, y}
        BY <3>1, Short
      <3> QED
        BY <2>2, <3>1, <3>2
    <2> QED
      BY <2>1, <2>2
  <1>7. q \in Seq(WordSet) /\ Len(q) \in 0..1 /\ Among(q) \subseteq EndWords
        /\ (Len(q) > 0 <=> d.irq)
    <2>1. CASE d.irq
      <3> DEFINE x == Word("Interrupt:", 0)
      <3>1. q = <<x>> /\ x \in EndWords /\ x \in WordSet
        BY <1>w, <1>e, <2>1
      <3> HIDE DEF q, x
      <3>2. q \in Seq(WordSet) /\ Len(q) = 1 /\ Among(q) = {x}
        BY <3>1, Short
      <3> QED
        BY <2>1, <3>1, <3>2
    <2>2. CASE ~d.irq
      BY <2>2, Short
    <2> QED
      BY <2>1, <2>2
  <1>8. Printed(d) = (((((a \o b) \o c) \o u) \o m) \o r) \o q
    BY DEF Printed
  <1> HIDE DEF a, b, c, u, m, r, q
  <1>9. Behind(a) = {}
    BY <1>1 DEF Behind
  <1>l. /\ a \in Seq(WordSet) /\ b \in Seq(WordSet) /\ c \in Seq(WordSet)
        /\ u \in Seq(WordSet) /\ m \in Seq(WordSet) /\ r \in Seq(WordSet)
        /\ q \in Seq(WordSet)
    BY <1>1, <1>2, <1>3, <1>4, <1>5, <1>6, <1>7, Zenon
  <1>n. /\ Len(a) = 1 /\ Len(b) \in 0..1 /\ Len(c) \in 0..3 /\ Len(u) \in 0..1
        /\ Len(m) = 1 /\ Len(r) \in 0..2 /\ Len(q) \in 0..1
    BY <1>1, <1>2, <1>3, <1>4, <1>5, <1>6, <1>7, Zenon
  <1>10. /\ a \o b \in Seq(WordSet) /\ Len(a \o b) = 1 + Len(b) /\ (a \o b)[1] = a[1]
         /\ Behind(a \o b) = Among(b) /\ Len(a \o b) \in Nat /\ Len(a \o b) >= 1
    <2>1. Len(a) >= 1
      BY <1>n
    <2>2. /\ a \o b \in Seq(WordSet) /\ Len(a \o b) = Len(a) + Len(b)
          /\ (a \o b)[1] = a[1] /\ Behind(a \o b) = Behind(a) \cup Among(b)
      BY <1>l, <2>1, JoinedIs, Zenon
    <2> QED
      BY <1>n, <1>9, <2>2
  <1> DEFINE s == ((a \o b) \o c)
             t == (s \o u) \o m
  <1>11. /\ s \in Seq(WordSet) /\ Len(s) = 1 + Len(b) + Len(c) /\ s[1] = a[1]
         /\ Behind(s) = Among(b) \cup Among(c) /\ Len(s) >= 1
    <2>1. /\ s \in Seq(WordSet) /\ Len(s) = Len(a \o b) + Len(c)
          /\ s[1] = (a \o b)[1] /\ Behind(s) = Behind(a \o b) \cup Among(c)
      BY <1>l, <1>10, JoinedIs, Zenon
    <2> HIDE DEF s
    <2> QED
      BY <1>n, <1>10, <2>1
  <1> HIDE DEF s
  <1>12. /\ s \o u \in Seq(WordSet) /\ Len(s \o u) = 1 + Len(b) + Len(c) + Len(u)
         /\ (s \o u)[1] = a[1] /\ Behind(s \o u) = Among(b) \cup Among(c) \cup Among(u)
         /\ Len(s \o u) >= 1
    <2>1. /\ s \o u \in Seq(WordSet) /\ Len(s \o u) = Len(s) + Len(u)
          /\ (s \o u)[1] = s[1] /\ Behind(s \o u) = Behind(s) \cup Among(u)
      BY <1>l, <1>11, JoinedIs, Zenon
    <2> QED
      BY <1>n, <1>11, <2>1
  <1>13. /\ t \in Seq(WordSet) /\ Len(t) = 2 + Len(b) + Len(c) + Len(u) /\ t[1] = a[1]
         /\ Behind(t) = Among(b) \cup Among(c) \cup Among(u) \cup Among(m)
    <2>1. /\ t \in Seq(WordSet) /\ Len(t) = Len(s \o u) + Len(m)
          /\ t[1] = (s \o u)[1] /\ Behind(t) = Behind(s \o u) \cup Among(m)
      BY <1>l, <1>12, JoinedIs, Zenon
    <2> HIDE DEF t
    <2> QED
      BY <1>n, <1>12, <2>1
  <1> HIDE DEF t
  <1> DEFINE e == r \o q
  <1>14. /\ e \in Seq(WordSet) /\ Len(e) = Len(r) + Len(q)
              /\ Among(e) \subseteq EndWords
    BY <1>6, <1>7, JoinedIs
  <1>15. (t \o r) \o q = t \o e
    <2>1. r \in Seq(WordSet) /\ q \in Seq(WordSet)
      BY <1>6, <1>7
    <2>2. \A x, y, z \in Seq(WordSet) : (x \o y) \o z = x \o (y \o z)
      BY ConcatAssociative
    <2>3. t \in Seq(WordSet)
      BY <1>13
    <2> HIDE DEF r, q
    <2> QED
      BY <2>1, <2>2, <2>3
  <1>16. Printed(d) = t \o e
    BY <1>8, <1>15 DEF t, s
  <1> HIDE DEF e
  <1> DEFINE p == t \o e
             n == Len(t)
  <1>x. (Len(r) > 0 <=> ~d.alias) /\ (Len(q) > 0 <=> d.irq)
    BY <1>6, <1>7, Zenon
  <1>17. n \in 2..7 /\ Len(e) \in 0..3 /\ (Len(e) > 0 <=> ~d.alias \/ d.irq)
    <2>a. \A i \in 0..1, j \in 0..3, k \in 0..1 : 2 + i + j + k \in 2..7
      OBVIOUS
    <2>1. n \in 2..7
      BY <1>n, <1>13, <2>a, Zenon
    <2>2. Len(e) = Len(r) + Len(q) /\ Len(r) \in 0..2 /\ Len(q) \in 0..1
      BY <1>n, <1>14, Zenon
    <2>b. \A i \in 0..2, j \in 0..1 : \A k :
            k = i + j => k \in 0..3 /\ (k > 0 <=> i > 0 \/ j > 0)
      OBVIOUS
    <2>3. Len(e) \in 0..3 /\ (Len(e) > 0 <=> Len(r) > 0 \/ Len(q) > 0)
      BY <2>2, <2>b, Zenon
    <2> QED
      BY <1>x, <2>1, <2>3, Zenon
  <1>18. /\ p \in Seq(WordSet) /\ Len(p) = n + Len(e)
         /\ \A i \in 1..(n + Len(e)) : p[i] = IF i <= n THEN t[i] ELSE e[i - n]
    <2>1. t \in Seq(WordSet) /\ e \in Seq(WordSet)
      BY <1>13, <1>14
    <2> QED
      BY <2>1, ConcatProperties, Zenon
  <1> HIDE DEF p
  <1>19. {p[i] : i \in 2..n} = Filling(d)
    <2>1. {p[i] : i \in 2..n} = Behind(t)
      BY <1>17, <1>18 DEF Behind
    <2>2. Behind(t) = Filling(d)
      BY <1>2, <1>3, <1>4, <1>5, <1>13, Zenon DEF Filling
    <2> QED
      BY <2>1, <2>2
  <1>20. \A i \in (n + 1)..Len(p) : p[i] \in EndWords
    <2> TAKE i \in (n + 1)..Len(p)
    <2>1. i \in 1..(n + Len(e)) /\ ~(i <= n) /\ i - n \in 1..Len(e)
      BY <1>17, <1>18
    <2>2. p[i] = e[i - n] /\ e[i - n] \in Among(e)
      BY <1>18, <2>1 DEF Among
    <2> QED
      BY <1>14, <2>2
  <1>21. Len(p) \in 2..10 /\ n \in 2..Len(p) /\ (n < Len(p) <=> ~d.alias \/ d.irq)
    <2>1. n \in 2..7 /\ Len(e) \in 0..3 /\ Len(p) = n + Len(e)
      BY <1>17, <1>18
    <2> HIDE DEF n
    <2>a. \A i \in 2..7, j \in 0..3 :
            i + j \in 2..10 /\ i \in 2..(i + j) /\ (i < i + j <=> j > 0)
      OBVIOUS
    <2>2. Len(p) \in 2..10 /\ n \in 2..Len(p) /\ (n < Len(p) <=> Len(e) > 0)
      BY <2>1, <2>a, Zenon
    <2> QED
      BY <1>17, <2>2, Zenon
  <1>22. p[1] = Word("name", d.name)
    BY <1>1, <1>13, <1>17, <1>18
  <1> HIDE DEF n
  <1>23. PrintedSo(p, d)
    BY <1>18, <1>19, <1>20, <1>21, <1>22 DEF PrintedSo
  <1> QED
    BY <1>16, <1>23 DEF p

-----------------------------------------------------------------------------
(* What is printed about a list of devices, and the table that tells it.   *)

(* A list of devices.                                                      *)
LEMMA ListIs ==
  ASSUME NEW l \in Lists
  PROVE  /\ Len(l) \in 0..MaxDevices /\ \A i \in 1..Len(l) : l[i] \in Device
         /\ DOMAIN l = 1..Len(l) /\ (l = <<>> <=> Len(l) = 0)
  <1>1. PICK n \in 0..MaxDevices : l \in [1..n -> Device]
    BY DEF Lists
  <1>2. n \in Nat /\ l \in Seq(Device)
    BY <1>1, TableAssumption
  <1>3. Len(l) = n /\ DOMAIN l = 1..n
    BY <1>1, <1>2
  <1>4. l = <<>> <=> Len(l) = 0
    BY <1>2, EmptySeq
  <1> QED
    BY <1>1, <1>3, <1>4

(* The recursive function of FileOf exists: a device more is what is       *)
(* printed about it.                                                       *)
LEMMA FileSteps ==
  ASSUME NEW l \in Lists
  PROVE  /\ FileOf(l, 0) = <<>>
         /\ \A n \in 0..Len(l) : FileOf(l, n) \in Seq(WordSet)
         /\ \A n \in 1..Len(l) : FileOf(l, n) = FileOf(l, n - 1) \o Printed(l[n])
  <1> DEFINE N == Len(l)
             S == Seq(WordSet)
             step == [i \in 1..N |-> [s \in S |-> s \o Printed(l[i])]]
  <1>1. N \in Nat /\ \A i \in 1..N : l[i] \in Device
    BY ListIs
  <1>2. <<>> \in S
    OBVIOUS
  <1>3. \A i \in 1..N : \A s \in S : s \o Printed(l[i]) \in S
    <2> TAKE i \in 1..N
    <2> TAKE s \in S
    <2>1. Printed(l[i]) \in S
      BY <1>1, PrintedIs DEF PrintedSo
    <2> QED
      BY <2>1, JoinedIs
  <1>4. step \in [1..N -> [S -> S]]
    BY <1>3
  <1>5. \A i \in 1..N : \A s \in S : step[i][s] = s \o Printed(l[i])
    OBVIOUS
  <1> HIDE DEF step, S, N
  <1>6. PICK f : Made(f, S, <<>>, step, N)
    BY <1>1, <1>2, <1>4, ByTurns
  <1>7. f \in [0..N -> S] /\ f[0] = <<>>
    BY <1>6 DEF Made
  <1>8. \A i \in 1..N : f[i] = f[i - 1] \o Printed(l[i])
    <2> TAKE i \in 1..N
    <2>1. f[i] = step[i][f[i - 1]] /\ i - 1 \in 0..N
      BY <1>1, <1>6 DEF Made
    <2>2. f[i - 1] \in S
      BY <1>7, <2>1
    <2> QED
      BY <1>5, <2>1, <2>2
  <1> DEFINE g == [i \in 0..N |-> IF i = 0 THEN <<>> ELSE f[i - 1] \o Printed(l[i])]
             W(h) == h = [i \in 0..N |-> IF i = 0 THEN <<>>
                                         ELSE h[i - 1] \o Printed(l[i])]
  <1>9. f = g
    <2>1. \A i \in 0..N : f[i] = g[i]
      <3> TAKE i \in 0..N
      <3>1. i = 0 \/ i \in 1..N
        BY <1>1
      <3> QED
        BY <1>7, <1>8, <3>1
    <2> QED
      BY <1>7, <2>1
  <1>10. W(f)
    BY <1>9
  <1> DEFINE c == CHOOSE h : W(h)
  <1>11. W(c)
    <2> HIDE DEF W
    <2> QED
      BY <1>10
  <1>12. \A n : FileOf(l, n) = c[n]
    BY DEF FileOf, N
  <1> HIDE DEF c
  <1>13. c[0] = <<>> /\ \A i \in 1..N : c[i] = c[i - 1] \o Printed(l[i])
    <2>1. 0 \in 0..N /\ \A i \in 1..N : i \in 0..N /\ i # 0
      BY <1>1
    <2> QED
      BY <1>11, <2>1
  <1> HIDE DEF W, g
  <1>14. \A i \in 0..N : c[i] \in S
    <2> DEFINE P == {i \in 0..N : c[i] \in S}
    <2>1. 0 \in P
      BY <1>1, <1>2, <1>13
    <2>2. ASSUME NEW k \in 1..N, k - 1 \in P PROVE k \in P
      <3>1. c[k - 1] \in S /\ k \in 0..N
        BY <1>1, <2>2
      <3>3. c[k] = c[k - 1] \o Printed(l[k])
        BY <1>13
      <3>2. c[k] \in S
        BY <1>3, <3>1, <3>3, Zenon
      <3> QED
        BY <3>1, <3>2
    <2> HIDE DEF P
    <2>3. 0..N \subseteq P
      BY <1>1, <2>1, <2>2, UpTo
    <2> QED
      BY <2>3 DEF P
  <1> QED
    BY <1>12, <1>13, <1>14 DEF N, S

(* And that of TableOf.                                                    *)
LEMMA TableSteps ==
  ASSUME NEW l \in Lists
  PROVE  /\ TableOf(l, 0) = <<>>
         /\ \A n \in 0..Len(l) : TableOf(l, n) \in Seq(TableRows)
         /\ \A n \in 1..Len(l) :
              TableOf(l, n) = IF l[n].known THEN Append(TableOf(l, n - 1), Entry(l[n]))
                              ELSE TableOf(l, n - 1)
  <1> DEFINE N == Len(l)
             S == Seq(TableRows)
             Step(i, s) == IF l[i].known THEN Append(s, Entry(l[i])) ELSE s
             step == [i \in 1..N |-> [s \in S |-> Step(i, s)]]
  <1>1. N \in Nat /\ \A i \in 1..N : l[i] \in Device
    BY ListIs
  <1>2. <<>> \in S
    OBVIOUS
  <1>3. \A i \in 1..N : \A s \in S : Step(i, s) \in S
    <2> TAKE i \in 1..N
    <2> TAKE s \in S
    <2>1. Entry(l[i]) \in TableRows
      BY <1>1, TableAssumption DEF Entry, TableRows
    <2> QED
      BY <2>1
  <1> HIDE DEF Step
  <1>4. step \in [1..N -> [S -> S]]
    BY <1>3
  <1>5. \A i \in 1..N : \A s \in S : step[i][s] = Step(i, s)
    OBVIOUS
  <1> HIDE DEF step, S, N
  <1>6. PICK f : Made(f, S, <<>>, step, N)
    BY <1>1, <1>2, <1>4, ByTurns
  <1>7. f \in [0..N -> S] /\ f[0] = <<>>
    BY <1>6 DEF Made
  <1>8. \A i \in 1..N : f[i] = Step(i, f[i - 1])
    <2> TAKE i \in 1..N
    <2>1. f[i] = step[i][f[i - 1]] /\ i - 1 \in 0..N
      BY <1>1, <1>6 DEF Made
    <2>2. f[i - 1] \in S
      BY <1>7, <2>1
    <2> QED
      BY <1>5, <2>1, <2>2
  <1> DEFINE g == [i \in 0..N |-> IF i = 0 THEN <<>> ELSE Step(i, f[i - 1])]
             W(h) == h = [i \in 0..N |-> IF i = 0 THEN <<>> ELSE Step(i, h[i - 1])]
  <1>9. f = g
    <2>1. \A i \in 0..N : f[i] = g[i]
      <3> TAKE i \in 0..N
      <3>1. i = 0 \/ i \in 1..N
        BY <1>1
      <3> QED
        BY <1>7, <1>8, <3>1
    <2> QED
      BY <1>7, <2>1
  <1>10. W(f)
    BY <1>9
  <1> DEFINE c == CHOOSE h : W(h)
  <1>11. W(c)
    <2> HIDE DEF W
    <2> QED
      BY <1>10
  <1>12. \A n : TableOf(l, n) = c[n]
    BY DEF TableOf, N, Step
  <1> HIDE DEF c
  <1>13. c[0] = <<>> /\ \A i \in 1..N : c[i] = Step(i, c[i - 1])
    <2>1. 0 \in 0..N /\ \A i \in 1..N : i \in 0..N /\ i # 0
      BY <1>1
    <2> QED
      BY <1>11, <2>1
  <1> HIDE DEF W, g
  <1>14. \A i \in 0..N : c[i] \in S
    <2> DEFINE P == {i \in 0..N : c[i] \in S}
    <2>1. 0 \in P
      BY <1>1, <1>2, <1>13
    <2>2. \A k \in 1..N : k - 1 \in P => k \in P
      BY <1>1, <1>3, <1>13
    <2> HIDE DEF P
    <2>3. 0..N \subseteq P
      BY <1>1, <2>1, <2>2, UpTo
    <2> QED
      BY <2>3 DEF P
  <1> QED
    BY <1>12, <1>13, <1>14 DEF N, S, Step

(* Where the words about one device are in the file.                       *)
LEMMA FileParts ==
  ASSUME NEW l \in Lists, NEW n \in 1..Len(l)
  PROVE  LET p == Printed(l[n])
             c == Len(FileOf(l, n - 1))
             all == FileOf(l, Len(l))
         IN  /\ c \in Nat /\ Len(p) \in Nat /\ Len(all) \in Nat
             /\ Len(FileOf(l, n)) = c + Len(p) /\ c + Len(p) <= Len(all)
             /\ \A j \in 1..Len(p) : all[c + j] = p[j]
  <1> DEFINE p == Printed(l[n])
             N == Len(l)
             c == Len(FileOf(l, n - 1))
             FileTo(i) == FileOf(l, i)
             Is(s) == /\ s \in Seq(WordSet) /\ c + Len(p) <= Len(s)
                      /\ \A j \in 1..Len(p) : s[c + j] = p[j]
  <1>1. N \in Nat /\ \A i \in 1..N : l[i] \in Device
    BY ListIs
  <1>2. n \in 1..N /\ n - 1 \in 0..N
    BY <1>1
  <1>3. \A i \in 0..N : FileTo(i) \in Seq(WordSet)
    BY FileSteps
  <1>4. \A i \in 1..N : FileTo(i) = FileTo(i - 1) \o Printed(l[i])
    BY FileSteps
  <1>5. \A i \in 1..N : Printed(l[i]) \in Seq(WordSet)
    BY <1>1, PrintedIs, Zenon DEF PrintedSo
  <1>6. FileTo(n - 1) \in Seq(WordSet) /\ p \in Seq(WordSet)
          /\ FileTo(n) = FileTo(n - 1) \o p
    BY <1>2, <1>3, <1>4, <1>5
  <1>7. c \in Nat /\ Len(p) \in Nat
    BY <1>6
  <1>8. Is(FileTo(n)) /\ Len(FileTo(n)) = c + Len(p)
    <2> DEFINE s == FileTo(n - 1)
               u == FileTo(n)
    <2>1. s \in Seq(WordSet) /\ p \in Seq(WordSet) /\ u = s \o p /\ c = Len(s)
      BY <1>6
    <2> HIDE DEF p, c, s, u
    <2>2. /\ u \in Seq(WordSet) /\ Len(u) = Len(s) + Len(p)
          /\ \A j \in 1..Len(p) : u[j + Len(s)] = p[j]
      <3>1. IsJoined(u, s, p)
        BY <2>1, TwoParts
      <3> QED
        BY <3>1, Zenon DEF IsJoined
    <2>3. \A j \in 1..Len(p) : j + c = c + j
      BY <1>7
    <2>4. u \in Seq(WordSet) /\ Len(u) = c + Len(p)
            /\ \A j \in 1..Len(p) : u[c + j] = p[j]
      BY <2>1, <2>2, <2>3
    <2> QED
      BY <1>7, <2>4 DEF u
  <1> HIDE DEF c, p, FileTo
  <1>9. ASSUME NEW i \in (n + 1)..N, Is(FileTo(i - 1)) PROVE Is(FileTo(i))
    <2> DEFINE s == FileTo(i - 1)
               q == Printed(l[i])
    <2>1. i \in 1..N
      BY <1>1
    <2>2. q \in Seq(WordSet) /\ FileTo(i) = s \o q
      BY <1>4, <1>5, <2>1
    <2>3. s \in Seq(WordSet) /\ c + Len(p) <= Len(s)
            /\ \A j \in 1..Len(p) : s[c + j] = p[j]
      BY <1>9
    <2> HIDE DEF s, q
    <2>4. /\ FileTo(i) \in Seq(WordSet) /\ Len(FileTo(i)) = Len(s) + Len(q)
          /\ \A j \in 1..Len(s) : FileTo(i)[j] = s[j]
      <3>1. IsJoined(FileTo(i), s, q)
        BY <2>2, <2>3, TwoParts
      <3> QED
        BY <3>1, Zenon DEF IsJoined
    <2>5. Len(s) \in Nat /\ Len(q) \in Nat
      BY <2>2, <2>3
    <2>6. \A j \in 1..Len(p) : c + j \in 1..Len(s)
      BY <1>7, <2>3, <2>5
    <2>7. \A j \in 1..Len(p) : FileTo(i)[c + j] = p[j]
      BY <2>3, <2>4, <2>6
    <2> QED
      BY <1>7, <2>3, <2>4, <2>5, <2>7
  <1> HIDE DEF Is
  <1> DEFINE M == N - n
             P == {k \in 0..M : Is(FileTo(n + k))}
  <1>10. M \in Nat /\ n + 0 = n /\ n + M = N
    BY <1>1
  <1>11. 0 \in P
    BY <1>8, <1>10
  <1>12. \A k \in 1..M : k - 1 \in P => k \in P
    <2> TAKE k \in 1..M
    <2>1. n + k \in (n + 1)..N /\ (n + k) - 1 = n + (k - 1) /\ k \in 0..M
      BY <1>1
    <2> QED
      BY <1>9, <2>1
  <1>13. M \in P
    <2> HIDE DEF P, M
    <2>1. 0..M \subseteq P
      BY <1>10, <1>11, <1>12, UpTo
    <2> QED
      BY <1>10, <2>1
  <1>14. Is(FileTo(N))
    BY <1>10, <1>13
  <1>15. FileTo(N) \in Seq(WordSet) /\ Len(FileTo(N)) \in Nat
    BY <1>14 DEF Is
  <1> QED
    BY <1>7, <1>8, <1>14, <1>15 DEF Is, FileTo, c, p, N

-----------------------------------------------------------------------------
(* One word.                                                               *)

(* A word that fills an entry in, of the right kind and value.             *)
FillsIn(w, d) ==
  \/ w.k = "HWaddr" /\ w.v = d.mac
  \/ w.k = "addr:" /\ w.v = d.addr /\ d.addr # 0
  \/ w.k = "addr:" /\ w.v = 0
  \/ w.k = "Mask:" /\ w.v = d.addr
  \/ w.k = "UP" /\ w.v = TRUE /\ d.up
  \/ w.k = "MTU:" /\ w.v = d.mtu

(* The words that fill in.                                                 *)
LEMMA FillingIs ==
  ASSUME NEW d \in Device, NEW w \in Filling(d) PROVE FillsIn(w, d)
  <1>0. \A k, v : Word(k, v).k = k /\ Word(k, v).v = v
    BY DEF Word
  <1>1. \/ w = Word("HWaddr", d.mac) \/ w = Word("Mask:", d.addr)
        \/ w = Word("addr:", 0) \/ w = Word("MTU:", d.mtu)
        \/ (d.addr # 0 /\ w = Word("addr:", d.addr))
        \/ (d.up /\ w = Word("UP", TRUE))
    BY Zenon DEF Filling
  <1>2. CASE w = Word("HWaddr", d.mac)
    <2>1. w.k = "HWaddr" /\ w.v = d.mac
      BY <1>0, <1>2, Zenon
    <2> QED
      BY <1>2, <2>1, Zenon DEF FillsIn
  <1>3. CASE w = Word("Mask:", d.addr)
    <2>1. w.k = "Mask:" /\ w.v = d.addr
      BY <1>0, <1>3, Zenon
    <2> QED
      BY <1>3, <2>1, Zenon DEF FillsIn
  <1>4. CASE w = Word("addr:", 0)
    <2>1. w.k = "addr:" /\ w.v = 0
      BY <1>0, <1>4, Zenon
    <2> QED
      BY <1>4, <2>1, Zenon DEF FillsIn
  <1>5. CASE w = Word("MTU:", d.mtu)
    <2>1. w.k = "MTU:" /\ w.v = d.mtu
      BY <1>0, <1>5, Zenon
    <2> QED
      BY <1>5, <2>1, Zenon DEF FillsIn
  <1>6. CASE d.addr # 0 /\ w = Word("addr:", d.addr)
    <2>1. w.k = "addr:" /\ w.v = d.addr
      BY <1>0, <1>6, Zenon
    <2> QED
      BY <1>6, <2>1, Zenon DEF FillsIn
  <1>7. CASE d.up /\ w = Word("UP", TRUE)
    <2>1. w.k = "UP" /\ w.v = TRUE
      BY <1>0, <1>7, Zenon
    <2> QED
      BY <1>7, <2>1, Zenon DEF FillsIn
  <1> QED
    BY <1>1, <1>2, <1>3, <1>4, <1>5, <1>6, <1>7

(* What getiftok takes the words about a device for.                       *)
LEMMA Tokens ==
  ASSUME NEW d \in Device, NEW w
  PROVE  /\ w = Word("name", d.name) => getiftok(w) = IF d.known THEN "name" ELSE "skip"
         /\ FillsIn(w, d) => /\ getiftok(w) = w.k /\ w.k \notin Ending
                             /\ w.k \in {"HWaddr", "addr:", "Mask:", "UP", "MTU:"}
         /\ w \in EndWords => getiftok(w) = "clear" /\ w.k \in Ending
         /\ w = Word("name", d.name) => w.k \notin Ending
  <1>0. \A k, v : Word(k, v).k = k /\ Word(k, v).v = v
    BY DEF Word
  <1>1. ASSUME w = Word("name", d.name)
        PROVE  /\ getiftok(w) = IF d.known THEN "name" ELSE "skip"
               /\ w.k \notin Ending
    <2>1. w.k = "name" /\ w.v = d.name
      BY <1>0, <1>1
    <2>2. KnownDevice(d.name) <=> d.known
      BY TableAssumption, Zenon DEF KnownDevice
    <2>3. getiftok(w) = IF KnownDevice(w.v) THEN "name" ELSE "skip"
      BY <2>1 DEF getiftok
    <2> QED
      BY <2>1, <2>2, <2>3 DEF Ending
  <1>2. ASSUME FillsIn(w, d)
        PROVE  /\ getiftok(w) = w.k /\ w.k \notin Ending
               /\ w.k \in {"HWaddr", "addr:", "Mask:", "UP", "MTU:"}
    <2>1. w.k \in {"HWaddr", "addr:", "Mask:", "UP", "MTU:"}
      BY <1>2, Zenon DEF FillsIn
    <2> QED
      BY <2>1 DEF getiftok, Ending
  <1>3. ASSUME w \in EndWords PROVE getiftok(w) = "clear" /\ w.k \in Ending
    <2>1. w.k \in Ending
      <3>1. \/ w = Word("RX", 0) \/ w = Word("TX", 0)
            \/ w = Word("Interrupt:", 0)
        BY <1>3, Zenon DEF EndWords
      <3>2. w.k = "RX" \/ w.k = "TX" \/ w.k = "Interrupt:"
        <4>1. CASE w = Word("RX", 0)
          BY <1>0, <4>1, Zenon
        <4>2. CASE w = Word("TX", 0)
          BY <1>0, <4>2, Zenon
        <4>3. CASE w = Word("Interrupt:", 0)
          BY <1>0, <4>3, Zenon
        <4> QED
          BY <3>1, <4>1, <4>2, <4>3
      <3> QED
        BY <3>2, Zenon DEF Ending
    <2> QED
      BY <2>1 DEF getiftok, Ending
  <1> QED
    BY <1>1, <1>2, <1>3

(* What a filled in entry is.                                              *)
LEMMA FilledRow ==
  ASSUME NEW d \in Device, NEW w, FillsIn(w, d), NEW e \in TableRows
  PROVE  LET f == FilledIn(e, w.k, w.v) IN
         /\ f \in TableRows /\ f.name = e.name
         /\ f.mac = IF w.k = "HWaddr" THEN w.v ELSE e.mac
         /\ f.addr = IF w.k = "addr:" /\ w.v # 0 THEN w.v ELSE e.addr
         /\ f.mask = IF w.k = "Mask:" THEN w.v ELSE e.mask
         /\ f.up = IF w.k = "UP" THEN TRUE ELSE e.up
         /\ f.mtu = IF w.k = "MTU:" THEN w.v ELSE e.mtu
  <1> DEFINE f == FilledIn(e, w.k, w.v)
  <1>1. CASE w.k = "HWaddr" /\ w.v = d.mac
    <2>1. f = [e EXCEPT !.mac = w.v]
      BY <1>1 DEF FilledIn
    <2> QED
      BY <1>1, <2>1 DEF TableRows
  <1>2. CASE w.k = "addr:" /\ w.v = d.addr /\ d.addr # 0
    <2>1. f = [e EXCEPT !.addr = w.v]
      BY <1>2 DEF FilledIn
    <2> QED
      BY <1>2, <2>1 DEF TableRows
  <1>3. CASE w.k = "addr:" /\ w.v = 0
    <2>1. f = e
      BY <1>3 DEF FilledIn
    <2> QED
      BY <1>3, <2>1 DEF TableRows
  <1>4. CASE w.k = "Mask:" /\ w.v = d.addr
    <2>1. f = [e EXCEPT !.mask = w.v]
      BY <1>4 DEF FilledIn
    <2> QED
      BY <1>4, <2>1 DEF TableRows
  <1>5. CASE w.k = "UP" /\ w.v = TRUE /\ d.up
    <2>1. f = [e EXCEPT !.up = TRUE]
      BY <1>5 DEF FilledIn
    <2> QED
      BY <1>5, <2>1 DEF TableRows
  <1>6. CASE w.k = "MTU:" /\ w.v = d.mtu
    <2>1. f = [e EXCEPT !.mtu = w.v]
      BY <1>6 DEF FilledIn
    <2> QED
      BY <1>6, <2>1 DEF TableRows
  <1> QED
    BY <1>1, <1>2, <1>3, <1>4, <1>5, <1>6 DEF FillsIn

(* What is missing of an entry after one more word.                        *)
LEMMA OneWordMore ==
  ASSUME NEW d \in Device, NEW k \in Nat, NEW e \in TableRows, Partly(e, d, k),
         k + 1 \in 1..Len(Printed(d)), Len(Printed(d)) \in Nat,
         NEW f \in TableRows,
         LET w == Printed(d)[k + 1] IN
         \/ FillsIn(w, d) /\ f = FilledIn(e, w.k, w.v)
         \/ w \in EndWords /\ f = e
  PROVE  Partly(f, d, k + 1)
  <1> DEFINE p == Printed(d)
             w == p[k + 1]
             N == Len(p)
             Later(x, j) == \E i \in (j + 1)..N : p[i].k = x
             AddrToCome(j) == d.addr # 0
               /\ \E i \in (j + 1)..N : p[i] = Word("addr:", d.addr)
  <1>0. N \in Nat /\ k \in Nat
    OBVIOUS
  <1>1. \A x : Later(x, k) => w.k = x \/ Later(x, k + 1)
    <2> HIDE DEF p, N
    <2>1. \A i \in (k + 1)..N : i = k + 1 \/ i \in ((k + 1) + 1)..N
      BY <1>0
    <2> QED
      BY <2>1, Zenon
  <1>2. AddrToCome(k) => (d.addr # 0 /\ w = Word("addr:", d.addr)) \/ AddrToCome(k + 1)
    <2> HIDE DEF p, N
    <2>1. \A i \in (k + 1)..N : i = k + 1 \/ i \in ((k + 1) + 1)..N
      BY <1>0
    <2> QED
      BY <2>1, Zenon
  <1>3. Word("addr:", d.addr).k = "addr:" /\ Word("addr:", d.addr).v = d.addr
    BY DEF Word
  <1>4. /\ e.name = d.name /\ (e.mac = d.mac \/ Later("HWaddr", k))
        /\ (e.addr = d.addr \/ AddrToCome(k)) /\ (e.mask = d.addr \/ Later("Mask:", k))
        /\ (e.up = d.up \/ Later("UP", k)) /\ (e.mtu = d.mtu \/ Later("MTU:", k))
    BY Zenon DEF Partly
  <1>5. SUFFICES
          /\ f.name = d.name /\ (f.mac = d.mac \/ Later("HWaddr", k + 1))
          /\ (f.addr = d.addr \/ AddrToCome(k + 1))
               /\ (f.mask = d.addr \/ Later("Mask:", k + 1))
          /\ (f.up = d.up \/ Later("UP", k + 1))
               /\ (f.mtu = d.mtu \/ Later("MTU:", k + 1))
    BY Zenon DEF Partly
  <1>6. d.up \in BOOLEAN
    BY TableAssumption
  <1> HIDE DEF Later, AddrToCome
  <1>7. (FillsIn(w, d) /\ f = FilledIn(e, w.k, w.v)) \/ (w \in EndWords /\ f = e)
    OBVIOUS
  <1> HIDE DEF p, N, w
  <1>8. CASE FillsIn(w, d) /\ f = FilledIn(e, w.k, w.v)
    <2>1. /\ f.name = e.name
          /\ f.mac = IF w.k = "HWaddr" THEN w.v ELSE e.mac
          /\ f.addr = IF w.k = "addr:" /\ w.v # 0 THEN w.v ELSE e.addr
          /\ f.mask = IF w.k = "Mask:" THEN w.v ELSE e.mask
          /\ f.up = IF w.k = "UP" THEN TRUE ELSE e.up
          /\ f.mtu = IF w.k = "MTU:" THEN w.v ELSE e.mtu
      BY <1>8, FilledRow, Zenon
    <2>2. /\ (w.k = "HWaddr" => w.v = d.mac) /\ (w.k = "Mask:" => w.v = d.addr)
          /\ (w.k = "UP" => d.up) /\ (w.k = "MTU:" => w.v = d.mtu)
          /\ (w.k = "addr:" => w.v \in {0, d.addr})
      BY <1>8 DEF FillsIn
    <2>3. f.mac = d.mac \/ Later("HWaddr", k + 1)
      BY <1>1, <1>4, <2>1, <2>2, Zenon
    <2>4. f.addr = d.addr \/ AddrToCome(k + 1)
      <3>1. w = Word("addr:", d.addr) => w.k = "addr:" /\ w.v = d.addr
        BY <1>3
      <3> QED
        BY <1>2, <1>4, <2>1, <2>2, <3>1
    <2>5. f.mask = d.addr \/ Later("Mask:", k + 1)
      BY <1>1, <1>4, <2>1, <2>2, Zenon
    <2>6. f.up = d.up \/ Later("UP", k + 1)
      BY <1>1, <1>4, <1>6, <2>1, <2>2, Zenon
    <2>7. f.mtu = d.mtu \/ Later("MTU:", k + 1)
      BY <1>1, <1>4, <2>1, <2>2, Zenon
    <2> QED
      BY <1>4, <2>1, <2>3, <2>4, <2>5, <2>6, <2>7
  <1>9. CASE w \in EndWords /\ f = e
    <2>1. w.k \notin {"HWaddr", "addr:", "Mask:", "UP", "MTU:"}
      <3>1. w.k \in Ending
        BY <1>9, Tokens
      <3> QED
        BY <3>1 DEF Ending
    <2>2. w # Word("addr:", d.addr)
      BY <1>3, <2>1
    <2> QED
      BY <1>1, <1>2, <1>4, <1>9, <2>1, <2>2
  <1> QED
    BY <1>7, <1>8, <1>9

(* An entry begins with what its first word says, and the others are to    *)
(* come.                                                                   *)
LEMMA BeginsBlank ==
  ASSUME NEW d \in Device
  PROVE  Blank(d.name) \in TableRows /\ Partly(Blank(d.name), d, 1)
  <1> DEFINE p == Printed(d)
             b == Blank(d.name)
             Later(x) == \E i \in 2..Len(p) : p[i].k = x
  <1>1. b \in TableRows
    BY DEF Blank, TableRows
  <1>2. /\ b.name = d.name /\ b.mac = 0 /\ b.addr = 0 /\ b.mask = 0 /\ b.up = FALSE
        /\ b.mtu = 0
    BY DEF Blank
  <1>3. PICK m \in 2..Len(p) : {p[i] : i \in 2..m} = Filling(d)
    BY PrintedIs DEF PrintedSo
  <1>4. Len(p) \in Nat
    BY PrintedIs DEF PrintedSo
  <1> HIDE DEF p, b
  <1>5. \A w \in Filling(d) : \E i \in 2..Len(p) : p[i] = w
    <2> TAKE w \in Filling(d)
    <2>1. PICK i \in 2..m : p[i] = w
      BY <1>3
    <2>2. i \in 2..Len(p)
      BY <1>3, <1>4
    <2> QED
      BY <2>1, <2>2
  <1>6. \A k, v : Word(k, v) \in Filling(d) => Later(k)
    <2> TAKE k, v
    <2>1. SUFFICES ASSUME Word(k, v) \in Filling(d) PROVE Later(k)
      OBVIOUS
    <2>2. PICK i \in 2..Len(p) : p[i] = Word(k, v)
      BY <1>5, <2>1
    <2>3. p[i].k = k
      BY <2>2 DEF Word
    <2> QED
      BY <2>2, <2>3
  <1>7. d.mac # 0 => Later("HWaddr")
    <2>1. d.mac # 0 => Word("HWaddr", d.mac) \in Filling(d)
      BY Zenon DEF Filling
    <2> HIDE DEF Later
    <2> QED
      BY <1>6, <2>1
  <1>8. d.addr # 0 => Later("Mask:")
          /\ \E i \in 2..Len(p) : p[i] = Word("addr:", d.addr)
    <2>1. d.addr # 0 => /\ Word("Mask:", d.addr) \in Filling(d)
                        /\ Word("addr:", d.addr) \in Filling(d)
      BY Zenon DEF Filling
    <2>2. d.addr # 0 => Later("Mask:")
      <3> HIDE DEF Later
      <3> QED
        BY <1>6, <2>1
    <2>3. d.addr # 0 => \E i \in 2..Len(p) : p[i] = Word("addr:", d.addr)
      BY <1>5, <2>1, Zenon
    <2> QED
      BY <2>2, <2>3, Zenon
  <1>9. d.up => Later("UP")
    <2>1. d.up => Word("UP", TRUE) \in Filling(d)
      BY Zenon DEF Filling
    <2> HIDE DEF Later
    <2> QED
      BY <1>6, <2>1
  <1>10. Later("MTU:")
    <2>1. Word("MTU:", d.mtu) \in Filling(d)
      BY Zenon DEF Filling
    <2> HIDE DEF Later
    <2> QED
      BY <1>6, <2>1
  <1>11. d.up \in BOOLEAN /\ 1 + 1 = 2
    BY TableAssumption
  <1>12. b.up = d.up \/ Later("UP")
    BY <1>2, <1>9, <1>11
  <1> HIDE DEF Later
  <1>13. Partly(b, d, 1)
    BY <1>2, <1>7, <1>8, <1>10, <1>11, <1>12, Zenon DEF Partly, Later, p
  <1> QED
    BY <1>1, <1>13 DEF b

(* When no word is to come, the entry is what was printed.                 *)
LEMMA NothingMissing ==
  ASSUME NEW d \in Device, NEW e \in TableRows, Partly(e, d, Len(Printed(d))),
         Len(Printed(d)) \in Nat
  PROVE  e = Entry(d)
  <1>1. (Len(Printed(d)) + 1)..Len(Printed(d)) = {}
    OBVIOUS
  <1>2. /\ e.name = d.name /\ e.mac = d.mac /\ e.addr = d.addr /\ e.mask = d.addr
        /\ e.up = d.up /\ e.mtu = d.mtu
    BY <1>1, Zenon DEF Partly
  <1>3. e = [name |-> e.name, mac |-> e.mac, addr |-> e.addr, mask |-> e.mask,
             up |-> e.up, mtu |-> e.mtu]
    BY DEF TableRows
  <1> QED
    BY <1>2, <1>3, Zenon DEF Entry

-----------------------------------------------------------------------------
(* The calls of getifs.                                                    *)

(* What a word does.                                                       *)
LEMMA Stored ==
  ASSUME NEW d \in Device, NEW w, ifs \in Seq(TableRows), rd.name \in BOOLEAN,
         wild \in BOOLEAN, Store(w),
         w = Word("name", d.name) \/ FillsIn(w, d) \/ w \in EndWords
  PROVE  /\ ifs' \in Seq(TableRows) /\ rd'.words = Tail(rd.words)
         /\ rd'.name \in BOOLEAN /\ wild' \in BOOLEAN
         /\ (w = Word("name", d.name) /\ d.known) =>
              /\ ifs' = Append(ifs, Blank(d.name)) /\ Len(ifs') = Len(ifs) + 1
              /\ rd'.name /\ wild' = wild
         /\ (w = Word("name", d.name) /\ ~d.known) =>
              ifs' = ifs /\ rd'.name = rd.name /\ wild' = wild
         /\ w \in EndWords => ifs' = ifs /\ ~rd'.name /\ wild' = wild
         /\ FillsIn(w, d) =>
              /\ rd'.name = rd.name /\ Len(ifs') = Len(ifs)
              /\ ~rd.name \/ ifs = <<>> => ifs' = ifs
              /\ (wild' => wild \/ (rd.name /\ ifs = <<>>))
              /\ \A s \in Seq(TableRows), e \in TableRows :
                   rd.name /\ ifs = Append(s, e)
                     => ifs' = Append(s, FilledIn(e, w.k, w.v))
  <1> DEFINE k == getiftok(w)
             L == Len(ifs)
  <1>0. L \in Nat /\ (ifs # <<>> => L \in 1..L)
    <2>1. ifs # <<>> => L \in Nat \ {0}
      BY EmptySeq
    <2> QED
      BY <2>1
  <1>1. CASE w = Word("name", d.name) /\ d.known
    <2>1. k = "name" /\ w.v = d.name
      BY <1>1, Tokens DEF Word
    <2>2. /\ ifs' = Append(ifs, Blank(d.name))
          /\ rd' = [words |-> Tail(rd.words), name |-> TRUE] /\ wild' = wild
      BY <2>1 DEF Store
    <2>3. Blank(d.name) \in TableRows
      BY BeginsBlank
    <2>4. ifs' \in Seq(TableRows) /\ Len(ifs') = Len(ifs) + 1
      BY <2>2, <2>3
    <2>5. rd'.name = TRUE /\ rd'.words = Tail(rd.words)
      BY <2>2
    <2>6. w \notin EndWords /\ ~FillsIn(w, d)
      BY <2>1, Tokens
    <2> QED
      BY <1>1, <2>2, <2>4, <2>5, <2>6
  <1>2. ASSUME k # "name"
        PROVE  /\ rd'.words = Tail(rd.words) /\ (rd'.name <=> k # "clear" /\ rd.name)
               /\ rd'.name \in BOOLEAN
               /\ ifs' = IF rd.name /\ ifs # <<>>
                         THEN [ifs EXCEPT ![L] = FilledIn(ifs[L], k, w.v)] ELSE ifs
               /\ wild' = (wild
                            \/ (rd.name /\ ifs = <<>> /\ k \notin {"skip", "clear"}))
    <2>1. rd' = [words |-> Tail(rd.words), name |-> k # "clear" /\ rd.name]
      BY <1>2, Zenon DEF Store
    <2>2. rd'.words = Tail(rd.words) /\ rd'.name = (k # "clear" /\ rd.name)
      BY <2>1
    <2>3. ifs' = IF rd.name /\ ifs # <<>>
                 THEN [ifs EXCEPT ![L] = FilledIn(ifs[L], k, w.v)] ELSE ifs
      BY <1>2 DEF Store
    <2>4. wild' = (wild \/ (rd.name /\ ifs = <<>> /\ k \notin {"skip", "clear"}))
      BY <1>2, Zenon DEF Store
    <2> QED
      BY <2>2, <2>3, <2>4, Zenon
  <1>3. ASSUME k \in {"skip", "clear"} PROVE ifs' = ifs /\ wild' = wild
    <2>1. \A e, v : FilledIn(e, k, v) = e
      BY <1>3 DEF FilledIn
    <2>2. [ifs EXCEPT ![L] = ifs[L]] = ifs
      OBVIOUS
    <2>3. k # "name"
      BY <1>3
    <2>4. ifs' = ifs
      BY <1>2, <2>1, <2>2, <2>3
    <2>5. wild' = wild
      BY <1>2, <1>3, <2>3
    <2> QED
      BY <2>4, <2>5
  <1>4. CASE w = Word("name", d.name) /\ ~d.known
    <2>1. k = "skip"
      BY <1>4, Tokens
    <2>2. ifs' = ifs /\ wild' = wild
      BY <1>3, <2>1
    <2>3. rd'.words = Tail(rd.words) /\ rd'.name = rd.name
      BY <1>2, <2>1
    <2>4. w \notin EndWords /\ ~FillsIn(w, d)
      BY <2>1, Tokens DEF Ending
    <2> QED
      BY <1>4, <2>2, <2>3, <2>4
  <1>5. CASE w \in EndWords
    <2>1. k = "clear"
      BY <1>5, Tokens
    <2>2. ifs' = ifs /\ wild' = wild
      BY <1>3, <2>1
    <2>3. rd'.words = Tail(rd.words) /\ ~rd'.name /\ rd'.name \in BOOLEAN
      BY <1>2, <2>1
    <2>4. w # Word("name", d.name) /\ ~FillsIn(w, d)
      BY <2>1, Tokens DEF Ending
    <2> QED
      BY <1>5, <2>2, <2>3, <2>4
  <1>6. CASE FillsIn(w, d)
    <2>1. k = w.k /\ k \in {"HWaddr", "addr:", "Mask:", "UP", "MTU:"}
      BY <1>6, Tokens
    <2>2. /\ rd'.words = Tail(rd.words) /\ (rd'.name <=> rd.name)
               /\ rd'.name \in BOOLEAN
          /\ ifs' = IF rd.name /\ ifs # <<>>
                    THEN [ifs EXCEPT ![L] = FilledIn(ifs[L], w.k, w.v)] ELSE ifs
          /\ wild' = (wild \/ (rd.name /\ ifs = <<>>))
      BY <1>2, <2>1
    <2>3. ifs # <<>> => FilledIn(ifs[L], w.k, w.v) \in TableRows
      <3>1. ifs # <<>> => ifs[L] \in TableRows
        BY <1>0, ElementOfSeq
      <3> QED
        BY <1>6, <3>1, FilledRow
    <2>4. ifs' \in Seq(TableRows) /\ Len(ifs') = Len(ifs)
      BY <1>0, <2>2, <2>3, ExceptSeq
    <2>5. ASSUME NEW s \in Seq(TableRows), NEW e \in TableRows, rd.name,
                 ifs = Append(s, e)
          PROVE  ifs' = Append(s, FilledIn(e, w.k, w.v))
      <3> DEFINE f == FilledIn(e, w.k, w.v)
                 t == Append(s, f)
      <3>1. /\ ifs # <<>> /\ L = Len(s) + 1 /\ ifs[L] = e /\ Len(s) \in Nat
            /\ \A i \in 1..Len(s) : ifs[i] = s[i]
        BY <2>5, AppendProperties
      <3>2. f \in TableRows
        BY <1>6, FilledRow
      <3>3. ifs' = [ifs EXCEPT ![L] = f]
        BY <2>2, <2>5, <3>1
      <3> HIDE DEF f
      <3>4. /\ t \in Seq(TableRows) /\ Len(t) = Len(s) + 1 /\ t[Len(s) + 1] = f
            /\ \A i \in 1..Len(s) : t[i] = s[i]
        BY <3>2, AppendProperties
      <3>5. L \in 1..Len(ifs)
        BY <1>0, <3>1
      <3>6. /\ Len(ifs') = L /\ ifs' \in Seq(TableRows)
            /\ \A i \in 1..L : ifs'[i] = IF i = L THEN f ELSE ifs[i]
        BY <3>2, <3>3, <3>5, ExceptSeq
      <3> HIDE DEF t, L
      <3>7. \A i \in 1..L : ifs'[i] = t[i]
        <4> TAKE i \in 1..L
        <4>1. i = L \/ i \in 1..Len(s)
          BY <3>1
        <4>2. i \in 1..Len(s) => i # L
          BY <3>1
        <4> QED
          BY <3>1, <3>4, <3>6, <4>1, <4>2
      <3>8. ifs' = t
        BY <3>1, <3>4, <3>6, <3>7, SeqEqual
      <3> QED
        BY <3>8 DEF t, f
    <2>6. w # Word("name", d.name) /\ w \notin EndWords
      BY <2>1, Tokens
    <2>7. wild' \in BOOLEAN /\ (wild' => wild \/ (rd.name /\ ifs = <<>>))
      BY <2>2
    <2>8. ~rd.name \/ ifs = <<>> => ifs' = ifs
      BY <2>2
    <2> QED
      BY <1>6, <2>2, <2>4, <2>5, <2>6, <2>7, <2>8
  <1> QED
    BY <1>1, <1>4, <1>5, <1>6

(* The words about a device, by their places.                              *)
LEMMA WordAt ==
  ASSUME NEW d \in Device
  PROVE  LET p == Printed(d) IN
         /\ Len(p) \in 2..10 /\ p[1] = Word("name", d.name)
         /\ \E m \in 2..Len(p) :
              /\ \A i \in 2..m : FillsIn(p[i], d)
              /\ \A i \in (m + 1)..Len(p) : p[i] \in EndWords
              /\ \A k \in 1..Len(p) : (\A i \in 1..k : p[i].k \notin Ending) <=> k <= m
              /\ m = Len(p) => d.alias /\ ~d.irq
  <1> DEFINE p == Printed(d)
  <1>1. PrintedSo(p, d)
    BY PrintedIs
  <1> HIDE DEF p
  <1>2. PICK m \in 2..Len(p) :
          /\ {p[i] : i \in 2..m} = Filling(d)
          /\ \A i \in (m + 1)..Len(p) : p[i] \in EndWords
          /\ m < Len(p) <=> ~d.alias \/ d.irq
    BY <1>1 DEF PrintedSo
  <1>3. Len(p) \in 2..10 /\ p[1] = Word("name", d.name)
    BY <1>1 DEF PrintedSo
  <1>4. \A i \in 2..m : FillsIn(p[i], d)
    BY <1>2, FillingIs
  <1>5. m = Len(p) => d.alias /\ ~d.irq
    <2>1. d.alias \in BOOLEAN /\ d.irq \in BOOLEAN
      BY TableAssumption
    <2>2. m = Len(p) => ~(m < Len(p))
      BY <1>2, <1>3
    <2> QED
      BY <1>2, <2>1, <2>2
  <1>6. \A i \in 1..m : p[i].k \notin Ending
    <2> TAKE i \in 1..m
    <2>1. i = 1 \/ i \in 2..m
      BY <1>2
    <2> QED
      BY <1>3, <1>4, <2>1, Tokens
  <1>7. \A i \in (m + 1)..Len(p) : p[i].k \in Ending
    BY <1>2, Tokens
  <1>8. \A k \in 1..Len(p) : (\A i \in 1..k : p[i].k \notin Ending) <=> k <= m
    <2> TAKE k \in 1..Len(p)
    <2>1. CASE k <= m
      <3>1. \A i \in 1..k : i \in 1..m
        BY <1>2, <1>3, <2>1
      <3> QED
        BY <1>6, <2>1, <3>1
    <2>2. CASE ~(k <= m)
      <3>1. k \in 1..k /\ k \in (m + 1)..Len(p)
        BY <1>2, <1>3, <2>2
      <3> QED
        BY <1>7, <2>2, <3>1
    <2> QED
      BY <2>1, <2>2
  <1> QED
    BY <1>2, <1>3, <1>4, <1>5, <1>8 DEF p

(* A word in the middle of what is printed about the device behind n.      *)
LEMMA OneMoreWithin ==
  ASSUME NEW l \in Lists, ~Runs(l), NEW n \in 0..Len(l), n < Len(l), NEW k \in 0..9,
         k < Len(Printed(l[n + 1])),
         IF k = 0 THEN Between(l, n) ELSE Within(l[n + 1], TableOf(l, n), k),
         ifs \in Seq(TableRows), rd.name \in BOOLEAN, wild \in BOOLEAN,
         Store(Printed(l[n + 1])[k + 1])
  PROVE  Within(l[n + 1], TableOf(l, n), k + 1)'
  <1> DEFINE d == l[n + 1]
             p == Printed(d)
             w == p[k + 1]
             s == TableOf(l, n)
  <1>0. /\ Len(l) \in Nat /\ n + 1 \in 1..Len(l) /\ DOMAIN l = 1..Len(l)
        /\ d \in Device /\ d.known \in BOOLEAN
    <2>1. Len(l) \in Nat /\ n + 1 \in 1..Len(l)
      BY ListIs
    <2>2. d \in Device /\ DOMAIN l = 1..Len(l)
      BY <2>1, ListIs
    <2> QED
      BY <2>1, <2>2, TableAssumption
  <1>1. s \in Seq(TableRows)
    BY TableSteps
  <1>2. /\ Len(p) \in 2..10 /\ p[1] = Word("name", d.name)
    BY <1>0, WordAt
  <1>3. PICK m \in 2..Len(p) :
          /\ \A i \in 2..m : FillsIn(p[i], d)
          /\ \A i \in (m + 1)..Len(p) : p[i] \in EndWords
          /\ \A j \in 1..Len(p) : (\A i \in 1..j : p[i].k \notin Ending) <=> j <= m
          /\ m = Len(p) => d.alias /\ ~d.irq
    BY <1>0, WordAt
  <1>4. IF k = 0 THEN Between(l, n) ELSE Within(d, s, k)
    OBVIOUS
  <1>5. Store(w) /\ k \in Nat /\ k + 1 \in 1..Len(p)
    BY <1>2
  <1>6. SUFFICES IF d.known
                 THEN /\ \E e \in TableRows : ifs' = Append(s, e) /\ Partly(e, d, k + 1)
                      /\ rd'.name <=> \A i \in 1..(k + 1) : p[i].k \notin Ending
                 ELSE ifs' = s /\ (~rd'.name \/ ifs' = <<>>)
    BY Zenon DEF Within
  <1>7. Len(p) \in Nat /\ m \in Nat
    BY <1>2
  <1> HIDE DEF d, p, w, s
  <1>8. (\A i \in 1..(k + 1) : p[i].k \notin Ending) <=> k + 1 <= m
    BY <1>3, <1>5
  <1>9. CASE k = 0
    <2>1. w = Word("name", d.name) /\ k + 1 = 1
      BY <1>2, <1>9 DEF w
    <2>2. ifs = s /\ (~rd.name \/ ifs = <<>> \/
                       (n \in DOMAIN l /\ l[n].known /\ l[n].alias /\ ~l[n].irq))
      BY <1>4, <1>9 DEF Between, s
    <2>3. CASE d.known
      <3>1. ifs' = Append(s, Blank(d.name)) /\ rd'.name
        BY <1>0, <1>5, <2>1, <2>2, <2>3, Stored
      <3>2. Blank(d.name) \in TableRows /\ Partly(Blank(d.name), d, k + 1)
        BY <1>0, <2>1, BeginsBlank
      <3>3. k + 1 <= m
        BY <1>3, <1>7, <1>9
      <3> QED
        BY <1>8, <2>3, <3>1, <3>2, <3>3
    <2>4. CASE ~d.known
      <3>1. ifs' = ifs /\ rd'.name = rd.name
        BY <1>0, <1>5, <2>1, <2>4, Stored
      <3>2. ~(n \in DOMAIN l /\ l[n].known /\ l[n].alias /\ ~l[n].irq)
        <4>1. SUFFICES ASSUME n \in DOMAIN l, l[n].known, l[n].alias, ~l[n].irq
                       PROVE  FALSE
          OBVIOUS
        <4>2. n + 1 \in 2..Len(l) /\ (n + 1) - 1 = n
          BY <1>0, <4>1
        <4>3. ~l[n + 1].known
          BY <2>4 DEF d
        <4> QED
          BY <4>1, <4>2, <4>3 DEF Runs
      <3> QED
        BY <2>2, <2>4, <3>1, <3>2
    <2> QED
      BY <1>0, <2>3, <2>4
  <1>10. CASE k # 0
    <2>1. Within(d, s, k) /\ k \in 1..Len(p)
      BY <1>4, <1>5, <1>7, <1>10
    <2>2. FillsIn(w, d) \/ w \in EndWords
      <3>1. k + 1 \in 2..m \/ k + 1 \in (m + 1)..Len(p)
        BY <1>5, <1>7, <1>10
      <3> QED
        BY <1>3, <3>1 DEF w
    <2>3. CASE d.known
      <3>1. PICK e \in TableRows : ifs = Append(s, e) /\ Partly(e, d, k)
        BY <2>1, <2>3 DEF Within
      <3>2. rd.name <=> k <= m
        BY <1>3, <2>1, <2>3 DEF Within, p
      <3>3. CASE k + 1 <= m
        <4>1. FillsIn(w, d) /\ rd.name
          <5>1. k + 1 \in 2..m /\ k <= m
            BY <1>5, <1>7, <1>10, <3>3
          <5> QED
            BY <1>3, <3>2, <5>1 DEF w
        <4> DEFINE f == FilledIn(e, w.k, w.v)
        <4>2. ifs' = Append(s, f) /\ rd'.name = rd.name
          BY <1>0, <1>1, <1>5, <3>1, <4>1, Stored
        <4>3. f \in TableRows
          BY <1>0, <4>1, FilledRow
        <4>4. Partly(f, d, k + 1)
          BY <1>0, <1>5, <1>7, <3>1, <4>1, <4>3, OneWordMore DEF p, w
        <4> QED
          BY <1>8, <2>3, <3>3, <4>1, <4>2, <4>3, <4>4
      <3>4. CASE ~(k + 1 <= m)
        <4>1. w \in EndWords
          <5>1. k + 1 \in (m + 1)..Len(p)
            BY <1>5, <1>7, <3>4
          <5> QED
            BY <1>3, <5>1 DEF w
        <4>2. ifs' = ifs /\ ~rd'.name
          BY <1>0, <1>5, <4>1, Stored
        <4>3. Partly(e, d, k + 1)
          BY <1>0, <1>5, <1>7, <3>1, <4>1, OneWordMore DEF p, w
        <4> QED
          BY <1>8, <2>3, <3>1, <3>4, <4>2, <4>3
      <3> QED
        BY <3>3, <3>4
    <2>4. CASE ~d.known
      <3>1. ifs = s /\ (~rd.name \/ ifs = <<>>)
        BY <2>1, <2>4 DEF Within
      <3>2. ifs' = ifs /\ (rd'.name => rd.name)
        <4>1. CASE FillsIn(w, d)
          BY <1>0, <1>5, <3>1, <4>1, Stored
        <4>2. CASE w \in EndWords
          BY <1>0, <1>5, <4>2, Stored
        <4> QED
          BY <2>2, <4>1, <4>2
      <3> QED
        BY <2>4, <3>1, <3>2
    <2> QED
      BY <1>0, <2>3, <2>4
  <1> QED
    BY <1>9, <1>10

(* All that is printed about a device has been read.                       *)
LEMMA DeviceRead ==
  ASSUME NEW l \in Lists, NEW n \in 0..Len(l), n < Len(l), rd'.name \in BOOLEAN,
         Within(l[n + 1], TableOf(l, n), Len(Printed(l[n + 1])))'
  PROVE  Between(l, n + 1)'
  <1> DEFINE d == l[n + 1]
             p == Printed(d)
             s == TableOf(l, n)
  <1>0. /\ Len(l) \in Nat /\ n + 1 \in 1..Len(l) /\ n + 1 \in DOMAIN l
        /\ d \in Device /\ d.known \in BOOLEAN
    <2>1. Len(l) \in Nat /\ n + 1 \in 1..Len(l)
      BY ListIs
    <2>2. d \in Device /\ DOMAIN l = 1..Len(l)
      BY <2>1, ListIs
    <2> QED
      BY <2>1, <2>2, TableAssumption
  <1>1. TableOf(l, n + 1) = IF d.known THEN Append(s, Entry(d)) ELSE s
    <2>1. (n + 1) - 1 = n
      OBVIOUS
    <2> QED
      BY <1>0, <2>1, TableSteps
  <1>2. Len(p) \in Nat /\ Len(p) \in 1..Len(p)
    BY <1>0, WordAt
  <1>3. CASE d.known
    <2>1. PICK e \in TableRows : ifs' = Append(s, e) /\ Partly(e, d, Len(p))
      BY <1>3 DEF Within
    <2>2. e = Entry(d)
      BY <1>0, <1>2, <2>1, NothingMissing
    <2>3. rd'.name => d.alias /\ ~d.irq
      <3>1. PICK m \in 2..Len(p) :
              /\ \A k \in 1..Len(p) : (\A i \in 1..k : p[i].k \notin Ending) <=> k <= m
              /\ m = Len(p) => d.alias /\ ~d.irq
        BY <1>0, WordAt
      <3>2. rd'.name <=> \A i \in 1..Len(p) : p[i].k \notin Ending
        BY <1>3, Zenon DEF Within
      <3>3. rd'.name <=> Len(p) <= m
        BY <1>2, <3>1, <3>2
      <3>4. Len(p) <= m => m = Len(p)
        BY <1>2, <3>1
      <3> QED
        BY <3>1, <3>3, <3>4
    <2> QED
      BY <1>0, <1>1, <1>3, <2>1, <2>2, <2>3 DEF Between
  <1>4. CASE ~d.known
    BY <1>1, <1>4 DEF Within, Between
  <1> QED
    BY <1>0, <1>3, <1>4

(* Nothing is asked yet: the table is empty.                               *)
LEMMA TableInit == TInit => TInv
  <1> SUFFICES ASSUME TInit PROVE TInv
    OBVIOUS
  <1>1. TTypeOK /\ ifs \in Seq(TableRows) /\ wild \in BOOLEAN /\ ~wild /\ lock = Nobody
    <2>1. ifs = <<>> /\ lock = Nobody /\ asks = 0 /\ ~rd.name /\ rd.name \in BOOLEAN
      BY DEF TInit, Zeroed
    <2>2. ifs \in Seq(TableRows) /\ Len(ifs) = 0
      BY <2>1, EmptySeq
    <2>3. Len(ifs) <= MaxDevices /\ asks \in 0..MaxAsks
      BY <2>1, <2>2, TableAssumption
    <2>4. wild \in BOOLEAN /\ ~wild
      BY DEF TInit
    <2> QED
      BY <2>1, <2>2, <2>3, <2>4 DEF TTypeOK
  <1>2. <<>> \in Lists /\ Len(<<>>) = 0
    <2>1. <<>> \in [1..0 -> Device] /\ 0 \in 0..MaxDevices
      BY TableAssumption
    <2> QED
      BY <2>1 DEF Lists
  <1>3. Attributed
    BY <1>1, <1>2, TableSteps DEF TInit, Zeroed, Attributed
  <1> QED
    BY <1>1, <1>3 DEF TInv

(* ifconfig has written the file, and nothing of it is read.               *)
LEMMA AskKeeps ==
  ASSUME TInv, NEW t \in Asker, Ask(t) PROVE TInv'
  <1>1. /\ lock = Nobody /\ asks < MaxAsks /\ asks' = asks + 1 /\ lock' = t
        /\ ifs' = <<>> /\ about' = Nobody /\ wild' = FALSE
    BY DEF Ask, Zeroed
  <1>2. PICK l \in Lists, g \in BOOLEAN :
          /\ file' = [words |-> FileOf(l, Len(l)), of |-> l]
          /\ rd' = [words |-> FileOf(l, Len(l)), name |-> g]
    BY DEF Ask
  <1>3. t # Nobody
    BY TableAssumption
  <1>4. TTypeOK' /\ ifs' \in Seq(TableRows) /\ wild' \in BOOLEAN
    <2>1. rd'.name \in BOOLEAN
      BY <1>2
    <2>2. asks' \in 0..MaxAsks
      BY <1>1, TableAssumption DEF TInv, TTypeOK
    <2>3. ifs' \in Seq(TableRows) /\ Len(ifs') = 0
      BY <1>1, EmptySeq
    <2>4. Len(ifs') <= MaxDevices
      BY <2>3, TableAssumption
    <2>5. lock' \in Asker \cup {Nobody} /\ wild' \in BOOLEAN
      BY <1>1
    <2> QED
      BY <2>1, <2>2, <2>3, <2>4, <2>5 DEF TTypeOK
  <1> DEFINE all == FileOf(l, Len(l))
  <1>5. file'.of = l /\ file'.words = all /\ rd'.words = all
    BY <1>2
  <1>6. Len(l) \in Nat /\ all \in Seq(WordSet) /\ FileOf(l, 0) = <<>>
    BY ListIs, FileSteps
  <1> HIDE DEF all
  <1>7. Len(all) \in Nat /\ SubSeq(all, 0 + 1, Len(all)) = all /\ 0 + 0 = 0
    BY <1>6, SubSeqFull
  <1>8. Between(l, 0)'
    <2>1. TableOf(l, 0) = <<>>
      BY TableSteps
    <2> QED
      BY <1>1, <2>1 DEF Between
  <1>9. Reading'
    <2>1. 0 \in 0..Len(l) /\ 0 \in 0..9 /\ Len(<<>>) = 0
      BY <1>6
    <2>2. LET at == Len(FileOf(l, 0)) + 0 IN
          at <= Len(all) /\ all = SubSeq(all, at + 1, Len(all))
      BY <1>6, <1>7, <2>1
    <2>3. Len(ifs') <= 0 + (IF 0 = 0 THEN 0 ELSE 1)
      BY <1>1, <2>1
    <2> QED
      BY <1>5, <1>7, <1>8, <2>1, <2>2, <2>3 DEF Reading, all
  <1> QED
    BY <1>1, <1>3, <1>4, <1>9 DEF TInv

(* A call that fails leaves the table empty.                               *)
LEMMA AskFailsKeeps ==
  ASSUME TInv, NEW t \in Asker, AskFails(t) PROVE TInv'
  <1>1. /\ lock' = Nobody /\ about' = <<>> /\ ifs = <<>>
        /\ UNCHANGED <<file, ifs, rd, asks, wild>>
    BY DEF AskFails, Unlock, Zeroed
  <1>2. <<>> \in Lists /\ Len(<<>>) = 0
    <2>1. <<>> \in [1..0 -> Device] /\ 0 \in 0..MaxDevices
      BY TableAssumption
    <2> QED
      BY <2>1 DEF Lists
  <1>3. TableOf(<<>>, 0) = <<>>
    BY <1>2, TableSteps
  <1> QED
    BY <1>1, <1>2, <1>3 DEF TInv, TTypeOK, Attributed

(* The file is at its end: all devices are read, so the table tells them.  *)
LEMMA AskEndsKeeps ==
  ASSUME TInv, NEW t \in Asker, AskEnds(t) PROVE TInv'
  <1> DEFINE l == file.of
             all == file.words
  <1>1. /\ lock = t /\ rd.words = <<>> /\ lock' = Nobody /\ about' = l
        /\ UNCHANGED <<file, ifs, rd, asks, wild>>
    BY DEF AskEnds, Unlock
  <1>2. Reading
    BY <1>1, TableAssumption DEF TInv
  <1>3. l \in Lists /\ all = FileOf(l, Len(l))
    BY <1>2 DEF Reading
  <1>4. PICK n \in 0..Len(l), k \in 0..9 :
          /\ k # 0 => n < Len(l) /\ k < Len(Printed(l[n + 1]))
          /\ Len(FileOf(l, n)) + k <= Len(all)
          /\ rd.words = SubSeq(all, Len(FileOf(l, n)) + k + 1, Len(all))
          /\ ~Runs(l) => IF k = 0 THEN Between(l, n)
                         ELSE Within(l[n + 1], TableOf(l, n), k)
    BY <1>2, Zenon DEF Reading
  <1>5. Len(l) \in Nat /\ all \in Seq(WordSet) /\ FileOf(l, n) \in Seq(WordSet)
    <2>1. Len(l) \in Nat
      BY <1>3, ListIs
    <2>2. Len(l) \in 0..Len(l)
      BY <2>1
    <2> QED
      BY <1>3, <2>1, <2>2, FileSteps
  <1> DEFINE at == Len(FileOf(l, n)) + k
  <1> HIDE DEF l, all
  <1>6. at \in Nat /\ Len(all) \in Nat
    BY <1>5
  <1>7. at = Len(all)
    <2>1. SUFFICES ASSUME at < Len(all) PROVE FALSE
      BY <1>4, <1>6
    <2>2. at + 1 \in 1..Len(all)
      BY <1>6, <2>1
    <2>3. \A i \in (at + 1)..Len(all) : all[i] \in WordSet
      <3>1. \A i \in (at + 1)..Len(all) : i \in 1..Len(all)
        BY <1>6
      <3> QED
        BY <1>5, <3>1, ElementOfSeq
    <2> HIDE DEF at
    <2>4. Len(SubSeq(all, at + 1, Len(all))) = Len(all) - (at + 1) + 1
      BY <1>6, <2>2, <2>3, SubSeqProperties
    <2>5. SubSeq(all, at + 1, Len(all)) = <<>>
      BY <1>1, <1>4 DEF at
    <2> QED
      BY <1>6, <2>1, <2>4, <2>5
  <1>8. n = Len(l) /\ k = 0
    <2>1. SUFFICES ASSUME n # Len(l) PROVE FALSE
      BY <1>4, <1>5
    <2>2. n + 1 \in 1..Len(l) /\ (n + 1) - 1 = n
      BY <1>5, <2>1
    <2> DEFINE p == Printed(l[n + 1])
    <2>3. Len(FileOf(l, n)) + Len(p) <= Len(all) /\ Len(p) \in Nat
          /\ Len(FileOf(l, n)) \in Nat
      BY <1>3, <2>2, FileParts DEF all, l
    <2>4. k < Len(p)
      <3>1. l[n + 1] \in Device
        BY <1>3, <2>2, ListIs DEF l
      <3>2. Len(p) \in 2..10
        BY <3>1, WordAt
      <3>3. k # 0 => k < Len(p)
        BY <1>4
      <3>4. \A x \in 2..10, y \in 0..9 : (y # 0 => y < x) => y < x
        OBVIOUS
      <3>5. k \in 0..9
        BY <1>4
      <3> HIDE DEF p
      <3> QED
        BY <3>2, <3>3, <3>4, <3>5, Zenon
    <2> HIDE DEF p
    <2> QED
      BY <1>7, <2>3, <2>4
  <1>9. ~Runs(l) => ifs = TableOf(l, Len(l))
    BY <1>4, <1>8 DEF Between
  <1> QED
    BY <1>1, <1>9 DEF TInv, TTypeOK, Attributed, l

(* One word: the next one about a device, or the last about it.            *)
LEMMA TakeKeeps ==
  ASSUME TInv, NEW t \in Asker, Take(t) PROVE TInv'
  <1>1. /\ lock = t /\ rd.words # <<>> /\ Store(Head(rd.words))
        /\ UNCHANGED <<file, lock, asks, about>>
    BY DEF Take
  <1>2. Reading /\ about = Nobody
    BY <1>1, TableAssumption DEF TInv
  <1>f. PICK l, all : l = file.of /\ all = file.words
    OBVIOUS
  <1>3. l \in Lists /\ all = FileOf(l, Len(l))
    BY <1>2, <1>f DEF Reading
  <1>4. PICK n \in 0..Len(l), k \in 0..9 :
          /\ k # 0 => n < Len(l) /\ k < Len(Printed(l[n + 1]))
          /\ Len(FileOf(l, n)) + k <= Len(all)
          /\ rd.words = SubSeq(all, Len(FileOf(l, n)) + k + 1, Len(all))
          /\ Len(ifs) <= n + (IF k = 0 THEN 0 ELSE 1)
          /\ (l # <<>> /\ l[1].known) => ifs # <<>> \/ n + k = 0
          /\ ~Runs(l) => IF k = 0 THEN Between(l, n)
                         ELSE Within(l[n + 1], TableOf(l, n), k)
    BY <1>2, <1>f, Zenon DEF Reading
  <1>5. /\ Len(l) \in 0..MaxDevices /\ MaxDevices \in Nat /\ Len(l) \in Nat
        /\ (l = <<>> <=> Len(l) = 0)
    BY <1>3, ListIs, TableAssumption
  <1>6. all \in Seq(WordSet) /\ FileOf(l, n) \in Seq(WordSet)
    <2>1. Len(l) \in 0..Len(l)
      BY <1>5
    <2> QED
      BY <1>3, <2>1, FileSteps
  <1> DEFINE c == Len(FileOf(l, n))
             d == l[n + 1]
             p == Printed(d)
             w == p[k + 1]
             K == k + 1
  <1>7. c \in Nat /\ Len(all) \in Nat /\ k \in Nat /\ n \in Nat
    BY <1>5, <1>6
  <1>8. c + K <= Len(all) /\ c + K \in 1..Len(all)
    <2> HIDE DEF c
    <2>1. SUFFICES ASSUME Len(all) < c + k + 1 PROVE FALSE
      BY <1>7
    <2>2. SubSeq(all, c + k + 1, Len(all)) = <<>>
      BY <1>7, <2>1, SubSeqEmpty
    <2> QED
      BY <1>1, <1>4, <2>2 DEF c
  <1>9. n < Len(l) /\ n + 1 \in 1..Len(l) /\ (n + 1) - 1 = n
    <2>1. CASE k # 0
      BY <1>4, <1>5, <2>1
    <2>2. CASE k = 0
      <3>1. n # Len(l)
        <4>1. SUFFICES ASSUME n = Len(l) PROVE FALSE
          OBVIOUS
        <4>2. c = Len(all)
          BY <1>3, <4>1
        <4> QED
          BY <1>7, <1>8, <2>2, <4>2
      <3> QED
        BY <1>5, <3>1
    <2> QED
      BY <2>1, <2>2
  <1>10. d \in Device /\ d.known \in BOOLEAN
    <2>1. d \in Device
      BY <1>3, <1>9, ListIs
    <2> QED
      BY <2>1, TableAssumption
  <1>11. Len(p) \in 2..10 /\ p[1] = Word("name", d.name)
    BY <1>10, WordAt
  <1>12. k < Len(p) /\ K \in 1..Len(p) /\ Len(p) \in Nat
    <2> HIDE DEF p
    <2>1. k < Len(p)
      BY <1>4, <1>11 DEF p
    <2> QED
      BY <1>7, <1>11, <2>1
  <1>13. /\ Len(FileOf(l, n + 1)) = c + Len(p) /\ c + Len(p) <= Len(all)
         /\ \A j \in 1..Len(p) : all[c + j] = p[j]
    <2>1. ASSUME NEW i \in 1..Len(l)
          PROVE  LET q == Printed(l[i])
                     b == Len(FileOf(l, i - 1))
                 IN  /\ Len(FileOf(l, i)) = b + Len(q) /\ b + Len(q) <= Len(all)
                     /\ \A j \in 1..Len(q) : all[b + j] = q[j]
      BY <1>3, FileParts, Zenon
    <2> HIDE DEF c, p
    <2> QED
      BY <1>9, <2>1 DEF c, p, d
  <1>14. Head(rd.words) = w /\ Tail(rd.words) = SubSeq(all, c + K + 1, Len(all))
    <2>1. c + K \in 1..Len(all) /\ Len(all) \in (c + K)..Len(all) /\ c + k + 1 = c + K
      BY <1>7, <1>8
    <2>2. rd.words = SubSeq(all, c + K, Len(all))
      BY <1>4, <2>1
    <2> HIDE DEF c, K
    <2>3. /\ Head(SubSeq(all, c + K, Len(all))) = all[c + K]
          /\ Tail(SubSeq(all, c + K, Len(all))) = SubSeq(all, c + K + 1, Len(all))
      BY <1>6, <2>1, HeadTailOfSubSeq
    <2>4. all[c + K] = p[K]
      BY <1>12, <1>13
    <2> QED
      BY <2>2, <2>3, <2>4 DEF K
  <1>15. ifs \in Seq(TableRows) /\ rd.name \in BOOLEAN /\ wild \in BOOLEAN
         /\ Len(ifs) \in Nat
    BY DEF TInv, TTypeOK
  <1>16. \/ w = Word("name", d.name) /\ k = 0
         \/ FillsIn(w, d) /\ k # 0
         \/ w \in EndWords /\ k # 0
    <2>1. CASE k = 0
      BY <1>11, <2>1
    <2>2. CASE k # 0
      <3>1. PICK m \in 2..Len(p) : /\ \A i \in 2..m : FillsIn(p[i], d)
                                  /\ \A i \in (m + 1)..Len(p) : p[i] \in EndWords
        BY <1>10, WordAt
      <3>2. K \in 2..m \/ K \in (m + 1)..Len(p)
        <4> HIDE DEF p
        <4> QED
          BY <1>7, <1>11, <1>12, <2>2, <3>1
      <3> QED
        BY <2>2, <3>1, <3>2
    <2> QED
      BY <2>1, <2>2
  <1>17. Store(w)
    BY <1>1, <1>14
  <1>18. \/ w = Word("name", d.name) \/ FillsIn(w, d) \/ w \in EndWords
    BY <1>16
  <1>19. ~Runs(l) => Within(d, TableOf(l, n), K)'
    BY <1>3, <1>4, <1>9, <1>12, <1>15, <1>17, OneMoreWithin
  <1> HIDE DEF c, d, p, w
  <1>20. /\ ifs' \in Seq(TableRows) /\ rd'.words = SubSeq(all, c + K + 1, Len(all))
         /\ rd'.name \in BOOLEAN /\ wild' \in BOOLEAN
    BY <1>10, <1>14, <1>15, <1>17, <1>18, Stored
  <1>21. Len(ifs') <= n + 1
    <2>1. CASE w = Word("name", d.name) /\ k = 0
      <3>1. Len(ifs') = Len(ifs) + 1 \/ ifs' = ifs
        BY <1>10, <1>15, <1>17, <2>1, Stored
      <3> QED
        BY <1>4, <1>7, <1>15, <2>1, <3>1
    <2>2. CASE (FillsIn(w, d) \/ w \in EndWords) /\ k # 0
      <3>1. Len(ifs') = Len(ifs)
        <4>1. CASE FillsIn(w, d)
          BY <1>10, <1>15, <1>17, <4>1, Stored
        <4>2. CASE w \in EndWords
          BY <1>10, <1>15, <1>17, <4>2, Stored
        <4> QED
          BY <2>2, <4>1, <4>2
      <3> QED
        BY <1>4, <1>7, <2>2, <3>1
    <2> QED
      BY <1>16, <2>1, <2>2
  <1>22. (l # <<>> /\ l[1].known) => ifs' # <<>>
    <2> SUFFICES ASSUME l # <<>>, l[1].known PROVE ifs' # <<>>
      OBVIOUS
    <2>1. CASE ifs # <<>>
      <3>1. Len(ifs) # 0
        BY <1>15, <2>1, EmptySeq
      <3>2. Len(ifs') >= Len(ifs)
        <4>1. CASE w = Word("name", d.name)
          <5>1. Len(ifs') = Len(ifs) + 1 \/ ifs' = ifs
            BY <1>10, <1>15, <1>17, <4>1, Stored
          <5> QED
            BY <1>15, <5>1
        <4>2. CASE FillsIn(w, d)
          <5>1. Len(ifs') = Len(ifs)
            BY <1>10, <1>15, <1>17, <4>2, Stored
          <5> QED
            BY <1>15, <5>1
        <4>3. CASE w \in EndWords
          BY <1>10, <1>15, <1>17, <4>3, Stored
        <4> QED
          BY <1>18, <4>1, <4>2, <4>3
      <3>3. Len(ifs') # 0
        BY <1>15, <1>20, <3>1, <3>2
      <3> QED
        BY <1>20, <3>3, EmptySeq
    <2>2. CASE ifs = <<>>
      <3>1. n + k = 0
        BY <1>4, <2>2
      <3>2. n = 0 /\ k = 0
        BY <1>7, <3>1
      <3>3. w = Word("name", d.name) /\ d.known
        BY <1>16, <3>2 DEF d
      <3>4. Len(ifs') = Len(ifs) + 1
        BY <1>10, <1>15, <1>17, <3>3, Stored
      <3>5. Len(ifs') # 0
        BY <1>15, <3>4
      <3> QED
        BY <1>20, <3>5, EmptySeq
    <2> QED
      BY <2>1, <2>2
  <1>23. wild' => l # <<>> /\ ~l[1].known
    <2> SUFFICES ASSUME wild' PROVE l # <<>> /\ ~l[1].known
      OBVIOUS
    <2>1. l # <<>>
      BY <1>5, <1>9
    <2>2. CASE wild
      BY <1>f, <2>2 DEF TInv
    <2>3. CASE ~wild
      <3>1. FillsIn(w, d) /\ ifs = <<>>
        <4>1. FillsIn(w, d)
          BY <1>10, <1>15, <1>17, <1>18, <2>3, Stored
        <4> QED
          BY <1>10, <1>15, <1>17, <2>3, <4>1, Stored
      <3>2. k # 0
        <4>1. w # Word("name", d.name)
          <5>1. SUFFICES ASSUME w = Word("name", d.name) PROVE FALSE
            OBVIOUS
          <5>2. w.k = "name"
            BY <5>1 DEF Word
          <5> QED
            BY <1>10, <3>1, <5>2, Tokens
        <4> QED
          BY <1>16, <4>1
      <3>3. n + k # 0
        BY <1>7, <3>2
      <3> QED
        BY <1>4, <2>1, <3>1, <3>3
    <2> QED
      BY <1>15, <2>2, <2>3
  <1>24. file'.of = l /\ file'.words = all
    BY <1>1, <1>f
  <1>25. Reading'
    <2>1. CASE K < Len(p)
      <3>1. K \in 0..9 /\ K # 0 /\ c + K <= Len(all) /\ n \in 0..Len(l)
        <4>1. K \in 0..9 /\ K # 0
          <5>1. \A x \in 2..10, y \in Nat :
                  y + 1 < x => y + 1 \in 0..9 /\ y + 1 # 0
            OBVIOUS
          <5>2. Len(p) \in 2..10 /\ k \in Nat /\ k + 1 < Len(p)
            BY <1>7, <1>11, <2>1
          <5> HIDE DEF p
          <5> QED
            BY <5>1, <5>2, Zenon DEF K
        <4> QED
          BY <1>5, <1>8, <1>9, <4>1
      <3>2. LET at == Len(FileOf(l, n)) + K IN
            at <= Len(all) /\ rd'.words = SubSeq(all, at + 1, Len(all))
        BY <1>20, <3>1 DEF c
      <3>3. Len(ifs') <= n + (IF K = 0 THEN 0 ELSE 1)
        BY <1>21, <3>1
      <3>4. ~Runs(l) => Within(l[n + 1], TableOf(l, n), K)'
        BY <1>19 DEF d
      <3>5. K < Len(Printed(l[n + 1]))
        BY <2>1 DEF p, d
      <3> HIDE DEF K
      <3> QED
        BY <1>3, <1>9, <1>22, <1>24, <3>1, <3>2, <3>3, <3>4, <3>5 DEF Reading
    <2>2. CASE K = Len(p)
      <3>1. n + 1 \in 0..Len(l) /\ 0 \in 0..9 /\ (c + K) + 0 = c + K
        BY <1>7, <1>9
      <3>2. Len(FileOf(l, n + 1)) = c + K
        BY <1>13, <2>2
      <3>3. ~Runs(l) => Between(l, n + 1)'
        <4> SUFFICES ASSUME ~Runs(l) PROVE Between(l, n + 1)'
          OBVIOUS
        <4>1. Within(d, TableOf(l, n), Len(p))'
          BY <1>19, <2>2
        <4> QED
          BY <1>3, <1>9, <1>20, <4>1, DeviceRead DEF d, p
      <3>4. LET at == Len(FileOf(l, n + 1)) + 0 IN
            at <= Len(all) /\ rd'.words = SubSeq(all, at + 1, Len(all))
        BY <1>8, <1>20, <3>1, <3>2
      <3>5. Len(ifs') <= (n + 1) + (IF 0 = 0 THEN 0 ELSE 1)
        BY <1>7, <1>21
      <3> QED
        BY <1>3, <1>22, <1>24, <3>1, <3>3, <3>4, <3>5 DEF Reading
    <2> QED
      BY <1>12, <2>1, <2>2
  <1>26. TTypeOK'
    <2>1. Len(ifs') <= MaxDevices
      <3>1. Len(ifs') \in Nat
        BY <1>20
      <3> QED
        BY <1>5, <1>7, <1>9, <1>21, <3>1
    <2> QED
      BY <1>1, <1>20, <2>1 DEF TInv, TTypeOK
  <1>27. lock' # Nobody /\ about' = Nobody
    BY <1>1, <1>2, TableAssumption
  <1> QED
    BY <1>f, <1>20, <1>23, <1>24, <1>25, <1>26, <1>27 DEF TInv

(* Every step of getifs.                                                   *)
LEMMA TableNext ==
  ASSUME TInv, [TNext]_tvars PROVE TInv'
  <1>1. ASSUME UNCHANGED tvars PROVE TInv'
    <2>1. UNCHANGED <<file, ifs, lock, rd, asks, about, wild>>
      BY <1>1 DEF tvars
    <2>2. Reading' <=> Reading
      BY <2>1 DEF Reading, Between, Within
    <2> QED
      BY <2>1, <2>2 DEF TInv, TTypeOK, Attributed
  <1> QED
    BY <1>1, AskKeeps, AskFailsKeeps, TakeKeeps, AskEndsKeeps DEF TNext

(* The table of getifs has the devices whose names count, in their order   *)
(* and each with what was printed about it, whatever the list of devices,  *)
(* unless an alias without an interrupt stands before a device that is     *)
(* skipped; nothing is stored in front of the table unless such a device   *)
(* is first; and it never has more entries than there are devices.         *)
THEOREM TableTells == TSpec => []DevicesTold
  <1>1. TInv => TTypeOK
    BY DEF TInv
  <1>2. TInv => Attributed
    <2> SUFFICES ASSUME TInv PROVE Attributed
      OBVIOUS
    <2>1. CASE lock = Nobody
      BY <2>1 DEF TInv
    <2>2. CASE lock # Nobody
      BY <2>2 DEF TInv, Attributed
    <2> QED
      BY <2>1, <2>2
  <1>3. TSpec => []TInv
    BY TableInit, TableNext, PTL DEF TSpec
  <1>4. TInv => DevicesTold
    BY <1>1, <1>2 DEF TInv, DevicesTold
  <1> QED
    BY <1>3, <1>4, PTL

-----------------------------------------------------------------------------
(* Configuration files: what the functions make of a text.                 *)

LEMMA TextIs ==
  ASSUME NEW t \in Texts
  PROVE  /\ t.lines \in Seq(LineSet) /\ Len(t.lines) \in Nat
         /\ DOMAIN t.lines = 1..Len(t.lines)
         /\ \A i \in 1..Len(t.lines) : t.lines[i] \in LineSet
         /\ t.open \in BOOLEAN /\ (t.open => Len(t.lines) \in 1..Len(t.lines))
  <1>1. t.lines \in Seq(LineSet) /\ t.open \in BOOLEAN /\ (t.open => t.lines # <<>>)
    BY DEF Texts
  <1> DEFINE s == t.lines
  <1>2. Len(s) \in Nat /\ DOMAIN s = 1..Len(s) /\ s \in [1..Len(s) -> LineSet]
    BY <1>1, LenProperties
  <1>3. s # <<>> => Len(s) # 0
    BY <1>1, EmptySeq
  <1> QED
    BY <1>1, <1>2, <1>3

LEMMA TextMade ==
  ASSUME NEW s \in Seq(LineSet), NEW o \in BOOLEAN, o => Len(s) # 0
  PROVE  Text(s, o) \in Texts /\ Text(s, o).lines = s /\ Text(s, o).open = o
  <1>1. Len(<<>>) = 0
    OBVIOUS
  <1> QED
    BY <1>1 DEF Text, Texts

(* A text made line by line.                                               *)
LEMMA LinesMade ==
  ASSUME NEW n \in Nat, NEW f \in [1..n -> LineSet]
  PROVE  f \in Seq(LineSet) /\ Len(f) = n
  <1>1. f \in Seq(LineSet)
    BY SeqDef
  <1>2. Len(f) \in Nat /\ DOMAIN f = 1..Len(f)
    BY <1>1, LenProperties
  <1>3. DOMAIN f = 1..n
    OBVIOUS
  <1> QED
    BY <1>1, <1>2, <1>3

LEMMA LineTypes ==
  /\ \A x, y \in LineSet : RunInto(x, y) \in LineSet
  /\ \A l \in Label, v \in Val : /\ ConfLine("words", l, v) \in LineSet
                                 /\ ConfLine("spaced", l, v) \in LineSet
                                 /\ ConfLine("eq", l, v) \in LineSet
  /\ Note \in LineSet /\ BlankLine \in LineSet
  <1> USE DEF LineSet, Kind, ConfLine
  <1>1. ASSUME NEW x \in LineSet, NEW y \in LineSet PROVE RunInto(x, y) \in LineSet
    <2>1. [x EXCEPT !.v = "other"] \in LineSet
      OBVIOUS
    <2> QED
      BY <2>1 DEF RunInto
  <1> QED
    BY <1>1 DEF Note, BlankLine

(* A line more: behind the last line, or run into it.                      *)
IsPut(u, t, y) ==
  /\ t.open => /\ Len(u.lines) = Len(t.lines)
               /\ \A i \in 1..Len(t.lines) : i # Len(t.lines) => u.lines[i] = t.lines[i]
               /\ u.lines[Len(t.lines)] = RunInto(t.lines[Len(t.lines)], y)
  /\ ~t.open => /\ Len(u.lines) = Len(t.lines) + 1
                /\ \A i \in 1..Len(t.lines) : u.lines[i] = t.lines[i]
                /\ u.lines[Len(t.lines) + 1] = y

LEMMA PutLineIs ==
  ASSUME NEW t \in Texts, NEW y \in LineSet, NEW o \in BOOLEAN, NEW u,
         u = PutLine(t, y, o)
  PROVE  /\ u \in Texts /\ u.open = o /\ IsPut(u, t, y)
         /\ Len(u.lines) <= Len(t.lines) + 1
  <1> DEFINE n == Len(t.lines)
             r == RunInto(t.lines[n], y)
             e == [t.lines EXCEPT ![n] = r]
             a == Append(t.lines, y)
  <1>0. t.lines \in Seq(LineSet) /\ n \in Nat
    BY TextIs
  <1>1. CASE t.open
    <2>1. n \in 1..n /\ t.lines[n] \in LineSet
      BY <1>1, TextIs
    <2>2. r \in LineSet
      BY <2>1, LineTypes
    <2>3. u = Text(e, o)
      BY <1>1 DEF PutLine
    <2> HIDE DEF r
    <2>4. /\ e \in Seq(LineSet) /\ Len(e) = n
          /\ \A j \in 1..n : e[j] = IF j = n THEN r ELSE t.lines[j]
      BY <1>0, <2>1, <2>2, ExceptSeq
    <2> HIDE DEF e
    <2>5. u \in Texts /\ u.open = o /\ u.lines = e
      BY <2>1, <2>3, <2>4, TextMade
    <2> QED
      BY <1>0, <1>1, <2>1, <2>4, <2>5 DEF IsPut, r
  <1>2. CASE ~t.open
    <2>1. u = Text(a, o)
      BY <1>2 DEF PutLine
    <2>2. /\ a \in Seq(LineSet) /\ Len(a) = n + 1
          /\ \A i \in 1..n : a[i] = t.lines[i]
          /\ a[n + 1] = y
      BY <1>0, AppendProperties
    <2> HIDE DEF a
    <2>3. u \in Texts /\ u.open = o /\ u.lines = a
      BY <1>0, <2>1, <2>2, TextMade
    <2> QED
      BY <1>0, <1>2, <2>2, <2>3 DEF IsPut
  <1> QED
    BY <1>1, <1>2

(* What modconf writes.                                                    *)
IsModified(m, t, l, v) ==
  LET new == ConfLine("spaced", l, v)
  IN  /\ Mine(t, l) # {} =>
           /\ Len(m.lines) = Len(t.lines)
           /\ \A i \in 1..Len(t.lines) :
                m.lines[i] = IF i \in Mine(t, l) THEN new ELSE t.lines[i]
      /\ Mine(t, l) = {} => IsPut(m, t, new)

LEMMA ModConfIs ==
  ASSUME NEW t \in Texts, NEW l \in Label, NEW v \in Val
  PROVE  ModConf(t, l, v) \in Texts /\ IsModified(ModConf(t, l, v), t, l, v)
  <1> DEFINE new == ConfLine("spaced", l, v)
             n == Len(t.lines)
             M == Mine(t, l)
             f == [i \in 1..n |-> IF i \in M THEN new ELSE t.lines[i]]
             o == t.open /\ n \notin M
             out == Text(f, o)
  <1>1. /\ t.lines \in Seq(LineSet) /\ n \in Nat /\ DOMAIN t.lines = 1..n
        /\ \A i \in 1..n : t.lines[i] \in LineSet
        /\ t.open \in BOOLEAN /\ (t.open => n \in 1..n)
    BY TextIs
  <1>2. new \in LineSet
    BY LineTypes
  <1>3. ModConf(t, l, v) = IF M # {} THEN out ELSE PutLine(out, new, FALSE)
    BY <1>1 DEF ModConf, Restored
  <1> HIDE DEF new, M
  <1>4. f \in [1..n -> LineSet] /\ \A i \in 1..n : f[i] = IF i \in M THEN new
                                                           ELSE t.lines[i]
    BY <1>1, <1>2
  <1> HIDE DEF f
  <1>5. f \in Seq(LineSet) /\ Len(f) = n
    BY <1>1, <1>4, LinesMade
  <1>6. out \in Texts /\ out.lines = f /\ out.open = o
    <2>1. o \in BOOLEAN /\ (o => Len(f) # 0)
      BY <1>1, <1>5
    <2> HIDE DEF o
    <2> QED
      BY <1>5, <2>1, TextMade
  <1> HIDE DEF out
  <1>7. CASE M # {}
    BY <1>3, <1>4, <1>5, <1>6, <1>7 DEF IsModified, M, new
  <1>8. CASE M = {}
    <2>1. ModConf(t, l, v) \in Texts /\ IsPut(ModConf(t, l, v), out, new)
      BY <1>2, <1>3, <1>6, <1>8, PutLineIs
    <2>2. out.open = t.open /\ Len(out.lines) = n
          /\ \A i \in 1..n : out.lines[i] = t.lines[i]
      BY <1>1, <1>4, <1>5, <1>6, <1>8
    <2>3. IsPut(ModConf(t, l, v), t, new)
      BY <1>1, <2>1, <2>2 DEF IsPut
    <2> QED
      BY <1>8, <2>1, <2>3 DEF IsModified, M, new
  <1> QED
    BY <1>7, <1>8

-----------------------------------------------------------------------------
(* Configuration files: what getconf answers.                              *)

LEMMA EarliestIs ==
  ASSUME NEW n \in Nat, NEW I \in SUBSET (1..n)
  PROVE  IF I = {} THEN Earliest(I) = 0
         ELSE Earliest(I) \in I /\ \A j \in I : Earliest(I) <= j
  <1>1. CASE I = {}
    BY <1>1 DEF Earliest
  <1>2. CASE I # {}
    <2>1. I \in SUBSET Nat
      OBVIOUS
    <2>2. \E i \in I : \A j \in I : i <= j
      BY <1>2, <2>1, LeastOf
    <2>3. Earliest(I) = CHOOSE i \in I : \A j \in I : i <= j
      BY <1>2 DEF Earliest
    <2> QED
      BY <1>2, <2>2, <2>3
  <1> QED
    BY <1>1, <1>2

(* The lines that readconf takes for the label.                            *)
Labelled(t, l) == {i \in ReadConf(t) : Upper(t.lines[i].l) = Upper(l)}

LEMMA FirstIs ==
  ASSUME NEW t \in Texts, NEW l
  PROVE  /\ \A i : i \in Labelled(t, l) <=>
              i \in 1..Len(t.lines) /\ HasEq(t.lines[i])
                /\ Upper(t.lines[i].l) = Upper(l)
         /\ IF Labelled(t, l) = {} THEN FirstOf(t, l) = 0
            ELSE FirstOf(t, l) \in Labelled(t, l)
         /\ t # Gone
         /\ Labelled(t, l) \subseteq 1..Len(t.lines) /\ Len(t.lines) \in Nat
  <1>1. DOMAIN t.lines = 1..Len(t.lines) /\ Len(t.lines) \in Nat
    BY TextIs
  <1>2. Labelled(t, l) \in SUBSET (1..Len(t.lines))
    BY <1>1 DEF Labelled, ReadConf
  <1>3. FirstOf(t, l) = Earliest(Labelled(t, l))
    BY DEF FirstOf, Labelled
  <1>4. IF Labelled(t, l) = {} THEN FirstOf(t, l) = 0
        ELSE FirstOf(t, l) \in Labelled(t, l)
    BY <1>1, <1>2, <1>3, EarliestIs
  <1>5. t # Gone
    BY ConfAssumption
  <1>6. \A i : i \in Labelled(t, l) <=>
              i \in 1..Len(t.lines) /\ HasEq(t.lines[i])
                /\ Upper(t.lines[i].l) = Upper(l)
    BY <1>1 DEF Labelled, ReadConf
  <1> QED
    BY <1>1, <1>2, <1>4, <1>5, <1>6

(* Two texts answer the same where readconf takes the same lines for the   *)
(* label, and they have the same values.                                   *)
LEMMA SameAnswer ==
  ASSUME NEW t \in Texts, NEW m \in Texts, NEW l,
         Labelled(m, l) = Labelled(t, l),
         FirstOf(t, l) \in Labelled(t, l) =>
           m.lines[FirstOf(t, l)].v = t.lines[FirstOf(t, l)].v
  PROVE  GetConf(m, l) = GetConf(t, l)
  <1>1. FirstOf(m, l) = FirstOf(t, l)
    BY DEF FirstOf, Labelled
  <1>2. FirstOf(t, l) = 0 \/ FirstOf(t, l) \in Labelled(t, l)
    BY FirstIs
  <1>3. t # Gone /\ m # Gone
    BY FirstIs
  <1> QED
    BY <1>1, <1>2, <1>3 DEF GetConf

(* A text with a line more.                                                *)
LEMMA PutAnswers ==
  ASSUME NEW t \in Texts, NEW m \in Texts, NEW y \in LineSet, NEW l,
         IsPut(m, t, y), Upper(y.l) # Upper(l)
  PROVE  \/ GetConf(m, l) = GetConf(t, l)
         \/ t.open /\ Upper(l) = Upper(t.lines[Len(t.lines)].l)
  <1> DEFINE n == Len(t.lines)
             x == t.lines[n]
  <1>1. n \in Nat /\ t.open \in BOOLEAN /\ (t.open => n \in 1..n)
    BY TextIs
  <1>2. \A i : i \in Labelled(t, l) <=>
              i \in 1..n /\ HasEq(t.lines[i]) /\ Upper(t.lines[i].l) = Upper(l)
    BY FirstIs
  <1>3. \A i : i \in Labelled(m, l) <=>
              i \in 1..Len(m.lines) /\ HasEq(m.lines[i])
                /\ Upper(m.lines[i].l) = Upper(l)
    BY FirstIs
  <1>4. CASE ~t.open
    <2>1. /\ Len(m.lines) = n + 1 /\ m.lines[n + 1] = y
          /\ \A i \in 1..n : m.lines[i] = t.lines[i]
      BY <1>4 DEF IsPut
    <2>2. \A i : i \in 1..(n + 1) <=> i \in 1..n \/ i = n + 1
      BY <1>1
    <2>3. n + 1 \notin Labelled(m, l)
      BY <1>3, <2>1
    <2>4. Labelled(m, l) = Labelled(t, l)
      BY <1>1, <1>2, <1>3, <2>1, <2>2, <2>3
    <2>5. FirstOf(t, l) \in Labelled(t, l) => FirstOf(t, l) \in 1..n
      BY <1>2
    <2> QED
      BY <2>1, <2>4, <2>5, SameAnswer
  <1>5. CASE t.open /\ Upper(l) # Upper(x.l)
    <2>1. /\ Len(m.lines) = n /\ m.lines[n] = RunInto(x, y) /\ n \in 1..n
          /\ \A i \in 1..n : i # n => m.lines[i] = t.lines[i]
      BY <1>1, <1>5 DEF IsPut
    <2>2. x \in LineSet
      BY <2>1, TextIs
    <2>3. RunInto(x, y).l \in {x.l, y.l}
      <3>1. [x EXCEPT !.v = "other"].l = x.l
        BY <2>2 DEF LineSet
      <3> QED
        BY <3>1 DEF RunInto
    <2>4. n \notin Labelled(m, l) /\ n \notin Labelled(t, l)
      BY <1>2, <1>3, <1>5, <2>1, <2>3
    <2>5. Labelled(m, l) = Labelled(t, l)
      BY <1>2, <1>3, <2>1, <2>4
    <2>6. FirstOf(t, l) \in Labelled(t, l) => FirstOf(t, l) \in 1..n
            /\ FirstOf(t, l) # n
      BY <1>2, <2>4
    <2> QED
      BY <2>1, <2>5, <2>6, SameAnswer
  <1> QED
    BY <1>1, <1>4, <1>5

(* modconf leaves the answers for other labels.                            *)
LEMMA OthersAnswered ==
  ASSUME NEW t \in Texts, NEW l \in Label, NEW v \in Val, NEW k, Upper(k) # Upper(l)
  PROVE  \/ GetConf(ModConf(t, l, v), k) = GetConf(t, k)
         \/ /\ t.open /\ Mine(t, l) = {}
            /\ Upper(k) = Upper(t.lines[Len(t.lines)].l)
  <1> DEFINE n == Len(t.lines)
             new == ConfLine("spaced", l, v)
  <1>1. PICK m : m = ModConf(t, l, v)
    OBVIOUS
  <1>2. m \in Texts /\ IsModified(m, t, l, v) /\ new \in LineSet /\ new.l = l
    BY <1>1, ModConfIs, LineTypes DEF ConfLine
  <1>3. CASE Mine(t, l) = {}
    <2>1. IsPut(m, t, new)
      BY <1>2, <1>3 DEF IsModified
    <2> HIDE DEF new
    <2> QED
      BY <1>1, <1>2, <1>3, <2>1, PutAnswers
  <1>4. CASE Mine(t, l) # {}
    <2>1. /\ Len(m.lines) = n
          /\ \A i \in 1..n : m.lines[i] = IF i \in Mine(t, l) THEN new ELSE t.lines[i]
      BY <1>2, <1>4 DEF IsModified
    <2> HIDE DEF new
    <2>2. \A i : i \in Labelled(t, k) <=>
              i \in 1..n /\ HasEq(t.lines[i]) /\ Upper(t.lines[i].l) = Upper(k)
      BY FirstIs
    <2>3. \A i : i \in Labelled(m, k) <=>
              i \in 1..n /\ HasEq(m.lines[i]) /\ Upper(m.lines[i].l) = Upper(k)
      BY <1>2, <2>1, FirstIs
    <2>4. \A i \in Mine(t, l) : t.lines[i].l = l
      BY DEF Mine
    <2>5. \A i \in 1..n : i \in Mine(t, l) => i \notin Labelled(t, k)
                                               /\ i \notin Labelled(m, k)
      BY <1>2, <2>1, <2>2, <2>3, <2>4
    <2>6. Labelled(m, k) = Labelled(t, k)
      BY <2>1, <2>2, <2>3, <2>5
    <2>7. FirstOf(t, k) \in Labelled(t, k) =>
            FirstOf(t, k) \in 1..n /\ FirstOf(t, k) \notin Mine(t, l)
      BY <2>2, <2>5
    <2>8. GetConf(m, k) = GetConf(t, k)
      BY <1>2, <2>1, <2>6, <2>7, SameAnswer
    <2> QED
      BY <1>1, <2>8
  <1> QED
    BY <1>3, <1>4

(* And its own label has the value, unless the line has run into another.  *)
LEMMA SaysSo ==
  ASSUME NEW t \in Texts, NEW l \in Label, NEW v \in Val
  PROVE  (t.open /\ Mine(t, l) = {}) \/ Says(ModConf(t, l, v), l, v)
  <1> DEFINE n == Len(t.lines)
             new == ConfLine("spaced", l, v)
  <1>1. PICK m : m = ModConf(t, l, v)
    OBVIOUS
  <1>2. m \in Texts /\ IsModified(m, t, l, v)
    BY <1>1, ModConfIs
  <1>3. /\ n \in Nat /\ DOMAIN t.lines = 1..n
        /\ DOMAIN m.lines = 1..Len(m.lines)
    BY <1>2, TextIs
  <1>4. HasEq(new) /\ new.l = l /\ new.v = v
    BY DEF ConfLine, HasEq
  <1>5. ASSUME NEW i \in 1..n, HasEq(t.lines[i]), t.lines[i].l = l
        PROVE  i \in Mine(t, l)
    BY <1>3, <1>5 DEF Mine, HasEq
  <1> HIDE DEF new
  <1>6. CASE Mine(t, l) # {}
    <2>1. /\ Len(m.lines) = n
          /\ \A i \in 1..n : m.lines[i] = IF i \in Mine(t, l) THEN new ELSE t.lines[i]
      BY <1>2, <1>6 DEF IsModified, new
    <2>2. PICK j \in Mine(t, l) : j \in 1..n
      BY <1>3, <1>6 DEF Mine
    <2>3. HasEq(m.lines[j]) /\ m.lines[j].l = l
      BY <1>4, <2>1, <2>2
    <2>4. ASSUME NEW i \in 1..n, HasEq(m.lines[i]), m.lines[i].l = l
          PROVE  m.lines[i].v = v
      BY <1>4, <1>5, <2>1, <2>4
    <2>5. Says(m, l, v)
      BY <1>3, <2>1, <2>2, <2>3, <2>4 DEF Says, ReadConf
    <2> QED
      BY <1>1, <2>5
  <1>7. CASE Mine(t, l) = {} /\ ~t.open
    <2>1. /\ Len(m.lines) = n + 1 /\ m.lines[n + 1] = new
          /\ \A i \in 1..n : m.lines[i] = t.lines[i]
      BY <1>2, <1>7 DEF IsModified, IsPut, new
    <2>2. ASSUME NEW i \in 1..(n + 1), HasEq(m.lines[i]), m.lines[i].l = l
          PROVE  m.lines[i].v = v
      <3>1. i \in 1..n \/ i = n + 1
        BY <1>3
      <3> QED
        BY <1>4, <1>5, <1>7, <2>1, <2>2, <3>1
    <2>3. n + 1 \in 1..(n + 1)
      BY <1>3
    <2>4. Says(m, l, v)
      BY <1>3, <1>4, <2>1, <2>2, <2>3 DEF Says, ReadConf
    <2> QED
      BY <1>1, <2>4
  <1> QED
    BY <1>6, <1>7, TextIs

(* What getconf then answers.                                              *)
LEMMA SaysAnswers ==
  ASSUME NEW t \in Texts, NEW l, NEW v, Says(t, l, v)
  PROVE  LET i == FirstOf(t, l)
         IN  i # 0 /\ (t.lines[i].l = l => GetConf(t, l) = v)
  <1> DEFINE S == {i \in ReadConf(t) : t.lines[i].l = l}
  <1>1. S # {} /\ \A i \in S : t.lines[i].v = v
    BY DEF Says
  <1>2. S \subseteq Labelled(t, l) /\ Labelled(t, l) \subseteq ReadConf(t)
    BY DEF Labelled
  <1>3. FirstOf(t, l) \in Labelled(t, l) /\ t # Gone
    BY <1>1, <1>2, FirstIs
  <1>4. FirstOf(t, l) # 0
    BY <1>3, FirstIs
  <1>5. t.lines[FirstOf(t, l)].l = l => FirstOf(t, l) \in S
    BY <1>2, <1>3
  <1> QED
    BY <1>1, <1>3, <1>4, <1>5 DEF GetConf

-----------------------------------------------------------------------------
(* Configuration files: what updlabel writes, line by line.                *)

Turns == [arg : Label \cup {Gone}, out : Texts]
IsTurned(c, t, l, v, left) ==
  LET N == Len(t.lines)
  IN  /\ c[0] = [arg |-> left, out |-> EmptyText]
      /\ \A i \in 0..N : c[i] \in Turns
      /\ \A i \in 1..N : c[i] = UpdTurn(t, l, v, i, c[i - 1])
      /\ UpdLabel(t, l, v, left) = c[N].out

LEMMA EmptyIs == EmptyText \in Texts /\ EmptyText.lines = <<>> /\ ~EmptyText.open
  <1>1. <<>> \in Seq(LineSet)
    OBVIOUS
  <1> QED
    BY <1>1, TextMade DEF EmptyText

LEMMA TurnType ==
  ASSUME NEW t \in Texts, NEW l \in Label, NEW v \in Val,
         NEW i \in 1..Len(t.lines), NEW s \in Turns
  PROVE  UpdTurn(t, l, v, i, s) \in Turns
  <1> DEFINE x == t.lines[i]
             arg == IF x.k = "blank" THEN s.arg ELSE FirstWord(x)
             y == IF arg = l THEN ConfLine("words", l, v) ELSE x
             o == IF arg = l THEN TRUE ELSE Unfinished(t, i)
  <1>1. x \in LineSet /\ t.open \in BOOLEAN
    BY TextIs
  <1>2. arg \in Label \cup {Gone} /\ s.out \in Texts
    BY <1>1 DEF Turns, FirstWord, LineSet
  <1>3. y \in LineSet /\ o \in BOOLEAN
    BY <1>1, LineTypes DEF Unfinished
  <1>4. UpdTurn(t, l, v, i, s) = [arg |-> arg, out |-> PutLine(s.out, y, o)]
    BY DEF UpdTurn
  <1> HIDE DEF arg, y, o
  <1>5. PutLine(s.out, y, o) \in Texts
    BY <1>2, <1>3, PutLineIs
  <1> QED
    BY <1>2, <1>4, <1>5 DEF Turns

(* The recursive function of updlabel exists.                              *)
LEMMA TurnsExist ==
  ASSUME NEW t \in Texts, NEW l \in Label, NEW v \in Val, NEW left \in {Gone, l}
  PROVE  \E c : IsTurned(c, t, l, v, left)
  <1> DEFINE N == Len(t.lines)
             a == [arg |-> left, out |-> EmptyText]
             T(i, s) == UpdTurn(t, l, v, i, s)
             step == [i \in 1..N |-> [s \in Turns |-> T(i, s)]]
  <1>1. N \in Nat
    BY TextIs
  <1>2. a \in Turns
    BY EmptyIs DEF Turns
  <1>3. \A i \in 1..N : \A s \in Turns : T(i, s) \in Turns
    BY TurnType
  <1>4. UpdLabel(t, l, v, left) =
          (CHOOSE h : h = [i \in 0..N |-> IF i = 0 THEN a ELSE T(i, h[i - 1])])[N].out
    BY DEF UpdLabel
  <1> HIDE DEF T, a, N
  <1>5. step \in [1..N -> [Turns -> Turns]]
    BY <1>3
  <1>6. \A i \in 1..N : \A s \in Turns : step[i][s] = T(i, s)
    OBVIOUS
  <1> HIDE DEF step
  <1>7. PICK f : Made(f, Turns, a, step, N)
    BY <1>1, <1>2, <1>5, ByTurns
  <1>8. f \in [0..N -> Turns] /\ f[0] = a
    BY <1>7 DEF Made
  <1>9. \A i \in 1..N : f[i] = T(i, f[i - 1])
    <2> TAKE i \in 1..N
    <2>1. f[i] = step[i][f[i - 1]] /\ i - 1 \in 0..N
      BY <1>1, <1>7 DEF Made
    <2>2. f[i - 1] \in Turns
      BY <1>8, <2>1
    <2> QED
      BY <1>6, <2>1, <2>2
  <1> DEFINE g == [i \in 0..N |-> IF i = 0 THEN a ELSE T(i, f[i - 1])]
             W(h) == h = [i \in 0..N |-> IF i = 0 THEN a ELSE T(i, h[i - 1])]
  <1>10. f = g
    <2>1. \A i \in 0..N : f[i] = g[i]
      <3> TAKE i \in 0..N
      <3>1. i = 0 \/ i \in 1..N
        BY <1>1
      <3> QED
        BY <1>8, <1>9, <3>1
    <2> QED
      BY <1>8, <2>1
  <1>11. W(f)
    BY <1>10
  <1> DEFINE c == CHOOSE h : W(h)
  <1>12. W(c)
    <2> HIDE DEF W
    <2> QED
      BY <1>11
  <1>13. UpdLabel(t, l, v, left) = c[N].out
    BY <1>4
  <1> HIDE DEF c
  <1>14. c[0] = a /\ \A i \in 1..N : c[i] = T(i, c[i - 1])
    <2>1. 0 \in 0..N /\ \A i \in 1..N : i \in 0..N /\ i # 0
      BY <1>1
    <2> QED
      BY <1>12, <2>1
  <1> HIDE DEF W, g
  <1>15. \A i \in 0..N : c[i] \in Turns
    <2> DEFINE P == {i \in 0..N : c[i] \in Turns}
    <2>1. 0 \in P
      BY <1>1, <1>2, <1>14
    <2>2. ASSUME NEW k \in 1..N, k - 1 \in P PROVE k \in P
      <3>1. c[k - 1] \in Turns /\ k \in 0..N
        BY <1>1, <2>2
      <3>2. c[k] = T(k, c[k - 1])
        BY <1>14
      <3>3. c[k] \in Turns
        BY <1>3, <3>1, <3>2, Zenon
      <3> QED
        BY <3>1, <3>3
    <2> HIDE DEF P
    <2>3. 0..N \subseteq P
      BY <1>1, <2>1, <2>2, UpTo
    <2> QED
      BY <2>3 DEF P
  <1>16. IsTurned(c, t, l, v, left)
    BY <1>13, <1>14, <1>15 DEF IsTurned, T, a, N
  <1> QED
    BY <1>16

(* One turn.                                                               *)
LEMMA OneTurn ==
  ASSUME NEW t \in Texts, NEW l \in Label, NEW v \in Val, NEW left, NEW c,
         IsTurned(c, t, l, v, left), NEW i \in 1..Len(t.lines)
  PROVE  /\ c[i].arg = IF t.lines[i].k = "blank" THEN c[i - 1].arg
                       ELSE FirstWord(t.lines[i])
         /\ c[i].arg = l => /\ c[i].out.open
                            /\ IsPut(c[i].out, c[i - 1].out, ConfLine("words", l, v))
         /\ c[i].arg # l => /\ c[i].out.open = Unfinished(t, i)
                            /\ IsPut(c[i].out, c[i - 1].out, t.lines[i])
         /\ c[i].out \in Texts /\ c[i - 1].out \in Texts
         /\ Len(c[i].out.lines) <= Len(c[i - 1].out.lines) + 1
  <1> DEFINE x == t.lines[i]
             w == ConfLine("words", l, v)
             arg == IF x.k = "blank" THEN c[i - 1].arg ELSE FirstWord(x)
  <1>1. x \in LineSet /\ t.open \in BOOLEAN /\ Len(t.lines) \in Nat
    BY TextIs
  <1>2. w \in LineSet
    BY LineTypes
  <1>3. i - 1 \in 0..Len(t.lines)
    BY <1>1
  <1>4. c[i - 1] \in Turns
    BY <1>3 DEF IsTurned
  <1>5. c[i - 1].out \in Texts
    BY <1>4 DEF Turns
  <1>6. c[i] = UpdTurn(t, l, v, i, c[i - 1])
    BY DEF IsTurned
  <1>7. c[i].arg = arg
    BY <1>6 DEF UpdTurn
  <1>8. c[i].out = IF arg = l THEN PutLine(c[i - 1].out, w, TRUE)
                   ELSE PutLine(c[i - 1].out, x, Unfinished(t, i))
    BY <1>6 DEF UpdTurn
  <1>9. Unfinished(t, i) \in BOOLEAN
    BY <1>1 DEF Unfinished
  <1> HIDE DEF arg, w
  <1>10. CASE arg = l
    BY <1>2, <1>5, <1>7, <1>8, <1>10, PutLineIs DEF arg, w
  <1>11. CASE arg # l
    BY <1>1, <1>5, <1>7, <1>8, <1>9, <1>11, PutLineIs DEF arg, w
  <1> QED
    BY <1>10, <1>11

(* The text it writes is no longer than the one it reads.                  *)
LEMMA UpdLabelIs ==
  ASSUME NEW t \in Texts, NEW l \in Label, NEW v \in Val, NEW left \in {Gone, l}
  PROVE  UpdLabel(t, l, v, left) \in Texts
         /\ Len(UpdLabel(t, l, v, left).lines) <= Len(t.lines)
  <1> DEFINE N == Len(t.lines)
  <1>1. PICK c : IsTurned(c, t, l, v, left)
    BY TurnsExist
  <1>2. N \in Nat
    BY TextIs
  <1> DEFINE P == {i \in 0..N : c[i].out \in Texts /\ Len(c[i].out.lines) <= i}
  <1>3. 0 \in P
    <2>1. c[0].out = EmptyText
      BY <1>1 DEF IsTurned
    <2> QED
      BY <1>2, <2>1, EmptyIs
  <1>4. ASSUME NEW k \in 1..N, k - 1 \in P PROVE k \in P
    <2>1. /\ c[k].out \in Texts
          /\ Len(c[k].out.lines) <= Len(c[k - 1].out.lines) + 1
          /\ c[k - 1].out \in Texts
      BY <1>1, OneTurn
    <2>2. Len(c[k].out.lines) \in Nat /\ Len(c[k - 1].out.lines) \in Nat
      BY <2>1, TextIs
    <2> QED
      BY <1>2, <1>4, <2>1, <2>2
  <1> HIDE DEF P
  <1>5. 0..N \subseteq P
    BY <1>2, <1>3, <1>4, UpTo
  <1>6. N \in P
    BY <1>2, <1>5
  <1>7. UpdLabel(t, l, v, left) = c[N].out
    BY <1>1 DEF IsTurned
  <1> QED
    BY <1>6, <1>7 DEF P

-----------------------------------------------------------------------------
(* Configuration files: what getlabel answers after updlabel.              *)

(* The lines up to the first with the label: as they were, finished.       *)
LEMMA TurnsBefore ==
  ASSUME NEW t \in Texts, NEW l \in Label, NEW v \in Val, NEW left, NEW c,
         IsTurned(c, t, l, v, left), NEW i \in Begun(t, l),
         \A j \in Begun(t, l) : i <= j, t.lines[1].k # "blank"
  PROVE  LET s == c[i - 1].out
         IN  /\ ~s.open /\ Len(s.lines) = i - 1
             /\ \A k \in 1..(i - 1) : s.lines[k] = t.lines[k]
  <1> DEFINE n == Len(t.lines)
             P == {j \in 0..(i - 1) :
                     /\ j # 0 => c[j].arg # l
                     /\ ~c[j].out.open /\ Len(c[j].out.lines) = j
                     /\ \A k \in 1..j : c[j].out.lines[k] = t.lines[k]}
  <1>1. n \in Nat /\ i \in 1..n /\ \A j \in 1..n : FirstWord(t.lines[j]) = l => i <= j
    BY TextIs DEF Begun
  <1>2. 0 \in P
    <2>1. c[0].out = EmptyText
      BY DEF IsTurned
    <2>2. ~c[0].out.open /\ Len(c[0].out.lines) = 0
      BY <2>1, EmptyIs
    <2> QED
      BY <1>1, <2>2
  <1>3. ASSUME NEW j \in 1..(i - 1), j - 1 \in P PROVE j \in P
    <2> DEFINE a == c[j - 1].out
               b == c[j].out
               x == t.lines[j]
    <2>1. j \in 1..n /\ ~(i <= j) /\ j # n
      BY <1>1
    <2>2. FirstWord(x) # l
      BY <1>1, <2>1
    <2>3. /\ j - 1 # 0 => c[j - 1].arg # l
          /\ ~a.open /\ Len(a.lines) = j - 1
          /\ \A k \in 1..(j - 1) : a.lines[k] = t.lines[k]
      BY <1>3
    <2>4. x.k = "blank" => j - 1 # 0
      BY <1>3
    <2>5. c[j].arg = IF x.k = "blank" THEN c[j - 1].arg ELSE FirstWord(x)
      BY <2>1, OneTurn
    <2>6. c[j].arg # l
      BY <2>2, <2>3, <2>4, <2>5
    <2>7. b.open = Unfinished(t, j) /\ IsPut(b, a, x)
      BY <2>1, <2>6, OneTurn
    <2>8. ~b.open
      BY <2>1, <2>7 DEF Unfinished
    <2>9. /\ Len(b.lines) = (j - 1) + 1 /\ b.lines[(j - 1) + 1] = x
          /\ \A k \in 1..(j - 1) : b.lines[k] = a.lines[k]
      BY <2>3, <2>7 DEF IsPut
    <2>10. (j - 1) + 1 = j /\ \A k \in 1..j : k = j \/ k \in 1..(j - 1)
      BY <1>3
    <2>11. Len(b.lines) = j /\ \A k \in 1..j : b.lines[k] = t.lines[k]
      BY <2>3, <2>9, <2>10
    <2>12. j \in 0..(i - 1)
      BY <1>3
    <2> QED
      BY <2>6, <2>8, <2>11, <2>12
  <1> HIDE DEF P
  <1>4. i - 1 \in Nat
    BY <1>1
  <1>5. 0..(i - 1) \subseteq P
    BY <1>2, <1>3, <1>4, UpTo
  <1>6. i - 1 \in P
    BY <1>4, <1>5
  <1> QED
    BY <1>6 DEF P

(* The value that getlabel reads.                                          *)
ReadAs(t, i, v) ==
  IF i = Len(t.lines) \/ t.lines[i + 1].k = "note" THEN v ELSE "other"

(* And the lines from there on.                                            *)
LEMMA TurnsFrom ==
  ASSUME NEW t \in Texts, NEW l \in Label, NEW v \in Val, NEW left, NEW c,
         IsTurned(c, t, l, v, left), NEW i \in Begun(t, l),
         \A j \in Begun(t, l) : i <= j, t.lines[1].k # "blank"
  PROVE  LET m == c[Len(t.lines)].out
         IN  /\ i \in 1..Len(m.lines)
             /\ m.lines[i] = ConfLine("words", l, ReadAs(t, i, v))
             /\ \A k \in 1..(i - 1) : m.lines[k] = t.lines[k]
  <1> DEFINE n == Len(t.lines)
             w(val) == ConfLine("words", l, val)
             note == t.lines[i + 1].k = "note"
             val == ReadAs(t, i, v)
  <1>1. n \in Nat /\ i \in 1..n /\ FirstWord(t.lines[i]) = l
    BY TextIs DEF Begun
  <1>2. t.lines[i].k # "blank"
    BY <1>1, ConfAssumption DEF FirstWord
  <1>3. /\ c[i].out.open /\ Len(c[i].out.lines) = i /\ c[i].out.lines[i] = w(v)
        /\ \A k \in 1..(i - 1) : c[i].out.lines[k] = t.lines[k]
        /\ c[i].arg = l
    <2>1. c[i].arg = l
      BY <1>1, <1>2, OneTurn
    <2>2. c[i].out.open /\ IsPut(c[i].out, c[i - 1].out, w(v))
      BY <1>1, <2>1, OneTurn
    <2>3. /\ ~c[i - 1].out.open /\ Len(c[i - 1].out.lines) = i - 1
          /\ \A k \in 1..(i - 1) : c[i - 1].out.lines[k] = t.lines[k]
      BY TurnsBefore
    <2>4. /\ Len(c[i].out.lines) = (i - 1) + 1 /\ c[i].out.lines[(i - 1) + 1] = w(v)
          /\ \A k \in 1..(i - 1) : c[i].out.lines[k] = c[i - 1].out.lines[k]
      BY <2>2, <2>3 DEF IsPut
    <2>5. (i - 1) + 1 = i
      BY <1>1
    <2> QED
      BY <2>1, <2>2, <2>3, <2>4, <2>5
  <1>4. CASE i = n
    BY <1>1, <1>3, <1>4 DEF ReadAs
  <1>5. CASE i # n
    <2> DEFINE Q(j) == /\ Len(c[j].out.lines) \in Nat /\ i <= Len(c[j].out.lines)
                       /\ c[j].out.lines[i] = w(val)
                       /\ \A k \in 1..(i - 1) : c[j].out.lines[k] = t.lines[k]
                       /\ note /\ Len(c[j].out.lines) = i /\ c[j].out.open => j = n
               P == {j \in 0..n : j <= i \/ Q(j)}
    <2>1. val = IF note THEN v ELSE "other"
      BY <1>5 DEF ReadAs
    <2>2. /\ RunInto(w(v), w(v)) = w("other")
          /\ \A y : y.k = "note" => RunInto(w(v), y) = w(v)
          /\ \A y : y.k \notin {"note", "blank"} => RunInto(w(v), y) = w("other")
          /\ \A y : RunInto(w("other"), y) = w("other")
      BY DEF RunInto, ConfLine
    <2>3. Q(i + 1)
      <3> DEFINE x == t.lines[i + 1]
                 b == c[i + 1].out
      <3>1. i + 1 \in 1..n /\ (i + 1) - 1 = i
        BY <1>1, <1>5
      <3>2. x \in LineSet
        BY <3>1, TextIs
      <3>3. /\ c[i + 1].arg = IF x.k = "blank" THEN l ELSE FirstWord(x)
            /\ c[i + 1].arg = l => IsPut(b, c[i].out, w(v))
            /\ c[i + 1].arg # l => b.open = Unfinished(t, i + 1)
                 /\ IsPut(b, c[i].out, x)
        <4>1. PICK j : j = i + 1 /\ j \in 1..n /\ j - 1 = i
          BY <3>1
        <4>2. /\ c[j].arg = IF t.lines[j].k = "blank" THEN c[j - 1].arg
                            ELSE FirstWord(t.lines[j])
              /\ c[j].arg = l => IsPut(c[j].out, c[j - 1].out, w(v))
              /\ c[j].arg # l => /\ c[j].out.open = Unfinished(t, j)
                                 /\ IsPut(c[j].out, c[j - 1].out, t.lines[j])
          BY <4>1, OneTurn
        <4> QED
          BY <1>3, <4>1, <4>2
      <3>4. x.k = "note" => c[i + 1].arg # l
        BY <3>3, ConfAssumption DEF FirstWord
      <3>5. PICK y : IsPut(b, c[i].out, y) /\ RunInto(w(v), y) = w(val)
        BY <2>1, <2>2, <3>3, <3>4
      <3>6. /\ Len(b.lines) = i /\ b.lines[i] = w(val)
            /\ \A k \in 1..i : k # i => b.lines[k] = c[i].out.lines[k]
        BY <1>3, <3>5 DEF IsPut
      <3>7. \A k \in 1..(i - 1) : k \in 1..i /\ k # i
        BY <1>1
      <3>8. note /\ b.open => i + 1 = n
        BY <3>3, <3>4 DEF Unfinished
      <3> QED
        BY <1>1, <1>3, <3>6, <3>7, <3>8
    <2>4. ASSUME NEW j \in 1..n, Q(j - 1), i < j - 1 PROVE Q(j)
      <3> DEFINE a == c[j - 1].out
                 b == c[j].out
                 q == Len(a.lines)
      <3>1. \E y : IsPut(b, a, y)
        BY OneTurn
      <3>2. PICK y : IsPut(b, a, y)
        BY <3>1
      <3>3. /\ q \in Nat /\ i <= q /\ a.lines[i] = w(val)
            /\ \A k \in 1..(i - 1) : a.lines[k] = t.lines[k]
            /\ ~(note /\ q = i /\ a.open)
        BY <2>4
      <3>4. a.open \in BOOLEAN
        <4>1. a \in Texts
          BY OneTurn
        <4> QED
          BY <4>1, TextIs
      <3>5. \A k \in 1..(i - 1) : k \in 1..q /\ k # q
        BY <1>1, <3>3
      <3>6. i \in 1..q
        BY <1>1, <3>3
      <3>7. CASE a.open
        <4>1. /\ Len(b.lines) = q /\ b.lines[q] = RunInto(a.lines[q], y)
              /\ \A k \in 1..q : k # q => b.lines[k] = a.lines[k]
          BY <3>2, <3>7 DEF IsPut
        <4>2. b.lines[i] = w(val)
          <5>1. CASE i = q
            <6>1. val = "other"
              BY <2>1, <3>3, <3>7, <5>1
            <6> QED
              BY <2>2, <3>3, <4>1, <5>1, <6>1
          <5>2. CASE i # q
            BY <3>3, <3>6, <4>1, <5>2
          <5> QED
            BY <5>1, <5>2
        <4>3. \A k \in 1..(i - 1) : b.lines[k] = t.lines[k]
          BY <3>3, <3>5, <4>1
        <4>4. ~(note /\ Len(b.lines) = i)
          BY <3>3, <3>7, <4>1
        <4> QED
          BY <3>3, <4>1, <4>2, <4>3, <4>4
      <3>8. CASE ~a.open
        <4>1. Len(b.lines) = q + 1 /\ \A k \in 1..q : b.lines[k] = a.lines[k]
          BY <3>2, <3>8 DEF IsPut
        <4>2. q + 1 \in Nat /\ i <= q + 1 /\ q + 1 # i
          BY <1>1, <3>3
        <4>3. \A k \in 1..(i - 1) : b.lines[k] = t.lines[k]
          BY <3>3, <3>5, <4>1
        <4>4. b.lines[i] = w(val)
          BY <3>3, <3>6, <4>1
        <4> QED
          BY <4>1, <4>2, <4>3, <4>4
      <3> QED
        BY <3>4, <3>7, <3>8
    <2> HIDE DEF Q
    <2>5. 0 \in P
      BY <1>1
    <2>6. ASSUME NEW j \in 1..n, j - 1 \in P PROVE j \in P
      <3>1. j <= i \/ j = i + 1 \/ i < j - 1
        BY <1>1
      <3>2. i < j - 1 => Q(j - 1)
        BY <1>1, <2>6
      <3> QED
        BY <1>1, <2>3, <2>4, <3>1, <3>2
    <2> HIDE DEF P
    <2>7. n \in P
      <3>1. 0..n \subseteq P
        BY <1>1, <2>5, <2>6, UpTo
      <3> QED
        BY <1>1, <3>1
    <2>8. Q(n)
      BY <1>1, <1>5, <2>7 DEF P
    <2> QED
      BY <1>1, <2>8 DEF Q
  <1> QED
    BY <1>4, <1>5

(* The label's first line has the value, or has run into the next.         *)
LEMMA LabelReadAs ==
  ASSUME NEW t \in Texts, NEW l \in Label, NEW v \in Val, NEW left \in {Gone, l},
         FindLabel(t, l), t.lines[1].k # "blank"
  PROVE  GetLabel(UpdLabel(t, l, v, left), l) = ReadAs(t, Earliest(Begun(t, l)), v)
  <1>1. DOMAIN t.lines = 1..Len(t.lines) /\ Len(t.lines) \in Nat
    BY TextIs
  <1>2. Begun(t, l) \in SUBSET (1..Len(t.lines)) /\ Begun(t, l) # {}
    BY <1>1 DEF Begun, FindLabel
  <1>3. PICK i : i = Earliest(Begun(t, l))
    OBVIOUS
  <1>4. i \in Begun(t, l) /\ \A j \in Begun(t, l) : i <= j
    BY <1>1, <1>2, <1>3, EarliestIs
  <1>5. PICK c : IsTurned(c, t, l, v, left)
    BY TurnsExist
  <1>6. PICK m : m = UpdLabel(t, l, v, left)
    OBVIOUS
  <1>7. m \in Texts /\ m = c[Len(t.lines)].out
    BY <1>5, <1>6, UpdLabelIs DEF IsTurned
  <1>8. /\ i \in 1..Len(m.lines)
        /\ m.lines[i] = ConfLine("words", l, ReadAs(t, i, v))
        /\ \A k \in 1..(i - 1) : m.lines[k] = t.lines[k]
    BY <1>4, <1>5, <1>7, TurnsFrom
  <1>9. DOMAIN m.lines = 1..Len(m.lines) /\ Len(m.lines) \in Nat /\ m # Gone
    BY <1>7, TextIs, ConfAssumption
  <1>10. i \in Begun(m, l)
    BY <1>8, <1>9 DEF Begun, FirstWord, ConfLine
  <1>11. ASSUME NEW j \in Begun(m, l) PROVE i <= j
    <2>1. j \in 1..Len(m.lines) /\ FirstWord(m.lines[j]) = l
      BY <1>9 DEF Begun
    <2>2. SUFFICES ASSUME ~(i <= j) PROVE FALSE
      OBVIOUS
    <2>3. j \in 1..(i - 1) /\ j \in 1..Len(t.lines)
      BY <1>1, <1>2, <1>4, <2>1, <2>2
    <2>4. j \in Begun(t, l)
      BY <1>1, <1>8, <2>1, <2>3 DEF Begun
    <2> QED
      BY <1>4, <2>2, <2>4
  <1>12. Begun(m, l) \in SUBSET (1..Len(m.lines))
    BY <1>9 DEF Begun
  <1>13. Earliest(Begun(m, l)) \in Begun(m, l)
         /\ \A j \in Begun(m, l) : Earliest(Begun(m, l)) <= j
    BY <1>9, <1>10, <1>12, EarliestIs
  <1>14. Earliest(Begun(m, l)) = i
    <2>1. i <= Earliest(Begun(m, l)) /\ Earliest(Begun(m, l)) <= i
      BY <1>10, <1>11, <1>13
    <2>2. Earliest(Begun(m, l)) \in Nat /\ i \in Nat
      BY <1>8, <1>12, <1>13
    <2> QED
      BY <2>1, <2>2
  <1>15. i # 0 /\ m.lines[i].k = "words" /\ m.lines[i].v = ReadAs(t, i, v)
    BY <1>8 DEF ConfLine
  <1>16. GetLabel(m, l) = ReadAs(t, i, v)
    BY <1>9, <1>14, <1>15 DEF GetLabel
  <1> QED
    BY <1>3, <1>6, <1>16

-----------------------------------------------------------------------------
(* Configuration files: what is in which file at every step of a call.     *)

LEMMA WholeInit == CInit => WholeInv
  BY DEF CInit, NoCall, WholeInv, NothingLost, WholeText, Stages

LEMMA WholeNext ==
  ASSUME WholeInv, [CNext]_cvars PROVE WholeInv'
  <1>0. EmptyText # Gone
    BY EmptyIs, ConfAssumption
  <1> USE DEF WholeInv, NothingLost, WholeText, Stages
  <1>1. ASSUME NEW x, AddLabel(x) PROVE WholeInv'
    BY <1>1 DEF AddLabel, Edit, NoCall
  <1>2. ASSUME NEW l, NEW v, ModOpen(l, v) PROVE WholeInv'
    BY <1>0, <1>2 DEF ModOpen, Edit, NoCall
  <1>3. ASSUME NEW op, NEW l, NEW v, RewriteOpen(op, l, v) PROVE WholeInv'
    <2>1. do'.step = "write"
      BY <1>3 DEF RewriteOpen
    <2> QED
      BY <1>3, <2>1 DEF RewriteOpen, Edit, NoCall
  <1>4. ASSUME ModLock PROVE WholeInv'
    <2>1. CASE swap # Gone
      BY <1>4, <2>1 DEF ModLock, NoCall
    <2>2. CASE swap = Gone
      <3>1. /\ swap' = EmptyText /\ do' = [do EXCEPT !.step = "write"]
            /\ UNCHANGED <<path, edits, crashes, kept, unsafe>>
        BY <1>4, <2>2 DEF ModLock
      <3>2. do.step = "lock" /\ path # Gone
        BY <1>4 DEF ModLock
      <3>3. unsafe \/ kept = path
        BY <2>2, <3>2
      <3>4. do'.step = "write"
        BY <3>1, <3>2
      <3> QED
        BY <3>1, <3>2, <3>3, <3>4
    <2> QED
      BY <2>1, <2>2
  <1>5. ASSUME CloseSwap PROVE WholeInv'
    BY <1>5 DEF CloseSwap
  <1>6. ASSUME UnlinkPath PROVE WholeInv'
    BY <1>6 DEF UnlinkPath
  <1>7. ASSUME LinkSwap PROVE WholeInv'
    BY <1>7 DEF LinkSwap
  <1>8. ASSUME UnlinkSwap PROVE WholeInv'
    BY <1>8 DEF UnlinkSwap
  <1>9. ASSUME EditReturns PROVE WholeInv'
    BY <1>9 DEF EditReturns, NoCall
  <1>10. ASSUME Crash PROVE WholeInv'
    BY <1>10 DEF Crash, NoCall
  <1>11. ASSUME UNCHANGED cvars PROVE WholeInv'
    BY <1>11 DEF cvars
  <1> QED
    BY <1>1, <1>2, <1>3, <1>4, <1>5, <1>6, <1>7, <1>8, <1>9, <1>10, <1>11
       DEF CNext, ReadOnly

(* Two parts of TextKept, for every text and whatever an edit makes of it: *)
(* after any number of crashes between the steps of updlabel, mkcomment    *)
(* and modconf the text of the last finished edits is in one of the two    *)
(* files, and whoever opens path finds no half-written text.               *)
THEOREM NothingIsLost == CSpec => [](NothingLost /\ WholeText)
  <1>1. WholeInv => NothingLost /\ WholeText
    BY DEF WholeInv
  <1> QED
    BY WholeInit, WholeNext, <1>1, PTL DEF CSpec

(* What can be in the files.                                               *)
LEMMA FittingIs ==
  /\ EmptyText \in Fitting /\ Gone \notin Fitting
  /\ \A t : t \in Fitting <=> t \in Texts /\ Fits(t)
  /\ \A t \in Texts : MkComment(t) \in Texts
                      /\ Len(MkComment(t).lines) = Len(t.lines)
  /\ \A t \in Texts : \A n \in 0..Len(t.lines) :
       LET u == Text(SubSeq(t.lines, 1, n), n > 0)
       IN  u \in Texts /\ Len(u.lines) <= Len(t.lines)
  <1>1. EmptyText \in Fitting /\ Gone \notin Fitting
    BY EmptyIs, ConfAssumption DEF Fitting, Fits
  <1>2. ASSUME NEW t \in Texts
        PROVE  MkComment(t) \in Texts /\ Len(MkComment(t).lines) = Len(t.lines)
    <2> DEFINE n == Len(t.lines)
               f == [i \in 1..n |-> Note]
    <2>1. n \in Nat /\ DOMAIN t.lines = 1..n /\ t.open \in BOOLEAN
          /\ (t.open => n \in 1..n)
      BY TextIs
    <2>2. MkComment(t) = Text(f, t.open)
      BY <2>1 DEF MkComment
    <2>3. f \in [1..n -> LineSet]
      BY LineTypes
    <2> HIDE DEF f
    <2>4. f \in Seq(LineSet) /\ Len(f) = n
      BY <2>1, <2>3, LinesMade
    <2>5. t.open => Len(f) # 0
      BY <2>1, <2>4
    <2> QED
      BY <2>1, <2>2, <2>4, <2>5, TextMade
  <1>3. ASSUME NEW t \in Texts, NEW n \in 0..Len(t.lines)
        PROVE  LET u == Text(SubSeq(t.lines, 1, n), n > 0)
               IN  u \in Texts /\ Len(u.lines) <= Len(t.lines)
    <2> DEFINE s == SubSeq(t.lines, 1, n)
               o == n > 0
    <2>1. t.lines \in Seq(LineSet) /\ Len(t.lines) \in Nat
      BY TextIs
    <2>2. s \in Seq(LineSet) /\ Len(s) = n
      BY <2>1
    <2>3. o \in BOOLEAN /\ (o => Len(s) # 0)
      BY <2>1, <2>2
    <2> HIDE DEF s, o
    <2>4. Text(s, o) \in Texts /\ Text(s, o).lines = s
      BY <2>2, <2>3, TextMade
    <2> QED
      BY <2>1, <2>2, <2>4 DEF s, o
  <1> QED
    BY <1>1, <1>2, <1>3 DEF Fitting

CallSet == [op : {"idle", "mod", "upd", "note"}, step : Stages,
            l : Label \cup {Gone}, v : Val \cup {Gone},
            new : Fitting, runs : BOOLEAN]

LEMMA NoCallIs == NoCall \in CallSet
  BY FittingIs DEF NoCall, CallSet, Stages

LEMMA TypesInit == CInit => ConfTypes
  <1>1. SUFFICES ASSUME CInit PROVE ConfTypes
    OBVIOUS
  <1>2. path \in {Gone} \cup Fitting
    BY <1>1, ConfAssumption, FittingIs DEF CInit, Fits
  <1>3. MaxEdits \in Nat /\ MaxCrashes \in Nat
    BY ConfAssumption
  <1> QED
    <2>1. swap = Gone /\ do = NoCall /\ edits = 0 /\ crashes = 0 /\ unsafe = FALSE
      BY <1>1 DEF CInit
    <2>2. do \in CallSet
      BY <2>1, NoCallIs
    <2>3. edits \in 0..MaxEdits /\ crashes \in 0..MaxCrashes
      BY <1>3, <2>1
    <2> QED
      BY <1>2, <2>1, <2>2, <2>3 DEF ConfTypes, CallSet

LEMMA TypesNext ==
  ASSUME ConfTypes, [CNext]_cvars PROVE ConfTypes'
  <1> USE DEF ConfTypes, Stages, CallSet
  <1>0. EmptyText \in Fitting /\ MaxEdits \in Nat /\ MaxCrashes \in Nat
        /\ Gone \notin Fitting
    BY FittingIs, ConfAssumption
  <1> DEFINE t == IF path = Gone THEN EmptyText ELSE path
  <1>t. t \in Texts /\ Len(t.lines) \in Nat /\ t.open \in BOOLEAN
    <2>1. t \in Fitting
      BY <1>0
    <2> HIDE DEF t
    <2> QED
      BY <2>1, FittingIs, TextIs
  <1> HIDE DEF t
  <1>e. Edit => edits' \in 0..MaxEdits
    BY <1>0 DEF Edit
  <1>1. ASSUME NEW x \in LineSet, AddLabel(x) PROVE ConfTypes'
    <2>1. PutLine(t, x, FALSE) \in Texts
      BY <1>t, PutLineIs
    <2>2. path' = PutLine(t, x, FALSE) /\ Fits(PutLine(t, x, FALSE))
      BY <1>1 DEF AddLabel, t
    <2>3. path' \in Fitting
      BY <2>1, <2>2, FittingIs
    <2> QED
      BY <1>1, <1>e, <2>3 DEF AddLabel
  <1>2. ASSUME NEW l \in Label, NEW v \in Val, ModOpen(l, v) PROVE ConfTypes'
    <2> DEFINE m == ModConf(t, l, v)
               runs == t.open /\ Mine(t, l) = {}
    <2>1. m \in Texts
      BY <1>t, ModConfIs
    <2>2. /\ Fits(m) /\ path' = t /\ UNCHANGED <<swap, crashes, unsafe>>
          /\ do' = [op |-> "mod", step |-> "lock", l |-> l, v |-> v,
                    new |-> m, runs |-> runs]
      BY <1>2 DEF ModOpen, t
    <2>3. runs \in BOOLEAN
      BY <1>t
    <2> HIDE DEF m, runs
    <2>4. m \in Fitting /\ t \in Fitting
      <3>1. t \in Fitting
        BY <1>0 DEF t
      <3> QED
        BY <2>1, <2>2, <3>1, FittingIs
    <2>5. edits' \in 0..MaxEdits
      BY <1>2, <1>e DEF ModOpen
    <2> QED
      BY <2>2, <2>3, <2>4, <2>5
  <1>3. ASSUME NEW op \in {"upd", "note"}, NEW l \in Label \cup {Gone},
               NEW v \in Val \cup {Gone}, op = "upd" => l \in Label /\ v \in Val,
               RewriteOpen(op, l, v)
        PROVE  ConfTypes'
    <2>1. path \in Texts /\ path \in Fitting /\ Len(path.lines) \in Nat
      BY <1>3, FittingIs, TextIs DEF RewriteOpen
    <2>2. PICK new : /\ do' = [op |-> op, step |-> "write", l |-> l, v |-> v,
                               runs |-> FALSE, new |-> new]
                     /\ op = "upd" => \E left \in {Gone, l} :
                          new = UpdLabel(path, l, v, left)
                     /\ op = "note" => new = MkComment(path)
      BY <1>3, Zenon DEF RewriteOpen
    <2>3. new \in Texts /\ Len(new.lines) <= Len(path.lines)
      <3>1. CASE op = "upd"
        <4>1. PICK left \in {Gone, l} : new = UpdLabel(path, l, v, left)
          BY <2>2, <3>1
        <4>2. l \in Label /\ v \in Val
          BY <1>3, <3>1
        <4> QED
          BY <2>1, <4>1, <4>2, UpdLabelIs
      <3>2. CASE op = "note"
        BY <2>1, <2>2, <3>2, FittingIs
      <3> QED
        BY <1>3, <3>1, <3>2
    <2>4. new \in Fitting
      <3>1. Len(path.lines) <= MaxLines /\ MaxLines \in Nat /\ Len(new.lines) \in Nat
        BY <2>1, <2>3, FittingIs, TextIs, ConfAssumption DEF Fits
      <3>2. Fits(new)
        BY <2>1, <2>3, <3>1 DEF Fits
      <3> QED
        BY <2>3, <3>2, FittingIs
    <2>5. swap' = EmptyText /\ unsafe' \in BOOLEAN /\ UNCHANGED <<path, crashes>>
          /\ edits' \in 0..MaxEdits
      BY <1>3, <1>e DEF RewriteOpen
    <2>6. do' \in CallSet
      BY <1>3, <2>2, <2>4
    <2> QED
      BY <1>0, <2>5, <2>6
  <1>4. ASSUME ModLock PROVE ConfTypes'
    BY <1>0, NoCallIs, <1>4 DEF ModLock
  <1>5. ASSUME CloseSwap PROVE ConfTypes'
    BY <1>5 DEF CloseSwap
  <1>6. ASSUME UnlinkPath PROVE ConfTypes'
    BY <1>6 DEF UnlinkPath
  <1>7. ASSUME LinkSwap PROVE ConfTypes'
    BY <1>7 DEF LinkSwap
  <1>8. ASSUME UnlinkSwap PROVE ConfTypes'
    BY <1>0, <1>8 DEF UnlinkSwap
  <1>9. ASSUME EditReturns PROVE ConfTypes'
    BY <1>9, NoCallIs DEF EditReturns
  <1>10. ASSUME Crash PROVE ConfTypes'
    <2>1. do.new \in Texts /\ Fits(do.new)
      BY FittingIs
    <2>2. swap' \in {Gone} \cup Fitting
      <3>1. CASE do.step # "write"
        BY <1>10, <3>1 DEF Crash
      <3>2. CASE do.step = "write"
        <4>1. PICK n \in 0..Len(do.new.lines) :
                     swap' = Text(SubSeq(do.new.lines, 1, n), n > 0)
          BY <1>10, <3>2 DEF Crash
        <4>2. swap' \in Texts /\ Len(swap'.lines) <= Len(do.new.lines)
          BY <2>1, <4>1, FittingIs
        <4>3. PICK u : u = swap'
          OBVIOUS
        <4>4. Len(u.lines) \in Nat /\ Len(do.new.lines) \in Nat /\ MaxLines \in Nat
          BY <2>1, <4>2, <4>3, TextIs, ConfAssumption
        <4>5. Fits(u)
          BY <2>1, <4>2, <4>3, <4>4 DEF Fits
        <4> QED
          BY <4>2, <4>3, <4>5, FittingIs
      <3> QED
        BY <3>1, <3>2
    <2>3. /\ crashes' \in 0..MaxCrashes /\ do' = NoCall
          /\ UNCHANGED <<path, edits, unsafe>>
      BY <1>0, <1>10 DEF Crash
    <2> QED
      BY NoCallIs, <2>2, <2>3
  <1>11. ASSUME UNCHANGED cvars PROVE ConfTypes'
    BY <1>11 DEF cvars
  <1>12. BlankLine \in LineSet
         /\ \A l \in Label, v \in Val : ConfLine("eq", l, v) \in LineSet
    BY LineTypes
  <1>13. ASSUME NEW l \in Label, NEW v \in Val,
                ModOpen(l, v) \/ RewriteOpen("upd", l, v)
                  \/ AddLabel(ConfLine("eq", l, v))
         PROVE  ConfTypes'
    <2>1. CASE ModOpen(l, v)
      BY <1>2, <2>1
    <2>2. CASE RewriteOpen("upd", l, v)
      <3>1. /\ "upd" \in {"upd", "note"} /\ l \in Label \cup {Gone}
            /\ v \in Val \cup {Gone} /\ l \in Label /\ v \in Val
        OBVIOUS
      <3> QED
        BY <1>3, <2>2, <3>1, Zenon
    <2>3. CASE AddLabel(ConfLine("eq", l, v))
      BY <1>1, <1>12, <2>3
    <2> QED
      BY <1>13, <2>1, <2>2, <2>3
  <1>14. ASSUME AddLabel(BlankLine) PROVE ConfTypes'
    BY <1>1, <1>12, <1>14
  <1>15. ASSUME RewriteOpen("note", Gone, Gone) PROVE ConfTypes'
    BY <1>3, <1>15
  <1> HIDE DEF ConfTypes
  <1> QED
    BY <1>4, <1>5, <1>6, <1>7, <1>8, <1>9, <1>10, <1>11, <1>13, <1>14, <1>15
       DEF CNext, ReadOnly

-----------------------------------------------------------------------------
(* Configuration files: what modconf and updlabel change of the answers.   *)

LEMMA ModNext ==
  ASSUME ConfInv, [CNext]_cvars PROVE ModInv'
  <1>0. ConfTypes /\ WholeInv /\ ModInv
    BY DEF ConfInv
  <1>n. do' = NoCall => ModInv'
    BY DEF ModInv, NoCall
  <1>s. ASSUME do.step # "idle",
               \/ do' = [do EXCEPT !.step = "write"]
               \/ do' = [do EXCEPT !.step = "unlink"]
               \/ do' = [do EXCEPT !.step = "link"]
        PROVE  ModInv'
    <2>1. /\ do'.step \in {"write", "unlink", "link"}
          /\ do'.op = do.op /\ do'.l = do.l /\ do'.v = do.v
          /\ do'.new = do.new /\ do'.runs = do.runs
      BY <1>0, <1>s DEF ConfTypes
    <2>2. do.op = "mod" => /\ do.l \in Label /\ do.v \in Val
                           /\ do.runs \/ Says(do.new, do.l, do.v)
      BY <1>0, <1>s DEF ModInv
    <2> QED
      BY <2>1, <2>2 DEF ModInv
  <1>1. ASSUME NEW x, AddLabel(x) PROVE ModInv'
    BY <1>1, <1>n DEF AddLabel, Edit
  <1>2. ASSUME NEW l \in Label, NEW v \in Val, ModOpen(l, v) PROVE ModInv'
    <2> DEFINE t == IF path = Gone THEN EmptyText ELSE path
    <2>1. t \in Texts
      <3>1. t \in Fitting
        BY <1>0, FittingIs DEF ConfTypes
      <3> HIDE DEF t
      <3> QED
        BY <3>1, FittingIs
    <2>2. /\ path' = t
          /\ do' = [op |-> "mod", step |-> "lock", l |-> l, v |-> v,
                    new |-> ModConf(t, l, v), runs |-> t.open /\ Mine(t, l) = {}]
      BY <1>2 DEF ModOpen
    <2> HIDE DEF t
    <2>3. /\ do'.op = "mod" /\ do'.step = "lock" /\ do'.l = l /\ do'.v = v
          /\ do'.new = ModConf(t, l, v) /\ do'.runs = (t.open /\ Mine(t, l) = {})
      BY <2>2
    <2>4. do'.runs \/ Says(do'.new, l, v)
      BY <2>1, <2>3, SaysSo
    <2> QED
      BY <2>2, <2>3, <2>4 DEF ModInv
  <1>3. ASSUME NEW op \in {"upd", "note"}, NEW l, NEW v, RewriteOpen(op, l, v)
        PROVE  ModInv'
    <2>1. do'.op = op /\ do'.step = "write"
      BY <1>3 DEF RewriteOpen
    <2> QED
      BY <2>1 DEF ModInv
  <1>4. ASSUME ModLock PROVE ModInv'
    BY <1>4, <1>n, <1>s DEF ModLock
  <1>5. ASSUME CloseSwap PROVE ModInv'
    BY <1>5, <1>s DEF CloseSwap
  <1>6. ASSUME UnlinkPath PROVE ModInv'
    BY <1>6, <1>s DEF UnlinkPath
  <1>7. ASSUME LinkSwap PROVE ModInv'
    <2>1. path' \in {Gone, do.new} /\ do' = [do EXCEPT !.step = "drop"]
          /\ do.step = "link"
      BY <1>0, <1>7 DEF LinkSwap, WholeInv
    <2>2. /\ do'.step = "drop" /\ do'.op = do.op /\ do'.l = do.l /\ do'.v = do.v
          /\ do'.new = do.new /\ do'.runs = do.runs
      BY <1>0, <2>1 DEF ConfTypes
    <2> QED
      BY <1>0, <2>1, <2>2 DEF ModInv
  <1>8. ASSUME UnlinkSwap PROVE ModInv'
    <2>1. path' = path /\ do' = [do EXCEPT !.step = "idle", !.new = EmptyText]
          /\ do.step = "drop"
      BY <1>8 DEF UnlinkSwap
    <2>2. /\ do'.step = "idle" /\ do'.op = do.op /\ do'.l = do.l /\ do'.v = do.v
          /\ do'.runs = do.runs
      BY <1>0, <2>1 DEF ConfTypes
    <2>3. path \in {Gone, do.new}
          /\ (do.op = "mod" => /\ do.l \in Label /\ do.v \in Val
                               /\ do.runs \/ Says(do.new, do.l, do.v))
      BY <1>0, <2>1 DEF ModInv
    <2> QED
      BY <2>1, <2>2, <2>3 DEF ModInv
  <1>9. ASSUME EditReturns PROVE ModInv'
    BY <1>9, <1>n DEF EditReturns
  <1>10. ASSUME Crash PROVE ModInv'
    BY <1>10, <1>n DEF Crash
  <1>11. ASSUME UNCHANGED cvars PROVE ModInv'
    BY <1>0, <1>11 DEF cvars, ModInv
  <1>12. ASSUME NEW l \in Label, NEW v \in Val,
                ModOpen(l, v) \/ RewriteOpen("upd", l, v)
                  \/ AddLabel(ConfLine("eq", l, v))
         PROVE  ModInv'
    BY <1>1, <1>2, <1>3, <1>12
  <1>13. ASSUME AddLabel(BlankLine) \/ RewriteOpen("note", Gone, Gone) PROVE ModInv'
    BY <1>1, <1>3, <1>13
  <1> QED
    BY <1>4, <1>5, <1>6, <1>7, <1>8, <1>9, <1>10, <1>11, <1>12, <1>13
       DEF CNext, ReadOnly

LEMMA ConfInitInv == CInit => ConfInv
  <1>1. CInit => ModInv
    BY DEF CInit, NoCall, ModInv
  <1> QED
    BY <1>1, TypesInit, WholeInit DEF ConfInv

LEMMA ConfNextInv == ConfInv /\ [CNext]_cvars => ConfInv'
  BY TypesNext, WholeNext, ModNext DEF ConfInv

(* What the invariant says of the files and of the call.                   *)
LEMMA ConfSays == ConfInv => CTypeOK /\ NothingLost /\ WholeText /\ ReadsBack
  <1>1. SUFFICES ASSUME ConfInv PROVE CTypeOK /\ NothingLost /\ WholeText /\ ReadsBack
    OBVIOUS
  <1>2. ConfTypes /\ WholeInv /\ ModInv
    BY <1>1 DEF ConfInv
  <1>3. CTypeOK
    <2>1. do.new # Gone
      BY <1>2, FittingIs DEF ConfTypes
    <2>2. (path = Gone \/ Fits(path)) /\ (swap = Gone \/ Fits(swap))
      BY <1>2, FittingIs DEF ConfTypes
    <2>3. do.step \in {"unlink", "link", "drop"} => swap # Gone
      BY <1>2, <2>1 DEF WholeInv
    <2> QED
      BY <1>2, <2>2, <2>3 DEF CTypeOK, ConfTypes, Stages
  <1>4. ReadsBack
    <2>1. SUFFICES ASSUME Done("mod") /\ ~do.runs
                   PROVE  LET i == FirstOf(path, do.l)
                          IN  /\ i # 0
                              /\ path.lines[i].l = do.l => GetConf(path, do.l) = do.v
      BY DEF ReadsBack
    <2>2. Says(path, do.l, do.v)
      BY <1>2, <2>1 DEF Done, ModInv
    <2>3. path \in Texts
      BY <1>2, <2>1, FittingIs DEF ConfTypes, Done
    <2> QED
      BY <2>2, <2>3, SaysAnswers
  <1> QED
    BY <1>2, <1>3, <1>4 DEF WholeInv

(* And of the steps that write.                                            *)
OthersStep ==
  do.op = "mod" /\ do.step = "lock" /\ do'.step = "write" =>
    \A l \in Label :
      \/ Upper(l) = Upper(do.l) \/ GetConf(do.new, l) = GetConf(path, l)
      \/ do.runs /\ Upper(l) = Upper(path.lines[Len(path.lines)].l)
RunsOnStep ==
  do'.op = "upd" /\ do'.step = "write" /\ FindLabel(path, do'.l)
    /\ path.lines[1].k # "blank" =>
      LET i == Earliest(Begun(path, do'.l))
      IN  GetLabel(do'.new, do'.l) =
            IF i = Len(path.lines) \/ path.lines[i + 1].k = "note"
            THEN do'.v ELSE "other"

LEMMA OthersSteps == ConfInv => OthersStep
  <1>1. SUFFICES ASSUME ConfInv, do.op = "mod", do.step = "lock", NEW l \in Label,
                        Upper(l) # Upper(do.l)
                 PROVE  \/ GetConf(do.new, l) = GetConf(path, l)
                        \/ do.runs /\ Upper(l) = Upper(path.lines[Len(path.lines)].l)
    BY DEF OthersStep
  <1>2. ConfTypes /\ WholeInv /\ ModInv
    BY <1>1 DEF ConfInv
  <1>3. path \in Texts
    BY <1>1, <1>2, FittingIs DEF ConfTypes, WholeInv
  <1>4. /\ do.l \in Label /\ do.v \in Val /\ do.new = ModConf(path, do.l, do.v)
        /\ do.runs = (path.open /\ Mine(path, do.l) = {})
    BY <1>1, <1>2 DEF ModInv
  <1> QED
    <2>1. /\ Upper(l) # Upper(do.l) /\ path \in Texts
          /\ do.l \in Label /\ do.v \in Val
      BY <1>1, <1>3, <1>4
    <2>2. \/ GetConf(ModConf(path, do.l, do.v), l) = GetConf(path, l)
          \/ /\ path.open /\ Mine(path, do.l) = {}
             /\ Upper(l) = Upper(path.lines[Len(path.lines)].l)
      BY <2>1, OthersAnswered, Zenon
    <2>3. path.open /\ Mine(path, do.l) = {} => do.runs
      BY <1>4
    <2>4. do.new = ModConf(path, do.l, do.v)
      BY <1>4
    <2> QED
      BY <2>2, <2>3, <2>4

LEMMA RunsOnSteps == ConfInv /\ CNext => RunsOnStep
  <1>1. SUFFICES ASSUME ConfInv, CNext,
                        do'.op = "upd", do'.step = "write", FindLabel(path, do'.l),
                        path.lines[1].k # "blank"
                 PROVE  GetLabel(do'.new, do'.l) =
                          ReadAs(path, Earliest(Begun(path, do'.l)), do'.v)
    BY DEF RunsOnStep, ReadAs
  <1>2. ConfTypes /\ WholeInv /\ ModInv
    BY <1>1 DEF ConfInv
  <1>3. path \in Texts
    BY <1>1, <1>2, FittingIs DEF ConfTypes, FindLabel
  <1>4. \E l \in Label, v \in Val : RewriteOpen("upd", l, v)
    <2>1. ASSUME NEW x, AddLabel(x) PROVE FALSE
      BY <1>1, <2>1 DEF AddLabel, Edit, NoCall
    <2>2. ASSUME NEW l, NEW v, ModOpen(l, v) PROVE FALSE
      BY <1>1, <2>2 DEF ModOpen
    <2>3. ASSUME RewriteOpen("note", Gone, Gone) PROVE FALSE
      BY <1>1, <2>3 DEF RewriteOpen
    <2>4. ASSUME ModLock PROVE FALSE
      <3>1. do.step = "lock" /\ do.op = "mod"
        BY <1>2, <2>4 DEF ModLock, ModInv
      <3> QED
        BY <1>1, <1>2, <2>4, <3>1 DEF ModLock, NoCall, ConfTypes
    <2>5. ASSUME CloseSwap \/ UnlinkPath \/ LinkSwap \/ UnlinkSwap PROVE FALSE
      BY <1>1, <1>2, <2>5 DEF CloseSwap, UnlinkPath, LinkSwap, UnlinkSwap, ConfTypes
    <2>6. ASSUME EditReturns \/ Crash \/ ReadOnly PROVE FALSE
      BY <1>1, <2>6 DEF EditReturns, Crash, ReadOnly, NoCall, cvars
    <2> QED
      BY <1>1, <2>1, <2>2, <2>3, <2>4, <2>5, <2>6, Zenon DEF CNext
  <1>5. PICK l \in Label, v \in Val : RewriteOpen("upd", l, v)
    BY <1>4
  <1>6. PICK left \in {Gone, l} : /\ do'.l = l /\ do'.v = v
                                  /\ do'.new = UpdLabel(path, l, v, left)
    BY <1>5 DEF RewriteOpen
  <1> QED
    BY <1>1, <1>3, <1>6, LabelReadAs

(* For every text, whether its last line is finished or not, and for every *)
(* number of edits and crashes: one of the two files has the text of the   *)
(* last finished edits, nobody finds a half-written one, getconf answers   *)
(* what modconf wrote and for other labels what it answered before, and    *)
(* getlabel what updlabel wrote, but where a line has run into another.    *)
THEOREM TextIsKept == CSpec => TextKept
  <1>1. ConfInv /\ [CNext]_cvars => [OthersStep]_cvars
    BY OthersSteps
  <1>2. ConfInv /\ [CNext]_cvars => [RunsOnStep]_cvars
    BY RunsOnSteps
  <1>3. CSpec => [](CTypeOK /\ NothingLost /\ WholeText /\ ReadsBack)
    BY ConfInitInv, ConfNextInv, ConfSays, PTL DEF CSpec
  <1>4. CSpec => [][OthersStep]_cvars /\ [][RunsOnStep]_cvars
    BY ConfInitInv, ConfNextInv, <1>1, <1>2, PTL DEF CSpec
  <1> QED
    BY <1>3, <1>4 DEF TextKept, OthersKept, RunsOn, OthersStep, RunsOnStep
=============================================================================

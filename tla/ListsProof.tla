----------------------------- MODULE ListsProof -----------------------------
(***************************************************************************)
(* Proofs that the lists of lib/list.h are sequences, one at every head,   *)
(* for any number of heads and nodes or entries.                           *)
(*                                                                         *)
(* The first part is what they and QueuesProof share: what a sequence is   *)
(* when one element enters or leaves, what a walk along a chain of         *)
(* pointers visits (AlongIs), and when the sequences of several heads      *)
(* share nothing (Apart).                                                  *)
(*                                                                         *)
(* Lists for hash tables: HShape says of every place in a chain where its  *)
(* pointers lead, the head being the place before the first.  One lemma    *)
(* says what becomes of all chains when a node enters at a place, one when *)
(* a node leaves; HBecoming, what a call has to show of the chains it      *)
(* leaves.  An iteration takes out the node it is at only, and that node   *)
(* keeps its pointer, so what is still to be visited is linked as when the *)
(* iteration began (InPass).                                               *)
(*                                                                         *)
(* Circular lists: LShape says of every place in a list where its pointers *)
(* lead, the head being the place before the first and behind the last.  A *)
(* call lets an entry in or out at a place, cuts a list in two, or puts    *)
(* one into another: a lemma says for each what becomes of the rings of    *)
(* all heads, and LBecoming what a call has to show of the lists it        *)
(* leaves.  Entries may come and go before the one that an iteration is    *)
(* at, so InWalk compares the list with the one the iteration began with   *)
(* from its end on.                                                        *)
(***************************************************************************)
EXTENDS HList, ListHead, FiniteSetTheorems, SequenceTheorems, WellFoundedInduction, TLAPS

-----------------------------------------------------------------------------
(* Sequences.                                                              *)

(* Every set of numbers has a least one.                                   *)
LEMMA LeastOf ==
  ASSUME NEW S \in SUBSET Nat, S # {}
  PROVE  \E m \in S : \A k \in S : m <= k
  <1>1. PICK m \in S : \A k \in S : <<k, m>> \notin OpToRel(<, Nat)
    BY NatLessThanWellFounded, WFMin, Zenon
  <1>2. \A k \in S : ~(k < m)
    BY <1>1, Zenon DEF OpToRel
  <1> QED
    BY <1>2

(* A part of a sequence, element by element.                               *)
LEMMA PartOf ==
  ASSUME NEW S, NEW s \in Seq(S), NEW a \in 1..(Len(s) + 1), NEW b \in 0..Len(s),
         a <= b + 1
  PROVE  /\ SubSeq(s, a, b) \in Seq(S) /\ Len(SubSeq(s, a, b)) = b + 1 - a
         /\ \A i \in 1..(b + 1 - a) : SubSeq(s, a, b)[i] = s[a + i - 1]
  <1> DEFINE l == Len(s)
             r == SubSeq(s, a, b)
  <1>1. l \in Nat /\ \A i \in 1..l : s[i] \in S
    BY LenProperties, ElementOfSeq
  <1> HIDE DEF l
  <1>2. a \in 1..(l + 1) /\ b \in 0..l
    BY DEF l
  <1>3. a \in Int /\ b \in Int /\ \A i \in a..b : s[i] \in S
    BY <1>1, <1>2
  <1>4. /\ r \in Seq(S) /\ Len(r) = IF a <= b THEN b - a + 1 ELSE 0
        /\ \A i \in 1..(b - a + 1) : r[i] = s[a + i - 1]
    BY <1>3, SubSeqProperties
  <1> HIDE DEF r
  <1>5. Len(r) = b + 1 - a /\ b - a + 1 = b + 1 - a
    BY <1>1, <1>2, <1>4
  <1>6. \A i \in 1..(b + 1 - a) : r[i] = s[a + i - 1]
    BY <1>4, <1>5
  <1> QED
    BY <1>4, <1>5, <1>6 DEF r

(* Two sequences in a row, element by element.                             *)
LEMMA RowOf ==
  ASSUME NEW S, NEW s \in Seq(S), NEW t \in Seq(S)
  PROVE  /\ s \o t \in Seq(S) /\ Len(s \o t) = Len(s) + Len(t)
         /\ Len(s) \in Nat /\ Len(t) \in Nat
         /\ \A i \in 1..(Len(s) + Len(t)) :
              (s \o t)[i] = IF i <= Len(s) THEN s[i] ELSE t[i - Len(s)]
  <1>1. Len(s) \in Nat /\ Len(t) \in Nat
    BY LenProperties
  <1> QED
    BY <1>1, ConcatProperties, Zenon

(* r is s with e at place i; and s without what is there.                  *)
WithOne(r, S, s, i, e) ==
  /\ r \in Seq(S) /\ Len(r) = Len(s) + 1 /\ Len(s) \in Nat
  /\ \A j \in 1..(Len(s) + 1) : r[j] = IF j < i THEN s[j] ELSE
                                      IF j = i THEN e ELSE s[j - 1]
WithoutOne(r, S, s, i) ==
  /\ r \in Seq(S) /\ Len(r) = Len(s) - 1 /\ Len(s) \in Nat
  /\ \A j \in 1..(Len(s) - 1) : r[j] = IF j < i THEN s[j] ELSE s[j + 1]

(* An element that enters, and one that leaves.                            *)
LEMMA Inserted ==
  ASSUME NEW S, NEW s \in Seq(S), NEW i \in 1..(Len(s) + 1), NEW e \in S
  PROVE  WithOne(InsertAt(s, i, e), S, s, i, e)
  <1> DEFINE l == Len(s)
             a == SubSeq(s, 1, i - 1)
             b == SubSeq(s, i, l)
             m == <<e>>
             am == a \o m
             r == am \o b
  <1>1. l \in Nat
    BY LenProperties
  <1>2. i \in 1..(l + 1)
    OBVIOUS
  <1>o. PICK one : one = 1
    OBVIOUS
  <1>3. /\ one \in 1..(l + 1) /\ i - 1 \in 0..l /\ one <= i - 1 + 1 /\ l \in 0..l
        /\ i <= l + 1
    BY <1>1, <1>2, <1>o
  <1>4. /\ a \in Seq(S) /\ Len(a) = i - 1 /\ \A j \in 1..(i - 1) : a[j] = s[j]
    <2>1. /\ SubSeq(s, one, i - 1) \in Seq(S)
               /\ Len(SubSeq(s, one, i - 1)) = i - 1 + 1 - one
          /\ \A j \in 1..(i - 1 + 1 - one) : SubSeq(s, one, i - 1)[j] = s[one + j - 1]
      BY <1>3, PartOf
    <2>2. a = SubSeq(s, one, i - 1)
      BY <1>o
    <2> HIDE DEF a
    <2> QED
      BY <1>2, <1>1, <1>o, <2>1, <2>2
  <1>5. /\ b \in Seq(S) /\ Len(b) = l + 1 - i
             /\ \A j \in 1..(l + 1 - i) : b[j] = s[i + j - 1]
    BY <1>2, <1>3, PartOf
  <1>6. m \in Seq(S) /\ Len(m) = 1 /\ m[1] = e
    OBVIOUS
  <1>7. InsertAt(s, i, e) = r
    BY DEF InsertAt
  <1> HIDE DEF l, a, b, m
  <1>8. /\ am \in Seq(S) /\ Len(am) = Len(a) + Len(m)
        /\ \A j \in 1..(Len(a) + Len(m)) : am[j] =
             IF j <= Len(a) THEN a[j] ELSE m[j - Len(a)]
    BY <1>4, <1>6, RowOf, Zenon
  <1> HIDE DEF am
  <1>9. /\ r \in Seq(S) /\ Len(r) = Len(am) + Len(b)
        /\ \A j \in 1..(Len(am) + Len(b)) : r[j] =
             IF j <= Len(am) THEN am[j] ELSE b[j - Len(am)]
    <2>1. am \in Seq(S) /\ b \in Seq(S)
      BY <1>5, <1>8
    <2> QED
      BY <2>1, RowOf
  <1> HIDE DEF r
  <1>10. Len(am) = i /\ Len(r) = l + 1
    BY <1>1, <1>2, <1>4, <1>5, <1>6, <1>8, <1>9
  <1>11. ASSUME NEW j \in 1..(l + 1)
         PROVE  r[j] = IF j < i THEN s[j] ELSE IF j = i THEN e ELSE s[j - 1]
    <2>1. r[j] = IF j <= i THEN am[j] ELSE b[j - i]
      BY <1>1, <1>2, <1>5, <1>9, <1>10
    <2>2. CASE j < i
      <3>1. j \in 1..(i - 1) /\ j \in 1..(Len(a) + Len(m)) /\ j <= Len(a) /\ j <= i
        BY <1>1, <1>2, <1>4, <1>6, <2>2
      <3> QED
        BY <1>4, <1>8, <2>1, <2>2, <3>1
    <2>3. CASE j = i
      <3>1. j \in 1..(Len(a) + Len(m)) /\ ~(j <= Len(a)) /\ j - Len(a) = 1 /\ j <= i
              /\ ~(j < i)
        BY <1>1, <1>2, <1>4, <1>6, <2>3
      <3> QED
        BY <1>6, <1>8, <2>1, <2>3, <3>1
    <2>4. CASE i < j
      <3>1. j - i \in 1..(l + 1 - i) /\ i + (j - i) - 1 = j - 1 /\ ~(j <= i)
        BY <1>1, <1>2, <2>4
      <3>2. b[j - i] = s[i + (j - i) - 1]
        BY <1>5, <3>1
      <3> QED
        BY <1>2, <2>1, <2>4, <3>1, <3>2
    <2> QED
      BY <1>1, <1>2, <2>2, <2>3, <2>4
  <1> QED
    BY <1>1, <1>7, <1>9, <1>10, <1>11 DEF l, WithOne

(* And one that leaves.                                                    *)
LEMMA Removed ==
  ASSUME NEW S, NEW s \in Seq(S), NEW i \in 1..Len(s)
  PROVE  WithoutOne(RemoveAt(s, i), S, s, i)
  <1> DEFINE l == Len(s)
             a == SubSeq(s, 1, i - 1)
             b == SubSeq(s, i + 1, l)
             r == a \o b
  <1>1. l \in Nat
    BY LenProperties
  <1>2. i \in 1..l
    OBVIOUS
  <1>o. PICK one : one = 1
    OBVIOUS
  <1>3. /\ one \in 1..(l + 1) /\ i - 1 \in 0..l /\ one <= i - 1 + 1 /\ l \in 0..l
        /\ i + 1 \in 1..(l + 1) /\ i + 1 <= l + 1
    BY <1>1, <1>2, <1>o
  <1>4. /\ a \in Seq(S) /\ Len(a) = i - 1 /\ \A j \in 1..(i - 1) : a[j] = s[j]
    <2>1. /\ SubSeq(s, one, i - 1) \in Seq(S)
               /\ Len(SubSeq(s, one, i - 1)) = i - 1 + 1 - one
          /\ \A j \in 1..(i - 1 + 1 - one) : SubSeq(s, one, i - 1)[j] = s[one + j - 1]
      BY <1>3, PartOf
    <2>2. a = SubSeq(s, one, i - 1)
      BY <1>o
    <2> HIDE DEF a
    <2> QED
      BY <1>2, <1>1, <1>o, <2>1, <2>2
  <1>5. /\ b \in Seq(S) /\ Len(b) = l + 1 - (i + 1)
        /\ \A j \in 1..(l + 1 - (i + 1)) : b[j] = s[i + 1 + j - 1]
    BY <1>3, PartOf
  <1>7. RemoveAt(s, i) = r
    BY DEF RemoveAt
  <1> HIDE DEF l, a, b
  <1>9. /\ r \in Seq(S) /\ Len(r) = Len(a) + Len(b)
        /\ \A j \in 1..(Len(a) + Len(b)) : r[j] =
             IF j <= Len(a) THEN a[j] ELSE b[j - Len(a)]
    BY <1>4, <1>5, RowOf, Zenon
  <1> HIDE DEF r
  <1>10. Len(r) = l - 1
    BY <1>1, <1>2, <1>4, <1>5, <1>9
  <1>11. ASSUME NEW j \in 1..(l - 1)
         PROVE  r[j] = IF j < i THEN s[j] ELSE s[j + 1]
    <2>1. r[j] = IF j <= i - 1 THEN a[j] ELSE b[j - (i - 1)]
      BY <1>1, <1>2, <1>4, <1>5, <1>9
    <2>2. CASE j < i
      <3>1. j \in 1..(i - 1) /\ j <= i - 1
        BY <1>1, <1>2, <2>2
      <3> QED
        BY <1>4, <2>1, <2>2, <3>1
    <2>4. CASE i <= j
      <3>1. /\ j - (i - 1) \in 1..(l + 1 - (i + 1)) /\ i + 1 + (j - (i - 1)) - 1 = j + 1
            /\ ~(j <= i - 1) /\ ~(j < i)
        BY <1>1, <1>2, <2>4
      <3>2. b[j - (i - 1)] = s[i + 1 + (j - (i - 1)) - 1]
        BY <1>5, <3>1
      <3> QED
        BY <2>1, <3>1, <3>2
    <2> QED
      BY <1>1, <1>2, <2>2, <2>4
  <1> QED
    BY <1>1, <1>7, <1>9, <1>10, <1>11 DEF l, WithoutOne

(* Induction up to a number, of a set.                                     *)
LEMMA UpTo ==
  ASSUME NEW N \in Nat, NEW P, 0 \in P, \A k \in 1..N : k - 1 \in P => k \in P
  PROVE  0..N \subseteq P
  <1> DEFINE Bad == {k \in 0..N : k \notin P}
  <1>1. SUFFICES ASSUME Bad # {} PROVE FALSE
    OBVIOUS
  <1>2. Bad \in SUBSET Nat
    OBVIOUS
  <1>3. PICK k \in Bad : \A j \in Bad : k <= j
    BY <1>1, <1>2, LeastOf
  <1>4. k \in 1..N /\ k - 1 \in 0..N /\ ~(k <= k - 1)
    BY <1>3
  <1>5. k - 1 \in P
    BY <1>3, <1>4
  <1> QED
    BY <1>3, <1>4, <1>5

(* There is room for every queue; and it has as many messages as places.   *)
LEMMA Room ==
  ASSUME NEW S, IsFiniteSet(S), NEW s \in Seq(S), NoTwice(s)
  PROVE  /\ Len(s) \in Nat /\ Cardinality(S) \in Nat /\ Len(s) <= Cardinality(S)
         /\ Cardinality(ToSet(s)) = Len(s)
  <1> DEFINE l == Len(s)
             D == 1..l
  <1>1. l \in Nat /\ DOMAIN s = D /\ s \in [D -> S]
    BY LenProperties
  <1>2. IsFiniteSet(S) /\ Cardinality(S) \in Nat
    BY FS_CardinalityType
  <1> HIDE DEF l
  <1>3. IsFiniteSet(D) /\ Cardinality(D) = l
    <2>1. 1 \in Int /\ l \in Int
      BY <1>1
    <2>2. Cardinality(1..l) = IF 1 > l THEN 0 ELSE l - 1 + 1
      BY <2>1, FS_Interval
    <2>3. IsFiniteSet(1..l)
      BY <2>1, FS_Interval
    <2> QED
      BY <1>1, <2>2, <2>3
  <1>4. s \in Injection(D, S)
    BY <1>1 DEF NoTwice, Injection, IsInjective
  <1>5. l <= Cardinality(S)
    <2> HIDE DEF D
    <2> QED
      BY <1>2, <1>3, <1>4, FS_Injection
  <1>6. s \in Bijection(D, ToSet(s))
    BY <1>1 DEF NoTwice, ToSet, Bijection, Injection, IsInjective, Surjection
  <1>7. Cardinality(ToSet(s)) = l
    <2> DEFINE T == ToSet(s)
    <2>1. ExistsBijection(D, T)
      BY <1>6 DEF ExistsBijection
    <2> HIDE DEF D, T
    <2> QED
      BY <1>3, <2>1, FS_Bijection DEF T
  <1> QED
    BY <1>1, <1>2, <1>5, <1>7 DEF l

(* A walk along links that lead through t visits t.                        *)
IsAlong(f, from, link, stop, turns) ==
  f = [i \in 0..turns |->
        IF i = 0 THEN [seq |-> <<>>, at |-> from]
        ELSE IF f[i - 1].at \in stop THEN f[i - 1]
             ELSE [seq |-> Append(f[i - 1].seq, f[i - 1].at), at |-> link[f[i - 1].at]]]

LEMMA AlongIs ==
  ASSUME NEW S, NEW t \in Seq(S), NEW N \in Nat, Len(t) <= N,
         NEW stop, NEW e \in stop, S \cap stop = {},
         NEW from, NEW link, from = Place(e, t, 1),
         \A i \in 1..Len(t) : link[t[i]] = Place(e, t, i + 1)
  PROVE  Along(from, link, stop, N) = t
  <1> DEFINE l == Len(t)
             M(k) == IF k <= l THEN k ELSE l
             g == [k \in 0..N |-> [seq |-> SubSeq(t, 1, M(k)),
                                   at |-> Place(e, t, k + 1)]]
             f == CHOOSE f : IsAlong(f, from, link, stop, N)
  <1>1. l \in Nat /\ DOMAIN t = 1..l /\ (\A i \in 1..l : t[i] \in S) /\ l <= N
          /\ N \in Nat
    BY LenProperties, ElementOfSeq
  <1>2. \A i \in 1..l : t[i] \notin stop
    BY <1>1
  <1>3. \A i \in 1..l : link[t[i]] = Place(e, t, i + 1)
    OBVIOUS
  <1> HIDE DEF l
  <1>4. \A i \in Nat : Place(e, t, i) = IF i \in 1..l THEN t[i] ELSE e
    BY <1>1 DEF Place
  <1>5. ASSUME NEW i \in 1..N
        PROVE  g[i] = IF g[i - 1].at \in stop THEN g[i - 1]
                      ELSE [seq |-> Append(g[i - 1].seq, g[i - 1].at),
                            at |-> link[g[i - 1].at]]
    <2>0. i \in 0..N /\ i - 1 \in 0..N /\ i - 1 + 1 = i
      BY <1>1
    <2>1. g[i - 1] = [seq |-> SubSeq(t, 1, M(i - 1)), at |-> Place(e, t, i)]
      <3>1. PICK k : k = i - 1
        OBVIOUS
      <3>2. k \in 0..N /\ k + 1 = i
        BY <2>0, <3>1
      <3>3. g[k] = [seq |-> SubSeq(t, 1, M(k)), at |-> Place(e, t, k + 1)]
        BY <3>2
      <3> HIDE DEF g, M
      <3> QED
        BY <3>1, <3>2, <3>3
    <2>2. CASE i <= l
      <3>1. i \in 1..l /\ M(i) = i /\ M(i - 1) = i - 1
        BY <1>1, <2>2
      <3>2. g[i - 1].at = t[i] /\ t[i] \notin stop
        <4>1. g[i - 1].at = Place(e, t, i)
          <5> HIDE DEF g
          <5> QED
            BY <2>1
        <4> HIDE DEF g
        <4> QED
          BY <1>2, <1>4, <3>1, <4>1
      <3>3. Append(SubSeq(t, 1, i - 1), t[i]) = SubSeq(t, 1, i)
        <4>1. PICK one : one = 1
          OBVIOUS
        <4>2. one \in 1..Len(t) /\ i \in one..Len(t)
          BY <3>1, <4>1, <1>1 DEF l
        <4> HIDE DEF g, M
        <4>3. SubSeq(t, one, i) = SubSeq(t, one, i - 1) \o <<t[i]>>
          BY <4>2, SubSeqRecursiveSecond, Zenon
        <4>4. SubSeq(t, one, i - 1) \in Seq(S) /\ t[i] \in S
          <5>1. one \in 1..(Len(t) + 1) /\ i - 1 \in 0..Len(t) /\ one <= i - 1 + 1
            BY <1>1, <3>1, <4>1 DEF l
          <5> QED
            BY <1>1, <3>1, <5>1, PartOf
        <4>5. Append(SubSeq(t, one, i - 1), t[i]) = SubSeq(t, one, i - 1) \o <<t[i]>>
          BY <4>4, AppendIsConcat, Zenon
        <4> QED
          BY <4>1, <4>3, <4>5
      <3>4. link[t[i]] = Place(e, t, i + 1)
        BY <1>3, <3>1
      <3>5. g[i] = [seq |-> SubSeq(t, 1, i), at |-> Place(e, t, i + 1)]
        BY <2>0, <3>1
      <3>6. g[i - 1].seq = SubSeq(t, 1, i - 1)
        <4> HIDE DEF g, M
        <4> QED
          BY <2>1, <3>1
      <3> HIDE DEF g, M
      <3> QED
        BY <3>2, <3>3, <3>4, <3>5, <3>6
    <2>3. CASE l < i
      <3>1. M(i) = l /\ M(i - 1) = l /\ Place(e, t, i) = e /\ Place(e, t, i + 1) = e
        BY <1>1, <1>4, <2>3
      <3>2. g[i] = [seq |-> SubSeq(t, 1, l), at |-> e]
        BY <2>0, <3>1
      <3>3. g[i - 1] = [seq |-> SubSeq(t, 1, l), at |-> e]
        <4> HIDE DEF g
        <4> QED
          BY <2>1, <3>1
      <3> HIDE DEF g
      <3> QED
        BY <3>2, <3>3
    <2> QED
      BY <1>1, <2>2, <2>3
  <1>6. g[0] = [seq |-> <<>>, at |-> from]
    <2>1. SubSeq(t, 1, 0) = <<>>
      BY SubSeqEmpty
    <2>2. M(0) = 0 /\ 0 \in 0..N /\ Place(e, t, 0 + 1) = from
      BY <1>1
    <2> QED
      BY <2>1, <2>2
  <1>7. IsAlong(f, from, link, stop, N)
    <2>1. IsAlong(g, from, link, stop, N)
      <3> DEFINE h == [i \in 0..N |->
                        IF i = 0 THEN [seq |-> <<>>, at |-> from]
                        ELSE IF g[i - 1].at \in stop THEN g[i - 1]
                             ELSE [seq |-> Append(g[i - 1].seq, g[i - 1].at),
                                   at |-> link[g[i - 1].at]]]
      <3>1. DOMAIN g = 0..N /\ g = [i \in 0..N |-> g[i]]
        OBVIOUS
      <3> HIDE DEF g
      <3>2. ASSUME NEW i \in 0..N PROVE g[i] = h[i]
        <4>1. i = 0 \/ i \in 1..N
          BY <1>1
        <4> QED
          BY <1>5, <1>6, <4>1
      <3>3. g = h
        BY <3>1, <3>2
      <3> QED
        BY <3>3 DEF IsAlong
    <2> HIDE DEF g
    <2> QED
      BY <2>1
  <1>8. Along(from, link, stop, N) = f[N].seq
    BY DEF Along, IsAlong
  <1> DEFINE P == {k \in 0..N : f[k] = g[k]}
  <1> HIDE DEF f
  <1>9. 0..N \subseteq P
    <2> HIDE DEF g
    <2>1. 0 \in P
      BY <1>1, <1>6, <1>7 DEF IsAlong
    <2>2. ASSUME NEW k \in 1..N, k - 1 \in P PROVE k \in P
      <3>1. k \in 0..N /\ k # 0 /\ f[k - 1] = g[k - 1]
        BY <1>1, <2>2
      <3>2. f[k] = IF f[k - 1].at \in stop THEN f[k - 1]
                   ELSE [seq |-> Append(f[k - 1].seq, f[k - 1].at),
                     at |-> link[f[k - 1].at]]
        BY <3>1, <1>7 DEF IsAlong
      <3> QED
        BY <1>5, <3>1, <3>2
    <2> HIDE DEF P
    <2> QED
      BY <1>1, <2>1, <2>2, UpTo
  <1>10. f[N] = g[N]
    <2> HIDE DEF g
    <2> QED
      BY <1>1, <1>9
  <1>11. g[N].seq = SubSeq(t, 1, l)
    <2>1. M(N) = l /\ N \in 0..N
      BY <1>1
    <2> QED
      BY <2>1
  <1>12. SubSeq(t, 1, l) = t
    BY SubSeqFull DEF l
  <1> QED
    BY <1>8, <1>10, <1>11, <1>12

(* A sequence from its end.                                                *)
LEMMA ReverseIs ==
  ASSUME NEW S, NEW s \in Seq(S)
  PROVE  /\ Reverse(s) \in Seq(S) /\ Len(Reverse(s)) = Len(s) /\ Len(s) \in Nat
         /\ \A i \in 1..Len(s) : Reverse(s)[i] = s[Len(s) - i + 1]
  <1>1. Len(s) \in Nat /\ \A i \in 1..Len(s) : s[i] \in S
    BY LenProperties, ElementOfSeq
  <1>2. \A i \in 1..Len(s) : s[Len(s) - i + 1] \in S
    BY <1>1
  <1>3. Reverse(s) = [i \in 1..Len(s) |-> s[Len(s) - i + 1]]
    BY DEF Reverse
  <1>4. Reverse(s) \in Seq(S) /\ Len(Reverse(s)) = Len(s)
    BY <1>1, <1>2, <1>3, IsASeq
  <1> QED
    BY <1>1, <1>3, <1>4

-----------------------------------------------------------------------------
(* Places.                                                                 *)

(* The places of a sequence, and the ones before and behind it.            *)
LEMMA PlaceIs ==
  ASSUME NEW S, NEW s \in Seq(S), NEW e
  PROVE  /\ Len(s) \in Nat /\ DOMAIN s = 1..Len(s)
         /\ \A i \in Int : Place(e, s, i) = IF i \in 1..Len(s) THEN s[i] ELSE e
         /\ \A i \in 1..Len(s) : s[i] \in S
  <1>1. Len(s) \in Nat /\ DOMAIN s = 1..Len(s) /\ \A i \in 1..Len(s) : s[i] \in S
    BY LenProperties, ElementOfSeq
  <1> QED
    BY <1>1 DEF Place

(* What is where after one element has entered, and after one has left.    *)
InsertedAt(r, e, s, i, x) ==
  \A j \in Int : Place(e, r, j) = IF j < i THEN Place(e, s, j) ELSE
                                 IF j = i THEN x ELSE Place(e, s, j - 1)
RemovedAt(r, e, s, i) ==
  \A j \in Int : Place(e, r, j) = IF j < i THEN Place(e, s, j) ELSE Place(e, s, j + 1)

LEMMA PlaceInserted ==
  ASSUME NEW S, NEW s \in Seq(S), NEW i \in 1..(Len(s) + 1), NEW x \in S, NEW e,
         NEW r, WithOne(r, S, s, i, x)
  PROVE  InsertedAt(r, e, s, i, x)
  <1> DEFINE l == Len(s)
  <1>1. /\ l \in Nat /\ i \in 1..(l + 1) /\ r \in Seq(S) /\ Len(r) = l + 1
        /\ \A j \in 1..(l + 1) : r[j] = IF j < i THEN s[j] ELSE
                                        IF j = i THEN x ELSE s[j - 1]
    BY DEF WithOne
  <1>2. \A j \in Int : Place(e, s, j) = IF j \in 1..l THEN s[j] ELSE e
    BY PlaceIs
  <1>3. \A j \in Int : Place(e, r, j) = IF j \in 1..(l + 1) THEN r[j] ELSE e
    <2>1. \A j \in Int : Place(e, r, j) = IF j \in 1..Len(r) THEN r[j] ELSE e
      BY <1>1, PlaceIs
    <2> QED
      BY <1>1, <2>1
  <1> HIDE DEF l
  <1>4. ASSUME NEW j \in Int
        PROVE  Place(e, r, j) = IF j < i THEN Place(e, s, j) ELSE
                                IF j = i THEN x ELSE Place(e, s, j - 1)
    <2>1. Place(e, s, j) = IF j \in 1..l THEN s[j] ELSE e
      BY <1>2
    <2>2. Place(e, s, j - 1) = IF j - 1 \in 1..l THEN s[j - 1] ELSE e
      BY <1>2
    <2>3. Place(e, r, j) = IF j \in 1..(l + 1) THEN r[j] ELSE e
      BY <1>3
    <2>4. CASE j \in 1..(l + 1)
      <3>1. r[j] = IF j < i THEN s[j] ELSE IF j = i THEN x ELSE s[j - 1]
        BY <1>1, <2>4
      <3> QED
        BY <1>1, <2>1, <2>2, <2>3, <2>4, <3>1
    <2>5. CASE j \notin 1..(l + 1)
      BY <1>1, <2>1, <2>2, <2>3, <2>5
    <2> QED
      BY <2>4, <2>5
  <1> QED
    BY <1>4 DEF InsertedAt

LEMMA PlaceRemoved ==
  ASSUME NEW S, NEW s \in Seq(S), NEW i \in 1..Len(s), NEW e,
         NEW r, WithoutOne(r, S, s, i)
  PROVE  RemovedAt(r, e, s, i)
  <1> DEFINE l == Len(s)
  <1>1. /\ l \in Nat /\ i \in 1..l /\ r \in Seq(S) /\ Len(r) = l - 1
        /\ \A j \in 1..(l - 1) : r[j] = IF j < i THEN s[j] ELSE s[j + 1]
    BY DEF WithoutOne
  <1>2. \A j \in Int : Place(e, s, j) = IF j \in 1..l THEN s[j] ELSE e
    BY PlaceIs
  <1>3. \A j \in Int : Place(e, r, j) = IF j \in 1..(l - 1) THEN r[j] ELSE e
    <2>1. \A j \in Int : Place(e, r, j) = IF j \in 1..Len(r) THEN r[j] ELSE e
      BY <1>1, PlaceIs
    <2> QED
      BY <1>1, <2>1
  <1> HIDE DEF l
  <1>4. ASSUME NEW j \in Int
        PROVE  Place(e, r, j) = IF j < i THEN Place(e, s, j) ELSE Place(e, s, j + 1)
    <2>1. Place(e, s, j) = IF j \in 1..l THEN s[j] ELSE e
      BY <1>2
    <2>2. Place(e, s, j + 1) = IF j + 1 \in 1..l THEN s[j + 1] ELSE e
      BY <1>2
    <2>3. Place(e, r, j) = IF j \in 1..(l - 1) THEN r[j] ELSE e
      BY <1>3
    <2>4. CASE j \in 1..(l - 1)
      <3>1. r[j] = IF j < i THEN s[j] ELSE s[j + 1]
        BY <1>1, <2>4
      <3> QED
        BY <1>1, <2>1, <2>2, <2>3, <2>4, <3>1
    <2>5. CASE j \notin 1..(l - 1)
      BY <1>1, <2>1, <2>2, <2>3, <2>5
    <2> QED
      BY <2>4, <2>5
  <1> QED
    BY <1>4 DEF RemovedAt

(* No two places of the sequences of H, the heads of them at 0 included,   *)
(* have the same in them.                                                  *)
Separate(c, H) == \A h, g \in H : \A i \in 0..Len(c[h]), j \in 0..Len(c[g]) :
                    Place(h, c[h], i) = Place(g, c[g], j) => h = g /\ i = j

LEMMA SeparateIs ==
  ASSUME NEW A, NEW S, A \cap S = {}, NEW c \in [A -> Seq(S)], NEW H \in SUBSET A,
         Apart(c, H)
  PROVE  Separate(c, H)
  <1> SUFFICES ASSUME NEW h \in H, NEW g \in H, NEW i \in 0..Len(c[h]),
                      NEW j \in 0..Len(c[g]), Place(h, c[h], i) = Place(g, c[g], j)
               PROVE  h = g /\ i = j
    BY DEF Separate
  <1>1. c[h] \in Seq(S) /\ c[g] \in Seq(S) /\ h \notin S /\ g \notin S
    OBVIOUS
  <1>2. /\ Len(c[h]) \in Nat /\ DOMAIN c[h] = 1..Len(c[h])
        /\ Place(h, c[h], i) = IF i \in 1..Len(c[h]) THEN c[h][i] ELSE h
        /\ \A k \in 1..Len(c[h]) : c[h][k] \in S
    BY <1>1, PlaceIs
  <1>3. /\ Len(c[g]) \in Nat /\ DOMAIN c[g] = 1..Len(c[g])
        /\ Place(g, c[g], j) = IF j \in 1..Len(c[g]) THEN c[g][j] ELSE g
        /\ \A k \in 1..Len(c[g]) : c[g][k] \in S
    BY <1>1, PlaceIs
  <1>4. CASE i \in 1..Len(c[h]) /\ j \in 1..Len(c[g])
    <2>1. c[h][i] = c[g][j] /\ i \in DOMAIN c[h] /\ j \in DOMAIN c[g]
      BY <1>2, <1>3, <1>4
    <2> QED
      BY <2>1 DEF Apart
  <1>5. CASE i \notin 1..Len(c[h])
    <2>1. i = 0 /\ Place(h, c[h], i) = h
      BY <1>2, <1>5
    <2>2. j \notin 1..Len(c[g])
      BY <1>1, <1>3, <2>1
    <2> QED
      BY <1>3, <2>1, <2>2
  <1>6. CASE i \in 1..Len(c[h]) /\ j \notin 1..Len(c[g])
    <2>1. Place(g, c[g], j) = g /\ Place(h, c[h], i) \in S
      BY <1>2, <1>3, <1>6
    <2> QED
      BY <1>1, <2>1
  <1> QED
    BY <1>4, <1>5, <1>6

(* x is in none of the sequences.                                          *)
Outside(c, H, x) == \A h \in H : x \notin ToSet(c[h])

LEMMA OutsideIs ==
  ASSUME NEW A, NEW S, NEW c \in [A -> Seq(S)], NEW H \in SUBSET A, NEW x
  PROVE  Outside(c, H, x) <=> \A h \in H : \A i \in 1..Len(c[h]) : c[h][i] # x
  <1>1. \A h \in H : DOMAIN c[h] = 1..Len(c[h])
    BY PlaceIs
  <1> QED
    BY <1>1 DEF Outside, ToSet

LEMMA ApartAt ==
  ASSUME NEW c, NEW H, Apart(c, H), NEW a \in H, NEW b \in H,
         NEW x \in DOMAIN c[a], NEW y \in DOMAIN c[b], c[a][x] = c[b][y]
  PROVE  a = b /\ x = y
  BY DEF Apart

(* d is apart if it has at each place what c has at another: at place      *)
(* to[g][j] of the sequence of of[g][j].                                   *)
DrawnFrom(d, K, c, H, of, to) ==
  /\ \A g \in K : \A j \in 1..Len(d[g]) :
       /\ of[g][j] \in H /\ to[g][j] \in 1..Len(c[of[g][j]])
       /\ d[g][j] = c[of[g][j]][to[g][j]]
  /\ \A g, f \in K : \A j \in 1..Len(d[g]), k \in 1..Len(d[f]) :
       of[g][j] = of[f][k] /\ to[g][j] = to[f][k] => g = f /\ j = k

LEMMA ApartBy ==
  ASSUME NEW A, NEW S, NEW c \in [A -> Seq(S)], NEW H \in SUBSET A, Apart(c, H),
         NEW K \in SUBSET A, NEW d \in [A -> Seq(S)], NEW of, NEW to,
         DrawnFrom(d, K, c, H, of, to)
  PROVE  Apart(d, K)
  <1>a. /\ \A g \in K : \A j \in 1..Len(d[g]) :
             /\ of[g][j] \in H /\ to[g][j] \in 1..Len(c[of[g][j]])
             /\ d[g][j] = c[of[g][j]][to[g][j]]
        /\ \A g, f \in K : \A j \in 1..Len(d[g]), k \in 1..Len(d[f]) :
             of[g][j] = of[f][k] /\ to[g][j] = to[f][k] => g = f /\ j = k
    BY DEF DrawnFrom
  <1> SUFFICES ASSUME NEW g \in K, NEW f \in K, NEW j \in DOMAIN d[g],
                      NEW k \in DOMAIN d[f], d[g][j] = d[f][k]
               PROVE  g = f /\ j = k
    BY DEF Apart
  <1>1. j \in 1..Len(d[g]) /\ k \in 1..Len(d[f])
    BY PlaceIs
  <1>2. PICK a, x, b, y : a = of[g][j] /\ x = to[g][j] /\ b = of[f][k] /\ y = to[f][k]
    OBVIOUS
  <1>3. a \in H /\ x \in 1..Len(c[a]) /\ d[g][j] = c[a][x]
    BY <1>a, <1>1, <1>2
  <1>4. b \in H /\ y \in 1..Len(c[b]) /\ d[f][k] = c[b][y]
    BY <1>a, <1>1, <1>2
  <1>5. x \in DOMAIN c[a] /\ y \in DOMAIN c[b]
    <2>1. c[a] \in Seq(S) /\ c[b] \in Seq(S)
      BY <1>3, <1>4
    <2> QED
      BY <1>3, <1>4, <2>1, PlaceIs
  <1>6. a = b /\ x = y
    <2>1. c[a][x] = c[b][y]
      BY <1>3, <1>4
    <2> QED
      BY <1>3, <1>4, <1>5, <2>1, ApartAt
  <1>7. of[g][j] = of[f][k] /\ to[g][j] = to[f][k]
    BY <1>2, <1>6, Zenon
  <1>8. \A m \in 1..Len(d[g]), n \in 1..Len(d[f]) :
          of[g][m] = of[f][n] /\ to[g][m] = to[f][n] => g = f /\ m = n
    BY <1>a, Zenon
  <1> QED
    BY <1>1, <1>7, <1>8, Zenon

(* Sequences stay apart when one element enters that is in none of them,   *)
(* and when one leaves.                                                    *)
LEMMA ApartInserted ==
  ASSUME NEW A, NEW S, NEW c \in [A -> Seq(S)], NEW H \in SUBSET A, Apart(c, H),
         NEW h \in H, NEW x \in S, Outside(c, H, x), NEW i \in 1..(Len(c[h]) + 1),
         NEW r, WithOne(r, S, c[h], i, x), NEW d, d = [c EXCEPT ![h] = r]
  PROVE  Apart(d, H)
  <1>1. /\ r \in Seq(S) /\ Len(r) = Len(c[h]) + 1 /\ Len(c[h]) \in Nat
        /\ \A j \in 1..(Len(c[h]) + 1) : r[j] = IF j < i THEN c[h][j] ELSE
                                             IF j = i THEN x ELSE c[h][j - 1]
    BY DEF WithOne
  <1>2. d[h] = r /\ \A g \in H : g # h => d[g] = c[g]
    OBVIOUS
  <1>3. ASSUME NEW g \in H, NEW j \in DOMAIN d[g], ~(g = h /\ j = i)
        PROVE  \E m \in DOMAIN c[g] : /\ d[g][j] = c[g][m]
                                      /\ g # h => m = j
                                      /\ g = h => m = IF j < i THEN j ELSE j - 1
    <2>1. CASE g # h
      BY <1>2, <2>1
    <2>2. CASE g = h
      <3>1. DOMAIN r = 1..(Len(c[h]) + 1) /\ DOMAIN c[h] = 1..Len(c[h])
        BY <1>1, PlaceIs
      <3>2. j \in 1..(Len(c[h]) + 1) /\ j # i /\ d[g][j] = r[j]
        BY <1>2, <1>3, <2>2, <3>1
      <3>3. r[j] = IF j < i THEN c[h][j] ELSE c[h][j - 1]
        BY <1>1, <3>2
      <3>4. CASE j < i
        <4>1. j \in DOMAIN c[h]
          BY <1>1, <3>1, <3>2, <3>4
        <4> QED
          BY <2>2, <3>2, <3>3, <3>4, <4>1
      <3>5. CASE ~(j < i)
        <4>1. j - 1 \in DOMAIN c[h]
          BY <1>1, <3>1, <3>2, <3>5
        <4> QED
          BY <2>2, <3>2, <3>3, <3>5, <4>1
      <3> QED
        BY <3>4, <3>5
    <2> QED
      BY <2>1, <2>2
  <1>4. d[h][i] = x
    <2>1. i \in 1..(Len(c[h]) + 1) /\ ~(i < i)
      BY <1>1
    <2> QED
      BY <1>1, <1>2, <2>1
  <1>5. \A g \in H : \A m \in DOMAIN c[g] : c[g][m] # x
    BY DEF Outside, ToSet
  <1> SUFFICES ASSUME NEW g \in H, NEW f \in H, NEW j \in DOMAIN d[g],
                      NEW k \in DOMAIN d[f], d[g][j] = d[f][k]
               PROVE  g = f /\ j = k
    BY DEF Apart
  <1>6. CASE ~(g = h /\ j = i) /\ ~(f = h /\ k = i)
    <2>1. PICK m \in DOMAIN c[g] : /\ d[g][j] = c[g][m]
                                   /\ g # h => m = j
                                   /\ g = h => m = IF j < i THEN j ELSE j - 1
      BY <1>3, <1>6
    <2>2. PICK l \in DOMAIN c[f] : /\ d[f][k] = c[f][l]
                                   /\ f # h => l = k
                                   /\ f = h => l = IF k < i THEN k ELSE k - 1
      BY <1>3, <1>6
    <2>3. g = f /\ m = l
      BY <2>1, <2>2, ApartAt
    <2>4. CASE g # h
      BY <2>1, <2>2, <2>3, <2>4
    <2>5. CASE g = h
      <3>1. DOMAIN r = 1..(Len(c[h]) + 1)
        BY <1>1, PlaceIs
      <3>2. j \in 1..(Len(c[h]) + 1) /\ k \in 1..(Len(c[h]) + 1) /\ j # i /\ k # i
        BY <1>2, <1>6, <2>3, <2>5, <3>1
      <3> QED
        BY <1>1, <2>1, <2>2, <2>3, <2>5, <3>2
    <2> QED
      BY <2>4, <2>5
  <1>7. CASE g = h /\ j = i /\ ~(f = h /\ k = i)
    BY <1>3, <1>4, <1>5, <1>7
  <1>8. CASE ~(g = h /\ j = i) /\ f = h /\ k = i
    BY <1>3, <1>4, <1>5, <1>8
  <1> QED
    BY <1>6, <1>7, <1>8

LEMMA ApartRemoved ==
  ASSUME NEW A, NEW S, NEW c \in [A -> Seq(S)], NEW H \in SUBSET A, Apart(c, H),
         NEW h \in H, NEW i \in 1..Len(c[h]),
         NEW r, WithoutOne(r, S, c[h], i), NEW d, d = [c EXCEPT ![h] = r]
  PROVE  Apart(d, H) /\ Outside(d, H, c[h][i])
  <1>1. /\ r \in Seq(S) /\ Len(r) = Len(c[h]) - 1 /\ Len(c[h]) \in Nat
        /\ \A j \in 1..(Len(c[h]) - 1) : r[j] = IF j < i THEN c[h][j] ELSE c[h][j + 1]
    BY DEF WithoutOne
  <1>2. d[h] = r /\ \A g \in H : g # h => d[g] = c[g]
    OBVIOUS
  <1>d. DOMAIN r = 1..(Len(c[h]) - 1) /\ DOMAIN c[h] = 1..Len(c[h])
    BY <1>1, PlaceIs
  <1>3. ASSUME NEW g \in H, NEW j \in DOMAIN d[g]
        PROVE  \E m \in DOMAIN c[g] : /\ d[g][j] = c[g][m]
                                      /\ g # h => m = j
                                      /\ g = h => m = IF j < i THEN j ELSE j + 1
    <2>1. CASE g # h
      BY <1>2, <2>1
    <2>2. CASE g = h
      <3>2. j \in 1..(Len(c[h]) - 1) /\ d[g][j] = r[j]
        BY <1>2, <1>3, <2>2, <1>d
      <3>3. r[j] = IF j < i THEN c[h][j] ELSE c[h][j + 1]
        BY <1>1, <3>2
      <3>4. j \in DOMAIN c[h] /\ j + 1 \in DOMAIN c[h]
        BY <1>1, <1>d, <3>2
      <3> QED
        BY <2>2, <3>2, <3>3, <3>4
    <2> QED
      BY <2>1, <2>2
  <1>4. ASSUME NEW g \in H, NEW f \in H, NEW j \in DOMAIN d[g],
               NEW k \in DOMAIN d[f], d[g][j] = d[f][k]
        PROVE  g = f /\ j = k
    <2>1. PICK m \in DOMAIN c[g] : /\ d[g][j] = c[g][m]
                                   /\ g # h => m = j
                                   /\ g = h => m = IF j < i THEN j ELSE j + 1
      BY <1>3
    <2>2. PICK l \in DOMAIN c[f] : /\ d[f][k] = c[f][l]
                                   /\ f # h => l = k
                                   /\ f = h => l = IF k < i THEN k ELSE k + 1
      BY <1>3
    <2>3. g = f /\ m = l
      BY <1>4, <2>1, <2>2, ApartAt
    <2>4. CASE g # h
      BY <2>1, <2>2, <2>3, <2>4
    <2>5. CASE g = h
      <3>2. j \in 1..(Len(c[h]) - 1) /\ k \in 1..(Len(c[h]) - 1)
        BY <1>2, <1>d, <2>3, <2>5
      <3> QED
        BY <1>1, <2>1, <2>2, <2>3, <2>5, <3>2
    <2> QED
      BY <2>4, <2>5
  <1>5. ASSUME NEW g \in H, NEW j \in DOMAIN d[g], d[g][j] = c[h][i]
        PROVE  FALSE
    <2>1. PICK m \in DOMAIN c[g] : /\ d[g][j] = c[g][m]
                                   /\ g # h => m = j
                                   /\ g = h => m = IF j < i THEN j ELSE j + 1
      BY <1>3
    <2>2. i \in DOMAIN c[h]
      BY <1>d
    <2>3. g = h /\ m = i
      <3>1. c[g][m] = c[h][i]
        BY <1>5, <2>1
      <3> QED
        BY <2>2, <3>1, ApartAt
    <2>4. j \in 1..(Len(c[h]) - 1)
      BY <1>2, <1>d, <2>3
    <2>5. i = IF j < i THEN j ELSE j + 1
      BY <2>1, <2>3
    <2> QED
      BY <1>1, <2>4, <2>5
  <1>6. Apart(d, H)
    BY <1>4 DEF Apart
  <1>7. Outside(d, H, c[h][i])
    BY <1>5 DEF Outside, ToSet
  <1> QED
    BY <1>6, <1>7

-----------------------------------------------------------------------------
(* The lists for hash tables.                                              *)

Ats    == [Pointer -> HNode \cup {None, HPoison}]
Pprevs == [HNode -> Pointer \cup {None, HPoison}]

(* What a shape says of one place, and of the chains together.             *)
LEMMA ChainedIs ==
  ASSUME NEW a, NEW b, NEW c, HShape(a, b, c)
  PROVE  /\ c \in [HHead -> Seq(HNode)] /\ Apart(c, HHead) /\ Separate(c, HHead)
         /\ \A h \in HHead : \A i \in 0..Len(c[h]) :
              a[Place(h, c[h], i)] = Place(None, c[h], i + 1)
         /\ \A h \in HHead : \A i \in 1..Len(c[h]) : b[c[h][i]] = Place(h, c[h], i - 1)
  BY HAssumption, SeparateIs DEF HShape

(* Where places lead to.                                                   *)
LEMMA PlacesOf ==
  ASSUME NEW c \in [HHead -> Seq(HNode)], NEW h \in HHead
  PROVE  /\ c[h] \in Seq(HNode) /\ Len(c[h]) \in Nat /\ DOMAIN c[h] = 1..Len(c[h])
         /\ \A i \in Int : Place(h, c[h], i) = IF i \in 1..Len(c[h]) THEN c[h][i] ELSE h
         /\ \A i \in Int :
              Place(None, c[h], i) = IF i \in 1..Len(c[h]) THEN c[h][i] ELSE None
         /\ \A i \in 1..Len(c[h]) : c[h][i] \in HNode
         /\ \A i \in Int : Place(h, c[h], i) \in Pointer
         /\ \A i \in Int : Place(None, c[h], i) \in HNode \cup {None}
  <1>1. /\ c[h] \in Seq(HNode) /\ Len(c[h]) \in Nat /\ DOMAIN c[h] = 1..Len(c[h])
        /\ \A i \in Int : Place(h, c[h], i) = IF i \in 1..Len(c[h]) THEN c[h][i] ELSE h
        /\ \A i \in Int :
             Place(None, c[h], i) = IF i \in 1..Len(c[h]) THEN c[h][i] ELSE None
        /\ \A i \in 1..Len(c[h]) : c[h][i] \in HNode
    BY PlaceIs
  <1> QED
    BY <1>1 DEF Pointer

(* A node x enters the chain of h at place i, behind p and before y.       *)
Entering(a, b, c, h, i, x, p, y, a2, b2) ==
  /\ a \in Ats /\ b \in Pprevs /\ HShape(a, b, c) /\ h \in HHead
  /\ i \in 1..(Len(c[h]) + 1) /\ x \in HNode /\ Outside(c, HHead, x)
  /\ p = Place(h, c[h], i - 1) /\ y = Place(None, c[h], i)
  /\ a2 = [a EXCEPT ![x] = y, ![p] = x] /\ b2 \in Pprevs
  /\ \A z \in HNode : b2[z] = IF z = x THEN p ELSE IF z = y THEN x ELSE b[z]

LEMMA NodeEnters ==
  ASSUME NEW a, NEW b, NEW c, NEW h, NEW i, NEW x, NEW p, NEW y, NEW a2, NEW b2,
         Entering(a, b, c, h, i, x, p, y, a2, b2)
  PROVE  HShape(a2, b2, [c EXCEPT ![h] = InsertAt(@, i, x)])
  <1> DEFINE s == c[h]
             l == Len(s)
             r == InsertAt(s, i, x)
             d == [c EXCEPT ![h] = r]
  <1>e. /\ a \in Ats /\ b \in Pprevs /\ HShape(a, b, c) /\ h \in HHead
        /\ i \in 1..(Len(c[h]) + 1) /\ x \in HNode /\ Outside(c, HHead, x)
        /\ p = Place(h, c[h], i - 1) /\ y = Place(None, c[h], i)
        /\ a2 = [a EXCEPT ![x] = y, ![p] = x] /\ b2 \in Pprevs
        /\ \A z \in HNode : b2[z] = IF z = x THEN p ELSE IF z = y THEN x ELSE b[z]
    BY DEF Entering
  <1> USE <1>e
  <1>1. /\ c \in [HHead -> Seq(HNode)] /\ Apart(c, HHead) /\ Separate(c, HHead)
        /\ \A g \in HHead : \A j \in 0..Len(c[g]) :
             a[Place(g, c[g], j)] = Place(None, c[g], j + 1)
        /\ \A g \in HHead : \A j \in 1..Len(c[g]) : b[c[g][j]] = Place(g, c[g], j - 1)
    BY ChainedIs
  <1>2. /\ s \in Seq(HNode) /\ l \in Nat /\ i \in 1..(l + 1)
        /\ \A j \in Int : Place(h, s, j) = IF j \in 1..l THEN s[j] ELSE h
        /\ \A j \in Int : Place(None, s, j) = IF j \in 1..l THEN s[j] ELSE None
        /\ \A j \in 1..l : s[j] \in HNode
    BY <1>1, PlacesOf
  <1>3. WithOne(r, HNode, s, i, x)
    BY <1>2, Inserted
  <1>4. r \in Seq(HNode) /\ Len(r) = l + 1
    BY <1>3 DEF WithOne
  <1>5. d \in [HHead -> Seq(HNode)] /\ d[h] = r /\ \A g \in HHead : g # h => d[g] = c[g]
    BY <1>1, <1>4
  <1>6. Apart(d, HHead)
    <2>1. HHead \in SUBSET HHead
      OBVIOUS
    <2> QED
      BY <1>1, <1>3, <2>1, ApartInserted
  <1>7. InsertedAt(r, h, s, i, x) /\ InsertedAt(r, None, s, i, x)
    BY <1>2, <1>3, PlaceInserted
  <1>8. \A g \in HHead : \A j \in Int : Place(g, c[g], j) # x
          /\ Place(g, c[g], j) \in Pointer
    <2>1. \A g \in HHead : \A j \in 1..Len(c[g]) : c[g][j] # x
      <3>1. HHead \in SUBSET HHead
        OBVIOUS
      <3> QED
        BY <1>1, <3>1, OutsideIs
    <2> SUFFICES ASSUME NEW g \in HHead, NEW j \in Int
                 PROVE  Place(g, c[g], j) # x /\ Place(g, c[g], j) \in Pointer
      OBVIOUS
    <2>2. Place(g, c[g], j) = IF j \in 1..Len(c[g]) THEN c[g][j] ELSE g
      BY <1>1, PlacesOf
    <2>3. Place(g, c[g], j) \in Pointer
      BY <1>1, PlacesOf
    <2> QED
      BY <2>1, <2>2, <2>3, HAssumption
  <1>9. p \in Pointer /\ x # p /\ x \in Pointer
    <2>1. i - 1 \in Int
      BY <1>2
    <2> QED
      BY <1>8, <2>1 DEF Pointer
  <1>10. \A z \in Pointer : a2[z] = IF z = p THEN x ELSE IF z = x THEN y ELSE a[z]
    BY <1>9 DEF Ats
  <1>11. ASSUME NEW g \in HHead, NEW j \in 0..Len(d[g])
         PROVE  a2[Place(g, d[g], j)] = Place(None, d[g], j + 1)
    <2>1. CASE g # h
      <3>1. j \in 0..Len(c[g]) /\ j \in Int /\ d[g] = c[g]
        BY <1>1, <1>5, <2>1, PlacesOf
      <3>2. a[Place(g, c[g], j)] = Place(None, c[g], j + 1)
        BY <1>1, <3>1
      <3>3. Place(g, c[g], j) # p
        <4>1. i - 1 \in 0..Len(c[h])
          BY <1>2
        <4> QED
          BY <1>1, <2>1, <3>1, <4>1 DEF Separate
      <3> QED
        BY <1>8, <1>10, <3>1, <3>2, <3>3
    <2>2. CASE g = h
      <3>1. j \in 0..(l + 1) /\ d[g] = r
        BY <1>4, <1>5, <2>2
      <3>2. Place(h, r, j) = IF j < i THEN Place(h, s, j) ELSE
                             IF j = i THEN x ELSE Place(h, s, j - 1)
        BY <1>7, <3>1 DEF InsertedAt
      <3>3. Place(None, r, j + 1) = IF j + 1 < i THEN Place(None, s, j + 1) ELSE
                                    IF j + 1 = i THEN x ELSE Place(None, s, j + 1 - 1)
        <4>1. j + 1 \in Int
          BY <3>1
        <4> QED
          BY <1>7, <4>1 DEF InsertedAt
      <3>4. ASSUME NEW k \in 0..l, k # i - 1
            PROVE  a2[Place(h, s, k)] = Place(None, s, k + 1)
        <4>1. a[Place(h, s, k)] = Place(None, s, k + 1)
          BY <1>1
        <4>2. Place(h, s, k) # p
          <5>1. i - 1 \in 0..Len(c[h]) /\ k \in 0..Len(c[h])
            BY <1>2
          <5> QED
            BY <1>1, <3>4, <5>1 DEF Separate
        <4>3. k \in Int
          OBVIOUS
        <4> QED
          BY <1>8, <1>10, <4>1, <4>2, <4>3
      <3>5. CASE j < i - 1
        <4>1. j \in 0..l /\ j # i - 1 /\ j < i /\ j + 1 < i
          BY <1>2, <3>1, <3>5
        <4> QED
          BY <2>2, <3>1, <3>2, <3>3, <3>4, <4>1
      <3>6. CASE j = i - 1
        <4>1. j < i /\ ~(j + 1 < i) /\ j + 1 = i
          BY <1>2, <3>6
        <4> QED
          BY <1>9, <1>10, <2>2, <3>1, <3>2, <3>3, <3>6, <4>1
      <3>7. CASE j = i
        <4>1. ~(j < i) /\ ~(j + 1 < i) /\ j + 1 # i /\ j + 1 - 1 = i
          BY <1>2, <3>7
        <4> QED
          BY <1>9, <1>10, <2>2, <3>1, <3>2, <3>3, <3>7, <4>1
      <3>8. CASE i < j
        <4>1. /\ ~(j < i) /\ j # i /\ ~(j + 1 < i) /\ j + 1 # i /\ j - 1 \in 0..l
              /\ j - 1 # i - 1 /\ j + 1 - 1 = j /\ j - 1 + 1 = j
          BY <1>2, <3>1, <3>8
        <4>2. a2[Place(h, s, j - 1)] = Place(None, s, j - 1 + 1)
          BY <3>4, <4>1
        <4> QED
          BY <2>2, <3>1, <3>2, <3>3, <4>1, <4>2
      <3> QED
        BY <1>2, <3>1, <3>5, <3>6, <3>7, <3>8
    <2> QED
      BY <2>1, <2>2
  <1>12. ASSUME NEW g \in HHead, NEW j \in 1..Len(d[g])
         PROVE  b2[d[g][j]] = Place(g, d[g], j - 1)
    <2>1. CASE g # h
      <3>1. j \in 1..Len(c[g]) /\ j \in Int /\ d[g] = c[g] /\ c[g][j] \in HNode
        BY <1>1, <1>5, <2>1, PlacesOf
      <3>2. b[c[g][j]] = Place(g, c[g], j - 1)
        BY <1>1, <3>1
      <3>3. c[g][j] # y
        <4>1. CASE i \in 1..l
          <5>1. i \in DOMAIN c[h] /\ j \in DOMAIN c[g] /\ y = c[h][i]
            BY <1>1, <1>2, <3>1, <4>1, PlacesOf
          <5> QED
            BY <1>1, <2>1, <5>1, ApartAt
        <4>2. CASE i \notin 1..l
          <5>1. y = None
            BY <1>2, <4>2
          <5> QED
            BY <3>1, <5>1, HAssumption DEF Pointer
        <4> QED
          BY <4>1, <4>2
      <3>4. c[g][j] # x
        <4>1. Place(g, c[g], j) = c[g][j]
          BY <1>1, <3>1, PlacesOf
        <4> QED
          BY <1>8, <3>1, <4>1
      <3> QED
        BY <3>1, <3>2, <3>3, <3>4
    <2>2. CASE g = h
      <3>1. j \in 1..(l + 1) /\ d[g] = r
        BY <1>4, <1>5, <2>2
      <3>2. r[j] = IF j < i THEN s[j] ELSE IF j = i THEN x ELSE s[j - 1]
        BY <1>3, <3>1 DEF WithOne
      <3>3. Place(h, r, j - 1) = IF j - 1 < i THEN Place(h, s, j - 1) ELSE
                                    IF j - 1 = i THEN x ELSE Place(h, s, j - 1 - 1)
        <4>1. j - 1 \in Int
          BY <3>1
        <4> QED
          BY <1>7, <4>1 DEF InsertedAt
      <3>4. ASSUME NEW k \in 1..l, k # i PROVE b2[s[k]] = Place(h, s, k - 1)
        <4>1. b[s[k]] = Place(h, s, k - 1)
          BY <1>1
        <4>2. s[k] # y
          <5>1. CASE i \in 1..l
            <6>1. i \in DOMAIN c[h] /\ k \in DOMAIN c[h] /\ y = c[h][i]
              BY <1>1, <1>2, <5>1, PlacesOf
            <6> QED
              BY <1>1, <3>4, <6>1, ApartAt
          <5>2. CASE i \notin 1..l
            <6>1. y = None /\ s[k] \in HNode
              BY <1>2, <5>2
            <6> QED
              BY <6>1, HAssumption DEF Pointer
          <5> QED
            BY <5>1, <5>2
        <4>3. s[k] # x /\ s[k] \in HNode
          <5>1. Place(h, s, k) = s[k] /\ s[k] \in HNode /\ k \in Int
            BY <1>2
          <5> QED
            BY <1>8, <5>1
        <4> QED
          BY <4>1, <4>2, <4>3
      <3>5. CASE j < i
        <4>1. j \in 1..l /\ j # i /\ j - 1 < i
          BY <1>2, <3>1, <3>5
        <4> QED
          BY <2>2, <3>1, <3>2, <3>3, <3>4, <3>5, <4>1
      <3>6. CASE j = i
        <4>1. ~(j < i) /\ j - 1 < i
          BY <1>2, <3>6
        <4> QED
          BY <2>2, <3>1, <3>2, <3>3, <3>6, <4>1
      <3>7. CASE j = i + 1
        <4>1. ~(j < i) /\ j # i /\ ~(j - 1 < i) /\ j - 1 = i /\ i \in 1..l
          BY <1>2, <3>1, <3>7
        <4>2. r[j] = s[i] /\ y = s[i] /\ s[i] \in HNode
          BY <1>2, <3>2, <4>1
        <4>3. s[i] # x
          <5>1. Place(h, s, i) = s[i] /\ i \in Int
            BY <1>2, <4>1
          <5> QED
            BY <1>8, <5>1
        <4>4. b2[s[i]] = x
          BY <4>2, <4>3
        <4> QED
          BY <2>2, <3>1, <3>3, <4>1, <4>2, <4>4
      <3>8. CASE i + 1 < j
        <4>1. /\ ~(j < i) /\ j # i /\ ~(j - 1 < i) /\ j - 1 # i /\ j - 1 \in 1..l
          BY <1>2, <3>1, <3>8
        <4>2. b2[s[j - 1]] = Place(h, s, j - 1 - 1)
          BY <3>4, <4>1
        <4> QED
          BY <2>2, <3>1, <3>2, <3>3, <4>1, <4>2
      <3> QED
        BY <1>2, <3>1, <3>5, <3>6, <3>7, <3>8
    <2> QED
      BY <2>1, <2>2
  <1> QED
    BY <1>5, <1>6, <1>11, <1>12 DEF HShape

(* The node x at place i of the chain of h leaves, from between p and y.   *)
Leaving(a, b, c, h, i, x, p, y, v, a2, b2) ==
  /\ a \in Ats /\ b \in Pprevs /\ HShape(a, b, c) /\ h \in HHead
  /\ i \in 1..Len(c[h]) /\ x = c[h][i]
  /\ p = Place(h, c[h], i - 1) /\ y = Place(None, c[h], i + 1)
  /\ a2 = [a EXCEPT ![p] = y, ![x] = v] /\ b2 \in Pprevs
  /\ \A z \in HNode : b2[z] = IF z = x THEN v ELSE IF z = y THEN p ELSE b[z]

LEMMA NodeLeaves ==
  ASSUME NEW a, NEW b, NEW c, NEW h, NEW i, NEW x, NEW p, NEW y, NEW v, NEW a2, NEW b2,
         Leaving(a, b, c, h, i, x, p, y, v, a2, b2)
  PROVE  /\ HShape(a2, b2, [c EXCEPT ![h] = RemoveAt(@, i)])
         /\ Outside([c EXCEPT ![h] = RemoveAt(@, i)], HHead, x)
  <1> DEFINE s == c[h]
             l == Len(s)
             r == RemoveAt(s, i)
             d == [c EXCEPT ![h] = r]
  <1>e. /\ a \in Ats /\ b \in Pprevs /\ HShape(a, b, c) /\ h \in HHead
        /\ i \in 1..Len(c[h]) /\ x = c[h][i]
        /\ p = Place(h, c[h], i - 1) /\ y = Place(None, c[h], i + 1)
        /\ a2 = [a EXCEPT ![p] = y, ![x] = v] /\ b2 \in Pprevs
        /\ \A z \in HNode : b2[z] = IF z = x THEN v ELSE IF z = y THEN p ELSE b[z]
    BY DEF Leaving
  <1> USE <1>e
  <1>1. /\ c \in [HHead -> Seq(HNode)] /\ Apart(c, HHead) /\ Separate(c, HHead)
        /\ \A g \in HHead : \A j \in 0..Len(c[g]) :
             a[Place(g, c[g], j)] = Place(None, c[g], j + 1)
        /\ \A g \in HHead : \A j \in 1..Len(c[g]) : b[c[g][j]] = Place(g, c[g], j - 1)
    BY ChainedIs
  <1>2. /\ s \in Seq(HNode) /\ l \in Nat /\ i \in 1..l
        /\ \A j \in Int : Place(h, s, j) = IF j \in 1..l THEN s[j] ELSE h
        /\ \A j \in Int : Place(None, s, j) = IF j \in 1..l THEN s[j] ELSE None
        /\ \A j \in 1..l : s[j] \in HNode
    BY <1>1, PlacesOf
  <1>3. WithoutOne(r, HNode, s, i)
    BY <1>2, Removed
  <1>4. r \in Seq(HNode) /\ Len(r) = l - 1
    BY <1>3 DEF WithoutOne
  <1>5. d \in [HHead -> Seq(HNode)] /\ d[h] = r /\ \A g \in HHead : g # h => d[g] = c[g]
    BY <1>1, <1>4
  <1>6. Apart(d, HHead) /\ Outside(d, HHead, x)
    <2>1. HHead \in SUBSET HHead
      OBVIOUS
    <2> QED
      BY <1>1, <1>3, <2>1, ApartRemoved
  <1>7. RemovedAt(r, h, s, i) /\ RemovedAt(r, None, s, i)
    BY <1>2, <1>3, PlaceRemoved
  <1>8. \A g \in HHead : \A j \in Int : Place(g, c[g], j) \in Pointer
    BY <1>1, PlacesOf
  <1>9. /\ p \in Pointer /\ x \in HNode /\ x \in Pointer /\ x # p
        /\ x = Place(h, s, i) /\ i \in 0..l /\ i - 1 \in 0..l
    <2>1. i - 1 \in 0..l /\ i \in 0..l /\ i - 1 # i /\ x = Place(h, s, i)
      BY <1>2
    <2>2. x # p
      BY <1>1, <2>1 DEF Separate
    <2> QED
      BY <1>2, <1>8, <2>1, <2>2 DEF Pointer
  <1>10. \A z \in Pointer : a2[z] = IF z = x THEN v ELSE IF z = p THEN y ELSE a[z]
    BY <1>9 DEF Ats
  <1>11. ASSUME NEW g \in HHead, NEW j \in 0..Len(d[g])
         PROVE  a2[Place(g, d[g], j)] = Place(None, d[g], j + 1)
    <2>1. CASE g # h
      <3>1. j \in 0..Len(c[g]) /\ j \in Int /\ d[g] = c[g]
        BY <1>1, <1>5, <2>1, PlacesOf
      <3>2. a[Place(g, c[g], j)] = Place(None, c[g], j + 1)
        BY <1>1, <3>1
      <3>3. Place(g, c[g], j) # p /\ Place(g, c[g], j) # x
        BY <1>1, <1>9, <2>1, <3>1 DEF Separate
      <3> QED
        BY <1>8, <1>10, <3>1, <3>2, <3>3
    <2>2. CASE g = h
      <3>1. j \in 0..(l - 1) /\ d[g] = r /\ j + 1 \in Int
        BY <1>4, <1>5, <2>2
      <3>2. Place(h, r, j) = IF j < i THEN Place(h, s, j) ELSE Place(h, s, j + 1)
        BY <1>7, <3>1 DEF RemovedAt
      <3>3. Place(None, r, j + 1) = IF j + 1 < i THEN Place(None, s, j + 1)
                                    ELSE Place(None, s, j + 1 + 1)
        BY <1>7, <3>1 DEF RemovedAt
      <3>4. ASSUME NEW k \in 0..l, k # i - 1, k # i
            PROVE  a2[Place(h, s, k)] = Place(None, s, k + 1)
        <4>1. a[Place(h, s, k)] = Place(None, s, k + 1)
          BY <1>1
        <4>2. Place(h, s, k) # p /\ Place(h, s, k) # x
          BY <1>1, <1>9, <3>4 DEF Separate
        <4>3. k \in Int
          OBVIOUS
        <4> QED
          BY <1>8, <1>10, <4>1, <4>2, <4>3
      <3>5. CASE j < i - 1
        <4>1. j \in 0..l /\ j # i - 1 /\ j # i /\ j < i /\ j + 1 < i
          BY <1>2, <3>1, <3>5
        <4> QED
          BY <2>2, <3>1, <3>2, <3>3, <3>4, <4>1
      <3>6. CASE j = i - 1
        <4>1. j < i /\ ~(j + 1 < i) /\ j + 1 + 1 = i + 1
          BY <1>2, <3>6
        <4>2. Place(h, r, j) = p /\ Place(None, r, j + 1) = y
          BY <3>2, <3>3, <3>6, <4>1
        <4>3. a2[p] = y
          BY <1>9, <1>10
        <4> QED
          BY <2>2, <3>1, <4>2, <4>3
      <3>7. CASE i <= j
        <4>1. ~(j < i) /\ ~(j + 1 < i) /\ j + 1 \in 0..l /\ j + 1 # i - 1 /\ j + 1 # i
          BY <1>2, <3>1, <3>7
        <4>2. a2[Place(h, s, j + 1)] = Place(None, s, j + 1 + 1)
          BY <3>4, <4>1
        <4> QED
          BY <2>2, <3>1, <3>2, <3>3, <4>1, <4>2
      <3> QED
        BY <1>2, <3>1, <3>5, <3>6, <3>7
    <2> QED
      BY <2>1, <2>2
  <1>12. ASSUME NEW g \in HHead, NEW j \in 1..Len(d[g])
         PROVE  b2[d[g][j]] = Place(g, d[g], j - 1)
    <2>0. \A f \in HHead : \A k \in 1..Len(c[f]) :
            /\ c[f][k] = x => f = h /\ k = i
            /\ c[f][k] = y => f = h /\ k = i + 1
      <3> SUFFICES ASSUME NEW f \in HHead, NEW k \in 1..Len(c[f])
                   PROVE  /\ c[f][k] = x => f = h /\ k = i
                          /\ c[f][k] = y => f = h /\ k = i + 1
        OBVIOUS
      <3>1. k \in DOMAIN c[f] /\ i \in DOMAIN c[h] /\ c[f][k] \in HNode
        BY <1>1, PlacesOf
      <3>2. c[f][k] = x => f = h /\ k = i
        BY <1>1, <3>1, ApartAt
      <3>3. c[f][k] = y => i + 1 \in DOMAIN c[h] /\ y = c[h][i + 1]
        <4>1. DOMAIN c[h] = 1..l /\ i + 1 \in Int
          BY <1>1, <1>2, PlacesOf
        <4>2. c[f][k] # None
          BY <3>1, HAssumption DEF Pointer
        <4> QED
          BY <1>2, <4>1, <4>2
      <3>4. c[f][k] = y => f = h /\ k = i + 1
        BY <1>1, <3>1, <3>3, ApartAt
      <3> QED
        BY <3>2, <3>4
    <2>1. CASE g # h
      <3>1. j \in 1..Len(c[g]) /\ d[g] = c[g] /\ c[g][j] \in HNode
        BY <1>1, <1>5, <2>1, PlacesOf
      <3>2. b[c[g][j]] = Place(g, c[g], j - 1)
        BY <1>1, <3>1
      <3>3. c[g][j] # y /\ c[g][j] # x
        BY <2>0, <2>1, <3>1
      <3> QED
        BY <3>1, <3>2, <3>3
    <2>2. CASE g = h
      <3>1. j \in 1..(l - 1) /\ d[g] = r /\ j - 1 \in Int
        BY <1>4, <1>5, <2>2
      <3>2. r[j] = IF j < i THEN s[j] ELSE s[j + 1]
        BY <1>3, <3>1 DEF WithoutOne
      <3>3. Place(h, r, j - 1) = IF j - 1 < i THEN Place(h, s, j - 1)
                                 ELSE Place(h, s, j - 1 + 1)
        BY <1>7, <3>1 DEF RemovedAt
      <3>4. ASSUME NEW k \in 1..l, k # i, k # i + 1 PROVE b2[s[k]] = Place(h, s, k - 1)
        <4>1. b[s[k]] = Place(h, s, k - 1)
          BY <1>1
        <4>2. s[k] # y /\ s[k] # x
          BY <2>0, <3>4
        <4> QED
          BY <1>2, <4>1, <4>2
      <3>5. CASE j < i
        <4>1. j \in 1..l /\ j # i /\ j # i + 1 /\ j - 1 < i
          BY <1>2, <3>1, <3>5
        <4> QED
          BY <2>2, <3>1, <3>2, <3>3, <3>4, <3>5, <4>1
      <3>6. CASE j = i
        <4>1. ~(j < i) /\ j - 1 < i /\ i + 1 \in 1..l /\ i # i + 1
          BY <1>2, <3>1, <3>6
        <4>2. y = s[i + 1] /\ y \in HNode
          BY <1>2, <4>1
        <4>3. y # x
          BY <2>0, <4>1, <4>2
        <4> QED
          BY <2>2, <3>1, <3>2, <3>3, <3>6, <4>1, <4>2, <4>3
      <3>7. CASE i < j
        <4>0. l \in Nat /\ i \in 1..l /\ j \in 1..(l - 1)
          BY <1>2, <3>1
        <4>1. /\ ~(j < i) /\ ~(j - 1 < i) /\ j + 1 # i /\ j + 1 # i + 1
              /\ j + 1 \in 1..l /\ j + 1 - 1 = j - 1 + 1
          <5> HIDE DEF l, r, d, s
          <5> QED
            BY <4>0, <3>7
        <4>2. b2[s[j + 1]] = Place(h, s, j + 1 - 1)
          BY <3>4, <4>1
        <4> QED
          BY <2>2, <3>1, <3>2, <3>3, <4>1, <4>2
      <3> QED
        BY <1>2, <3>1, <3>5, <3>6, <3>7
    <2> QED
      BY <2>1, <2>2
  <1> QED
    BY <1>5, <1>6, <1>11, <1>12 DEF HShape

(* What links chains is read as these chains.                              *)
LEMMA ChainsRead ==
  ASSUME NEW a, NEW b, NEW c, HShape(a, b, c), NEW h \in HHead
  PROVE  Along(a[h], a, {None, HPoison}, Cardinality(HNode)) = c[h]
  <1> DEFINE s == c[h]
             N == Cardinality(HNode)
             stop == {None, HPoison}
             from == a[h]
  <1>0. /\ c \in [HHead -> Seq(HNode)] /\ Apart(c, HHead)
        /\ \A g \in HHead : \A j \in 0..Len(c[g]) :
             a[Place(g, c[g], j)] = Place(None, c[g], j + 1)
    BY ChainedIs
  <1>1. /\ s \in Seq(HNode) /\ Len(s) \in Nat /\ DOMAIN s = 1..Len(s)
        /\ \A i \in Int : Place(h, s, i) = IF i \in 1..Len(s) THEN s[i] ELSE h
    BY <1>0, PlacesOf
  <1>2. NoTwice(s)
    BY <1>0 DEF Apart, NoTwice
  <1>3. N \in Nat /\ Len(s) <= N
    BY <1>1, <1>2, HAssumption, Room
  <1>4. \A i \in 0..Len(s) : a[Place(h, s, i)] = Place(None, s, i + 1)
    BY <1>0
  <1>5. from = Place(None, s, 1)
    <2>1. 0 \in 0..Len(s) /\ Place(h, s, 0) = h /\ 0 + 1 = 1
      BY <1>1
    <2> QED
      BY <1>4, <2>1
  <1>6. \A i \in 1..Len(s) : a[s[i]] = Place(None, s, i + 1)
    <2> SUFFICES ASSUME NEW i \in 1..Len(s) PROVE a[s[i]] = Place(None, s, i + 1)
      OBVIOUS
    <2>1. i \in 0..Len(s) /\ Place(h, s, i) = s[i]
      BY <1>1
    <2> QED
      BY <1>4, <2>1
  <1>7. None \in stop /\ HNode \cap stop = {}
    BY HAssumption DEF Pointer
  <1> HIDE DEF s, N, stop, from
  <1>8. Along(from, a, stop, N) = s
    BY <1>1, <1>3, <1>5, <1>6, <1>7, AlongIs
  <1> QED
    BY <1>8 DEF s, N, stop, from

(* The pointers of a node that is in no chain do not matter.               *)
LEMMA OffChain ==
  ASSUME NEW a \in Ats, NEW b \in Pprevs, NEW c, HShape(a, b, c),
         NEW n \in HNode, Outside(c, HHead, n), NEW u, NEW w
  PROVE  HShape([a EXCEPT ![n] = u], [b EXCEPT ![n] = w], c)
  <1>1. /\ c \in [HHead -> Seq(HNode)] /\ Apart(c, HHead)
        /\ \A g \in HHead : \A j \in 0..Len(c[g]) :
             a[Place(g, c[g], j)] = Place(None, c[g], j + 1)
        /\ \A g \in HHead : \A j \in 1..Len(c[g]) : b[c[g][j]] = Place(g, c[g], j - 1)
    BY ChainedIs
  <1>2. \A g \in HHead : \A j \in 1..Len(c[g]) : c[g][j] # n /\ c[g][j] \in HNode
    <2>1. HHead \in SUBSET HHead
      OBVIOUS
    <2>2. \A g \in HHead : \A j \in 1..Len(c[g]) : c[g][j] # n
      BY <1>1, <2>1, OutsideIs
    <2>3. \A g \in HHead : \A j \in 1..Len(c[g]) : c[g][j] \in HNode
      BY <1>1, PlacesOf
    <2> QED
      BY <2>2, <2>3
  <1>3. ASSUME NEW g \in HHead, NEW j \in 0..Len(c[g])
        PROVE  [a EXCEPT ![n] = u][Place(g, c[g], j)] = Place(None, c[g], j + 1)
    <2>1. /\ Place(g, c[g], j) \in Pointer
          /\ Place(g, c[g], j) = IF j \in 1..Len(c[g]) THEN c[g][j] ELSE g
      BY <1>1, PlacesOf
    <2>2. Place(g, c[g], j) # n
      BY <1>2, <2>1, HAssumption
    <2>3. a[Place(g, c[g], j)] = Place(None, c[g], j + 1)
      BY <1>1
    <2> QED
      BY <2>1, <2>2, <2>3 DEF Ats
  <1>4. ASSUME NEW g \in HHead, NEW j \in 1..Len(c[g])
        PROVE  [b EXCEPT ![n] = w][c[g][j]] = Place(g, c[g], j - 1)
    BY <1>1, <1>2 DEF Pprevs
  <1> QED
    BY <1>1, <1>3, <1>4 DEF HShape

(* HInv, part by part.                                                     *)
LEMMA InHInv ==
  ASSUME HInv
  PROVE  /\ at \in Ats /\ pprev \in Pprevs /\ HShape(at, pprev, ChainOf)
         /\ \A n \in HNode : pprev[n] = n => at[n] = None
         /\ hit = NoPass \/ InPass(hit, at)
         /\ \A n : n \notin Chained <=> Outside(ChainOf, HHead, n)
         /\ \A n \in Chained : \E h \in HHead : \E i \in 1..Len(ChainOf[h]) :
              n = ChainOf[h][i]
  <1>1. HShape(at, pprev, ChainOf)
    BY DEF HInv
  <1>2. \A h \in HHead : DOMAIN ChainOf[h] = 1..Len(ChainOf[h])
    BY <1>1, ChainedIs, PlacesOf
  <1>3. \A n \in Chained : \E h \in HHead : \E i \in 1..Len(ChainOf[h]) :
          n = ChainOf[h][i]
    BY <1>2 DEF Chained, ToSet
  <1>4. \A n : n \notin Chained <=> Outside(ChainOf, HHead, n)
    BY DEF Chained, Outside
  <1> QED
    BY <1>1, <1>3, <1>4 DEF HInv, HTypeOK, Ats, Pprevs

(* A call that leaves the chains c has kept HInv.                          *)
LEMMA HBecoming ==
  ASSUME NEW a \in Ats, NEW b \in Pprevs, NEW c, HShape(a, b, c),
         at' = a, pprev' = b, \A n \in HNode : b[n] = n => a[n] = None,
         hit' = NoPass \/ InPass(hit', a)
  PROVE  HInv' /\ ChainOf' = c
  <1>1. ChainOf' = c
    <2>1. \A h \in HHead : Along(a[h], a, {None, HPoison}, Cardinality(HNode)) = c[h]
      BY ChainsRead
    <2>2. c \in [HHead -> Seq(HNode)]
      BY ChainedIs
    <2>3. ChainOf' = [h \in HHead |->
                        Along(a[h], a, {None, HPoison}, Cardinality(HNode))]
      BY DEF ChainOf, Passes
    <2> QED
      BY <2>1, <2>2, <2>3
  <1>2. hit'.pos \in HNode \cup {None} /\ hit'.n \in HNode \cup {None, HPoison}
    <2>1. CASE hit' = NoPass
      BY <2>1 DEF NoPass
    <2>2. CASE InPass(hit', a)
      BY <2>2 DEF InPass, Pass
    <2> QED
      BY <2>1, <2>2
  <1>3. HTypeOK'
    BY <1>2 DEF HTypeOK, Ats, Pprevs
  <1>4. HShape(at, pprev, ChainOf)'
    BY <1>1 DEF HShape
  <1>5. (hit = NoPass \/ InPass(hit, at))'
    BY DEF InPass, NoPass
  <1>6. (\A n \in HNode : pprev[n] = n => at[n] = None)'
    OBVIOUS
  <1> QED
    BY <1>1, <1>3, <1>4, <1>5, <1>6 DEF HInv

(* What Back assigns.                                                      *)
LEMMA BackIs ==
  ASSUME pprev \in Pprevs, NEW y \in HNode \cup {None}, NEW v \in Pointer
  PROVE  /\ Back(y, v) \in Pprevs
         /\ \A z \in HNode : Back(y, v)[z] = IF z = y THEN v ELSE pprev[z]
  <1>1. CASE y = None
    <2>1. \A z \in HNode : z # y
      BY <1>1, HAssumption DEF Pointer
    <2> QED
      BY <1>1, <2>1 DEF Back
  <1>2. CASE y # None
    BY <1>2 DEF Back, Pprevs
  <1> QED
    BY <1>1, <1>2

(* A node in a chain is not the one that leads to it.                      *)
LEMMA NotItself ==
  ASSUME NEW a, NEW b, NEW c, HShape(a, b, c), NEW h \in HHead,
         NEW i \in 1..Len(c[h])
  PROVE  b[c[h][i]] # c[h][i]
  <1>1. /\ c \in [HHead -> Seq(HNode)] /\ Separate(c, HHead)
        /\ b[c[h][i]] = Place(h, c[h], i - 1)
    BY ChainedIs
  <1>2. Len(c[h]) \in Nat /\ Place(h, c[h], i) = c[h][i]
    BY <1>1, PlacesOf
  <1>3. i - 1 \in 0..Len(c[h]) /\ i \in 0..Len(c[h]) /\ i - 1 # i
    BY <1>2
  <1> QED
    BY <1>1, <1>2, <1>3 DEF Separate

(* A node is put into the chain of h at place i.                           *)
Putting(n, h, i, p, y, b) ==
  /\ n \in HNode /\ n \notin Chained /\ hit = NoPass /\ hit' = hit
  /\ h \in HHead /\ i \in 1..(Len(ChainOf[h]) + 1)
  /\ p = Place(h, ChainOf[h], i - 1) /\ y = Place(None, ChainOf[h], i)
  /\ at' = [at EXCEPT ![n] = y, ![p] = n] /\ b \in Pprevs /\ pprev' = b
  /\ \A z \in HNode : b[z] = IF z = n THEN p ELSE IF z = y THEN n ELSE pprev[z]

LEMMA PutInto ==
  ASSUME HInv, NEW n, NEW h, NEW i, NEW p, NEW y, NEW b, Putting(n, h, i, p, y, b)
  PROVE  HInv' /\ Chains!Enter
  <1> DEFINE c == ChainOf
             a == [at EXCEPT ![n] = y, ![p] = n]
             d == [c EXCEPT ![h] = InsertAt(@, i, n)]
  <1>p. /\ n \in HNode /\ n \notin Chained /\ hit = NoPass /\ hit' = hit
        /\ h \in HHead /\ i \in 1..(Len(ChainOf[h]) + 1)
        /\ p = Place(h, ChainOf[h], i - 1) /\ y = Place(None, ChainOf[h], i)
        /\ at' = [at EXCEPT ![n] = y, ![p] = n] /\ b \in Pprevs /\ pprev' = b
        /\ \A z \in HNode : b[z] = IF z = n THEN p ELSE IF z = y THEN n ELSE pprev[z]
    BY DEF Putting
  <1> USE <1>p
  <1>1. /\ at \in Ats /\ pprev \in Pprevs /\ HShape(at, pprev, c)
        /\ \A z \in HNode : pprev[z] = z => at[z] = None
        /\ Outside(c, HHead, n)
    BY InHInv
  <1>2. HShape(a, b, d)
    <2>1. /\ HShape(at, pprev, c) /\ Outside(c, HHead, n) /\ i \in 1..(Len(c[h]) + 1)
          /\ p = Place(h, c[h], i - 1) /\ y = Place(None, c[h], i)
      BY <1>1
    <2>2. a = [at EXCEPT ![n] = y, ![p] = n] /\ d = [c EXCEPT ![h] = InsertAt(@, i, n)]
      OBVIOUS
    <2>3. Entering(at, pprev, c, h, i, n, p, y, a, b)
      BY <1>1, <2>1, <2>2 DEF Entering
    <2> HIDE DEF a, c, d
    <2> QED
      BY <1>1, <2>1, <2>2, <2>3, NodeEnters
  <1>3. c \in [HHead -> Seq(HNode)] /\ \A j \in Int : Place(h, c[h], j) \in Pointer
    BY <1>1, ChainedIs, PlacesOf
  <1>4. Len(c[h]) \in Nat /\ i \in Int /\ i - 1 \in Int
    BY <1>3, PlacesOf
  <1>5. p \in Pointer /\ y \in HNode \cup {None} /\ n \in Pointer
    BY <1>3, <1>4, PlacesOf DEF Pointer
  <1>6. a \in Ats
    BY <1>1, <1>5 DEF Ats
  <1>7. p # n
    <2>1. Place(h, c[h], i - 1) = IF i - 1 \in 1..Len(c[h]) THEN c[h][i - 1] ELSE h
      BY <1>3, <1>4, PlacesOf
    <2>2. \A j \in 1..Len(c[h]) : c[h][j] # n
      <3>1. HHead \in SUBSET HHead
        OBVIOUS
      <3> QED
        BY <1>1, <1>3, <3>1, OutsideIs
    <2> QED
      BY <2>1, <2>2, HAssumption
  <1>8. ASSUME NEW z \in HNode, b[z] = z PROVE a[z] = None
    <2>1. z # n /\ z # y /\ pprev[z] = z
      BY <1>7, <1>8
    <2>2. z # p
      <3>1. ASSUME z = p PROVE FALSE
        <4>1. i - 1 \in 1..Len(c[h]) /\ p = c[h][i - 1]
          <5>0. h \in HHead
            OBVIOUS
          <5>1. Place(h, c[h], i - 1) = IF i - 1 \in 1..Len(c[h]) THEN c[h][i - 1]
                  ELSE h
            <6> HIDE <1>p
            <6> HIDE DEF c, a, d
            <6> QED
              BY <1>3, <1>4, <5>0, PlacesOf
          <5> QED
            BY <3>1, <5>1, HAssumption
        <4>2. pprev[p] # p
          BY <1>1, <4>1, NotItself
        <4> QED
          BY <2>1, <3>1, <4>2
      <3> QED
        BY <3>1
    <2>3. at[z] = None
      BY <1>1, <2>1
    <2> QED
      BY <1>1, <1>5, <2>1, <2>2, <2>3 DEF Ats, Pointer
  <1>9. HInv' /\ ChainOf' = d
    <2> HIDE DEF a, d, c
    <2>1. at' = a
      BY DEF a
    <2> QED
      BY <1>2, <1>6, <1>8, <2>1, HBecoming
  <1>10. n \in HNode \ Chains!Linked
    BY DEF Chains!Linked, Chained, Chains!ToSet, ToSet
  <1>11. Chains!Enter
    BY <1>9, <1>10, Zenon DEF Chains!Enter, Chains!InsertAt, InsertAt
  <1> QED
    BY <1>9, <1>11

(* hlist_add_head.                                                         *)
LEMMA AddHeadKeeps ==
  ASSUME HInv, NEW n \in HNode, NEW h \in HHead, AddHead(n, h)
  PROVE  HInv' /\ Chains!Enter
  <1> DEFINE y == at[h]
             b == [Back(y, n) EXCEPT ![n] = h]
  <1>1. /\ n \notin Chained /\ hit = NoPass /\ hit' = hit /\ pprev' = b
        /\ at' = [at EXCEPT ![n] = y, ![h] = n]
    BY DEF AddHead, Enters
  <1>2. /\ at \in Ats /\ pprev \in Pprevs /\ HShape(at, pprev, ChainOf)
    BY InHInv
  <1>3. ChainOf \in [HHead -> Seq(HNode)]
    BY <1>2, ChainedIs
  <1> PICK i : i = 1
    OBVIOUS
  <1>4. /\ i \in 1..(Len(ChainOf[h]) + 1) /\ i - 1 \in 0..Len(ChainOf[h])
        /\ i - 1 + 1 = i /\ i \in Int /\ i - 1 \in Int
             /\ i - 1 \notin 1..Len(ChainOf[h])
    BY <1>3, PlacesOf
  <1>5. h = Place(h, ChainOf[h], i - 1)
    BY <1>3, <1>4, PlacesOf
  <1>6. y = Place(None, ChainOf[h], i)
    BY <1>2, <1>4, <1>5, ChainedIs
  <1>7. y \in HNode \cup {None} /\ n \in Pointer /\ h \in Pointer
    BY <1>3, <1>4, <1>6, PlacesOf DEF Pointer
  <1> HIDE DEF y
  <1>8. /\ Back(y, n) \in Pprevs
        /\ \A z \in HNode : Back(y, n)[z] = IF z = y THEN n ELSE pprev[z]
    BY <1>2, <1>7, BackIs
  <1>9. b \in Pprevs /\ \A z \in HNode : b[z] = IF z = n THEN h ELSE
                                              IF z = y THEN n ELSE pprev[z]
    BY <1>7, <1>8 DEF Pprevs
  <1> HIDE DEF b
  <1>10. Putting(n, h, i, h, y, b)
    BY <1>1, <1>4, <1>5, <1>6, <1>9 DEF Putting
  <1> QED
    BY <1>10, PutInto

(* hlist_add_after: next goes behind n.                                    *)
LEMMA AddAfterKeeps ==
  ASSUME HInv, NEW n \in HNode, NEW next \in HNode, AddAfter(n, next)
  PROVE  HInv' /\ Chains!Enter
  <1> DEFINE y == at[n]
             b == [Back(y, next) EXCEPT ![next] = n]
  <1>1. /\ n \in Chained /\ next \notin Chained /\ hit = NoPass /\ hit' = hit
             /\ pprev' = b
        /\ at' = [at EXCEPT ![next] = y, ![n] = next]
    BY DEF AddAfter, Enters
  <1>2. /\ at \in Ats /\ pprev \in Pprevs /\ HShape(at, pprev, ChainOf)
    BY InHInv
  <1>3. ChainOf \in [HHead -> Seq(HNode)]
    BY <1>2, ChainedIs
  <1>4. PICK h \in HHead : \E k \in 1..Len(ChainOf[h]) : n = ChainOf[h][k]
    BY <1>1, InHInv
  <1>5. PICK k \in 1..Len(ChainOf[h]) : n = ChainOf[h][k]
    BY <1>4
  <1> PICK i : i = k + 1
    OBVIOUS
  <1>6. /\ i \in 1..(Len(ChainOf[h]) + 1) /\ i - 1 = k /\ i \in Int /\ k \in Int
        /\ k \in 0..Len(ChainOf[h])
    BY <1>3, PlacesOf
  <1>7. n = Place(h, ChainOf[h], i - 1)
    BY <1>3, <1>5, <1>6, PlacesOf
  <1>8. y = Place(None, ChainOf[h], i)
    BY <1>2, <1>6, <1>7, ChainedIs
  <1> HIDE DEF y
  <1>9. y \in HNode \cup {None} /\ n \in Pointer /\ next \in Pointer
    <2>1. Place(None, ChainOf[h], i) \in HNode \cup {None}
      BY <1>3, <1>6, PlacesOf
    <2> QED
      BY <1>8, <2>1 DEF Pointer
  <1>10. /\ Back(y, next) \in Pprevs
         /\ \A z \in HNode : Back(y, next)[z] = IF z = y THEN next ELSE pprev[z]
    BY <1>2, <1>9, BackIs
  <1>11. b \in Pprevs /\ \A z \in HNode : b[z] = IF z = next THEN n ELSE
                                               IF z = y THEN next ELSE pprev[z]
    BY <1>9, <1>10 DEF Pprevs
  <1> HIDE DEF b
  <1>12. Putting(next, h, i, n, y, b)
    BY <1>1, <1>6, <1>7, <1>8, <1>11 DEF Putting
  <1> QED
    BY <1>12, PutInto

(* hlist_add_before: n goes before next.                                   *)
LEMMA AddBeforeKeeps ==
  ASSUME HInv, NEW n \in HNode, NEW next \in HNode, AddBefore(n, next)
  PROVE  HInv' /\ Chains!Enter
  <1> DEFINE p == pprev[next]
             b == [pprev EXCEPT ![n] = p, ![next] = n]
  <1>1. /\ next \in Chained /\ n \notin Chained /\ hit = NoPass /\ hit' = hit
             /\ pprev' = b
        /\ at' = [at EXCEPT ![n] = next, ![p] = n] /\ n # next
    BY DEF AddBefore, Enters
  <1>2. /\ at \in Ats /\ pprev \in Pprevs /\ HShape(at, pprev, ChainOf)
    BY InHInv
  <1>3. ChainOf \in [HHead -> Seq(HNode)]
    BY <1>2, ChainedIs
  <1>4. PICK h \in HHead : \E k \in 1..Len(ChainOf[h]) : next = ChainOf[h][k]
    BY <1>1, InHInv
  <1>5. PICK i \in 1..Len(ChainOf[h]) : next = ChainOf[h][i]
    BY <1>4
  <1>6. i \in 1..(Len(ChainOf[h]) + 1) /\ i \in Int /\ i - 1 \in Int
    BY <1>3, PlacesOf
  <1>7. p = Place(h, ChainOf[h], i - 1)
    BY <1>2, <1>5, ChainedIs
  <1>8. next = Place(None, ChainOf[h], i)
    BY <1>3, <1>5, <1>6, PlacesOf
  <1>9. p \in Pointer /\ n \in Pointer
    BY <1>3, <1>6, <1>7, PlacesOf DEF Pointer
  <1> HIDE DEF p
  <1>11. b \in Pprevs /\ \A z \in HNode : b[z] = IF z = n THEN p ELSE
                                               IF z = next THEN n ELSE pprev[z]
    BY <1>1, <1>2, <1>9 DEF Pprevs
  <1> HIDE DEF b
  <1>12. Putting(n, h, i, p, next, b)
    BY <1>1, <1>6, <1>7, <1>8, <1>11 DEF Putting
  <1> QED
    BY <1>12, PutInto

(* The iteration does not notice that the node it is at leaves: what comes *)
(* later in the chain it began with is not what leads to that node.        *)
LEMMA PassKept ==
  ASSUME NEW a \in Ats, NEW hp, InPass(hp, a), hp.pos \in HNode,
         NEW q, q = hp.pos \/ a[q] = hp.pos, NEW u, NEW v,
         NEW a2, a2 = [a EXCEPT ![q] = u, ![hp.pos] = v]
  PROVE  InPass(hp, a2)
  <1> DEFINE w == hp.whole
             k == Len(hp.seen)
             l == Len(w)
  <1>1. /\ hp \in Pass /\ NoTwice(w) /\ k \in 1..l
        /\ \A i \in 1..k : hp.seen[i] = w[i]
        /\ \/ hp.pos = None /\ k = l
           \/ hp.pos = w[k] /\ hp.n = Place(None, w, k + 1)
        /\ \A j \in (k + 1)..l : a[w[j]] = Place(None, w, j + 1)
    BY DEF InPass
  <1>2. hp.pos = w[k] /\ hp.pos # None
    BY <1>1, HAssumption DEF Pointer
  <1>3. w \in Seq(HNode)
    BY <1>1 DEF Pass
  <1>4. /\ l \in Nat /\ DOMAIN w = 1..l /\ (\A i \in 1..l : w[i] \in HNode)
        /\ \A i \in Int : Place(None, w, i) = IF i \in 1..l THEN w[i] ELSE None
    BY <1>3, PlaceIs
  <1> HIDE DEF w, k, l
  <1>5. ASSUME NEW j \in (k + 1)..l PROVE a2[w[j]] = Place(None, w, j + 1)
    <2>1. j \in 1..l /\ k \in 1..l /\ j # k /\ j + 1 \in Int /\ j + 1 # k
      BY <1>1, <1>4
    <2>2. w[j] # hp.pos
      BY <1>1, <1>2, <1>4, <2>1 DEF NoTwice
    <2>3. Place(None, w, j + 1) # hp.pos
      <3>1. CASE j + 1 \in 1..l
        <4>1. w[j + 1] # hp.pos
          BY <1>1, <1>2, <1>4, <2>1, <3>1 DEF NoTwice
        <4> QED
          BY <1>4, <2>1, <3>1, <4>1
      <3>2. CASE j + 1 \notin 1..l
        BY <1>2, <1>4, <2>1, <3>2
      <3> QED
        BY <3>1, <3>2
    <2>4. a[w[j]] = Place(None, w, j + 1)
      BY <1>1
    <2>5. w[j] # q
      BY <2>2, <2>3, <2>4
    <2>6. w[j] \in Pointer
      BY <1>4, <2>1 DEF Pointer
    <2> QED
      BY <2>2, <2>4, <2>5, <2>6 DEF Ats
  <1> QED
    BY <1>1, <1>5 DEF InPass, w, k, l

(* hlist_del of a node in a chain.                                         *)
LEMMA DeleteKeeps ==
  ASSUME HInv, NEW n \in HNode, n \in Chained, NEW v \in {None, HPoison}, Delete(n, v)
  PROVE  HInv' /\ Chains!Leave
  <1> DEFINE c == ChainOf
             p == pprev[n]
             y == at[n]
             a == [at EXCEPT ![p] = y, ![n] = v]
             b == [Back(y, p) EXCEPT ![n] = v]
  <1>1. /\ hit' = hit /\ (hit = NoPass \/ hit.pos = n)
        /\ at' = a /\ pprev' = b
    BY DEF Delete, PprevAfter
  <1>2. /\ at \in Ats /\ pprev \in Pprevs /\ HShape(at, pprev, c)
        /\ \A z \in HNode : pprev[z] = z => at[z] = None
        /\ hit = NoPass \/ InPass(hit, at)
    BY InHInv
  <1>3. c \in [HHead -> Seq(HNode)] /\ Separate(c, HHead)
    BY <1>2, ChainedIs
  <1>4. PICK h \in HHead : \E k \in 1..Len(ChainOf[h]) : n = ChainOf[h][k]
    BY InHInv
  <1>5. PICK i \in 1..Len(c[h]) : n = c[h][i]
    BY <1>4
  <1> HIDE DEF c, a, b, p, y
  <1>6. /\ i \in 0..Len(c[h]) /\ i - 1 \in 0..Len(c[h]) /\ i \in Int /\ i - 1 \in Int
        /\ i + 1 \in Int /\ i - 1 # i /\ i - 1 # i + 1 /\ i - 1 + 1 = i
    BY <1>3, PlacesOf
  <1>7. n = Place(h, c[h], i)
    BY <1>3, <1>5, <1>6, PlacesOf
  <1>8. p = Place(h, c[h], i - 1)
    BY <1>2, <1>5, <1>6, ChainedIs DEF p
  <1>9. y = Place(None, c[h], i + 1)
    BY <1>2, <1>6, <1>7, ChainedIs DEF y
  <1>10. p \in Pointer
    BY <1>3, <1>6, <1>8, PlacesOf
  <1>11. y \in HNode \cup {None}
    BY <1>3, <1>6, <1>9, PlacesOf
  <1>12. at[p] = n
    <2>1. at[Place(h, c[h], i - 1)] = Place(None, c[h], i - 1 + 1)
      BY <1>2, <1>6, ChainedIs
    <2>2. Place(None, c[h], i) = c[h][i]
      BY <1>3, <1>6, PlacesOf
    <2> QED
      BY <1>5, <1>6, <1>8, <2>1, <2>2
  <1>13. y # n /\ p # n /\ (y \in HNode => p # y)
    <2>1. Separate(c, HHead)
      BY <1>3
    <2>2. p # n
      BY <1>6, <1>7, <1>8, <2>1 DEF Separate
    <2>3. ASSUME y \in HNode
          PROVE  i + 1 \in 0..Len(c[h]) /\ y = Place(h, c[h], i + 1)
      <3>1. i + 1 \in 1..Len(c[h])
        <4>1. Place(None, c[h], i + 1) = IF i + 1 \in 1..Len(c[h]) THEN c[h][i + 1]
                ELSE None
          BY <1>3, <1>6, PlacesOf
        <4> QED
          BY <1>9, <2>3, <4>1, HAssumption DEF Pointer
      <3>2. i + 1 \in 0..Len(c[h])
        BY <1>6, <3>1
      <3>3. Place(None, c[h], i + 1) = c[h][i + 1]
              /\ Place(h, c[h], i + 1) = c[h][i + 1]
        BY <1>3, <1>6, <3>1, PlacesOf
      <3> QED
        BY <1>9, <3>2, <3>3
    <2>4. ASSUME y \in HNode PROVE p # y
      BY <1>6, <1>8, <2>1, <2>3, <2>4 DEF Separate
    <2>5. y # n
      <3>1. i # i + 1
        BY <1>6
      <3>2. y \in HNode => y # n
        BY <1>6, <1>7, <2>1, <2>3, <3>1 DEF Separate
      <3>3. y = n => y \in HNode
        OBVIOUS
      <3> QED
        BY <3>2, <3>3
    <2> QED
      BY <2>2, <2>4, <2>5
  <1>14. Back(y, p) \in Pprevs
           /\ \A z \in HNode : Back(y, p)[z] = IF z = y THEN p ELSE pprev[z]
    BY <1>2, <1>10, <1>11, BackIs
  <1>15. b \in Pprevs /\ \A z \in HNode : b[z] = IF z = n THEN v ELSE
                                              IF z = y THEN p ELSE pprev[z]
    BY <1>14 DEF Pprevs, b
  <1>16. a = [at EXCEPT ![p] = y, ![n] = v]
    BY DEF a
  <1>17. Leaving(at, pprev, c, h, i, n, p, y, v, a, b)
    BY <1>2, <1>5, <1>8, <1>9, <1>15, <1>16 DEF Leaving
  <1> DEFINE d == [c EXCEPT ![h] = RemoveAt(@, i)]
  <1>18. HShape(a, b, d)
    BY <1>17, NodeLeaves
  <1>19. a \in Ats /\ n \in Pointer /\ \A z \in Pointer : a[z] = IF z = n THEN v ELSE
                                                IF z = p THEN y ELSE at[z]
    BY <1>2, <1>10, <1>11, <1>16 DEF Ats, Pointer
  <1>20. ASSUME NEW z \in HNode, b[z] = z PROVE a[z] = None
    <2>1. z # n
      BY <1>15, <1>20, HAssumption DEF Pointer
    <2>2. z # y /\ pprev[z] = z
      BY <1>13, <1>15, <1>20, <2>1
    <2>3. z # p
      <3>1. ASSUME z = p PROVE FALSE
        <4>1. at[p] = None
          BY <1>2, <2>2, <3>1
        <4> QED
          BY <1>12, <4>1, HAssumption DEF Pointer
      <3> QED
        BY <3>1
    <2>4. at[z] = None /\ z \in Pointer
      BY <1>2, <2>2 DEF Pointer
    <2> QED
      BY <1>19, <2>1, <2>3, <2>4
  <1>21. hit' = NoPass \/ InPass(hit', a)
    <2>1. CASE hit = NoPass
      BY <1>1, <2>1
    <2>2. CASE hit # NoPass
      <3>1. hit.pos = n /\ InPass(hit, at)
        BY <1>1, <1>2, <2>2
      <3>2. a = [at EXCEPT ![p] = y, ![hit.pos] = v] /\ at[p] = hit.pos
              /\ hit.pos \in HNode
        BY <1>12, <1>16, <3>1
      <3>3. InPass(hit, a)
        BY <1>2, <3>1, <3>2, PassKept
      <3> QED
        BY <1>1, <3>3
    <2> QED
      BY <2>1, <2>2
  <1> HIDE DEF d
  <1>22. HInv' /\ ChainOf' = d
    BY <1>1, <1>15, <1>18, <1>19, <1>20, <1>21, HBecoming
  <1>23. i \in DOMAIN c[h]
    BY <1>3, PlacesOf
  <1>24. Chains!Leave
    BY <1>22, <1>23, Zenon DEF Chains!Leave, Chains!RemoveAt, RemoveAt, c, d
  <1> QED
    BY <1>22, <1>24

(* A call that changes no pointer but those of a node in no chain.         *)
LEMMA OffKeeps ==
  ASSUME HInv, NEW n \in HNode, n \notin Chained,
         NEW u \in HNode \cup {None, HPoison}, NEW w \in Pointer \cup {None, HPoison},
         w = n => u = None,
         at' = [at EXCEPT ![n] = u], pprev' = [pprev EXCEPT ![n] = w],
         hit' = NoPass \/ InPass(hit', [at EXCEPT ![n] = u])
  PROVE  HInv' /\ ChainOf' = ChainOf
  <1> DEFINE c == ChainOf
             a == [at EXCEPT ![n] = u]
             b == [pprev EXCEPT ![n] = w]
  <1>1. /\ at \in Ats /\ pprev \in Pprevs /\ HShape(at, pprev, c)
             /\ Outside(c, HHead, n)
        /\ \A z \in HNode : pprev[z] = z => at[z] = None
    BY InHInv
  <1> HIDE DEF c
  <1>2. HShape(a, b, c)
    BY <1>1, OffChain
  <1>3. a \in Ats /\ b \in Pprevs /\ n \in Pointer
    BY <1>1 DEF Ats, Pprevs, Pointer
  <1>4. ASSUME NEW z \in HNode, b[z] = z PROVE a[z] = None
    <2>1. CASE z = n
      BY <1>1, <1>3, <1>4, <2>1 DEF Ats, Pprevs
    <2>2. CASE z # n
      BY <1>1, <1>3, <1>4, <2>2 DEF Ats, Pprevs
    <2> QED
      BY <2>1, <2>2
  <1>5. at' = a /\ pprev' = b /\ (hit' = NoPass \/ InPass(hit', a))
    OBVIOUS
  <1> HIDE DEF a, b
  <1>6. HInv' /\ ChainOf' = c
    BY <1>2, <1>3, <1>4, <1>5, HBecoming
  <1> QED
    BY <1>6 DEF c

(* INIT_HLIST_NODE, hlist_add_fake and hlist_del of a node marked as fake. *)
LEMMA InitNodeKeeps ==
  ASSUME HInv, NEW n \in HNode, InitNode(n)
  PROVE  HInv' /\ ChainOf' = ChainOf
  <1>1. /\ n \notin Chained /\ at' = [at EXCEPT ![n] = None] /\ hit' = NoPass
        /\ pprev' = [pprev EXCEPT ![n] = None]
    BY DEF InitNode
  <1>2. None # n
    BY HAssumption DEF Pointer
  <1> QED
    BY <1>1, <1>2, OffKeeps

LEMMA AddFakeKeeps ==
  ASSUME HInv, NEW n \in HNode, AddFake(n)
  PROVE  HInv' /\ ChainOf' = ChainOf
  <1>1. /\ n \notin Chained /\ at[n] = None /\ at' = at /\ hit' = NoPass
        /\ pprev' = [pprev EXCEPT ![n] = n]
    BY DEF AddFake
  <1>2. n \in Pointer /\ at \in Ats
    BY InHInv DEF Pointer
  <1>3. at' = [at EXCEPT ![n] = None]
    BY <1>1, <1>2 DEF Ats
  <1> QED
    BY <1>1, <1>2, <1>3, OffKeeps

LEMMA DeleteFakeKeeps ==
  ASSUME HInv, NEW n \in HNode, n \notin Chained, NEW v \in {None, HPoison},
           Delete(n, v)
  PROVE  HInv' /\ ChainOf' = ChainOf
  <1>1. /\ pprev[n] = n /\ hit' = hit /\ (hit = NoPass \/ hit.pos = n)
        /\ at' = [at EXCEPT ![pprev[n]] = at[n], ![n] = v]
        /\ pprev' = [Back(at[n], pprev[n]) EXCEPT ![n] = v]
    BY DEF Delete, PprevAfter
  <1>2. /\ at \in Ats /\ pprev \in Pprevs /\ at[n] = None
        /\ hit = NoPass \/ InPass(hit, at)
    BY <1>1, InHInv
  <1>3. at' = [at EXCEPT ![n] = v]
    BY <1>1, <1>2 DEF Ats
  <1>4. pprev' = [pprev EXCEPT ![n] = v]
    BY <1>1, <1>2 DEF Back
  <1>5. hit' = NoPass \/ InPass(hit', [at EXCEPT ![n] = v])
    <2>1. CASE hit = NoPass
      BY <1>1, <2>1
    <2>2. CASE hit # NoPass
      <3>1. hit.pos = n /\ InPass(hit, at)
        BY <1>1, <1>2, <2>2
      <3>2. at' = [at EXCEPT ![n] = at[n], ![hit.pos] = v]
        BY <1>1, <3>1
      <3>3. InPass(hit, at')
        BY <1>2, <3>1, <3>2, PassKept
      <3> QED
        BY <1>1, <1>3, <3>3
    <2> QED
      BY <2>1, <2>2
  <1>6. v # n
    BY HAssumption DEF Pointer
  <1> QED
    BY <1>3, <1>4, <1>5, <1>6, OffKeeps

(* Where a chain starts.                                                   *)
LEMMA FirstOf ==
  ASSUME NEW c \in [HHead -> Seq(HNode)], NEW h \in HHead
  PROVE  /\ Place(h, c[h], 0) = h /\ Place(None, c[h], 1) \in HNode \cup {None}
         /\ Place(None, c[h], 1) = None => c[h] = <<>>
         /\ Place(None, c[h], 1) = IF 1 \in 1..Len(c[h]) THEN c[h][1] ELSE None
         /\ 0 \in 0..Len(c[h]) /\ 0 + 1 = 1
  <1>1. c[h] \in Seq(HNode)
    OBVIOUS
  <1>2. /\ Len(c[h]) \in Nat /\ DOMAIN c[h] = 1..Len(c[h])
        /\ \A i \in 1..Len(c[h]) : c[h][i] \in HNode
    BY <1>1, LenProperties, ElementOfSeq
  <1>3. Place(h, c[h], 0) = h
    BY <1>2 DEF Place
  <1>4. Place(None, c[h], 1) = IF 1 \in 1..Len(c[h]) THEN c[h][1] ELSE None
    BY <1>2 DEF Place
  <1>5. ASSUME Place(None, c[h], 1) = None PROVE c[h] = <<>>
    <2>1. 1 \notin 1..Len(c[h])
      BY <1>2, <1>4, <1>5, HAssumption DEF Pointer
    <2>2. Len(c[h]) = 0
      BY <1>2, <2>1
    <2> QED
      BY <1>1, <2>2, EmptySeq
  <1> QED
    BY <1>2, <1>3, <1>4, <1>5

(* hlist_move_list: the chain of old gets the head new.                    *)
LEMMA MoveListKeeps ==
  ASSUME HInv, NEW old \in HHead, NEW new \in HHead, MoveList(old, new)
  PROVE  HInv' /\ Chains!Splice
  <1> DEFINE c == ChainOf
             a == [at EXCEPT ![new] = at[old], ![old] = None]
             b == Back(at[old], new)
             d == [c EXCEPT ![new] = c[old], ![old] = <<>>]
             Was(g) == IF g = new THEN old ELSE IF g = old THEN new ELSE g
  <1>1. /\ old # new /\ at[new] = None /\ hit' = NoPass /\ at' = a /\ pprev' = b
    BY DEF MoveList
  <1>2. /\ at \in Ats /\ pprev \in Pprevs /\ HShape(at, pprev, c)
        /\ \A z \in HNode : pprev[z] = z => at[z] = None
    BY InHInv
  <1> HIDE DEF c, a, b, d
  <1>3. /\ c \in [HHead -> Seq(HNode)] /\ Apart(c, HHead)
        /\ \A g \in HHead : \A j \in 0..Len(c[g]) :
             at[Place(g, c[g], j)] = Place(None, c[g], j + 1)
        /\ \A g \in HHead : \A j \in 1..Len(c[g]) :
             pprev[c[g][j]] = Place(g, c[g], j - 1)
    BY <1>2, ChainedIs
  <1> USE DEF a, b, d
  <1>4. \A g \in HHead : at[g] = Place(None, c[g], 1)
    <2> SUFFICES ASSUME NEW g \in HHead PROVE at[g] = Place(None, c[g], 1)
      OBVIOUS
    <2>1. 0 \in 0..Len(c[g]) /\ Place(g, c[g], 0) = g /\ 0 + 1 = 1
      BY <1>3, FirstOf
    <2> QED
      BY <1>3, <2>1
  <1>5. c[new] = <<>>
    <2>1. Place(None, c[new], 1) = None => c[new] = <<>>
      BY <1>3, FirstOf
    <2> QED
      BY <1>1, <1>4, <2>1
  <1>6. \A g \in HHead : Was(g) \in HHead /\ d[g] = c[Was(g)]
    BY <1>1, <1>3, <1>5
  <1>7. d \in [HHead -> Seq(HNode)]
    <2>1. c \in [HHead -> Seq(HNode)] /\ <<>> \in Seq(HNode) /\ c[old] \in Seq(HNode)
      BY <1>3
    <2> QED
      BY <2>1
  <1>8. Apart(d, HHead)
    <2>1. \A g, f \in HHead : Was(g) = Was(f) => g = f
      BY <1>1
    <2> QED
      BY <1>3, <1>6, <2>1 DEF Apart
  <1>9. at[old] \in HNode \cup {None}
    <2>1. Place(None, c[old], 1) \in HNode \cup {None}
      BY <1>3, FirstOf
    <2> QED
      BY <1>4, <2>1
  <1>10. /\ a \in Ats /\ a[new] = at[old] /\ a[old] = None
         /\ \A z \in Pointer : z # new /\ z # old => a[z] = at[z]
    BY <1>1, <1>2, <1>9 DEF Ats, Pointer
  <1>11. /\ b \in Pprevs
         /\ \A z \in HNode : b[z] = IF z = at[old] THEN new ELSE pprev[z]
    <2>1. new \in Pointer
      BY DEF Pointer
    <2> QED
      BY <1>2, <1>9, <2>1, BackIs
  <1> HIDE DEF a, b, d
  <1>12. \A g \in HHead : a[g] = Place(None, d[g], 1)
    <2> SUFFICES ASSUME NEW g \in HHead PROVE a[g] = Place(None, d[g], 1)
      OBVIOUS
    <2>1. CASE g = new
      BY <1>1, <1>4, <1>6, <1>10, <2>1
    <2>2. CASE g = old
      BY <1>1, <1>4, <1>6, <1>10, <2>2
    <2>3. CASE g # new /\ g # old
      BY <1>4, <1>6, <1>10, <2>3 DEF Pointer
    <2> QED
      BY <2>1, <2>2, <2>3
  <1>13. ASSUME NEW g \in HHead, NEW j \in 0..Len(d[g])
         PROVE  a[Place(g, d[g], j)] = Place(None, d[g], j + 1)
    <2>1. /\ Len(d[g]) \in Nat /\ j \in Int
          /\ Place(g, d[g], j) = IF j \in 1..Len(d[g]) THEN d[g][j] ELSE g
      BY <1>7, PlacesOf
    <2>2. CASE j = 0
      <3>1. j \notin 1..Len(d[g]) /\ j + 1 = 1
        BY <2>2
      <3> QED
        BY <1>12, <2>1, <3>1
    <2>3. CASE j # 0
      <3>1. j \in 1..Len(d[g])
        BY <2>1, <2>3
      <3>2. /\ Was(g) \in HHead /\ d[g] = c[Was(g)] /\ j \in 0..Len(c[Was(g)])
            /\ Place(Was(g), c[Was(g)], j) = d[g][j] /\ d[g][j] \in HNode
        <4>1. Was(g) \in HHead /\ d[g] = c[Was(g)]
          BY <1>6
        <4>2. j \in 1..Len(c[Was(g)])
          BY <3>1, <4>1
        <4>3. Place(Was(g), c[Was(g)], j) = c[Was(g)][j] /\ c[Was(g)][j] \in HNode
          <5> HIDE DEF Was
          <5> QED
            BY <1>3, <2>1, <4>1, <4>2, PlacesOf
        <4> QED
          BY <4>1, <4>3
      <3>3. at[d[g][j]] = Place(None, d[g], j + 1)
        <4> HIDE DEF Was
        <4> QED
          BY <1>3, <3>2
      <3>4. a[d[g][j]] = at[d[g][j]]
        BY <1>10, <3>2, HAssumption DEF Pointer
      <3> QED
        BY <2>1, <3>1, <3>3, <3>4
    <2> QED
      BY <2>2, <2>3
  <1>14. ASSUME NEW g \in HHead, NEW j \in 1..Len(d[g])
         PROVE  b[d[g][j]] = Place(g, d[g], j - 1)
    <2>1. Was(g) \in HHead /\ d[g] = c[Was(g)] /\ (g = new <=> Was(g) = old)
      BY <1>1, <1>6
    <2> DEFINE f == Was(g)
    <2> HIDE DEF f
    <2>2. f \in HHead /\ d[g] = c[f] /\ (g = new <=> f = old)
            /\ (g = f \/ g = new \/ f = new)
      BY <1>1, <2>1 DEF f
    <2>3. /\ j \in 1..Len(c[f]) /\ j \in Int /\ j - 1 \in Int /\ Len(c[f]) \in Nat
          /\ c[f][j] \in HNode /\ Place(f, c[f], j - 1) =
                                     IF j - 1 \in 1..Len(c[f]) THEN c[f][j - 1] ELSE f
      BY <1>3, <2>2, PlacesOf
    <2>4. Place(g, d[g], j - 1) = IF j - 1 \in 1..Len(c[f]) THEN c[f][j - 1] ELSE g
      BY <1>7, <2>2, <2>3, PlacesOf
    <2>5. pprev[c[f][j]] = Place(f, c[f], j - 1)
      BY <1>3, <2>2, <2>3
    <2>6. c[f][j] = at[old] <=> f = old /\ j = 1
      <3>1. at[old] = IF 1 \in 1..Len(c[old]) THEN c[old][1] ELSE None
        <4>1. Place(None, c[old], 1) = IF 1 \in 1..Len(c[old]) THEN c[old][1] ELSE None
          BY <1>3, FirstOf
        <4> QED
          BY <1>4, <4>1
      <3>2. ASSUME f = old, j = 1 PROVE c[f][j] = at[old]
        BY <2>3, <3>1, <3>2
      <3>3. ASSUME c[f][j] = at[old] PROVE f = old /\ j = 1
        <4>1. 1 \in 1..Len(c[old]) /\ c[f][j] = c[old][1]
          BY <2>3, <3>1, <3>3, HAssumption DEF Pointer
        <4>2. 1 \in DOMAIN c[old] /\ j \in DOMAIN c[f]
          BY <1>3, <2>2, <2>3, <4>1, PlacesOf
        <4> QED
          BY <1>3, <2>2, <4>1, <4>2, ApartAt
      <3> QED
        BY <3>2, <3>3
    <2>7. j - 1 \in 1..Len(c[f]) <=> j # 1
      BY <2>3
    <2>8. f # new
      <3>1. ASSUME f = new PROVE FALSE
        <4>1. Len(c[f]) = 0
          BY <1>5, <3>1
        <4> QED
          BY <2>3, <4>1
      <3> QED
        BY <3>1
    <2>9. CASE f = old
      BY <1>11, <2>2, <2>3, <2>4, <2>5, <2>6, <2>7, <2>9
    <2>10. CASE f # old
      BY <1>11, <2>2, <2>3, <2>4, <2>5, <2>6, <2>7, <2>8, <2>10
    <2> QED
      BY <2>9, <2>10
  <1>15. HShape(a, b, d)
    BY <1>7, <1>8, <1>13, <1>14 DEF HShape
  <1>16. ASSUME NEW z \in HNode, b[z] = z PROVE a[z] = None
    <2>1. z # new /\ z # old /\ z \in Pointer
      BY HAssumption DEF Pointer
    <2>2. pprev[z] = z
      BY <1>11, <1>16, <2>1
    <2> QED
      BY <1>2, <1>10, <2>1, <2>2
  <1>17. HInv' /\ ChainOf' = d
    BY <1>1, <1>10, <1>11, <1>15, <1>16, HBecoming
  <1>18. c[old] \o c[new] = c[old]
    BY <1>3, <1>5, ConcatEmptySeq
  <1>19. Chains!Splice
    <2>1. c[old] \in {c[old] \o c[new], c[new] \o c[old]}
      BY <1>18
    <2>2. ChainOf' = [ChainOf EXCEPT ![new] = c[old], ![old] = <<>>]
      BY <1>17 DEF d, c
    <2> QED
      BY <1>1, <2>1, <2>2, Zenon DEF Chains!Splice, c
  <1> QED
    BY <1>17, <1>19

(* hlist_for_each_safe: what it begins with, and a turn of it.             *)
LEMMA PassBegins ==
  ASSUME HInv, NEW h \in HHead, HBegin(h)
  PROVE  HInv' /\ ChainOf' = ChainOf
  <1> DEFINE c == ChainOf
             s == c[h]
             new == hit'
  <1>1. /\ at[h] # None /\ at' = at /\ pprev' = pprev
        /\ hit' = [head |-> h, pos |-> at[h], n |-> at[at[h]],
                   seen |-> <<at[h]>>, whole |-> c[h]]
    BY DEF HBegin
  <1>2. /\ at \in Ats /\ pprev \in Pprevs /\ HShape(at, pprev, c)
        /\ \A z \in HNode : pprev[z] = z => at[z] = None
    BY InHInv
  <1>3. /\ c \in [HHead -> Seq(HNode)] /\ Apart(c, HHead)
        /\ \A g \in HHead : \A j \in 0..Len(c[g]) :
             at[Place(g, c[g], j)] = Place(None, c[g], j + 1)
    BY <1>2, ChainedIs
  <1> HIDE DEF c
  <1>4. /\ Place(h, s, 0) = h /\ 0 \in 0..Len(s) /\ 0 + 1 = 1
        /\ Place(None, s, 1) = IF 1 \in 1..Len(s) THEN s[1] ELSE None
    BY <1>3, FirstOf
  <1>5. at[h] = Place(None, s, 1)
    BY <1>3, <1>4
  <1>6. 1 \in 1..Len(s) /\ at[h] = s[1]
    BY <1>1, <1>4, <1>5
  <1> PICK k : k = 1
    OBVIOUS
  <1>7. /\ k \in Int /\ k \in 1..Len(s) /\ k \in 0..Len(s) /\ at[h] = s[k]
        /\ s \in Seq(HNode) /\ s[k] \in HNode /\ Place(h, s, k) = s[k]
    <2>1. k \in Int /\ k \in 1..Len(s) /\ at[h] = s[k]
      BY <1>6
    <2>2. k \in 0..Len(s)
      BY <2>1
    <2> HIDE DEF s
    <2>3. s \in Seq(HNode)
      BY <1>3 DEF s
    <2>4. s[k] \in HNode /\ Place(h, s, k) = s[k]
      BY <2>1, <2>3, PlaceIs
    <2> QED
      BY <2>1, <2>2, <2>3, <2>4
  <1>8. at[at[h]] = Place(None, s, k + 1)
    BY <1>3, <1>7
  <1>9. NoTwice(s)
    BY <1>3 DEF Apart, NoTwice
  <1>10. Place(None, s, k + 1) \in HNode \cup {None}
    <2>1. k + 1 \in Int
      BY <1>7
    <2> QED
      BY <1>3, <2>1, PlacesOf
  <1>11. ASSUME NEW j \in (k + 1)..Len(s) PROVE at[s[j]] = Place(None, s, j + 1)
    <2>1. j \in 1..Len(s) /\ j \in 0..Len(s) /\ j \in Int
      BY <1>7
    <2>2. Place(h, s, j) = s[j]
      BY <1>3, <2>1, PlacesOf
    <2> QED
      BY <1>3, <2>1, <2>2
  <1> HIDE DEF s
  <1>12. InPass(new, at)
    <2>1. /\ new.head = h /\ new.pos = s[k] /\ new.n = Place(None, s, k + 1)
          /\ new.seen = <<s[k]>> /\ new.whole = s
      BY <1>1, <1>7, <1>8 DEF s
    <2>2. new \in Pass
      BY <1>1, <1>7, <1>8, <1>10 DEF Pass, s
    <2>3. Len(new.seen) = k /\ \A i \in 1..k : new.seen[i] = s[i]
      BY <2>1
    <2> HIDE DEF new
    <2> QED
      BY <1>7, <1>9, <1>11, <2>1, <2>2, <2>3 DEF InPass
  <1> HIDE DEF new
  <1>13. HInv' /\ ChainOf' = c
    BY <1>1, <1>2, <1>12, HBecoming DEF new
  <1> QED
    BY <1>13 DEF c

LEMMA PassAdvances ==
  ASSUME HInv, HAdvance
  PROVE  HInv' /\ ChainOf' = ChainOf
  <1> DEFINE c == ChainOf
             w == hit.whole
             k == Len(hit.seen)
             l == Len(w)
  <1>1. /\ hit # NoPass /\ hit.pos # None /\ at' = at /\ pprev' = pprev
        /\ hit' = IF hit.n = None THEN [hit EXCEPT !.pos = None]
                  ELSE [hit EXCEPT !.pos = hit.n, !.n = at[hit.n],
                                   !.seen = Append(@, hit.n)]
    BY DEF HAdvance
  <1>2. /\ at \in Ats /\ pprev \in Pprevs /\ HShape(at, pprev, c)
        /\ \A z \in HNode : pprev[z] = z => at[z] = None
        /\ InPass(hit, at)
    BY <1>1, InHInv
  <1>3. /\ hit \in Pass /\ NoTwice(w) /\ k \in 1..l
        /\ \A i \in 1..k : hit.seen[i] = w[i]
        /\ hit.pos = w[k] /\ hit.n = Place(None, w, k + 1)
        /\ \A j \in (k + 1)..l : at[w[j]] = Place(None, w, j + 1)
    BY <1>1, <1>2 DEF InPass
  <1>4. w \in Seq(HNode) /\ hit.seen \in Seq(HNode) /\ k \in Nat
    BY <1>3 DEF Pass
  <1>5. /\ l \in Nat /\ \A i \in 1..l : w[i] \in HNode
        /\ \A i \in Int : Place(None, w, i) = IF i \in 1..l THEN w[i] ELSE None
    BY <1>4, PlaceIs
  <1> HIDE DEF w, k, l, c
  <1>6. InPass(hit', at)
    <2>1. CASE hit.n = None
      <3>1. k = l
        <4>1. k + 1 \in Int /\ (k + 1 \in 1..l => w[k + 1] # None)
          BY <1>3, <1>5, HAssumption DEF Pointer
        <4>2. k + 1 \notin 1..l
          BY <1>3, <1>5, <2>1, <4>1
        <4> QED
          BY <1>3, <1>4, <1>5, <4>2
      <3>2. hit' = [hit EXCEPT !.pos = None]
        BY <1>1, <2>1
      <3>3. hit' \in Pass /\ hit'.pos = None /\ hit'.seen = hit.seen
              /\ hit'.whole = hit.whole
        BY <1>3, <3>2 DEF Pass
      <3> QED
        BY <1>3, <3>1, <3>3 DEF InPass, w, k, l
    <2>2. CASE hit.n # None
      <3>1. k + 1 \in 1..l /\ hit.n = w[k + 1] /\ k + 1 \in (k + 1)..l /\ k + 1 \in Int
        <4>1. k + 1 \in Int
          BY <1>4
        <4>2. k + 1 \in 1..l /\ hit.n = w[k + 1]
          BY <1>3, <1>5, <2>2, <4>1
        <4> QED
          BY <1>4, <1>5, <4>1, <4>2
      <3>2. at[hit.n] = Place(None, w, k + 1 + 1)
        BY <1>3, <3>1
      <3>3. Place(None, w, k + 1 + 1) \in HNode \cup {None}
        <4>1. k + 1 + 1 \in Int
          BY <1>4
        <4> QED
          BY <1>5, <4>1
      <3>4. w[k + 1] \in HNode
        BY <1>5, <3>1
      <3>5. hit' = [hit EXCEPT !.pos = w[k + 1], !.n = Place(None, w, k + 1 + 1),
                               !.seen = Append(@, w[k + 1])]
        BY <1>1, <2>2, <3>1, <3>2
      <3>6. /\ hit' \in Pass /\ hit'.pos = w[k + 1]
                 /\ hit'.n = Place(None, w, k + 1 + 1)
            /\ hit'.seen = Append(hit.seen, w[k + 1]) /\ hit'.whole = w
        <4> DEFINE x == w[k + 1]
                   y == Place(None, w, k + 1 + 1)
                   t == Append(hit.seen, x)
        <4>1. x \in HNode /\ y \in HNode \cup {None} /\ hit \in Pass
              /\ hit' = [hit EXCEPT !.pos = x, !.n = y, !.seen = t]
          BY <1>3, <3>3, <3>4, <3>5
        <4>2. t \in Seq(HNode)
          BY <1>4, <3>4, AppendProperties
        <4> HIDE DEF x, y, t
        <4>3. /\ hit' \in Pass /\ hit'.pos = x /\ hit'.n = y /\ hit'.seen = t
              /\ hit'.whole = hit.whole
          BY <4>1, <4>2 DEF Pass
        <4> QED
          BY <4>3 DEF x, y, t, w
      <3>7. Len(hit'.seen) = k + 1 /\ \A i \in 1..(k + 1) : hit'.seen[i] = w[i]
        <4>1. /\ Len(Append(hit.seen, w[k + 1])) = k + 1
              /\ \A i \in 1..k : Append(hit.seen, w[k + 1])[i] = hit.seen[i]
              /\ Append(hit.seen, w[k + 1])[k + 1] = w[k + 1]
          BY <1>4, <3>4, AppendProperties DEF k
        <4>2. \A i \in 1..(k + 1) : i \in 1..k \/ i = k + 1
          BY <1>4
        <4> QED
          BY <1>3, <3>6, <4>1, <4>2
      <3>8. \A j \in (k + 1 + 1)..l : j \in (k + 1)..l
        BY <1>4, <1>5
      <3>9. NoTwice(hit'.whole) /\ Len(hit'.whole) = l
        BY <1>3, <3>6 DEF l
      <3> QED
        BY <1>3, <3>1, <3>6, <3>7, <3>8, <3>9 DEF InPass
    <2> QED
      BY <2>1, <2>2
  <1>7. HInv' /\ ChainOf' = c
    BY <1>1, <1>2, <1>6, HBecoming
  <1> QED
    BY <1>7 DEF c

LEMMA PassFinishes ==
  ASSUME HInv, HFinish
  PROVE  HInv' /\ ChainOf' = ChainOf
  <1> DEFINE c == ChainOf
  <1>1. at' = at /\ pprev' = pprev /\ hit' = NoPass
    BY DEF HFinish
  <1>2. /\ at \in Ats /\ pprev \in Pprevs /\ HShape(at, pprev, c)
        /\ \A z \in HNode : pprev[z] = z => at[z] = None
    BY InHInv
  <1> HIDE DEF c
  <1>3. HInv' /\ ChainOf' = c
    BY <1>1, <1>2, HBecoming
  <1> QED
    BY <1>3 DEF c

(* All chains are empty at first.                                          *)
LEMMA HInitKeeps ==
  ASSUME HInit
  PROVE  HInv /\ Chains!Init
  <1> DEFINE c == [h \in HHead |-> <<>>]
  <1>1. /\ at = [p \in Pointer |-> IF p \in HHead THEN None ELSE HPoison]
        /\ pprev = [n \in HNode |-> HPoison] /\ hit = NoPass
    BY DEF HInit
  <1>2. at \in Ats /\ pprev \in Pprevs
    BY <1>1 DEF Ats, Pprevs
  <1>3. c \in [HHead -> Seq(HNode)] /\ \A h \in HHead : c[h] = <<>> /\ Len(c[h]) = 0
    OBVIOUS
  <1> HIDE DEF c
  <1>4. Apart(c, HHead)
    BY <1>3 DEF Apart
  <1>5. ASSUME NEW h \in HHead, NEW i \in 0..Len(c[h])
        PROVE  at[Place(h, c[h], i)] = Place(None, c[h], i + 1)
    <2>1. i = 0 /\ i \notin DOMAIN c[h] /\ i + 1 \notin DOMAIN c[h]
      BY <1>3
    <2> QED
      BY <1>1, <2>1 DEF Place, Pointer
  <1>6. \A h \in HHead : \A i \in 1..Len(c[h]) : pprev[c[h][i]] = Place(h, c[h], i - 1)
    BY <1>3
  <1>7. HShape(at, pprev, c)
    BY <1>3, <1>4, <1>5, <1>6 DEF HShape
  <1>8. ChainOf = c
    <2>1. \A h \in HHead : Along(at[h], at, {None, HPoison}, Cardinality(HNode)) = c[h]
      BY <1>7, ChainsRead
    <2> QED
      BY <1>3, <2>1 DEF ChainOf, Passes
  <1>9. \A n \in HNode : pprev[n] = n => at[n] = None
    BY <1>1, HAssumption DEF Pointer
  <1>10. HTypeOK
    BY <1>1, <1>2 DEF HTypeOK, Ats, Pprevs, NoPass
  <1>11. Chains!Init
    BY <1>3, <1>8 DEF Chains!Init, c
  <1> QED
    BY <1>1, <1>7, <1>8, <1>9, <1>10, <1>11 DEF HInv

(* Every call keeps the links, and does to the sequences of nodes what the *)
(* abstract lists may do.                                                  *)
LEMMA HStep ==
  ASSUME HInv, [HNext]_hvars
  PROVE  HInv' /\ [Chains!Next]_ChainOf
  <1>1. CASE UNCHANGED hvars
    <2>1. at' = at /\ pprev' = pprev /\ hit' = hit
      BY <1>1 DEF hvars
    <2>2. ChainOf' = ChainOf
      BY <2>1 DEF ChainOf, Passes
    <2>3. HInv'
      BY <2>1, <2>2 DEF HInv, HTypeOK, InPass, NoPass, HShape
    <2> QED
      BY <2>2, <2>3
  <1>2. ASSUME NEW n \in HNode, InitNode(n) \/ AddFake(n)
        PROVE  HInv' /\ ChainOf' = ChainOf
    BY <1>2, InitNodeKeeps, AddFakeKeeps
  <1>3. ASSUME NEW n \in HNode, NEW v \in {None, HPoison}, Delete(n, v)
        PROVE  HInv' /\ (Chains!Leave \/ ChainOf' = ChainOf)
    BY <1>3, DeleteKeeps, DeleteFakeKeeps
  <1>4. ASSUME NEW n \in HNode, NEW h \in HHead, AddHead(n, h)
        PROVE  HInv' /\ Chains!Enter
    BY <1>4, AddHeadKeeps
  <1>5. ASSUME NEW n \in HNode, NEW m \in HNode, AddBefore(n, m) \/ AddAfter(m, n)
        PROVE  HInv' /\ Chains!Enter
    BY <1>5, AddBeforeKeeps, AddAfterKeeps
  <1>6. ASSUME NEW h \in HHead, NEW g \in HHead, MoveList(h, g)
        PROVE  HInv' /\ Chains!Splice
    BY <1>6, MoveListKeeps
  <1>7. ASSUME NEW h \in HHead, HBegin(h)
        PROVE  HInv' /\ ChainOf' = ChainOf
    BY <1>7, PassBegins
  <1>8. CASE HAdvance \/ HFinish
    BY <1>8, PassAdvances, PassFinishes
  <1>9. CASE HNext
    <2>1. CASE \E n \in HNode : \/ InitNode(n) \/ AddFake(n)
                                \/ \E v \in {None, HPoison} : Delete(n, v)
                                \/ \E h \in HHead : AddHead(n, h)
                                \/ \E m \in HNode : AddBefore(n, m) \/ AddAfter(m, n)
      BY <1>2, <1>3, <1>4, <1>5, <2>1 DEF Chains!Next
    <2>2. CASE \E h \in HHead : HBegin(h) \/ \E g \in HHead : MoveList(h, g)
      BY <1>6, <1>7, <2>2 DEF Chains!Next
    <2> QED
      BY <1>8, <1>9, <2>1, <2>2 DEF HNext
  <1> QED
    BY <1>1, <1>9

(* What HInv says of pprev and of an iteration that has ended.             *)
LEMMA HInvShows ==
  ASSUME HInv
  PROVE  HTypeOK /\ LedTo /\ SafePass
  <1>1. LedTo
    <2> SUFFICES ASSUME NEW n \in Chained
                 PROVE  pprev[n] \in Pointer /\ at[pprev[n]] = n
      BY DEF LedTo
    <2> DEFINE c == ChainOf
    <2>1. PICK h \in HHead : \E i \in 1..Len(c[h]) : n = c[h][i]
      BY InHInv
    <2>2. PICK i \in 1..Len(c[h]) : n = c[h][i]
      BY <2>1
    <2>3. HShape(at, pprev, c)
      BY InHInv
    <2> HIDE DEF c
    <2>4. /\ c \in [HHead -> Seq(HNode)]
          /\ at[Place(h, c[h], i - 1)] = Place(None, c[h], i - 1 + 1)
          /\ pprev[n] = Place(h, c[h], i - 1)
      <3>1. c \in [HHead -> Seq(HNode)] /\ pprev[n] = Place(h, c[h], i - 1)
        BY <2>2, <2>3, ChainedIs
      <3>2. i - 1 \in 0..Len(c[h])
        BY <3>1, PlacesOf
      <3> QED
        BY <2>3, <3>1, <3>2, ChainedIs
    <2>5. i - 1 \in Int /\ i - 1 + 1 = i /\ i \in Int
      BY <2>4, PlacesOf
    <2>6. Place(h, c[h], i - 1) \in Pointer /\ Place(None, c[h], i) = c[h][i]
      BY <2>2, <2>4, <2>5, PlacesOf
    <2> QED
      BY <2>2, <2>4, <2>5, <2>6
  <1>2. SafePass
    <2> SUFFICES ASSUME hit # NoPass, hit.pos = None PROVE hit.seen = hit.whole
      BY DEF SafePass
    <2>1. InPass(hit, at)
      BY DEF HInv
    <2>2. /\ hit \in Pass /\ Len(hit.seen) \in 1..Len(hit.whole)
          /\ \A i \in 1..Len(hit.seen) : hit.seen[i] = hit.whole[i]
          /\ \/ Len(hit.seen) = Len(hit.whole)
             \/ None = hit.whole[Len(hit.seen)]
      BY <2>1 DEF InPass
    <2>3. hit.seen \in Seq(HNode) /\ hit.whole \in Seq(HNode)
      BY <2>2 DEF Pass
    <2>4. \A i \in 1..Len(hit.whole) : hit.whole[i] # None
      BY <2>3, ElementOfSeq, HAssumption DEF Pointer
    <2>5. Len(hit.seen) = Len(hit.whole)
      BY <2>2, <2>4
    <2> QED
      BY <2>2, <2>3, <2>5, SeqEqual
  <1> QED
    BY <1>1, <1>2 DEF HInv

(* The pointers of the lists for hash tables are whole after every call,   *)
THEOREM HListInvariant == HSpec => []HInv
  <1>1. HInit => HInv
    BY HInitKeeps
  <1>2. HInv /\ [HNext]_hvars => HInv'
    BY HStep
  <1> QED
    BY <1>1, <1>2, PTL DEF HSpec

(* and what the calls do to them implements Lists.                         *)
THEOREM ChainsAreLists == HSpec => AreChains
  <1>1. HInit => Chains!Init
    BY HInitKeeps
  <1>2. HInv /\ [HNext]_hvars => [Chains!Next]_ChainOf
    BY HStep
  <1> QED
    BY <1>1, <1>2, HListInvariant, PTL DEF HSpec, AreChains, Chains!Spec

-----------------------------------------------------------------------------
(* The circular lists.                                                     *)

(* What a shape says of the rings together.                                *)
LEMMA RingIs ==
  ASSUME NEW l, NEW H \in SUBSET LHead, NEW c, LShape(l, H, c)
  PROVE  /\ c \in [LHead -> Seq(LEntry)] /\ Apart(c, H) /\ Separate(c, H)
         /\ \A h \in H : Ring(l, h, c[h])
  <1>1. c \in [LHead -> Seq(LEntry)] /\ Apart(c, H) /\ \A h \in H : Ring(l, h, c[h])
    BY DEF LShape
  <1>2. LHead \cap LEntry = {}
    BY LAssumption
  <1> QED
    BY <1>1, <1>2, SeparateIs

LEMMA RingPlaces ==
  ASSUME NEW c \in [LHead -> Seq(LEntry)], NEW h \in LHead
  PROVE  /\ c[h] \in Seq(LEntry) /\ Len(c[h]) \in Nat /\ DOMAIN c[h] = 1..Len(c[h])
         /\ \A i \in Int : Place(h, c[h], i) = IF i \in 1..Len(c[h]) THEN c[h][i] ELSE h
         /\ \A i \in 1..Len(c[h]) : c[h][i] \in LEntry /\ c[h][i] \in Node
         /\ \A i \in Int : Place(h, c[h], i) \in Node
         /\ h \in Node
  <1>1. /\ c[h] \in Seq(LEntry) /\ Len(c[h]) \in Nat /\ DOMAIN c[h] = 1..Len(c[h])
        /\ \A i \in Int : Place(h, c[h], i) = IF i \in 1..Len(c[h]) THEN c[h][i] ELSE h
        /\ \A i \in 1..Len(c[h]) : c[h][i] \in LEntry
    BY PlaceIs
  <1> QED
    BY <1>1 DEF Node

(* The ends of a ring.                                                     *)
LEMMA RingEnds ==
  ASSUME NEW l, NEW H \in SUBSET LHead, NEW c, LShape(l, H, c), NEW h \in H
  PROVE  /\ Place(h, c[h], 0) = h /\ Place(h, c[h], Len(c[h]) + 1) = h
         /\ l.next[h] = Place(h, c[h], 1) /\ l.prev[h] = Place(h, c[h], Len(c[h]))
         /\ Place(h, c[h], 1) \in Node /\ Place(h, c[h], Len(c[h])) \in Node
         /\ Len(c[h]) \in Nat /\ h \in Node
         /\ l.next[h] = h <=> c[h] = <<>>
         /\ c[h] # <<>> => /\ 1 \in 1..Len(c[h]) /\ l.next[h] = c[h][1]
                           /\ Len(c[h]) \in 1..Len(c[h]) /\ l.prev[h] = c[h][Len(c[h])]
  <1> DEFINE s == c[h]
             n == Len(s)
  <1>0. c \in [LHead -> Seq(LEntry)] /\ Ring(l, h, s)
    BY RingIs
  <1>1. \A i \in 0..n : /\ l.next[Place(h, s, i)] = Place(h, s, i + 1)
                        /\ l.prev[Place(h, s, i + 1)] = Place(h, s, i)
    BY <1>0 DEF Ring
  <1>2. h \in LHead /\ h \in Node /\ h \notin LEntry
    BY LAssumption DEF Node
  <1>3. s \in Seq(LEntry)
    BY <1>0, <1>2
  <1> HIDE DEF s
  <1>4. /\ n \in Nat /\ DOMAIN s = 1..n
        /\ \A i \in 1..n : s[i] \in LEntry
    BY <1>3, LenProperties, ElementOfSeq
  <1> HIDE DEF n
  <1>5. Place(h, s, 0) = h /\ Place(h, s, n + 1) = h
    BY <1>4 DEF Place
  <1>6. 0 \in 0..n /\ n \in 0..n /\ 0 + 1 = 1
    BY <1>4
  <1>7. l.next[h] = Place(h, s, 1) /\ l.prev[h] = Place(h, s, n)
    BY <1>1, <1>5, <1>6
  <1>8. Place(h, s, 1) \in Node /\ Place(h, s, n) \in Node
    BY <1>2, <1>4 DEF Place, Node
  <1>9. s = <<>> <=> n = 0
    BY <1>3, EmptySeq DEF n
  <1>10. CASE s = <<>>
    <2>1. Place(h, s, 1) = h
      BY <1>4, <1>9, <1>10 DEF Place
    <2> QED
      BY <1>2, <1>4, <1>5, <1>7, <1>8, <1>10, <2>1 DEF s, n
  <1>11. CASE s # <<>>
    <2>1. 1 \in 1..n /\ n \in 1..n
      BY <1>4, <1>9, <1>11
    <2>2. Place(h, s, 1) = s[1] /\ Place(h, s, n) = s[n]
      BY <1>4, <2>1 DEF Place
    <2>3. l.next[h] # h
      BY <1>2, <1>4, <1>7, <2>1, <2>2
    <2> QED
      BY <1>2, <1>4, <1>5, <1>7, <1>8, <1>11, <2>1, <2>2, <2>3 DEF s, n
  <1> QED
    BY <1>10, <1>11

(* Two links of the rings start at different nodes and lead to different   *)
(* nodes.                                                                  *)
LEMMA OtherLink ==
  ASSUME NEW l, NEW H \in SUBSET LHead, NEW c, LShape(l, H, c),
         NEW h \in H, NEW i \in 0..Len(c[h]), NEW g \in H, NEW j \in 0..Len(c[g]),
         g # h \/ j # i
  PROVE  /\ Place(g, c[g], j) # Place(h, c[h], i)
         /\ Place(g, c[g], j + 1) # Place(h, c[h], i + 1)
  <1>0. Separate(c, H)
    BY RingIs
  <1>1. /\ l.prev[Place(h, c[h], i + 1)] = Place(h, c[h], i)
        /\ l.prev[Place(g, c[g], j + 1)] = Place(g, c[g], j)
    BY DEF LShape, Ring
  <1>2. Place(g, c[g], j) # Place(h, c[h], i)
    BY <1>0 DEF Separate
  <1> QED
    BY <1>1, <1>2

(* Links read both ways.                                                   *)
LEMMA VisitsRead ==
  ASSUME NEW l, NEW H \in SUBSET LHead, NEW c, LShape(l, H, c), NEW h \in H
  PROVE  Visits(h, l.next) = c[h] /\ Visits(h, l.prev) = Reverse(c[h])
  <1> DEFINE s == c[h]
             n == Len(s)
             r == Reverse(s)
             N == Cardinality(Node)
             stop == {h, Poison}
  <1>0. c \in [LHead -> Seq(LEntry)] /\ Apart(c, H) /\ Ring(l, h, s)
    BY RingIs
  <1>1. \A i \in 0..n : /\ l.next[Place(h, s, i)] = Place(h, s, i + 1)
                        /\ l.prev[Place(h, s, i + 1)] = Place(h, s, i)
    BY <1>0 DEF Ring
  <1>2. /\ s \in Seq(LEntry) /\ n \in Nat /\ DOMAIN s = 1..n
        /\ \A i \in Int : Place(h, s, i) = IF i \in 1..n THEN s[i] ELSE h
    BY <1>0, RingPlaces
  <1>3. /\ l.next[h] = Place(h, s, 1) /\ l.prev[h] = Place(h, s, n)
    BY RingEnds
  <1>4. NoTwice(s)
    BY <1>0 DEF Apart, NoTwice
  <1>5. N \in Nat /\ n <= N
    <2>1. s \in Seq(Node)
      BY <1>2, SeqMonotonic DEF Node
    <2> HIDE DEF s
    <2>2. IsFiniteSet(Node)
      BY LAssumption
    <2> QED
      BY <1>4, <2>1, <2>2, Room
  <1>6. h \in stop /\ LEntry \cap stop = {}
    BY LAssumption DEF Node
  <1>7. r \in Seq(LEntry) /\ Len(r) = n /\ \A i \in 1..n : r[i] = s[n - i + 1]
    BY <1>2, ReverseIs
  <1>8. \A i \in Int : Place(h, r, i) = IF i \in 1..n THEN r[i] ELSE h
    <2> HIDE DEF r, n
    <2> QED
      BY <1>7, PlaceIs
  <1>9. \A i \in Int : Place(h, r, i) = Place(h, s, n - i + 1)
    <2> SUFFICES ASSUME NEW i \in Int PROVE Place(h, r, i) = Place(h, s, n - i + 1)
      OBVIOUS
    <2>1. n - i + 1 \in Int /\ (i \in 1..n <=> n - i + 1 \in 1..n)
      BY <1>2
    <2> HIDE DEF r, n, s
    <2> QED
      BY <1>2, <1>7, <1>8, <2>1
  <1> HIDE DEF s, n, r, N, stop
  <1>10. \A i \in 1..n : l.next[s[i]] = Place(h, s, i + 1)
    <2> SUFFICES ASSUME NEW i \in 1..n PROVE l.next[s[i]] = Place(h, s, i + 1)
      OBVIOUS
    <2>1. i \in 0..n /\ i \in Int
      BY <1>2
    <2> QED
      BY <1>1, <1>2, <2>1
  <1>11. \A i \in 1..n : l.prev[r[i]] = Place(h, r, i + 1)
    <2> SUFFICES ASSUME NEW i \in 1..n PROVE l.prev[r[i]] = Place(h, r, i + 1)
      OBVIOUS
    <2>1. n - i \in 0..n /\ i + 1 \in Int /\ i \in Int /\ n - (i + 1) + 1 = n - i
      BY <1>2
    <2>2. r[i] = Place(h, s, n - i + 1)
      BY <1>8, <1>9, <2>1
    <2>3. l.prev[Place(h, s, n - i + 1)] = Place(h, s, n - i)
      BY <1>1, <2>1
    <2>4. Place(h, r, i + 1) = Place(h, s, n - (i + 1) + 1)
      BY <1>9, <2>1
    <2> QED
      BY <2>1, <2>2, <2>3, <2>4
  <1>12. l.prev[h] = Place(h, r, 1)
    <2>1. 1 \in Int /\ n - 1 + 1 = n
      BY <1>2
    <2>2. Place(h, r, 1) = Place(h, s, n - 1 + 1)
      BY <1>9, <2>1
    <2> QED
      BY <1>3, <2>1, <2>2 DEF s, n
  <1>13. l.next[h] = Place(h, s, 1)
    BY <1>3 DEF s, n
  <1>14. Along(l.next[h], l.next, stop, N) = s
    BY <1>2, <1>5, <1>6, <1>10, <1>13, AlongIs DEF n
  <1>15. Along(l.prev[h], l.prev, stop, N) = r
    BY <1>5, <1>6, <1>7, <1>11, <1>12, AlongIs
  <1> QED
    BY <1>14, <1>15 DEF Visits, s, r, stop, N

(* What the assignments to links leave, node by node: k is l with p and n  *)
(* joined, with x between p and n, with h a ring of its own, with e        *)
(* poisoned.                                                               *)
Joined(k, l, p, n) ==
  k \in Links2 /\ \A z \in Node : /\ k.next[z] = IF z = p THEN n ELSE l.next[z]
                                  /\ k.prev[z] = IF z = n THEN p ELSE l.prev[z]
Added(k, l, x, p, n) ==
  k \in Links2 /\ \A z \in Node :
    /\ k.next[z] = IF z = x THEN n ELSE IF z = p THEN x ELSE l.next[z]
    /\ k.prev[z] = IF z = x THEN p ELSE IF z = n THEN x ELSE l.prev[z]
Reset(k, l, h) ==
  k \in Links2 /\ \A z \in Node : /\ k.next[z] = IF z = h THEN h ELSE l.next[z]
                                  /\ k.prev[z] = IF z = h THEN h ELSE l.prev[z]
Spoilt(k, l, e) ==
  k \in Links2 /\ \A z \in Node : /\ k.next[z] = IF z = e THEN Poison ELSE l.next[z]
                                  /\ k.prev[z] = IF z = e THEN Poison ELSE l.prev[z]

LEMMA JoinIs ==
  ASSUME NEW l \in Links2, NEW p \in Node, NEW n \in Node
  PROVE  Joined(Join(l, p, n), l, p, n)
  BY DEF Join, Joined, Links2

LEMMA AddIs ==
  ASSUME NEW l \in Links2, NEW x \in Node, NEW p \in Node, NEW n \in Node, x # p, x # n
  PROVE  Added(AddBetween(l, x, p, n), l, x, p, n)
  BY DEF AddBetween, Added, Links2

LEMMA InitHeadIs ==
  ASSUME NEW l \in Links2, NEW h \in Node
  PROVE  Reset(InitHead(l, h), l, h)
  BY DEF InitHead, Reset, Links2

LEMMA PoisonedIs ==
  ASSUME NEW l \in Links2, NEW e \in Node
  PROVE  Spoilt(Poisoned(l, e), l, e)
  BY DEF Poisoned, Spoilt, Links2

(* Links that agree at every node are the same.                            *)
LEMMA SameLinks ==
  ASSUME NEW l \in Links2, NEW k \in Links2,
         \A z \in Node : l.next[z] = k.next[z] /\ l.prev[z] = k.prev[z]
  PROVE  l = k
  <1>1. /\ l = [next |-> l.next, prev |-> l.prev]
        /\ k = [next |-> k.next, prev |-> k.prev]
    BY DEF Links2
  <1>2. l.next = k.next
    BY DEF Links2
  <1>3. l.prev = k.prev
    BY DEF Links2
  <1> QED
    BY <1>1, <1>2, <1>3

(* Only the links of the nodes in the rings matter.                        *)
Agree(k, l, K, c) ==
  \A z \in Node : (\E h \in K : z = h \/ \E i \in 1..Len(c[h]) : z = c[h][i]) =>
                    k.next[z] = l.next[z] /\ k.prev[z] = l.prev[z]

LEMMA OffRings ==
  ASSUME NEW l, NEW H \in SUBSET LHead, NEW c, LShape(l, H, c),
         NEW K \in SUBSET H, NEW k, Agree(k, l, K, c)
  PROVE  LShape(k, K, c)
  <1>1. /\ c \in [LHead -> Seq(LEntry)] /\ Apart(c, H) /\ \A h \in H : Ring(l, h, c[h])
    BY RingIs
  <1>2. Apart(c, K)
    BY <1>1 DEF Apart
  <1>3. ASSUME NEW h \in K PROVE Ring(k, h, c[h])
    <2> SUFFICES ASSUME NEW i \in 0..Len(c[h])
                 PROVE  /\ k.next[Place(h, c[h], i)] = Place(h, c[h], i + 1)
                        /\ k.prev[Place(h, c[h], i + 1)] = Place(h, c[h], i)
      BY DEF Ring
    <2>1. /\ l.next[Place(h, c[h], i)] = Place(h, c[h], i + 1)
          /\ l.prev[Place(h, c[h], i + 1)] = Place(h, c[h], i)
      <3>1. h \in H
        OBVIOUS
      <3> QED
        BY <3>1 DEF LShape, Ring
    <2>2. ASSUME NEW j \in Int
          PROVE  /\ Place(h, c[h], j) \in Node
                 /\ k.next[Place(h, c[h], j)] = l.next[Place(h, c[h], j)]
                 /\ k.prev[Place(h, c[h], j)] = l.prev[Place(h, c[h], j)]
      <3>1. /\ Place(h, c[h], j) \in Node
            /\ Place(h, c[h], j) = IF j \in 1..Len(c[h]) THEN c[h][j] ELSE h
        BY <1>1, RingPlaces
      <3> QED
        BY <3>1 DEF Agree
    <2>3. i \in Int /\ i + 1 \in Int
      OBVIOUS
    <2> QED
      BY <2>1, <2>2, <2>3
  <1> QED
    BY <1>1, <1>2, <1>3 DEF LShape

(* An entry x enters the ring of h at place i, between p and n.            *)
Adding(l, H, c, h, i, x, p, n) ==
  /\ l \in Links2 /\ H \in SUBSET LHead /\ LShape(l, H, c) /\ h \in H
  /\ i \in 1..(Len(c[h]) + 1) /\ x \in LEntry /\ Outside(c, H, x)
  /\ p = Place(h, c[h], i - 1) /\ n = Place(h, c[h], i)

LEMMA EntryEnters ==
  ASSUME NEW l, NEW H, NEW c, NEW h, NEW i, NEW x, NEW p, NEW n,
         Adding(l, H, c, h, i, x, p, n)
  PROVE  /\ LShape(AddBetween(l, x, p, n), H, [c EXCEPT ![h] = InsertAt(@, i, x)])
         /\ AddBetween(l, x, p, n) \in Links2
         /\ SelfBoth(l) => SelfBoth(AddBetween(l, x, p, n))
  <1> DEFINE s == c[h]
             m == Len(s)
             r == InsertAt(s, i, x)
             d == [c EXCEPT ![h] = r]
             k == AddBetween(l, x, p, n)
  <1>a. /\ l \in Links2 /\ H \in SUBSET LHead /\ LShape(l, H, c) /\ h \in H
             /\ h \in LHead
        /\ i \in 1..(m + 1) /\ x \in LEntry /\ Outside(c, H, x)
        /\ p = Place(h, s, i - 1) /\ n = Place(h, s, i)
    BY DEF Adding
  <1>1. c \in [LHead -> Seq(LEntry)] /\ Apart(c, H)
    BY <1>a, RingIs
  <1>2. /\ s \in Seq(LEntry) /\ m \in Nat
        /\ \A j \in Int : Place(h, s, j) = IF j \in 1..m THEN s[j] ELSE h
    BY <1>a, <1>1, RingPlaces
  <1>3. WithOne(r, LEntry, s, i, x)
    BY <1>a, <1>2, Inserted
  <1>4. r \in Seq(LEntry) /\ Len(r) = m + 1
    BY <1>3 DEF WithOne
  <1>5. d \in [LHead -> Seq(LEntry)] /\ d[h] = r
          /\ \A g \in LHead : g # h => d[g] = c[g]
    BY <1>a, <1>1, <1>4
  <1>6. Apart(d, H)
    BY <1>a, <1>1, <1>3, ApartInserted
  <1>7. InsertedAt(r, h, s, i, x)
    BY <1>a, <1>2, <1>3, PlaceInserted
  <1>8. \A g \in H : \A j \in Int : Place(g, c[g], j) # x /\ Place(g, c[g], j) \in Node
    <2>1. \A g \in H : \A j \in 1..Len(c[g]) : c[g][j] # x
      BY <1>a, <1>1, OutsideIs
    <2> SUFFICES ASSUME NEW g \in H, NEW j \in Int
                 PROVE  Place(g, c[g], j) # x /\ Place(g, c[g], j) \in Node
      OBVIOUS
    <2>0. g \in LHead
      BY <1>a
    <2>2. /\ Place(g, c[g], j) = IF j \in 1..Len(c[g]) THEN c[g][j] ELSE g
          /\ Place(g, c[g], j) \in Node
      BY <1>1, <2>0, RingPlaces
    <2> QED
      BY <1>a, <2>0, <2>1, <2>2, LAssumption
  <1>9. p \in Node /\ n \in Node /\ x \in Node /\ x # p /\ x # n
    <2>1. i - 1 \in Int /\ i \in Int
      BY <1>a, <1>2
    <2> QED
      BY <1>a, <1>8, <2>1 DEF Node
  <1>10. /\ k \in Links2
         /\ \A z \in Node :
              /\ k.next[z] = IF z = x THEN n ELSE IF z = p THEN x ELSE l.next[z]
              /\ k.prev[z] = IF z = x THEN p ELSE IF z = n THEN x ELSE l.prev[z]
    <2> HIDE DEF k
    <2>1. k = AddBetween(l, x, p, n)
      BY DEF k
    <2>2. Added(k, l, x, p, n)
      BY <1>a, <1>9, <2>1, AddIs
    <2> QED
      BY <2>2 DEF Added
  <1> HIDE DEF k, d, r, s, m
  <1>11. ASSUME NEW g \in H, NEW j \in 0..Len(c[g]), g # h \/ j # i - 1
         PROVE  /\ k.next[Place(g, c[g], j)] = Place(g, c[g], j + 1)
                /\ k.prev[Place(g, c[g], j + 1)] = Place(g, c[g], j)
    <2>0. Len(c[g]) \in Nat /\ j \in Int /\ j + 1 \in Int /\ i - 1 \in 0..Len(c[h])
            /\ i - 1 + 1 = i
      <3>1. g \in LHead
        BY <1>a
      <3>2. Len(c[g]) \in Nat
        BY <1>1, <3>1, RingPlaces
      <3> QED
        BY <1>a, <1>2, <3>2 DEF m, s
    <2>1. /\ l.next[Place(g, c[g], j)] = Place(g, c[g], j + 1)
          /\ l.prev[Place(g, c[g], j + 1)] = Place(g, c[g], j)
      BY <1>a DEF LShape, Ring
    <2>2. Place(g, c[g], j) # p /\ Place(g, c[g], j + 1) # n
      <3>1. /\ Place(g, c[g], j) # Place(h, c[h], i - 1)
            /\ Place(g, c[g], j + 1) # Place(h, c[h], i - 1 + 1)
        BY <1>a, <1>11, <2>0, OtherLink, ZenonT(40)
      <3> QED
        BY <1>a, <2>0, <3>1 DEF s
    <2>3. /\ Place(g, c[g], j) # x /\ Place(g, c[g], j) \in Node
          /\ Place(g, c[g], j + 1) # x /\ Place(g, c[g], j + 1) \in Node
      BY <1>8, <2>0
    <2> QED
      BY <1>10, <2>1, <2>2, <2>3
  <1>12. ASSUME NEW g \in H PROVE Ring(k, g, d[g])
    <2>0. g \in LHead
      BY <1>a
    <2>1. CASE g # h
      <3>1. d[g] = c[g]
        BY <1>5, <2>0, <2>1
      <3> QED
        BY <1>11, <2>1, <3>1 DEF Ring
    <2>2. CASE g = h
      <3> SUFFICES ASSUME NEW j \in 0..(m + 1)
                   PROVE  /\ k.next[Place(h, r, j)] = Place(h, r, j + 1)
                          /\ k.prev[Place(h, r, j + 1)] = Place(h, r, j)
        BY <1>4, <1>5, <2>2 DEF Ring
      <3>1. j \in Int /\ j + 1 \in Int
        BY <1>2
      <3>2. Place(h, r, j) = IF j < i THEN Place(h, s, j) ELSE
                             IF j = i THEN x ELSE Place(h, s, j - 1)
        BY <1>7, <3>1 DEF InsertedAt
      <3>3. Place(h, r, j + 1) = IF j + 1 < i THEN Place(h, s, j + 1) ELSE
                                 IF j + 1 = i THEN x ELSE Place(h, s, j + 1 - 1)
        BY <1>7, <3>1 DEF InsertedAt
      <3>4. \A q \in 0..m : q # i - 1 =>
              /\ k.next[Place(h, s, q)] = Place(h, s, q + 1)
              /\ k.prev[Place(h, s, q + 1)] = Place(h, s, q)
        BY <1>a, <1>11 DEF s, m
      <3>5. CASE j < i - 1
        <4>1. j \in 0..m /\ j # i - 1 /\ j < i /\ j + 1 < i
          BY <1>a, <1>2, <3>1, <3>5
        <4> QED
          BY <3>2, <3>3, <3>4, <4>1
      <3>6. CASE j = i - 1
        <4>1. j < i /\ ~(j + 1 < i) /\ j + 1 = i
          BY <1>a, <1>2, <3>6
        <4> QED
          BY <1>a, <1>9, <1>10, <3>2, <3>3, <3>6, <4>1
      <3>7. CASE j = i
        <4>1. ~(j < i) /\ ~(j + 1 < i) /\ j + 1 # i /\ j + 1 - 1 = i
          BY <1>a, <1>2, <3>7
        <4> QED
          BY <1>a, <1>9, <1>10, <3>2, <3>3, <3>7, <4>1
      <3>8. CASE i < j
        <4>1. /\ ~(j < i) /\ j # i /\ ~(j + 1 < i) /\ j + 1 # i /\ j - 1 \in 0..m
              /\ j - 1 # i - 1 /\ j + 1 - 1 = j /\ j - 1 + 1 = j
          BY <1>a, <1>2, <3>1, <3>8
        <4>2. /\ k.next[Place(h, s, j - 1)] = Place(h, s, j - 1 + 1)
              /\ k.prev[Place(h, s, j - 1 + 1)] = Place(h, s, j - 1)
          BY <3>4, <4>1
        <4> QED
          BY <3>2, <3>3, <4>1, <4>2
      <3> QED
        BY <1>a, <1>2, <3>1, <3>5, <3>6, <3>7, <3>8
    <2> QED
      BY <2>1, <2>2
  <1>13. LShape(k, H, d)
    BY <1>5, <1>6, <1>12 DEF LShape
  <1>14. ASSUME SelfBoth(l) PROVE SelfBoth(k)
    <2> SUFFICES ASSUME NEW z \in LEntry, k.next[z] = z PROVE k.prev[z] = z
      BY DEF SelfBoth
    <2>1. z \in Node
      BY DEF Node
    <2>2. z # x /\ z # p
      BY <1>9, <1>10, <2>1
    <2>3. l.next[z] = z /\ l.prev[z] = z
      BY <1>10, <1>14, <2>1, <2>2 DEF SelfBoth
    <2>4. l.prev[n] = p
      <3>1. i - 1 \in 0..Len(c[h]) /\ i - 1 + 1 = i
        BY <1>a, <1>2 DEF s, m
      <3>2. l.prev[Place(h, c[h], i - 1 + 1)] = Place(h, c[h], i - 1)
        BY <1>a, <3>1 DEF LShape, Ring
      <3> QED
        BY <1>a, <3>1, <3>2 DEF s
    <2> QED
      BY <1>10, <2>1, <2>2, <2>3, <2>4
  <1> QED
    BY <1>10, <1>13, <1>14 DEF k, d, r, s

(* The entry at place i of the ring of h leaves.                           *)
Taking(l, H, c, h, i, e) ==
  l \in Links2 /\ H \in SUBSET LHead /\ LShape(l, H, c) /\ h \in H
    /\ i \in 1..Len(c[h]) /\ e = c[h][i]

Beside(l, c, h, i, e) ==
  /\ Joined(Unlinked(l, e), l, Place(h, c[h], i - 1), Place(h, c[h], i + 1))
  /\ l.next[e] = Place(h, c[h], i + 1) /\ l.prev[e] = Place(h, c[h], i - 1)
  /\ e \in LEntry /\ l.next[e] # e /\ l.prev[e] # e
  /\ l.next[e] \in Node /\ l.prev[e] \in Node

LEMMA EntryLeaves ==
  ASSUME NEW l, NEW H, NEW c, NEW h, NEW i, NEW e, Taking(l, H, c, h, i, e)
  PROVE  /\ LShape(Unlinked(l, e), H, [c EXCEPT ![h] = RemoveAt(@, i)])
         /\ Outside([c EXCEPT ![h] = RemoveAt(@, i)], H, e)
         /\ Beside(l, c, h, i, e)
         /\ SelfBoth(l) => SelfBoth(Unlinked(l, e))
  <1> DEFINE s == c[h]
             m == Len(s)
             r == RemoveAt(s, i)
             d == [c EXCEPT ![h] = r]
             p == Place(h, s, i - 1)
             n == Place(h, s, i + 1)
             k == Unlinked(l, e)
  <1>a. /\ l \in Links2 /\ H \in SUBSET LHead /\ LShape(l, H, c) /\ h \in H
             /\ h \in LHead
        /\ i \in 1..m /\ e = s[i]
    BY DEF Taking
  <1>1. c \in [LHead -> Seq(LEntry)] /\ Apart(c, H) /\ Separate(c, H)
    BY <1>a, RingIs
  <1>2. /\ s \in Seq(LEntry) /\ m \in Nat
        /\ \A j \in Int : Place(h, s, j) = IF j \in 1..m THEN s[j] ELSE h
        /\ \A j \in 1..m : s[j] \in LEntry
    BY <1>a, <1>1, RingPlaces
  <1>3. WithoutOne(r, LEntry, s, i)
    BY <1>a, <1>2, Removed
  <1>4. r \in Seq(LEntry) /\ Len(r) = m - 1
    BY <1>3 DEF WithoutOne
  <1>5. d \in [LHead -> Seq(LEntry)] /\ d[h] = r
          /\ \A g \in LHead : g # h => d[g] = c[g]
    BY <1>a, <1>1, <1>4
  <1>6. Apart(d, H) /\ Outside(d, H, e)
    BY <1>a, <1>1, <1>3, ApartRemoved
  <1>7. RemovedAt(r, h, s, i)
    BY <1>a, <1>2, <1>3, PlaceRemoved
  <1>8. \A g \in LHead : \A j \in Int : Place(g, c[g], j) \in Node
    BY <1>1, RingPlaces
  <1>9. /\ i \in 0..m /\ i - 1 \in 0..m /\ i - 1 + 1 = i /\ i - 1 # i
        /\ i \in Int /\ i - 1 \in Int /\ i + 1 \in Int /\ e = Place(h, s, i)
    BY <1>a, <1>2
  <1> HIDE DEF k, d, r, p, n
  <1>10. p \in Node /\ n \in Node
    BY <1>a, <1>8, <1>9 DEF p, n
  <1>11. l.next[e] = n /\ l.prev[e] = p
    <2>1. l.next[Place(h, s, i)] = Place(h, s, i + 1)
      BY <1>a, <1>9 DEF LShape, Ring
    <2>2. l.prev[Place(h, s, i - 1 + 1)] = Place(h, s, i - 1)
      BY <1>a, <1>9 DEF LShape, Ring
    <2> QED
      BY <1>9, <2>1, <2>2 DEF p, n
  <1>12. e # p /\ e # n
    <2>1. e # p
      BY <1>1, <1>a, <1>9 DEF Separate, p
    <2>2. e # n
      <3>1. CASE i + 1 \in 1..m
        <4>1. i + 1 \in 0..m /\ i + 1 # i
          BY <1>9, <3>1
        <4> QED
          BY <1>1, <1>a, <1>9, <4>1 DEF Separate, n
      <3>2. CASE i + 1 \notin 1..m
        <4>1. n = h
          BY <1>2, <1>9, <3>2 DEF n
        <4>2. e \in LEntry
          BY <1>2, <1>a
        <4> QED
          BY <1>a, <4>1, <4>2, LAssumption
      <3> QED
        BY <3>1, <3>2
    <2> QED
      BY <2>1, <2>2
  <1>13. k = Join(l, p, n)
    BY <1>11 DEF Unlinked, k
  <1>14. Joined(k, l, p, n)
    BY <1>a, <1>10, <1>13, JoinIs
  <1> HIDE DEF s, m
  <1>15. /\ k \in Links2
         /\ \A z \in Node : /\ k.next[z] = IF z = p THEN n ELSE l.next[z]
                            /\ k.prev[z] = IF z = n THEN p ELSE l.prev[z]
    BY <1>14 DEF Joined
  <1>16. ASSUME NEW g \in H, NEW j \in 0..Len(c[g]), g # h \/ (j # i - 1 /\ j # i)
         PROVE  /\ k.next[Place(g, c[g], j)] = Place(g, c[g], j + 1)
                /\ k.prev[Place(g, c[g], j + 1)] = Place(g, c[g], j)
    <2>0. g \in LHead
      BY <1>a
    <2>1. Len(c[g]) \in Nat
      BY <1>1, <2>0, RingPlaces
    <2>2. j \in Int /\ j + 1 \in Int
      BY <2>1
    <2>3. /\ l.next[Place(g, c[g], j)] = Place(g, c[g], j + 1)
          /\ l.prev[Place(g, c[g], j + 1)] = Place(g, c[g], j)
      BY <1>a DEF LShape, Ring
    <2>4. Place(g, c[g], j) # Place(h, c[h], i - 1)
      <3>1. i - 1 \in 0..Len(c[h]) /\ (g # h \/ j # i - 1)
        BY <1>9, <1>16 DEF s, m
      <3> QED
        BY <1>a, <3>1, OtherLink
    <2>5. Place(g, c[g], j + 1) # Place(h, c[h], i + 1)
      <3>1. i \in 0..Len(c[h]) /\ (g # h \/ j # i)
        BY <1>9, <1>16 DEF s, m
      <3> QED
        BY <1>a, <3>1, OtherLink
    <2>6. Place(g, c[g], j) \in Node /\ Place(g, c[g], j + 1) \in Node
      BY <1>8, <2>0, <2>2
    <2> QED
      BY <1>15, <2>3, <2>4, <2>5, <2>6 DEF p, n, s
  <1>17. ASSUME NEW g \in H PROVE Ring(k, g, d[g])
    <2>0. g \in LHead
      BY <1>a
    <2>1. CASE g # h
      <3>1. d[g] = c[g]
        BY <1>5, <2>0, <2>1
      <3> QED
        BY <1>16, <2>1, <3>1 DEF Ring
    <2>2. CASE g = h
      <3> SUFFICES ASSUME NEW j \in 0..(m - 1)
                   PROVE  /\ k.next[Place(h, r, j)] = Place(h, r, j + 1)
                          /\ k.prev[Place(h, r, j + 1)] = Place(h, r, j)
        BY <1>4, <1>5, <2>2 DEF Ring
      <3>1. j \in Int /\ j + 1 \in Int
        BY <1>2
      <3>2. Place(h, r, j) = IF j < i THEN Place(h, s, j) ELSE Place(h, s, j + 1)
        BY <1>7, <3>1 DEF RemovedAt
      <3>3. Place(h, r, j + 1) = IF j + 1 < i THEN Place(h, s, j + 1)
                                 ELSE Place(h, s, j + 1 + 1)
        BY <1>7, <3>1 DEF RemovedAt
      <3>4. \A q \in 0..m : q # i - 1 /\ q # i =>
              /\ k.next[Place(h, s, q)] = Place(h, s, q + 1)
              /\ k.prev[Place(h, s, q + 1)] = Place(h, s, q)
        BY <1>a, <1>16 DEF s, m
      <3>5. CASE j < i - 1
        <4>1. j \in 0..m /\ j # i - 1 /\ j # i /\ j < i /\ j + 1 < i
          BY <1>a, <1>2, <3>1, <3>5
        <4> QED
          BY <3>2, <3>3, <3>4, <4>1
      <3>6. CASE j = i - 1
        <4>1. j < i /\ ~(j + 1 < i) /\ j + 1 + 1 = i + 1
          BY <1>a, <1>2, <3>6
        <4> QED
          BY <1>10, <1>15, <3>2, <3>3, <3>6, <4>1 DEF p, n
      <3>7. CASE i <= j
        <4>1. ~(j < i) /\ ~(j + 1 < i) /\ j + 1 \in 0..m /\ j + 1 # i - 1 /\ j + 1 # i
          BY <1>a, <1>2, <3>1, <3>7
        <4>2. /\ k.next[Place(h, s, j + 1)] = Place(h, s, j + 1 + 1)
              /\ k.prev[Place(h, s, j + 1 + 1)] = Place(h, s, j + 1)
          BY <3>4, <4>1
        <4> QED
          BY <3>2, <3>3, <4>1, <4>2
      <3> QED
        BY <1>a, <1>2, <3>1, <3>5, <3>6, <3>7
    <2> QED
      BY <2>1, <2>2
  <1>18. LShape(k, H, d)
    BY <1>5, <1>6, <1>17 DEF LShape
  <1>19. e \in LEntry
    BY <1>2, <1>a DEF s, m
  <1>20. ASSUME SelfBoth(l) PROVE SelfBoth(k)
    <2> SUFFICES ASSUME NEW z \in LEntry, k.next[z] = z PROVE k.prev[z] = z
      BY DEF SelfBoth
    <2>1. z \in Node
      BY DEF Node
    <2>2. l.prev[n] = e
      <3>1. l.prev[Place(h, c[h], i + 1)] = Place(h, c[h], i)
        BY <1>a, <1>9 DEF LShape, Ring, s, m
      <3> QED
        BY <1>9, <3>1 DEF n, s
    <2>3. CASE z = p
      BY <1>10, <1>15, <2>1, <2>3
    <2>4. CASE z # p
      <3>1. l.next[z] = z /\ l.prev[z] = z
        BY <1>15, <1>20, <2>1, <2>4 DEF SelfBoth
      <3> QED
        BY <1>12, <1>15, <2>1, <2>2, <3>1
    <2> QED
      BY <2>3, <2>4
  <1>21. Beside(l, c, h, i, e)
    BY <1>10, <1>11, <1>12, <1>14, <1>19 DEF Beside, k, s, p, n
  <1> QED
    BY <1>6, <1>18, <1>20, <1>21 DEF k, d, r, s

(* A head becomes a ring of its own.                                       *)
LEMMA RingEmptied ==
  ASSUME NEW l, l \in Links2, NEW H \in SUBSET LHead, NEW c, LShape(l, H, c),
         NEW h \in LHead, NEW k, Reset(k, l, h)
  PROVE  LShape(k, H \cup {h}, [c EXCEPT ![h] = <<>>])
  <1> DEFINE d == [c EXCEPT ![h] = <<>>]
             K == H \cup {h}
  <1>1. c \in [LHead -> Seq(LEntry)] /\ Apart(c, H)
    BY RingIs
  <1>2. /\ d \in [LHead -> Seq(LEntry)] /\ d[h] = <<>> /\ Len(d[h]) = 0
             /\ DOMAIN d[h] = {}
        /\ \A g \in H : g # h => d[g] = c[g]
    <2>1. <<>> \in Seq(LEntry) /\ Len(<<>>) = 0 /\ DOMAIN <<>> = {}
      OBVIOUS
    <2> QED
      BY <1>1, <2>1
  <1> HIDE DEF d
  <1>3. Apart(d, K)
    <2> SUFFICES ASSUME NEW f \in K, NEW g \in K, NEW i \in DOMAIN d[f],
                        NEW j \in DOMAIN d[g], d[f][i] = d[g][j]
                 PROVE  f = g /\ i = j
      BY DEF Apart
    <2>1. f # h /\ g # h
      BY <1>2
    <2>2. f \in H /\ g \in H /\ d[f] = c[f] /\ d[g] = c[g]
      BY <1>2, <2>1
    <2> QED
      BY <1>1, <2>2 DEF Apart
  <1>4. /\ h \in Node
        /\ \A z \in Node : /\ k.next[z] = IF z = h THEN h ELSE l.next[z]
                           /\ k.prev[z] = IF z = h THEN h ELSE l.prev[z]
    BY DEF Reset, Node
  <1>5. Ring(k, h, d[h])
    <2> SUFFICES ASSUME NEW i \in 0..Len(d[h])
                 PROVE  /\ k.next[Place(h, d[h], i)] = Place(h, d[h], i + 1)
                        /\ k.prev[Place(h, d[h], i + 1)] = Place(h, d[h], i)
      BY DEF Ring
    <2>1. Place(h, d[h], i) = h /\ Place(h, d[h], i + 1) = h
      BY <1>2 DEF Place
    <2> QED
      BY <1>4, <2>1
  <1>6. LShape(k, H \ {h}, c)
    <2>1. Agree(k, l, H \ {h}, c)
      <3> SUFFICES ASSUME NEW z \in Node, NEW g \in H \ {h},
                          z = g \/ \E i \in 1..Len(c[g]) : z = c[g][i]
                   PROVE  k.next[z] = l.next[z] /\ k.prev[z] = l.prev[z]
        BY DEF Agree
      <3>1. \A i \in 1..Len(c[g]) : c[g][i] \in LEntry
        BY <1>1, RingPlaces
      <3>2. z # h
        BY <3>1, LAssumption
      <3> QED
        BY <1>4, <3>2
    <2>2. H \ {h} \in SUBSET H
      OBVIOUS
    <2> QED
      BY <2>1, <2>2, OffRings
  <1>7. ASSUME NEW g \in K PROVE Ring(k, g, d[g])
    <2>1. CASE g = h
      BY <1>5, <2>1
    <2>2. CASE g # h
      <3>1. g \in H \ {h} /\ d[g] = c[g]
        BY <1>2, <2>2
      <3> QED
        BY <1>6, <3>1 DEF LShape
    <2> QED
      BY <2>1, <2>2
  <1> QED
    BY <1>2, <1>3, <1>7 DEF LShape, d

(* Forgetting the links that no call reads.                                *)
LEMMA ForgottenIs ==
  ASSUME NEW l \in Links2, NEW H \in SUBSET LHead, NEW c, LShape(l, H, c), SelfBoth(l)
  PROVE  /\ Forgotten(l, H) \in Links2 /\ LShape(Forgotten(l, H), H, c)
         /\ SelfBoth(Forgotten(l, H))
  <1> DEFINE used == H \cup UNION {ToSet(Visits(h, l.next)) : h \in H}
             self == {x \in LEntry : l.next[x] = x}
             k == Forgotten(l, H)
  <1>1. k = [next |-> [x \in Node |-> IF x \in used \cup self THEN l.next[x]
                                             ELSE Poison],
              prev |-> [x \in Node |-> IF x \in used \cup self THEN l.prev[x]
                                             ELSE Poison]]
    BY DEF Forgotten
  <1> HIDE DEF k
  <1>2. used = H \cup UNION {ToSet(c[h]) : h \in H}
    BY VisitsRead
  <1> HIDE DEF used, self
  <1>3. k \in Links2
    BY <1>1 DEF Links2
  <1>4. \A z \in Node :
           /\ k.next[z] = IF z \in used \cup self THEN l.next[z] ELSE Poison
           /\ k.prev[z] = IF z \in used \cup self THEN l.prev[z] ELSE Poison
    BY <1>1
  <1>5. Agree(k, l, H, c)
    <2> SUFFICES ASSUME NEW z \in Node, NEW g \in H,
                        z = g \/ \E i \in 1..Len(c[g]) : z = c[g][i]
                 PROVE  k.next[z] = l.next[z] /\ k.prev[z] = l.prev[z]
      BY DEF Agree
    <2>1. c \in [LHead -> Seq(LEntry)]
      BY RingIs
    <2>2. DOMAIN c[g] = 1..Len(c[g])
      BY <2>1, RingPlaces
    <2>3. z \in used
      BY <1>2, <2>2 DEF ToSet
    <2> QED
      BY <1>4, <2>3
  <1>6. LShape(k, H, c)
    <2>1. H \in SUBSET H
      OBVIOUS
    <2> QED
      BY <1>5, <2>1, OffRings
  <1>7. SelfBoth(k)
    <2> SUFFICES ASSUME NEW e \in LEntry, k.next[e] = e PROVE k.prev[e] = e
      BY DEF SelfBoth
    <2>1. e \in Node /\ e # Poison
      BY LAssumption DEF Node
    <2>2. e \in used \cup self /\ l.next[e] = e
      BY <1>4, <2>1
    <2>3. l.prev[e] = e
      BY <2>2 DEF SelfBoth
    <2> QED
      BY <1>4, <2>1, <2>2, <2>3
  <1> QED
    BY <1>3, <1>6, <1>7 DEF k

(* A call that leaves the lists d has kept LInv.                           *)
Leaves(k, K, d) ==
  /\ k \in Links2 /\ K \in SUBSET LHead /\ LShape(k, K, d) /\ SelfBoth(k)
                   /\ \A h \in LHead \ K : d[h] = <<>>

LEMMA LBecoming ==
  ASSUME NEW k, NEW K, NEW d, Leaves(k, K, d), ls' = k, live' = K,
         it' = NoWalk \/ (it'.head \in K /\ InWalk(it', d[it'.head]))
  PROVE  LInv' /\ ListOf' = d
  <1>1. /\ k \in Links2 /\ K \in SUBSET LHead /\ LShape(k, K, d) /\ SelfBoth(k)
        /\ \A h \in LHead \ K : d[h] = <<>>
    BY DEF Leaves
  <1>2. d \in [LHead -> Seq(LEntry)]
    BY <1>1, RingIs
  <1>3. ListOf' = d
    <2>1. \A h \in K : Visits(h, k.next) = d[h]
      BY <1>1, VisitsRead
    <2>2. ListOf' = [h \in LHead |-> IF h \in K THEN Visits(h, k.next) ELSE <<>>]
      BY DEF ListOf
    <2>3. \A h \in LHead : d[h] = IF h \in K THEN Visits(h, k.next) ELSE <<>>
      BY <1>1, <2>1
    <2> QED
      BY <1>2, <2>2, <2>3
  <1>4. (ls \in Links2)' /\ (live \subseteq LHead)'
    BY <1>1 DEF Links2
  <1>5. LShape(ls, live, ListOf)'
    BY <1>1, <1>3 DEF LShape, Ring
  <1>6. SelfBoth(ls)'
    BY <1>1 DEF SelfBoth
  <1>7. (it = NoWalk \/ (it.head \in live /\ InWalk(it, ListOf[it.head])))'
    BY <1>3 DEF InWalk, NoWalk
  <1> QED
    BY <1>3, <1>4, <1>5, <1>6, <1>7 DEF LInv

LEMMA StepBecomes ==
  ASSUME NEW k, NEW K, NEW d, Leaves(k, K, d), Step(k, K)
  PROVE  LInv' /\ ListOf' = d
  <1>1. /\ ls' = Forgotten(k, K) /\ live' = K /\ it' = NoWalk
    BY DEF Step
  <1>2. /\ k \in Links2 /\ K \in SUBSET LHead /\ LShape(k, K, d) /\ SelfBoth(k)
        /\ \A h \in LHead \ K : d[h] = <<>>
    BY DEF Leaves
  <1>3. Leaves(Forgotten(k, K), K, d)
    BY <1>2, ForgottenIs DEF Leaves
  <1> QED
    BY <1>1, <1>3, LBecoming

(* LInv, part by part.                                                     *)
LEMMA InLInv ==
  ASSUME LInv
  PROVE  /\ ls \in Links2 /\ live \in SUBSET LHead /\ LShape(ls, live, ListOf)
         /\ SelfBoth(ls) /\ ListOf \in [LHead -> Seq(LEntry)]
         /\ Leaves(ls, live, ListOf)
         /\ \A h \in LHead \ live : ListOf[h] = <<>>
         /\ it = NoWalk \/ (it.head \in live /\ InWalk(it, ListOf[it.head]))
         /\ \A e : e \notin Members <=> Outside(ListOf, live, e)
         /\ \A e \in Members : \E h \in live : \E i \in 1..Len(ListOf[h]) :
              e = ListOf[h][i]
  <1>1. /\ ls \in Links2 /\ live \in SUBSET LHead /\ LShape(ls, live, ListOf)
        /\ SelfBoth(ls)
        /\ it = NoWalk \/ (it.head \in live /\ InWalk(it, ListOf[it.head]))
    BY DEF LInv
  <1>2. ListOf \in [LHead -> Seq(LEntry)]
    BY <1>1, RingIs
  <1>3. \A h \in LHead \ live : ListOf[h] = <<>>
    BY DEF ListOf
  <1>4. Leaves(ls, live, ListOf)
    BY <1>1, <1>3 DEF Leaves
  <1>5. \A h \in live : DOMAIN ListOf[h] = 1..Len(ListOf[h])
    BY <1>1, <1>2, RingPlaces
  <1>6. \A e : e \notin Members <=> Outside(ListOf, live, e)
    BY DEF Members, Outside
  <1>7. \A e \in Members : \E h \in live : \E i \in 1..Len(ListOf[h]) :
          e = ListOf[h][i]
    BY <1>5 DEF Members, ToSet
  <1> QED
    BY <1>1, <1>2, <1>3, <1>4, <1>6, <1>7

(* A link of the rings that none of the calls' assignments is to.          *)
IsLink(k, u, v) == k.next[u] = v /\ k.prev[v] = u

LEMMA RingOfLinks ==
  ASSUME NEW k, NEW h, NEW s,
         \A j \in 0..Len(s) : IsLink(k, Place(h, s, j), Place(h, s, j + 1))
  PROVE  Ring(k, h, s)
  BY DEF Ring, IsLink

(* The first i entries of h, the last of which is e, get the head g.       *)
Cutting(l, H, c, h, g, i, e) ==
  /\ l \in Links2 /\ H \in SUBSET LHead /\ LShape(l, H, c) /\ h \in H /\ g \in LHead
  /\ g # h /\ i \in 1..Len(c[h]) /\ e = c[h][i]

LEMMA CutAtIs ==
  ASSUME NEW l, NEW H, NEW c, NEW h, NEW g, NEW i, NEW e, Cutting(l, H, c, h, g, i, e)
  PROVE  /\ CutAt(l, g, h, e) \in Links2
         /\ LShape(CutAt(l, g, h, e), H \cup {g},
                   [c EXCEPT ![g] = SubSeq(c[h], 1, i),
                             ![h] = SubSeq(c[h], i + 1, Len(c[h]))])
         /\ SelfBoth(l) => SelfBoth(CutAt(l, g, h, e))
  <1> DEFINE s == c[h]
             m == Len(s)
             a == SubSeq(s, 1, i)
             b == SubSeq(s, i + 1, m)
             d == [c EXCEPT ![g] = a, ![h] = b]
             k == CutAt(l, g, h, e)
             first == l.next[h]
             succ == l.next[e]
             K == H \cup {g}
  <1>a. /\ l \in Links2 /\ H \in SUBSET LHead /\ LShape(l, H, c) /\ h \in H
             /\ g \in LHead
        /\ h \in LHead /\ g # h /\ i \in 1..m /\ e = s[i]
    BY DEF Cutting
  <1>1. c \in [LHead -> Seq(LEntry)] /\ Apart(c, H)
    BY <1>a, RingIs
  <1>2. /\ s \in Seq(LEntry) /\ m \in Nat /\ DOMAIN s = 1..m
        /\ \A j \in Int : Place(h, s, j) = IF j \in 1..m THEN s[j] ELSE h
        /\ \A j \in 1..m : s[j] \in LEntry
    BY <1>a, <1>1, RingPlaces
  <1>3. \A f \in LHead : \A j \in Int : Place(f, c[f], j) \in Node
    BY <1>1, RingPlaces
  <1>o. PICK one : one = 1
    OBVIOUS
  <1>4. /\ a \in Seq(LEntry) /\ Len(a) = i /\ \A j \in 1..i : a[j] = s[j]
        /\ b \in Seq(LEntry) /\ Len(b) = m - i /\ \A j \in 1..(m - i) : b[j] = s[i + j]
    <2>1. /\ one \in 1..(m + 1) /\ i \in 0..m /\ one <= i + 1
          /\ i + 1 \in 1..(m + 1) /\ m \in 0..m /\ i + 1 <= m + 1
      BY <1>a, <1>2, <1>o
    <2> HIDE DEF s, m
    <2>2. /\ SubSeq(s, one, i) \in Seq(LEntry) /\ Len(SubSeq(s, one, i)) = i + 1 - one
          /\ \A j \in 1..(i + 1 - one) : SubSeq(s, one, i)[j] = s[one + j - 1]
      BY <1>2, <2>1, PartOf, SMTT(30) DEF m
    <2>3. /\ b \in Seq(LEntry) /\ Len(b) = m + 1 - (i + 1)
          /\ \A j \in 1..(m + 1 - (i + 1)) : b[j] = s[i + 1 + j - 1]
      BY <1>2, <2>1, PartOf DEF m
    <2>4. i \in Int /\ m \in Int
      BY <2>1
    <2> HIDE DEF a, b
    <2>5. /\ a \in Seq(LEntry) /\ Len(a) = i /\ \A j \in 1..i : a[j] = s[j]
      <3>1. /\ a \in Seq(LEntry) /\ Len(a) = i + 1 - 1
            /\ \A j \in 1..(i + 1 - 1) : a[j] = s[1 + j - 1]
        BY <1>o, <2>2 DEF a
      <3>2. i + 1 - 1 = i /\ \A j \in 1..i : 1 + j - 1 = j
        BY <2>4
      <3> QED
        BY <3>1, <3>2
    <2>6. Len(b) = m - i /\ \A j \in 1..(m - i) : b[j] = s[i + j]
      <3>1. m + 1 - (i + 1) = m - i /\ \A j \in 1..(m - i) : i + 1 + j - 1 = i + j
        BY <2>4
      <3> QED
        BY <2>3, <3>1
    <2> QED
      BY <2>3, <2>5, <2>6
  <1> HIDE DEF a, b
  <1>5. /\ d \in [LHead -> Seq(LEntry)] /\ d[g] = a /\ d[h] = b
        /\ \A f \in LHead : f # g /\ f # h => d[f] = c[f]
    BY <1>a, <1>1, <1>4
  <1> HIDE DEF d
  <1>6. /\ \A j \in Int : Place(g, a, j) = IF j \in 1..i THEN s[j] ELSE g
        /\ \A j \in Int : Place(h, b, j) = IF j \in 1..(m - i) THEN s[i + j] ELSE h
    <2>1. DOMAIN a = 1..i /\ DOMAIN b = 1..(m - i)
      BY <1>4, PlaceIs
    <2> QED
      BY <1>4, <2>1 DEF Place
  <1>7. Apart(d, K)
    <2> DEFINE of == [f \in LHead |-> [j \in Nat |-> IF f = g THEN h ELSE f]]
               to == [f \in LHead |-> [j \in Nat |-> IF f = h THEN i + j ELSE j]]
    <2>1. ASSUME NEW f \in K, NEW j \in 1..Len(d[f])
          PROVE  /\ of[f][j] \in H /\ to[f][j] \in 1..Len(c[of[f][j]])
                 /\ d[f][j] = c[of[f][j]][to[f][j]]
      <3>0. f \in LHead /\ j \in Nat
        BY <1>a
      <3>1. CASE f = g
        <4>1. of[f][j] = h /\ to[f][j] = j /\ d[f] = a
          BY <1>a, <1>5, <3>0, <3>1
        <4>2. j \in 1..i /\ j \in 1..m
          <5>1. j \in 1..Len(a) /\ Len(a) = i /\ i \in 1..m /\ m \in Nat
            BY <1>2, <1>4, <4>1, <1>a
          <5> HIDE DEF s, m
          <5> QED
            BY <5>1
        <4> QED
          BY <1>4, <4>1, <4>2, <1>a
      <3>2. CASE f = h
        <4>1. of[f][j] = h /\ to[f][j] = i + j /\ d[f] = b
          BY <1>a, <1>5, <3>0, <3>2
        <4>2. j \in 1..(m - i) /\ i + j \in 1..m
          <5>1. j \in 1..Len(b) /\ Len(b) = m - i /\ i \in 1..m /\ m \in Nat
            BY <1>2, <1>4, <4>1, <1>a
          <5> HIDE DEF s, m
          <5> QED
            BY <5>1
        <4> QED
          BY <1>4, <4>1, <4>2, <1>a
      <3>3. CASE f # g /\ f # h
        <4>1. of[f][j] = f /\ to[f][j] = j /\ d[f] = c[f]
          BY <1>5, <3>0, <3>3
        <4> QED
          BY <3>3, <4>1
      <3> QED
        BY <3>1, <3>2, <3>3
    <2>2. ASSUME NEW f \in K, NEW q \in K, NEW j \in 1..Len(d[f]),
                   NEW n \in 1..Len(d[q]),
                 of[f][j] = of[q][n], to[f][j] = to[q][n]
          PROVE  f = q /\ j = n
      <3>0. f \in LHead /\ j \in Nat /\ q \in LHead /\ n \in Nat
        BY <1>a
      <3>1. /\ of[f][j] = (IF f = g THEN h ELSE f)
                 /\ of[q][n] = (IF q = g THEN h ELSE q)
            /\ to[f][j] = (IF f = h THEN i + j ELSE j)
                 /\ to[q][n] = (IF q = h THEN i + n ELSE n)
        BY <3>0
      <3>2. f = g => j \in 1..i
        BY <1>4, <1>5
      <3>3. q = g => n \in 1..i
        BY <1>4, <1>5
      <3> HIDE DEF of, to
      <3>4. (IF f = g THEN h ELSE f) = (IF q = g THEN h ELSE q)
        BY <2>2, <3>1
      <3>5. (IF f = h THEN i + j ELSE j) = (IF q = h THEN i + n ELSE n)
        BY <2>2, <3>1
      <3>6. i \in Int /\ j \in 1..Len(d[f]) /\ n \in 1..Len(d[q])
        BY <1>a, <1>2
      <3>7. f = h /\ q = g => FALSE
        BY <3>0, <3>3, <3>5, <3>6, <1>a
      <3>8. f = g /\ q = h => FALSE
        BY <3>0, <3>2, <3>5, <3>6, <1>a
      <3>9. f = q
        BY <3>4, <3>7, <3>8, <1>a
      <3> QED
        BY <3>0, <3>5, <3>6, <3>9
    <2> HIDE DEF of, to, d
    <2>3. DrawnFrom(d, K, c, H, of, to)
      <3> HIDE DEF K
      <3>1. \A f \in K : \A j \in 1..Len(d[f]) :
              /\ of[f][j] \in H /\ to[f][j] \in 1..Len(c[of[f][j]])
              /\ d[f][j] = c[of[f][j]][to[f][j]]
        BY <2>1
      <3>2. \A f, q \in K : \A j \in 1..Len(d[f]), n \in 1..Len(d[q]) :
              of[f][j] = of[q][n] /\ to[f][j] = to[q][n] => f = q /\ j = n
        BY <2>2, ZenonT(30)
      <3> QED
        BY <3>1, <3>2, Zenon DEF DrawnFrom
    <2>4. K \in SUBSET LHead /\ H \in SUBSET LHead
      BY <1>a
    <2> HIDE DEF K
    <2> QED
      BY <1>1, <1>5, <2>3, <2>4, ApartBy
  <1>8. /\ first = Place(h, s, 1) /\ first = s[1] /\ succ = Place(h, s, i + 1)
        /\ l.prev[first] = h /\ l.prev[succ] = e
        /\ 0 \in 0..m /\ i \in 0..m /\ 0 # i
    <2>1. 0 \in 0..m /\ i \in 0..m /\ 0 # i /\ 0 + 1 = 1 /\ 1 \in 1..m
      BY <1>a, <1>2
    <2>2. Place(h, s, 0) = h /\ Place(h, s, 1) = s[1] /\ Place(h, s, i) = s[i]
      BY <1>a, <1>2, <2>1
    <2>3. l.next[Place(h, s, 0)] = Place(h, s, 0 + 1)
            /\ l.prev[Place(h, s, 0 + 1)] = Place(h, s, 0)
      BY <1>a, <2>1 DEF LShape, Ring
    <2>4. l.next[Place(h, s, i)] = Place(h, s, i + 1)
            /\ l.prev[Place(h, s, i + 1)] = Place(h, s, i)
      BY <1>a, <2>1 DEF LShape, Ring
    <2> QED
      BY <1>a, <2>1, <2>2, <2>3, <2>4
  <1>9. /\ first \in Node /\ succ \in Node /\ e \in Node /\ h \in Node /\ g \in Node
        /\ e \in LEntry /\ first \in LEntry /\ e # h /\ e # g /\ first # g /\ first # h
        /\ succ # first /\ succ # g
    <2>1. e \in LEntry /\ first \in LEntry /\ 1 \in 1..m /\ i + 1 \in Int
      BY <1>a, <1>2, <1>8
    <2>2. succ = h \/ succ \in LEntry
      BY <1>2, <1>8, <2>1
    <2>3. succ # first
      <3>1. Place(h, c[h], i + 1) # Place(h, c[h], 0 + 1)
        BY <1>a, <1>8, OtherLink
      <3>2. 0 + 1 = 1
        OBVIOUS
      <3> QED
        BY <1>8, <3>1, <3>2
    <2> QED
      BY <1>a, <2>1, <2>2, <2>3, LAssumption DEF Node
  <1> HIDE DEF k, first, succ
  <1>10. /\ k \in Links2
         /\ \A z \in Node :
              /\ k.next[z] = IF z = h THEN succ ELSE IF z = e THEN g ELSE
                             IF z = g THEN first ELSE l.next[z]
              /\ k.prev[z] = IF z = succ THEN h ELSE IF z = g THEN e ELSE
                             IF z = first THEN g ELSE l.prev[z]
    <2>1. k = [l EXCEPT !.next[g] = first, !.prev[first] = g, !.prev[g] = e,
                        !.next[e] = g, !.next[h] = succ, !.prev[succ] = h]
      BY DEF k, CutAt, first, succ
    <2>2. /\ k = [next |-> [l.next EXCEPT ![g] = first, ![e] = g, ![h] = succ],
                  prev |-> [l.prev EXCEPT ![first] = g, ![g] = e, ![succ] = h]]
          /\ l.next \in [Node -> Node \cup {Poison}]
               /\ l.prev \in [Node -> Node \cup {Poison}]
      BY <1>a, <2>1 DEF Links2
    <2>3. [l.next EXCEPT ![g] = first, ![e] = g,
            ![h] = succ] \in [Node -> Node \cup {Poison}]
      BY <1>9, <2>2
    <2>4. [l.prev EXCEPT ![first] = g, ![g] = e,
            ![succ] = h] \in [Node -> Node \cup {Poison}]
      BY <1>9, <2>2
    <2> QED
      BY <1>9, <2>2, <2>3, <2>4 DEF Links2
  <1>11. ASSUME NEW f \in H, NEW j \in 0..Len(c[f]), f # g, f # h \/ (j # 0 /\ j # i)
         PROVE  IsLink(k, Place(f, c[f], j), Place(f, c[f], j + 1))
    <2>0. f \in LHead
      BY <1>a
    <2>1. Len(c[f]) \in Nat /\ j \in Int /\ j + 1 \in Int
      <3>1. Len(c[f]) \in Nat
        BY <1>1, <2>0, RingPlaces
      <3> QED
        BY <3>1
    <2>2. /\ l.next[Place(f, c[f], j)] = Place(f, c[f], j + 1)
          /\ l.prev[Place(f, c[f], j + 1)] = Place(f, c[f], j)
      BY <1>a DEF LShape, Ring
    <2>3. Place(f, c[f], j) \in Node /\ Place(f, c[f], j + 1) \in Node
      BY <1>3, <2>0, <2>1
    <2>4. Place(f, c[f], j) # g /\ Place(f, c[f], j + 1) # g
      <3>1. \A n \in Int : Place(f, c[f], n) = IF n \in 1..Len(c[f]) THEN c[f][n] ELSE f
        BY <1>1, <2>0, RingPlaces
      <3>2. \A n \in 1..Len(c[f]) : c[f][n] \in LEntry
        BY <1>1, <2>0, RingPlaces
      <3> QED
        BY <1>a, <1>11, <2>1, <3>1, <3>2, LAssumption
    <2>5. Place(f, c[f], j) # h /\ Place(f, c[f], j + 1) # first
      <3>0. PICK n : n = 0
        OBVIOUS
      <3>1. n \in 0..Len(c[h]) /\ n + 1 = 1 /\ (f # h \/ j # n)
        BY <1>8, <1>11, <3>0
      <3>2. /\ Place(f, c[f], j) # Place(h, c[h], n)
            /\ Place(f, c[f], j + 1) # Place(h, c[h], n + 1)
        BY <1>a, <3>1, OtherLink, ZenonT(40)
      <3>3. Place(h, s, n) = h
        BY <1>2, <3>0
      <3> QED
        BY <1>8, <3>1, <3>2, <3>3
    <2>6. Place(f, c[f], j) # e /\ Place(f, c[f], j + 1) # succ
      <3>1. i \in 0..Len(c[h]) /\ i \in Int
        BY <1>a, <1>8
      <3>2. /\ Place(f, c[f], j) # Place(h, c[h], i)
            /\ Place(f, c[f], j + 1) # Place(h, c[h], i + 1)
        BY <1>a, <1>11, <3>1, OtherLink, ZenonT(40)
      <3>3. Place(h, s, i) = e
        BY <1>2, <1>a, <3>1
      <3> QED
        BY <1>8, <3>1, <3>2, <3>3
    <2> QED
      BY <1>10, <2>2, <2>3, <2>4, <2>5, <2>6 DEF IsLink
  <1>12. ASSUME NEW j \in 0..m, j # 0, j # i
         PROVE  IsLink(k, Place(h, s, j), Place(h, s, j + 1))
    BY <1>a, <1>11, <1>12
  <1> HIDE DEF s, m
  <1>13. ASSUME NEW j \in 0..i PROVE IsLink(k, Place(g, a, j), Place(g, a, j + 1))
    <2>0. i \in 1..m /\ m \in Nat /\ j \in Int /\ j + 1 \in Int
      BY <1>a, <1>2
    <2>1. CASE j = 0
      <3>1. j \notin 1..i /\ j + 1 = 1 /\ 1 \in 1..i /\ j \in Int /\ 1 \in Int
        BY <2>0, <2>1
      <3>2. Place(g, a, j) = g /\ Place(g, a, 1) = s[1]
        BY <1>6, <3>1
      <3>3. IsLink(k, g, first)
        BY <1>a, <1>9, <1>10 DEF IsLink
      <3> QED
        BY <1>8, <3>1, <3>2, <3>3
    <2>2. CASE j = i
      <3>1. j \in 1..i /\ j + 1 \notin 1..i
        BY <2>0, <2>2
      <3>2. Place(g, a, j) = e /\ Place(g, a, j + 1) = g
        BY <1>6, <1>a, <2>0, <2>2, <3>1
      <3>3. IsLink(k, e, g)
        BY <1>9, <1>10 DEF IsLink
      <3> QED
        BY <3>2, <3>3
    <2>3. CASE j # 0 /\ j # i
      <3>1. /\ j \in 1..i /\ j + 1 \in 1..i /\ j \in 1..m /\ j + 1 \in 1..m
                 /\ j \in 0..m
        BY <2>0, <2>3
      <3>2. Place(g, a, j) = Place(h, s, j) /\ Place(g, a, j + 1) = Place(h, s, j + 1)
        BY <1>2, <1>6, <2>0, <3>1
      <3> QED
        BY <1>12, <2>3, <3>1, <3>2
    <2> QED
      BY <2>1, <2>2, <2>3
  <1>14. ASSUME NEW j \in 0..(m - i) PROVE IsLink(k, Place(h, b, j), Place(h, b, j + 1))
    <2>0. i \in 1..m /\ m \in Nat /\ j \in Int /\ j + 1 \in Int /\ i + j \in Int
            /\ i + j + 1 \in Int
      BY <1>a, <1>2
    <2>1. Place(h, b, j + 1) = Place(h, s, i + j + 1)
      <3>1. j + 1 \in 1..(m - i) <=> i + j + 1 \in 1..m
        BY <2>0
      <3>2. i + (j + 1) = i + j + 1
        BY <2>0
      <3> QED
        BY <1>2, <1>6, <2>0, <3>1, <3>2
    <2>2. CASE j = 0
      <3>1. j \notin 1..(m - i) /\ i + j + 1 = i + 1
        BY <2>0, <2>2
      <3>2. Place(h, b, j) = h
        BY <1>6, <2>0, <3>1
      <3>3. IsLink(k, h, succ)
        BY <1>9, <1>10 DEF IsLink
      <3> QED
        BY <1>8, <2>1, <3>1, <3>2, <3>3
    <2>3. CASE j # 0
      <3>1. j \in 1..(m - i) /\ i + j \in 1..m /\ i + j \in 0..m /\ i + j # 0
              /\ i + j # i
        BY <2>0, <2>3
      <3>2. Place(h, b, j) = Place(h, s, i + j)
        BY <1>2, <1>6, <2>0, <3>1
      <3> QED
        BY <1>12, <2>1, <3>1, <3>2
    <2> QED
      BY <2>2, <2>3
  <1>15. ASSUME NEW f \in K PROVE Ring(k, f, d[f])
    <2>1. CASE f = g
      BY <1>4, <1>5, <1>13, <2>1, RingOfLinks
    <2>2. CASE f = h
      BY <1>4, <1>5, <1>14, <2>2, RingOfLinks
    <2>3. CASE f # g /\ f # h
      <3>1. f \in H /\ d[f] = c[f]
        BY <1>5, <1>a, <2>3
      <3>2. \A j \in 0..Len(c[f]) : IsLink(k, Place(f, c[f], j), Place(f, c[f], j + 1))
        BY <1>11, <2>3, <3>1
      <3> QED
        BY <3>1, <3>2, RingOfLinks
    <2> QED
      BY <2>1, <2>2, <2>3
  <1>16. LShape(k, K, d)
    BY <1>5, <1>7, <1>15 DEF LShape
  <1>17. ASSUME SelfBoth(l) PROVE SelfBoth(k)
    <2> SUFFICES ASSUME NEW z \in LEntry, k.next[z] = z PROVE k.prev[z] = z
      BY DEF SelfBoth
    <2>1. z \in Node /\ z # g /\ z # h
      BY <1>a, LAssumption DEF Node
    <2>2. z # e
      BY <1>10, <2>1
    <2>3. l.next[z] = z /\ l.prev[z] = z
      BY <1>10, <1>17, <2>1, <2>2 DEF SelfBoth
    <2>4. z # succ /\ z # first
      BY <1>8, <2>1, <2>2, <2>3
    <2> QED
      BY <1>10, <2>1, <2>3, <2>4
  <1> QED
    BY <1>10, <1>16, <1>17 DEF k, d, a, b, s, m

(* All of the ring of t, which is not empty, comes between p and n, the    *)
(* places i and i + 1 of the ring of h; q is what h then has.              *)
Splicing(l, H, c, h, t, i, p, n) ==
  /\ l \in Links2 /\ H \in SUBSET LHead /\ LShape(l, H, c) /\ h \in H /\ t \in H
  /\ t # h /\ c[t] # <<>> /\ i \in 0..Len(c[h])
  /\ p = Place(h, c[h], i) /\ n = Place(h, c[h], i + 1)
Spliced(q, s, u, i) ==
  /\ q \in Seq(LEntry) /\ Len(q) = Len(s) + Len(u)
  /\ \A j \in 1..(Len(s) + Len(u)) :
       q[j] = IF j <= i THEN s[j] ELSE IF j <= i + Len(u) THEN u[j - i]
         ELSE s[j - Len(u)]

LEMMA SpliceIs ==
  ASSUME NEW l, NEW H, NEW c, NEW h, NEW t, NEW i, NEW p, NEW n, NEW q,
         Splicing(l, H, c, h, t, i, p, n), Spliced(q, c[h], c[t], i)
  PROVE  /\ SpliceBetween(l, t, p, n) \in Links2
         /\ LShape(SpliceBetween(l, t, p, n), H \ {t}, [c EXCEPT ![h] = q, ![t] = <<>>])
         /\ SelfBoth(l) => SelfBoth(SpliceBetween(l, t, p, n))
  <1> DEFINE s == c[h]
             u == c[t]
             m == Len(s)
             v == Len(u)
             d == [c EXCEPT ![h] = q, ![t] = <<>>]
             k == SpliceBetween(l, t, p, n)
             first == l.next[t]
             last == l.prev[t]
             K == H \ {t}
  <1>a. /\ l \in Links2 /\ H \in SUBSET LHead /\ LShape(l, H, c) /\ h \in H /\ t \in H
        /\ h \in LHead /\ t \in LHead /\ t # h /\ u # <<>> /\ i \in 0..m
        /\ p = Place(h, s, i) /\ n = Place(h, s, i + 1)
    BY DEF Splicing
  <1>1. c \in [LHead -> Seq(LEntry)] /\ Apart(c, H)
    BY <1>a, RingIs
  <1>2. /\ s \in Seq(LEntry) /\ m \in Nat /\ DOMAIN s = 1..m
        /\ \A j \in Int : Place(h, s, j) = IF j \in 1..m THEN s[j] ELSE h
        /\ \A j \in 1..m : s[j] \in LEntry
    BY <1>a, <1>1, RingPlaces
  <1>3. /\ u \in Seq(LEntry) /\ v \in Nat /\ DOMAIN u = 1..v
        /\ \A j \in Int : Place(t, u, j) = IF j \in 1..v THEN u[j] ELSE t
        /\ \A j \in 1..v : u[j] \in LEntry
    BY <1>a, <1>1, RingPlaces
  <1>4. \A f \in LHead : \A j \in Int : Place(f, c[f], j) \in Node
    BY <1>1, RingPlaces
  <1>5. /\ first = Place(t, u, 1) /\ last = Place(t, u, v)
        /\ 1 \in 1..v /\ first = u[1] /\ v \in 1..v /\ last = u[v]
    <2> HIDE DEF first, last, v
    <2> QED
      BY <1>a, RingEnds DEF first, last, v
  <1>6. /\ q \in Seq(LEntry) /\ Len(q) = m + v
        /\ \A j \in 1..(m + v) :
             q[j] = IF j <= i THEN s[j] ELSE IF j <= i + v THEN u[j - i] ELSE s[j - v]
    BY DEF Spliced
  <1>7. /\ d \in [LHead -> Seq(LEntry)] /\ d[h] = q /\ d[t] = <<>>
        /\ \A f \in LHead : f # t /\ f # h => d[f] = c[f]
    <2>1. <<>> \in Seq(LEntry)
      OBVIOUS
    <2> QED
      BY <1>a, <1>1, <1>6, <2>1
  <1> HIDE DEF d
  <1>8. \A j \in Int : Place(h, q, j) = IF j <= i THEN Place(h, s, j) ELSE
                         IF j <= i + v THEN u[j - i] ELSE Place(h, s, j - v)
    <2> SUFFICES ASSUME NEW j \in Int
                 PROVE  Place(h, q, j) = IF j <= i THEN Place(h, s, j) ELSE
                          IF j <= i + v THEN u[j - i] ELSE Place(h, s, j - v)
      OBVIOUS
    <2>1. DOMAIN q = 1..(m + v)
      BY <1>6, PlaceIs
    <2>2. Place(h, q, j) = IF j \in 1..(m + v) THEN q[j] ELSE h
      BY <2>1 DEF Place
    <2>3. i \in Int /\ 0 <= i /\ i <= m /\ m \in Int /\ v \in Int /\ 1 <= v
            /\ j - v \in Int
      BY <1>a, <1>2, <1>3, <1>5
    <2> HIDE DEF s, m, u, v
    <2>4. CASE j <= i
      <3>1. (j \in 1..(m + v) <=> j \in 1..m)
        BY <2>3, <2>4
      <3> QED
        BY <1>2, <1>6, <2>2, <2>4, <3>1
    <2>5. CASE i < j /\ j <= i + v
      <3>1. j \in 1..(m + v) /\ ~(j <= i)
        BY <2>3, <2>5
      <3> QED
        BY <1>6, <2>2, <2>5, <3>1
    <2>6. CASE i + v < j
      <3>1. (j \in 1..(m + v) <=> j - v \in 1..m) /\ ~(j <= i) /\ ~(j <= i + v)
        BY <2>3, <2>6
      <3> QED
        BY <1>2, <1>6, <2>2, <2>3, <3>1
    <2> QED
      BY <2>3, <2>4, <2>5, <2>6
  <1>9. Apart(d, K)
    <2> DEFINE of == [f \in LHead |-> [j \in Nat |->
                       IF f = h /\ i < j /\ j <= i + v THEN t ELSE f]]
               to == [f \in LHead |-> [j \in Nat |->
                       IF f # h \/ j <= i THEN j ELSE IF j <= i + v THEN j - i
                         ELSE j - v]]
    <2>0. i \in Int /\ 0 <= i /\ i <= m /\ m \in Int /\ v \in Int /\ 1 <= v
      BY <1>a, <1>2, <1>3, <1>5
    <2>1. ASSUME NEW f \in K, NEW j \in 1..Len(d[f])
          PROVE  /\ of[f][j] \in H /\ to[f][j] \in 1..Len(c[of[f][j]])
                 /\ d[f][j] = c[of[f][j]][to[f][j]]
      <3>0. f \in LHead /\ j \in Nat /\ f \in H /\ f # t
        BY <1>a
      <3>1. CASE f = h
        <4>0. d[f] = q /\ j \in 1..(m + v)
          BY <1>6, <1>7, <3>1
        <4>1. CASE j <= i
          <5>1. j \in 1..m /\ ~(i < j)
            BY <2>0, <3>0, <4>0, <4>1
          <5>2. of[f][j] = h /\ to[f][j] = j
            BY <1>a, <3>0, <3>1, <4>1, <5>1
          <5> QED
            BY <1>6, <1>a, <4>0, <4>1, <5>1, <5>2
        <4>2. CASE i < j /\ j <= i + v
          <5>1. ~(j <= i) /\ j - i \in 1..v
            BY <2>0, <3>0, <4>0, <4>2
          <5>2. of[f][j] = t /\ to[f][j] = j - i
            BY <1>a, <3>0, <3>1, <4>2, <5>1
          <5> QED
            BY <1>6, <1>a, <4>0, <4>2, <5>1, <5>2
        <4>3. CASE i + v < j
          <5>1. ~(j <= i) /\ ~(j <= i + v) /\ j - v \in 1..m
            <6> HIDE DEF s, u, m, v
            <6> QED
              BY <2>0, <3>0, <4>0, <4>3
          <5>2. of[f][j] = h /\ to[f][j] = j - v
            BY <1>a, <3>0, <3>1, <5>1
          <5> QED
            BY <1>6, <1>a, <4>0, <5>1, <5>2
        <4> QED
          BY <2>0, <3>0, <4>1, <4>2, <4>3
      <3>2. CASE f # h
        <4>1. of[f][j] = f /\ to[f][j] = j /\ d[f] = c[f]
          BY <1>7, <3>0, <3>2
        <4> QED
          BY <3>0, <4>1
      <3> QED
        BY <3>1, <3>2
    <2>2. ASSUME NEW f \in K, NEW g \in K, NEW j \in 1..Len(d[f]),
                   NEW z \in 1..Len(d[g]),
                 of[f][j] = of[g][z], to[f][j] = to[g][z]
          PROVE  f = g /\ j = z
      <3>0. f \in LHead /\ j \in Nat /\ g \in LHead /\ z \in Nat /\ f # t /\ g # t
        BY <1>a
      <3>1. /\ of[f][j] = (IF f = h /\ i < j /\ j <= i + v THEN t ELSE f)
            /\ of[g][z] = (IF g = h /\ i < z /\ z <= i + v THEN t ELSE g)
            /\ to[f][j] = (IF f # h \/ j <= i THEN j
                            ELSE IF j <= i + v THEN j - i ELSE j - v)
            /\ to[g][z] = (IF g # h \/ z <= i THEN z
                            ELSE IF z <= i + v THEN z - i ELSE z - v)
        BY <3>0
      <3> HIDE DEF of, to, m, v, s, u
      <3>2. (IF f = h /\ i < j /\ j <= i + v THEN t ELSE f)
             = (IF g = h /\ i < z /\ z <= i + v THEN t ELSE g)
        BY <2>2, <3>1
      <3>3. (IF f # h \/ j <= i THEN j ELSE IF j <= i + v THEN j - i ELSE j - v)
             = (IF g # h \/ z <= i THEN z ELSE IF z <= i + v THEN z - i ELSE z - v)
        BY <2>2, <3>1
      <3>4. f = g
        BY <3>0, <3>2
      <3>5. CASE f = h
        <4>1. (i < j /\ j <= i + v) <=> (i < z /\ z <= i + v)
          BY <3>0, <3>2, <3>4, <3>5, <1>a
        <4> QED
          BY <2>0, <3>0, <3>3, <3>4, <3>5, <4>1
      <3>6. CASE f # h
        BY <3>3, <3>4, <3>6
      <3> QED
        BY <3>4, <3>5, <3>6
    <2> HIDE DEF of, to, d
    <2>3. DrawnFrom(d, K, c, H, of, to)
      <3> HIDE DEF K
      <3>1. \A f \in K : \A j \in 1..Len(d[f]) :
              /\ of[f][j] \in H /\ to[f][j] \in 1..Len(c[of[f][j]])
              /\ d[f][j] = c[of[f][j]][to[f][j]]
        BY <2>1
      <3>2. \A f, g \in K : \A j \in 1..Len(d[f]), z \in 1..Len(d[g]) :
              of[f][j] = of[g][z] /\ to[f][j] = to[g][z] => f = g /\ j = z
        BY <2>2, ZenonT(30)
      <3> QED
        BY <3>1, <3>2, Zenon DEF DrawnFrom
    <2>4. K \in SUBSET LHead /\ H \in SUBSET LHead
      BY <1>a
    <2> HIDE DEF K
    <2> QED
      BY <1>1, <1>7, <2>3, <2>4, ApartBy
  <1>10. /\ i + 1 \in Int /\ i \in Int /\ i \in 0..Len(c[h]) /\ v \in 0..Len(c[t])
         /\ l.prev[n] = p /\ l.prev[first] = t
    <2>1. i + 1 \in Int /\ i \in Int /\ i \in 0..Len(c[h]) /\ v \in 0..Len(c[t])
      BY <1>a, <1>3
    <2>2. l.prev[Place(h, s, i + 1)] = Place(h, s, i)
      BY <1>a DEF LShape, Ring
    <2>z. PICK zero : zero = 0
      OBVIOUS
    <2>3. zero \in 0..v /\ zero + 1 = 1 /\ zero \in Int /\ zero \notin 1..v
      BY <1>3, <2>z
    <2>4. l.prev[Place(t, u, zero + 1)] = Place(t, u, zero)
      BY <1>a, <2>3 DEF LShape, Ring
    <2>5. Place(t, u, zero) = t
      BY <1>3, <2>3
    <2> QED
      BY <1>a, <1>5, <2>1, <2>2, <2>3, <2>4, <2>5
  <1>11. /\ first \in Node /\ last \in Node /\ p \in Node /\ n \in Node /\ t \in Node
         /\ first \in LEntry /\ last \in LEntry
         /\ p # last /\ n # first /\ n # last /\ p # first
    <2>1. first \in LEntry /\ last \in LEntry
      BY <1>3, <1>5
    <2>2. p \in Node /\ n \in Node
      BY <1>4, <1>a, <1>10
    <2>3. \A x \in 1..m, y \in 1..v : s[x] # u[y]
      BY <1>1, <1>2, <1>3, <1>a DEF Apart
    <2>4. \A y \in 1..v : p # u[y] /\ n # u[y]
      <3> SUFFICES ASSUME NEW y \in 1..v PROVE p # u[y] /\ n # u[y]
        OBVIOUS
      <3>1. u[y] \in LEntry /\ u[y] # h
        BY <1>3, <1>a, LAssumption
      <3>2. p = (IF i \in 1..m THEN s[i] ELSE h)
              /\ n = (IF i + 1 \in 1..m THEN s[i + 1] ELSE h)
        BY <1>2, <1>a, <1>10
      <3> QED
        BY <2>3, <3>1, <3>2
    <2> QED
      BY <1>5, <1>a, <2>1, <2>2, <2>4 DEF Node
  <1> HIDE DEF k, first, last
  <1>12. /\ k \in Links2
         /\ \A z \in Node :
              /\ k.next[z] = IF z = last THEN n ELSE IF z = p THEN first ELSE l.next[z]
              /\ k.prev[z] = IF z = n THEN last ELSE IF z = first THEN p ELSE l.prev[z]
    <2>1. k = [l EXCEPT !.prev[first] = p, !.next[p] = first, !.next[last] = n,
                        !.prev[n] = last]
      BY DEF k, SpliceBetween, first, last
    <2>2. /\ k = [next |-> [l.next EXCEPT ![p] = first, ![last] = n],
                  prev |-> [l.prev EXCEPT ![first] = p, ![n] = last]]
          /\ l.next \in [Node -> Node \cup {Poison}]
               /\ l.prev \in [Node -> Node \cup {Poison}]
      BY <1>a, <2>1 DEF Links2
    <2>3. [l.next EXCEPT ![p] = first, ![last] = n] \in [Node -> Node \cup {Poison}]
      BY <1>11, <2>2
    <2>4. [l.prev EXCEPT ![first] = p, ![n] = last] \in [Node -> Node \cup {Poison}]
      BY <1>11, <2>2
    <2> QED
      BY <1>11, <2>2, <2>3, <2>4 DEF Links2
  <1>13. ASSUME NEW f \in H, NEW j \in 0..Len(c[f]), f # h \/ j # i, f # t
                  \/ (j # 0 /\ j # v)
         PROVE  IsLink(k, Place(f, c[f], j), Place(f, c[f], j + 1))
    <2>0. f \in LHead
      BY <1>a
    <2>1. Len(c[f]) \in Nat /\ j \in Int /\ j + 1 \in Int
      <3>1. Len(c[f]) \in Nat
        BY <1>1, <2>0, RingPlaces
      <3> QED
        BY <3>1
    <2>2. /\ l.next[Place(f, c[f], j)] = Place(f, c[f], j + 1)
          /\ l.prev[Place(f, c[f], j + 1)] = Place(f, c[f], j)
      BY <1>a DEF LShape, Ring
    <2>3. Place(f, c[f], j) \in Node /\ Place(f, c[f], j + 1) \in Node
      BY <1>4, <2>0, <2>1
    <2>a. /\ H \in SUBSET LHead /\ LShape(l, H, c) /\ h \in H /\ t \in H
          /\ i \in 0..Len(c[h]) /\ v \in 0..Len(c[t])
          /\ (f # h \/ j # i) /\ (f # t \/ j # v)
      BY <1>a, <1>10, <1>13
    <2> HIDE DEF s, u, m, v
    <2>4. Place(f, c[f], j) # p /\ Place(f, c[f], j + 1) # n
      <3>1. /\ Place(f, c[f], j) # Place(h, c[h], i)
            /\ Place(f, c[f], j + 1) # Place(h, c[h], i + 1)
        BY <2>a, OtherLink
      <3> QED
        BY <1>a, <3>1 DEF s
    <2>5. Place(f, c[f], j) # last
      <3>1. Place(f, c[f], j) # Place(t, c[t], v)
        BY <2>a, OtherLink
      <3> QED
        BY <1>5, <3>1 DEF u
    <2>6. Place(f, c[f], j + 1) # first
      <3>0. PICK zero : zero = 0
        OBVIOUS
      <3>1. zero \in 0..Len(c[t]) /\ zero + 1 = 1 /\ (f # t \/ j # zero)
        BY <1>3, <1>13, <3>0 DEF u, v
      <3>2. Place(f, c[f], j + 1) # Place(t, c[t], zero + 1)
        BY <2>a, <3>1, OtherLink, ZenonT(40)
      <3> QED
        BY <1>5, <3>1, <3>2 DEF u
    <2> QED
      BY <1>12, <2>2, <2>3, <2>4, <2>5, <2>6 DEF IsLink
  <1>14. ASSUME NEW j \in 0..m, j # i
         PROVE  IsLink(k, Place(h, s, j), Place(h, s, j + 1))
    BY <1>a, <1>13, <1>14
  <1>15. ASSUME NEW j \in 0..v, j # 0, j # v
         PROVE  IsLink(k, Place(t, u, j), Place(t, u, j + 1))
    BY <1>a, <1>13, <1>15
  <1> HIDE DEF s, m, u, v
  <1>16. ASSUME NEW j \in 0..(m + v) PROVE IsLink(k, Place(h, q, j), Place(h, q, j + 1))
    <2>0. /\ i \in Int /\ 0 <= i /\ i <= m /\ m \in Int /\ v \in Int /\ 1 <= v
          /\ j \in Int /\ j + 1 \in Int /\ 0 <= j /\ j <= m + v
      BY <1>a, <1>2, <1>3, <1>5
    <2>1. CASE j < i
      <3>1. j <= i /\ j + 1 <= i /\ j \in 0..m /\ j # i
        BY <2>0, <2>1
      <3> QED
        BY <1>8, <1>14, <2>0, <3>1
    <2>2. CASE j = i
      <3>1. j <= i /\ ~(j + 1 <= i) /\ j + 1 <= i + v /\ j + 1 - i = 1
        BY <2>0, <2>2
      <3>2. Place(h, q, j) = p /\ Place(h, q, j + 1) = first
        BY <1>5, <1>8, <1>a, <2>0, <2>2, <3>1
      <3> QED
        BY <1>11, <1>12, <3>2 DEF IsLink
    <2>3. CASE i < j /\ j < i + v
      <3>1. /\ ~(j <= i) /\ j <= i + v /\ ~(j + 1 <= i) /\ j + 1 <= i + v
            /\ j - i \in 1..v /\ j + 1 - i \in 1..v /\ j - i # v /\ j - i # 0
                 /\ j - i \in 0..v
            /\ j - i + 1 = j + 1 - i /\ j - i \in Int /\ j + 1 - i \in Int
        BY <2>0, <2>3
      <3>2. Place(h, q, j) = u[j - i] /\ Place(h, q, j + 1) = u[j + 1 - i]
        BY <1>8, <2>0, <3>1
      <3>3. Place(t, u, j - i) = u[j - i] /\ Place(t, u, j + 1 - i) = u[j + 1 - i]
        BY <1>3, <3>1
      <3>4. IsLink(k, Place(t, u, j - i), Place(t, u, j - i + 1))
        BY <1>15, <3>1
      <3> QED
        BY <3>1, <3>2, <3>3, <3>4
    <2>4. CASE j = i + v
      <3>1. /\ ~(j <= i) /\ j <= i + v /\ ~(j + 1 <= i) /\ ~(j + 1 <= i + v)
            /\ j - i = v /\ j + 1 - v = i + 1
        BY <2>0, <2>4
      <3>2. Place(h, q, j) = last /\ Place(h, q, j + 1) = n
        BY <1>5, <1>8, <1>a, <2>0, <3>1
      <3> QED
        BY <1>11, <1>12, <3>2 DEF IsLink
    <2>5. CASE i + v < j
      <3>1. /\ ~(j <= i) /\ ~(j <= i + v) /\ ~(j + 1 <= i) /\ ~(j + 1 <= i + v)
            /\ j - v \in 0..m /\ j - v # i /\ j + 1 - v = j - v + 1
        BY <2>0, <2>5
      <3>2. Place(h, q, j) = Place(h, s, j - v)
              /\ Place(h, q, j + 1) = Place(h, s, j - v + 1)
        BY <1>8, <2>0, <3>1
      <3>3. IsLink(k, Place(h, s, j - v), Place(h, s, j - v + 1))
        BY <1>14, <3>1
      <3> QED
        BY <3>2, <3>3
    <2> QED
      BY <2>0, <2>1, <2>2, <2>3, <2>4, <2>5
  <1>17. ASSUME NEW f \in K PROVE Ring(k, f, d[f])
    <2>0. f \in H /\ f # t /\ f \in LHead
      BY <1>a
    <2>1. CASE f = h
      BY <1>6, <1>7, <1>16, <2>1, RingOfLinks
    <2>2. CASE f # h
      <3>1. d[f] = c[f]
        BY <1>7, <2>0, <2>2
      <3>2. \A j \in 0..Len(c[f]) : IsLink(k, Place(f, c[f], j), Place(f, c[f], j + 1))
        BY <1>13, <2>0, <2>2
      <3> QED
        BY <3>1, <3>2, RingOfLinks
    <2> QED
      BY <2>1, <2>2
  <1>18. LShape(k, K, d)
    BY <1>7, <1>9, <1>17 DEF LShape
  <1>19. ASSUME SelfBoth(l) PROVE SelfBoth(k)
    <2> SUFFICES ASSUME NEW z \in LEntry, k.next[z] = z PROVE k.prev[z] = z
      BY DEF SelfBoth
    <2>1. z \in Node /\ z # t
      BY <1>a, LAssumption DEF Node
    <2>2. z # last /\ z # p
      BY <1>11, <1>12, <2>1
    <2>3. l.next[z] = z /\ l.prev[z] = z
      BY <1>12, <1>19, <2>1, <2>2 DEF SelfBoth
    <2>4. z # n /\ z # first
      BY <1>10, <2>1, <2>2, <2>3
    <2> QED
      BY <1>12, <2>1, <2>3, <2>4
  <1> QED
    BY <1>12, <1>18, <1>19 DEF k, d, s, u

(* All of one list before the other, or behind it.                         *)
LEMMA SplicedEnds ==
  ASSUME NEW s \in Seq(LEntry), NEW u \in Seq(LEntry)
  PROVE  /\ Spliced(u \o s, s, u, 0) /\ Spliced(s \o u, s, u, Len(s))
         /\ 0 \in 0..Len(s) /\ Len(s) \in 0..Len(s)
  <1> DEFINE m == Len(s)
             v == Len(u)
             us == u \o s
             su == s \o u
  <1>1. /\ us \in Seq(LEntry) /\ Len(us) = v + m /\ m \in Nat /\ v \in Nat
        /\ \A j \in 1..(v + m) : us[j] = IF j <= v THEN u[j] ELSE s[j - v]
    BY RowOf
  <1>2. /\ su \in Seq(LEntry) /\ Len(su) = m + v
        /\ \A j \in 1..(m + v) : su[j] = IF j <= m THEN s[j] ELSE u[j - m]
    BY RowOf
  <1> HIDE DEF us, su, m, v
  <1>3. v + m = m + v
    BY <1>1
  <1>4. \A j \in 1..(m + v) : ~(j <= 0) /\ j - 0 = j /\ 0 + v = v /\ j <= m + v
    BY <1>1
  <1>5. Spliced(us, s, u, 0)
    BY <1>1, <1>3, <1>4 DEF Spliced, m, v
  <1>6. Spliced(su, s, u, m)
    BY <1>2, <1>4 DEF Spliced, m, v
  <1> QED
    BY <1>1, <1>5, <1>6 DEF us, su, m

(* How a call leaves the lists, when it found them in c: an entry has come *)
(* in,                                                                     *)
LEMMA EnterLeavesAt ==
  ASSUME NEW l, NEW H, NEW c, Leaves(l, H, c), NEW h, NEW i, NEW x, NEW p, NEW n,
         Adding(l, H, c, h, i, x, p, n)
  PROVE  Leaves(AddBetween(l, x, p, n), H, [c EXCEPT ![h] = InsertAt(@, i, x)])
  <1>1. /\ H \in SUBSET LHead /\ LShape(l, H, c) /\ SelfBoth(l) /\ h \in H
        /\ \A g \in LHead \ H : c[g] = <<>>
    BY DEF Leaves, Adding
  <1>2. /\ LShape(AddBetween(l, x, p, n), H, [c EXCEPT ![h] = InsertAt(@, i, x)])
        /\ AddBetween(l, x, p, n) \in Links2 /\ SelfBoth(AddBetween(l, x, p, n))
    BY <1>1, EntryEnters
  <1>3. \A r : \A g \in LHead \ H : [c EXCEPT ![h] = r][g] = <<>>
    <2>1. c \in [LHead -> Seq(LEntry)]
      BY <1>1, RingIs
    <2> QED
      BY <1>1, <2>1
  <1> QED
    BY <1>1, <1>2, <1>3 DEF Leaves

(* at the front or at the back maybe,                                      *)
LEMMA EnterLeaves ==
  ASSUME NEW l, NEW H, NEW c, Leaves(l, H, c), NEW h \in H, NEW x \in LEntry,
         Outside(c, H, x)
  PROVE  /\ Leaves(ListAdd(l, x, h), H, [c EXCEPT ![h] = InsertAt(@, 1, x)])
         /\ Leaves(ListAddTail(l, x, h), H,
                   [c EXCEPT ![h] = InsertAt(@, Len(c[h]) + 1, x)])
         /\ 1 \in 1..(Len(c[h]) + 1) /\ Len(c[h]) + 1 \in 1..(Len(c[h]) + 1)
  <1>a. /\ l \in Links2 /\ H \in SUBSET LHead /\ LShape(l, H, c)
    BY DEF Leaves
  <1>1. /\ Place(h, c[h], 0) = h /\ Place(h, c[h], Len(c[h]) + 1) = h
        /\ l.next[h] = Place(h, c[h], 1) /\ l.prev[h] = Place(h, c[h], Len(c[h]))
        /\ Len(c[h]) \in Nat
    BY <1>a, RingEnds
  <1>3. ASSUME NEW i \in 1..(Len(c[h]) + 1), NEW p, NEW n,
               p = Place(h, c[h], i - 1), n = Place(h, c[h], i)
        PROVE  Leaves(AddBetween(l, x, p, n), H, [c EXCEPT ![h] = InsertAt(@, i, x)])
    <2>1. Adding(l, H, c, h, i, x, p, n)
      BY <1>a, <1>3 DEF Adding
    <2> QED
      BY <2>1, EnterLeavesAt
  <1>4. PICK one : one = 1
    OBVIOUS
  <1>5. one \in 1..(Len(c[h]) + 1) /\ one - 1 = 0
    BY <1>1, <1>4
  <1> PICK last : last = Len(c[h]) + 1
    OBVIOUS
  <1>6. last \in 1..(Len(c[h]) + 1) /\ last - 1 = Len(c[h])
    BY <1>1
  <1>7. Leaves(AddBetween(l, x, h, l.next[h]), H, [c EXCEPT ![h] = InsertAt(@, one, x)])
    BY <1>1, <1>3, <1>4, <1>5
  <1>8. Leaves(AddBetween(l, x, l.prev[h], h), H,
          [c EXCEPT ![h] = InsertAt(@, last, x)])
    BY <1>1, <1>3, <1>6
  <1> QED
    BY <1>4, <1>5, <1>6, <1>7, <1>8 DEF ListAdd, ListAddTail

(* one has gone out,                                                       *)
LEMMA TakeLeaves ==
  ASSUME NEW l, NEW H, NEW c, Leaves(l, H, c), NEW h \in H, NEW i \in 1..Len(c[h]),
         NEW e, e = c[h][i]
  PROVE  /\ Leaves(Unlinked(l, e), H, [c EXCEPT ![h] = RemoveAt(@, i)])
         /\ Outside([c EXCEPT ![h] = RemoveAt(@, i)], H, e) /\ e \in LEntry
  <1>a. /\ l \in Links2 /\ H \in SUBSET LHead /\ LShape(l, H, c) /\ SelfBoth(l)
        /\ \A g \in LHead \ H : c[g] = <<>>
    BY DEF Leaves
  <1>1. \A r : \A g \in LHead \ H : [c EXCEPT ![h] = r][g] = <<>>
    <2>1. c \in [LHead -> Seq(LEntry)]
      BY <1>a, RingIs
    <2> QED
      BY <1>a, <2>1
  <1>2. Taking(l, H, c, h, i, e)
    BY <1>a DEF Taking
  <1>3. /\ LShape(Unlinked(l, e), H, [c EXCEPT ![h] = RemoveAt(@, i)])
        /\ Beside(l, c, h, i, e) /\ SelfBoth(Unlinked(l, e))
        /\ Outside([c EXCEPT ![h] = RemoveAt(@, i)], H, e)
    BY <1>a, <1>2, EntryLeaves
  <1>4. Unlinked(l, e) \in Links2 /\ e \in LEntry
    BY <1>3 DEF Beside, Joined
  <1> QED
    BY <1>a, <1>1, <1>3, <1>4 DEF Leaves

(* the links of an entry that is in no list have changed,                  *)
LEMMA OffLeaves ==
  ASSUME NEW l, NEW H, NEW c, Leaves(l, H, c), NEW e \in LEntry, Outside(c, H, e)
  PROVE  Leaves(Poisoned(l, e), H, c) /\ Leaves(InitHead(l, e), H, c)
  <1>a. /\ l \in Links2 /\ H \in SUBSET LHead /\ LShape(l, H, c) /\ SelfBoth(l)
        /\ \A g \in LHead \ H : c[g] = <<>>
    BY DEF Leaves
  <1>1. e \in Node /\ e # Poison /\ c \in [LHead -> Seq(LEntry)]
    BY <1>a, LAssumption, RingIs DEF Node
  <1>2. ASSUME NEW k, \A z \in Node : z # e => k.next[z] = l.next[z]
                 /\ k.prev[z] = l.prev[z]
        PROVE  LShape(k, H, c)
    <2>1. \A g \in H : \A i \in 1..Len(c[g]) : c[g][i] # e
      BY <1>a, <1>1, OutsideIs
    <2>2. Agree(k, l, H, c)
      BY <1>2, <1>a, <2>1, LAssumption DEF Agree
    <2>3. H \in SUBSET H
      OBVIOUS
    <2> QED
      BY <1>a, <2>2, <2>3, OffRings
  <1>3. Leaves(Poisoned(l, e), H, c)
    <2> DEFINE k == Poisoned(l, e)
    <2>1. Spoilt(k, l, e)
      BY <1>a, <1>1, PoisonedIs
    <2> HIDE DEF k
    <2>2. /\ k \in Links2
          /\ \A z \in Node : /\ k.next[z] = IF z = e THEN Poison ELSE l.next[z]
                             /\ k.prev[z] = IF z = e THEN Poison ELSE l.prev[z]
      BY <2>1 DEF Spoilt
    <2>3. LShape(k, H, c)
      BY <1>2, <2>2
    <2>4. SelfBoth(k)
      <3> SUFFICES ASSUME NEW z \in LEntry, k.next[z] = z PROVE k.prev[z] = z
        BY DEF SelfBoth
      <3>1. z \in Node /\ z # Poison
        BY LAssumption DEF Node
      <3> QED
        BY <1>a, <2>2, <3>1 DEF SelfBoth
    <2> QED
      BY <1>a, <2>2, <2>3, <2>4 DEF Leaves, k
  <1>4. Leaves(InitHead(l, e), H, c)
    <2> DEFINE k == InitHead(l, e)
    <2>1. Reset(k, l, e)
      BY <1>a, <1>1, InitHeadIs
    <2> HIDE DEF k
    <2>2. /\ k \in Links2
          /\ \A z \in Node : /\ k.next[z] = IF z = e THEN e ELSE l.next[z]
                             /\ k.prev[z] = IF z = e THEN e ELSE l.prev[z]
      BY <2>1 DEF Reset
    <2>3. LShape(k, H, c)
      BY <1>2, <2>2
    <2>4. SelfBoth(k)
      <3> SUFFICES ASSUME NEW z \in LEntry, k.next[z] = z PROVE k.prev[z] = z
        BY DEF SelfBoth
      <3>1. z \in Node
        BY DEF Node
      <3> QED
        BY <1>a, <2>2, <3>1 DEF SelfBoth
    <2> QED
      BY <1>a, <2>2, <2>3, <2>4 DEF Leaves, k
  <1> QED
    BY <1>3, <1>4

(* a head has become a list of its own, empty.                             *)
LEMMA ClearLeaves ==
  ASSUME NEW l, NEW H, NEW c, Leaves(l, H, c), NEW h \in LHead
  PROVE  Leaves(InitHead(l, h), H \cup {h}, [c EXCEPT ![h] = <<>>])
  <1> DEFINE k == InitHead(l, h)
  <1>a. /\ l \in Links2 /\ H \in SUBSET LHead /\ LShape(l, H, c) /\ SelfBoth(l)
        /\ \A g \in LHead \ H : c[g] = <<>>
    BY DEF Leaves
  <1>1. h \in Node /\ c \in [LHead -> Seq(LEntry)]
    BY <1>a, RingIs DEF Node
  <1>2. Reset(k, l, h)
    BY <1>a, <1>1, InitHeadIs
  <1> HIDE DEF k
  <1>3. LShape(k, H \cup {h}, [c EXCEPT ![h] = <<>>])
    BY <1>a, <1>2, RingEmptied
  <1>4. /\ k \in Links2
        /\ \A z \in Node : /\ k.next[z] = IF z = h THEN h ELSE l.next[z]
                           /\ k.prev[z] = IF z = h THEN h ELSE l.prev[z]
    BY <1>2 DEF Reset
  <1>5. SelfBoth(k)
    <2> SUFFICES ASSUME NEW z \in LEntry, k.next[z] = z PROVE k.prev[z] = z
      BY DEF SelfBoth
    <2>1. z \in Node
      BY DEF Node
    <2> QED
      BY <1>a, <1>4, <2>1 DEF SelfBoth
  <1>6. \A g \in LHead \ (H \cup {h}) : [c EXCEPT ![h] = <<>>][g] = <<>>
    BY <1>a, <1>1
  <1> QED
    BY <1>a, <1>3, <1>4, <1>5, <1>6 DEF Leaves, k

(* The calls outside an iteration, one by one: INIT_LIST_HEAD, list_add    *)
(* and list_add_tail,                                                      *)
LEMMA InitListHeadKeeps ==
  ASSUME LInv, NEW h \in LHead, InitListHead(h)
  PROVE  LInv' /\ Seqs!Clear
  <1>1. Leaves(ls, live, ListOf)
    BY InLInv
  <1>2. Leaves(InitHead(ls, h), live \cup {h}, [ListOf EXCEPT ![h] = <<>>])
    BY <1>1, ClearLeaves
  <1>3. LInv' /\ ListOf' = [ListOf EXCEPT ![h] = <<>>]
    BY <1>2, StepBecomes DEF InitListHead
  <1> QED
    BY <1>3 DEF Seqs!Clear

LEMMA LAddKeeps ==
  ASSUME LInv, NEW h \in live, NEW e \in LEntry, LAdd(e, h) \/ LAddTail(e, h)
  PROVE  LInv' /\ Seqs!Enter
  <1>1. /\ Leaves(ls, live, ListOf) /\ live \in SUBSET LHead
        /\ \A x : x \notin Members <=> Outside(ListOf, live, x)
        /\ \A g \in LHead \ live : ListOf[g] = <<>>
    BY InLInv
  <1>2. e \notin Members
    BY DEF LAdd, LAddTail
  <1>3. Outside(ListOf, live, e)
    BY <1>1, <1>2
  <1>4. /\ Leaves(ListAdd(ls, e, h), live, [ListOf EXCEPT ![h] = InsertAt(@, 1, e)])
        /\ Leaves(ListAddTail(ls, e, h), live,
                  [ListOf EXCEPT ![h] = InsertAt(@, Len(ListOf[h]) + 1, e)])
        /\ 1 \in 1..(Len(ListOf[h]) + 1)
             /\ Len(ListOf[h]) + 1 \in 1..(Len(ListOf[h]) + 1)
    BY <1>1, <1>3, EnterLeaves
  <1>5. Step(ListAdd(ls, e, h), live) \/ Step(ListAddTail(ls, e, h), live)
    BY DEF LAdd, LAddTail
  <1>6. /\ LInv'
        /\ \/ ListOf' = [ListOf EXCEPT ![h] = InsertAt(@, 1, e)]
           \/ ListOf' = [ListOf EXCEPT ![h] = InsertAt(@, Len(ListOf[h]) + 1, e)]
    BY <1>4, <1>5, StepBecomes
  <1>7. \E i \in 1..(Len(ListOf[h]) + 1) :
          ListOf' = [ListOf EXCEPT ![h] = InsertAt(@, i, e)]
    BY <1>4, <1>6
  <1>8. e \in LEntry \ Seqs!Linked
    <2>1. ToSet(<<>>) = {}
      BY DEF ToSet
    <2>2. Seqs!Linked = Members
      BY <1>1, <2>1 DEF Seqs!Linked, Members, Seqs!ToSet, ToSet
    <2> QED
      BY <1>2, <2>2
  <1>9. h \in LHead
    BY <1>1
  <1> QED
    BY <1>6, <1>7, <1>8, <1>9, Zenon DEF Seqs!Enter, Seqs!InsertAt, InsertAt

(* What an iteration has read ahead, when the entry it is at leaves.       *)
LEMMA OnwardsWithout ==
  ASSUME NEW w \in {"next", "prev"}, NEW s \in Seq(LEntry), NEW i \in 1..Len(s)
  PROVE  /\ Onwards(w, s) \in Seq(LEntry) /\ Len(Onwards(w, s)) = Len(s)
         /\ \E q \in 1..Len(s) :
              /\ Onwards(w, s)[q] = s[i]
              /\ WithoutOne(Onwards(w, RemoveAt(s, i)), LEntry, Onwards(w, s), q)
  <1> DEFINE n == Len(s)
             r == RemoveAt(s, i)
  <1>1. WithoutOne(r, LEntry, s, i)
    BY Removed
  <1>2. /\ r \in Seq(LEntry) /\ Len(r) = n - 1 /\ n \in Nat
        /\ \A j \in 1..(n - 1) : r[j] = IF j < i THEN s[j] ELSE s[j + 1]
    BY <1>1 DEF WithoutOne
  <1> HIDE DEF r, n
  <1>3. CASE w = "next"
    <2>1. Onwards(w, s) = s /\ Onwards(w, r) = r
      BY <1>3 DEF Onwards
    <2> QED
      BY <1>1, <2>1 DEF r
  <1>4. CASE w = "prev"
    <2> DEFINE d == Reverse(s)
               b == Reverse(r)
               q == n - i + 1
    <2>1. Onwards(w, s) = d /\ Onwards(w, r) = b
      BY <1>4 DEF Onwards
    <2>2. d \in Seq(LEntry) /\ Len(d) = n /\ \A j \in 1..n : d[j] = s[n - j + 1]
      BY ReverseIs DEF n
    <2>3. b \in Seq(LEntry) /\ Len(b) = n - 1
            /\ \A j \in 1..(n - 1) : b[j] = r[n - 1 - j + 1]
      <3>1. /\ b \in Seq(LEntry) /\ Len(b) = Len(r)
            /\ \A j \in 1..Len(r) : b[j] = r[Len(r) - j + 1]
        BY <1>2, ReverseIs
      <3> QED
        BY <1>2, <3>1
    <2> HIDE DEF d, b
    <2>4. i \in 1..n /\ q \in 1..n /\ n - q + 1 = i
      BY <1>2 DEF n
    <2>5. d[q] = s[i]
      BY <2>2, <2>4
    <2>6. ASSUME NEW j \in 1..(n - 1) PROVE b[j] = IF j < q THEN d[j] ELSE d[j + 1]
      <3>1. /\ n - 1 - j + 1 = n - j /\ n - j \in 1..(n - 1) /\ j \in 1..n
                 /\ j + 1 \in 1..n
            /\ n - (j + 1) + 1 = n - j /\ (j < q <=> ~(n - j < i))
        BY <1>2, <2>4
      <3>2. b[j] = IF n - j < i THEN s[n - j] ELSE s[n - j + 1]
        BY <1>2, <2>3, <3>1
      <3>3. d[j] = s[n - j + 1] /\ d[j + 1] = s[n - j]
        BY <2>2, <3>1
      <3> QED
        BY <3>1, <3>2, <3>3
    <2> HIDE DEF q
    <2>7. WithoutOne(b, LEntry, d, q)
      BY <1>2, <2>2, <2>3, <2>6 DEF WithoutOne
    <2> QED
      BY <2>1, <2>2, <2>4, <2>5, <2>7 DEF n, r
  <1> QED
    BY <1>3, <1>4

LEMMA WalkWithout ==
  ASSUME NEW w, NEW s \in Seq(LEntry), InWalk(w, s), NEW i \in 1..Len(s), s[i] = w.pos
  PROVE  InWalk(w, RemoveAt(s, i))
  <1> DEFINE k == Len(w.seen)
             m == Len(w.whole)
             d == Onwards(w.way, s)
             b == Onwards(w.way, RemoveAt(s, i))
             D == Len(d)
  <1>1. /\ w \in Pass2 /\ NoTwice(w.whole) /\ k \in 0..m
        /\ \A j \in 1..k : w.seen[j] = w.whole[j]
        /\ w.pos = Place(w.head, w.whole, k + 1)
        /\ k < m => /\ w.n = Place(w.head, w.whole, k + 2) /\ m <= D + k + 1
                    /\ \A j \in (k + 2)..m : d[D - m + j] = w.whole[j]
    BY DEF InWalk
  <1>2. /\ w.head \in LHead /\ w.way \in {"next", "prev"} /\ w.seen \in Seq(LEntry)
        /\ w.whole \in Seq(LEntry)
    BY <1>1 DEF Pass2
  <1>3. k \in Nat /\ m \in Nat /\ DOMAIN w.whole = 1..m
    BY <1>2, LenProperties
  <1>4. k < m /\ w.pos = w.whole[k + 1] /\ k + 1 \in 1..m
    <2>1. s[i] \in LEntry
      BY ElementOfSeq
    <2>2. w.pos # w.head
      BY <1>2, <2>1, LAssumption
    <2>3. k + 1 \in 1..m
      BY <1>1, <1>3, <2>2 DEF Place
    <2> QED
      BY <1>1, <1>3, <2>3 DEF Place
  <1>5. d \in Seq(LEntry) /\ D \in Nat
    BY <1>2, OnwardsWithout
  <1>6. PICK q \in 1..D : d[q] = s[i] /\ WithoutOne(b, LEntry, d, q)
    BY <1>2, OnwardsWithout
  <1> HIDE DEF b, d, k, m
  <1>7. /\ Len(b) = D - 1 /\ \A j \in 1..(D - 1) :
             b[j] = IF j < q THEN d[j] ELSE d[j + 1]
    BY <1>6 DEF WithoutOne
  <1>8. q <= D - m + k + 1
    <2> SUFFICES ASSUME D - m + k + 1 < q PROVE FALSE
      BY <1>3, <1>5
    <2>1. /\ q - D + m \in (k + 2)..m /\ D - m + (q - D + m) = q
          /\ q - D + m # k + 1 /\ q - D + m \in 1..m
      BY <1>3, <1>5
    <2>2. d[q] = w.whole[q - D + m]
      BY <1>1, <1>4, <2>1
    <2>3. q - D + m \in DOMAIN w.whole /\ k + 1 \in DOMAIN w.whole /\ q - D + m # k + 1
      BY <1>3, <1>4, <2>1
    <2>4. w.whole[q - D + m] = w.whole[k + 1]
      BY <1>4, <1>6, <2>2
    <2>5. NoTwice(w.whole)
      BY <1>1
    <2> QED
      BY <2>3, <2>4, <2>5 DEF NoTwice
  <1>9. m <= D - 1 + k + 1
    BY <1>3, <1>5, <1>8
  <1>10. ASSUME NEW j \in (k + 2)..m PROVE b[D - 1 - m + j] = w.whole[j]
    <2>1. /\ D - 1 - m + j \in 1..(D - 1) /\ ~(D - 1 - m + j < q)
          /\ D - 1 - m + j + 1 = D - m + j
      BY <1>3, <1>5, <1>8
    <2>2. b[D - 1 - m + j] = d[D - m + j]
      BY <1>7, <2>1
    <2> QED
      BY <1>1, <1>4, <2>2
  <1>11. /\ w.n = Place(w.head, w.whole, k + 2) /\ m <= Len(b) + k + 1
         /\ \A j \in (k + 2)..m : b[Len(b) - m + j] = w.whole[j]
    BY <1>1, <1>4, <1>7, <1>9, <1>10
  <1> QED
    BY <1>1, <1>11 DEF InWalk, k, m, b

(* An entry that the iteration is at leaves its list, for another maybe:   *)
(* the iteration goes on.                                                  *)
LEMMA WalkKept ==
  ASSUME LInv, NEW e, it = NoWalk \/ it.pos = e, UNCHANGED it,
         NEW f \in live, NEW i \in 1..Len(ListOf[f]), e = ListOf[f][i], NEW d,
         \A h \in LHead : it # NoWalk /\ h = it.head =>
           d[h] = IF h = f THEN RemoveAt(ListOf[f], i) ELSE ListOf[h]
  PROVE  it' = NoWalk \/ (it'.head \in live /\ InWalk(it', d[it'.head]))
  <1>1. /\ it = NoWalk \/ (it.head \in live /\ InWalk(it, ListOf[it.head]))
        /\ ListOf \in [LHead -> Seq(LEntry)] /\ live \in SUBSET LHead
    BY InLInv
  <1> SUFFICES ASSUME it # NoWalk PROVE it.head \in live /\ InWalk(it, d[it.head])
    OBVIOUS
  <1>2. it.head \in live /\ InWalk(it, ListOf[it.head]) /\ it.head \in LHead
    BY <1>1
  <1>3. CASE it.head = f
    <2>1. d[f] = RemoveAt(ListOf[f], i)
      BY <1>2, <1>3
    <2>2. ListOf[f] \in Seq(LEntry) /\ ListOf[f][i] = it.pos /\ InWalk(it, ListOf[f])
      BY <1>1, <1>2, <1>3
    <2>3. InWalk(it, RemoveAt(ListOf[f], i))
      BY <2>2, WalkWithout
    <2> QED
      BY <1>2, <1>3, <2>1, <2>3
  <1>4. CASE it.head # f
    <2>1. d[it.head] = ListOf[it.head]
      BY <1>2, <1>4
    <2> QED
      BY <1>2, <2>1
  <1> QED
    BY <1>3, <1>4

(* list_del and list_del_init, of the entry the iteration is at maybe.     *)
LEMMA LDelKeeps ==
  ASSUME LInv, NEW e \in LEntry, LDel(e) \/ LDelInit(e)
  PROVE  LInv' /\ Seqs!Leave
  <1>1. e \in Members /\ (it = NoWalk \/ it.pos = e) /\ live' = live /\ UNCHANGED it
    BY DEF LDel, LDelInit, TakeOut
  <1>2. /\ Leaves(ls, live, ListOf) /\ live \in SUBSET LHead
        /\ \A x \in Members : \E h \in live : \E i \in 1..Len(ListOf[h]) :
             x = ListOf[h][i]
        /\ it = NoWalk \/ (it.head \in live /\ InWalk(it, ListOf[it.head]))
        /\ ListOf \in [LHead -> Seq(LEntry)]
    BY InLInv
  <1>3. PICK h \in live : \E i \in 1..Len(ListOf[h]) : e = ListOf[h][i]
    BY <1>1, <1>2
  <1>4. PICK i \in 1..Len(ListOf[h]) : e = ListOf[h][i]
    BY <1>3
  <1> DEFINE d == [ListOf EXCEPT ![h] = RemoveAt(@, i)]
             u == Unlinked(ls, e)
  <1>5. Leaves(u, live, d) /\ Outside(d, live, e)
    BY <1>2, <1>4, TakeLeaves
  <1>6. \A x \in LHead : d[x] = IF x = h THEN RemoveAt(ListOf[h], i) ELSE ListOf[x]
    BY <1>2
  <1> HIDE DEF d, u
  <1>7. Leaves(ls', live, d)
    <2>1. Leaves(Poisoned(u, e), live, d) /\ Leaves(InitHead(u, e), live, d)
      BY <1>5, OffLeaves
    <2> QED
      BY <2>1 DEF LDel, LDelInit, TakeOut, u
  <1>8. it' = NoWalk \/ (it'.head \in live /\ InWalk(it', d[it'.head]))
    BY <1>1, <1>4, <1>6, WalkKept
  <1>9. LInv' /\ ListOf' = d
    BY <1>1, <1>7, <1>8, LBecoming
  <1>10. h \in LHead /\ i \in DOMAIN ListOf[h]
    BY <1>2, <1>4, RingPlaces
  <1> QED
    BY <1>9, <1>10, Zenon DEF Seqs!Leave, Seqs!RemoveAt, RemoveAt, d

(* list_del_init of an entry that is in no list changes nothing.           *)
LEMMA DelInitAgainKeeps ==
  ASSUME LInv, NEW e \in LEntry, DelInitAgain(e)
  PROVE  LInv' /\ ListOf' = ListOf
  <1>1. /\ ls \in Links2 /\ SelfBoth(ls) /\ Leaves(ls, live, ListOf)
    BY InLInv
  <1>2. ls.next[e] = e /\ e \in Node /\ Step(InitHead(Unlinked(ls, e), e), live)
    BY DEF DelInitAgain, Node
  <1>3. ls.prev[e] = e
    BY <1>1, <1>2 DEF SelfBoth
  <1>4. InitHead(Unlinked(ls, e), e) = ls
    <2> DEFINE u == Unlinked(ls, e)
               k == InitHead(u, e)
    <2>1. u = Join(ls, e, e)
      BY <1>2, <1>3 DEF Unlinked
    <2> HIDE DEF u
    <2>2. Joined(u, ls, e, e)
      BY <1>1, <1>2, <2>1, JoinIs
    <2>3. u \in Links2
      BY <2>2 DEF Joined
    <2>4. Reset(k, u, e)
      BY <1>2, <2>3, InitHeadIs
    <2> HIDE DEF k
    <2>5. k \in Links2 /\ \A z \in Node : k.next[z] = ls.next[z]
            /\ k.prev[z] = ls.prev[z]
      BY <1>2, <1>3, <2>2, <2>4 DEF Joined, Reset
    <2>6. k = ls
      BY <1>1, <2>5, SameLinks
    <2> QED
      BY <2>6 DEF k, u
  <1>5. Step(ls, live)
    BY <1>2, <1>4
  <1> QED
    BY <1>1, <1>5, StepBecomes

(* An entry e goes from place i of f to the front of g, which gives a, or  *)
(* to its back, which gives b.                                             *)
Moving(f, i, e, g, a, b) ==
  /\ f \in live /\ g \in live /\ i \in 1..Len(ListOf[f]) /\ e = ListOf[f][i]
  /\ a = Seqs!Placed([ListOf EXCEPT ![f] = RemoveAt(@, i)], g, e, FALSE)
  /\ b = Seqs!Placed([ListOf EXCEPT ![f] = RemoveAt(@, i)], g, e, TRUE)

LEMMA MoveLeaves ==
  ASSUME LInv, NEW f, NEW i, NEW e, NEW g, NEW a, NEW b, Moving(f, i, e, g, a, b)
  PROVE  /\ Leaves(ListAdd(Unlinked(ls, e), e, g), live, a)
         /\ Leaves(ListAddTail(Unlinked(ls, e), e, g), live, b)
         /\ ListOf' = a \/ ListOf' = b => Seqs!Move
         /\ \A h \in LHead : h # g =>
              /\ a[h] = IF h = f THEN RemoveAt(ListOf[f], i) ELSE ListOf[h]
              /\ b[h] = IF h = f THEN RemoveAt(ListOf[f], i) ELSE ListOf[h]
  <1> DEFINE d == [ListOf EXCEPT ![f] = RemoveAt(@, i)]
  <1>a. /\ f \in live /\ g \in live /\ i \in 1..Len(ListOf[f]) /\ e = ListOf[f][i]
        /\ a = Seqs!Placed(d, g, e, FALSE) /\ b = Seqs!Placed(d, g, e, TRUE)
    BY DEF Moving
  <1>1. /\ Leaves(ls, live, ListOf) /\ live \in SUBSET LHead
        /\ ListOf \in [LHead -> Seq(LEntry)]
    BY InLInv
  <1>2. Leaves(Unlinked(ls, e), live, d) /\ Outside(d, live, e) /\ e \in LEntry
    BY <1>1, <1>a, TakeLeaves
  <1>3. g \in LHead /\ f \in LHead /\ i \in DOMAIN ListOf[f]
    BY <1>1, <1>a, RingPlaces
  <1>4. \A h \in LHead : d[h] = IF h = f THEN RemoveAt(ListOf[f], i) ELSE ListOf[h]
    BY <1>1, <1>3
  <1>5. d \in [LHead -> Seq(LEntry)]
    BY <1>2, RingIs DEF Leaves
  <1>6. /\ \A s, n, x : Seqs!InsertAt(s, n, x) = InsertAt(s, n, x)
        /\ \A s, n : Seqs!RemoveAt(s, n) = RemoveAt(s, n)
    BY DEF Seqs!InsertAt, InsertAt, Seqs!RemoveAt, RemoveAt
  <1>7. ListOf' = a \/ ListOf' = b => Seqs!Move
    <2>1. d = [ListOf EXCEPT ![f] = Seqs!RemoveAt(@, i)]
      BY <1>6
    <2> HIDE DEF d
    <2>2. ASSUME NEW last \in BOOLEAN, ListOf' = Seqs!Placed(d, g, e, last)
          PROVE  Seqs!Move
      <3>1. ListOf' = Seqs!Placed([ListOf EXCEPT ![f] = Seqs!RemoveAt(@, i)], g,
                                  ListOf[f][i], last)
        BY <1>a, <2>1, <2>2
      <3> QED
        BY <1>3, <3>1, Zenon DEF Seqs!Move
    <2> QED
      BY <1>a, <2>2
  <1> HIDE DEF d
  <1>8. /\ a = [d EXCEPT ![g] = InsertAt(@, 1, e)]
        /\ b = [d EXCEPT ![g] = InsertAt(@, Len(d[g]) + 1, e)]
    BY <1>a, <1>6 DEF Seqs!Placed
  <1>9. /\ Leaves(ListAdd(Unlinked(ls, e), e, g), live, a)
        /\ Leaves(ListAddTail(Unlinked(ls, e), e, g), live, b)
    <2>1. PICK u : u = Unlinked(ls, e)
      OBVIOUS
    <2>2. Leaves(u, live, d) /\ Outside(d, live, e) /\ e \in LEntry /\ g \in live
      BY <1>2, <1>a, <2>1
    <2>3. /\ Leaves(ListAdd(u, e, g), live, [d EXCEPT ![g] = InsertAt(@, 1, e)])
          /\ Leaves(ListAddTail(u, e, g), live,
                    [d EXCEPT ![g] = InsertAt(@, Len(d[g]) + 1, e)])
      BY <2>2, EnterLeaves
    <2> QED
      BY <1>8, <2>1, <2>3, Zenon
  <1>10. \A h \in LHead : h # g =>
           /\ a[h] = IF h = f THEN RemoveAt(ListOf[f], i) ELSE ListOf[h]
           /\ b[h] = IF h = f THEN RemoveAt(ListOf[f], i) ELSE ListOf[h]
    BY <1>3, <1>4, <1>5, <1>8
  <1> QED
    BY <1>7, <1>9, <1>10

LEMMA LMoveKeeps ==
  ASSUME LInv, NEW g \in live, NEW e \in LEntry, LMove(e, g) \/ LMoveTail(e, g)
  PROVE  LInv' /\ Seqs!Move
  <1>1. /\ e \in Members /\ (it = NoWalk \/ it.pos = e) /\ live' = live /\ UNCHANGED it
        /\ g # it.head
        /\ ls' = ListAdd(Unlinked(ls, e), e, g)
             \/ ls' = ListAddTail(Unlinked(ls, e), e, g)
    BY DEF LMove, LMoveTail, TakeOut
  <1>2. \A x \in Members : \E h \in live : \E i \in 1..Len(ListOf[h]) : x = ListOf[h][i]
    BY InLInv
  <1>3. PICK f \in live : \E i \in 1..Len(ListOf[f]) : e = ListOf[f][i]
    BY <1>1, <1>2
  <1>4. PICK i \in 1..Len(ListOf[f]) : e = ListOf[f][i]
    BY <1>3
  <1>5. PICK a, b : Moving(f, i, e, g, a, b)
    BY <1>4 DEF Moving
  <1>6. /\ Leaves(ListAdd(Unlinked(ls, e), e, g), live, a)
        /\ Leaves(ListAddTail(Unlinked(ls, e), e, g), live, b)
        /\ ListOf' = a \/ ListOf' = b => Seqs!Move
        /\ \A h \in LHead : h # g =>
             /\ a[h] = IF h = f THEN RemoveAt(ListOf[f], i) ELSE ListOf[h]
             /\ b[h] = IF h = f THEN RemoveAt(ListOf[f], i) ELSE ListOf[h]
    BY <1>5, MoveLeaves
  <1>7. PICK q : q \in {a, b} /\ Leaves(ls', live, q)
    BY <1>1, <1>6
  <1>8. \A h \in LHead : it # NoWalk /\ h = it.head =>
          q[h] = IF h = f THEN RemoveAt(ListOf[f], i) ELSE ListOf[h]
    BY <1>1, <1>6, <1>7
  <1>9. it' = NoWalk \/ (it'.head \in live /\ InWalk(it', q[it'.head]))
    BY <1>1, <1>4, <1>8, WalkKept
  <1>10. LInv' /\ ListOf' = q
    BY <1>1, <1>7, <1>9, LBecoming
  <1> QED
    BY <1>6, <1>7, <1>10

(* list_rotate_left.                                                       *)
LEMMA RotateLeftKeeps ==
  ASSUME LInv, NEW h \in live, RotateLeft(h)
  PROVE  LInv' /\ Seqs!Move
  <1>0. PICK f : f = ls.next[h]
    OBVIOUS
  <1>1. ~Empty(ls, h) /\ Step(ListAddTail(Unlinked(ls, f), f, h), live)
    BY <1>0 DEF RotateLeft
  <1>2. LShape(ls, live, ListOf) /\ live \in SUBSET LHead
    BY InLInv
  <1>3. PICK i : i = 1
    OBVIOUS
  <1>4. i \in 1..Len(ListOf[h]) /\ f = ListOf[h][i]
    <2>1. /\ ls.next[h] = h <=> ListOf[h] = <<>>
          /\ ListOf[h] # <<>> => /\ 1 \in 1..Len(ListOf[h]) /\ ls.next[h] = ListOf[h][1]
      BY <1>2, RingEnds
    <2> QED
      BY <1>0, <1>1, <1>3, <2>1 DEF Empty
  <1>5. PICK a, b : Moving(h, i, f, h, a, b)
    BY <1>4 DEF Moving
  <1>6. /\ Leaves(ListAddTail(Unlinked(ls, f), f, h), live, b)
        /\ ListOf' = a \/ ListOf' = b => Seqs!Move
    BY <1>5, MoveLeaves
  <1>7. LInv' /\ ListOf' = b
    BY <1>1, <1>6, StepBecomes
  <1> QED
    BY <1>6, <1>7

(* An entry takes the place of another.                                    *)
LEMMA Exchanged ==
  ASSUME NEW S, NEW s \in Seq(S), NEW i \in 1..Len(s), NEW x \in S
  PROVE  /\ InsertAt(RemoveAt(s, i), i, x) = ReplaceAt(s, i, x)
         /\ RemoveAt(s, i) \in Seq(S) /\ i \in 1..(Len(RemoveAt(s, i)) + 1)
  <1> DEFINE r == RemoveAt(s, i)
             t == InsertAt(r, i, x)
             a == ReplaceAt(s, i, x)
             n == Len(s)
  <1>1. n \in Nat /\ DOMAIN s = 1..n /\ s \in [1..n -> S]
    BY LenProperties
  <1>2. WithoutOne(r, S, s, i)
    BY Removed
  <1>3. /\ r \in Seq(S) /\ Len(r) = n - 1
        /\ \A j \in 1..(n - 1) : r[j] = IF j < i THEN s[j] ELSE s[j + 1]
    BY <1>2 DEF WithoutOne
  <1> HIDE DEF r
  <1>4. i \in 1..(Len(r) + 1) /\ Len(r) + 1 = n
    BY <1>1, <1>3
  <1>5. WithOne(t, S, r, i, x)
    BY <1>3, <1>4, Inserted
  <1>6. /\ t \in Seq(S) /\ Len(t) = n
        /\ \A j \in 1..n : t[j] = IF j < i THEN r[j] ELSE IF j = i THEN x ELSE r[j - 1]
    BY <1>4, <1>5 DEF WithOne
  <1>7. /\ a \in [1..n -> S] /\ \A j \in 1..n : a[j] = IF j = i THEN x ELSE s[j]
    BY <1>1 DEF ReplaceAt
  <1>8. a \in Seq(S) /\ Len(a) = n
    BY <1>1, <1>7, IsASeq, LenProperties
  <1> HIDE DEF t, a, n
  <1>9. ASSUME NEW j \in 1..n PROVE t[j] = a[j]
    <2>0. i \in 1..n /\ j \in Int
      BY <1>4 DEF n
    <2>1. CASE j < i
      <3>1. j \in 1..(n - 1) /\ j # i
        BY <1>1, <2>0, <2>1
      <3> QED
        BY <1>3, <1>6, <1>7, <2>1, <3>1
    <2>2. CASE j = i
      <3>1. ~(j < i)
        BY <2>0, <2>2
      <3> QED
        BY <1>6, <1>7, <2>2, <3>1
    <2>3. CASE i < j
      <3>1. j - 1 \in 1..(n - 1) /\ ~(j - 1 < i) /\ j # i /\ ~(j < i) /\ j - 1 + 1 = j
        BY <1>1, <2>0, <2>3
      <3> QED
        BY <1>3, <1>6, <1>7, <3>1
    <2> QED
      BY <2>0, <2>1, <2>2, <2>3
  <1>10. t = a
    BY <1>6, <1>8, <1>9, SeqEqual
  <1> QED
    BY <1>3, <1>4, <1>10 DEF r, t, a

(* __list_replace is a removal and an entry of the other in its place.     *)
LEMMA ReplacedIs ==
  ASSUME NEW l, NEW H, NEW c, NEW h, NEW i, NEW e, Taking(l, H, c, h, i, e),
         NEW f \in LEntry, Outside(c, H, f)
  PROVE  Replaced(l, e, f) = AddBetween(Unlinked(l, e), f, l.prev[e], l.next[e])
  <1> DEFINE p == l.prev[e]
             n == l.next[e]
             u == Unlinked(l, e)
             k == AddBetween(u, f, p, n)
             r == Replaced(l, e, f)
  <1>1. /\ l \in Links2 /\ H \in SUBSET LHead /\ LShape(l, H, c) /\ h \in H
        /\ i \in 1..Len(c[h]) /\ e = c[h][i]
    BY DEF Taking
  <1>2. /\ Joined(u, l, Place(h, c[h], i - 1), Place(h, c[h], i + 1))
        /\ n = Place(h, c[h], i + 1) /\ p = Place(h, c[h], i - 1)
        /\ e \in LEntry /\ n # e /\ p # e /\ n \in Node /\ p \in Node
    <2> HIDE DEF u, p, n, k, r
    <2>1. /\ Joined(Unlinked(l, e), l, Place(h, c[h], i - 1), Place(h, c[h], i + 1))
          /\ l.next[e] = Place(h, c[h], i + 1) /\ l.prev[e] = Place(h, c[h], i - 1)
          /\ e \in LEntry /\ l.next[e] # e /\ l.prev[e] # e
          /\ l.next[e] \in Node /\ l.prev[e] \in Node
      <3>1. Beside(l, c, h, i, e)
        BY <1>1, EntryLeaves
      <3> QED
        BY <3>1 DEF Beside
    <2> QED
      BY <2>1 DEF u, p, n
  <1>3. f # e /\ f # p /\ f # n /\ f \in Node /\ e \in Node
    <2>1. h \in LHead /\ c \in [LHead -> Seq(LEntry)]
      BY <1>1, RingIs
    <2>2. \A j \in 1..Len(c[h]) : c[h][j] # f
      BY <1>1, <2>1, OutsideIs
    <2>3. /\ \A j \in Int :
              Place(h, c[h], j) = IF j \in 1..Len(c[h]) THEN c[h][j] ELSE h
          /\ Len(c[h]) \in Nat
      BY <2>1, RingPlaces
    <2>4. i - 1 \in Int /\ i + 1 \in Int /\ i \in 1..Len(c[h])
      BY <1>1, <2>3
    <2>5. f # h
      BY <2>1, LAssumption
    <2>6. f # e
      BY <1>1, <2>2
    <2>7. \A j \in Int : Place(h, c[h], j) # f
      BY <2>2, <2>3, <2>5
    <2>8. f # p /\ f # n
      BY <1>2, <2>4, <2>7
    <2> QED
      BY <1>2, <2>6, <2>8 DEF Node
  <1> HIDE DEF u, p, n
  <1>4. /\ u \in Links2
        /\ \A z \in Node : /\ u.next[z] = IF z = p THEN n ELSE l.next[z]
                           /\ u.prev[z] = IF z = n THEN p ELSE l.prev[z]
    BY <1>2 DEF Joined
  <1>5. Added(k, u, f, p, n)
    BY <1>2, <1>3, <1>4, AddIs
  <1> HIDE DEF k
  <1>6. /\ k \in Links2
        /\ \A z \in Node :
              /\ k.next[z] = IF z = f THEN n ELSE IF z = p THEN f ELSE l.next[z]
              /\ k.prev[z] = IF z = f THEN p ELSE IF z = n THEN f ELSE l.prev[z]
    BY <1>4, <1>5 DEF Added
  <1>7. l.next \in [Node -> Node \cup {Poison}]
          /\ l.prev \in [Node -> Node \cup {Poison}]
    BY <1>1 DEF Links2
  <1>8. r = [next |-> [l.next EXCEPT ![f] = n, ![p] = f],
             prev |-> [l.prev EXCEPT ![n] = f, ![f] = p]]
    <2> DEFINE a == [l EXCEPT !.next[f] = n, !.prev[n] = f]
    <2>1. r = [a EXCEPT !.prev[f] = a.prev[e], !.next[a.prev[e]] = f]
      <3> HIDE DEF a
      <3> QED
        BY DEF r, Replaced, n, a
    <2>b. a = [l EXCEPT !.next[f] = n, !.prev[n] = f]
      OBVIOUS
    <2> HIDE DEF a
    <2>2. a = [next |-> [l.next EXCEPT ![f] = n], prev |-> [l.prev EXCEPT ![n] = f]]
      BY <1>1, <2>b DEF Links2
    <2>3. a.prev[e] = p
      <3>1. a.prev = [l.prev EXCEPT ![n] = f]
        BY <2>2
      <3> QED
        BY <1>2, <1>3, <1>7, <3>1 DEF p
    <2>4. r = [a EXCEPT !.prev[f] = p, !.next[p] = f]
      BY <2>1, <2>3
    <2> HIDE DEF r
    <2> QED
      BY <2>2, <2>4
  <1> HIDE DEF r
  <1>9. r \in Links2
    <2>1. [l.next EXCEPT ![f] = n, ![p] = f] \in [Node -> Node \cup {Poison}]
      BY <1>2, <1>3, <1>7
    <2>2. [l.prev EXCEPT ![n] = f, ![f] = p] \in [Node -> Node \cup {Poison}]
      BY <1>2, <1>3, <1>7
    <2> QED
      BY <1>8, <2>1, <2>2 DEF Links2
  <1>10. ASSUME NEW z \in Node PROVE r.next[z] = k.next[z] /\ r.prev[z] = k.prev[z]
    <2>1. /\ r.next = [l.next EXCEPT ![f] = n, ![p] = f]
          /\ r.prev = [l.prev EXCEPT ![n] = f, ![f] = p]
      BY <1>8
    <2> QED
      BY <1>2, <1>3, <1>6, <1>7, <2>1
  <1>11. r = k
    BY <1>6, <1>9, <1>10, SameLinks
  <1> QED
    BY <1>11 DEF r, k, u, p, n

(* list_replace and list_replace_init, on an entry.                        *)
LEMMA ReplaceEntryKeeps ==
  ASSUME LInv, NEW e \in LEntry, NEW f \in LEntry, NEW init \in BOOLEAN,
         ReplaceEntry(e, f, init)
  PROVE  LInv' /\ Seqs!Exchange
  <1>1. /\ Leaves(ls, live, ListOf) /\ live \in SUBSET LHead /\ ls \in Links2
        /\ LShape(ls, live, ListOf) /\ ListOf \in [LHead -> Seq(LEntry)]
        /\ \A x : x \notin Members <=> Outside(ListOf, live, x)
        /\ \A x \in Members : \E h \in live : \E i \in 1..Len(ListOf[h]) :
             x = ListOf[h][i]
        /\ \A g \in LHead \ live : ListOf[g] = <<>>
    BY InLInv
  <1>2. PICK r : r = Replaced(ls, e, f)
    OBVIOUS
  <1>3. e \in Members /\ f \notin Members
          /\ Step(IF init THEN InitHead(r, e) ELSE r, live)
    BY <1>2 DEF ReplaceEntry
  <1>4. PICK h \in live : \E i \in 1..Len(ListOf[h]) : e = ListOf[h][i]
    BY <1>1, <1>3
  <1>5. PICK i \in 1..Len(ListOf[h]) : e = ListOf[h][i]
    BY <1>4
  <1>6. Outside(ListOf, live, f)
    BY <1>1, <1>3
  <1> DEFINE s == ListOf[h]
             t == RemoveAt(s, i)
             d == [ListOf EXCEPT ![h] = t]
             b == [d EXCEPT ![h] = InsertAt(@, i, f)]
             u == Unlinked(ls, e)
             p == ls.prev[e]
             n == ls.next[e]
  <1>7. Taking(ls, live, ListOf, h, i, e)
    BY <1>1, <1>5 DEF Taking
  <1>8. r = AddBetween(u, f, p, n)
    BY <1>2, <1>6, <1>7, ReplacedIs
  <1>9. Leaves(u, live, d) /\ Outside(d, live, e)
    BY <1>1, <1>5, TakeLeaves
  <1>10. n = Place(h, s, i + 1) /\ p = Place(h, s, i - 1)
    <2> HIDE DEF u, p, n, s, t, d, b
    <2>1. ls.next[e] = Place(h, ListOf[h], i + 1)
            /\ ls.prev[e] = Place(h, ListOf[h], i - 1)
      <3>1. Beside(ls, ListOf, h, i, e)
        BY <1>5, <1>7, EntryLeaves
      <3> QED
        BY <3>1 DEF Beside
    <2> QED
      BY <2>1 DEF s, p, n
  <1>11. h \in LHead /\ s \in Seq(LEntry) /\ i \in 1..Len(s)
    BY <1>1, <1>5
  <1>12. WithoutOne(t, LEntry, s, i)
    BY <1>11, Removed
  <1>13. RemovedAt(t, h, s, i)
    BY <1>11, <1>12, PlaceRemoved
  <1>14. /\ t \in Seq(LEntry) /\ Len(t) = Len(s) - 1 /\ Len(s) \in Nat
         /\ \A j \in 1..(Len(s) - 1) : t[j] = IF j < i THEN s[j] ELSE s[j + 1]
    BY <1>12 DEF WithoutOne
  <1>15. InsertAt(t, i, f) = ReplaceAt(s, i, f) /\ i \in 1..(Len(t) + 1)
    BY <1>11, Exchanged
  <1> HIDE DEF t
  <1>16. d[h] = t /\ d \in [LHead -> Seq(LEntry)]
           /\ \A g \in LHead : g # h => d[g] = ListOf[g]
    BY <1>1, <1>11, <1>14
  <1> HIDE DEF d
  <1>17. Outside(d, live, f)
    <2>1. \A g \in live : \A j \in 1..Len(ListOf[g]) : ListOf[g][j] # f
      BY <1>1, <1>6, OutsideIs
    <2>2. ASSUME NEW g \in live, NEW j \in 1..Len(d[g]) PROVE d[g][j] # f
      <3>1. CASE g = h
        <4>1. j \in 1..(Len(s) - 1) /\ j \in 1..Len(s) /\ j + 1 \in 1..Len(s)
          BY <1>14, <1>16, <3>1
        <4>2. s[j] # f /\ s[j + 1] # f
          BY <2>1, <4>1
        <4> QED
          BY <1>14, <1>16, <3>1, <4>1, <4>2
      <3>2. CASE g # h
        <4>1. d[g] = ListOf[g]
          BY <1>1, <1>16, <3>2
        <4> QED
          BY <2>1, <4>1
      <3> QED
        BY <3>1, <3>2
    <2> QED
      BY <1>1, <1>16, <2>2, OutsideIs
  <1>18. Adding(u, live, d, h, i, f, p, n)
    <2>1. i - 1 \in Int /\ i \in Int /\ i - 1 < i /\ ~(i < i)
      BY <1>11, <1>14
    <2>2. Place(h, t, i - 1) = Place(h, s, i - 1) /\ Place(h, t, i) = Place(h, s, i + 1)
      BY <1>13, <2>1 DEF RemovedAt
    <2>3. u \in Links2 /\ LShape(u, live, d)
      BY <1>9 DEF Leaves
    <2> HIDE DEF u, p, n, s
    <2> QED
      BY <1>1, <1>10, <1>15, <1>16, <1>17, <2>2, <2>3 DEF Adding
  <1>19. b = [ListOf EXCEPT ![h] = ReplaceAt(ListOf[h], i, f)]
    BY <1>1, <1>11, <1>15, <1>16 DEF d
  <1>20. Leaves(r, live, b)
    <2> HIDE DEF u, p, n
    <2>1. Leaves(AddBetween(u, f, p, n), live, [d EXCEPT ![h] = InsertAt(@, i, f)])
      BY <1>9, <1>18, EnterLeavesAt
    <2> QED
      BY <1>8, <2>1
  <1>21. Outside(b, live, e)
    <2> HIDE DEF u, p, n, s
    <2>1. \A g \in live : \A j \in 1..Len(d[g]) : d[g][j] # e
      BY <1>1, <1>9, <1>16, OutsideIs, SMTT(30)
    <2>2. b[h] = InsertAt(t, i, f) /\ \A g \in LHead : g # h => b[g] = d[g]
      BY <1>11, <1>16
    <2>3. WithOne(b[h], LEntry, t, i, f)
      BY <1>14, <1>15, <2>2, Inserted
    <2>4. /\ b[h] \in Seq(LEntry) /\ Len(b[h]) = Len(t) + 1 /\ Len(t) \in Nat
          /\ \A j \in 1..(Len(t) + 1) : b[h][j] = IF j < i THEN t[j] ELSE
                                                 IF j = i THEN f ELSE t[j - 1]
      BY <2>3 DEF WithOne
    <2>5. b \in [LHead -> Seq(LEntry)]
      BY <1>16, <2>4
    <2>6. e # f
      BY <1>3
    <2> HIDE DEF b
    <2>7. ASSUME NEW g \in live, NEW j \in 1..Len(b[g]) PROVE b[g][j] # e
      <3>1. CASE g = h
        <4>1. \A q \in 1..Len(t) : t[q] # e
          BY <1>16, <2>1
        <4>2. j \in 1..(Len(t) + 1) /\ i \in 1..(Len(t) + 1) /\ Len(t) \in Nat
                /\ j \in Int
          BY <1>15, <2>4, <3>1
        <4>3. j < i => j \in 1..Len(t)
          BY <4>2
        <4>4. ~(j < i) /\ j # i => j - 1 \in 1..Len(t)
          BY <4>2
        <4> QED
          BY <2>4, <2>6, <3>1, <4>1, <4>2, <4>3, <4>4
      <3>2. CASE g # h
        <4>1. b[g] = d[g]
          BY <1>1, <2>2, <3>2
        <4> QED
          BY <2>1, <4>1
      <3> QED
        BY <3>1, <3>2
    <2> QED
      BY <1>1, <2>5, <2>7, OutsideIs
  <1> HIDE DEF b
  <1>22. Leaves(IF init THEN InitHead(r, e) ELSE r, live, b)
    <2>1. Leaves(InitHead(r, e), live, b)
      BY <1>20, <1>21, OffLeaves
    <2> QED
      BY <1>20, <2>1
  <1>23. LInv' /\ ListOf' = b
    BY <1>3, <1>22, StepBecomes
  <1>24. f \in LEntry \ Seqs!Linked /\ h \in LHead /\ i \in DOMAIN ListOf[h]
    <2>1. ToSet(<<>>) = {}
      BY DEF ToSet
    <2>2. Seqs!Linked = Members
      BY <1>1, <2>1 DEF Seqs!Linked, Members, Seqs!ToSet, ToSet
    <2>3. i \in DOMAIN ListOf[h]
      BY <1>1, <1>11, RingPlaces
    <2> QED
      BY <1>3, <1>11, <2>2, <2>3
  <1>25. Seqs!Exchange
    BY <1>19, <1>23, <1>24, Zenon DEF Seqs!Exchange, Seqs!ReplaceAt, ReplaceAt
  <1> QED
    BY <1>23, <1>25

(* The first i entries of h have become the list of g.                     *)
CutInto(c, h, g, i) == [c EXCEPT ![g] = SubSeq(c[h], 1, i),
                                 ![h] = SubSeq(c[h], i + 1, Len(c[h]))]

LEMMA CutLeaves ==
  ASSUME NEW l, NEW H, NEW c, Leaves(l, H, c), NEW h \in H, NEW g \in LHead, g # h,
         NEW i \in 1..Len(c[h]), NEW e, e = c[h][i]
  PROVE  Leaves(CutAt(l, g, h, e), H \cup {g}, CutInto(c, h, g, i))
  <1>1. /\ l \in Links2 /\ H \in SUBSET LHead /\ LShape(l, H, c) /\ SelfBoth(l)
        /\ \A x \in LHead \ H : c[x] = <<>>
    BY DEF Leaves
  <1>2. c \in [LHead -> Seq(LEntry)] /\ h \in LHead
    BY <1>1, RingIs
  <1>3. Cutting(l, H, c, h, g, i, e)
    BY <1>1 DEF Cutting
  <1>4. /\ CutAt(l, g, h, e) \in Links2
        /\ LShape(CutAt(l, g, h, e), H \cup {g}, CutInto(c, h, g, i))
        /\ SelfBoth(CutAt(l, g, h, e))
    BY <1>1, <1>3, CutAtIs DEF CutInto
  <1>5. \A x \in LHead \ (H \cup {g}) : CutInto(c, h, g, i)[x] = <<>>
    BY <1>1, <1>2 DEF CutInto
  <1> QED
    BY <1>1, <1>4, <1>5 DEF Leaves

LEMMA CutsAs ==
  ASSUME ListOf \in [LHead -> Seq(LEntry)], NEW h \in LHead, NEW g \in LHead, g # h,
         NEW i \in 0..Len(ListOf[h]), ListOf' = CutInto(ListOf, h, g, i)
  PROVE  Seqs!Cut
  <1>1. ListOf' = [ListOf EXCEPT ![g] = SubSeq(ListOf[h], 1, i),
                                 ![h] = SubSeq(@, i + 1, Len(@))]
    BY DEF CutInto
  <1> QED
    BY <1>1, Zenon DEF Seqs!Cut

(* list_cut_position.                                                      *)
LEMMA CutKeeps ==
  ASSUME LInv, NEW g \in live, NEW h \in live, NEW e \in Node, Cut(g, h, e)
  PROVE  LInv' /\ (Seqs!Cut \/ Seqs!Clear \/ ListOf' = ListOf)
  <1>1. /\ Leaves(ls, live, ListOf) /\ live \in SUBSET LHead
        /\ ListOf \in [LHead -> Seq(LEntry)]
    BY InLInv
  <1>2. /\ g # h /\ e \in ToSet(ListOf[h]) \cup {h}
             /\ Step(CutPosition(ls, g, h, e), live)
        /\ g \in LHead /\ h \in LHead /\ live \cup {g} = live
    BY <1>1 DEF Cut
  <1>3. CASE CutPosition(ls, g, h, e) = ls
    BY <1>1, <1>2, <1>3, StepBecomes
  <1>4. CASE CutPosition(ls, g, h, e) = InitHead(ls, g)
    <2>1. Leaves(InitHead(ls, g), live \cup {g}, [ListOf EXCEPT ![g] = <<>>])
      BY <1>1, <1>2, ClearLeaves
    <2>2. LInv' /\ ListOf' = [ListOf EXCEPT ![g] = <<>>]
      BY <1>2, <1>4, <2>1, StepBecomes
    <2> QED
      BY <1>2, <2>2 DEF Seqs!Clear
  <1>5. CASE CutPosition(ls, g, h, e) = CutAt(ls, g, h, e) /\ e # h
    <2>1. PICK i \in 1..Len(ListOf[h]) : e = ListOf[h][i]
      <3>1. DOMAIN ListOf[h] = 1..Len(ListOf[h])
        BY <1>1, <1>2, RingPlaces
      <3> QED
        BY <1>2, <1>5, <3>1 DEF ToSet
    <2>2. Leaves(CutAt(ls, g, h, e), live \cup {g}, CutInto(ListOf, h, g, i))
      BY <1>1, <1>2, <2>1, CutLeaves
    <2>3. LInv' /\ ListOf' = CutInto(ListOf, h, g, i)
      BY <1>2, <1>5, <2>2, StepBecomes
    <2>4. i \in 0..Len(ListOf[h])
      BY <2>1
    <2>5. Seqs!Cut
      BY <1>1, <1>2, <2>3, <2>4, CutsAs
    <2> QED
      BY <2>3, <2>5
  <1>6. \/ CutPosition(ls, g, h, e) = ls
        \/ CutPosition(ls, g, h, e) = InitHead(ls, g)
        \/ CutPosition(ls, g, h, e) = CutAt(ls, g, h, e) /\ e # h
    BY DEF CutPosition
  <1> QED
    BY <1>3, <1>4, <1>5, <1>6

(* list_splice, list_splice_tail and the same with init.                   *)
LEMMA SpliceKeeps ==
  ASSUME LInv, NEW t \in live, NEW h \in live, NEW tail \in BOOLEAN,
           NEW init \in BOOLEAN,
         Splice(t, h, tail, init)
  PROVE  LInv' /\ (Seqs!Splice \/ ListOf' = ListOf)
  <1>1. /\ Leaves(ls, live, ListOf) /\ live \in SUBSET LHead /\ LShape(ls, live, ListOf)
        /\ ListOf \in [LHead -> Seq(LEntry)] /\ ls \in Links2 /\ SelfBoth(ls)
        /\ \A x \in LHead \ live : ListOf[x] = <<>>
    BY InLInv
  <1>2. t # h /\ t \in LHead /\ h \in LHead
    BY <1>1 DEF Splice
  <1>3. CASE Empty(ls, t)
    <2>1. Step(ls, live)
      BY <1>3 DEF Splice
    <2> QED
      BY <1>1, <2>1, StepBecomes
  <1>4. CASE ~Empty(ls, t)
    <2> DEFINE s == ListOf[h]
               u == ListOf[t]
    <2>1. PICK k : k = IF tail THEN SpliceBetween(ls, t, ls.prev[h], h)
                       ELSE SpliceBetween(ls, t, h, ls.next[h])
      OBVIOUS
    <2>2. IF init THEN Step(InitHead(k, t), live) ELSE Step(k, live \ {t})
      BY <1>4, <2>1 DEF Splice
    <2>3. u # <<>>
      <3>1. ls.next[t] = t <=> ListOf[t] = <<>>
        BY <1>1, RingEnds
      <3> QED
        BY <1>4, <3>1 DEF Empty
    <2>4. /\ Place(h, s, 0) = h /\ Place(h, s, Len(s) + 1) = h /\ Len(s) \in Nat
          /\ ls.next[h] = Place(h, s, 1) /\ ls.prev[h] = Place(h, s, Len(s))
      BY <1>1, RingEnds
    <2>5. /\ Spliced(u \o s, s, u, 0) /\ Spliced(s \o u, s, u, Len(s))
          /\ 0 \in 0..Len(s) /\ Len(s) \in 0..Len(s)
      BY <1>1, <1>2, SplicedEnds
    <2> HIDE DEF s, u
    <2>6. PICK q, i, p, n : /\ q \in {u \o s, s \o u} /\ Spliced(q, s, u, i)
                            /\ Splicing(ls, live, ListOf, h, t, i, p, n)
                            /\ k = SpliceBetween(ls, t, p, n)
      <3>1. CASE tail
        <4>1. PICK i : i = Len(s)
          OBVIOUS
        <4>2. Place(h, s, i + 1) = h /\ Place(h, s, i) = ls.prev[h] /\ i \in 0..Len(s)
          BY <2>4, <2>5, <4>1
        <4>3. Splicing(ls, live, ListOf, h, t, i, ls.prev[h], h)
          BY <1>1, <1>2, <2>3, <4>2 DEF Splicing, s, u
        <4>4. k = SpliceBetween(ls, t, ls.prev[h], h) /\ Spliced(s \o u, s, u, i)
          BY <2>1, <2>5, <3>1, <4>1
        <4> QED
          BY <4>3, <4>4
      <3>2. CASE ~tail
        <4>1. PICK i : i = 0
          OBVIOUS
        <4>2. i + 1 = 1
          BY <4>1
        <4>3. Place(h, s, i + 1) = ls.next[h] /\ Place(h, s, i) = h /\ i \in 0..Len(s)
          BY <2>4, <2>5, <4>1, <4>2
        <4>4. Splicing(ls, live, ListOf, h, t, i, h, ls.next[h])
          BY <1>1, <1>2, <2>3, <4>3 DEF Splicing, s, u
        <4>5. k = SpliceBetween(ls, t, h, ls.next[h]) /\ Spliced(u \o s, s, u, i)
          BY <2>1, <2>5, <3>2, <4>1
        <4> QED
          BY <4>4, <4>5
      <3> QED
        BY <3>1, <3>2
    <2>7. PICK d : d = [ListOf EXCEPT ![h] = q, ![t] = <<>>]
      OBVIOUS
    <2>8. LShape(k, live \ {t}, d) /\ k \in Links2 /\ SelfBoth(k)
      <3>1. Splicing(ls, live, ListOf, h, t, i, p, n)
              /\ Spliced(q, ListOf[h], ListOf[t], i)
        BY <2>6 DEF s, u
      <3>2. /\ SpliceBetween(ls, t, p, n) \in Links2
            /\ LShape(SpliceBetween(ls, t, p, n), live \ {t},
                      [ListOf EXCEPT ![h] = q, ![t] = <<>>])
            /\ SelfBoth(SpliceBetween(ls, t, p, n))
        BY <1>1, <3>1, SpliceIs
      <3> QED
        BY <2>6, <2>7, <3>2
    <2>9. d \in [LHead -> Seq(LEntry)] /\ d[t] = <<>>
            /\ \A x \in LHead \ live : d[x] = <<>>
      <3>1. d \in [LHead -> Seq(LEntry)]
        BY <1>1, <2>8, RingIs
      <3> QED
        BY <1>1, <1>2, <2>7, <3>1
    <2>10. Leaves(k, live \ {t}, d)
      BY <1>1, <2>8, <2>9 DEF Leaves
    <2>11. Leaves(InitHead(k, t), live, d)
      <3>1. Leaves(InitHead(k, t), (live \ {t}) \cup {t}, [d EXCEPT ![t] = <<>>])
        BY <1>2, <2>10, ClearLeaves
      <3>2. (live \ {t}) \cup {t} = live /\ [d EXCEPT ![t] = <<>>] = d
        BY <1>2, <2>9
      <3> QED
        BY <3>1, <3>2
    <2>12. LInv' /\ ListOf' = d
      BY <2>2, <2>10, <2>11, StepBecomes
    <2>13. Seqs!Splice
      <3>1. q \in {ListOf[t] \o ListOf[h], ListOf[h] \o ListOf[t]}
        BY <2>6 DEF s, u
      <3>2. ListOf' = [ListOf EXCEPT ![h] = q, ![t] = <<>>]
        BY <2>7, <2>12
      <3> QED
        BY <1>2, <3>1, <3>2, Zenon DEF Seqs!Splice
    <2> QED
      BY <2>12, <2>13
  <1> QED
    BY <1>3, <1>4

(* list_replace_init, on a head.                                           *)
LEMMA ReplaceHeadKeeps ==
  ASSUME LInv, NEW h \in live, NEW g \in LHead, ReplaceHead(h, g)
  PROVE  LInv' /\ (Seqs!Cut \/ Seqs!Clear)
  <1>1. /\ Leaves(ls, live, ListOf) /\ live \in SUBSET LHead /\ LShape(ls, live, ListOf)
        /\ ListOf \in [LHead -> Seq(LEntry)] /\ ls \in Links2
    BY InLInv
  <1> DEFINE s == ListOf[h]
             p == ls.prev[h]
             n == ls.next[h]
             r == Replaced(ls, h, g)
             k == InitHead(r, h)
  <1>2. h # g /\ Step(k, live \cup {g}) /\ h \in LHead /\ h \in Node /\ g \in Node
    BY <1>1 DEF ReplaceHead, Node
  <1>3. /\ n = h <=> s = <<>>
        /\ s # <<>> => /\ 1 \in 1..Len(s) /\ n = s[1]
                       /\ Len(s) \in 1..Len(s) /\ p = s[Len(s)]
        /\ p \in Node /\ n \in Node /\ Len(s) \in Nat
        /\ Place(h, s, Len(s) + 1) = h /\ n = Place(h, s, 1) /\ p = Place(h, s, Len(s))
    BY <1>1, RingEnds
  <1>4. ls.next \in [Node -> Node \cup {Poison}]
          /\ ls.prev \in [Node -> Node \cup {Poison}]
    BY <1>1 DEF Links2
  <1>5. \A i \in 1..Len(s) : s[i] \in LEntry
    BY <1>1, <1>2, RingPlaces
  <1>6. n # g /\ p # g /\ (s # <<>> => n # h /\ p # h) /\ (s = <<>> => n = h /\ p = h)
    <2>1. s = <<>> => p = h
      <3>1. s = <<>> => Len(s) \notin DOMAIN s
        OBVIOUS
      <3> QED
        BY <1>3, <3>1 DEF Place
    <2> HIDE DEF s, n, p
    <2> QED
      BY <1>2, <1>3, <1>5, <2>1, LAssumption
  <1>7. /\ r \in Links2
        /\ \A z \in Node :
             /\ z # h => r.next[z] = IF z = p \/ (s = <<>> /\ z = g) THEN g
                                     ELSE IF z = g THEN n ELSE ls.next[z]
             /\ z # h => r.prev[z] = IF z = g THEN (IF s = <<>> THEN g ELSE p)
                                     ELSE IF z = n THEN g ELSE ls.prev[z]
    <2>a. PICK a : a = [ls EXCEPT !.next[g] = n, !.prev[n] = g]
      OBVIOUS
    <2>b. PICK w : w = a.prev[h]
      OBVIOUS
    <2>1. r = [a EXCEPT !.prev[g] = w, !.next[w] = g]
      BY <2>a, <2>b DEF Replaced
    <2> HIDE DEF n, p, s
    <2>2. a = [next |-> [ls.next EXCEPT ![g] = n], prev |-> [ls.prev EXCEPT ![n] = g]]
      BY <1>1, <2>a DEF Links2
    <2>3. w = IF s = <<>> THEN g ELSE p
      <3>1. a.prev = [ls.prev EXCEPT ![n] = g]
        BY <2>2
      <3> QED
        BY <1>2, <1>3, <1>4, <1>6, <2>b, <3>1 DEF p
    <2> HIDE DEF r
    <2>4. r = [next |-> [ls.next EXCEPT ![g] = n, ![w] = g],
               prev |-> [ls.prev EXCEPT ![n] = g, ![g] = w]]
      BY <2>1, <2>2
    <2>5. w \in Node
      BY <1>2, <1>3, <2>3
    <2>6. r \in Links2
      <3>1. [ls.next EXCEPT ![g] = n, ![w] = g] \in [Node -> Node \cup {Poison}]
        BY <1>2, <1>3, <1>4, <2>5
      <3>2. [ls.prev EXCEPT ![n] = g, ![g] = w] \in [Node -> Node \cup {Poison}]
        BY <1>2, <1>3, <1>4, <2>5
      <3> QED
        BY <2>4, <3>1, <3>2 DEF Links2
    <2>7. ASSUME NEW z \in Node, z # h
          PROVE  /\ r.next[z] = IF z = p \/ (s = <<>> /\ z = g) THEN g
                                ELSE IF z = g THEN n ELSE ls.next[z]
                 /\ r.prev[z] = IF z = g THEN (IF s = <<>> THEN g ELSE p)
                                ELSE IF z = n THEN g ELSE ls.prev[z]
      <3>1. /\ r.next = [ls.next EXCEPT ![g] = n, ![w] = g]
            /\ r.prev = [ls.prev EXCEPT ![n] = g, ![g] = w]
        BY <2>4
      <3>2. /\ r.next[z] = IF z = w THEN g ELSE IF z = g THEN n ELSE ls.next[z]
            /\ r.prev[z] = IF z = g THEN w ELSE IF z = n THEN g ELSE ls.prev[z]
        BY <1>2, <1>3, <1>4, <2>5, <2>7, <3>1
      <3> QED
        BY <1>6, <2>3, <2>7, <3>2
    <2> QED
      BY <2>6, <2>7
  <1> HIDE DEF r
  <1>8. Reset(k, r, h)
    BY <1>2, <1>7, InitHeadIs
  <1> HIDE DEF k
  <1>9. /\ k \in Links2
        /\ \A z \in Node : /\ k.next[z] = IF z = h THEN h ELSE r.next[z]
                           /\ k.prev[z] = IF z = h THEN h ELSE r.prev[z]
    BY <1>8 DEF Reset
  <1>10. CASE s = <<>>
    <2>1. k = InitHead(ls, g)
      <3> DEFINE j == InitHead(ls, g)
      <3>1. Reset(j, ls, g)
        BY <1>1, <1>2, InitHeadIs
      <3> HIDE DEF j, n, p, s
      <3>2. \A z \in Node : k.next[z] = j.next[z] /\ k.prev[z] = j.prev[z]
        <4> SUFFICES ASSUME NEW z \in Node PROVE k.next[z] = j.next[z]
                              /\ k.prev[z] = j.prev[z]
          OBVIOUS
        <4>1. /\ j.next[z] = IF z = g THEN g ELSE ls.next[z]
              /\ j.prev[z] = IF z = g THEN g ELSE ls.prev[z]
          BY <3>1 DEF Reset
        <4>2. ls.next[h] = h /\ ls.prev[h] = h
          BY <1>6, <1>10 DEF n, p
        <4> QED
          BY <1>2, <1>6, <1>7, <1>9, <1>10, <4>1, <4>2
      <3>3. j \in Links2
        BY <3>1 DEF Reset
      <3>4. k = j
        BY <1>9, <3>2, <3>3, SameLinks
      <3> QED
        BY <3>4 DEF j
    <2>2. Leaves(k, live \cup {g}, [ListOf EXCEPT ![g] = <<>>])
      BY <1>1, <2>1, ClearLeaves
    <2>3. LInv' /\ ListOf' = [ListOf EXCEPT ![g] = <<>>]
      BY <1>2, <2>2, StepBecomes
    <2> QED
      BY <2>3 DEF Seqs!Clear
  <1>11. CASE s # <<>>
    <2>1. PICK i : i = Len(s)
      OBVIOUS
    <2>2. i \in 1..Len(ListOf[h]) /\ p = ListOf[h][i]
      BY <1>3, <1>11, <2>1
    <2> HIDE DEF s, n, p
    <2> DEFINE j == CutAt(ls, g, h, p)
    <2>3. Leaves(j, live \cup {g}, CutInto(ListOf, h, g, i))
      BY <1>1, <1>2, <2>2, CutLeaves
    <2>4. j \in Links2
      BY <2>3 DEF Leaves
    <2>5. ls.next[p] = h
      <3>1. Len(s) \in 0..Len(s)
        BY <1>3
      <3>2. ls.next[Place(h, s, Len(s))] = Place(h, s, Len(s) + 1)
        BY <1>1, <3>1 DEF LShape, Ring, s
      <3> QED
        BY <1>3, <3>2
    <2>6. j = [ls EXCEPT !.next[g] = n, !.prev[n] = g, !.prev[g] = p,
                         !.next[p] = g, !.next[h] = h, !.prev[h] = h]
      BY <2>5 DEF CutAt, n
    <2> HIDE DEF j
    <2>7. j = [next |-> [ls.next EXCEPT ![g] = n, ![p] = g, ![h] = h],
               prev |-> [ls.prev EXCEPT ![n] = g, ![g] = p, ![h] = h]]
      BY <1>1, <2>6 DEF Links2
    <2>8. ASSUME NEW z \in Node PROVE k.next[z] = j.next[z] /\ k.prev[z] = j.prev[z]
      <3>1. /\ j.next = [ls.next EXCEPT ![g] = n, ![p] = g, ![h] = h]
            /\ j.prev = [ls.prev EXCEPT ![n] = g, ![g] = p, ![h] = h]
        BY <2>7
      <3>2. /\ j.next[z] = IF z = h THEN h ELSE IF z = p THEN g ELSE
                           IF z = g THEN n ELSE ls.next[z]
            /\ j.prev[z] = IF z = h THEN h ELSE IF z = g THEN p ELSE
                           IF z = n THEN g ELSE ls.prev[z]
        BY <1>2, <1>3, <1>4, <3>1
      <3> QED
        BY <1>7, <1>9, <1>11, <3>2
    <2>9. k = j
      BY <1>9, <2>4, <2>8, SameLinks
    <2>10. LInv' /\ ListOf' = CutInto(ListOf, h, g, i)
      BY <1>2, <2>3, <2>9, StepBecomes
    <2>11. i \in 0..Len(ListOf[h])
      BY <2>2
    <2>12. Seqs!Cut
      BY <1>1, <1>2, <2>10, <2>11, CutsAs
    <2> QED
      BY <2>10, <2>12
  <1> QED
    BY <1>10, <1>11

(* The links that an iteration over the ring of h in direction w follows:  *)
(* d is what lies on its way.                                              *)
OneWay(link, h, d) ==
  /\ d \in Seq(LEntry) /\ Len(d) \in Nat /\ NoTwice(d)
  /\ \A i \in Int : /\ Place(h, d, i) = IF i \in 1..Len(d) THEN d[i] ELSE h
                    /\ Place(h, d, i) \in Node
  /\ \A i \in 0..Len(d) : link[Place(h, d, i)] = Place(h, d, i + 1)

LEMMA WayIs ==
  ASSUME NEW l, NEW H \in SUBSET LHead, NEW c, LShape(l, H, c), NEW h \in H,
         NEW w \in {"next", "prev"}
  PROVE  OneWay(Way(l, w), h, Onwards(w, c[h]))
  <1> DEFINE s == c[h]
             n == Len(s)
             r == Reverse(s)
  <1>0. /\ c \in [LHead -> Seq(LEntry)] /\ Apart(c, H) /\ Ring(l, h, s) /\ h \in LHead
        /\ h \in Node
    BY RingIs DEF Node
  <1>1. \A i \in 0..n : /\ l.next[Place(h, s, i)] = Place(h, s, i + 1)
                        /\ l.prev[Place(h, s, i + 1)] = Place(h, s, i)
    BY <1>0 DEF Ring
  <1>2. /\ s \in Seq(LEntry) /\ n \in Nat /\ DOMAIN s = 1..n
        /\ \A i \in Int : Place(h, s, i) = IF i \in 1..n THEN s[i] ELSE h
        /\ \A i \in Int : Place(h, s, i) \in Node
    BY <1>0, RingPlaces
  <1>4. NoTwice(s)
    BY <1>0 DEF Apart, NoTwice
  <1>5. CASE w = "next"
    <2>1. Way(l, w) = l.next /\ Onwards(w, s) = s
      BY <1>5 DEF Way, Onwards
    <2> HIDE DEF s
    <2>2. n = Len(s)
      BY DEF n
    <2> HIDE DEF n
    <2>3. OneWay(l.next, h, s)
      BY <1>1, <1>2, <1>4, <2>2 DEF OneWay
    <2> QED
      BY <2>1, <2>3 DEF s
  <1>6. CASE w = "prev"
    <2>1. Way(l, w) = l.prev /\ Onwards(w, s) = r
      BY <1>6 DEF Way, Onwards
    <2>2. r \in Seq(LEntry) /\ Len(r) = n /\ \A i \in 1..n : r[i] = s[n - i + 1]
      BY <1>2, ReverseIs
    <2> HIDE DEF r, n, s
    <2>3. \A i \in Int : Place(h, r, i) = IF i \in 1..n THEN r[i] ELSE h
      BY <2>2, PlaceIs
    <2>4. \A i \in Int : Place(h, r, i) = Place(h, s, n - i + 1)
      <3> SUFFICES ASSUME NEW i \in Int PROVE Place(h, r, i) = Place(h, s, n - i + 1)
        OBVIOUS
      <3>1. n - i + 1 \in Int /\ (i \in 1..n <=> n - i + 1 \in 1..n)
        BY <1>2
      <3> QED
        BY <1>2, <2>2, <2>3, <3>1
    <2>5. \A i \in Int : Place(h, r, i) \in Node
      <3> SUFFICES ASSUME NEW i \in Int PROVE Place(h, r, i) \in Node
        OBVIOUS
      <3>1. n - i + 1 \in Int
        BY <1>2
      <3> QED
        BY <1>2, <2>4, <3>1
    <2>6. \A i \in 0..n : l.prev[Place(h, r, i)] = Place(h, r, i + 1)
      <3> SUFFICES ASSUME NEW i \in 0..n
                   PROVE  l.prev[Place(h, r, i)] = Place(h, r, i + 1)
        OBVIOUS
      <3>1. n - i \in 0..n /\ i + 1 \in Int /\ i \in Int /\ n - (i + 1) + 1 = n - i
        BY <1>2
      <3>2. Place(h, r, i) = Place(h, s, n - i + 1)
        BY <2>4, <3>1
      <3>3. l.prev[Place(h, s, n - i + 1)] = Place(h, s, n - i)
        BY <1>1, <3>1
      <3>4. Place(h, r, i + 1) = Place(h, s, n - (i + 1) + 1)
        BY <2>4, <3>1
      <3> QED
        BY <3>1, <3>2, <3>3, <3>4
    <2>7. NoTwice(r)
      <3> SUFFICES ASSUME NEW i \in DOMAIN r, NEW j \in DOMAIN r, r[i] = r[j]
                   PROVE  i = j
        BY DEF NoTwice
      <3>1. DOMAIN r = 1..n
        BY <2>2, PlaceIs
      <3>2. n - i + 1 \in DOMAIN s /\ n - j + 1 \in DOMAIN s /\ i \in 1..n /\ j \in 1..n
        BY <1>2, <3>1
      <3>3. s[n - i + 1] = s[n - j + 1]
        BY <2>2, <3>2
      <3>4. n - i + 1 = n - j + 1
        BY <1>4, <3>2, <3>3 DEF NoTwice
      <3> QED
        BY <1>2, <3>2, <3>4
    <2>8. OneWay(l.prev, h, r)
      BY <1>2, <2>2, <2>3, <2>5, <2>6, <2>7 DEF OneWay
    <2> QED
      BY <2>1, <2>8 DEF s
  <1> QED
    BY <1>5, <1>6

(* The safe macros: an iteration begins,                                   *)
LEMMA WalkBegins ==
  ASSUME LInv, NEW h \in live, NEW w \in {"next", "prev"}, Begin(h, w)
  PROVE  LInv' /\ ListOf' = ListOf
  <1> DEFINE s == ListOf[h]
             d == Onwards(w, s)
             m == Len(d)
             link == Way(ls, w)
             new == it'
  <1>1. /\ Leaves(ls, live, ListOf) /\ live \in SUBSET LHead /\ LShape(ls, live, ListOf)
    BY InLInv
  <1>2. /\ ls' = ls /\ live' = live
        /\ it' = [head |-> h, pos |-> link[h], n |-> link[link[h]], way |-> w,
                  seen |-> <<>>, whole |-> d]
    BY DEF Begin, Onwards
  <1>3. OneWay(link, h, d)
    BY <1>1, WayIs
  <1> HIDE DEF d, link
  <1>4. /\ d \in Seq(LEntry) /\ m \in Nat /\ NoTwice(d)
        /\ \A i \in Int : /\ Place(h, d, i) = IF i \in 1..m THEN d[i] ELSE h
                          /\ Place(h, d, i) \in Node
        /\ \A i \in 0..m : link[Place(h, d, i)] = Place(h, d, i + 1)
    BY <1>3 DEF OneWay
  <1>z. PICK k : k = 0
    OBVIOUS
  <1>5. /\ k \in Int /\ k + 1 \in Int /\ k + 2 \in Int /\ k \in 0..m /\ k \notin 1..m
        /\ k + 1 = 1 /\ k + 2 = k + 1 + 1
    BY <1>4, <1>z
  <1>6. Place(h, d, k) = h /\ link[h] = Place(h, d, k + 1)
    BY <1>4, <1>5
  <1>7. link[link[h]] \in Node /\ (k < m => link[link[h]] = Place(h, d, k + 2))
    <2>1. CASE m = 0
      <3>1. k + 1 \notin 1..m /\ ~(k < m)
        BY <1>5, <2>1, <1>z
      <3> QED
        BY <1>4, <1>5, <1>6, <3>1
    <2>2. CASE m # 0
      <3>1. k + 1 \in 0..m
        BY <1>4, <1>5, <2>2
      <3> QED
        BY <1>4, <1>5, <1>6, <3>1
    <2> QED
      BY <2>1, <2>2
  <1>8. InWalk(new, s)
    <2>1. /\ new.head = h /\ new.pos = link[h] /\ new.n = link[link[h]] /\ new.way = w
          /\ new.seen = <<>> /\ new.whole = d
      BY <1>2
    <2>2. new \in Pass2
      <3>1. h \in LHead /\ link[h] \in Node /\ <<>> \in Seq(LEntry)
        BY <1>1, <1>4, <1>5, <1>6
      <3> QED
        BY <1>2, <1>4, <1>7, <3>1 DEF Pass2
    <2> HIDE DEF new
    <2>3. Len(new.seen) = k
      BY <1>z, <2>1
    <2>4. /\ \A i \in 1..k : new.seen[i] = d[i]
          /\ m <= m + k + 1
          /\ \A j \in (k + 2)..m : d[m - m + j] = d[j]
      <3>1. \A j \in (k + 2)..m : m - m + j = j
        BY <1>4, <1>5
      <3> QED
        BY <1>4, <1>z, <3>1
    <2>5. Onwards(new.way, s) = d
      BY <2>1 DEF d
    <2> HIDE DEF m, s
    <2>6. k < m => new.n = Place(h, d, k + 2)
      BY <1>7, <2>1
    <2>7. new.pos = Place(h, d, k + 1)
      BY <1>6, <2>1
    <2> QED
      BY <1>4, <1>5, <2>1, <2>2, <2>3, <2>4, <2>5, <2>6, <2>7 DEF InWalk, m
  <1>9. it'.head = h
    BY <1>2
  <1> QED
    BY <1>1, <1>2, <1>8, <1>9, LBecoming

(* goes on to the entry it has read ahead,                                 *)
LEMMA WalkAdvances ==
  ASSUME LInv, Advance
  PROVE  LInv' /\ ListOf' = ListOf
  <1> DEFINE h == it.head
             s == ListOf[h]
             d == Onwards(it.way, s)
             D == Len(d)
             w == it.whole
             m == Len(w)
             k == Len(it.seen)
             link == Way(ls, it.way)
             new == it'
  <1>1. /\ Leaves(ls, live, ListOf) /\ live \in SUBSET LHead /\ LShape(ls, live, ListOf)
        /\ it = NoWalk \/ (it.head \in live /\ InWalk(it, ListOf[it.head]))
    BY InLInv
  <1>2. /\ it # NoWalk /\ it.pos # h /\ ls' = ls /\ live' = live
        /\ it' = [it EXCEPT !.pos = it.n, !.n = link[it.n], !.seen = Append(@, it.pos)]
    BY DEF Advance, WalkStep
  <1>3. h \in live /\ InWalk(it, s)
    BY <1>1, <1>2
  <1>4. /\ it \in Pass2 /\ NoTwice(w) /\ k \in 0..m
        /\ \A i \in 1..k : it.seen[i] = w[i]
        /\ it.pos = Place(h, w, k + 1)
        /\ k < m => /\ it.n = Place(h, w, k + 2) /\ m <= D + k + 1
                    /\ \A j \in (k + 2)..m : d[D - m + j] = w[j]
    BY <1>3 DEF InWalk
  <1>5. /\ w \in Seq(LEntry) /\ it.seen \in Seq(LEntry) /\ it.way \in {"next", "prev"}
        /\ it.head \in LHead /\ it.pos \in Node /\ it.n \in Node
    BY <1>4 DEF Pass2
  <1>6. OneWay(link, h, d)
    BY <1>1, <1>3, <1>5, WayIs
  <1> HIDE DEF d, link, s
  <1>7. /\ d \in Seq(LEntry) /\ D \in Nat
        /\ \A i \in Int : /\ Place(h, d, i) = IF i \in 1..D THEN d[i] ELSE h
                          /\ Place(h, d, i) \in Node
        /\ \A i \in 0..D : link[Place(h, d, i)] = Place(h, d, i + 1)
    BY <1>6 DEF OneWay
  <1>8. /\ m \in Nat /\ DOMAIN w = 1..m /\ k \in Nat
        /\ \A i \in Int : Place(h, w, i) = IF i \in 1..m THEN w[i] ELSE h
        /\ \A i \in 1..m : w[i] \in LEntry
    <2> HIDE DEF w, h
    <2>1. k \in Nat
      BY <1>5, LenProperties
    <2> QED
      BY <1>5, <2>1, PlaceIs
  <1> HIDE DEF h, w, m, k, D
  <1>9. /\ k < m /\ k + 1 \in 1..m /\ it.pos = w[k + 1] /\ w[k + 1] \in LEntry
    <2>1. k + 1 \in Int /\ k \in 0..m
      BY <1>4, <1>8
    <2>2. k + 1 \in 1..m
      BY <1>2, <1>4, <1>8, <2>1
    <2> QED
      BY <1>4, <1>8, <2>1, <2>2
  <1>10. /\ it.n = Place(h, w, k + 2) /\ m <= D + k + 1
         /\ \A j \in (k + 2)..m : d[D - m + j] = w[j]
    BY <1>4, <1>9
  <1>11. /\ link[it.n] \in Node
         /\ k + 1 < m => link[it.n] = Place(h, w, k + 3)
    <2>1. CASE k + 1 < m
      <3> DEFINE q == D - m + (k + 2)
      <3>1. /\ k + 2 \in (k + 2)..m /\ k + 2 \in 1..m /\ k + 2 \in Int /\ k + 3 \in Int
            /\ q \in 1..D /\ q \in 0..D /\ q \in Int /\ q + 1 \in Int
        BY <1>7, <1>8, <1>9, <1>10, <2>1
      <3>2. d[q] = w[k + 2]
        BY <1>10, <3>1
      <3>3. it.n = Place(h, d, q)
        BY <1>7, <1>8, <1>10, <3>1, <3>2
      <3>4. link[it.n] = Place(h, d, q + 1)
        BY <1>7, <3>1, <3>3
      <3>5. Place(h, d, q + 1) = Place(h, w, k + 3)
        <4>1. CASE k + 3 <= m
          <5>1. k + 3 \in (k + 2)..m /\ D - m + (k + 3) = q + 1 /\ q + 1 \in 1..D
                  /\ k + 3 \in 1..m
            BY <1>7, <1>8, <1>9, <1>10, <4>1, SMTT(30)
          <5>2. d[q + 1] = w[k + 3]
            BY <1>10, <5>1
          <5> QED
            BY <1>7, <1>8, <3>1, <5>1, <5>2
        <4>2. CASE ~(k + 3 <= m)
          <5>1. q + 1 \notin 1..D /\ k + 3 \notin 1..m
            BY <1>7, <1>8, <2>1, <4>2
          <5> QED
            BY <1>7, <1>8, <3>1, <5>1
        <4> QED
          BY <4>1, <4>2
      <3> HIDE DEF q
      <3> QED
        BY <1>7, <3>1, <3>4, <3>5
    <2>2. CASE ~(k + 1 < m)
      <3>1. k + 2 \notin 1..m /\ k + 2 \in Int
        BY <1>8, <2>2
      <3>2. it.n = h
        BY <1>8, <1>10, <3>1
      <3>3. PICK z : z = 0
        OBVIOUS
      <3>4. z \in 0..D /\ z \in Int /\ z + 1 \in Int /\ z \notin 1..D
        BY <1>7, <3>3
      <3>5. Place(h, d, z) = h /\ link[Place(h, d, z)] \in Node
        BY <1>7, <3>4
      <3> QED
        BY <2>2, <3>2, <3>5
    <2> QED
      BY <2>1, <2>2
  <1>12. InWalk(new, s)
    <2> DEFINE y == link[it.n]
               t == Append(it.seen, it.pos)
    <2>1. it' = [it EXCEPT !.pos = it.n, !.n = y, !.seen = t]
      BY <1>2
    <2>2. /\ t \in Seq(LEntry) /\ Len(t) = k + 1 /\ t[k + 1] = w[k + 1]
          /\ \A i \in 1..k : t[i] = w[i]
      <3>1. it.pos \in LEntry
        BY <1>9
      <3>2. /\ t \in Seq(LEntry) /\ Len(t) = k + 1 /\ t[k + 1] = it.pos
            /\ \A i \in 1..k : t[i] = it.seen[i]
        BY <1>5, <3>1, AppendProperties DEF k
      <3> QED
        BY <1>4, <1>9, <3>2
    <2> HIDE DEF y, t
    <2>3. /\ new \in Pass2 /\ new.head = h /\ new.pos = it.n /\ new.n = y
               /\ new.seen = t
          /\ new.whole = w /\ new.way = it.way
      <3>1. y \in Node
        BY <1>11 DEF y
      <3> QED
        BY <1>4, <1>5, <2>1, <2>2, <3>1 DEF Pass2, h, w
    <2> HIDE DEF new
    <2>4. \A i \in 1..(k + 1) : t[i] = w[i]
      <3>1. \A i \in 1..(k + 1) : i \in 1..k \/ i = k + 1
        BY <1>8
      <3> QED
        BY <2>2, <3>1
    <2>5. /\ k + 1 \in 0..m /\ k + 1 + 1 = k + 2 /\ k + 1 + 2 = k + 3
          /\ m <= D + (k + 1) + 1
          /\ \A j \in (k + 3)..m : j \in (k + 2)..m
      BY <1>7, <1>8, <1>9, <1>10
    <2>6. k + 1 < m => /\ y = Place(h, w, k + 1 + 2) /\ m <= D + (k + 1) + 1
                       /\ \A j \in (k + 1 + 2)..m : d[D - m + j] = w[j]
      <3>1. k + 1 < m => y = Place(h, w, k + 1 + 2)
        BY <1>11, <2>5 DEF y
      <3>2. \A j \in (k + 1 + 2)..m : d[D - m + j] = w[j]
        BY <1>10, <2>5
      <3> QED
        BY <2>5, <3>1, <3>2
    <2>7. new.pos = Place(h, w, k + 1 + 1)
      BY <1>10, <2>3, <2>5
    <2>8. Onwards(new.way, s) = d /\ Len(new.seen) = k + 1
      BY <2>2, <2>3 DEF d
    <2> QED
      BY <1>4, <2>3, <2>4, <2>5, <2>6, <2>7, <2>8 DEF InWalk, m, D
  <1>13. it'.head = h
    <2>1. it' = [it EXCEPT !.pos = it.n, !.n = link[it.n], !.seen = Append(@, it.pos)]
      BY <1>2
    <2> QED
      BY <1>4, <2>1 DEF Pass2, h
  <1> QED
    BY <1>1, <1>2, <1>3, <1>12, <1>13, LBecoming DEF s

(* and ends.                                                               *)
LEMMA WalkFinishes ==
  ASSUME LInv, Finish
  PROVE  LInv' /\ ListOf' = ListOf
  <1>1. Leaves(ls, live, ListOf)
    BY InLInv
  <1>2. ls' = ls /\ live' = live /\ it' = NoWalk
    BY DEF Finish
  <1> QED
    BY <1>1, <1>2, LBecoming

(* All rings are empty at first.                                           *)
LEMMA LInitKeeps ==
  ASSUME LInit
  PROVE  LInv /\ Seqs!Init
  <1> DEFINE c == [h \in LHead |-> <<>>]
  <1>1. /\ ls = [next |-> [x \in Node |-> IF x \in LHead THEN x ELSE Poison],
                 prev |-> [x \in Node |-> IF x \in LHead THEN x ELSE Poison]]
        /\ live = LHead /\ it = NoWalk
    BY DEF LInit
  <1>2. /\ \A x \in Node : /\ ls.next[x] = IF x \in LHead THEN x ELSE Poison
                           /\ ls.prev[x] = IF x \in LHead THEN x ELSE Poison
        /\ ls \in Links2
    <2>1. [x \in Node |-> IF x \in LHead THEN x ELSE Poison]
            \in [Node -> Node \cup {Poison}]
      BY DEF Node
    <2> QED
      BY <1>1, <2>1 DEF Links2
  <1>3. c \in [LHead -> Seq(LEntry)] /\ \A h \in LHead : c[h] = <<>> /\ Len(c[h]) = 0
    OBVIOUS
  <1> HIDE DEF c
  <1>4. Apart(c, LHead)
    BY <1>3 DEF Apart
  <1>5. ASSUME NEW h \in LHead PROVE Ring(ls, h, c[h])
    <2> SUFFICES ASSUME NEW i \in 0..Len(c[h])
                 PROVE  /\ ls.next[Place(h, c[h], i)] = Place(h, c[h], i + 1)
                        /\ ls.prev[Place(h, c[h], i + 1)] = Place(h, c[h], i)
      BY DEF Ring
    <2>1. Place(h, c[h], i) = h /\ Place(h, c[h], i + 1) = h
      BY <1>3 DEF Place
    <2>2. h \in Node
      BY DEF Node
    <2> QED
      BY <1>2, <2>1, <2>2
  <1>6. LShape(ls, LHead, c)
    BY <1>3, <1>4, <1>5 DEF LShape
  <1>7. ListOf = c
    <2>1. LHead \in SUBSET LHead
      OBVIOUS
    <2>2. \A h \in LHead : Visits(h, ls.next) = c[h]
      BY <1>6, <2>1, VisitsRead
    <2> QED
      BY <1>1, <1>3, <2>2 DEF ListOf
  <1>8. SelfBoth(ls)
    BY <1>2, LAssumption DEF SelfBoth, Node
  <1>9. Seqs!Init
    BY <1>3, <1>7 DEF Seqs!Init
  <1> QED
    BY <1>1, <1>2, <1>6, <1>7, <1>8, <1>9 DEF LInv

(* Every call keeps the links, and does to the sequences of entries what   *)
(* the abstract lists may do.                                              *)
LEMMA LStep ==
  ASSUME LInv, [LNext]_lvars
  PROVE  LInv' /\ [Seqs!Next]_ListOf
  <1>0. live \in SUBSET LHead
    BY InLInv
  <1>1. CASE UNCHANGED lvars
    <2>1. Leaves(ls, live, ListOf)
            /\ (it = NoWalk \/ (it.head \in live /\ InWalk(it, ListOf[it.head])))
      BY InLInv
    <2>2. ls' = ls /\ live' = live /\ it' = it
      BY <1>1 DEF lvars
    <2> QED
      BY <2>1, <2>2, LBecoming
  <1>2. ASSUME NEW h \in LHead, InitListHead(h) PROVE LInv' /\ Seqs!Clear
    BY <1>2, InitListHeadKeeps
  <1>3. ASSUME NEW h \in live, RotateLeft(h) PROVE LInv' /\ Seqs!Move
    BY <1>3, RotateLeftKeeps
  <1>4. ASSUME NEW h \in live, NEW w \in {"next", "prev"}, Begin(h, w)
        PROVE  LInv' /\ ListOf' = ListOf
    BY <1>4, WalkBegins
  <1>5. ASSUME NEW h \in live, NEW e \in LEntry,
               \/ LAdd(e, h) \/ LAddTail(e, h)
               \/ LMove(e, h) \/ LMoveTail(e, h)
        PROVE  LInv' /\ (Seqs!Enter \/ Seqs!Move)
    BY <1>5, LAddKeeps, LMoveKeeps
  <1>6. ASSUME NEW e \in LEntry, LDel(e) \/ LDelInit(e) \/ DelInitAgain(e)
        PROVE  LInv' /\ (Seqs!Leave \/ ListOf' = ListOf)
    BY <1>6, LDelKeeps, DelInitAgainKeeps
  <1>7. ASSUME NEW e \in LEntry, NEW f \in LEntry, NEW init \in BOOLEAN,
                 ReplaceEntry(e, f, init)
        PROVE  LInv' /\ Seqs!Exchange
    BY <1>7, ReplaceEntryKeeps
  <1>8. ASSUME NEW h \in live, NEW g \in LHead, ReplaceHead(h, g)
        PROVE  LInv' /\ (Seqs!Cut \/ Seqs!Clear)
    BY <1>8, ReplaceHeadKeeps
  <1>9. ASSUME NEW h \in live, NEW g \in live,
               \/ \E e \in Node : Cut(g, h, e)
               \/ \E tail, init \in BOOLEAN : Splice(g, h, tail, init)
        PROVE  LInv' /\ (Seqs!Cut \/ Seqs!Clear \/ Seqs!Splice \/ ListOf' = ListOf)
    BY <1>9, CutKeeps, SpliceKeeps
  <1>10. ASSUME Advance \/ Finish PROVE LInv' /\ ListOf' = ListOf
    BY <1>10, WalkAdvances, WalkFinishes
  <1>11. CASE LNext
    BY <1>2, <1>3, <1>4, <1>5, <1>6, <1>7, <1>8, <1>9, <1>10, <1>11 DEF LNext, Seqs!Next
  <1> QED
    BY <1>1, <1>11

(* What LInv says of the links and of an iteration that has ended.         *)
LEMMA LInvShows ==
  ASSUME LInv
  PROVE  LTypeOK /\ BothEnds /\ SafeWalk
  <1>1. /\ ls \in Links2 /\ live \in SUBSET LHead /\ LShape(ls, live, ListOf)
        /\ ListOf \in [LHead -> Seq(LEntry)]
        /\ it = NoWalk \/ (it.head \in live /\ InWalk(it, ListOf[it.head]))
    BY InLInv
  <1>2. LTypeOK
    <2>1. it = NoWalk \/ (it.pos \in Node /\ it.n \in Node)
      BY <1>1 DEF InWalk, Pass2
    <2> QED
      BY <1>1, <2>1 DEF LTypeOK, Links2
  <1>3. BothEnds
    <2> SUFFICES ASSUME NEW h \in live
                 PROVE  /\ Visits(h, ls.prev) = Reverse(ListOf[h])
                        /\ \A g \in live \ {h} :
                             ToSet(ListOf[h]) \cap ToSet(ListOf[g]) = {}
                        /\ ToSet(ListOf[h]) \subseteq LEntry
      BY DEF BothEnds
    <2>1. Visits(h, ls.prev) = Reverse(ListOf[h])
      BY <1>1, VisitsRead
    <2>2. Apart(ListOf, live)
      BY <1>1 DEF LShape
    <2>3. \A g \in live \ {h} : ToSet(ListOf[h]) \cap ToSet(ListOf[g]) = {}
      BY <2>2 DEF Apart, ToSet
    <2>4. ToSet(ListOf[h]) \subseteq LEntry
      <3>1. h \in LHead
        BY <1>1
      <3>2. DOMAIN ListOf[h] = 1..Len(ListOf[h])
              /\ \A i \in 1..Len(ListOf[h]) : ListOf[h][i] \in LEntry
        BY <1>1, <3>1, RingPlaces
      <3> QED
        BY <3>2 DEF ToSet
    <2> QED
      BY <2>1, <2>3, <2>4
  <1>4. SafeWalk
    <2> SUFFICES ASSUME it # NoWalk, it.pos = it.head PROVE it.seen = it.whole
      BY DEF SafeWalk
    <2> DEFINE k == Len(it.seen)
               m == Len(it.whole)
    <2>1. InWalk(it, ListOf[it.head])
      BY <1>1
    <2>2. /\ it \in Pass2 /\ k \in 0..m /\ \A i \in 1..k : it.seen[i] = it.whole[i]
          /\ it.pos = Place(it.head, it.whole, k + 1)
      BY <2>1 DEF InWalk
    <2>3. it.head \in LHead /\ it.seen \in Seq(LEntry) /\ it.whole \in Seq(LEntry)
      BY <2>2 DEF Pass2
    <2>4. m \in Nat /\ k \in Nat /\ DOMAIN it.whole = 1..m
            /\ \A i \in 1..m : it.whole[i] \in LEntry
      BY <2>3, LenProperties, ElementOfSeq
    <2>5. k = m
      <3> SUFFICES ASSUME k # m PROVE FALSE
        OBVIOUS
      <3> HIDE DEF k, m
      <3>1. k + 1 \in 1..m
        BY <2>2, <2>4
      <3>2. it.pos \in LEntry
        BY <2>2, <2>4, <3>1 DEF Place
      <3> QED
        BY <2>3, <3>2, LAssumption
    <2> QED
      BY <2>2, <2>3, <2>4, <2>5, SeqEqual
  <1> QED
    BY <1>2, <1>3, <1>4

(* The pointers of the circular lists are whole after every call,          *)
THEOREM ListHeadInvariant == LSpec => []LInv
  <1>1. LInit => LInv
    BY LInitKeeps
  <1>2. LInv /\ [LNext]_lvars => LInv'
    BY LStep
  <1> QED
    BY <1>1, <1>2, PTL DEF LSpec

(* and what the calls do to them implements Lists.                         *)
THEOREM HeadsAreLists == LSpec => AreLists
  <1>1. LInit => Seqs!Init
    BY LInitKeeps
  <1>2. LInv /\ [LNext]_lvars => [Seqs!Next]_ListOf
    BY LStep
  <1> QED
    BY <1>1, <1>2, ListHeadInvariant, PTL DEF LSpec, AreLists, Seqs!Spec
=============================================================================

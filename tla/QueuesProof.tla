---------------------------- MODULE QueuesProof -----------------------------
(***************************************************************************)
(* Proofs that the linked list of lib/bufq.c is a queue of messages: that  *)
(* its calls are those of MsgQueue, and put each message where they say;   *)
(* and that MCQueues keeps the links of the queue and of both kinds of     *)
(* lists whole.                                                            *)
(*                                                                         *)
(* The invariant QInv of BufQ names the sequence the queue has linked:     *)
(* Links says of every message where its two pointers lead.  MessageEnters *)
(* and MessageLeaves say what becomes of the sequence when one message     *)
(* enters or leaves at any place, the ends included, Becoming what a call  *)
(* has to show of the sequence it leaves, and OneStep joins the calls.     *)
(* The loops of bufq_purge and bufq_supply and the two ways to read the    *)
(* queue are recursive functions: a function with the equations is shown   *)
(* to exist (PurgeExists, SumExists), and what it computes by induction up *)
(* to a number (UpTo).                                                     *)
(***************************************************************************)
EXTENDS MCQueues, ListsProof

-----------------------------------------------------------------------------
(* The sum of the lengths of a sequence.                                   *)

IsSum(f, l, s, k) ==
  f = [i \in 0..k |-> IF i = 0 THEN 0 ELSE f[i - 1] + l[s[i]]]

(* There is a function that adds up.                                       *)
LEMMA SumExists ==
  ASSUME NEW l, NEW s, NEW N \in Nat
  PROVE  \E f : IsSum(f, l, s, N)
  <1> DEFINE P == {k \in 0..N : \E f : IsSum(f, l, s, k)}
  <1>1. 0 \in P
    <2> DEFINE f == [i \in 0..0 |-> 0]
    <2>1. IsSum(f, l, s, 0)
      BY DEF IsSum
    <2> QED
      BY <2>1
  <1>2. ASSUME NEW k \in 1..N, k - 1 \in P PROVE k \in P
    <2>1. PICK f : IsSum(f, l, s, k - 1)
      BY <1>2
    <2> DEFINE g == [i \in 0..k |-> IF i = k THEN f[k - 1] + l[s[k]] ELSE f[i]]
               h == [i \in 0..k |-> IF i = 0 THEN 0 ELSE g[i - 1] + l[s[i]]]
    <2>2. ASSUME NEW i \in 0..k PROVE g[i] = h[i]
      <3>1. CASE i = 0
        BY <2>1, <3>1 DEF IsSum
      <3>2. CASE i = k
        <4>1. g[k - 1] = f[k - 1]
          OBVIOUS
        <4> QED
          BY <3>2, <4>1
      <3>3. CASE i # 0 /\ i # k
        <4>1. i - 1 \in 0..k /\ i - 1 # k /\ i \in 0..(k - 1)
          BY <3>3
        <4>2. g[i] = f[i] /\ g[i - 1] = f[i - 1]
          BY <3>3, <4>1
        <4>3. f[i] = f[i - 1] + l[s[i]]
          BY <2>1, <3>3, <4>1 DEF IsSum
        <4> QED
          BY <3>3, <4>2, <4>3
      <3> QED
        BY <3>1, <3>2, <3>3
    <2>3. g = h
      BY <2>2
    <2>4. IsSum(g, l, s, k)
      BY <2>3 DEF IsSum
    <2> QED
      BY <2>4
  <1>3. 0..N \subseteq P
    BY <1>1, <1>2, UpTo
  <1> QED
    BY <1>3

(* f adds up the lengths of the first k elements.                          *)
Adds(f, l, s, k) == /\ f \in [0..k -> Nat] /\ f[0] = 0
                    /\ \A i \in 1..k : f[i] = f[i - 1] + l[s[i]]

(* The sum, one element after the other.                                   *)
LEMMA SumIs ==
  ASSUME NEW S, NEW s \in Seq(S), NEW l \in [S -> Nat]
  PROVE  \E f : Adds(f, l, s, Len(s)) /\ Abs!Sum(l, s) = f[Len(s)]
  <1> DEFINE N == Len(s)
             f == CHOOSE f : IsSum(f, l, s, N)
             P == {k \in 0..N : f[k] \in Nat}
  <1>1. N \in Nat /\ \A i \in 1..N : s[i] \in S
    BY LenProperties, ElementOfSeq
  <1>2. IsSum(f, l, s, N)
    BY <1>1, SumExists
  <1>3. Abs!Sum(l, s) = f[N]
    BY DEF Abs!Sum, IsSum
  <1> HIDE DEF f, N
  <1>4. f[0] = 0 /\ \A i \in 1..N : f[i] = f[i - 1] + l[s[i]]
    BY <1>1, <1>2 DEF IsSum
  <1>5. 0 \in P /\ \A k \in 1..N : k - 1 \in P => k \in P
    <2>1. ASSUME NEW k \in 1..N, f[k - 1] \in Nat PROVE f[k] \in Nat
      <3>1. l[s[k]] \in Nat
        BY <1>1
      <3> QED
        BY <1>4, <2>1, <3>1
    <2>2. 0 \in 0..N /\ \A k \in 1..N : k \in 0..N
      BY <1>1
    <2> QED
      BY <1>4, <2>1, <2>2
  <1>6. 0..N \subseteq P
    <2> HIDE DEF P
    <2> QED
      BY <1>1, <1>5, UpTo
  <1>7. f = [i \in 0..N |-> f[i]]
    BY <1>2 DEF IsSum
  <1>8. f \in [0..N -> Nat]
    BY <1>6, <1>7
  <1>9. Adds(f, l, s, N)
    BY <1>4, <1>8 DEF Adds
  <1> QED
    BY <1>3, <1>9, Zenon DEF N

(* The sum is a number; it is the same of lengths that agree.              *)
LEMMA SumAgrees ==
  ASSUME NEW S, NEW s \in Seq(S), NEW l \in [S -> Nat], NEW m \in [S -> Nat],
         \A i \in 1..Len(s) : l[s[i]] = m[s[i]]
  PROVE  Abs!Sum(l, s) = Abs!Sum(m, s) /\ Abs!Sum(l, s) \in Nat
  <1> DEFINE N == Len(s)
  <1>1. N \in Nat
    BY LenProperties
  <1>a. PICK f : Adds(f, l, s, N) /\ Abs!Sum(l, s) = f[N]
    BY SumIs, Zenon
  <1>b. PICK g : Adds(g, m, s, N) /\ Abs!Sum(m, s) = g[N]
    BY SumIs, Zenon
  <1>4. \A i \in 1..N : l[s[i]] = m[s[i]]
    OBVIOUS
  <1> HIDE DEF N
  <1>2. /\ f \in [0..N -> Nat] /\ Abs!Sum(l, s) = f[N] /\ f[0] = 0
        /\ \A i \in 1..N : f[i] = f[i - 1] + l[s[i]]
    BY <1>a, Zenon DEF Adds
  <1>3. /\ g \in [0..N -> Nat] /\ Abs!Sum(m, s) = g[N] /\ g[0] = 0
        /\ \A i \in 1..N : g[i] = g[i - 1] + m[s[i]]
    BY <1>b, Zenon DEF Adds
  <1> DEFINE P == {k \in 0..N : f[k] = g[k]}
  <1>5. 0 \in P /\ \A k \in 1..N : k - 1 \in P => k \in P
    <2>1. ASSUME NEW k \in 1..N, f[k - 1] = g[k - 1] PROVE f[k] = g[k]
      <3>1. f[k] = f[k - 1] + l[s[k]] /\ g[k] = g[k - 1] + m[s[k]]
        BY <1>2, <1>3, Zenon
      <3> QED
        BY <1>4, <2>1, <3>1, Zenon
    <2>2. 0 \in 0..N /\ \A k \in 1..N : k \in 0..N
      BY <1>1
    <2> QED
      BY <1>2, <1>3, <2>1, <2>2
  <1>6. 0..N \subseteq P
    <2> HIDE DEF P
    <2> QED
      BY <1>1, <1>5, UpTo
  <1>7. f[N] = g[N] /\ f[N] \in Nat
    BY <1>1, <1>2, <1>6
  <1> QED
    BY <1>2, <1>3, <1>7, Zenon

(* The sum is a number.                                                    *)
LEMMA SumNat ==
  ASSUME NEW S, NEW s \in Seq(S), NEW l \in [S -> Nat]
  PROVE  Abs!Sum(l, s) \in Nat
  <1>1. PICK f : Adds(f, l, s, Len(s)) /\ Abs!Sum(l, s) = f[Len(s)]
    BY SumIs, Zenon
  <1>2. f \in [0..Len(s) -> Nat]
    BY <1>1, Zenon DEF Adds
  <1>3. Len(s) \in 0..Len(s)
    <2>1. Len(s) \in Nat
      BY LenProperties, Zenon
    <2> QED
      BY <2>1
  <1> QED
    BY <1>1, <1>2, <1>3, Zenon

(* Nothing has no length.                                                  *)
LEMMA SumOfNone ==
  ASSUME NEW S, NEW s \in Seq(S), NEW l \in [S -> Nat], Len(s) = 0
  PROVE  Abs!Sum(l, s) = 0
  <1>1. PICK f : Adds(f, l, s, Len(s)) /\ Abs!Sum(l, s) = f[Len(s)]
    BY SumIs, Zenon
  <1>2. f[0] = 0
    BY <1>1, Zenon DEF Adds
  <1> QED
    BY <1>1, <1>2, Zenon

(* A message that enters adds its length, one that leaves takes it away.   *)
LEMMA SumInserted ==
  ASSUME NEW S, NEW s \in Seq(S), NEW l \in [S -> Nat],
         NEW i \in 1..(Len(s) + 1), NEW e \in S
  PROVE  Abs!Sum(l, InsertAt(s, i, e)) = Abs!Sum(l, s) + l[e]
  <1> DEFINE N == Len(s)
             r == InsertAt(s, i, e)
  <1>1. N \in Nat /\ i \in 1..(N + 1) /\ l[e] \in Nat
    BY LenProperties
  <1>a. PICK f : Adds(f, l, s, N) /\ Abs!Sum(l, s) = f[N]
    BY SumIs, Zenon
  <1>2. /\ f \in [0..N -> Nat] /\ Abs!Sum(l, s) = f[N] /\ f[0] = 0
        /\ \A k \in 1..N : f[k] = f[k - 1] + l[s[k]]
    <2> HIDE DEF N
    <2> QED
      BY <1>a, Zenon DEF Adds
  <1>3. /\ r \in Seq(S) /\ Len(r) = N + 1
        /\ \A k \in 1..(N + 1) : r[k] = IF k < i THEN s[k] ELSE
             IF k = i THEN e ELSE s[k - 1]
    <2> HIDE DEF r, N
    <2>1. i \in 1..(Len(s) + 1) /\ e \in S
      OBVIOUS
    <2>2. WithOne(InsertAt(s, i, e), S, s, i, e)
      BY <2>1, Inserted, Zenon
    <2> QED
      BY <2>2 DEF r, N, WithOne
  <1> HIDE DEF r, N
  <1>b. PICK g : Adds(g, l, r, N + 1) /\ Abs!Sum(l, r) = g[N + 1]
    <2>1. r \in Seq(S) /\ Len(r) = N + 1
      BY <1>3, Zenon
    <2>2. \E g : Adds(g, l, r, Len(r)) /\ Abs!Sum(l, r) = g[Len(r)]
      BY <2>1, SumIs, Zenon
    <2> QED
      BY <2>1, <2>2, Zenon
  <1>4. /\ g \in [0..(N + 1) -> Nat] /\ Abs!Sum(l, r) = g[N + 1] /\ g[0] = 0
        /\ \A k \in 1..(N + 1) : g[k] = g[k - 1] + l[r[k]]
    BY <1>b, Zenon DEF Adds
  <1> DEFINE P == {k \in 0..(N + 1) : g[k] = IF k < i THEN f[k] ELSE f[k - 1] + l[e]}
  <1>5. 0 \in P
    BY <1>1, <1>2, <1>4
  <1>6. ASSUME NEW k \in 1..(N + 1), k - 1 \in P PROVE k \in P
    <2>1. g[k] = g[k - 1] + l[r[k]]
      BY <1>4
    <2>2. g[k - 1] = IF k - 1 < i THEN f[k - 1] ELSE f[k - 2] + l[e]
      BY <1>1, <1>6
    <2>3. CASE k < i
      <3>1. k \in 1..N /\ k - 1 < i /\ r[k] = s[k]
        <4>1. k \in 1..(N + 1)
          OBVIOUS
        <4>2. k \in 1..N /\ k - 1 < i
          BY <1>1, <2>3, <4>1
        <4> QED
          BY <1>3, <2>3, <4>1, <4>2, Zenon
      <3>2. f[k] = f[k - 1] + l[s[k]]
        BY <1>2, <3>1
      <3> QED
        BY <2>1, <2>2, <2>3, <3>1, <3>2
    <2>4. CASE k = i
      <3>1. k - 1 < i /\ r[k] = e /\ ~(k < i)
        BY <1>1, <1>3, <2>4
      <3> QED
        BY <2>1, <2>2, <3>1
    <2>5. CASE i < k
      <3>1. k - 1 \in 1..N /\ ~(k - 1 < i) /\ ~(k < i) /\ k # i
        BY <1>1, <2>5
      <3>2. r[k] = s[k - 1]
        BY <1>3, <3>1
      <3>3. f[k - 1] = f[k - 1 - 1] + l[s[k - 1]] /\ k - 1 - 1 = k - 2 /\ k - 2 \in 0..N
        <4>1. f[k - 1] = f[k - 1 - 1] + l[s[k - 1]]
          BY <1>2, <3>1, Zenon
        <4>2. k - 1 - 1 = k - 2 /\ k - 2 \in 0..N
          BY <1>1, <3>1
        <4> QED
          BY ONLY <4>1, <4>2
      <3>4. f[k - 2] \in Nat /\ f[k - 1] \in Nat
        BY <1>2, <3>1, <3>3
      <3>5. l[s[k - 1]] = l[r[k]]
        BY <3>2
      <3> DEFINE x == l[r[k]]
                 y == f[k - 2]
                 z == f[k - 1]
                 w == l[e]
      <3>6. z = y + x /\ g[k] = g[k - 1] + x /\ g[k - 1] = y + w /\ y \in Nat
              /\ z \in Nat
            /\ w \in Nat
        BY <1>1, <2>1, <2>2, <3>1, <3>3, <3>4, <3>5
      <3>7. x \in Nat
        <4>1. r[k] \in S
          BY <1>3, <1>1, ElementOfSeq
        <4> QED
          BY <4>1
      <3> HIDE DEF x, y, z, w
      <3>8. g[k] = z + w
        BY <3>6, <3>7
      <3> QED
        BY <3>1, <3>8 DEF z, w
    <2> QED
      BY <1>1, <2>3, <2>4, <2>5
  <1>7. 0..(N + 1) \subseteq P
    <2> HIDE DEF P
    <2>1. N + 1 \in Nat
      BY <1>1
    <2> QED
      BY <1>5, <1>6, <2>1, UpTo
  <1>8. g[N + 1] = f[N] + l[e]
    <2>1. PICK k : k = N + 1
      OBVIOUS
    <2>2. k \in 0..(N + 1) /\ ~(k < i) /\ k - 1 = N
      BY <1>1, <2>1
    <2>3. k \in P
      <3> HIDE DEF P
      <3> QED
        BY <1>7, <2>2
    <2>4. g[k] = IF k < i THEN f[k] ELSE f[k - 1] + l[e]
      BY <2>3
    <2> QED
      BY <2>1, <2>2, <2>4
  <1> QED
    BY <1>2, <1>4, <1>8 DEF r

(* What leaves takes its length away.                                      *)
LEMMA SumRemoved ==
  ASSUME NEW S, NEW s \in Seq(S), NEW l \in [S -> Nat], NEW i \in 1..Len(s)
  PROVE  Abs!Sum(l, s) = Abs!Sum(l, RemoveAt(s, i)) + l[s[i]]
  <1> DEFINE N == Len(s)
             r == RemoveAt(s, i)
             t == InsertAt(r, i, s[i])
  <1>1. N \in Nat /\ i \in 1..N /\ s[i] \in S
    BY LenProperties, ElementOfSeq
  <1>a. WithoutOne(r, S, s, i)
    BY Removed, Zenon
  <1> HIDE DEF r
  <1>2. /\ r \in Seq(S) /\ Len(r) = N - 1
        /\ \A k \in 1..(N - 1) : r[k] = IF k < i THEN s[k] ELSE s[k + 1]
    BY <1>a, Zenon DEF WithoutOne
  <1>3. i \in 1..(Len(r) + 1) /\ Len(r) + 1 = N
    BY <1>1, <1>2
  <1>4. /\ t \in Seq(S) /\ Len(t) = N
        /\ \A k \in 1..N : t[k] = IF k < i THEN r[k] ELSE
             IF k = i THEN s[i] ELSE r[k - 1]
    <2> DEFINE e == s[i]
    <2> HIDE DEF e
    <2>0. r \in Seq(S) /\ i \in 1..(Len(r) + 1) /\ e \in S
      BY <1>1, <1>2, <1>3 DEF e
    <2>3. WithOne(InsertAt(r, i, e), S, r, i, e)
      BY <2>0, Inserted, Zenon
    <2>4. WithOne(t, S, r, i, s[i])
      BY <2>3, Zenon DEF e
    <2> HIDE DEF t
    <2>1. /\ t \in Seq(S) /\ Len(t) = Len(r) + 1
          /\ \A k \in 1..(Len(r) + 1) :
               t[k] = IF k < i THEN r[k] ELSE IF k = i THEN s[i] ELSE r[k - 1]
      BY <2>4, Zenon DEF WithOne
    <2> QED
      BY <1>3, <2>1, Zenon
  <1>5. Abs!Sum(l, t) = Abs!Sum(l, r) + l[s[i]]
    BY <1>1, <1>2, <1>3, SumInserted
  <1> HIDE DEF t
  <1>6. ASSUME NEW k \in 1..N PROVE t[k] = s[k]
    <2>1. CASE k < i
      <3>1. k \in 1..(N - 1)
        BY <1>1, <2>1
      <3> QED
        BY <1>2, <1>4, <2>1, <3>1
    <2>2. CASE k = i
      <3>1. ~(k < i)
        BY <1>1, <2>2
      <3> QED
        BY <1>4, <2>2, <3>1
    <2>3. CASE i < k
      <3>1. k - 1 \in 1..(N - 1) /\ ~(k - 1 < i) /\ ~(k < i) /\ k # i /\ k - 1 + 1 = k
        BY <1>1, <2>3
      <3> QED
        BY <1>2, <1>4, <3>1
    <2> QED
      BY <1>1, <2>1, <2>2, <2>3
  <1>7. t = s
    BY <1>4, <1>6, SeqEqual
  <1> QED
    BY <1>5, <1>7 DEF r

-----------------------------------------------------------------------------
(* The queue of messages: walking along it.                                *)

(* There is room for every queue; and it has as many messages as places.   *)
LEMMA QueueRoom ==
  ASSUME NEW s \in Seq(Msg), NoTwice(s)
  PROVE  /\ Len(s) \in Nat /\ Cardinality(Msg) \in Nat /\ Len(s) <= Cardinality(Msg)
         /\ Cardinality(ToSet(s)) = Len(s)
  BY MsgAssumption, Room

(* A walk along the links of t visits t.                                   *)
LEMMA WalkIs ==
  ASSUME NEW t \in Seq(Msg), Len(t) <= Cardinality(Msg), Cardinality(Msg) \in Nat,
         NEW from, NEW link, from = Nth(t, 1),
         \A i \in 1..Len(t) : link[t[i]] = Nth(t, i + 1)
  PROVE  Walk(from, link) = t
  <1>1. \A i \in Nat : Nth(t, i) = Place(Nil, t, i)
    BY DEF Nth, Place
  <1>2. from = Place(Nil, t, 1) /\ \A i \in 1..Len(t) : i + 1 \in Nat
    BY <1>1
  <1>3. \A i \in 1..Len(t) : link[t[i]] = Place(Nil, t, i + 1)
    BY <1>1, <1>2
  <1>4. Msg \cap {Nil} = {} /\ Nil \in {Nil}
    BY MsgAssumption
  <1>5. Along(from, link, {Nil}, Cardinality(Msg)) = t
    BY <1>2, <1>3, <1>4, AlongIs, SMTT(60)
  <1> QED
    BY <1>5 DEF Walk

(* What has the shape of s is read as s, from either end.                  *)
LEMMA ReadBothWays ==
  ASSUME NEW q, NEW s, s \in Seq(Msg), NoTwice(s), Links(q, s)
  PROVE  Walk(q.head, q.next) = s /\ Walk(q.tail, q.prev) = Reverse(s)
  <1> DEFINE l == Len(s)
             r == Reverse(s)
  <1>1. l \in Nat /\ DOMAIN s = 1..l /\ l <= Cardinality(Msg)
          /\ Cardinality(Msg) \in Nat
    BY QueueRoom, LenProperties
  <1>2. /\ q.head = Nth(s, 1) /\ q.tail = Nth(s, l)
        /\ \A i \in 1..l : q.next[s[i]] = Nth(s, i + 1) /\ q.prev[s[i]] = Nth(s, i - 1)
    BY <1>1 DEF Links
  <1>3. Walk(q.head, q.next) = s
    BY <1>1, <1>2, WalkIs
  <1>4. /\ r \in Seq(Msg) /\ Len(r) = l /\ DOMAIN r = 1..l
        /\ \A i \in 1..l : r[i] = s[l - i + 1]
    <2>1. /\ r \in Seq(Msg) /\ Len(r) = l
          /\ \A i \in 1..l : r[i] = s[l - i + 1]
      BY ReverseIs
    <2> HIDE DEF r, l
    <2> QED
      BY <2>1, LenProperties
  <1> HIDE DEF r, l
  <1>5. q.tail = Nth(r, 1)
    <2>1. CASE l = 0
      BY <1>1, <1>2, <1>4, <2>1 DEF Nth
    <2>2. CASE l # 0
      <3>1. 1 \in 1..l /\ l \in 1..l /\ l - 1 + 1 = l
        BY <1>1, <2>2
      <3> QED
        BY <1>1, <1>2, <1>4, <3>1 DEF Nth
    <2> QED
      BY <2>1, <2>2
  <1>6. ASSUME NEW i \in 1..l PROVE q.prev[r[i]] = Nth(r, i + 1)
    <2>1. PICK j : j = l - i + 1
      OBVIOUS
    <2>2. j \in 1..l /\ j - 1 = l - i /\ r[i] = s[j]
      BY <1>1, <1>4, <2>1
    <2>3. q.prev[r[i]] = Nth(s, l - i)
      <3>1. q.prev[s[j]] = Nth(s, j - 1)
        BY <1>2, <2>2
      <3> QED
        BY <2>2, <3>1
    <2>4. CASE i = l
      <3>1. l - i \notin 1..l /\ i + 1 \notin 1..l
        BY <1>1, <2>4
      <3> QED
        BY <1>1, <1>4, <2>3, <3>1 DEF Nth
    <2>5. CASE i # l
      <3>1. l - i \in 1..l /\ i + 1 \in 1..l /\ l - (i + 1) + 1 = l - i
        BY <1>1, <2>5
      <3>2. r[i + 1] = s[l - i]
        BY <1>4, <3>1
      <3> QED
        BY <1>1, <1>4, <2>3, <3>1, <3>2 DEF Nth
    <2> QED
      BY <2>4, <2>5
  <1>7. Walk(q.tail, q.prev) = r
    <2>1. Len(r) <= Cardinality(Msg)
      BY <1>1, <1>4
    <2>2. \A i \in 1..Len(r) : q.prev[r[i]] = Nth(r, i + 1)
      BY <1>4, <1>6
    <2> DEFINE from == q.tail
               link == q.prev
    <2>3. r \in Seq(Msg) /\ Cardinality(Msg) \in Nat /\ from = Nth(r, 1)
      BY <1>1, <1>4, <1>5
    <2>4. \A i \in 1..Len(r) : link[r[i]] = Nth(r, i + 1)
      BY <2>2
    <2> HIDE DEF from, link
    <2>5. Walk(from, link) = r
      BY <2>1, <2>3, <2>4, WalkIs
    <2> QED
      BY <2>5 DEF from, link
  <1> QED
    BY <1>3, <1>7 DEF r

-----------------------------------------------------------------------------
(* The queue of messages: entering and leaving.                            *)

(* Assigning through a pointer that has been tested.                       *)
LEMMA LinkIs ==
  ASSUME NEW f \in [Msg -> Msg \cup {Nil}], NEW m \in Msg \cup {Nil},
         NEW v \in Msg \cup {Nil}
  PROVE  /\ Link(f, m, v) \in [Msg -> Msg \cup {Nil}]
         /\ \A x \in Msg : /\ x = m => Link(f, m, v)[x] = v
                           /\ x # m => Link(f, m, v)[x] = f[x]
  <1>1. CASE m = Nil
    <2>1. \A x \in Msg : x # m
      BY <1>1, MsgAssumption
    <2> QED
      BY <1>1, <2>1 DEF Link
  <1>2. CASE m # Nil
    BY <1>2 DEF Link
  <1> QED
    BY <1>1, <1>2

(* b is q with e between p and s.                                          *)
IsBetween(b, q, p, e, s) ==
  /\ b \in Bufq /\ b.msgs = q.msgs /\ b.count = q.count
  /\ p = Nil => b.head = e
  /\ p # Nil => b.head = q.head
  /\ s = Nil => b.tail = e
  /\ s # Nil => b.tail = q.tail
  /\ \A x \in Msg :
       /\ x = p => b.next[x] = e
       /\ x = e => b.next[x] = s /\ b.prev[x] = p
       /\ x = s => b.prev[x] = e
       /\ x # p /\ x # e => b.next[x] = q.next[x]
       /\ x # s /\ x # e => b.prev[x] = q.prev[x]

(* So does Between.                                                        *)
LEMMA BetweenIs ==
  ASSUME NEW q \in Bufq, NEW p \in Msg \cup {Nil}, NEW s \in Msg \cup {Nil},
         NEW e \in Msg, p # e, s # e, NEW b, b = Between(q, p, e, s)
  PROVE  IsBetween(b, q, p, e, s)
  <1> DEFINE Ptr == [Msg -> Msg \cup {Nil}]
             f == [q.next EXCEPT ![e] = s]
             g == [q.prev EXCEPT ![e] = p]
             nx == Link(f, p, e)
             pv == Link(g, s, e)
             hd == IF p = Nil THEN e ELSE q.head
             tl == IF s = Nil THEN e ELSE q.tail
  <1>1. q.next \in Ptr /\ q.prev \in Ptr
    BY DEF Bufq
  <1>2. f \in Ptr /\ \A x \in Msg : f[x] = IF x = e THEN s ELSE q.next[x]
    BY <1>1
  <1>3. g \in Ptr /\ \A x \in Msg : g[x] = IF x = e THEN p ELSE q.prev[x]
    BY <1>1
  <1>4. nx \in Ptr /\ \A x \in Msg : (x = p => nx[x] = e) /\ (x # p => nx[x] = f[x])
    <2> HIDE DEF f, nx
    <2>1. f \in [Msg -> Msg \cup {Nil}] /\ e \in Msg \cup {Nil}
      BY <1>2
    <2>2. /\ Link(f, p, e) \in [Msg -> Msg \cup {Nil}]
          /\ \A x \in Msg : /\ x = p => Link(f, p, e)[x] = e
                            /\ x # p => Link(f, p, e)[x] = f[x]
      BY <2>1, LinkIs
    <2> QED
      BY <2>2 DEF nx
  <1>5. pv \in Ptr /\ \A x \in Msg : (x = s => pv[x] = e) /\ (x # s => pv[x] = g[x])
    <2> HIDE DEF g, pv
    <2>1. g \in [Msg -> Msg \cup {Nil}] /\ e \in Msg \cup {Nil}
      BY <1>3
    <2>2. /\ Link(g, s, e) \in [Msg -> Msg \cup {Nil}]
          /\ \A x \in Msg : /\ x = s => Link(g, s, e)[x] = e
                            /\ x # s => Link(g, s, e)[x] = g[x]
      BY <2>1, LinkIs
    <2> QED
      BY <2>2 DEF pv
  <1>6. b = [q EXCEPT !.head = hd, !.tail = tl, !.prev = pv, !.next = nx]
    BY DEF Between
  <1>7. hd \in Msg \cup {Nil} /\ tl \in Msg \cup {Nil}
    BY DEF Bufq
  <1> HIDE DEF f, g, nx, pv, hd, tl
  <1>8. /\ b \in Bufq /\ b.msgs = q.msgs /\ b.count = q.count
        /\ b.head = hd /\ b.tail = tl /\ b.next = nx /\ b.prev = pv
    BY <1>4, <1>5, <1>6, <1>7 DEF Bufq
  <1>9. ASSUME NEW x \in Msg
        PROVE  /\ x = p => b.next[x] = e
               /\ x = e => b.next[x] = s /\ b.prev[x] = p
               /\ x = s => b.prev[x] = e
               /\ x # p /\ x # e => b.next[x] = q.next[x]
               /\ x # s /\ x # e => b.prev[x] = q.prev[x]
    BY <1>2, <1>3, <1>4, <1>5, <1>8
  <1> QED
    BY <1>8, <1>9 DEF hd, tl, IsBetween

(* The places of a sequence.                                               *)
LEMMA Places ==
  ASSUME NEW s \in Seq(Msg), NoTwice(s)
  PROVE  /\ Len(s) \in Nat /\ DOMAIN s = 1..Len(s)
         /\ \A i \in Int : Nth(s, i) = IF i \in 1..Len(s) THEN s[i] ELSE Nil
         /\ \A i \in 1..Len(s) : s[i] \in Msg /\ s[i] # Nil
         /\ \A i, j \in 1..Len(s) : s[i] = s[j] => i = j
         /\ \A x : x \in ToSet(s) <=> \E i \in 1..Len(s) : x = s[i]
  <1>1. Len(s) \in Nat /\ DOMAIN s = 1..Len(s) /\ \A i \in 1..Len(s) : s[i] \in Msg
    BY LenProperties, ElementOfSeq
  <1>2. \A x : x \in ToSet(s) <=> \E i \in 1..Len(s) : x = s[i]
    BY <1>1 DEF ToSet
  <1> QED
    BY <1>1, <1>2, MsgAssumption DEF Nth, NoTwice

(* The rest of b is as in q.                                               *)
Keeps(b, q, t) ==
  /\ b.msgs = q.msgs /\ b.count = q.count
  /\ \A x \in Msg : x \notin ToSet(t) => b.next[x] = q.next[x]

(* At any place: the links are those of the sequence with e there.         *)
LEMMA MessageEnters ==
  ASSUME NEW q \in Bufq, NEW s \in Seq(Msg), NoTwice(s), Links(q, s),
         NEW i \in 1..(Len(s) + 1), NEW e \in Msg, e \notin ToSet(s),
         NEW b, b = Between(q, Nth(s, i - 1), e, Nth(s, i)),
         NEW t, t = InsertAt(s, i, e)
  PROVE  /\ b \in Bufq /\ Keeps(b, q, t)
         /\ t \in Seq(Msg) /\ Len(t) = Len(s) + 1 /\ NoTwice(t) /\ Links(b, t)
         /\ ToSet(t) = ToSet(s) \cup {e}
  <1> DEFINE l == Len(s)
             p == Nth(s, i - 1)
             f == Nth(s, i)
  <1>1. /\ l \in Nat /\ DOMAIN s = 1..l
        /\ \A k \in Int : Nth(s, k) = IF k \in 1..l THEN s[k] ELSE Nil
        /\ \A k \in 1..l : s[k] \in Msg /\ s[k] # Nil /\ s[k] # e
        /\ \A j, k \in 1..l : s[j] = s[k] => j = k
        /\ \A x : x \in ToSet(s) <=> \E k \in 1..l : x = s[k]
    BY Places
  <1>2. /\ t \in Seq(Msg) /\ Len(t) = l + 1
        /\ \A k \in 1..(l + 1) : t[k] = IF k < i THEN s[k] ELSE
             IF k = i THEN e ELSE s[k - 1]
    <2> HIDE DEF l
    <2>0. s \in Seq(Msg) /\ i \in 1..(Len(s) + 1) /\ e \in Msg
      OBVIOUS
    <2>1. WithOne(t, Msg, s, i, e)
      BY <2>0, Inserted, Zenon
    <2> QED
      BY <2>1, Zenon DEF l, WithOne
  <1>3. i \in 1..(l + 1)
    OBVIOUS
  <1>4. /\ q.head = Nth(s, 1) /\ q.tail = Nth(s, l)
        /\ \A k \in 1..l : q.next[s[k]] = Nth(s, k + 1) /\ q.prev[s[k]] = Nth(s, k - 1)
    BY <1>1 DEF Links
  <1> HIDE DEF l
  <1>5. /\ p = IF i = 1 THEN Nil ELSE s[i - 1]
        /\ f = IF i = l + 1 THEN Nil ELSE s[i]
        /\ p = Nil <=> i = 1
        /\ f = Nil <=> i = l + 1
        /\ p \in Msg \cup {Nil} /\ f \in Msg \cup {Nil} /\ p # e /\ f # e
    <2>1. i - 1 \in Int /\ i \in Int /\ e # Nil
      BY <1>3, MsgAssumption
    <2>2. CASE i = 1
      <3>1. p = Nil
        BY <1>1, <2>1, <2>2
      <3>2. l = 0 => f = Nil
        BY <1>1, <2>1, <2>2
      <3>3. l # 0 => f = s[1] /\ 1 \in 1..l
        BY <1>1, <2>1, <2>2
      <3> QED
        BY <1>1, <2>1, <2>2, <3>1, <3>2, <3>3
    <2>3. CASE i # 1
      <3>1. i - 1 \in 1..l
        BY <1>1, <1>3, <2>3
      <3>2. p = s[i - 1]
        BY <1>1, <2>1, <3>1
      <3>3. i = l + 1 => f = Nil
        BY <1>1, <2>1
      <3>4. i # l + 1 => i \in 1..l /\ f = s[i]
        BY <1>1, <1>3, <2>1
      <3> QED
        BY <1>1, <2>1, <2>3, <3>1, <3>2, <3>3, <3>4
    <2> QED
      BY <2>2, <2>3
  <1> HIDE DEF p, f
  <1>6. IsBetween(b, q, p, e, f)
    <2>0. /\ q \in Bufq /\ e \in Msg
          /\ p \in Msg \cup {Nil} /\ f \in Msg \cup {Nil} /\ p # e /\ f # e
      BY <1>5
    <2>1. b = Between(q, p, e, f)
      BY DEF p, f
    <2> QED
      BY <2>0, <2>1, BetweenIs
  <1> USE DEF IsBetween
  <1>7. NoTwice(t) /\ DOMAIN t = 1..(l + 1)
    <2>1. DOMAIN t = 1..(l + 1)
      BY <1>2, LenProperties
    <2>2. ASSUME NEW j \in 1..(l + 1), NEW k \in 1..(l + 1), t[j] = t[k] PROVE j = k
      <3>1. ASSUME NEW h \in 1..(l + 1), h # i
            PROVE  IF h < i THEN h \in 1..l /\ t[h] = s[h] ELSE h - 1 \in 1..l
                     /\ t[h] = s[h - 1]
        BY <1>1, <1>2, <1>3, <3>1
      <3>2. t[i] = e
        BY <1>2, <1>3
      <3>3. CASE j = i
        BY <1>1, <2>2, <3>1, <3>2, <3>3
      <3>4. CASE k = i
        BY <1>1, <2>2, <3>1, <3>2, <3>4
      <3>5. CASE j # i /\ k # i
        <4>1. CASE j < i /\ k < i
          BY <1>1, <2>2, <3>1, <3>5, <4>1
        <4>2. CASE j < i /\ ~(k < i)
          <5>1. j = k - 1
            BY <1>1, <2>2, <3>1, <3>5, <4>2
          <5> QED
            BY <1>3, <3>5, <4>2, <5>1
        <4>3. CASE ~(j < i) /\ k < i
          <5>1. k = j - 1
            BY <1>1, <2>2, <3>1, <3>5, <4>3
          <5> QED
            BY <1>3, <3>5, <4>3, <5>1
        <4>4. CASE ~(j < i) /\ ~(k < i)
          <5>1. j - 1 = k - 1
            BY <1>1, <2>2, <3>1, <3>5, <4>4
          <5> QED
            BY <5>1
        <4> QED
          BY <4>1, <4>2, <4>3, <4>4
      <3> QED
        BY <3>3, <3>4, <3>5
    <2> QED
      BY <2>1, <2>2 DEF NoTwice
  <1>8. \A k \in Int : Nth(t, k) = IF k \in 1..(l + 1) THEN t[k] ELSE Nil
    BY <1>7 DEF Nth
  <1>9. b.head = Nth(t, 1) /\ b.tail = Nth(t, l + 1)
    <2>1. Nth(t, 1) = t[1] /\ Nth(t, l + 1) = t[l + 1]
      BY <1>1, <1>8
    <2>2. b.head = t[1]
      <3>1. CASE i = 1
        BY <1>1, <1>2, <1>5, <1>6, <3>1
      <3>2. CASE i # 1
        <4>1. 1 < i /\ 1 \in 1..l /\ 1 \in 1..(l + 1)
          BY <1>1, <1>3, <3>2
        <4>2. q.head = s[1] /\ t[1] = s[1]
          BY <1>1, <1>2, <1>4, <4>1
        <4> QED
          BY <1>5, <1>6, <3>2, <4>2
      <3> QED
        BY <3>1, <3>2
    <2>3. b.tail = t[l + 1]
      <3>1. CASE i = l + 1
        BY <1>1, <1>2, <1>5, <1>6, <3>1
      <3>2. CASE i # l + 1
        <4>1. ~(l + 1 < i) /\ l \in 1..l /\ l + 1 \in 1..(l + 1) /\ l + 1 - 1 = l
          BY <1>1, <1>3, <3>2
        <4>2. q.tail = s[l] /\ t[l + 1] = s[l]
          BY <1>1, <1>2, <1>4, <3>2, <4>1
        <4> QED
          BY <1>5, <1>6, <3>2, <4>2
      <3> QED
        BY <3>1, <3>2
    <2> QED
      BY <2>1, <2>2, <2>3
  <1>10. ASSUME NEW j \in 1..(l + 1)
         PROVE  b.next[t[j]] = Nth(t, j + 1) /\ b.prev[t[j]] = Nth(t, j - 1)
    <2>1. CASE j = i
      <3>1. t[j] = e /\ b.next[e] = f /\ b.prev[e] = p
        BY <1>2, <1>3, <1>5, <1>6, <2>1
      <3>2. f = Nth(t, i + 1)
        <4>1. CASE i = l + 1
          <5>1. i + 1 \notin 1..(l + 1) /\ i + 1 \in Int
            BY <1>1, <4>1
          <5> QED
            BY <1>5, <1>8, <4>1, <5>1
        <4>2. CASE i # l + 1
          <5>1. i + 1 \in 1..(l + 1) /\ ~(i + 1 < i) /\ i + 1 # i /\ i + 1 - 1 = i
            BY <1>1, <1>3, <4>2
          <5>2. t[i + 1] = s[i]
            BY <1>2, <5>1
          <5> QED
            BY <1>5, <1>8, <4>2, <5>1, <5>2
        <4> QED
          BY <4>1, <4>2
      <3>3. p = Nth(t, i - 1)
        <4>1. CASE i = 1
          <5>1. i - 1 \notin 1..(l + 1) /\ i - 1 \in Int
            BY <1>1, <4>1
          <5> QED
            BY <1>5, <1>8, <4>1, <5>1
        <4>2. CASE i # 1
          <5>1. i - 1 \in 1..(l + 1) /\ i - 1 < i
            BY <1>1, <1>3, <4>2
          <5>2. t[i - 1] = s[i - 1]
            BY <1>2, <5>1
          <5> QED
            BY <1>5, <1>8, <4>2, <5>1, <5>2
        <4> QED
          BY <4>1, <4>2
      <3> QED
        BY <2>1, <3>1, <3>2, <3>3
    <2>2. CASE j < i
      <3>1. j \in 1..l /\ t[j] = s[j] /\ j \in Int /\ i \in Int
        BY <1>1, <1>2, <1>3, <2>2
      <3>2. s[j] # e /\ s[j] \in Msg /\ s[j] # f
        <4>1. i # l + 1 => i \in 1..l /\ i # j /\ f = s[i]
          BY <1>1, <1>3, <1>5, <2>2
        <4> QED
          BY <1>1, <1>5, <3>1, <4>1
      <3>3. b.prev[t[j]] = Nth(t, j - 1)
        <4>1. b.prev[t[j]] = Nth(s, j - 1)
          BY <1>4, <1>6, <3>1, <3>2
        <4>2. CASE j = 1
          <5>1. j - 1 \notin 1..l /\ j - 1 \notin 1..(l + 1) /\ j - 1 \in Int
            BY <4>2
          <5> QED
            BY <1>1, <1>8, <4>1, <5>1
        <4>3. CASE j # 1
          <5>1. j - 1 \in 1..l /\ j - 1 \in 1..(l + 1) /\ j - 1 < i
            BY <1>1, <2>2, <3>1, <4>3
          <5> QED
            BY <1>1, <1>2, <1>8, <4>1, <5>1
        <4> QED
          BY <4>2, <4>3
      <3>4. b.next[t[j]] = Nth(t, j + 1)
        <4>1. j + 1 \in 1..(l + 1) /\ j + 1 \in Int
          BY <1>1, <3>1
        <4>2. CASE j = i - 1
          <5>1. p = s[j] /\ j + 1 = i /\ t[i] = e
            BY <1>2, <1>3, <1>5, <3>1, <4>2
          <5> QED
            BY <1>6, <1>8, <3>1, <3>2, <4>1, <5>1
        <4>3. CASE j # i - 1
          <5>1. /\ j + 1 < i /\ j + 1 \in 1..l
            BY <1>1, <1>3, <2>2, <3>1, <4>3
          <5>2. s[j] # p
            <6>1. i - 1 \in 1..l /\ i # 1
              BY <1>1, <1>3, <2>2, <3>1
            <6> QED
              BY <1>1, <1>5, <3>1, <4>3, <6>1
          <5>3. b.next[t[j]] = Nth(s, j + 1)
            BY <1>4, <1>6, <3>1, <3>2, <5>2
          <5>4. t[j + 1] = s[j + 1]
            BY <1>2, <4>1, <5>1
          <5> QED
            BY <1>1, <1>8, <4>1, <5>1, <5>3, <5>4
        <4> QED
          BY <4>2, <4>3
      <3> QED
        BY <3>3, <3>4
    <2>3. CASE i < j
      <3>1. j - 1 \in 1..l /\ t[j] = s[j - 1] /\ j \in Int /\ i \in Int
        BY <1>1, <1>2, <1>3, <2>3
      <3>2. s[j - 1] # e /\ s[j - 1] \in Msg /\ s[j - 1] # p
        <4>1. i # 1 => i - 1 \in 1..l /\ i - 1 # j - 1 /\ p = s[i - 1]
          BY <1>1, <1>3, <1>5, <2>3
        <4> QED
          BY <1>1, <1>5, <3>1, <4>1
      <3>3. b.next[t[j]] = Nth(t, j + 1)
        <4>1. b.next[t[j]] = Nth(s, j - 1 + 1) /\ j - 1 + 1 = j
          BY <1>4, <1>6, <3>1, <3>2
        <4>2. CASE j = l + 1
          <5>1. j \notin 1..l /\ j + 1 \notin 1..(l + 1) /\ j + 1 \in Int
            BY <1>1, <4>2
          <5> QED
            BY <1>1, <1>8, <3>1, <4>1, <5>1
        <4>3. CASE j # l + 1
          <5>1. /\ j \in 1..l /\ j + 1 \in 1..(l + 1) /\ ~(j + 1 < i) /\ j + 1 # i
                /\ j + 1 - 1 = j
            BY <1>1, <2>3, <3>1, <4>3
          <5>2. t[j + 1] = s[j]
            BY <1>2, <5>1
          <5> QED
            BY <1>1, <1>8, <3>1, <4>1, <5>1, <5>2
        <4> QED
          BY <4>2, <4>3
      <3>4. b.prev[t[j]] = Nth(t, j - 1)
        <4>1. j - 1 \in 1..(l + 1) /\ j - 1 \in Int
          BY <1>1, <3>1
        <4>2. CASE j = i + 1
          <5>1. f = s[j - 1] /\ j - 1 = i /\ t[i] = e
            <6>1. i # l + 1 /\ j - 1 = i
              BY <1>1, <3>1, <4>2
            <6> QED
              BY <1>2, <1>3, <1>5, <6>1
          <5> QED
            BY <1>6, <1>8, <3>1, <3>2, <4>1, <5>1
        <4>3. CASE j # i + 1
          <5>1. i \in 1..l /\ i # l + 1 /\ i # j - 1 /\ ~(j - 1 < i)
            BY <1>1, <1>3, <2>3, <3>1, <4>3
          <5>2. s[j - 1] # f
            BY <1>1, <1>5, <3>1, <5>1
          <5>3. b.prev[t[j]] = Nth(s, j - 1 - 1)
            BY <1>4, <1>6, <3>1, <3>2, <5>2
          <5>4. j - 1 - 1 \in 1..l
            BY <1>1, <1>3, <2>3, <3>1, <4>3
          <5>5. t[j - 1] = s[j - 1 - 1]
            BY <1>2, <4>1, <5>1
          <5> QED
            BY <1>1, <1>8, <4>1, <5>3, <5>4, <5>5
        <4> QED
          BY <4>2, <4>3
      <3> QED
        BY <3>3, <3>4
    <2> QED
      BY <1>3, <2>1, <2>2, <2>3
  <1>11. Links(b, t)
    BY <1>2, <1>7, <1>9, <1>10 DEF Links
  <1>12. ToSet(t) = ToSet(s) \cup {e}
    <2>1. ASSUME NEW x \in ToSet(t) PROVE x \in ToSet(s) \cup {e}
      <3>1. PICK k \in 1..(l + 1) : x = t[k]
        BY <1>7 DEF ToSet
      <3>2. k < i => k \in 1..l
        BY <1>1, <1>3
      <3>3. i < k => k - 1 \in 1..l
        BY <1>1, <1>3
      <3> QED
        BY <1>1, <1>2, <1>3, <3>1, <3>2, <3>3
    <2>2. e \in ToSet(t)
      BY <1>2, <1>3, <1>7 DEF ToSet
    <2>3. ASSUME NEW x \in ToSet(s) PROVE x \in ToSet(t)
      <3>1. PICK k \in 1..l : x = s[k]
        BY <1>1
      <3>2. CASE k < i
        <4>1. k \in 1..(l + 1)
          BY <1>1
        <4> QED
          BY <1>2, <1>7, <3>1, <3>2, <4>1 DEF ToSet
      <3>3. CASE ~(k < i)
        <4>1. k + 1 \in 1..(l + 1) /\ ~(k + 1 < i) /\ k + 1 # i /\ k + 1 - 1 = k
          BY <1>1, <1>3, <3>3
        <4>2. t[k + 1] = x
          BY <1>2, <3>1, <4>1
        <4> QED
          BY <1>7, <4>1, <4>2 DEF ToSet
      <3> QED
        BY <3>2, <3>3
    <2> QED
      BY <2>1, <2>2, <2>3
  <1>13. ASSUME NEW x \in Msg, x \notin ToSet(t) PROVE b.next[x] = q.next[x]
    <2>1. x # e /\ \A k \in 1..l : x # s[k]
      BY <1>1, <1>12, <1>13
    <2>2. x # p
      <3>1. i # 1 => i - 1 \in 1..l
        BY <1>1, <1>3
      <3> QED
        BY <1>5, <2>1, <3>1, MsgAssumption
    <2> QED
      BY <1>6, <2>1, <2>2
  <1> QED
    BY <1>2, <1>6, <1>7, <1>11, <1>12, <1>13 DEF l, Keeps

(* b is q without m, whose neighbours are p and s.                         *)
IsWithout(b, q, p, m, s) ==
  /\ b \in Bufq /\ b.msgs = q.msgs - 1
  /\ q.msgs = 1 => b.count = 0
  /\ q.msgs # 1 /\ q.count >= length[m] => b.count = q.count - length[m]
  /\ p = Nil => b.head = s
  /\ p # Nil => b.head = q.head
  /\ s = Nil => b.tail = p
  /\ s # Nil => b.tail = q.tail
  /\ \A x \in Msg :
       /\ x = m => b.next[x] = Nil
       /\ x # m /\ x = p => b.next[x] = s
       /\ x # m /\ x = s => b.prev[x] = p
       /\ x # m /\ x # p => b.next[x] = q.next[x]
       /\ x # m /\ x # s => b.prev[x] = q.prev[x]

(* So does Without.                                                        *)
LEMMA WithoutIs ==
  ASSUME NEW q \in Bufq, NEW m \in Msg, length[m] \in Nat, q.msgs \in Nat \ {0}
  PROVE  IsWithout(Without(q, m), q, q.prev[m], m, q.next[m])
  <1> DEFINE p == q.prev[m]
             s == q.next[m]
             Ptr == [Msg -> Msg \cup {Nil}]
             f == Link(q.next, p, s)
             g == Link(q.prev, s, p)
             nx == [f EXCEPT ![m] = Nil]
             pv == [g EXCEPT ![m] = Nil]
             hd == IF p = Nil THEN s ELSE q.head
             tl == IF s = Nil THEN p ELSE q.tail
             c == [q EXCEPT !.head = hd, !.tail = tl, !.next = nx, !.prev = pv]
             ct == IF c.msgs = 1 THEN 0
                   ELSE IF c.count >= length[m] THEN c.count - length[m] ELSE 0
             b == [c EXCEPT !.msgs = @ - 1, !.count = ct]
  <1>1. q.next \in Ptr /\ q.prev \in Ptr /\ p \in Msg \cup {Nil} /\ s \in Msg \cup {Nil}
    BY DEF Bufq
  <1>0. Without(q, m) = b
    BY DEF Without, Sub
  <1> HIDE DEF p, s
  <1>2. f \in Ptr /\ \A x \in Msg : (x = p => f[x] = s) /\ (x # p => f[x] = q.next[x])
    <2>1. CASE p = Nil
      <3>1. \A x \in Msg : x # p
        BY <2>1, MsgAssumption
      <3> QED
        BY <1>1, <2>1, <3>1 DEF Link
    <2>2. CASE p # Nil
      BY <1>1, <2>2 DEF Link
    <2> QED
      BY <2>1, <2>2
  <1>3. g \in Ptr /\ \A x \in Msg : (x = s => g[x] = p) /\ (x # s => g[x] = q.prev[x])
    <2>1. CASE s = Nil
      <3>1. \A x \in Msg : x # s
        BY <2>1, MsgAssumption
      <3> QED
        BY <1>1, <2>1, <3>1 DEF Link
    <2>2. CASE s # Nil
      BY <1>1, <2>2 DEF Link
    <2> QED
      BY <2>1, <2>2
  <1> HIDE DEF f, g
  <1>5. nx \in Ptr /\ \A x \in Msg : (x = m => nx[x] = Nil) /\ (x # m => nx[x] = f[x])
    BY <1>2
  <1>6. pv \in Ptr /\ \A x \in Msg : (x = m => pv[x] = Nil) /\ (x # m => pv[x] = g[x])
    BY <1>3
  <1>7. hd \in Msg \cup {Nil} /\ tl \in Msg \cup {Nil}
    BY <1>1 DEF Bufq
  <1> HIDE DEF nx, pv, hd, tl
  <1>8. /\ c \in Bufq /\ c.msgs = q.msgs /\ c.count = q.count
        /\ c.head = hd /\ c.tail = tl /\ c.next = nx /\ c.prev = pv
    BY <1>5, <1>6, <1>7 DEF Bufq
  <1> HIDE DEF c
  <1>9. /\ ct \in Nat
        /\ q.msgs = 1 => ct = 0
        /\ q.msgs # 1 /\ q.count >= length[m] => ct = q.count - length[m]
    <2>1. q.count \in Nat
      BY DEF Bufq
    <2> QED
      BY <1>8, <2>1
  <1> HIDE DEF ct
  <1>10. /\ b \in Bufq /\ b.msgs = q.msgs - 1 /\ b.count = ct
         /\ b.head = hd /\ b.tail = tl /\ b.next = nx /\ b.prev = pv
    <2>1. q.msgs - 1 \in Nat
      OBVIOUS
    <2> QED
      BY <1>8, <1>9, <2>1 DEF Bufq
  <1> HIDE DEF b
  <1>11. ASSUME NEW x \in Msg
         PROVE  /\ x = m => b.next[x] = Nil
                /\ x # m /\ x = p => b.next[x] = s
                /\ x # m /\ x = s => b.prev[x] = p
                /\ x # m /\ x # p => b.next[x] = q.next[x]
                /\ x # m /\ x # s => b.prev[x] = q.prev[x]
    BY <1>2, <1>3, <1>5, <1>6, <1>10
  <1> QED
    BY <1>0, <1>9, <1>10, <1>11 DEF p, s, hd, tl, IsWithout

(* b is q without m; the rest is as in q.                                  *)
Loses(b, q, m, t) ==
  /\ b.msgs = q.msgs - 1
  /\ q.msgs = 1 => b.count = 0
  /\ q.msgs # 1 /\ q.count >= length[m] => b.count = q.count - length[m]
  /\ b.next[m] = Nil
  /\ \A x \in Msg : x \notin ToSet(t) /\ x # m => b.next[x] = q.next[x]

(* From any place: the links are those of the sequence without m.          *)
LEMMA MessageLeaves ==
  ASSUME NEW q \in Bufq, NEW s \in Seq(Msg), NoTwice(s), Links(q, s),
         q.msgs \in Nat \ {0}, NEW i \in 1..Len(s), NEW m, m = s[i], length[m] \in Nat,
         NEW b, b = Without(q, m), NEW t, t = RemoveAt(s, i)
  PROVE  /\ b \in Bufq /\ Loses(b, q, m, s) /\ m \in Msg
         /\ t \in Seq(Msg) /\ Len(t) = Len(s) - 1 /\ NoTwice(t) /\ Links(b, t)
         /\ ToSet(t) = ToSet(s) \ {m}
  <1> DEFINE l == Len(s)
             p == Nth(s, i - 1)
             f == Nth(s, i + 1)
  <1>1. /\ l \in Nat /\ DOMAIN s = 1..l
        /\ \A k \in Int : Nth(s, k) = IF k \in 1..l THEN s[k] ELSE Nil
        /\ \A k \in 1..l : s[k] \in Msg /\ s[k] # Nil
        /\ \A j, k \in 1..l : s[j] = s[k] => j = k
        /\ \A x : x \in ToSet(s) <=> \E k \in 1..l : x = s[k]
    BY Places
  <1>2. /\ t \in Seq(Msg) /\ Len(t) = l - 1
        /\ \A k \in 1..(l - 1) : t[k] = IF k < i THEN s[k] ELSE s[k + 1]
    <2> HIDE DEF l
    <2>0. s \in Seq(Msg) /\ i \in 1..Len(s)
      OBVIOUS
    <2>1. WithoutOne(t, Msg, s, i)
      BY <2>0, Removed, Zenon
    <2> QED
      BY <2>1, Zenon DEF l, WithoutOne
  <1>3. i \in 1..l /\ l # 0 /\ m \in Msg
    BY <1>1
  <1>4. /\ q.head = Nth(s, 1) /\ q.tail = Nth(s, l)
        /\ \A k \in 1..l : q.next[s[k]] = Nth(s, k + 1) /\ q.prev[s[k]] = Nth(s, k - 1)
    BY <1>1 DEF Links
  <1>m. m = s[i]
    OBVIOUS
  <1> HIDE DEF l
  <1>5. /\ i = 1 => p = Nil
        /\ i # 1 => i - 1 \in 1..l /\ p = s[i - 1] /\ p # Nil
        /\ i = l => f = Nil
        /\ i # l => i + 1 \in 1..l /\ f = s[i + 1] /\ f # Nil
        /\ p = q.prev[m] /\ f = q.next[m]
    <2>1. i = 1 => p = Nil
      BY <1>1
    <2>2. i # 1 => i - 1 \in 1..l /\ p = s[i - 1] /\ p # Nil
      BY <1>1, <1>3
    <2>3. i = l => f = Nil
      BY <1>1
    <2>4. i # l => i + 1 \in 1..l /\ f = s[i + 1] /\ f # Nil
      BY <1>1, <1>3
    <2>5. p = q.prev[m] /\ f = q.next[m]
      BY <1>3, <1>4, <1>m
    <2> QED
      BY <2>1, <2>2, <2>3, <2>4, <2>5
  <1> HIDE DEF p, f
  <1>6. IsWithout(b, q, p, m, f)
    <2>1. p = q.prev[m] /\ f = q.next[m] /\ q \in Bufq /\ m \in Msg /\ length[m] \in Nat
      BY <1>3, <1>5
    <2>2. q.msgs \in Nat \ {0}
      OBVIOUS
    <2>3. IsWithout(Without(q, m), q, p, m, f)
      BY <2>1, <2>2, WithoutIs, Zenon
    <2> QED
      BY <2>3
  <1> USE DEF IsWithout
  <1>7. NoTwice(t) /\ DOMAIN t = 1..(l - 1)
    <2>1. DOMAIN t = 1..(l - 1)
      BY <1>2, LenProperties
    <2>2. ASSUME NEW j \in 1..(l - 1), NEW k \in 1..(l - 1), t[j] = t[k] PROVE j = k
      <3>1. \A h \in 1..(l - 1) : h \in 1..l /\ h + 1 \in 1..l
        BY <1>1
      <3>2. CASE j < i /\ k < i
        BY <1>1, <1>2, <2>2, <3>1, <3>2
      <3>3. CASE j < i /\ ~(k < i)
        <4>1. j = k + 1
          BY <1>1, <1>2, <2>2, <3>1, <3>3
        <4> QED
          BY <1>3, <3>3, <4>1
      <3>4. CASE ~(j < i) /\ k < i
        <4>1. k = j + 1
          BY <1>1, <1>2, <2>2, <3>1, <3>4
        <4> QED
          BY <1>3, <3>4, <4>1
      <3>5. CASE ~(j < i) /\ ~(k < i)
        <4>1. j + 1 = k + 1
          BY <1>1, <1>2, <2>2, <3>1, <3>5
        <4> QED
          BY <4>1
      <3> QED
        BY <3>2, <3>3, <3>4, <3>5
    <2> QED
      BY <2>1, <2>2 DEF NoTwice
  <1>8. \A k \in Int : Nth(t, k) = IF k \in 1..(l - 1) THEN t[k] ELSE Nil
    BY <1>7 DEF Nth
  <1>9. b.head = Nth(t, 1)
    <2>1. CASE i = 1
      <3>1. b.head = f
        BY <1>5, <1>6, <2>1
      <3>2. CASE l = 1
        <4>1. 1 \notin 1..(l - 1)
          BY <3>2
        <4> QED
          BY <1>5, <1>8, <2>1, <3>1, <3>2, <4>1
      <3>3. CASE l # 1
        <4>1. 1 \in 1..(l - 1) /\ ~(1 < i) /\ i + 1 = 1 + 1
          BY <1>1, <1>3, <2>1, <3>3
        <4>2. t[1] = s[1 + 1]
          BY <1>2, <4>1
        <4> QED
          BY <1>5, <1>8, <2>1, <3>1, <3>3, <4>1, <4>2
      <3> QED
        BY <3>2, <3>3
    <2>2. CASE i # 1
      <3>1. 1 \in 1..(l - 1) /\ 1 < i /\ 1 \in 1..l
        BY <1>1, <1>3, <2>2
      <3>2. q.head = s[1] /\ t[1] = s[1]
        BY <1>1, <1>2, <1>4, <3>1
      <3> QED
        BY <1>5, <1>6, <1>8, <2>2, <3>1, <3>2
    <2> QED
      BY <2>1, <2>2
  <1>10. b.tail = Nth(t, l - 1)
    <2>1. CASE i = l
      <3>1. b.tail = p
        BY <1>5, <1>6, <2>1
      <3>2. CASE l = 1
        <4>1. l - 1 \notin 1..(l - 1) /\ l - 1 \in Int
          BY <3>2
        <4> QED
          BY <1>5, <1>8, <2>1, <3>1, <3>2, <4>1
      <3>3. CASE l # 1
        <4>1. l - 1 \in 1..(l - 1) /\ l - 1 < i /\ l - 1 \in Int
          BY <1>1, <1>3, <2>1, <3>3
        <4>2. t[l - 1] = s[l - 1]
          BY <1>2, <4>1
        <4> QED
          BY <1>5, <1>8, <2>1, <3>1, <3>3, <4>1, <4>2
      <3> QED
        BY <3>2, <3>3
    <2>2. CASE i # l
      <3>1. /\ l - 1 \in 1..(l - 1) /\ ~(l - 1 < i) /\ l \in 1..l /\ l - 1 + 1 = l
            /\ l - 1 \in Int
        BY <1>1, <1>3, <2>2
      <3>2. q.tail = s[l] /\ t[l - 1] = s[l]
        <4>1. t[l - 1] = s[l - 1 + 1]
          BY <1>2, <3>1
        <4> QED
          BY <1>1, <1>4, <3>1, <4>1
      <3> QED
        BY <1>5, <1>6, <1>8, <2>2, <3>1, <3>2
    <2> QED
      BY <2>1, <2>2
  <1>11. ASSUME NEW j \in 1..(l - 1)
         PROVE  b.next[t[j]] = Nth(t, j + 1) /\ b.prev[t[j]] = Nth(t, j - 1)
    <2>1. CASE j < i
      <3>1. /\ j \in 1..l /\ t[j] = s[j] /\ j \in Int /\ j # i /\ s[j] # m
                 /\ s[j] \in Msg
            /\ j + 1 \in Int /\ j - 1 \in Int
        BY <1>1, <1>2, <1>3, <1>m, <2>1
      <3>2. s[j] # f
        <4>1. i # l => i + 1 # j
          BY <1>1, <1>3, <2>1
        <4> QED
          BY <1>1, <1>5, <3>1, <4>1
      <3>3. b.prev[t[j]] = Nth(t, j - 1)
        <4>1. b.prev[t[j]] = Nth(s, j - 1)
          BY <1>4, <1>6, <3>1, <3>2
        <4>2. CASE j = 1
          <5>1. j - 1 \notin 1..l /\ j - 1 \notin 1..(l - 1)
            BY <4>2
          <5> QED
            BY <1>1, <1>8, <3>1, <4>1, <5>1
        <4>3. CASE j # 1
          <5>1. j - 1 \in 1..l /\ j - 1 \in 1..(l - 1) /\ j - 1 < i
            BY <1>1, <1>3, <2>1, <3>1, <4>3
          <5> QED
            BY <1>1, <1>2, <1>8, <3>1, <4>1, <5>1
        <4> QED
          BY <4>2, <4>3
      <3>4. b.next[t[j]] = Nth(t, j + 1)
        <4>1. CASE j = i - 1
          <5>1. p = s[j] /\ j + 1 = i
            <6>1. i # 1 /\ j + 1 = i
              BY <1>3, <3>1, <4>1
            <6> QED
              BY <1>5, <4>1, <6>1
          <5>2. b.next[t[j]] = f
            BY <1>6, <3>1, <5>1
          <5>3. CASE i = l
            <6>1. j + 1 \notin 1..(l - 1)
              BY <1>1, <5>1, <5>3
            <6> QED
              BY <1>5, <1>8, <3>1, <5>2, <5>3, <6>1
          <5>4. CASE i # l
            <6>1. j + 1 \in 1..(l - 1) /\ ~(j + 1 < i)
              BY <1>1, <1>3, <5>1, <5>4
            <6>2. t[i] = s[i + 1]
              BY <1>2, <5>1, <6>1
            <6> QED
              BY <1>5, <1>8, <3>1, <5>1, <5>2, <5>4, <6>1, <6>2
          <5> QED
            BY <5>3, <5>4
        <4>2. CASE j # i - 1
          <5>1. j + 1 < i /\ j + 1 \in 1..l /\ j + 1 \in 1..(l - 1)
            BY <1>1, <1>3, <2>1, <3>1, <4>2
          <5>2. s[j] # p
            <6>1. i # 1
              BY <1>3, <2>1, <3>1
            <6> QED
              BY <1>1, <1>5, <3>1, <4>2, <6>1
          <5>3. b.next[t[j]] = Nth(s, j + 1)
            BY <1>4, <1>6, <3>1, <5>2
          <5>4. t[j + 1] = s[j + 1]
            BY <1>2, <5>1
          <5> QED
            BY <1>1, <1>8, <3>1, <5>1, <5>3, <5>4
        <4> QED
          BY <4>1, <4>2
      <3> QED
        BY <3>3, <3>4
    <2>2. CASE ~(j < i)
      <3>k. PICK k : k = j + 1
        OBVIOUS
      <3>1. /\ k \in 1..l /\ t[j] = s[k] /\ k \in Int /\ k # i /\ s[k] # m
                 /\ s[k] \in Msg
            /\ k + 1 \in Int /\ k - 1 = j /\ j \in Int
        <4>1. k \in 1..l /\ k # i /\ k \in Int /\ k + 1 \in Int /\ k - 1 = j
                /\ j \in Int
          BY <1>1, <1>3, <2>2, <3>k
        <4>2. t[j] = s[k]
          BY <1>2, <2>2, <3>k
        <4> QED
          BY <1>1, <1>3, <1>m, <4>1, <4>2
      <3>2. s[k] # p
        <4>1. i # 1 => i - 1 # k
          BY <1>1, <1>3, <2>2, <3>k
        <4> QED
          BY <1>1, <1>5, <3>1, <4>1
      <3>3. b.next[t[j]] = Nth(t, j + 1)
        <4>1. b.next[t[j]] = Nth(s, k + 1)
          BY <1>4, <1>6, <3>1, <3>2
        <4>2. CASE k = l
          <5>1. k + 1 \notin 1..l /\ j + 1 \notin 1..(l - 1) /\ j + 1 \in Int
            BY <1>1, <3>1, <3>k, <4>2
          <5> QED
            BY <1>1, <1>8, <3>1, <4>1, <5>1
        <4>3. CASE k # l
          <5>1. k + 1 \in 1..l /\ j + 1 \in 1..(l - 1) /\ ~(j + 1 < i) /\ j + 1 \in Int
            BY <1>1, <1>3, <2>2, <3>1, <3>k, <4>3
          <5>2. t[j + 1] = s[k + 1]
            BY <1>2, <3>k, <5>1
          <5> QED
            BY <1>1, <1>8, <3>1, <4>1, <5>1, <5>2
        <4> QED
          BY <4>2, <4>3
      <3>4. b.prev[t[j]] = Nth(t, j - 1)
        <4>1. CASE k = i + 1
          <5>1. i # l /\ f = s[k] /\ j = i
            <6>1. i # l /\ j = i
              BY <1>1, <1>3, <3>1, <4>1
            <6> QED
              BY <1>5, <4>1, <6>1
          <5>2. b.prev[t[j]] = p
            BY <1>6, <3>1, <5>1
          <5>3. CASE i = 1
            <6>1. j - 1 \notin 1..(l - 1) /\ j - 1 \in Int
              BY <5>1, <5>3
            <6> QED
              BY <1>5, <1>8, <5>2, <5>3, <6>1
          <5>4. CASE i # 1
            <6>1. i - 1 \in 1..(l - 1) /\ i - 1 < i /\ i - 1 \in Int
              BY <1>1, <1>3, <5>4
            <6>2. t[i - 1] = s[i - 1]
              BY <1>2, <6>1
            <6> QED
              BY <1>5, <1>8, <5>1, <5>2, <5>4, <6>1, <6>2
          <5> QED
            BY <5>3, <5>4
        <4>2. CASE k # i + 1
          <5>1. /\ j - 1 \in 1..(l - 1) /\ ~(j - 1 < i) /\ j - 1 + 1 = j /\ j \in 1..l
                /\ j - 1 \in Int
            BY <1>1, <1>3, <2>2, <3>1, <3>k, <4>2
          <5>2. s[k] # f
            BY <1>1, <1>5, <3>1, <4>2
          <5>3. b.prev[t[j]] = Nth(s, j)
            BY <1>4, <1>6, <3>1, <5>2
          <5>4. t[j - 1] = s[j]
            <6>1. t[j - 1] = s[j - 1 + 1]
              BY <1>2, <5>1
            <6> QED
              BY <5>1, <6>1
          <5> QED
            BY <1>1, <1>8, <3>1, <5>1, <5>3, <5>4
        <4> QED
          BY <4>1, <4>2
      <3> QED
        BY <3>3, <3>4
    <2> QED
      BY <2>1, <2>2
  <1>12. Links(b, t)
    BY <1>2, <1>7, <1>9, <1>10, <1>11 DEF Links
  <1>13. ToSet(t) = ToSet(s) \ {m}
    <2>1. ASSUME NEW x \in ToSet(t) PROVE x \in ToSet(s) /\ x # m
      <3>1. PICK k \in 1..(l - 1) : x = t[k]
        BY <1>7 DEF ToSet
      <3>2. k \in 1..l /\ k + 1 \in 1..l /\ (k < i => k # i) /\ (~(k < i) => k + 1 # i)
        BY <1>1, <1>3
      <3> QED
        BY <1>1, <1>2, <1>3, <1>m, <3>1, <3>2
    <2>2. ASSUME NEW x \in ToSet(s), x # m PROVE x \in ToSet(t)
      <3>1. PICK k \in 1..l : x = s[k]
        BY <1>1
      <3>2. k # i
        BY <1>m, <2>2, <3>1
      <3>3. CASE k < i
        <4>1. k \in 1..(l - 1)
          BY <1>1, <1>3, <3>3
        <4> QED
          BY <1>2, <1>7, <3>1, <3>3, <4>1 DEF ToSet
      <3>4. CASE i < k
        <4>1. k - 1 \in 1..(l - 1) /\ ~(k - 1 < i) /\ k - 1 + 1 = k
          BY <1>1, <1>3, <3>4
        <4>2. t[k - 1] = x
          BY <1>2, <3>1, <4>1
        <4> QED
          BY <1>7, <4>1, <4>2 DEF ToSet
      <3> QED
        BY <1>1, <1>3, <3>2, <3>3, <3>4
    <2> QED
      BY <2>1, <2>2
  <1>14. Loses(b, q, m, s)
    <2>1. ASSUME NEW x \in Msg, x \notin ToSet(s), x # m PROVE b.next[x] = q.next[x]
      <3>1. x # p
        BY <1>1, <1>3, <1>5, <2>1, MsgAssumption
      <3> QED
        BY <1>6, <2>1, <3>1
    <2> QED
      BY <1>3, <1>6, <2>1 DEF Loses
  <1> QED
    BY <1>2, <1>3, <1>6, <1>7, <1>12, <1>13, <1>14 DEF l

-----------------------------------------------------------------------------
(* The queue and its counters.                                             *)

(* Who is not among S is linked in b as in q.                              *)
Others(b, q, S) == \A x \in Msg : x \notin S => b.next[x] = q.next[x]

(* The lengths are numbers.                                                *)
LEMMA Lengths ==
  ASSUME QInv
  PROVE  length \in [Msg -> Nat]
  <1>1. length \in [Msg -> {0} \cup Size]
    BY DEF QInv
  <1>2. {0} \cup Size \subseteq Nat
    BY MsgAssumption
  <1> QED
    BY <1>1, <1>2

(* A message that enters is counted.                                       *)
LEMMA CountOneMore ==
  ASSUME NEW q \in Bufq, NEW s, Shape(q, s), length \in [Msg -> Nat],
         NEW i \in 1..(Len(s) + 1), NEW e \in Msg, e \notin ToSet(s),
         NEW b, b = Add(Between(q, Nth(s, i - 1), e, Nth(s, i)), e)
  PROVE  /\ b \in Bufq /\ Shape(b, InsertAt(s, i, e))
         /\ ToSet(InsertAt(s, i, e)) = ToSet(s) \cup {e}
         /\ Others(b, q, ToSet(s) \cup {e})
  <1> DEFINE a == Between(q, Nth(s, i - 1), e, Nth(s, i))
             t == InsertAt(s, i, e)
  <1>1. /\ s \in Seq(Msg) /\ NoTwice(s) /\ Links(q, s)
        /\ q.msgs = Len(s) /\ q.count = Abs!Sum(length, s)
    BY DEF Shape
  <1>2. /\ a \in Bufq /\ Keeps(a, q, t)
        /\ t \in Seq(Msg) /\ Len(t) = Len(s) + 1 /\ NoTwice(t) /\ Links(a, t)
        /\ ToSet(t) = ToSet(s) \cup {e}
    BY <1>1, MessageEnters
  <1>3. Abs!Sum(length, t) = Abs!Sum(length, s) + length[e]
    BY <1>1, SumInserted
  <1>4. b = [a EXCEPT !.msgs = @ + 1, !.count = @ + length[e]]
    BY DEF Add
  <1> HIDE DEF a, t
  <1>5. length[e] \in Nat /\ a.msgs = Len(s) /\ a.count = Abs!Sum(length, s)
    BY <1>1, <1>2 DEF Keeps
  <1>6. /\ b \in Bufq /\ b.msgs = a.msgs + 1 /\ b.count = a.count + length[e]
        /\ b.head = a.head /\ b.tail = a.tail /\ b.next = a.next /\ b.prev = a.prev
    <2>1. a \in Bufq /\ a.count \in Nat /\ a.msgs \in Nat
      BY <1>2 DEF Bufq
    <2> DEFINE k == a.msgs + 1
               c == a.count + length[e]
    <2>2. k \in Nat /\ c \in Nat /\ b = [a EXCEPT !.msgs = k, !.count = c]
      BY <1>4, <1>5, <2>1
    <2> HIDE DEF k, c
    <2>3. /\ b \in Bufq /\ b.msgs = k /\ b.count = c
          /\ b.head = a.head /\ b.tail = a.tail /\ b.next = a.next /\ b.prev = a.prev
      BY <2>1, <2>2 DEF Bufq
    <2> QED
      BY <2>3 DEF k, c
  <1>7. Links(b, t)
    BY <1>2, <1>6 DEF Links
  <1>8. b.msgs = Len(t) /\ b.count = Abs!Sum(length, t)
    BY <1>2, <1>3, <1>5, <1>6
  <1>9. Others(b, q, ToSet(s) \cup {e})
    BY <1>2, <1>6 DEF Others, Keeps
  <1> QED
    BY <1>2, <1>6, <1>7, <1>8, <1>9 DEF Shape, t

(* One that leaves is counted no more.                                     *)
LEMMA CountOneLess ==
  ASSUME NEW q \in Bufq, NEW s, Shape(q, s), length \in [Msg -> Nat],
         NEW i \in 1..Len(s), NEW b, b = Without(q, s[i])
  PROVE  /\ b \in Bufq /\ Shape(b, RemoveAt(s, i)) /\ s[i] \in Msg
         /\ ToSet(RemoveAt(s, i)) = ToSet(s) \ {s[i]}
         /\ Len(RemoveAt(s, i)) = Len(s) - 1
         /\ b.next[s[i]] = Nil /\ Others(b, q, ToSet(s))
  <1> DEFINE t == RemoveAt(s, i)
             m == s[i]
  <1>1. /\ s \in Seq(Msg) /\ NoTwice(s) /\ Links(q, s)
        /\ q.msgs = Len(s) /\ q.count = Abs!Sum(length, s)
    BY DEF Shape
  <1>2. Len(s) \in Nat /\ m \in Msg /\ length[m] \in Nat
    BY <1>1, Places
  <1>3. q.msgs \in Nat \ {0}
    BY <1>1, <1>2
  <1>4. /\ b \in Bufq /\ Loses(b, q, m, s)
        /\ t \in Seq(Msg) /\ Len(t) = Len(s) - 1 /\ NoTwice(t) /\ Links(b, t)
        /\ ToSet(t) = ToSet(s) \ {m}
    <2> HIDE DEF t, m
    <2>1. m = s[i] /\ b = Without(q, m) /\ t = RemoveAt(s, i)
      BY DEF m, t
    <2> QED
      BY <1>1, <1>2, <1>3, <2>1, MessageLeaves
  <1>5. Abs!Sum(length, s) = Abs!Sum(length, t) + length[m]
          /\ Abs!Sum(length, t) \in Nat
    <2>1. Abs!Sum(length, s) = Abs!Sum(length, RemoveAt(s, i)) + length[s[i]]
      BY <1>1, SumRemoved
    <2>2. Abs!Sum(length, t) \in Nat
      <3> HIDE DEF t
      <3>1. t \in Seq(Msg) /\ length \in [Msg -> Nat]
        BY <1>4, Zenon
      <3> QED
        BY <3>1, SumNat, Zenon
    <2> QED
      BY <2>1, <2>2
  <1>6. Len(t) = 0 => Abs!Sum(length, t) = 0
    <2> HIDE DEF t
    <2>1. t \in Seq(Msg) /\ length \in [Msg -> Nat]
      BY <1>4, Zenon
    <2> QED
      BY <2>1, SumOfNone, Zenon
  <1> HIDE DEF t, m
  <1>7. /\ b.msgs = q.msgs - 1
        /\ q.msgs = 1 => b.count = 0
        /\ q.msgs # 1 /\ q.count >= length[m] => b.count = q.count - length[m]
        /\ b.next[m] = Nil
        /\ \A x \in Msg : x \notin ToSet(s) /\ x # m => b.next[x] = q.next[x]
    BY <1>4 DEF Loses
  <1>8. b.msgs = Len(t) /\ b.count = Abs!Sum(length, t)
    <2>1. CASE q.msgs = 1
      BY <1>1, <1>4, <1>6, <1>7, <2>1
    <2>2. CASE q.msgs # 1
      BY <1>1, <1>2, <1>4, <1>5, <1>7, <2>2
    <2> QED
      BY <2>1, <2>2
  <1>9. m \in ToSet(s)
    BY <1>1, Places DEF m
  <1>10. Others(b, q, ToSet(s))
    BY <1>7, <1>9 DEF Others
  <1> QED
    BY <1>2, <1>4, <1>7, <1>8, <1>10 DEF Shape, t, m

-----------------------------------------------------------------------------
(* The calls.                                                              *)

(* What QInv says of the queue.                                            *)
LEMMA InShape ==
  ASSUME QInv
  PROVE  /\ bq \in Bufq /\ Shape(bq, Forward) /\ length \in [Msg -> Nat]
         /\ Forward \in Seq(Msg) /\ NoTwice(Forward) /\ Links(bq, Forward)
         /\ bq.msgs = Len(Forward) /\ bq.count = Abs!Sum(length, Forward)
         /\ mine \subseteq Msg /\ InQueue \subseteq Msg /\ Len(Forward) \in Nat
         /\ \A m \in mine : m \notin InQueue /\ bq.next[m] = Nil
         /\ \A m \in mine \cup InQueue : length[m] \in Size
  <1>1. Shape(bq, Forward)
    BY DEF QInv
  <1>2. Forward \in Seq(Msg) /\ NoTwice(Forward)
    BY <1>1 DEF Shape
  <1>3. InQueue \subseteq Msg /\ Len(Forward) \in Nat
    BY <1>2, Places DEF InQueue
  <1> QED
    BY <1>1, <1>2, <1>3, Lengths DEF QInv, Shape

(* A call that leaves a queue of t has kept QInv, and the queue is t.      *)
LEMMA Becoming ==
  ASSUME QInv, NEW q \in Bufq, NEW t, Shape(q, t), NEW h, bq' = q, length' = length,
           mine' = h,
         h \subseteq mine \cup InQueue, ToSet(t) \subseteq mine \cup InQueue,
         \A m \in h : m \notin ToSet(t) /\ q.next[m] = Nil
  PROVE  QInv' /\ Forward' = t /\ Abs!Becomes(t, h)
  <1>1. t \in Seq(Msg) /\ NoTwice(t) /\ Links(q, t) /\ q.msgs = Len(t)
          /\ q.count = Abs!Sum(length, t)
    BY DEF Shape
  <1>2. Forward' = t
    <2>1. Walk(q.head, q.next) = t
      BY <1>1, ReadBothWays
    <2> QED
      BY <2>1 DEF Forward
  <1>3. InQueue' = ToSet(t)
    BY <1>2 DEF InQueue
  <1>4. Shape(bq, Forward)'
    BY <1>1, <1>2 DEF Shape, Links
  <1>5. QInv'
    <2>1. mine' \subseteq Msg /\ length' \in [Msg -> {0} \cup Size]
      BY InShape DEF QInv
    <2>2. \A m \in mine' \cup InQueue' : length'[m] \in Size
      BY <1>3, InShape
    <2>3. \A m \in mine' : m \notin InQueue' /\ bq'.next[m] = Nil
      BY <1>3
    <2> QED
      BY <1>4, <2>1, <2>2, <2>3 DEF QInv
  <1>6. Abs!Becomes(t, h)
    BY <1>1, <1>2 DEF Abs!Becomes, Abs!Total
  <1> QED
    BY <1>2, <1>5, <1>6

(* A message of the client enters at a place.                              *)
EntersAt(e, i) ==
  /\ i \in 1..(Len(Forward) + 1)
  /\ Takes(e, Add(Between(bq, Nth(Forward, i - 1), e, Nth(Forward, i)), e))

LEMMA Entered ==
  ASSUME QInv, NEW i, NEW e, EntersAt(e, i)
  PROVE  QInv' /\ Abs!Enter /\ Puts(e, i)
  <1> DEFINE b == Add(Between(bq, Nth(Forward, i - 1), e, Nth(Forward, i)), e)
             t == InsertAt(Forward, i, e)
             h == mine \ {e}
  <1>1. /\ e \in mine /\ bq' = b /\ mine' = h /\ length' = length
        /\ i \in 1..(Len(Forward) + 1)
    BY DEF Takes, EntersAt
  <1>2. e \in Msg /\ e \notin ToSet(Forward)
    BY <1>1, InShape DEF InQueue
  <1>3. /\ b \in Bufq /\ Shape(b, t)
        /\ ToSet(t) = InQueue \cup {e} /\ Others(b, bq, InQueue \cup {e})
    BY <1>1, <1>2, InShape, CountOneMore DEF InQueue
  <1> HIDE DEF b, t
  <1>4. \A m \in h : m \notin ToSet(t) /\ b.next[m] = Nil
    BY <1>1, <1>3, InShape DEF Others
  <1>5. h \subseteq mine \cup InQueue /\ ToSet(t) \subseteq mine \cup InQueue
    BY <1>1, <1>3
  <1>6. QInv' /\ Abs!Becomes(t, h)
    <2> HIDE DEF h
    <2> QED
      BY <1>1, <1>3, <1>4, <1>5, Becoming
  <1>7. Abs!Becomes(Abs!InsertAt(Forward, i, e), mine \ {e})
    BY <1>6, Zenon DEF t, h, InsertAt, Abs!InsertAt
  <1>8. Abs!Enter
    BY <1>1, <1>7, Zenon DEF Abs!Enter
  <1>9. Puts(e, i)
    BY <1>6, Zenon DEF Puts, t, h
  <1> QED
    BY <1>6, <1>8, <1>9

(* The place where each of the four functions puts it.                     *)
LEMMA AtOnePlace ==
  ASSUME QInv, NEW m, NEW e
  PROVE  /\ Queue(e) => EntersAt(e, Len(Forward) + 1)
         /\ QueueHead(e) => EntersAt(e, 1)
         /\ Insert(m, e) => \E i \in At(m) : EntersAt(e, i)
         /\ AppendTo(m, e) => \E i \in At(m) : EntersAt(e, i + 1)
  <1> DEFINE l == Len(Forward)
             Goes(i) == Takes(e, Add(Between(bq, Nth(Forward, i - 1), e, Nth(Forward, i)), e))
  <1>1. /\ l \in Nat /\ DOMAIN Forward = 1..l
        /\ \A k \in Int : Nth(Forward, k) = IF k \in 1..l THEN Forward[k] ELSE Nil
        /\ \A x : x \in InQueue <=> \E k \in 1..l : x = Forward[k]
    BY InShape, Places DEF InQueue
  <1>2. /\ bq.head = Nth(Forward, 1) /\ bq.tail = Nth(Forward, l)
        /\ \A k \in 1..l : /\ bq.next[Forward[k]] = Nth(Forward, k + 1)
                           /\ bq.prev[Forward[k]] = Nth(Forward, k - 1)
    BY <1>1, InShape DEF Links
  <1>3. \A i : EntersAt(e, i) <=> i \in 1..(l + 1) /\ Goes(i)
    BY DEF EntersAt
  <1>4. \A i : i \in At(m) <=> i \in 1..l /\ Forward[i] = m
    BY <1>1 DEF At
  <1> HIDE DEF l
  <1>5. ASSUME Queue(e) PROVE EntersAt(e, l + 1)
    <2>k. PICK k : k = l + 1
      OBVIOUS
    <2>1. k \in 1..(l + 1) /\ k - 1 = l /\ Nth(Forward, k) = Nil
      BY <1>1, <2>k
    <2>2. Goes(k)
      BY <1>2, <1>5, <2>1 DEF Queue, AtTail
    <2> HIDE DEF Goes
    <2> QED
      BY <1>3, <2>k, <2>1, <2>2
  <1>6. ASSUME QueueHead(e) PROVE EntersAt(e, 1)
    <2>k. PICK k : k = 1
      OBVIOUS
    <2>1. k \in 1..(l + 1) /\ Nth(Forward, k - 1) = Nil /\ bq.head = Nth(Forward, k)
      BY <1>1, <1>2, <2>k
    <2>2. Goes(k)
      BY <1>6, <2>1 DEF QueueHead, AtHead
    <2> HIDE DEF Goes
    <2> QED
      BY <1>3, <2>k, <2>1, <2>2
  <1>7. ASSUME Insert(m, e) PROVE \E i \in At(m) : EntersAt(e, i)
    <2>1. PICK k \in 1..l : m = Forward[k]
      BY <1>1, <1>7 DEF Insert
    <2>2. k \in 1..(l + 1) /\ bq.prev[m] = Nth(Forward, k - 1) /\ m = Nth(Forward, k)
      BY <1>1, <1>2, <2>1
    <2>3. Goes(k)
      BY <1>7, <2>2 DEF Insert, Before
    <2> HIDE DEF Goes
    <2> QED
      BY <1>3, <1>4, <2>1, <2>2, <2>3
  <1>8. ASSUME AppendTo(m, e) PROVE \E i \in At(m) : EntersAt(e, i + 1)
    <2>1. PICK k \in 1..l : m = Forward[k]
      BY <1>1, <1>8 DEF AppendTo
    <2>2. /\ k + 1 \in 1..(l + 1) /\ bq.next[m] = Nth(Forward, k + 1)
          /\ m = Nth(Forward, k + 1 - 1)
      BY <1>1, <1>2, <2>1
    <2>3. Goes(k + 1)
      BY <1>8, <2>2 DEF AppendTo, After
    <2> HIDE DEF Goes
    <2> QED
      BY <1>3, <1>4, <2>1, <2>2, <2>3
  <1> QED
    BY <1>5, <1>6, <1>7, <1>8 DEF l

(* A message leaves, for the client or for the heap.                       *)
LEMMA TakenOut ==
  ASSUME QInv, NEW i \in 1..Len(Forward), NEW m, m = Forward[i],
         bq' = Without(bq, m), length' = length, NEW h, mine' = h, h = mine \cup {m}
           \/ h = mine
  PROVE  QInv' /\ Abs!Becomes(RemoveAt(Forward, i), h)
  <1> DEFINE b == Without(bq, m)
             t == RemoveAt(Forward, i)
  <1>1. /\ b \in Bufq /\ Shape(b, t) /\ m \in Msg
        /\ ToSet(t) = InQueue \ {m} /\ b.next[m] = Nil /\ Others(b, bq, InQueue)
    <2> HIDE DEF t
    <2>1. b = Without(bq, Forward[i]) /\ t = RemoveAt(Forward, i)
            /\ i \in 1..Len(Forward)
      BY DEF t
    <2> HIDE DEF b
    <2>2. /\ b \in Bufq /\ Shape(b, RemoveAt(Forward, i)) /\ Forward[i] \in Msg
          /\ ToSet(RemoveAt(Forward, i)) = ToSet(Forward) \ {Forward[i]}
          /\ b.next[Forward[i]] = Nil /\ Others(b, bq, ToSet(Forward))
      <3>1. bq \in Bufq /\ Shape(bq, Forward) /\ length \in [Msg -> Nat]
        BY InShape
      <3> QED
        BY <2>1, <3>1, CountOneLess
    <2>3. m = Forward[i]
      OBVIOUS
    <2> QED
      BY <2>1, <2>2, <2>3 DEF InQueue
  <1>2. m \in InQueue
    BY InShape, Places DEF InQueue
  <1> HIDE DEF b, t
  <1>3. ASSUME NEW x \in h PROVE x \notin ToSet(t) /\ b.next[x] = Nil
    BY <1>1, InShape DEF Others
  <1>4. h \subseteq mine \cup InQueue /\ ToSet(t) \subseteq mine \cup InQueue
    BY <1>1, <1>2
  <1>5. bq' = b
    BY DEF b
  <1> QED
    BY <1>1, <1>3, <1>4, <1>5, Becoming DEF t

(* A new message: its links are its own, and the queue is as it was.       *)
LEMMA Allocated ==
  ASSUME QInv, NEW m \in Msg, NEW size \in Size, Alloc(m, size)
  PROVE  QInv' /\ Abs!New
  <1> DEFINE t == Forward
             q == bq'
  <1>1. /\ m \notin mine \cup InQueue /\ mine' = mine \cup {m}
        /\ q = [bq EXCEPT !.prev[m] = Nil, !.next[m] = Nil]
        /\ length' = [length EXCEPT ![m] = size] /\ size \in Nat
    BY MsgAssumption DEF Alloc
  <1>2. /\ bq \in Bufq /\ Shape(bq, t) /\ length \in [Msg -> Nat]
        /\ t \in Seq(Msg) /\ NoTwice(t) /\ Links(bq, t)
        /\ bq.msgs = Len(t) /\ bq.count = Abs!Sum(length, t)
        /\ DOMAIN t = 1..Len(t) /\ \A i \in 1..Len(t) : t[i] \in Msg /\ t[i] # m
    <2>1. DOMAIN t = 1..Len(t) /\ \A i \in 1..Len(t) : t[i] \in Msg /\ t[i] # m
      BY <1>1, InShape, Places DEF InQueue
    <2> QED
      BY <2>1, InShape
  <1> HIDE DEF q
  <1>3. /\ q \in Bufq /\ q.head = bq.head /\ q.tail = bq.tail
        /\ q.msgs = bq.msgs /\ q.count = bq.count
        /\ q.next = [bq.next EXCEPT ![m] = Nil] /\ q.prev = [bq.prev EXCEPT ![m] = Nil]
    <2> DEFINE nx == [bq.next EXCEPT ![m] = Nil]
               pv == [bq.prev EXCEPT ![m] = Nil]
               d == [bq EXCEPT !.prev = pv]
    <2>1. nx \in [Msg -> Msg \cup {Nil}] /\ pv \in [Msg -> Msg \cup {Nil}]
      BY <1>2 DEF Bufq
    <2>2. q = [d EXCEPT !.next = nx] /\ d.next = bq.next
      BY <1>1, <1>2 DEF Bufq
    <2> HIDE DEF nx, pv
    <2>3. /\ d \in Bufq /\ d.head = bq.head /\ d.tail = bq.tail
          /\ d.msgs = bq.msgs /\ d.count = bq.count /\ d.prev = pv
      BY <1>2, <2>1 DEF Bufq
    <2> HIDE DEF d
    <2>4. /\ q \in Bufq /\ q.head = d.head /\ q.tail = d.tail
          /\ q.msgs = d.msgs /\ q.count = d.count /\ q.next = nx /\ q.prev = d.prev
      BY <2>1, <2>2, <2>3 DEF Bufq
    <2> QED
      BY <2>3, <2>4 DEF nx, pv
  <1> HIDE DEF t
  <1>4. Links(q, t)
    <2>1. ASSUME NEW i \in 1..Len(t)
          PROVE q.next[t[i]] = bq.next[t[i]] /\ q.prev[t[i]] = bq.prev[t[i]]
      BY <1>2, <1>3 DEF Bufq
    <2> QED
      BY <1>2, <1>3, <2>1 DEF Links
  <1>5. Walk(q.head, q.next) = t
    BY <1>2, <1>4, ReadBothWays
  <1>6. Forward' = t
    BY <1>5 DEF Forward, q
  <1>7. length' \in [Msg -> Nat] /\ Abs!Sum(length', t) = Abs!Sum(length, t)
    <2> DEFINE k == length'
    <2>1. k \in [Msg -> Nat] /\ \A i \in 1..Len(t) : length[t[i]] = k[t[i]]
      BY <1>1, <1>2
    <2> HIDE DEF k
    <2>2. Abs!Sum(length, t) = Abs!Sum(k, t)
      <3>1. t \in Seq(Msg) /\ length \in [Msg -> Nat] /\ k \in [Msg -> Nat]
        BY <1>2, <2>1
      <3> QED
        BY <2>1, <3>1, SumAgrees, Zenon
    <2> QED
      BY <2>1, <2>2 DEF k
  <1>8. Shape(bq, Forward)'
    BY <1>2, <1>3, <1>4, <1>6, <1>7 DEF Shape, q, Links
  <1>9. InQueue' = InQueue
    BY <1>6 DEF InQueue, t
  <1>10. QInv'
    <2>1. mine' \subseteq Msg /\ length' \in [Msg -> {0} \cup Size]
      <3>1. length \in [Msg -> {0} \cup Size]
        BY DEF QInv
      <3> QED
        BY <1>1, <3>1, InShape
    <2>2. \A x \in mine' \cup InQueue' : length'[x] \in Size
      <3>1. ASSUME NEW x \in mine' \cup InQueue' PROVE length'[x] \in Size
        <4>1. CASE x = m
          BY <1>1, <1>2, <4>1
        <4>2. CASE x # m
          <5>1. x \in mine \cup InQueue /\ x \in Msg
            BY <1>1, <1>9, <4>2, InShape
          <5> QED
            BY <1>1, <1>2, <4>2, <5>1, InShape
        <4> QED
          BY <4>1, <4>2
      <3> QED
        BY <3>1
    <2>3. \A x \in mine' : x \notin InQueue' /\ q.next[x] = Nil
      <3>1. ASSUME NEW x \in mine' PROVE x \notin InQueue' /\ q.next[x] = Nil
        <4>1. bq.next \in [Msg -> Msg \cup {Nil}]
          BY <1>2 DEF Bufq
        <4>2. CASE x = m
          BY <1>1, <1>3, <1>9, <4>1, <4>2
        <4>3. CASE x # m
          <5>1. x \in mine /\ x \in Msg
            BY <1>1, <4>3, InShape
          <5> QED
            BY <1>3, <1>9, <4>1, <4>3, <5>1, InShape
        <4> QED
          BY <4>2, <4>3
      <3> QED
        BY <3>1
    <2> QED
      BY <1>3, <1>8, <2>1, <2>2, <2>3 DEF QInv, q
  <1>11. Abs!New
    <2>1. m \in Msg \ (mine \cup Abs!Queued)
      BY <1>1, Zenon DEF InQueue, ToSet, Abs!Queued, Abs!ToSet
    <2>2. Forward' = Forward /\ bq'.count = bq.count
      BY <1>3, <1>6 DEF t, q
    <2>3. /\ mine' = mine \cup {m} /\ length' = [length EXCEPT ![m] = size]
          /\ Forward' = Forward /\ bq'.count = bq.count
      BY <1>1, <2>2
    <2> QED
      BY <2>1, <2>3, Zenon DEF Abs!New
  <1> QED
    BY <1>10, <1>11

(* The rest of a sequence.                                                 *)
LEMMA TailIs ==
  ASSUME NEW s \in Seq(Msg), s # <<>>
  PROVE  RemoveAt(s, 1) = Tail(s)
  <1> DEFINE l == Len(s)
             r == RemoveAt(s, 1)
             t == Tail(s)
  <1>1. l \in Nat /\ 1 \in 1..l /\ t \in Seq(Msg) /\ Len(t) = l - 1
        /\ \A i \in 1..(l - 1) : t[i] = s[i + 1]
    OBVIOUS
  <1>2. PICK one : one = 1
    OBVIOUS
  <1>3. /\ RemoveAt(s, one) \in Seq(Msg) /\ Len(RemoveAt(s, one)) = l - 1
        /\ \A i \in 1..(l - 1) : RemoveAt(s, one)[i] =
             IF i < one THEN s[i] ELSE s[i + 1]
    <2>1. one \in 1..Len(s)
      BY <1>1, <1>2
    <2>2. WithoutOne(RemoveAt(s, one), Msg, s, one)
      BY <2>1, Removed, Zenon
    <2> QED
      BY <2>2, Zenon DEF WithoutOne
  <1> HIDE DEF l, r, t
  <1>4. r \in Seq(Msg) /\ Len(r) = l - 1 /\ \A i \in 1..(l - 1) : r[i] = s[i + 1]
    <2>1. \A i \in 1..(l - 1) : ~(i < one)
      BY <1>2
    <2>2. r = RemoveAt(s, one)
      BY <1>2 DEF r
    <2> QED
      BY <1>3, <2>1, <2>2
  <1>5. r = t
    BY <1>1, <1>4, SeqEqual
  <1> QED
    BY <1>5 DEF r, t

(* The place that a message leaves.                                        *)
LEMMA FromItsPlace ==
  ASSUME QInv, NEW m, Unlink(m)
  PROVE  /\ \E i \in At(m) : /\ QInv'
                             /\ Abs!Becomes(RemoveAt(Forward, i), mine \cup {m})
         /\ Dequeue /\ m = bq.head
              => Abs!Becomes(Tail(Forward), mine \cup {Head(Forward)})
  <1> DEFINE l == Len(Forward)
             h == mine \cup {m}
  <1>1. /\ l \in Nat /\ DOMAIN Forward = 1..l /\ Forward \in Seq(Msg)
        /\ \A k \in Int : Nth(Forward, k) = IF k \in 1..l THEN Forward[k] ELSE Nil
        /\ \A x : x \in InQueue <=> \E k \in 1..l : x = Forward[k]
    BY InShape, Places DEF InQueue
  <1>2. /\ m \in InQueue /\ bq' = Without(bq, m) /\ length' = length
        /\ mine' = h /\ (h = mine \cup {m} \/ h = mine)
    BY DEF Unlink
  <1> HIDE DEF h
  <1>3. ASSUME NEW i \in 1..Len(Forward), m = Forward[i]
        PROVE  QInv' /\ Abs!Becomes(RemoveAt(Forward, i), h)
    BY <1>2, <1>3, TakenOut
  <1>4. PICK i \in 1..l : m = Forward[i]
    BY <1>1, <1>2
  <1>5. i \in At(m)
    BY <1>1, <1>4 DEF At
  <1>6. ASSUME Dequeue, m = bq.head
        PROVE  Abs!Becomes(Tail(Forward), mine \cup {Head(Forward)})
    <2>1. bq.head # Nil /\ bq.head = Nth(Forward, 1)
      BY <1>6, InShape DEF Dequeue, Links
    <2>2. 1 \in 1..l /\ m = Forward[1]
      BY <1>1, <1>6, <2>1
    <2>3. Forward # <<>> /\ Head(Forward) = m
      BY <1>1, <2>2
    <2>4. RemoveAt(Forward, 1) = Tail(Forward)
      BY <1>1, <2>3, TailIs
    <2>5. Abs!Becomes(RemoveAt(Forward, 1), h)
      BY <1>3, <2>2
    <2> QED
      BY <2>3, <2>4, <2>5 DEF h
  <1> QED
    BY <1>3, <1>4, <1>5, <1>6 DEF h

(* Unlink and Dequeue give the message to the client, FreeHead to the heap. *)
LEMMA Gone ==
  ASSUME QInv, \/ \E m \in Msg : Unlink(m)
               \/ Dequeue \/ FreeHead
  PROVE  QInv' /\ Abs!Leave
  <1> DEFINE l == Len(Forward)
  <1>1. /\ l \in Nat /\ DOMAIN Forward = 1..l /\ Forward \in Seq(Msg)
        /\ \A k \in Int : Nth(Forward, k) = IF k \in 1..l THEN Forward[k] ELSE Nil
        /\ \A x : x \in InQueue <=> \E k \in 1..l : x = Forward[k]
    BY InShape, Places DEF InQueue
  <1>2. bq.head # Nil => 1 \in 1..l /\ bq.head = Forward[1]
    <2>1. bq.head = Nth(Forward, 1)
      BY InShape DEF Links
    <2> QED
      BY <1>1, <2>1
  <1>3. ASSUME NEW m, Unlink(m) PROVE QInv' /\ Abs!Leave
    <2>1. /\ m \in InQueue /\ bq' = Without(bq, m)
          /\ mine' = mine \cup {m} /\ length' = length
      BY <1>3 DEF Unlink
    <2>2. PICK i \in 1..l : m = Forward[i]
      BY <1>1, <2>1
    <2> DEFINE h == mine \cup {m}
    <2>3. QInv' /\ Abs!Becomes(RemoveAt(Forward, i), h)
      <3>1. i \in 1..Len(Forward) /\ m = Forward[i]
        BY <2>2
      <3> HIDE DEF h, l
      <3>2. mine' = h /\ (h = mine \cup {m} \/ h = mine)
        BY <2>1 DEF h
      <3> QED
        BY <2>1, <3>1, <3>2, TakenOut
    <2>4. Abs!Becomes(Abs!RemoveAt(Forward, i), mine \cup {Forward[i]})
      BY <2>2, <2>3, Zenon DEF RemoveAt, Abs!RemoveAt
    <2>5. i \in DOMAIN Forward
      BY <1>1
    <2>6. Abs!Leave
      BY <2>4, <2>5, Zenon DEF Abs!Leave
    <2> QED
      BY <2>3, <2>6
  <1>4. CASE FreeHead
    <2>1. bq' = Without(bq, bq.head) /\ mine' = mine /\ length' = length
            /\ bq.head # Nil
      BY <1>4 DEF FreeHead
    <2>2. PICK i \in 1..l : i = 1 /\ bq.head = Forward[i]
      BY <1>2, <2>1
    <2> DEFINE m == bq.head
               h == mine
    <2>3. QInv' /\ Abs!Becomes(RemoveAt(Forward, i), h)
      <3>1. i \in 1..Len(Forward) /\ m = Forward[i] /\ bq' = Without(bq, m)
        BY <2>1, <2>2
      <3>2. mine' = h /\ (h = mine \cup {m} \/ h = mine)
        BY <2>1 DEF h
      <3> HIDE DEF h, m, l
      <3> QED
        BY <2>1, <3>1, <3>2, TakenOut
    <2>4. RemoveAt(Forward, i) = Tail(Forward)
      <3>1. Forward # <<>>
        BY <1>1, <2>2
      <3>2. RemoveAt(Forward, 1) = Tail(Forward)
        BY <1>1, <3>1, TailIs
      <3> QED
        BY <2>2, <3>2
    <2>5. Abs!Becomes(Tail(Forward), mine) /\ i \in DOMAIN Forward /\ i = 1
      BY <1>1, <2>2, <2>3, <2>4
    <2>6. Abs!Leave
      BY <2>5, Zenon DEF Abs!Leave
    <2> QED
      BY <2>3, <2>6
  <1> QED
    BY <1>3, <1>4 DEF Dequeue

-----------------------------------------------------------------------------
(* bufq_purge.                                                             *)

(* One turn of the loop, and k turns of it.                                *)
Less(q) == IF q.head = Nil THEN q ELSE Without(q, q.head)
IsPurge(f, k) == f = [i \in 0..k |-> IF i = 0 THEN bq ELSE Less(f[i - 1])]

(* There is a function that turns so often.                                *)
LEMMA PurgeExists ==
  ASSUME NEW N \in Nat
  PROVE  \E f : IsPurge(f, N)
  <1> DEFINE P == {k \in 0..N : \E f : IsPurge(f, k)}
  <1>1. 0 \in P
    <2> DEFINE f == [i \in 0..0 |-> bq]
    <2>1. IsPurge(f, 0)
      BY DEF IsPurge
    <2> QED
      BY <2>1
  <1>2. ASSUME NEW k \in 1..N, k - 1 \in P PROVE k \in P
    <2>1. PICK f : IsPurge(f, k - 1)
      BY <1>2
    <2> DEFINE g == [i \in 0..k |-> IF i = k THEN Less(f[k - 1]) ELSE f[i]]
               h == [i \in 0..k |-> IF i = 0 THEN bq ELSE Less(g[i - 1])]
    <2>2. ASSUME NEW i \in 0..k PROVE g[i] = h[i]
      <3>1. CASE i = 0
        BY <2>1, <3>1 DEF IsPurge
      <3>2. CASE i = k
        <4>1. g[k - 1] = f[k - 1]
          OBVIOUS
        <4> QED
          BY <3>2, <4>1
      <3>3. CASE i # 0 /\ i # k
        <4>1. i - 1 \in 0..k /\ i - 1 # k /\ i \in 0..(k - 1)
          BY <3>3
        <4>2. g[i] = f[i] /\ g[i - 1] = f[i - 1]
          BY <3>3, <4>1
        <4>3. f[i] = Less(f[i - 1])
          BY <2>1, <3>3, <4>1 DEF IsPurge
        <4> QED
          BY <3>3, <4>2, <4>3
      <3> QED
        BY <3>1, <3>2, <3>3
    <2>3. g = h
      BY <2>2
    <2>4. IsPurge(g, k)
      BY <2>3 DEF IsPurge
    <2> QED
      BY <2>4
  <1>3. 0..N \subseteq P
    BY <1>1, <1>2, UpTo
  <1> QED
    BY <1>3

(* q links what k turns leave of s.                                        *)
Remains(q, s, k, t) ==
  /\ q \in Bufq /\ Shape(q, t) /\ Others(q, bq, ToSet(s))
  /\ ToSet(t) \subseteq ToSet(s)
  /\ k <= Len(s) => Len(t) = Len(s) - k
  /\ k >= Len(s) => Len(t) = 0

(* One more turn.                                                          *)
LEMMA LessIs ==
  ASSUME length \in [Msg -> Nat], NEW s \in Seq(Msg), NEW k \in Nat, NEW q, NEW t,
         Remains(q, s, k, t)
  PROVE  \E u : Remains(Less(q), s, k + 1, u)
  <1>1. /\ q \in Bufq /\ Shape(q, t) /\ Others(q, bq, ToSet(s))
        /\ ToSet(t) \subseteq ToSet(s)
        /\ k <= Len(s) => Len(t) = Len(s) - k
        /\ k >= Len(s) => Len(t) = 0
    BY DEF Remains
  <1>2. /\ t \in Seq(Msg) /\ NoTwice(t) /\ Links(q, t) /\ Len(t) \in Nat
             /\ Len(s) \in Nat
        /\ \A i \in Int : Nth(t, i) = IF i \in 1..Len(t) THEN t[i] ELSE Nil
        /\ \A i \in 1..Len(t) : t[i] \in Msg /\ t[i] # Nil
    BY <1>1, Places, LenProperties DEF Shape
  <1>3. q.head = Nth(t, 1)
    BY <1>2 DEF Links
  <1>4. CASE Len(t) = 0
    <2>1. q.head = Nil
      BY <1>2, <1>3, <1>4
    <2>2. Less(q) = q
      BY <2>1 DEF Less
    <2>3. k + 1 >= Len(s) /\ (k + 1 <= Len(s) => Len(t) = Len(s) - (k + 1))
      BY <1>1, <1>2, <1>4
    <2>4. Remains(q, s, k + 1, t)
      BY <1>1, <1>4, <2>3 DEF Remains
    <2> QED
      BY <2>2, <2>4
  <1>5. CASE Len(t) # 0
    <2>1. PICK i \in 1..Len(t) : i = 1
      BY <1>2, <1>5
    <2>2. q.head = t[i] /\ q.head # Nil
      BY <1>2, <1>3, <2>1
    <2> DEFINE b == Less(q)
               u == RemoveAt(t, i)
    <2>3. b = Without(q, t[i])
      BY <2>2 DEF Less
    <2>4. /\ b \in Bufq /\ Shape(b, u) /\ ToSet(u) = ToSet(t) \ {t[i]}
          /\ Len(u) = Len(t) - 1 /\ Others(b, q, ToSet(t))
      <3> HIDE DEF b, u
      <3>1. /\ Shape(b, RemoveAt(t, i)) /\ b \in Bufq
            /\ ToSet(RemoveAt(t, i)) = ToSet(t) \ {t[i]}
            /\ Len(RemoveAt(t, i)) = Len(t) - 1 /\ Others(b, q, ToSet(t))
        <4>1. q \in Bufq /\ Shape(q, t) /\ length \in [Msg -> Nat] /\ i \in 1..Len(t)
          BY <1>1, <2>1, Zenon
        <4> QED
          BY <2>3, <4>1, CountOneLess, SMTT(30)
      <3> QED
        BY <3>1, Zenon DEF u
    <2> HIDE DEF b, u
    <2>5. Others(b, bq, ToSet(s))
      BY <1>1, <2>4 DEF Others
    <2>6. /\ k + 1 <= Len(s) => Len(u) = Len(s) - (k + 1)
          /\ k + 1 >= Len(s) => Len(u) = 0
      BY <1>1, <1>2, <1>5, <2>4
    <2>7. Remains(b, s, k + 1, u)
      BY <1>1, <2>4, <2>5, <2>6 DEF Remains
    <2> QED
      BY <2>7 DEF b
  <1> QED
    BY <1>4, <1>5

(* Nothing is left after as many turns as there may be messages.           *)
LEMMA ClearedIs ==
  ASSUME QInv
  PROVE  /\ Cleared \in Bufq /\ Shape(Cleared, <<>>)
         /\ Others(Cleared, bq, InQueue)
  <1> DEFINE N == Cardinality(Msg)
             s == Forward
             f == CHOOSE f : IsPurge(f, N)
             P == {k \in 0..N : \E t : Remains(f[k], s, k, t)}
  <1>1. /\ N \in Nat /\ Len(s) \in Nat /\ Len(s) <= N /\ s \in Seq(Msg)
             /\ length \in [Msg -> Nat]
        /\ bq \in Bufq /\ Shape(bq, s)
    BY InShape, QueueRoom
  <1>2. IsPurge(f, N)
    BY <1>1, PurgeExists
  <1>3. Cleared = f[N]
    BY DEF Cleared, IsPurge, Less, Turns
  <1> HIDE DEF f, N, s
  <1>4. f[0] = bq /\ \A k \in 1..N : f[k] = Less(f[k - 1])
    BY <1>1, <1>2 DEF IsPurge
  <1>5. 0 \in P
    <2>1. 0 <= Len(s) => Len(s) = Len(s) - 0
      BY <1>1
    <2>2. 0 >= Len(s) => Len(s) = 0
      BY <1>1
    <2>3. Others(bq, bq, ToSet(s))
      BY DEF Others
    <2>4. Remains(bq, s, 0, s)
      BY <1>1, <2>1, <2>2, <2>3 DEF Remains
    <2> QED
      BY <1>1, <1>4, <2>4
  <1>6. ASSUME NEW k \in 1..N, k - 1 \in P PROVE k \in P
    <2>1. PICK t : Remains(f[k - 1], s, k - 1, t)
      BY <1>6
    <2>j. PICK j \in Nat : j = k - 1 /\ j + 1 = k
      OBVIOUS
    <2>2. \E u : Remains(Less(f[j]), s, j + 1, u)
      BY <1>1, <2>1, <2>j, LessIs
    <2> QED
      BY <1>4, <2>2, <2>j
  <1>7. 0..N \subseteq P
    <2> HIDE DEF P
    <2> QED
      BY <1>1, <1>5, <1>6, UpTo
  <1>8. PICK t : Remains(f[N], s, N, t)
    BY <1>1, <1>7
  <1>9. t = <<>>
    <2>1. t \in Seq(Msg) /\ Len(t) = 0
      BY <1>1, <1>8 DEF Remains, Shape
    <2> QED
      BY <2>1, EmptySeq
  <1> QED
    BY <1>3, <1>8, <1>9 DEF Remains, s, InQueue

(* bufq_purge empties the queue.                                           *)
LEMMA Purged ==
  ASSUME QInv, Purge
  PROVE  QInv' /\ Abs!Clear
  <1> DEFINE q == Cleared
             t == <<>>
             h == mine
  <1>1. bq' = q /\ mine' = h /\ length' = length
    BY DEF Purge
  <1>2. q \in Bufq /\ Shape(q, t) /\ Others(q, bq, InQueue)
    BY ClearedIs
  <1>3. ToSet(t) = {}
    BY DEF ToSet
  <1> HIDE DEF q, t
  <1>4. \A m \in h : m \notin ToSet(t) /\ q.next[m] = Nil
    BY <1>2, <1>3, InShape DEF Others
  <1>5. h \subseteq mine \cup InQueue /\ ToSet(t) \subseteq mine \cup InQueue
    BY <1>3
  <1> HIDE DEF h
  <1>6. QInv' /\ Abs!Becomes(t, h)
    BY <1>1, <1>2, <1>4, <1>5, Becoming
  <1> QED
    BY <1>6 DEF t, h, Abs!Clear

-----------------------------------------------------------------------------
(* bufq_resupply.                                                          *)

(* The chains of a client: messages of its own, each once.                 *)
LEMMA OwnChains ==
  ASSUME NEW S \in SUBSET Msg, NEW c \in SetToAllKPermutations(S) \ {<<>>}
  PROVE  c \in Seq(Msg) /\ NoTwice(c) /\ ToSet(c) \subseteq S /\ Len(c) \in Nat \ {0}
  <1>1. PICK T \in SUBSET S : c \in SetToSeqs(T)
    BY DEF SetToAllKPermutations
  <1> DEFINE k == Cardinality(T)
  <1>2. k \in Nat
    <2>1. IsFiniteSet(Msg) /\ T \in SUBSET Msg
      BY MsgAssumption
    <2> QED
      BY <2>1, FS_Subset, FS_CardinalityType
  <1>3. c \in [1..k -> T] /\ \A i, j \in 1..k : i # j => c[i] # c[j]
    BY <1>1 DEF SetToSeqs
  <1> HIDE DEF k
  <1>4. c \in Seq(Msg) /\ Len(c) = k /\ DOMAIN c = 1..k
    <2>1. c \in [1..k -> Msg]
      BY <1>3
    <2> QED
      BY <1>2, <2>1
  <1>5. k # 0
    BY <1>4, EmptySeq
  <1>6. NoTwice(c) /\ ToSet(c) \subseteq S
    BY <1>3, <1>4 DEF NoTwice, ToSet
  <1> QED
    BY <1>2, <1>4, <1>5, <1>6

(* One turn of the loop; it stops after the second at the latest.          *)
Turn(z, m) == IF z.md = Nil THEN z ELSE [q |-> AtTail(z.q, z.md), md |-> z.q.next[m]]
IsSupply(f, q, m) ==
  f = [i \in Turns |-> IF i = 0 THEN [q |-> q, md |-> m] ELSE Turn(f[i - 1], m)]

(* After two turns the loop has ended.                                     *)
LEMMA SupplyEnds ==
  ASSUME NEW q, NEW m, NEW z0, NEW z1, NEW z2,
         z0 = [q |-> q, md |-> m], z1 = Turn(z0, m), z2 = Turn(z1, m), z2 = Turn(z2, m),
         NEW N \in Nat, N = Cardinality(Msg), N >= 1, N >= 2 \/ z1 = z2
  PROVE  Supplied(q, m) = z2.q
  <1> DEFINE f == CHOOSE f : IsSupply(f, q, m)
             Z(i) == IF i = 0 THEN z0 ELSE IF i = 1 THEN z1 ELSE z2
             g == [i \in 0..N |-> Z(i)]
             h == [i \in 0..N |-> IF i = 0 THEN z0 ELSE Turn(g[i - 1], m)]
  <1>1. ASSUME NEW i \in 0..N PROVE g[i] = h[i]
    <2>1. CASE i = 0
      BY <2>1
    <2>2. CASE i = 1
      <3>1. g[i - 1] = z0
        BY <2>2
      <3> QED
        BY <2>2, <3>1
    <2>3. CASE i = 2
      <3>1. g[i - 1] = z1
        BY <2>3
      <3> QED
        BY <2>3, <3>1
    <2>4. CASE i > 2
      <3>1. i - 1 \in 0..N /\ i - 1 # 0 /\ i - 1 # 1
        BY <2>4
      <3>2. g[i - 1] = z2
        BY <3>1
      <3> QED
        BY <2>4, <3>2
    <2> QED
      BY <2>1, <2>2, <2>3, <2>4
  <1>2. g = h
    BY <1>1
  <1>3. IsSupply(g, q, m)
    BY <1>2 DEF IsSupply, Turns
  <1>4. IsSupply(f, q, m)
    BY <1>3
  <1>5. Supplied(q, m) = f[N].q
    BY DEF Supplied, IsSupply, Turn
  <1> HIDE DEF f, g, h
  <1>6. f[0] = z0 /\ \A k \in 1..N : f[k] = Turn(f[k - 1], m)
    BY <1>4 DEF IsSupply, Turns
  <1> DEFINE P == {k \in 0..N : f[k] = Z(k)}
  <1>7. 0 \in P
    BY <1>6
  <1>8. ASSUME NEW k \in 1..N, k - 1 \in P PROVE k \in P
    <2>1. f[k] = Turn(f[k - 1], m) /\ f[k - 1] = Z(k - 1)
      BY <1>6, <1>8
    <2>2. CASE k = 1
      <3>1. f[k - 1] = z0
        BY <2>1, <2>2
      <3> QED
        BY <2>1, <2>2, <3>1
    <2>3. CASE k = 2
      <3>1. f[k - 1] = z1
        BY <2>1, <2>3
      <3> QED
        BY <2>1, <2>3, <3>1
    <2>4. CASE k > 2
      <3>1. f[k - 1] = z2
        BY <2>1, <2>4
      <3> QED
        BY <2>1, <2>4, <3>1
    <2> QED
      BY <2>2, <2>3, <2>4
  <1>9. 0..N \subseteq P
    <2> HIDE DEF P
    <2> QED
      BY <1>7, <1>8, UpTo
  <1>10. f[N] = z2
    BY <1>9
  <1> QED
    BY <1>5, <1>10

(* A message at the tail of a queue.                                       *)
LEMMA Appended ==
  ASSUME NEW q \in Bufq, NEW s, Shape(q, s), length \in [Msg -> Nat],
         NEW e \in Msg, e \notin ToSet(s), NEW b, b = AtTail(q, e)
  PROVE  /\ b \in Bufq /\ Shape(b, Append(s, e)) /\ b.next[e] = Nil
         /\ ToSet(Append(s, e)) = ToSet(s) \cup {e}
         /\ Others(b, q, ToSet(s) \cup {e})
  <1> DEFINE l == Len(s)
  <1>1. /\ s \in Seq(Msg) /\ NoTwice(s) /\ Links(q, s)
        /\ l \in Nat /\ \A k \in Int : Nth(s, k) = IF k \in 1..l THEN s[k] ELSE Nil
    BY Places DEF Shape
  <1>2. q.tail = Nth(s, l)
    BY <1>1 DEF Links
  <1>k. PICK k \in 1..(l + 1) : k = l + 1
    BY <1>1
  <1>3. k - 1 = l /\ Nth(s, k) = Nil
    BY <1>1, <1>k
  <1>4. b = Add(Between(q, Nth(s, k - 1), e, Nth(s, k)), e)
    BY <1>2, <1>3 DEF AtTail
  <1> DEFINE t == InsertAt(s, k, e)
  <1>5. /\ b \in Bufq /\ Shape(b, t) /\ ToSet(t) = ToSet(s) \cup {e}
        /\ Others(b, q, ToSet(s) \cup {e})
    BY <1>4, CountOneMore
  <1>6. /\ t \in Seq(Msg) /\ Len(t) = l + 1
        /\ \A j \in 1..(l + 1) : t[j] = IF j < k THEN s[j] ELSE
             IF j = k THEN e ELSE s[j - 1]
    <2>1. s \in Seq(Msg) /\ k \in 1..(Len(s) + 1) /\ e \in Msg
      BY <1>1
    <2>2. WithOne(t, Msg, s, k, e)
      BY <2>1, Inserted, Zenon
    <2> HIDE DEF t
    <2> QED
      BY <2>2, Zenon DEF WithOne
  <1> HIDE DEF l, t
  <1>7. t = Append(s, e)
    <2> DEFINE a == Append(s, e)
    <2>1. a \in Seq(Msg) /\ Len(a) = l + 1
          /\ \A j \in 1..(l + 1) : a[j] = IF j < k THEN s[j] ELSE e
      <3>1. l = Len(s) /\ s \in Seq(Msg)
        BY <1>1, Zenon DEF l
      <3>2. /\ a \in Seq(Msg) /\ Len(a) = Len(s) + 1
            /\ \A j \in 1..Len(s) : a[j] = s[j]
            /\ a[Len(s) + 1] = e
        BY <3>1, SMTT(30)
      <3> HIDE DEF a
      <3>3. \A j \in 1..(l + 1) :
               \/ j = l + 1 /\ ~(j < k)
               \/ j \in 1..l /\ j < k
        BY <1>1, <1>k
      <3> QED
        BY <3>1, <3>2, <3>3, Zenon
    <2> HIDE DEF a
    <2>2. \A j \in 1..Len(t) : t[j] = a[j]
      <3>1. Len(t) = l + 1 /\ \A j \in 1..(l + 1) : j < k \/ j = k
        BY <1>1, <1>k, <1>6
      <3> QED
        BY <1>6, <2>1, <3>1, Zenon
    <2>3. t = a
      BY <1>6, <2>1, <2>2, SeqEqual
    <2> QED
      BY <2>3 DEF a
  <1>8. b.next[e] = Nil
    <2>1. k \in DOMAIN t /\ t[k] = e
      BY <1>6, <1>k, LenProperties
    <2>2. b.next[t[k]] = Nth(t, k + 1)
      BY <1>5, <2>1 DEF Shape, Links
    <2>3. k + 1 \notin DOMAIN t
      BY <1>1, <1>6, <1>k, LenProperties
    <2> QED
      BY <2>1, <2>2, <2>3 DEF Nth
  <1> QED
    BY <1>5, <1>7, <1>8

(* The links that the client has made.                                     *)
LEMMA FollowingIs ==
  ASSUME QInv, NEW c \in Seq(Msg), NoTwice(c), ToSet(c) \subseteq mine,
         Len(c) \in Nat \ {0}, NEW q, q = [bq EXCEPT !.next = Following(c)]
  PROVE  /\ q \in Bufq /\ Shape(q, Forward) /\ Others(q, bq, ToSet(c))
         /\ Len(c) = 1 => q.next[c[1]] = Nil
         /\ Len(c) # 1 => q.next[c[1]] = c[2]
  <1> DEFINE k == Len(c)
             nx == Following(c)
             s == Forward
  <1>1. /\ k \in Nat \ {0} /\ DOMAIN c = 1..k
        /\ \A i \in 1..k : c[i] \in Msg /\ c[i] \in mine
        /\ \A i, j \in 1..k : c[i] = c[j] => i = j
        /\ \A x : x \in ToSet(c) <=> \E i \in 1..k : x = c[i]
        /\ Last(c) = c[k]
    BY Places DEF Last
  <1>2. /\ bq \in Bufq /\ Shape(bq, s) /\ s \in Seq(Msg) /\ NoTwice(s) /\ Links(bq, s)
        /\ DOMAIN s = 1..Len(s) /\ \A i \in 1..Len(s) : s[i] \in Msg /\ s[i] \in InQueue
        /\ \A m \in mine : m \notin InQueue /\ bq.next[m] = Nil
    <2>1. DOMAIN s = 1..Len(s) /\ \A i \in 1..Len(s) : s[i] \in Msg /\ s[i] \in InQueue
      BY InShape, Places DEF InQueue
    <2> QED
      BY <2>1, InShape
  <1>p. bq.next \in [Msg -> Msg \cup {Nil}]
    BY <1>2 DEF Bufq
  <1> HIDE DEF k, s
  <1>3. /\ DOMAIN nx = Msg
        /\ \A m \in Msg : m \notin ToSet(c) => nx[m] = bq.next[m]
    BY DEF Following
  <1>4. ASSUME NEW i \in 1..k
        PROVE  (i = k => nx[c[i]] = bq.next[c[i]]) /\ (i # k => nx[c[i]] = c[i + 1])
    <2>1. i = k => nx[c[i]] = bq.next[c[i]]
      BY <1>1 DEF Following
    <2>2. ASSUME i # k PROVE nx[c[i]] = c[i + 1]
      <3> DEFINE j == CHOOSE j \in DOMAIN c : c[j] = c[i]
      <3>1. j \in 1..k /\ c[j] = c[i]
        BY <1>1
      <3>2. j = i
        <4> HIDE DEF j
        <4> QED
          BY <1>1, <3>1
      <3>3. c[i] \in Msg /\ c[i] \in ToSet(c) /\ c[i] # Last(c)
        BY <1>1, <2>2
      <3>4. nx[c[i]] = c[j + 1]
        BY <3>3 DEF Following
      <3> QED
        BY <3>2, <3>4
    <2> QED
      BY <2>1, <2>2
  <1> HIDE DEF nx
  <1>5. nx \in [Msg -> Msg \cup {Nil}]
    <2>1. ASSUME NEW m \in Msg PROVE nx[m] \in Msg \cup {Nil}
      <3>1. CASE m \notin ToSet(c)
        BY <1>3, <1>p, <3>1
      <3>2. CASE m \in ToSet(c)
        <4>1. PICK i \in 1..k : m = c[i]
          BY <1>1, <3>2
        <4>2. i # k => i + 1 \in 1..k
          BY <1>1
        <4> QED
          BY <1>1, <1>4, <1>p, <4>1, <4>2
      <3> QED
        BY <3>1, <3>2
    <2>2. nx = [m \in Msg |-> nx[m]]
      BY DEF nx, Following
    <2> QED
      BY <2>1, <2>2
  <1>6. /\ q \in Bufq /\ q.head = bq.head /\ q.tail = bq.tail /\ q.msgs = bq.msgs
        /\ q.count = bq.count /\ q.next = nx /\ q.prev = bq.prev
    <2>1. q = [bq EXCEPT !.next = nx]
      BY DEF nx
    <2> QED
      BY <1>2, <1>5, <2>1 DEF Bufq
  <1>7. Others(q, bq, ToSet(c))
    BY <1>3, <1>6 DEF Others
  <1>8. Shape(q, s)
    <2>1. ASSUME NEW i \in 1..Len(s) PROVE q.next[s[i]] = bq.next[s[i]]
      <3>1. s[i] \in Msg /\ s[i] \notin ToSet(c)
        BY <1>2
      <3> QED
        BY <1>7, <3>1 DEF Others
    <2>2. Links(q, s)
      BY <1>2, <1>6, <2>1 DEF Links
    <2> QED
      BY <1>2, <1>6, <2>2 DEF Shape
  <1>9. k = 1 => q.next[c[1]] = Nil
    <2> SUFFICES ASSUME k = 1 PROVE q.next[c[1]] = Nil
      OBVIOUS
    <2>1. PICK i \in 1..k : i = 1 /\ i = k
      BY <1>1
    <2> QED
      BY <1>1, <1>2, <1>4, <1>6, <2>1
  <1>10. k # 1 => q.next[c[1]] = c[2]
    <2> SUFFICES ASSUME k # 1 PROVE q.next[c[1]] = c[2]
      OBVIOUS
    <2>1. PICK i \in 1..k : i = 1 /\ i # k /\ i + 1 = 2
      BY <1>1
    <2>2. nx[c[i]] = c[i + 1]
      BY <1>4, <2>1
    <2> QED
      BY <1>6, <2>1, <2>2
  <1> QED
    BY <1>6, <1>7, <1>8, <1>9, <1>10 DEF k, s

(* The first messages of a chain.                                          *)
LEMMA FirstPart ==
  ASSUME NEW c \in Seq(Msg), NEW k \in 1..Len(c), k \in {1, 2}
  PROVE  SubSeq(c, 1, k) = IF k = 1 THEN <<c[1]>> ELSE <<c[1], c[2]>>
  <1> DEFINE r == SubSeq(c, 1, k)
             u == IF k = 1 THEN <<c[1]>> ELSE <<c[1], c[2]>>
  <1>1. Len(c) \in Nat /\ \A i \in 1..Len(c) : c[i] \in Msg
    BY LenProperties, ElementOfSeq
  <1>o. PICK one \in 1..(Len(c) + 1) : one = 1
    BY <1>1
  <1>2. /\ SubSeq(c, one, k) \in Seq(Msg) /\ Len(SubSeq(c, one, k)) = k + 1 - one
        /\ \A i \in 1..(k + 1 - one) : SubSeq(c, one, k)[i] = c[one + i - 1]
    <2>1. k \in 0..Len(c) /\ one <= k + 1
      BY <1>1, <1>o
    <2> QED
      BY <2>1, PartOf
  <1>3. r = SubSeq(c, one, k)
    BY <1>o
  <1> HIDE DEF r
  <1>4. r \in Seq(Msg) /\ Len(r) = k /\ \A i \in 1..k : r[i] = c[i]
    BY <1>1, <1>2, <1>3, <1>o
  <1>5. u \in Seq(Msg) /\ Len(u) = k /\ \A i \in 1..k : u[i] = c[i]
    <2>1. CASE k = 1
      BY <1>1, <2>1
    <2>2. CASE k = 2
      <3>1. c[1] \in Msg /\ c[2] \in Msg
        BY <1>1, <2>2
      <3> QED
        BY <2>2, <3>1
    <2> QED
      BY <2>1, <2>2
  <1> HIDE DEF u
  <1>6. r = u
    BY <1>4, <1>5, SeqEqual
  <1> QED
    BY <1>6 DEF r, u

(* The first two messages of the chain enter, or the only one.             *)
LEMMA SuppliedIs ==
  ASSUME QInv, NEW c \in Seq(Msg), NoTwice(c), ToSet(c) \subseteq mine,
         Len(c) \in Nat \ {0}, NEW b,
         b = Supplied([bq EXCEPT !.next = Following(c)], Head(c)),
         NEW t, t = Forward \o SubSeq(c, 1, IF Len(c) = 1 THEN 1 ELSE 2)
  PROVE  /\ b \in Bufq /\ Shape(b, t) /\ Others(b, bq, InQueue \cup ToSet(c))
         /\ ToSet(t) \subseteq InQueue \cup ToSet(c)
  <1> DEFINE s == Forward
             q == [bq EXCEPT !.next = Following(c)]
             k == Len(c)
             N == Cardinality(Msg)
             a == c[1]
             d == c[2]
             q1 == AtTail(q, a)
             q2 == AtTail(q1, d)
             s1 == Append(s, a)
             s2 == Append(s1, d)
  <1>1. /\ k \in Nat \ {0} /\ N \in Nat /\ k <= N /\ DOMAIN c = 1..k
        /\ \A i \in 1..k : c[i] \in Msg /\ c[i] # Nil /\ c[i] \notin InQueue
        /\ \A i, j \in 1..k : c[i] = c[j] => i = j
        /\ \A x : x \in ToSet(c) <=> \E i \in 1..k : x = c[i]
        /\ s \in Seq(Msg) /\ length \in [Msg -> Nat] /\ InQueue = ToSet(s)
    BY InShape, Places, QueueRoom DEF InQueue
  <1>2. /\ q \in Bufq /\ Shape(q, s) /\ Others(q, bq, ToSet(c))
        /\ k = 1 => q.next[a] = Nil
        /\ k # 1 => q.next[a] = d
    <2> HIDE DEF q
    <2>1. q = [bq EXCEPT !.next = Following(c)]
      BY DEF q
    <2> QED
      BY <2>1, FollowingIs
  <1>3. a \in Msg /\ a # Nil /\ a \notin ToSet(s) /\ a \in ToSet(c) /\ Head(c) = a
    <2>1. Head(c) = a /\ 1 \in 1..k
      BY <1>1
    <2> QED
      BY <1>1, <2>1
  <1> HIDE DEF q, s, k, N, a, d, q1, q2, s1, s2
  <1>4. /\ q1 \in Bufq /\ Shape(q1, s1) /\ q1.next[a] = Nil
        /\ ToSet(s1) = ToSet(s) \cup {a} /\ Others(q1, q, ToSet(s) \cup {a})
    <2>1. q1 = AtTail(q, a)
      BY DEF q1
    <2>2. /\ q1 \in Bufq /\ Shape(q1, Append(s, a)) /\ q1.next[a] = Nil
          /\ ToSet(Append(s, a)) = ToSet(s) \cup {a} /\ Others(q1, q, ToSet(s) \cup {a})
      <3>1. length \in [Msg -> Nat] /\ q \in Bufq /\ Shape(q, s)
        BY <1>1, <1>2, Zenon
      <3>2. a \in Msg /\ a \notin ToSet(s)
        BY <1>3, Zenon
      <3> QED
        BY <2>1, <3>1, <3>2, Appended, Zenon
    <2> QED
      BY <2>2, Zenon DEF s1
  <1> DEFINE z0 == [q |-> q, md |-> a]
             z1 == [q |-> q1, md |-> q.next[a]]
             z2 == IF k = 1 THEN z1 ELSE [q |-> q2, md |-> Nil]
  <1>5. z1 = Turn(z0, a)
    BY <1>3 DEF Turn, q1
  <1>6. z2 = Turn(z1, a) /\ z2 = Turn(z2, a)
    <2>1. CASE k = 1
      BY <1>2, <2>1 DEF Turn
    <2>2. CASE k # 1
      <3>1. z1.md = d /\ z1.q = q1 /\ d # Nil
        <4>1. 2 \in 1..k
          BY <1>1, <2>2
        <4> QED
          BY <1>1, <1>2, <2>2, <4>1 DEF d
      <3>2. Turn(z1, a) = [q |-> AtTail(q1, d), md |-> q1.next[a]]
        BY <3>1 DEF Turn
      <3>3. z2 = [q |-> q2, md |-> Nil]
        BY <2>2
      <3>4. Turn(z2, a) = z2
        BY <3>3 DEF Turn
      <3> QED
        BY <1>4, <3>2, <3>3, <3>4 DEF q2
    <2> QED
      BY <2>1, <2>2
  <1>7. b = z2.q
    <2>1. N \in Nat /\ N = Cardinality(Msg) /\ N >= 1 /\ (N >= 2 \/ z1 = z2)
      <3>1. k = 1 => z1 = z2
        OBVIOUS
      <3>2. k # 1 => k >= 2
        BY <1>1
      <3> QED
        BY <1>1, <3>1, <3>2 DEF N
    <2>2. z0 = [q |-> q, md |-> a]
      OBVIOUS
    <2>3. b = Supplied(q, a)
      BY <1>3 DEF q
    <2> HIDE DEF z0, z1, z2
    <2>4. Supplied(q, a) = z2.q
      BY <1>5, <1>6, <2>1, <2>2, SupplyEnds
    <2> QED
      BY <2>3, <2>4
  <1>8. CASE k = 1
    <2>1. b = q1
      BY <1>7, <1>8
    <2>2. t = s1
      <3>1. t = s \o SubSeq(c, 1, 1)
        BY <1>8 DEF k, s
      <3>2. SubSeq(c, 1, 1) = <<a>>
        <4>1. PICK j \in 1..Len(c) : j = 1
          BY <1>1 DEF k
        <4>2. SubSeq(c, 1, j) = IF j = 1 THEN <<c[1]>> ELSE <<c[1], c[2]>>
          BY <4>1, FirstPart
        <4> QED
          BY <4>1, <4>2 DEF a
      <3>3. s \o <<a>> = Append(s, a)
        BY <1>1, <1>3
      <3> QED
        BY <3>1, <3>2, <3>3 DEF s1
    <2>3. Others(b, bq, InQueue \cup ToSet(c))
      BY <1>1, <1>2, <1>3, <1>4, <2>1 DEF Others
    <2>4. ToSet(t) \subseteq InQueue \cup ToSet(c)
      <3>1. ToSet(t) = ToSet(s) \cup {a} /\ InQueue = ToSet(s)
        BY <1>1, <1>4, <2>2
      <3> QED
        BY <1>3, <3>1
    <2>5. b \in Bufq /\ Shape(b, t)
      BY <1>4, <2>1, <2>2
    <2> QED
      BY <2>3, <2>4, <2>5
  <1>9. CASE k # 1
    <2>1. b = q2
      BY <1>7, <1>9
    <2>2. d \in Msg /\ d \notin ToSet(s1) /\ d \in ToSet(c)
      <3>1. 1 \in 1..k /\ 2 \in 1..k /\ 1 # 2
        BY <1>1, <1>9
      <3>2. d \in Msg /\ d \notin ToSet(s) /\ d # a /\ d \in ToSet(c)
        BY <1>1, <3>1 DEF a, d
      <3> QED
        BY <1>4, <3>2
    <2>3. /\ q2 \in Bufq /\ Shape(q2, s2) /\ ToSet(s2) = ToSet(s1) \cup {d}
          /\ Others(q2, q1, ToSet(s1) \cup {d})
      <3>1. q2 = AtTail(q1, d)
        BY DEF q2
      <3>2. /\ q2 \in Bufq /\ Shape(q2, Append(s1, d))
            /\ ToSet(Append(s1, d)) = ToSet(s1) \cup {d}
                 /\ Others(q2, q1, ToSet(s1) \cup {d})
        <4>1. length \in [Msg -> Nat]
          BY <1>1
        <4> QED
          BY <1>4, <2>2, <3>1, <4>1, Appended, Zenon
      <3> QED
        BY <3>2 DEF s2
    <2>4. t = s2
      <3>1. t = s \o SubSeq(c, 1, 2)
        BY <1>9 DEF k, s
      <3>2. SubSeq(c, 1, 2) = <<a, d>>
        <4>1. PICK j \in 1..Len(c) : j = 2
          BY <1>1, <1>9 DEF k
        <4>2. SubSeq(c, 1, j) = IF j = 1 THEN <<c[1]>> ELSE <<c[1], c[2]>>
          BY <4>1, FirstPart
        <4> QED
          BY <4>1, <4>2 DEF a, d
      <3>3. s \o <<a, d>> = Append(Append(s, a), d)
        BY <1>1, <1>3, <2>2
      <3> QED
        BY <3>1, <3>2, <3>3 DEF s1, s2
    <2>5. Others(b, bq, InQueue \cup ToSet(c))
      BY <1>1, <1>2, <1>3, <1>4, <2>1, <2>2, <2>3 DEF Others
    <2>6. ToSet(t) \subseteq InQueue \cup ToSet(c)
      <3>1. ToSet(t) = ToSet(s) \cup {a} \cup {d} /\ InQueue = ToSet(s)
        BY <1>1, <1>4, <2>3, <2>4
      <3> QED
        BY <1>3, <2>2, <3>1
    <2>7. b \in Bufq /\ Shape(b, t)
      BY <2>1, <2>3, <2>4
    <2> QED
      BY <2>5, <2>6, <2>7
  <1> QED
    BY <1>8, <1>9

(* Which of a short chain are all.                                         *)
LEMMA WholeChain ==
  ASSUME NEW c \in Seq(Msg), Len(c) \in Nat \ {0}, Len(c) <= 2
  PROVE  SubSeq(c, 1, IF Len(c) = 1 THEN 1 ELSE 2) = c
  <1>1. PICK k : k = Len(c)
    OBVIOUS
  <1>2. k \in 1..Len(c) /\ k \in {1, 2} /\ k = IF Len(c) = 1 THEN 1 ELSE 2
    BY <1>1
  <1> DEFINE u == IF k = 1 THEN <<c[1]>> ELSE <<c[1], c[2]>>
  <1>3. SubSeq(c, 1, k) = u
    BY <1>2, FirstPart
  <1>4. \A i \in 1..Len(c) : c[i] \in Msg
    BY ElementOfSeq
  <1>5. u \in Seq(Msg) /\ Len(u) = k /\ \A i \in 1..k : u[i] = c[i]
    BY <1>1, <1>2, <1>4
  <1> HIDE DEF u
  <1>6. u = c
    BY <1>1, <1>5, SeqEqual
  <1> QED
    BY <1>2, <1>3, <1>6

(* bufq_resupply takes the first two messages of the chain.                *)
LEMMA Resupplied ==
  ASSUME QInv, NEW c \in SetToAllKPermutations(mine) \ {<<>>}, NEW maxsize,
           NEW maxcount,
         Resupply(c, maxsize, maxcount)
  PROVE  /\ QInv' /\ Abs!EnterChain
         /\ Len(c) <= 2 => Abs!Becomes(Forward \o c, mine \ ToSet(c))
  <1> DEFINE b == Supplied([bq EXCEPT !.next = Following(c)], Head(c))
             j == IF Len(c) = 1 THEN 1 ELSE 2
             t == Forward \o SubSeq(c, 1, j)
             h == mine \ ToSet(c)
  <1>1. c \in Seq(Msg) /\ NoTwice(c) /\ ToSet(c) \subseteq mine /\ Len(c) \in Nat \ {0}
    <2>1. mine \in SUBSET Msg
      BY InShape
    <2> QED
      BY <2>1, OwnChains
  <1>2. bq' = b /\ mine' = h /\ length' = length
    BY DEF Resupply
  <1>3. /\ b \in Bufq /\ Shape(b, t) /\ Others(b, bq, InQueue \cup ToSet(c))
        /\ ToSet(t) \subseteq InQueue \cup ToSet(c)
    <2> HIDE DEF b, t
    <2>1. /\ b = Supplied([bq EXCEPT !.next = Following(c)], Head(c))
          /\ t = Forward \o SubSeq(c, 1, IF Len(c) = 1 THEN 1 ELSE 2)
      BY DEF b, t
    <2> QED
      BY <1>1, <2>1, SuppliedIs
  <1> HIDE DEF b, t, j
  <1>4. \A m \in h : m \notin ToSet(t) /\ b.next[m] = Nil
    <2>1. ASSUME NEW m \in h PROVE m \notin ToSet(t) /\ b.next[m] = Nil
      <3>1. m \in Msg /\ m \notin InQueue \cup ToSet(c) /\ bq.next[m] = Nil
        BY InShape
      <3> QED
        BY <1>3, <3>1 DEF Others
    <2> QED
      BY <2>1
  <1>5. h \subseteq mine \cup InQueue /\ ToSet(t) \subseteq mine \cup InQueue
    BY <1>1, <1>3
  <1>6. QInv' /\ Abs!Becomes(t, h)
    <2> HIDE DEF h
    <2> QED
      BY <1>2, <1>3, <1>4, <1>5, Becoming
  <1>7. Abs!Min({2, Len(c)}) = j
    <2>1. PICK k \in Nat \ {0} : k = Len(c)
      BY <1>1
    <2> DEFINE x == CHOOSE x \in {2, k} : \A y \in {2, k} : x =< y
    <2>2. j = IF k = 1 THEN 1 ELSE 2
      BY <2>1 DEF j
    <2>3. j \in {2, k} /\ \A y \in {2, k} : j =< y
      BY <2>2
    <2>4. x \in {2, k} /\ \A y \in {2, k} : x =< y
      BY <2>3
    <2>5. x = j
      BY <2>2, <2>3, <2>4
    <2> QED
      BY <2>1, <2>5 DEF Abs!Min
  <1>8. Abs!SetToAllKPermutations(mine) = SetToAllKPermutations(mine)
    <2>1. \A S : Abs!Cardinality(S) = Cardinality(S)
      BY Zenon DEF Cardinality, Abs!Cardinality
    <2>2. \A S : Abs!SetToSeqs(S) = SetToSeqs(S)
      BY <2>1, Zenon DEF SetToSeqs, Abs!SetToSeqs
    <2> QED
      BY <2>2 DEF SetToAllKPermutations, Abs!SetToAllKPermutations
  <1>9. Abs!Becomes(Forward \o SubSeq(c, 1, Abs!Min({2, Len(c)})), mine \ Abs!ToSet(c))
    BY <1>6, <1>7, Zenon DEF t, h, ToSet, Abs!ToSet
  <1>10. c \in Abs!SetToAllKPermutations(mine)
    BY <1>8
  <1>11. Abs!EnterChain
    BY <1>9, <1>10, Zenon DEF Abs!EnterChain
  <1>12. ASSUME Len(c) <= 2 PROVE Abs!Becomes(Forward \o c, mine \ ToSet(c))
    <2>1. SubSeq(c, 1, j) = c
      BY <1>1, <1>12, WholeChain DEF j
    <2> QED
      BY <1>6, <2>1, Zenon DEF t, h
  <1> QED
    BY <1>6, <1>11, <1>12

(* The client gives up messages of its own.                                *)
LEMMA Freed ==
  ASSUME QInv, NEW S \in SUBSET mine, FreeChunks(S)
  PROVE  QInv' /\ Abs!Discard
  <1> DEFINE h == mine \ S
             t == Forward
  <1>1. bq' = bq /\ length' = length /\ mine' = h
    BY DEF FreeChunks
  <1>2. bq \in Bufq /\ Shape(bq, t) /\ ToSet(t) = InQueue
    BY InShape DEF InQueue
  <1>3. \A m \in h : m \notin ToSet(t) /\ bq.next[m] = Nil
    BY <1>2, InShape
  <1>4. h \subseteq mine \cup InQueue /\ ToSet(t) \subseteq mine \cup InQueue
    BY <1>2
  <1>5. QInv' /\ Abs!Becomes(t, h)
    <2> DEFINE q == bq
    <2>1. bq' = q /\ q \in Bufq /\ Shape(q, t) /\ \A m \in h : m \notin ToSet(t)
            /\ q.next[m] = Nil
      BY <1>1, <1>2, <1>3
    <2> HIDE DEF h, t, q
    <2> QED
      BY <1>1, <1>4, <2>1, Becoming
  <1>6. Abs!Becomes(Forward, mine \ S)
    BY <1>5
  <1>7. Abs!Discard
    BY <1>6, Zenon DEF Abs!Discard
  <1> QED
    BY <1>5, <1>7

(* The queue starts empty.                                                 *)
LEMMA Starting ==
  ASSUME QInit
  PROVE  QInv /\ Abs!Init
  <1> DEFINE t == <<>>
             q == EmptyQ
  <1>1. t \in Seq(Msg) /\ Len(t) = 0 /\ DOMAIN t = {} /\ NoTwice(t) /\ ToSet(t) = {}
    BY DEF NoTwice, ToSet
  <1>2. bq = q /\ mine = {} /\ length = [m \in Msg |-> 0]
    BY DEF QInit
  <1>3. length \in [Msg -> Nat]
    BY <1>2
  <1>4. /\ q \in Bufq /\ q.head = Nil /\ q.tail = Nil /\ q.msgs = 0 /\ q.count = 0
    BY DEF EmptyQ, NoLinks, Bufq
  <1> HIDE DEF q
  <1>5. Links(q, t)
    BY <1>1, <1>4 DEF Links, Nth
  <1>6. Abs!Sum(length, t) = 0
    <2> HIDE DEF t
    <2>1. t \in Seq(Msg) /\ length \in [Msg -> Nat] /\ Len(t) = 0
      BY <1>1, <1>3
    <2> QED
      BY <2>1, SumOfNone, Zenon
  <1>7. Forward = t
    <2>1. Walk(q.head, q.next) = t
      BY <1>1, <1>5, ReadBothWays
    <2> QED
      BY <1>2, <2>1 DEF Forward
  <1>8. Shape(bq, Forward)
    BY <1>1, <1>2, <1>4, <1>5, <1>6, <1>7 DEF Shape
  <1>9. InQueue = {}
    BY <1>1, <1>7 DEF InQueue
  <1>10. QInv
    BY <1>2, <1>4, <1>8, <1>9 DEF QInv
  <1>11. Abs!Init
    BY <1>2, <1>4, <1>7 DEF Abs!Init
  <1> QED
    BY <1>10, <1>11

(* Every call keeps QInv and is a step of the queue of MsgQueue.           *)
LEMMA OneStep ==
  ASSUME QInv, [QNext]_bqvars
  PROVE  QInv' /\ [Abs!Next]_Abs!vars
  <1>1. ASSUME NEW m \in Msg, NEW s \in Size, Alloc(m, s) PROVE QInv' /\ Abs!New
    BY <1>1, Allocated
  <1>2. ASSUME NEW m \in Msg, NEW p \in Msg, Dupl(p, m) PROVE QInv' /\ Abs!New
    <2>1. length[p] \in Size /\ Alloc(m, length[p])
      BY <1>2, InShape DEF Dupl
    <2> QED
      BY <2>1, Allocated
  <1>3. ASSUME NEW m \in Msg, NEW e \in Msg,
               \/ Queue(e) \/ QueueHead(e)
               \/ Insert(m, e) \/ AppendTo(m, e)
        PROVE  QInv' /\ Abs!Enter
    <2>1. PICK i : EntersAt(e, i)
      BY <1>3, AtOnePlace, Zenon
    <2> QED
      BY <2>1, Entered
  <1>4. ASSUME \/ \E m \in Msg : Unlink(m)
               \/ Dequeue \/ FreeHead
        PROVE  QInv' /\ Abs!Leave
    BY <1>4, Gone
  <1>5. ASSUME NEW S \in SUBSET mine \ {{}}, FreeChunks(S) PROVE QInv' /\ Abs!Discard
    BY <1>5, Freed
  <1>6. ASSUME Purge PROVE QInv' /\ Abs!Clear
    BY <1>6, Purged
  <1>7. ASSUME NEW c \in SetToAllKPermutations(mine) \ {<<>>}, NEW s \in Limit,
                 NEW k \in Limit,
               Resupply(c, s, k)
        PROVE  QInv' /\ Abs!EnterChain
    BY <1>7, Resupplied
  <1>8. ASSUME UNCHANGED bqvars PROVE QInv' /\ UNCHANGED Abs!vars
    <2>1. bq' = bq /\ mine' = mine /\ length' = length
      BY <1>8 DEF bqvars
    <2>2. Forward' = Forward
      BY <2>1 DEF Forward
    <2>3. QInv'
      BY <2>1, <2>2 DEF QInv, InQueue, Shape
    <2> QED
      BY <2>1, <2>2, <2>3 DEF Abs!vars
  <1>9. CASE QNext
    <2> USE DEF Abs!Next
    <2>1. CASE \E m \in Msg : \/ \E s \in Size : Alloc(m, s)
                              \/ \E p \in Msg : Dupl(p, m)
      BY <1>1, <1>2, <2>1
    <2>2. CASE \E m \in Msg : \/ Queue(m) \/ QueueHead(m)
                              \/ \E np \in Msg : Insert(m, np) \/ AppendTo(m, np)
      BY <1>3, <2>2
    <2>3. CASE (\E m \in Msg : Unlink(m)) \/ Dequeue \/ FreeHead
      BY <1>4, <2>3
    <2>4. CASE \E S \in SUBSET mine \ {{}} : FreeChunks(S)
      BY <1>5, <2>4
    <2>5. CASE Purge
      BY <1>6, <2>5
    <2>6. CASE \E c \in SetToAllKPermutations(mine) \ {<<>>}, s, k \in Limit :
                 Resupply(c, s, k)
      BY <1>7, <2>6
    <2> QED
      BY <1>9, <2>1, <2>2, <2>3, <2>4, <2>5, <2>6, Zenon DEF QNext
  <1> QED
    BY <1>8, <1>9

(* QInv is an invariant of the linked list.                                *)
THEOREM QueueInvariant == QSpec => []QInv
  <1>1. QInit => QInv
    BY Starting
  <1>2. QInv /\ [QNext]_bqvars => QInv'
    BY OneStep
  <1> QED
    BY <1>1, <1>2, PTL DEF QSpec

(* Head, tail and counters in their ranges; read from either end the queue *)
(* is the same; and no message in it is the client's.                      *)
THEOREM QueueIsWhole == QSpec => [](QTypeOK /\ BothWays)
  <1>1. QInv => QTypeOK /\ BothWays
    <2> SUFFICES ASSUME QInv PROVE QTypeOK /\ BothWays
      OBVIOUS
    <2> DEFINE s == Forward
    <2>1. /\ bq \in Bufq /\ s \in Seq(Msg) /\ NoTwice(s) /\ Links(bq, s)
          /\ bq.msgs = Len(s) /\ mine \subseteq Msg /\ ToSet(s) = InQueue
          /\ \A m \in mine : m \notin InQueue
      BY InShape DEF InQueue
    <2>2. length \in [Msg -> {0} \cup Size]
      BY DEF QInv
    <2>3. /\ Len(s) \in Nat /\ Cardinality(Msg) \in Nat /\ Len(s) <= Cardinality(Msg)
          /\ Cardinality(ToSet(s)) = Len(s)
      <3> HIDE DEF s
      <3> QED
        BY <2>1, QueueRoom
    <2>4. Backward = Reverse(s)
      <3> HIDE DEF s
      <3>1. Walk(bq.tail, bq.prev) = Reverse(s)
        BY <2>1, ReadBothWays
      <3> QED
        BY <3>1 DEF Backward
    <2> HIDE DEF s
    <2>5. /\ bq.head \in Msg \cup {Nil} /\ bq.tail \in Msg \cup {Nil}
               /\ bq.count \in Nat
          /\ bq.prev \in [Msg -> Msg \cup {Nil}] /\ bq.next \in [Msg -> Msg \cup {Nil}]
      BY <2>1 DEF Bufq
    <2>6. bq.msgs \in 0..Cardinality(Msg)
      BY <2>1, <2>3
    <2>7. QTypeOK
      BY <2>1, <2>2, <2>5, <2>6 DEF QTypeOK
    <2>8. InQueue \cap mine = {} /\ Cardinality(InQueue) = bq.msgs
      BY <2>1, <2>3
    <2>9. BothWays
      BY <2>1, <2>4, <2>8 DEF BothWays, s
    <2> QED
      BY <2>7, <2>9
  <1> QED
    BY <1>1, QueueInvariant, PTL

(* Every call, its loops included, is one step of MsgQueue: it changes the *)
(* sequence of messages, what the client owns and the number of bytes as   *)
(* that step says, whatever pointers lib/bufq.c writes to bring it about.  *)
THEOREM QueueImplements == QSpec => IsAQueue
  <1>1. QInit => QInv /\ Abs!Init
    BY Starting
  <1>2. QInv /\ [QNext]_bqvars => QInv' /\ [Abs!Next]_Abs!vars
    BY OneStep
  <1> QED
    BY <1>1, <1>2, PTL DEF QSpec, IsAQueue, Abs!Spec

(* And each puts a message where it says: bufq_queue behind all the others, *)
(* bufq_queue_head before them, bufq_insert before the one it is given and *)
(* bufq_append behind it; bufq_unlink and bufq_dequeue take out that one,  *)
(* and bufq_resupply brings a chain of at most two, in its order.          *)
THEOREM CallsInPlace == QSpec => InItsPlace
  <1> DEFINE P == /\ \A m \in Msg :
                       /\ Queue(m)     => Puts(m, Len(Forward) + 1)
                       /\ QueueHead(m) => Puts(m, 1)
                       /\ \A np \in Msg :
                            /\ Insert(m, np) => \E i \in At(m) : Puts(np, i)
                            /\ AppendTo(m, np) => \E i \in At(m) : Puts(np, i + 1)
                       /\ Unlink(m) => \E i \in At(m) :
                            Abs!Becomes(RemoveAt(Forward, i), mine \cup {m})
                  /\ Dequeue => Abs!Becomes(Tail(Forward), mine \cup {Head(Forward)})
                  /\ \A c \in SetToAllKPermutations(mine) \ {<<>>}, s, k \in Limit :
                       Resupply(c, s, k) /\ Len(c) <= 2
                         => Abs!Becomes(Forward \o c, mine \ ToSet(c))
  <1>1. QInv => P
    <2> SUFFICES ASSUME QInv PROVE P
      OBVIOUS
    <2>1. ASSUME NEW m \in Msg, Queue(m) PROVE Puts(m, Len(Forward) + 1)
      BY <2>1, AtOnePlace, Entered
    <2>2. ASSUME NEW m \in Msg, QueueHead(m) PROVE Puts(m, 1)
      BY <2>2, AtOnePlace, Entered
    <2>3. ASSUME NEW m \in Msg, NEW np \in Msg, Insert(m, np)
          PROVE  \E i \in At(m) : Puts(np, i)
      BY <2>3, AtOnePlace, Entered
    <2>4. ASSUME NEW m \in Msg, NEW np \in Msg, AppendTo(m, np)
          PROVE  \E i \in At(m) : Puts(np, i + 1)
      BY <2>4, AtOnePlace, Entered
    <2>5. ASSUME NEW m \in Msg, Unlink(m)
          PROVE  \E i \in At(m) : Abs!Becomes(RemoveAt(Forward, i), mine \cup {m})
      BY <2>5, FromItsPlace
    <2>6. ASSUME Dequeue
          PROVE  Abs!Becomes(Tail(Forward), mine \cup {Head(Forward)})
      <3>1. Unlink(bq.head)
        BY <2>6 DEF Dequeue
      <3> QED
        BY <2>6, <3>1, FromItsPlace
    <2>7. ASSUME NEW c \in SetToAllKPermutations(mine) \ {<<>>},
                 NEW s \in Limit, NEW k \in Limit, Resupply(c, s, k), Len(c) <= 2
          PROVE  Abs!Becomes(Forward \o c, mine \ ToSet(c))
      BY <2>7, Resupplied
    <2> QED
      BY <2>1, <2>2, <2>3, <2>4, <2>5, <2>6, <2>7
  <1>2. QInv => [P]_bqvars
    BY <1>1
  <1> HIDE DEF P
  <1>3. QSpec => [][P]_bqvars
    BY <1>2, QueueInvariant, PTL
  <1> QED
    BY <1>3 DEF P, InItsPlace

-----------------------------------------------------------------------------
(* The linked structures together.                                         *)

(* Whatever the calls of bufq.c, list_head and hlist: each call leaves the *)
(* links, the counters and an iteration under way as they have to be.      *)
THEOREM LinksAreWhole == Spec => []Linked
  <1>1. Spec => QSpec /\ LSpec /\ HSpec
    <2>1. Init => QInit /\ LInit /\ HInit
      BY DEF Init
    <2>2. [Next]_allvars => [QNext]_bqvars /\ [LNext]_lvars /\ [HNext]_hvars
      BY DEF Next, allvars
    <2> QED
      BY <2>1, <2>2, PTL DEF Spec, QSpec, LSpec, HSpec
  <1>2. LInv => LTypeOK /\ BothEnds /\ SafeWalk
    BY LInvShows
  <1>3. HInv => HTypeOK /\ LedTo /\ SafePass
    BY HInvShows
  <1> DEFINE Q == QTypeOK /\ BothWays
             L == LTypeOK /\ BothEnds /\ SafeWalk
             H == HTypeOK /\ LedTo /\ SafePass
  <1>4. Q /\ L /\ H => Linked
    BY DEF Linked
  <1>5. QSpec => []Q
    BY QueueIsWhole
  <1> HIDE DEF Q, L, H
  <1> QED
    BY <1>1, <1>2, <1>3, <1>4, <1>5, ListHeadInvariant, HListInvariant, PTL DEF L, H
=============================================================================

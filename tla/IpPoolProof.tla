----------------------------- MODULE IpPoolProof -----------------------------
(***************************************************************************)
(* Proofs about IpPool, for every set of lists, pools, addresses and       *)
(* configurations.                                                         *)
(***************************************************************************)
EXTENDS IpPool, FiniteSetTheorems, WellFoundedInduction, TLAPS

(* % on the operands the counters and cursors give it.                     *)
LEMMA Mod ==
  ASSUME NEW n \in Nat, n > 0
  PROVE  /\ \A u \in Int : u % n \in 0..(n - 1)
         /\ \A u \in 0..(n - 1) : u % n = u
         /\ n % n = 0
         /\ (-1) % n = n - 1
  OBVIOUS

(* The bits of a pool are finitely many and no more than the counter       *)
(* counts; when there are as many as positions, they are all set.          *)
LEMMA Positions ==
  ASSUME NEW n \in Nat
  PROVE  IsFiniteSet(0..(n - 1)) /\ Cardinality(0..(n - 1)) = n
  BY FS_Interval

LEMMA Bits ==
  ASSUME NEW n \in Nat, NEW S, S \subseteq 0..(n - 1)
  PROVE  IsFiniteSet(S) /\ Cardinality(S) \in 0..n
<1>1. IsFiniteSet(0..(n - 1)) /\ Cardinality(0..(n - 1)) = n
  BY Positions
<1>2. IsFiniteSet(S) /\ Cardinality(S) <= n
  BY <1>1, FS_Subset
<1> QED
  BY <1>2, FS_CardinalityType

LEMMA AllBits ==
  ASSUME NEW n \in Nat, NEW S, S \subseteq 0..(n - 1), Cardinality(S) = n
  PROVE  S = 0..(n - 1)
<1> DEFINE I == 0..(n - 1)
<1>1. IsFiniteSet(I) /\ Cardinality(I) = n /\ S \in SUBSET I
  BY Positions
<1> HIDE DEF I
<1>2. I = S
  BY <1>1, FS_Subset
<1> QED
  BY <1>2 DEF I

(* What ippaddn puts in a slot is a pool, and its exclusion, clamped or    *)
(* empty, lies within its range.                                           *)
Fresh(p) == p.used = 0 /\ p.cur = 0 /\ p.map = Excluded(p)

LEMMA ClampedRange ==
  ASSUME NEW lo \in Addr, NEW hi \in Addr, NEW isip \in Addr, NEW ieip \in Addr,
         isip <= ieip, lo <= hi
  PROVE  LET x == Clamped(lo, hi, isip, ieip)
         IN  /\ x[1] \in Addr /\ x[2] \in Addr
             /\ x[1] # 0 => isip <= x[1]
             /\ x[2] # 0 => x[2] <= ieip
             /\ x[2] # 0 /\ x[2] < x[1] => x[2] = ieip
  BY ConfAssumption DEF Clamped, Addr, Larger, Smaller

(* total counts at least what is not excluded.                             *)
Roomy(p) == p.end <= p.total + Cardinality(Excluded(p))

LEMMA RoomyCapacity ==
  ASSUME NEW p, NEW x, p.isip \in Addr, p.ieip \in Addr, p.isip <= p.ieip,
         p.end = p.ieip - p.isip + 1, p.end <= MaxPool,
         p.xsip = x[1], p.xeip = x[2], x[1] \in Addr, x[2] \in Addr,
         x[1] # 0 => p.isip <= x[1], x[2] # 0 => x[2] <= p.ieip,
         x[2] # 0 /\ x[2] < x[1] => x[2] = p.ieip,
         p.total = Capacity(p.end, x)
  PROVE  Roomy(p)
<1>1. /\ p.isip \in Nat /\ p.ieip \in Nat /\ p.end \in Nat /\ p.end < U32
      /\ x[1] \in Nat /\ x[1] < U32 /\ x[2] \in Nat
      /\ U32 \in Nat /\ U32 > 0 /\ p.ieip < U32
  BY ConfAssumption DEF Addr
<1>2. CASE x[1] = 0 \/ x[2] = 0
  <2>1. Excluded(p) = {} /\ p.total = p.end
    BY <1>2 DEF Excluded, Capacity
  <2> QED
    BY <1>1, <2>1, FS_EmptySet DEF Roomy
<1>3. CASE x[1] # 0 /\ x[2] # 0
  <2> DEFINE lo == x[1] - p.isip
             hi == x[2] - p.isip
  <2>1. lo \in Int /\ hi \in Int /\ p.end - (hi - lo + 1) \in 0..(U32 - 1)
    <3>1. p.end - (hi - lo + 1) = (p.ieip - x[2]) + (x[1] - p.isip)
      BY <1>1
    <3>2. CASE x[1] <= x[2]
      BY <1>1, <1>3, <3>1, <3>2
    <3>3. CASE x[2] < x[1]
      BY <1>1, <1>3, <3>1, <3>3
    <3> QED
      BY <1>1, <3>2, <3>3
  <2>2. p.total = p.end - (hi - lo + 1)
    <3>1. p.total = (p.end - (x[2] - x[1] + 1)) % U32
      BY <1>3 DEF Capacity
    <3>2. x[2] - x[1] + 1 = hi - lo + 1
      BY <1>1
    <3>3. \A u \in 0..(U32 - 1) : u % U32 = u
      BY <1>1, Mod
    <3> QED
      BY <3>1, <3>2, <3>3, <2>1
  <2>3. Excluded(p) = lo..hi
    BY <1>3 DEF Excluded
  <2>4. Cardinality(lo..hi) = IF lo > hi THEN 0 ELSE hi - lo + 1
    BY <2>1, FS_Interval
  <2> HIDE DEF lo, hi
  <2> QED
    BY <1>1, <2>1, <2>2, <2>3, <2>4 DEF Roomy
<1> QED
  BY <1>2, <1>3

LEMMA NewPoolRight ==
  ASSUME NEW c \in Conf, NewPool(c).net # 0
  PROVE  /\ NewPool(c) \in Pool /\ Shape(NewPool(c)) /\ Fresh(NewPool(c))
         /\ NewPool(c).isip > 0 /\ Roomy(NewPool(c))
<1> DEFINE b == Block(c.hosts)
           net == NetOf(c.addr, b)
           size == IF b = 1 THEN 1 ELSE b - 2
           isip == IF size > 1 THEN net + 1 ELSE net
           ieip == IF size > 1 THEN net + b - 2 ELSE net
           x == Clamped(Smaller(c.xs, c.xe), Larger(c.xs, c.xe), isip, ieip)
           q == PoolOf(c)
<1>1. /\ net \in Addr /\ size \in 1..MaxPool
      /\ isip \in Addr /\ ieip \in Addr /\ isip <= ieip
      /\ size = ieip - isip + 1
  BY MaskAssumption, ConfAssumption DEF Addr
<1>2. /\ q = [net |-> net, isip |-> isip, ieip |-> ieip, xsip |-> x[1],
              xeip |-> x[2], cur |-> 0, end |-> size,
              total |-> Capacity(size, x), used |-> 0, map |-> {}]
  BY DEF PoolOf
<1>3. /\ Smaller(c.xs, c.xe) \in Addr /\ Larger(c.xs, c.xe) \in Addr
      /\ Smaller(c.xs, c.xe) <= Larger(c.xs, c.xe)
  BY ConfAssumption DEF Smaller, Larger, Addr
<1>4. /\ x[1] \in Addr /\ x[2] \in Addr
      /\ x[1] # 0 => isip <= x[1]
      /\ x[2] # 0 => x[2] <= ieip
      /\ x[2] # 0 /\ x[2] < x[1] => x[2] = ieip
  BY <1>1, <1>3, ClampedRange
<1> HIDE DEF b, net, size, isip, ieip, x
<1>5. Capacity(size, x) \in 0..(U32 - 1)
  <2>1. size \in 0..(U32 - 1) /\ U32 \in Nat /\ U32 > 0
    BY <1>1, ConfAssumption
  <2>2. size - (x[2] - x[1] + 1) \in Int
    BY <1>1, <1>4, ConfAssumption DEF Addr
  <2> QED
    BY <2>1, <2>2, Mod DEF Capacity
<1>6. NewPool(c) = [q EXCEPT !.map = Excluded(q)]
  BY DEF NewPool
<1>7. Excluded(q) \subseteq 0..(size - 1)
  <2> SUFFICES ASSUME x[1] # 0, x[2] # 0
               PROVE  (x[1] - isip)..(x[2] - isip) \subseteq 0..(size - 1)
    BY <1>2 DEF Excluded
  <2> QED
    BY <1>1, <1>4, ConfAssumption DEF Addr
<1>8. Excluded(NewPool(c)) = Excluded(q)
  BY <1>2, <1>6 DEF Excluded
<1>9. NewPool(c) = [net |-> net, isip |-> isip, ieip |-> ieip, xsip |-> x[1],
              xeip |-> x[2], cur |-> 0, end |-> size,
              total |-> Capacity(size, x), used |-> 0,
              map |-> Excluded(q)]
  BY <1>2, <1>6
<1>10. NewPool(c) \in Pool
  <2>1. Excluded(q) \in SUBSET Nat
    BY <1>7, <1>1
  <2> QED
    BY <1>9, <1>1, <1>4, <1>5, <2>1, ConfAssumption DEF Pool, Addr
<1>11. Shape(NewPool(c)) /\ Fresh(NewPool(c))
  BY <1>9, <1>8, <1>7, <1>1 DEF Shape, Fresh
<1>12. NewPool(c).isip > 0
  <2>1. net # 0 /\ isip >= net
    BY <1>9, <1>1 DEF isip, Addr
  <2> QED
    BY <2>1, <1>1, <1>9 DEF Addr
<1>13. Roomy(NewPool(c))
  BY <1>9, <1>1, <1>4, RoomyCapacity
<1> QED
  BY <1>10, <1>11, <1>12, <1>13

-----------------------------------------------------------------------------
(* What is true of every slot of every list.                               *)
Difference(p) == Cardinality(p.map) - Cardinality(Excluded(p))

Sound(p) ==
  /\ p \in Pool
  /\ p.net = 0 => p = Empty
  /\ p.net # 0 => /\ Shape(p) /\ p.isip > 0 /\ Roomy(p)
                  /\ p.used \in {Difference(p), Difference(p) + U32}

SameRange(p, q) ==
  /\ q.net = p.net /\ q.isip = p.isip /\ q.ieip = p.ieip
  /\ q.xsip = p.xsip /\ q.xeip = p.xeip
  /\ q.end = p.end /\ q.total = p.total

LEMMA SameExcluded ==
  ASSUME NEW p, NEW q, SameRange(p, q)
  PROVE  Excluded(q) = Excluded(p)
  BY DEF SameRange, Excluded

LEMMA EmptySound == Sound(Empty)
  BY ConfAssumption DEF Sound, Empty, Pool, Addr

LEMMA NewPoolSound ==
  ASSUME NEW c \in Conf, NewPool(c).net # 0
  PROVE  Sound(NewPool(c))
<1> DEFINE p == NewPool(c)
<1>1. p \in Pool /\ Shape(p) /\ Fresh(p) /\ p.isip > 0 /\ Roomy(p)
  BY NewPoolRight
<1>2. p.end \in Nat /\ Excluded(p) \subseteq 0..(p.end - 1)
  BY <1>1, ConfAssumption DEF Pool, Shape
<1>3. Cardinality(Excluded(p)) \in Nat
  BY <1>2, Bits
<1>4. Difference(p) = 0 /\ p.used = 0
  BY <1>1, <1>3 DEF Difference, Fresh
<1> QED
  BY <1>1, <1>4 DEF Sound

(* The differences of a pool stay within what the counter can hold.        *)
LEMMA Bounds ==
  ASSUME NEW p, Sound(p), p.net # 0
  PROVE  /\ p.end \in Nat /\ p.end < U32 /\ U32 \in Nat
         /\ IsFiniteSet(p.map)
         /\ Cardinality(p.map) \in 0..p.end
         /\ Cardinality(Excluded(p)) \in 0..p.end
         /\ p.used \in 0..(U32 - 1)
<1>1. p.end \in Nat /\ p.end < U32 /\ U32 \in Nat /\ p.used \in 0..(U32 - 1)
  BY ConfAssumption DEF Sound, Pool
<1>2. p.map \subseteq 0..(p.end - 1) /\ Excluded(p) \subseteq 0..(p.end - 1)
  BY DEF Sound, Shape
<1> QED
  BY <1>1, <1>2, Bits

LEMMA MarkSound ==
  ASSUME NEW p, Sound(p), p.net # 0, NEW c \in 0..(p.end - 1), c \notin p.map
  PROVE  /\ Sound(Mark(p, c)) /\ SameRange(p, Mark(p, c))
         /\ Mark(p, c).map = p.map \cup {c}
         /\ Mark(p, c).cur = p.cur
<1> DEFINE q == Mark(p, c)
<1>1. p \in Pool /\ Shape(p) /\ p.isip > 0 /\ Roomy(p)
  BY DEF Sound
<1>2. /\ q.map = p.map \cup {c} /\ q.used = (p.used + 1) % U32
      /\ q.cur = p.cur /\ SameRange(p, q)
  BY <1>1 DEF Mark, Pool, SameRange
<1>3. (p.used + 1) % U32 = IF p.used = U32 - 1 THEN 0 ELSE p.used + 1
  <2>1. U32 \in Nat /\ U32 > 0 /\ p.used \in 0..(U32 - 1)
    BY Bounds
  <2>2. CASE p.used = U32 - 1
    BY <2>1, <2>2, Mod
  <2>3. CASE p.used # U32 - 1
    <3>1. p.used + 1 \in 0..(U32 - 1)
      BY <2>1, <2>3
    <3> QED
      BY <2>1, <2>3, <3>1, Mod
  <2> QED
    BY <2>2, <2>3
<1>4. q \in Pool
  <2>1. q.used \in 0..(U32 - 1)
    BY <1>2, <1>3, Bounds
  <2>2. q.map \in SUBSET Nat
    BY <1>1, <1>2, Bounds DEF Pool
  <2>3. q = [p EXCEPT !.map = q.map, !.used = q.used]
    BY <1>1, <1>2 DEF Mark, Pool
  <2> QED
    BY <2>1, <2>2, <2>3, <1>1 DEF Pool
<1>5. Excluded(q) = Excluded(p)
  BY <1>2, SameExcluded
<1>6. Shape(q)
  BY <1>1, <1>2, <1>5 DEF Shape, SameRange
<1>7. Cardinality(q.map) = Cardinality(p.map) + 1
  BY <1>2, FS_AddElement, Bounds
<1>8. Cardinality(q.map) \in 0..p.end
  <2>1. q.map \subseteq 0..(p.end - 1)
    BY <1>6, <1>2 DEF Shape, SameRange
  <2> QED
    BY <2>1, Bits, Bounds
<1>9. q.used \in {Difference(q), Difference(q) + U32}
  <2>1. p.used \in {Difference(p), Difference(p) + U32}
    BY DEF Sound
  <2> HIDE DEF q
  <2> QED
    BY <2>1, <1>2, <1>3, <1>5, <1>7, <1>8, Bounds DEF Difference
<1> QED
  BY <1>1, <1>2, <1>4, <1>5, <1>6, <1>9 DEF Sound, SameRange, Roomy

LEMMA ReleaseSound ==
  ASSUME NEW p, Sound(p), NEW c
  PROVE  /\ Sound(Release(p, c)) /\ SameRange(p, Release(p, c))
         /\ Release(p, c).map = p.map \ {c}
<1> DEFINE q == Release(p, c)
<1>1. CASE c \notin p.map
  BY <1>1 DEF Release, SameRange
<1>2. CASE c \in p.map
  <2>1. p.net # 0
    BY <1>2 DEF Sound, Empty
  <2>2. p \in Pool /\ Shape(p) /\ p.isip > 0 /\ Roomy(p)
    BY <2>1 DEF Sound
  <2>3. /\ q.map = p.map \ {c} /\ q.used = (p.used - 1) % U32
        /\ q.cur = p.cur /\ SameRange(p, q)
    BY <1>2, <2>2 DEF Release, Pool, SameRange
  <2>4. (p.used - 1) % U32 = IF p.used = 0 THEN U32 - 1 ELSE p.used - 1
    <3>1. U32 \in Nat /\ U32 > 0 /\ p.used \in 0..(U32 - 1)
      BY <2>1, Bounds
    <3>2. CASE p.used = 0
      BY <3>1, <3>2, Mod
    <3>3. CASE p.used # 0
      <4>1. p.used - 1 \in 0..(U32 - 1)
        BY <3>1, <3>3
      <4> QED
        BY <3>1, <3>3, <4>1, Mod
    <3> QED
      BY <3>2, <3>3
  <2>5. q \in Pool
    <3>1. q.used \in 0..(U32 - 1)
      BY <2>1, <2>3, <2>4, Bounds
    <3>2. q.map \in SUBSET Nat
      BY <2>2, <2>3 DEF Pool
    <3>3. q = [p EXCEPT !.map = q.map, !.used = q.used]
      BY <1>2, <2>2, <2>3 DEF Release, Pool
    <3> QED
      BY <3>1, <3>2, <3>3, <2>2 DEF Pool
  <2>6. Excluded(q) = Excluded(p)
    BY <2>3, SameExcluded
  <2>7. Shape(q)
    BY <2>2, <2>3, <2>6 DEF Shape, SameRange
  <2>8. Cardinality(q.map) = Cardinality(p.map) - 1
    BY <1>2, <2>1, <2>3, FS_RemoveElement, Bounds
  <2>9. q.used \in {Difference(q), Difference(q) + U32}
    <3>1. p.used \in {Difference(p), Difference(p) + U32}
      BY <2>1 DEF Sound
    <3>2. Cardinality(p.map) > 0
      BY <2>1, <2>8, <2>7, <2>3, Bits, Bounds DEF Shape, SameRange
    <3> HIDE DEF q
    <3> QED
      BY <3>1, <3>2, <2>1, <2>3, <2>4, <2>6, <2>8, Bounds DEF Difference
  <2> QED
    BY <2>1, <2>2, <2>3, <2>5, <2>6, <2>7, <2>9 DEF Sound, SameRange, Roomy
<1> QED
  BY <1>1, <1>2

LEMMA AdvancedSound ==
  ASSUME NEW p, Sound(p), p.net # 0, NEW c \in 0..(p.end - 1)
  PROVE  /\ Sound(Advanced(p, c)) /\ SameRange(p, Advanced(p, c))
         /\ Advanced(p, c).map = p.map
<1> DEFINE q == Advanced(p, c)
<1>1. p \in Pool /\ Shape(p) /\ p.isip > 0 /\ Roomy(p)
  BY DEF Sound
<1>2. q = [p EXCEPT !.cur = (c + 1) % p.end]
  BY DEF Advanced
<1>3. (c + 1) % p.end \in 0..(p.end - 1)
  BY Bounds, Mod
<1>4. q \in Pool /\ SameRange(p, q) /\ q.map = p.map /\ q.used = p.used
  BY <1>1, <1>2, <1>3, Bounds DEF Pool, SameRange
<1>5. Excluded(q) = Excluded(p)
  BY <1>4, SameExcluded
<1>6. q.cur \in 0..(q.end - 1)
  BY <1>1, <1>2, <1>3, <1>4 DEF Pool, SameRange
<1>7. Shape(q)
  BY <1>1, <1>4, <1>5, <1>6 DEF Shape, SameRange
<1>8. Difference(q) = Difference(p)
  BY <1>4, <1>5 DEF Difference
<1> HIDE DEF q
<1>9. Sound(q)
  BY <1>1, <1>4, <1>5, <1>7, <1>8 DEF Sound, SameRange, Roomy
<1> QED
  BY <1>4, <1>9 DEF q

-----------------------------------------------------------------------------
(* The invariant that types and counters need.                             *)
PoolInv ==
  /\ alive \subseteq List
  /\ nipp \in [List -> Nat]
  /\ pool \in [List -> [Slot -> Pool]]
  /\ \A l \in List, j \in Slot : Sound(pool[l][j])
  /\ lent \in [Addr -> Nat]
  /\ fate \in {"up", "hung", "trap"}

LEMMA PoolInvInit == Init => PoolInv
  BY EmptySound DEF Init, PoolInv, Sound

(* One slot of one list gets a sound pool.                                 *)
LEMMA SlotChange ==
  ASSUME PoolInv, NEW l \in List, NEW j \in Slot, NEW q, Sound(q),
         pool' = [pool EXCEPT ![l][j] = q]
  PROVE  /\ pool' \in [List -> [Slot -> Pool]]
         /\ \A k \in List, i \in Slot :
              /\ Sound(pool'[k][i])
              /\ pool'[k][i] = IF k = l /\ i = j THEN q ELSE pool[k][i]
<1>1. q \in Pool
  BY DEF Sound
<1>2. \A k \in List, i \in Slot :
        pool'[k][i] = IF k = l /\ i = j THEN q ELSE pool[k][i]
  BY DEF PoolInv
<1>3. pool' \in [List -> [Slot -> Pool]]
  BY <1>1 DEF PoolInv
<1> QED
  BY <1>2, <1>3 DEF PoolInv

(* What the search finds is a clear bit of the pool.                       *)
LEMMA ReachedClear ==
  ASSUME NEW p, NEW c, NEW d \in Reached(p, c)
  PROVE  d \in 0..(p.end - 1) /\ d \notin p.map
  BY DEF Reached

(* A pool the search is made in is live and in the array.                  *)
LEMMA OpenLive ==
  ASSUME PoolInv, NEW l \in List, InArray, NEW j \in Open(l)
  PROVE  j \in Slot /\ pool[l][j].net # 0
<1>1. j \in Slot
  BY ListAssumption DEF Open, InArray, PoolInv, Slot
<1>2. pool[l][j].net # 0
  BY <1>1 DEF Open, PoolInv, Sound, Empty
<1> QED
  BY <1>1, <1>2

LEMMA AddressOf ==
  ASSUME NEW p, Sound(p), p.net # 0, NEW c \in 0..(p.end - 1)
  PROVE  p.isip + c \in Addr /\ InRange(p, p.isip + c) /\ p.isip + c - p.isip = c
  BY ConfAssumption DEF Sound, Pool, Shape, Addr, InRange

LEMMA PoolInvAdd ==
  ASSUME PoolInv, NEW c \in Conf, Add(c)
  PROVE  PoolInv'
<1>1. c.list \in List /\ Sound(NewPool(c))
  BY NewPoolSound, ConfAssumption DEF Add
<1>2. alive' \subseteq List
  BY <1>1 DEF Add, PoolInv
<1>3. CASE UNCHANGED <<pool, nipp>>
  BY <1>2, <1>3 DEF Add, PoolInv
<1>4. ASSUME NEW j \in Slot,
             pool' = [pool EXCEPT ![c.list][j] = NewPool(c)],
             nipp' = [nipp EXCEPT ![c.list] = @ + 1]
      PROVE  PoolInv'
  <2>1. /\ pool' \in [List -> [Slot -> Pool]]
        /\ \A k \in List, i \in Slot : Sound(pool'[k][i])
    BY <1>1, <1>4, SlotChange
  <2>2. nipp' \in [List -> Nat]
    BY <1>1, <1>4 DEF PoolInv
  <2> QED
    BY <1>2, <2>1, <2>2 DEF PoolInv, Add
<1> QED
  BY <1>3, <1>4 DEF Add

LEMMA PoolInvDel ==
  ASSUME PoolInv, NEW c \in Conf, Del(c)
  PROVE  PoolInv'
<1>1. Empty \in Pool /\ Sound(Empty)
  BY EmptySound DEF Sound
<1>2. nipp' = nipp
  BY DEF Del, NippAfter
<1>3. \A l \in List, j \in Slot : pool'[l][j] \in {Empty, pool[l][j]}
  BY DEF Del
<1>4. pool' \in [List -> [Slot -> Pool]]
  BY <1>1 DEF Del, PoolInv
<1> QED
  BY <1>1, <1>2, <1>3, <1>4 DEF PoolInv, Del

LEMMA PoolInvFlush ==
  ASSUME PoolInv, Flush
  PROVE  PoolInv'
  BY EmptySound DEF PoolInv, Flush, Sound

(* ipallocn and ipset take a clear bit c of the live pool in slot j of     *)
(* list l, and leave the pool q there.                                     *)
Takes(l, j, c, q) ==
  /\ pool[l][j].net # 0
  /\ c \in 0..(pool[l][j].end - 1) /\ c \notin pool[l][j].map
  /\ Sound(q) /\ SameRange(pool[l][j], q)
  /\ q.map = pool[l][j].map \cup {c}
  /\ pool' = [pool EXCEPT ![l][j] = q]
  /\ lent' = [lent EXCEPT ![pool[l][j].isip + c] = @ + 1]
  /\ UNCHANGED <<alive, nipp, fate>>

LEMMA AllocTakes ==
  ASSUME PoolInv, NEW l \in List, Alloc(l)
  PROVE  \E j \in Slot, c \in Int, q \in Pool : Takes(l, j, c, q)
<1>1. PICK j \in Picked(l) :
        LET p == pool[l][j]
        IN  \E c \in Reached(p, From(p)) :
              /\ pool' = [pool EXCEPT ![l][j] = Advanced(Mark(p, c), c)]
              /\ lent' = [lent EXCEPT ![p.isip + c] = @ + 1]
  BY DEF Alloc
<1> DEFINE p == pool[l][j]
<1>2. PICK c \in Reached(p, From(p)) :
        /\ pool' = [pool EXCEPT ![l][j] = Advanced(Mark(p, c), c)]
        /\ lent' = [lent EXCEPT ![p.isip + c] = @ + 1]
  BY <1>1
<1> DEFINE q == Advanced(Mark(p, c), c)
<1>3. j \in Slot /\ p.net # 0 /\ Sound(p)
  BY OpenLive DEF Alloc, CanAlloc, Picked, PoolInv
<1>4. c \in 0..(p.end - 1) /\ c \notin p.map
  BY ReachedClear
<1>5. /\ Sound(Mark(p, c)) /\ SameRange(p, Mark(p, c))
      /\ Mark(p, c).map = p.map \cup {c}
  BY <1>3, <1>4, MarkSound
<1>6. Sound(q) /\ SameRange(Mark(p, c), q) /\ q.map = Mark(p, c).map
  BY <1>3, <1>4, <1>5, AdvancedSound DEF SameRange
<1>7. SameRange(p, q) /\ q.map = p.map \cup {c}
  BY <1>5, <1>6 DEF SameRange
<1>8. Takes(l, j, c, q)
  BY <1>2, <1>3, <1>4, <1>6, <1>7 DEF Takes, Alloc
<1>9. c \in Int /\ q \in Pool
  BY <1>4, <1>6 DEF Sound
<1> HIDE DEF q
<1> QED
  BY <1>3, <1>8, <1>9

(* A slot that covers an address other than 0 holds a live pool.           *)
LEMMA CoversLive ==
  ASSUME PoolInv, NEW a \in Addr, a # 0, NEW d \in Covers(a)
  PROVE  /\ d[1] \in List /\ d[2] \in Slot
         /\ pool[d[1]][d[2]].net # 0
         /\ a - pool[d[1]][d[2]].isip \in 0..(pool[d[1]][d[2]].end - 1)
<1> DEFINE p == pool[d[1]][d[2]]
<1>1. d[1] \in List /\ d[2] \in Slot /\ InRange(p, a)
  BY DEF Covers
<1>2. Sound(p)
  BY <1>1 DEF PoolInv
<1>3. p.net # 0
  <2> SUFFICES ASSUME p = Empty PROVE FALSE
    BY <1>2 DEF Sound
  <2> QED
    BY <1>1 DEF Empty, InRange, Addr
<1>4. a - p.isip \in 0..(p.end - 1)
  BY <1>1, <1>2, <1>3, ConfAssumption DEF Sound, Shape, Pool, InRange, Addr
<1> QED
  BY <1>1, <1>3, <1>4

LEMMA SetTakes ==
  ASSUME PoolInv, NEW a \in Claim, Set(a)
  PROVE  \E l \in List, j \in Slot, c \in Int, q \in Pool : Takes(l, j, c, q)
<1>1. PICK d \in First(a) :
        LET p == pool[d[1]][d[2]]
        IN  /\ a - p.isip \notin p.map
            /\ pool' = [pool EXCEPT ![d[1]][d[2]] = Mark(p, a - p.isip)]
  BY DEF Set
<1> DEFINE p == pool[d[1]][d[2]]
           q == Mark(p, a - p.isip)
<1>2. /\ d[1] \in List /\ d[2] \in Slot /\ p.net # 0 /\ Sound(p)
      /\ a - p.isip \in 0..(p.end - 1)
  BY CoversLive, ConfAssumption DEF First, PoolInv
<1>3. Sound(q) /\ SameRange(p, q) /\ q.map = p.map \cup {a - p.isip}
  BY <1>1, <1>2, MarkSound
<1>4. p.isip + (a - p.isip) = a
  BY <1>2, ConfAssumption DEF Sound, Pool, Addr
<1>5. Takes(d[1], d[2], a - p.isip, q)
  BY <1>1, <1>2, <1>3, <1>4 DEF Takes, Set
<1> DEFINE c == a - p.isip
<1> HIDE DEF p, q
<1>6. c \in Int
  <2>1. p.isip \in Int /\ a \in Int
    BY <1>2, ConfAssumption DEF Sound, Pool, Addr
  <2> QED
    BY <2>1
<1>7. q \in Pool
  BY <1>3 DEF Sound
<1>8. Takes(d[1], d[2], c, q)
  BY <1>5
<1> HIDE DEF c
<1> QED
  BY <1>2, <1>6, <1>7, <1>8

LEMMA PoolInvTakes ==
  ASSUME PoolInv, NEW l \in List, NEW j \in Slot, NEW c, NEW q, Takes(l, j, c, q)
  PROVE  PoolInv'
<1>1. /\ pool' \in [List -> [Slot -> Pool]]
      /\ \A k \in List, i \in Slot : Sound(pool'[k][i])
  BY SlotChange DEF Takes
<1>2. lent' \in [Addr -> Nat]
  BY AddressOf DEF Takes, PoolInv
<1> QED
  BY <1>1, <1>2 DEF PoolInv, Takes

LEMMA PoolInvAlloc ==
  ASSUME PoolInv, NEW l \in List, Alloc(l)
  PROVE  PoolInv'
<1>1. PICK j \in Slot, c \in Int, q \in Pool : Takes(l, j, c, q)
  BY AllocTakes
<1> QED
  BY <1>1, PoolInvTakes

LEMMA PoolInvSet ==
  ASSUME PoolInv, NEW a \in Claim, Set(a)
  PROVE  PoolInv'
<1>1. PICK l \in List, j \in Slot, c \in Int, q \in Pool : Takes(l, j, c, q)
  BY SetTakes
<1> QED
  BY <1>1, PoolInvTakes

(* ipfree of an address some slot d covers leaves the pool q in that slot. *)
Frees(a, d, q) ==
  /\ d \in First(a) /\ Sound(q) /\ SameRange(pool[d[1]][d[2]], q)
  /\ q.map = pool[d[1]][d[2]].map \ {a - pool[d[1]][d[2]].isip}
  /\ pool' = [pool EXCEPT ![d[1]][d[2]] = q]

LEMMA FreeFrees ==
  ASSUME PoolInv, NEW a \in Addr, Free(a)
  PROVE  /\ lent' = [lent EXCEPT ![a] = @ - 1] /\ lent[a] > 0
         /\ UNCHANGED <<alive, nipp, fate>>
         /\ \/ First(a) = {} /\ UNCHANGED pool
            \/ \E l \in List, j \in Slot, q \in Pool : Frees(a, <<l, j>>, q)
<1>1. ASSUME NEW d \in First(a),
             LET p == pool[d[1]][d[2]]
             IN  pool' = [pool EXCEPT ![d[1]][d[2]] = Release(p, a - p.isip)]
      PROVE  \E l \in List, j \in Slot, q \in Pool : Frees(a, <<l, j>>, q)
  <2>1. d = <<d[1], d[2]>> /\ d[1] \in List /\ d[2] \in Slot
    BY DEF First, Covers
  <2> DEFINE p == pool[d[1]][d[2]]
             q == Release(p, a - p.isip)
  <2>2. Sound(p)
    BY <2>1 DEF PoolInv
  <2>3. Sound(q) /\ SameRange(p, q) /\ q.map = p.map \ {a - p.isip}
    BY <2>2, ReleaseSound
  <2>4. pool' = [pool EXCEPT ![d[1]][d[2]] = q]
    BY <1>1
  <2> HIDE DEF q
  <2>5. Frees(a, <<d[1], d[2]>>, q)
    BY <2>1, <2>3, <2>4 DEF Frees
  <2>6. q \in Pool
    BY <2>3 DEF Sound
  <2> QED
    BY <2>1, <2>5, <2>6
<1> QED
  BY <1>1 DEF Free

LEMMA PoolInvFree ==
  ASSUME PoolInv, NEW a \in Addr, Free(a)
  PROVE  PoolInv'
<1>1. /\ lent' = [lent EXCEPT ![a] = @ - 1] /\ lent[a] > 0
      /\ UNCHANGED <<alive, nipp, fate>>
  BY FreeFrees
<1>2. lent' \in [Addr -> Nat]
  BY <1>1 DEF PoolInv
<1>3. CASE UNCHANGED pool
  BY <1>1, <1>2, <1>3 DEF PoolInv
<1>4. ASSUME NEW l \in List, NEW j \in Slot, NEW q, Frees(a, <<l, j>>, q)
      PROVE  PoolInv'
  <2>1. Sound(q) /\ pool' = [pool EXCEPT ![l][j] = q]
    BY <1>4 DEF Frees
  <2>2. /\ pool' \in [List -> [Slot -> Pool]]
        /\ \A k \in List, i \in Slot : Sound(pool'[k][i])
    BY <2>1, SlotChange
  <2> QED
    BY <1>1, <1>2, <2>2 DEF PoolInv
<1> QED
  BY <1>3, <1>4, FreeFrees

LEMMA PoolInvStep ==
  ASSUME PoolInv, [Next]_vars
  PROVE  PoolInv'
<1>1. ASSUME NEW c \in Conf, Add(c) PROVE PoolInv'
  BY <1>1, PoolInvAdd
<1>2. ASSUME NEW c \in Conf, Del(c) PROVE PoolInv'
  BY <1>2, PoolInvDel
<1>3. ASSUME NEW l \in List, AddRejected(l) PROVE PoolInv'
  BY <1>3 DEF PoolInv, AddRejected
<1>4. CASE Flush
  BY <1>4, PoolInvFlush
<1>5. ASSUME NEW l \in List, Alloc(l) PROVE PoolInv'
  BY <1>5, PoolInvAlloc
<1>6. ASSUME NEW l \in List, AllocHangs(l) \/ AllocTraps(l) PROVE PoolInv'
  BY <1>6 DEF PoolInv, AllocHangs, AllocTraps
<1>7. ASSUME NEW a \in Addr, Free(a) PROVE PoolInv'
  BY <1>7, PoolInvFree
<1>8. ASSUME NEW a \in Claim, Set(a) PROVE PoolInv'
  BY <1>8, PoolInvSet
<1>9. CASE UNCHANGED vars
  BY <1>9 DEF PoolInv, vars
<1> QED
  BY <1>1, <1>2, <1>3, <1>4, <1>5, <1>6, <1>7, <1>8, <1>9
     DEF Next, Operator, Client

(* The invariant holds in every state the pools can reach.                 *)
THEOREM PoolsSound == Spec => []PoolInv
  BY PoolInvInit, PoolInvStep, PTL DEF Spec

LEMMA PoolInvTypes == PoolInv => TypeOK
  BY DEF PoolInv, TypeOK, LivePools, Live, Sound

(* Types, and the cursor, exclusion and every bit within the pool: what    *)
(* ippaddn, ippdel, ipallocn, ipfree and ipset leave is a pool.            *)
THEOREM PoolTypeCorrect == Spec => []TypeOK
  BY PoolsSound, PoolInvTypes, PTL

LEMMA PoolInvCounter == PoolInv => UsedFollowsMap
  BY DEF PoolInv, UsedFollowsMap, LivePools, Live, Sound, Difference

(* used counts the bits set since the pool was added, modulo its width,    *)
(* whatever clients free or claim.                                         *)
THEOREM CounterRight == Spec => []UsedFollowsMap
  BY PoolsSound, PoolInvCounter, PTL

-----------------------------------------------------------------------------
(* The invariant that exclusive addresses need, for clients that return    *)
(* the addresses of a pool before it is deleted: live pools are where the  *)
(* searches look for them, they do not overlap, a bit is set exactly for   *)
(* an excluded address and for one that is held, and what is held lies in  *)
(* a live pool.                                                            *)
Placed ==
  \A l \in List, j \in Slot : pool[l][j].net # 0 => l \in alive /\ j < nipp[l]

Apart ==
  \A l \in List, k \in List, j \in Slot, i \in Slot :
    pool[l][j].net # 0 /\ pool[k][i].net # 0 /\ (l # k \/ j # i)
      => ~Overlap(pool[l][j], pool[k][i])

KeptBy(p, held) ==
  \A a \in p.isip..p.ieip :
    /\ a - p.isip \in p.map <=> a - p.isip \in Excluded(p) \/ held[a] > 0
    /\ a - p.isip \in Excluded(p) => held[a] = 0

HolderInv ==
  /\ \A l \in List, j \in Slot :
       pool[l][j].net # 0 => KeptBy(pool[l][j], lent)
  /\ \A a \in Addr :
       /\ lent[a] <= 1
       /\ lent[a] > 0 => \E l \in List, j \in Slot :
                           pool[l][j].net # 0 /\ InRange(pool[l][j], a)

LEMMA PlacedStep ==
  ASSUME PoolInv, Placed, [Next]_vars
  PROVE  Placed'
<1>1. ASSUME NEW c \in Conf, Add(c) PROVE Placed'
  <2>1. c.list \in List /\ Sound(NewPool(c))
    BY <1>1, NewPoolSound, ConfAssumption DEF Add
  <2>2. CASE UNCHANGED <<pool, nipp>>
    BY <1>1, <2>2 DEF Add, Placed
  <2>3. ASSUME NEW j \in Slot, j \notin Live(c.list),
               \A i \in Slot \ Live(c.list) : j <= i,
               pool' = [pool EXCEPT ![c.list][j] = NewPool(c)],
               nipp' = [nipp EXCEPT ![c.list] = @ + 1]
        PROVE  Placed'
    <3>1. j < nipp[c.list] + 1
      <4>1. CASE j = 0
        BY <2>1, <4>1 DEF PoolInv
      <4>2. CASE j # 0
        <5>1. j - 1 \in Slot /\ ~(j <= j - 1)
          BY <4>2, ListAssumption DEF Slot
        <5>2. j - 1 \in Live(c.list)
          BY <2>3, <5>1
        <5>3. j - 1 < nipp[c.list]
          BY <2>1, <5>1, <5>2 DEF Live, Placed
        <5> QED
          BY <5>3, <2>1 DEF PoolInv, Slot
      <4> QED
        BY <4>1, <4>2
    <3>2. \A k \in List, i \in Slot :
            pool'[k][i] = IF k = c.list /\ i = j THEN NewPool(c) ELSE pool[k][i]
      <4>1. pool \in [List -> [Slot -> Pool]]
        BY DEF PoolInv
      <4> QED
        BY <2>1, <2>3, <4>1
    <3>3. /\ \A k \in List : nipp[k] \in Nat
          /\ \A k \in List : nipp'[k] = IF k = c.list THEN nipp[k] + 1 ELSE nipp[k]
      BY <2>1, <2>3 DEF PoolInv
    <3>4. alive' = alive \cup {c.list}
      BY <1>1 DEF Add
    <3> SUFFICES ASSUME NEW k \in List, NEW i \in Slot, pool'[k][i].net # 0
                 PROVE  k \in alive' /\ i < nipp'[k]
      BY DEF Placed
    <3>5. CASE k = c.list /\ i = j
      BY <3>1, <3>3, <3>4, <3>5
    <3>6. CASE ~(k = c.list /\ i = j)
      <4>1. k \in alive /\ i < nipp[k]
        BY <3>2, <3>6 DEF Placed
      <4> QED
        BY <4>1, <3>3, <3>4 DEF Slot
    <3> QED
      BY <3>5, <3>6
  <2> QED
    BY <1>1, <2>2, <2>3 DEF Add
<1>2. ASSUME NEW c \in Conf, Del(c) PROVE Placed'
  BY <1>2 DEF Placed, Del, NippAfter, Empty
<1>3. ASSUME NEW l \in List, AddRejected(l) PROVE Placed'
  BY <1>3 DEF Placed, AddRejected
<1>4. CASE Flush
  BY <1>4 DEF Placed, Flush, Empty
<1>5. ASSUME NEW l \in List, NEW j \in Slot, NEW q, Sound(q),
             SameRange(pool[l][j], q),
             pool' = [pool EXCEPT ![l][j] = q], UNCHANGED <<alive, nipp>>
      PROVE  Placed'
  <2>1. \A k \in List, i \in Slot :
          pool'[k][i] = IF k = l /\ i = j THEN q ELSE pool[k][i]
    BY <1>5, SlotChange
  <2> QED
    BY <1>5, <2>1 DEF Placed, SameRange
<1>6. ASSUME NEW l \in List, Alloc(l) PROVE Placed'
  <2>1. PICK j \in Slot, c \in Int, q \in Pool : Takes(l, j, c, q)
    BY <1>6, AllocTakes
  <2> QED
    BY <1>5, <2>1 DEF Takes
<1>7. ASSUME NEW l \in List, AllocHangs(l) \/ AllocTraps(l) PROVE Placed'
  BY <1>7 DEF Placed, AllocHangs, AllocTraps
<1>8. ASSUME NEW a \in Addr, Free(a) PROVE Placed'
  <2>1. CASE UNCHANGED pool
    BY <1>8, <2>1 DEF Placed, Free
  <2>2. ASSUME NEW l \in List, NEW j \in Slot, NEW q, Frees(a, <<l, j>>, q)
        PROVE  Placed'
    BY <1>5, <1>8, <2>2, FreeFrees DEF Frees
  <2> QED
    BY <1>8, <2>1, <2>2, FreeFrees
<1>9. ASSUME NEW a \in Claim, Set(a) PROVE Placed'
  <2>1. PICK l \in List, j \in Slot, c \in Int, q \in Pool : Takes(l, j, c, q)
    BY <1>9, SetTakes
  <2> QED
    BY <1>5, <2>1 DEF Takes
<1>10. CASE UNCHANGED vars
  BY <1>10 DEF Placed, vars
<1> QED
  BY <1>1, <1>2, <1>3, <1>4, <1>6, <1>7, <1>8, <1>9, <1>10
     DEF Next, Operator, Client

(* Two addresses of one slot: addresses covered by different slots differ. *)
LEMMA OneCovers ==
  ASSUME Apart, PoolInv, NEW a \in Addr,
         NEW l \in List, NEW j \in Slot, NEW k \in List, NEW i \in Slot,
         pool[l][j].net # 0, InRange(pool[l][j], a),
         pool[k][i].net # 0, InRange(pool[k][i], a)
  PROVE  l = k /\ j = i
<1>1. Overlap(pool[l][j], pool[k][i])
  <2>1. /\ pool[l][j].isip \in Nat /\ pool[l][j].ieip \in Nat
        /\ pool[k][i].isip \in Nat /\ pool[k][i].ieip \in Nat /\ a \in Nat
    <3>1. pool[l][j] \in Pool /\ pool[k][i] \in Pool
      BY DEF PoolInv
    <3> QED
      BY <3>1, ConfAssumption DEF Pool, Addr
  <2> QED
    BY <2>1 DEF Overlap, InRange
<1> QED
  BY <1>1 DEF Apart

LEMMA SlotKeepsApart ==
  ASSUME PoolInv, Apart, NEW l \in List, NEW j \in Slot, NEW q, Sound(q),
         SameRange(pool[l][j], q), pool' = [pool EXCEPT ![l][j] = q]
  PROVE  Apart'
<1>1. \A k \in List, i \in Slot :
        pool'[k][i] = IF k = l /\ i = j THEN q ELSE pool[k][i]
  BY SlotChange
<1>2. \A k \in List, i \in Slot : SameRange(pool[k][i], pool'[k][i])
  BY <1>1 DEF SameRange
<1>3. \A k \in List, i \in Slot :
        /\ pool'[k][i].net = pool[k][i].net
        /\ pool'[k][i].isip = pool[k][i].isip
        /\ pool'[k][i].ieip = pool[k][i].ieip
  BY <1>2 DEF SameRange
<1> QED
  BY <1>3 DEF Apart, Overlap

LEMMA ApartStep ==
  ASSUME PoolInv, Apart, [Next]_vars
  PROVE  Apart'
<1>1. ASSUME NEW c \in Conf, Add(c) PROVE Apart'
  <2>1. c.list \in List /\ Sound(NewPool(c))
    BY <1>1, NewPoolSound, ConfAssumption DEF Add
  <2>2. CASE UNCHANGED pool
    BY <2>2 DEF Apart
  <2>3. ASSUME NEW j \in Slot, pool' = [pool EXCEPT ![c.list][j] = NewPool(c)]
        PROVE  Apart'
    <3> DEFINE n == NewPool(c)
    <3>1. \A k \in List, i \in Slot :
            pool'[k][i] = IF k = c.list /\ i = j THEN n ELSE pool[k][i]
      BY <2>1, <2>3, SlotChange
    <3>2. \A k \in List, i \in Slot :
            pool[k][i].net # 0 => ~Overlap(n, pool[k][i]) /\ ~Overlap(pool[k][i], n)
      <4>1. \A q \in LivePools : ~Overlap(n, q)
        BY <1>1 DEF Add
      <4>2. \A k \in List, i \in Slot : pool[k][i].net # 0 => pool[k][i] \in LivePools
        BY DEF LivePools, Live
      <4> QED
        BY <4>1, <4>2 DEF Overlap
    <3> HIDE DEF n
    <3> QED
      BY <3>1, <3>2 DEF Apart
  <2> QED
    BY <1>1, <2>2, <2>3 DEF Add
<1>2. ASSUME NEW c \in Conf, Del(c) PROVE Apart'
  BY <1>2 DEF Apart, Del, Empty
<1>3. ASSUME NEW l \in List, AddRejected(l) PROVE Apart'
  BY <1>3 DEF Apart, AddRejected
<1>4. CASE Flush
  BY <1>4 DEF Apart, Flush, Empty
<1>5. ASSUME NEW l \in List, Alloc(l) PROVE Apart'
  BY <1>5, AllocTakes, SlotKeepsApart DEF Takes
<1>6. ASSUME NEW l \in List, AllocHangs(l) \/ AllocTraps(l) PROVE Apart'
  BY <1>6 DEF Apart, AllocHangs, AllocTraps
<1>7. ASSUME NEW a \in Addr, Free(a) PROVE Apart'
  <2>1. CASE UNCHANGED pool
    BY <2>1 DEF Apart
  <2>2. ASSUME NEW l \in List, NEW j \in Slot, NEW q, Frees(a, <<l, j>>, q)
        PROVE  Apart'
    BY <2>2, SlotKeepsApart DEF Frees
  <2> QED
    BY <1>7, <2>1, <2>2, FreeFrees
<1>8. ASSUME NEW a \in Claim, Set(a) PROVE Apart'
  BY <1>8, SetTakes, SlotKeepsApart DEF Takes
<1>9. CASE UNCHANGED vars
  BY <1>9 DEF Apart, vars
<1> QED
  BY <1>1, <1>2, <1>3, <1>4, <1>5, <1>6, <1>7, <1>8, <1>9
     DEF Next, Operator, Client

-----------------------------------------------------------------------------
(* Offsets and addresses of a live pool.                                   *)
LEMMA Offsets ==
  ASSUME PoolInv, NEW l \in List, NEW j \in Slot, pool[l][j].net # 0
  PROVE  LET p == pool[l][j]
         IN  /\ p.isip \in Nat /\ p.ieip \in Nat /\ p.isip > 0
             /\ p.ieip <= MaxAddr /\ MaxAddr \in Nat
             /\ p.end = p.ieip - p.isip + 1
             /\ \A c \in 0..(p.end - 1) :
                  p.isip + c \in p.isip..p.ieip /\ (p.isip + c) - p.isip = c
<1> DEFINE p == pool[l][j]
<1>1. p \in Pool /\ Shape(p) /\ p.isip > 0
  BY DEF PoolInv, Sound
<1>2. /\ p.isip \in Nat /\ p.ieip \in Nat /\ p.ieip <= MaxAddr
      /\ MaxAddr \in Nat /\ p.end = p.ieip - p.isip + 1
  BY <1>1, ConfAssumption DEF Pool, Addr, Shape
<1> HIDE DEF p
<1>3. \A c \in 0..(p.end - 1) :
        p.isip + c \in p.isip..p.ieip /\ (p.isip + c) - p.isip = c
  BY <1>2
<1> QED
  BY <1>1, <1>2, <1>3 DEF p

LEMMA HolderAdd ==
  ASSUME PoolInv, HolderInv, NEW c \in Conf, Add(c)
  PROVE  HolderInv'
<1> DEFINE n == NewPool(c)
<1>1. c.list \in List /\ Sound(n) /\ n.net # 0 /\ lent' = lent
  BY NewPoolSound, ConfAssumption DEF Add
<1>2. CASE UNCHANGED pool
  BY <1>1, <1>2 DEF HolderInv, KeptBy
<1>3. ASSUME NEW j \in Slot, j \notin Live(c.list),
             pool' = [pool EXCEPT ![c.list][j] = n]
      PROVE  HolderInv'
  <2>1. \A k \in List, i \in Slot :
          pool'[k][i] = IF k = c.list /\ i = j THEN n ELSE pool[k][i]
    BY <1>1, <1>3, SlotChange
  <2>2. n \in Pool /\ n.map = Excluded(n)
    BY <1>1, NewPoolRight DEF Fresh
  <2>3. \A a \in n.isip..n.ieip : lent[a] = 0
    <3> SUFFICES ASSUME NEW a \in n.isip..n.ieip, lent[a] # 0 PROVE FALSE
      OBVIOUS
    <3>1. a \in Addr /\ n.isip \in Nat /\ n.ieip \in Nat
      BY <2>2, ConfAssumption DEF Pool, Addr
    <3>2. PICK k \in List, i \in Slot :
            pool[k][i].net # 0 /\ InRange(pool[k][i], a)
      BY <3>1 DEF HolderInv, PoolInv
    <3>3. pool[k][i] \in LivePools
      BY <3>2 DEF LivePools, Live
    <3>4. ~Overlap(n, pool[k][i])
      BY <3>3 DEF Add
    <3>5. pool[k][i].isip \in Nat /\ pool[k][i].ieip \in Nat
      BY <3>2, Offsets
    <3> QED
      BY <3>1, <3>2, <3>4, <3>5 DEF Overlap, InRange
  <2>4. KeptBy(n, lent)
    BY <2>2, <2>3 DEF KeptBy
  <2>5. \A k \in List, i \in Slot :
          pool'[k][i].net # 0 => KeptBy(pool'[k][i], lent)
    BY <2>1, <2>4 DEF HolderInv
  <2>6. \A a \in Addr : lent[a] > 0 =>
          \E k \in List, i \in Slot : pool'[k][i].net # 0 /\ InRange(pool'[k][i], a)
    BY <1>3, <2>1 DEF HolderInv, Live
  <2> QED
    BY <1>1, <2>5, <2>6 DEF HolderInv
<1> QED
  BY <1>2, <1>3 DEF Add

(* Deleting a set of pools whose addresses have been returned.             *)
LEMMA HolderErase ==
  ASSUME PoolInv, HolderInv, NEW D,
         \A d \in D, a \in Addr : InRange(pool[d[1]][d[2]], a) => lent[a] = 0,
         \A l \in List, j \in Slot :
           pool'[l][j] = IF <<l, j>> \in D THEN Empty ELSE pool[l][j],
         lent' = lent
  PROVE  HolderInv'
<1>1. \A l \in List, j \in Slot :
        pool'[l][j].net # 0 => KeptBy(pool'[l][j], lent)
  <2> SUFFICES ASSUME NEW l \in List, NEW j \in Slot, pool'[l][j].net # 0
               PROVE  KeptBy(pool'[l][j], lent)
    OBVIOUS
  <2>1. Empty.net = 0
    BY DEF Empty
  <2>2. pool'[l][j] = pool[l][j]
    BY <2>1
  <2> QED
    BY <2>2 DEF HolderInv
<1>2. ASSUME NEW a \in Addr, lent[a] > 0
      PROVE  \E l \in List, j \in Slot :
               pool'[l][j].net # 0 /\ InRange(pool'[l][j], a)
  <2>1. PICK l \in List, j \in Slot : pool[l][j].net # 0 /\ InRange(pool[l][j], a)
    BY <1>2 DEF HolderInv
  <2>2. <<l, j>> \notin D
    BY <1>2, <2>1 DEF PoolInv
  <2> QED
    BY <2>1, <2>2
<1> QED
  BY <1>1, <1>2 DEF HolderInv

LEMMA HolderTakes ==
  ASSUME PoolInv, Apart, HolderInv, NEW l \in List, NEW j \in Slot,
         NEW c, NEW q, Takes(l, j, c, q)
  PROVE  HolderInv'
<1> DEFINE p == pool[l][j]
           b == p.isip + c
<1>1. p.net # 0 /\ c \in 0..(p.end - 1) /\ c \notin p.map /\ SameRange(p, q)
      /\ q.map = p.map \cup {c} /\ lent' = [lent EXCEPT ![b] = @ + 1]
  BY DEF Takes
<1>2. /\ p.isip \in Nat /\ p.ieip \in Nat /\ p.ieip <= MaxAddr
      /\ MaxAddr \in Nat /\ b \in p.isip..p.ieip /\ b - p.isip = c
  BY <1>1, Offsets
<1>3. b \in Addr /\ InRange(p, b)
  BY <1>2 DEF Addr, InRange
<1>4. KeptBy(p, lent)
  BY <1>1 DEF HolderInv
<1>5. lent[b] = 0 /\ c \notin Excluded(p)
  <2>1. lent[b] \in Nat
    BY <1>3 DEF PoolInv
  <2>2. ~(c \in Excluded(p) \/ lent[b] > 0)
    BY <1>1, <1>2, <1>4 DEF KeptBy
  <2> QED
    BY <2>1, <2>2
<1>6. \A a \in Addr : lent'[a] = IF a = b THEN 1 ELSE lent[a]
  BY <1>1, <1>5 DEF PoolInv
<1>7. \A k \in List, i \in Slot :
        pool'[k][i] = IF k = l /\ i = j THEN q ELSE pool[k][i]
  BY SlotChange DEF Takes
<1>8. KeptBy(q, lent')
  <2>1. /\ q.isip = p.isip /\ q.ieip = p.ieip
        /\ Excluded(q) = Excluded(p)
    BY <1>1, SameExcluded DEF SameRange
  <2> SUFFICES ASSUME NEW a \in p.isip..p.ieip
               PROVE  /\ a - p.isip \in q.map <=>
                            a - p.isip \in Excluded(p) \/ lent'[a] > 0
                      /\ a - p.isip \in Excluded(p) => lent'[a] = 0
    BY <2>1 DEF KeptBy
  <2>2. a \in Addr
    BY <1>2 DEF Addr
  <2>3. CASE a = b
    BY <1>1, <1>2, <1>5, <1>6, <2>2, <2>3
  <2>4. CASE a # b
    <3>1. a - p.isip # c
      BY <1>2, <2>4
    <3>2. a - p.isip \in q.map <=> a - p.isip \in p.map
      BY <1>1, <3>1
    <3>3. lent'[a] = lent[a]
      BY <1>6, <2>2, <2>4
    <3> QED
      BY <1>4, <3>2, <3>3 DEF KeptBy
  <2> QED
    BY <2>3, <2>4
<1>9. ASSUME NEW k \in List, NEW i \in Slot, pool[k][i].net # 0, ~(k = l /\ i = j)
      PROVE  KeptBy(pool[k][i], lent')
  <2> DEFINE o == pool[k][i]
  <2>1. KeptBy(o, lent)
    BY <1>9 DEF HolderInv
  <2>2. \A a \in o.isip..o.ieip : lent'[a] = lent[a]
    <3> SUFFICES ASSUME NEW a \in o.isip..o.ieip PROVE a \in Addr /\ a # b
      BY <1>6
    <3>1. o.isip \in Nat /\ o.ieip \in Nat /\ o.ieip <= MaxAddr
      BY <1>9, Offsets
    <3>2. a \in Addr /\ InRange(o, a)
      BY <3>1, <1>2 DEF Addr, InRange
    <3> QED
      BY <3>2, <1>1, <1>3, <1>9, OneCovers
  <2> HIDE DEF o
  <2> QED
    BY <2>1, <2>2 DEF KeptBy, o
<1>10. \A k \in List, i \in Slot :
         pool'[k][i].net # 0 => KeptBy(pool'[k][i], lent')
  BY <1>7, <1>8, <1>9
<1>11. ASSUME NEW a \in Addr
       PROVE  /\ lent'[a] <= 1
              /\ lent'[a] > 0 => \E k \in List, i \in Slot :
                                  pool'[k][i].net # 0 /\ InRange(pool'[k][i], a)
  <2>1. \A k \in List, i \in Slot :
          /\ pool'[k][i].net = pool[k][i].net
          /\ InRange(pool'[k][i], a) <=> InRange(pool[k][i], a)
    BY <1>1, <1>7 DEF SameRange, InRange
  <2>2. CASE a = b
    BY <1>1, <1>3, <1>6, <2>1, <2>2
  <2>3. CASE a # b
    BY <1>6, <2>1, <2>3 DEF HolderInv
  <2> QED
    BY <2>2, <2>3
<1> QED
  BY <1>10, <1>11 DEF HolderInv

(* A held address is found by ipfree in the pool it was taken from.        *)
LEMMA FirstOfHeld ==
  ASSUME PoolInv, Placed, Apart, HolderInv, NEW a \in Addr, lent[a] > 0
  PROVE  \E l \in List, j \in Slot :
           /\ pool[l][j].net # 0 /\ InRange(pool[l][j], a)
           /\ First(a) = {<<l, j>>}
<1>1. PICK l \in List, j \in Slot : pool[l][j].net # 0 /\ InRange(pool[l][j], a)
  BY DEF HolderInv
<1>2. <<l, j>> \in Covers(a)
  BY <1>1 DEF Covers, Placed
<1>3. a # 0
  BY <1>1, Offsets DEF InRange
<1>4. ASSUME NEW d \in Covers(a) PROVE d = <<l, j>>
  <2>1. /\ d[1] \in List /\ d[2] \in Slot /\ d = <<d[1], d[2]>>
        /\ InRange(pool[d[1]][d[2]], a)
    BY DEF Covers
  <2>2. pool[d[1]][d[2]].net # 0
    BY <1>3, CoversLive
  <2>3. d[1] = l /\ d[2] = j
    BY <1>1, <2>1, <2>2, OneCovers
  <2> QED
    BY <2>1, <2>3
<1>5. Covers(a) = {<<l, j>>}
  BY <1>2, <1>4
<1>6. First(a) = {<<l, j>>}
  BY <1>5 DEF First, Slot
<1> QED
  BY <1>1, <1>6

LEMMA HolderFree ==
  ASSUME PoolInv, Placed, Apart, HolderInv, NEW b \in Addr, Free(b)
  PROVE  HolderInv'
<1>1. /\ lent' = [lent EXCEPT ![b] = @ - 1] /\ lent[b] > 0
      /\ \/ First(b) = {} /\ UNCHANGED pool
         \/ \E l \in List, j \in Slot, q \in Pool : Frees(b, <<l, j>>, q)
  BY FreeFrees
<1>2. PICK l \in List, j \in Slot :
        /\ pool[l][j].net # 0 /\ InRange(pool[l][j], b)
        /\ First(b) = {<<l, j>>}
  BY <1>1, FirstOfHeld
<1> DEFINE p == pool[l][j]
           c == b - p.isip
<1>3. PICK q : Frees(b, <<l, j>>, q)
  <2>1. PICK k \in List, i \in Slot, q \in Pool : Frees(b, <<k, i>>, q)
    BY <1>1, <1>2
  <2>2. k = l /\ i = j
    BY <1>2, <2>1 DEF Frees
  <2> QED
    BY <2>1, <2>2
<1>4. /\ Sound(q) /\ SameRange(p, q) /\ q.map = p.map \ {c}
      /\ pool' = [pool EXCEPT ![l][j] = q]
  BY <1>3 DEF Frees
<1>5. /\ p.isip \in Nat /\ p.ieip \in Nat /\ p.ieip <= MaxAddr
      /\ MaxAddr \in Nat /\ b \in p.isip..p.ieip
  BY <1>2, Offsets DEF Addr, InRange
<1>6. KeptBy(p, lent)
  BY <1>2 DEF HolderInv
<1>7. c \notin Excluded(p) /\ lent[b] = 1
  <2>1. lent[b] \in Nat /\ lent[b] <= 1
    BY DEF PoolInv, HolderInv
  <2>2. c \in Excluded(p) => lent[b] = 0
    BY <1>5, <1>6 DEF KeptBy
  <2> QED
    BY <1>1, <2>1, <2>2
<1>8. \A a \in Addr : lent'[a] = IF a = b THEN 0 ELSE lent[a]
  BY <1>1, <1>7 DEF PoolInv
<1>9. \A k \in List, i \in Slot :
        pool'[k][i] = IF k = l /\ i = j THEN q ELSE pool[k][i]
  BY <1>4, SlotChange
<1>10. KeptBy(q, lent')
  <2>1. /\ q.isip = p.isip /\ q.ieip = p.ieip
        /\ Excluded(q) = Excluded(p)
    BY <1>4, SameExcluded DEF SameRange
  <2> SUFFICES ASSUME NEW a \in p.isip..p.ieip
               PROVE  /\ a - p.isip \in q.map <=>
                            a - p.isip \in Excluded(p) \/ lent'[a] > 0
                      /\ a - p.isip \in Excluded(p) => lent'[a] = 0
    BY <2>1 DEF KeptBy
  <2>2. a \in Addr
    BY <1>5 DEF Addr
  <2>3. CASE a = b
    BY <1>4, <1>7, <1>8, <2>2, <2>3
  <2>4. CASE a # b
    <3>1. a - p.isip # c
      BY <1>5, <2>4
    <3>2. a - p.isip \in q.map <=> a - p.isip \in p.map
      BY <1>4, <3>1
    <3>3. lent'[a] = lent[a]
      BY <1>8, <2>2, <2>4
    <3> QED
      BY <1>6, <3>2, <3>3 DEF KeptBy
  <2> QED
    BY <2>3, <2>4
<1>11. ASSUME NEW k \in List, NEW i \in Slot, pool[k][i].net # 0, ~(k = l /\ i = j)
       PROVE  KeptBy(pool[k][i], lent')
  <2> DEFINE o == pool[k][i]
  <2>1. KeptBy(o, lent)
    BY <1>11 DEF HolderInv
  <2>2. \A a \in o.isip..o.ieip : lent'[a] = lent[a]
    <3> SUFFICES ASSUME NEW a \in o.isip..o.ieip PROVE a \in Addr /\ a # b
      BY <1>8
    <3>1. o.isip \in Nat /\ o.ieip \in Nat /\ o.ieip <= MaxAddr
      BY <1>11, Offsets
    <3>2. a \in Addr /\ InRange(o, a)
      BY <3>1, <1>5 DEF Addr, InRange
    <3> QED
      BY <3>2, <1>2, <1>11, OneCovers
  <2> HIDE DEF o
  <2> QED
    BY <2>1, <2>2 DEF KeptBy, o
<1>12. \A k \in List, i \in Slot :
         pool'[k][i].net # 0 => KeptBy(pool'[k][i], lent')
  BY <1>4, <1>2, <1>9, <1>10, <1>11
<1>13. ASSUME NEW a \in Addr
       PROVE  /\ lent'[a] <= 1
              /\ lent'[a] > 0 => \E k \in List, i \in Slot :
                                  pool'[k][i].net # 0 /\ InRange(pool'[k][i], a)
  <2>1. \A k \in List, i \in Slot :
          /\ pool'[k][i].net = pool[k][i].net
          /\ InRange(pool'[k][i], a) <=> InRange(pool[k][i], a)
    BY <1>4, <1>9 DEF SameRange, InRange
  <2>2. CASE a = b
    BY <1>8, <2>2
  <2>3. CASE a # b
    BY <1>8, <2>1, <2>3 DEF HolderInv
  <2> QED
    BY <2>2, <2>3
<1> QED
  BY <1>12, <1>13 DEF HolderInv

LEMMA HolderStep ==
  ASSUME ~Late, PoolInv, Placed, Apart, HolderInv, [Next]_vars
  PROVE  HolderInv'
<1>1. ASSUME NEW c \in Conf, Add(c) PROVE HolderInv'
  BY <1>1, HolderAdd
<1>2. ASSUME NEW c \in Conf, Del(c) PROVE HolderInv'
  <2> DEFINE D == Deleted(c)
  <2>1. \A d \in D, a \in Addr : InRange(pool[d[1]][d[2]], a) => lent[a] = 0
    BY <1>2 DEF Del, Returned
  <2>2. lent' = lent
    BY <1>2 DEF Del
  <2>3. \A l \in List, j \in Slot :
          pool'[l][j] = IF <<l, j>> \in D THEN Empty ELSE pool[l][j]
    BY <1>2 DEF Del
  <2> HIDE DEF D
  <2> QED
    BY <2>1, <2>2, <2>3, HolderErase
<1>3. ASSUME NEW l \in List, AddRejected(l) PROVE HolderInv'
  BY <1>3 DEF HolderInv, AddRejected
<1>4. CASE Flush
  <2> DEFINE D == {d \in List \X Slot : pool[d[1]][d[2]].net # 0}
  <2>1. \A d \in D, a \in Addr : InRange(pool[d[1]][d[2]], a) => lent[a] = 0
    BY <1>4 DEF Flush, Returned
  <2>2. lent' = lent
    BY <1>4 DEF Flush
  <2>3. \A l \in List, j \in Slot :
          pool'[l][j] = IF <<l, j>> \in D THEN Empty ELSE pool[l][j]
    BY <1>4 DEF Flush, PoolInv, Sound
  <2> HIDE DEF D
  <2> QED
    BY <2>1, <2>2, <2>3, HolderErase
<1>5. ASSUME NEW l \in List, Alloc(l) PROVE HolderInv'
  BY <1>5, AllocTakes, HolderTakes
<1>6. ASSUME NEW l \in List, AllocHangs(l) \/ AllocTraps(l) PROVE HolderInv'
  BY <1>6 DEF HolderInv, AllocHangs, AllocTraps
<1>7. ASSUME NEW a \in Addr, Free(a) PROVE HolderInv'
  BY <1>7, HolderFree
<1>8. ASSUME NEW a \in Claim, Set(a) PROVE HolderInv'
  BY <1>8, SetTakes, HolderTakes
<1>9. CASE UNCHANGED vars
  BY <1>9 DEF HolderInv, vars
<1> QED
  BY <1>1, <1>2, <1>3, <1>4, <1>5, <1>6, <1>7, <1>8, <1>9
     DEF Next, Operator, Client

-----------------------------------------------------------------------------
HeldInv == PoolInv /\ Placed /\ Apart /\ (~Late => HolderInv)

LEMMA HeldInit == Init => HeldInv
<1> SUFFICES ASSUME Init PROVE HeldInv
  OBVIOUS
<1>1. \A l \in List, j \in Slot : pool[l][j].net = 0
  BY DEF Init, Empty
<1>2. \A a \in Addr : lent[a] = 0
  BY DEF Init
<1> QED
  BY <1>1, <1>2, PoolInvInit DEF HeldInv, Placed, Apart, HolderInv

LEMMA HeldStep == HeldInv /\ [Next]_vars => HeldInv'
  BY PoolInvStep, PlacedStep, ApartStep, HolderStep DEF HeldInv

(* The inductive invariant of the pools and their clients.                 *)
THEOREM HoldersSound == Spec => []HeldInv
  BY HeldInit, HeldStep, PTL DEF Spec

(* No address is handed out to two clients, by ipallocn from any list or   *)
(* by ipset, if clients return the addresses of a pool before ippdel.      *)
LEMMA HeldExclusive == HeldInv => Exclusive
  BY DEF HeldInv, Exclusive, HolderInv
THEOREM AddressesExclusive == Spec => []Exclusive
  BY HoldersSound, HeldExclusive, PTL

(* An excluded address is then never handed out.                           *)
LEMMA HeldReserved == HeldInv => ReservedKept
  BY DEF HeldInv, ReservedKept, HolderInv, KeptBy, LivePools, Live
THEOREM ExcludedKept == Spec => []ReservedKept
  BY HoldersSound, HeldReserved, PTL

(* The bitmap of a pool is what its clients hold and what was excluded.    *)
LEMMA HeldMap == HeldInv => MapExact
<1> SUFFICES ASSUME HeldInv, ~Late, NEW l \in List, NEW j \in Slot,
                    pool[l][j].net # 0
             PROVE  LET p == pool[l][j]
                    IN  p.map = Excluded(p) \cup
                          {a - p.isip : a \in {b \in p.isip..p.ieip : lent[b] > 0}}
  BY DEF MapExact, LivePools, Live
<1> DEFINE p == pool[l][j]
           Bit(c) == c \in Excluded(p) \/ lent[p.isip + c] > 0
<1>1. KeptBy(p, lent)
  BY DEF HeldInv, HolderInv
<1>2. p.map \subseteq 0..(p.end - 1) /\ Excluded(p) \subseteq 0..(p.end - 1)
  BY DEF HeldInv, PoolInv, Sound, Shape
<1>3. /\ p.isip \in Nat /\ p.ieip \in Nat /\ p.end = p.ieip - p.isip + 1
      /\ \A c \in 0..(p.end - 1) :
           p.isip + c \in p.isip..p.ieip /\ (p.isip + c) - p.isip = c
  BY Offsets DEF HeldInv
<1>4. \A a \in p.isip..p.ieip : a - p.isip \in 0..(p.end - 1)
  BY <1>3
<1>5. \A c \in 0..(p.end - 1) : c \in p.map <=> Bit(c)
  BY <1>1, <1>3 DEF KeptBy
<1>6. ASSUME NEW c
      PROVE  (\E a \in p.isip..p.ieip : lent[a] > 0 /\ c = a - p.isip)
                <=> c \in 0..(p.end - 1) /\ lent[p.isip + c] > 0
  <2>1. ASSUME NEW a \in p.isip..p.ieip, lent[a] > 0, c = a - p.isip
        PROVE  c \in 0..(p.end - 1) /\ lent[p.isip + c] > 0
    <3>1. p.isip + c = a
      BY <1>3, <2>1
    <3> QED
      BY <1>4, <2>1, <3>1
  <2>2. ASSUME c \in 0..(p.end - 1), lent[p.isip + c] > 0
        PROVE  \E a \in p.isip..p.ieip : lent[a] > 0 /\ c = a - p.isip
    <3>1. p.isip + c \in p.isip..p.ieip /\ c = (p.isip + c) - p.isip
      BY <1>3, <2>2
    <3> QED
      BY <2>2, <3>1
  <2> QED
    BY <2>1, <2>2
<1> HIDE DEF p
<1>7. p.map = Excluded(p) \cup
                {a - p.isip : a \in {b \in p.isip..p.ieip : lent[b] > 0}}
  BY <1>2, <1>5, <1>6
<1> QED
  BY <1>7 DEF p
THEOREM BitmapExact == Spec => []MapExact
  BY HoldersSound, HeldMap, PTL

(* used then counts the bits that clients have set.                        *)
LEMMA HeldUsed ==
  ASSUME HeldInv, ~Late, NEW l \in List, NEW j \in Slot, pool[l][j].net # 0
  PROVE  LET p == pool[l][j]
         IN  /\ Excluded(p) \subseteq p.map /\ p.map \subseteq 0..(p.end - 1)
             /\ Sound(p) /\ p \in Pool /\ Roomy(p)
             /\ p.end \in Nat /\ p.total \in Nat
             /\ Cardinality(p.map) \in 0..p.end
             /\ Cardinality(Excluded(p)) \in 0..p.end
             /\ p.used = Cardinality(p.map) - Cardinality(Excluded(p))
<1> DEFINE p == pool[l][j]
<1>1. Sound(p) /\ p \in Pool /\ Roomy(p)
  BY DEF HeldInv, PoolInv, Sound
<1>2. Excluded(p) \subseteq p.map
  <2>1. p \in LivePools
    BY DEF LivePools, Live
  <2>2. MapExact
    BY HeldMap
  <2> QED
    BY <2>1, <2>2 DEF MapExact
<1>3. p.map \subseteq 0..(p.end - 1)
  BY <1>1 DEF Sound, Shape
<1>4. /\ p.end \in Nat /\ p.end < U32 /\ U32 \in Nat /\ IsFiniteSet(p.map)
      /\ Cardinality(p.map) \in 0..p.end /\ Cardinality(Excluded(p)) \in 0..p.end
      /\ p.used \in 0..(U32 - 1) /\ p.total \in Nat
  BY <1>1, Bounds DEF Pool
<1>5. Cardinality(Excluded(p)) <= Cardinality(p.map)
  BY <1>2, <1>4, FS_Subset
<1>6. p.used \in {Difference(p), Difference(p) + U32}
  BY <1>1 DEF Sound
<1> HIDE DEF p
<1>7. p.used = Cardinality(p.map) - Cardinality(Excluded(p))
  BY <1>4, <1>5, <1>6 DEF Difference
<1> QED
  BY <1>1, <1>2, <1>3, <1>4, <1>7 DEF p

(* When ipallocn finds no pool with addresses left, every live pool of the *)
(* list is full: nipp, which ippdel leaves too large, is large enough.     *)
LEMMA HeldFull == HeldInv => FullIsFull
<1> SUFFICES ASSUME HeldInv, ~Late, NEW l \in List, Open(l) = {},
                    NEW j \in Slot, pool[l][j].net # 0
             PROVE  pool[l][j].map = 0..(pool[l][j].end - 1)
  BY DEF FullIsFull, Live, HeldInv, PoolInv
<1> DEFINE p == pool[l][j]
<1>1. /\ p.map \subseteq 0..(p.end - 1) /\ Roomy(p)
      /\ p.end \in Nat /\ p.total \in Nat
      /\ Cardinality(p.map) \in 0..p.end
      /\ Cardinality(Excluded(p)) \in 0..p.end
      /\ p.used = Cardinality(p.map) - Cardinality(Excluded(p))
  BY HeldUsed
<1>2. ~(p.total > p.used)
  <2>1. j \in 0..(nipp[l] - 1)
    BY DEF HeldInv, Placed, PoolInv, Slot
  <2> QED
    BY <2>1 DEF Open
<1> HIDE DEF p
<1>3. Cardinality(p.map) = p.end
  BY <1>1, <1>2 DEF Roomy
<1>4. p.map = 0..(p.end - 1)
  BY <1>1, <1>3, AllBits
<1> QED
  BY <1>4 DEF p
THEOREM AllocationFailsOnlyWhenFull == Spec => []FullIsFull
  BY HoldersSound, HeldFull, PTL

-----------------------------------------------------------------------------
(* The search around a pool.                                               *)

LEMMA LeastNat ==
  ASSUME NEW S \in SUBSET Nat, S # {}
  PROVE  \E x \in S : \A y \in S : x <= y
<1>1. PICK x \in S : \A y \in S : <<y, x>> \notin OpToRel(<, Nat)
  BY NatLessThanWellFounded, WFMin, Zenon
<1>2. \A y \in S : ~(y < x)
  BY <1>1, Zenon DEF OpToRel
<1>3. \A y \in S : x <= y
  BY <1>2
<1> QED
  BY <1>3

(* From position s the loop goes to the one behind s, or behind the        *)
(* excluded range that s is in: it passes only over excluded positions.    *)
Behind(p, h) == IF h = p.end - 1 THEN 0 ELSE h + 1

LEMMA SkipTo ==
  ASSUME NEW p, Sound(p), p.net # 0, NEW s \in 0..(p.end - 1)
  PROVE  \E h \in s..(p.end - 1) :
           /\ Skip(p, s) = Behind(p, h)
           /\ \A x \in s..h : x # s => x \in Excluded(p)
<1>1. p.end \in Nat /\ p.end > 0 /\ s \in Nat /\ s < p.end
  BY Bounds
<1>2. ASSUME NEW h \in s..(p.end - 1)
      PROVE  (h + 1) % p.end = Behind(p, h)
  <2>1. CASE h = p.end - 1
    BY <1>1, <2>1, Mod DEF Behind
  <2>2. CASE h # p.end - 1
    <3>1. h + 1 \in 0..(p.end - 1)
      BY <1>1, <2>2
    <3> QED
      BY <1>1, <2>2, <3>1, Mod DEF Behind
  <2> QED
    BY <2>1, <2>2
<1>3. CASE s \notin Excluded(p)
  <2>1. s \in s..(p.end - 1) /\ Skip(p, s) = (s + 1) % p.end
    BY <1>1, <1>3 DEF Skip
  <2>2. \A x \in s..s : x = s
    BY <1>1
  <2> QED
    BY <1>2, <2>1, <2>2
<1>4. CASE s \in Excluded(p)
  <2> DEFINE h == p.xeip - p.isip
             lo == p.xsip - p.isip
  <2>1. lo \in Int /\ h \in Int /\ Excluded(p) = lo..h
    <3>1. p.xsip \in 0..MaxAddr /\ p.xeip \in 0..MaxAddr /\ p.isip \in 0..MaxAddr
      BY DEF Sound, Pool, Addr
    <3>2. lo \in Int /\ h \in Int
      BY <3>1, ConfAssumption
    <3>3. Excluded(p) = lo..h
      BY <1>4, Zenon DEF Excluded
    <3> QED
      BY <3>2, <3>3
  <2>2. Excluded(p) \subseteq 0..(p.end - 1)
    BY DEF Sound, Shape
  <2> HIDE DEF h, lo
  <2>3. h \in Excluded(p) /\ s <= h
    BY <1>1, <1>4, <2>1
  <2>4. h \in s..(p.end - 1)
    BY <1>1, <2>1, <2>2, <2>3
  <2>5. \A x \in s..h : x \in Excluded(p)
    BY <1>1, <1>4, <2>1
  <2>6. Skip(p, s) = (h + 1) % p.end
    BY <1>4 DEF Skip, h
  <2> QED
    BY <1>2, <2>4, <2>5, <2>6
<1> QED
  BY <1>3, <1>4

(* The positions from a on, around the end of the pool, up to y.           *)
Arc(p, a, y) ==
  {s \in 0..(p.end - 1) : IF a <= y THEN a <= s /\ s <= y ELSE a <= s \/ s <= y}

(* The search does not leave them when y is clear and not excluded.        *)
LEMMA ArcClosed ==
  ASSUME NEW p, Sound(p), p.net # 0, NEW a \in 0..(p.end - 1),
         NEW y \in 0..(p.end - 1), y \notin p.map, y \notin Excluded(p)
  PROVE  a \in Arc(p, a, y) /\ Closed(p, Arc(p, a, y))
<1>1. p.end \in Nat
  BY Bounds
<1>2. a \in Arc(p, a, y)
  BY <1>1 DEF Arc
<1>3. ASSUME NEW s \in Arc(p, a, y) \cap p.map
      PROVE  Skip(p, s) \in Arc(p, a, y)
  <2>1. s \in 0..(p.end - 1) /\ s # y
        /\ IF a <= y THEN a <= s /\ s <= y ELSE a <= s \/ s <= y
    BY <1>3 DEF Arc
  <2>2. PICK h \in s..(p.end - 1) :
          /\ Skip(p, s) = Behind(p, h)
          /\ \A x \in s..h : x # s => x \in Excluded(p)
    BY <2>1, SkipTo
  <2>3. ~(s < y /\ y <= h)
    BY <1>1, <2>1, <2>2
  <2>4. Behind(p, h) \in Arc(p, a, y)
    BY <1>1, <2>1, <2>2, <2>3 DEF Arc, Behind
  <2> QED
    BY <2>2, <2>4
<1> QED
  BY <1>2, <1>3 DEF Closed

(* So what the search finds from a lies on every such arc.                 *)
LEMMA ReachedOnArc ==
  ASSUME NEW p, Sound(p), p.net # 0, NEW a \in 0..(p.end - 1),
         NEW y \in 0..(p.end - 1), y \notin p.map, y \notin Excluded(p),
         NEW d \in Reached(p, a)
  PROVE  d \in Arc(p, a, y)
<1>1. Arc(p, a, y) \in SUBSET (0..(p.end - 1))
  BY DEF Arc
<1>2. a \in Arc(p, a, y) /\ Closed(p, Arc(p, a, y))
  BY ArcClosed
<1> HIDE DEF Arc
<1> QED
  BY <1>1, <1>2 DEF Reached

(* The search finds a bit if there is a clear one outside the exclusion:   *)
(* were all that it can reach taken, the last of it before that bit, or    *)
(* else the last of all, would lead to one that is not.                    *)
LEMMA SearchFinds ==
  ASSUME NEW p, Sound(p), p.net # 0, NEW a \in 0..(p.end - 1),
         NEW y \in 0..(p.end - 1), y \notin p.map, y \notin Excluded(p)
  PROVE  Reached(p, a) # {}
<1> DEFINE N == 0..(p.end - 1)
           T == {t \in N : \A S \in SUBSET N : a \in S /\ Closed(p, S) => t \in S}
<1>1. p.end \in Nat /\ p.end > 0
  BY Bounds
<1> SUFFICES ASSUME Reached(p, a) = {} PROVE FALSE
  OBVIOUS
<1>2. T \subseteq p.map
  BY DEF Reached
<1>3. a \in T
  OBVIOUS
<1>4. ASSUME NEW t \in T
      PROVE  /\ Skip(p, t) \in T
             /\ \E h \in t..(p.end - 1) :
                  /\ Skip(p, t) = Behind(p, h)
                  /\ ~(t < y /\ y <= h)
  <2>1. t \in N
    OBVIOUS
  <2>2. PICK h \in t..(p.end - 1) :
          /\ Skip(p, t) = Behind(p, h)
          /\ \A x \in t..h : x # t => x \in Excluded(p)
    BY <2>1, SkipTo
  <2>3. ~(t < y /\ y <= h)
    BY <1>1, <2>1, <2>2
  <2>4. Skip(p, t) \in N
    BY <1>1, <2>1, <2>2 DEF Behind
  <2>5. ASSUME NEW S \in SUBSET N, a \in S, Closed(p, S) PROVE Skip(p, t) \in S
    <3>1. t \in S \cap p.map
      BY <1>2, <2>5
    <3> QED
      BY <2>5, <3>1 DEF Closed
  <2>6. Skip(p, t) \in T
    BY <2>4, <2>5
  <2> QED
    BY <2>2, <2>3, <2>6
<1>5. y \notin T /\ T \subseteq N
  BY <1>2
<1> HIDE DEF T
<1>6. CASE \E t \in T : t < y
  <2> DEFINE D == {e \in Nat : \E t \in T : t < y /\ e = y - t}
  <2>1. D # {}
    <3>1. PICK t \in T : t < y
      BY <1>6
    <3>2. y - t \in Nat
      BY <1>1, <1>5, <3>1
    <3> QED
      BY <3>1, <3>2
  <2>2. PICK e \in D : \A f \in D : e <= f
    BY <2>1, LeastNat
  <2>3. PICK t \in T : t < y /\ e = y - t
    BY <2>2
  <2>4. PICK h \in t..(p.end - 1) : Skip(p, t) = Behind(p, h) /\ ~(t < y /\ y <= h)
    BY <1>4
  <2>5. t \in Nat /\ h < y /\ Behind(p, h) = h + 1 /\ h \in Nat /\ t <= h
    BY <1>1, <1>5, <2>3, <2>4 DEF Behind
  <2>6. h + 1 \in T
    BY <1>4, <2>4, <2>5
  <2>7. h + 1 < y
    BY <1>1, <1>5, <2>5, <2>6
  <2>8. y - (h + 1) \in D
    BY <2>5, <2>6, <2>7
  <2>9. e <= y - (h + 1)
    BY <2>2, <2>8
  <2> QED
    BY <2>3, <2>5, <2>9
<1>7. CASE ~ \E t \in T : t < y
  <2> DEFINE D == {e \in Nat : \E t \in T : e = (p.end - 1) - t}
  <2>1. D # {}
    <3>1. (p.end - 1) - a \in Nat
      BY <1>1
    <3> QED
      BY <1>3, <3>1
  <2>2. PICK e \in D : \A f \in D : e <= f
    BY <2>1, LeastNat
  <2>3. PICK t \in T : e = (p.end - 1) - t
    BY <2>2
  <2>4. PICK h \in t..(p.end - 1) : Skip(p, t) = Behind(p, h)
    BY <1>4
  <2>5. Behind(p, h) \in T
    BY <1>4, <2>4
  <2>6. t \in N /\ h \in N /\ t <= h
    BY <1>1, <1>5, <2>4
  <2>7. Behind(p, h) # 0
    BY <1>1, <1>5, <1>7, <2>5
  <2>8. h + 1 \in T /\ h + 1 \in N
    BY <1>5, <2>5, <2>7 DEF Behind
  <2>9. (p.end - 1) - (h + 1) \in D
    BY <1>1, <2>8
  <2>10. e <= (p.end - 1) - (h + 1)
    BY <2>2, <2>9
  <2> QED
    BY <1>1, <2>3, <2>6, <2>10
<1> QED
  BY <1>6, <1>7

-----------------------------------------------------------------------------
(* The order in which addresses are handed out.                            *)

(* What ipallocn changes, with the bit c that the search has found in the  *)
(* pool of slot j.                                                         *)
Gives(l, j, c) ==
  LET p == pool[l][j]
  IN  /\ p.net # 0 /\ Sound(p) /\ c \in Reached(p, From(p))
      /\ pool' = [pool EXCEPT ![l][j] = Advanced(Mark(p, c), c)]
      /\ lent' = [lent EXCEPT ![p.isip + c] = @ + 1]
      /\ SameRange(p, pool'[l][j]) /\ pool'[l][j].map = p.map \cup {c}
      /\ \A k \in List, i \in Slot :
           pool'[k][i] = IF k = l /\ i = j THEN pool'[l][j] ELSE pool[k][i]

LEMMA AllocGives ==
  ASSUME PoolInv, NEW l \in List, Alloc(l)
  PROVE  \E j \in Slot, c \in Int : Gives(l, j, c)
<1>1. PICK j \in Picked(l) :
        LET p == pool[l][j]
        IN  \E c \in Reached(p, From(p)) :
              /\ pool' = [pool EXCEPT ![l][j] = Advanced(Mark(p, c), c)]
              /\ lent' = [lent EXCEPT ![p.isip + c] = @ + 1]
  BY DEF Alloc
<1> DEFINE p == pool[l][j]
<1>2. PICK c \in Reached(p, From(p)) :
        /\ pool' = [pool EXCEPT ![l][j] = Advanced(Mark(p, c), c)]
        /\ lent' = [lent EXCEPT ![p.isip + c] = @ + 1]
  BY <1>1
<1> DEFINE q == Advanced(Mark(p, c), c)
<1>3. j \in Slot /\ p.net # 0 /\ Sound(p)
  BY OpenLive DEF Alloc, CanAlloc, Picked, PoolInv
<1>4. c \in 0..(p.end - 1) /\ c \notin p.map
  BY ReachedClear
<1>5. /\ Sound(Mark(p, c)) /\ SameRange(p, Mark(p, c))
      /\ Mark(p, c).map = p.map \cup {c}
  BY <1>3, <1>4, MarkSound
<1>6. Sound(q) /\ SameRange(Mark(p, c), q) /\ q.map = Mark(p, c).map
  BY <1>3, <1>4, <1>5, AdvancedSound DEF SameRange
<1>7. SameRange(p, q) /\ q.map = p.map \cup {c}
  BY <1>5, <1>6 DEF SameRange
<1>8. \A k \in List, i \in Slot :
        pool'[k][i] = IF k = l /\ i = j THEN q ELSE pool[k][i]
  BY <1>2, <1>3, <1>6, SlotChange
<1>9. pool'[l][j] = q
  BY <1>3, <1>8
<1>10. Gives(l, j, c)
  BY <1>2, <1>3, <1>7, <1>8, <1>9 DEF Gives
<1> QED
  BY <1>3, <1>4, <1>10

(* In sequence the search starts at 0: every position below the one it     *)
(* finds is taken or excluded.                                             *)
LEMMA LowestStep ==
  ASSUME PoolInv, InOrder, NEW l \in List, Alloc(l),
         NEW p \in LivePools', p \notin LivePools, NEW a \in Addr,
         lent'[a] > lent[a], InRange(p, a), NEW b \in p.isip..(a - 1)
  PROVE  b - p.isip \in p.map \cup Excluded(p)
<1>1. PICK j \in Slot, c \in Int : Gives(l, j, c)
  BY AllocGives
<1> DEFINE o == pool[l][j]
<1>2. /\ o.net # 0 /\ Sound(o) /\ c \in Reached(o, 0)
      /\ lent' = [lent EXCEPT ![o.isip + c] = @ + 1]
      /\ SameRange(o, pool'[l][j]) /\ pool'[l][j].map = o.map \cup {c}
      /\ \A k \in List, i \in Slot :
           pool'[k][i] = IF k = l /\ i = j THEN pool'[l][j] ELSE pool[k][i]
  BY <1>1 DEF Gives, From
<1>3. p = pool'[l][j]
  <2>1. PICK k \in List, i \in Slot : p = pool'[k][i] /\ pool'[k][i].net # 0
    BY DEF LivePools, Live
  <2>2. ~(k = l /\ i = j) => p \in LivePools
    BY <1>2, <2>1 DEF LivePools, Live
  <2> QED
    BY <2>1, <2>2
<1>4. p.isip = o.isip /\ p.map = o.map \cup {c} /\ Excluded(p) = Excluded(o)
  BY <1>2, <1>3, SameExcluded DEF SameRange
<1>5. c \in 0..(o.end - 1) /\ c \notin o.map
  BY <1>2, ReachedClear
<1>6. o.end \in Nat /\ o.isip \in Nat
  BY <1>2, Bounds, ConfAssumption DEF Sound, Pool, Addr
<1>7. a = o.isip + c
  <2>1. lent[a] \in Nat
    BY DEF PoolInv
  <2>2. a # o.isip + c => lent'[a] = lent[a]
    BY <1>2 DEF PoolInv
  <2> QED
    BY <2>1, <2>2
<1> HIDE DEF o
<1>8. b - o.isip \in 0..(o.end - 1) /\ b - o.isip < c
  BY <1>4, <1>5, <1>6, <1>7
<1> DEFINE y == b - o.isip
<1>9. y \in 0..(o.end - 1) /\ y < c
  BY <1>8
<1> HIDE DEF y
<1>10. c \notin Arc(o, 0, y)
  BY <1>5, <1>6, <1>9 DEF Arc
<1>11. 0 \in 0..(o.end - 1)
  BY <1>5, <1>6
<1>12. y \in o.map \cup Excluded(o)
  BY <1>2, <1>9, <1>10, <1>11, ReachedOnArc
<1> QED
  BY <1>4, <1>12 DEF y

(* In sequence a pool hands out its lowest free address: every lower one   *)
(* is taken or excluded, whatever clients have freed or claimed.           *)
THEOREM LowestFirst == Spec => SeqLowest
<1>1. PoolInv /\ [Next]_vars
        => [InOrder => \A l \in List : Alloc(l) =>
              \A p \in LivePools' \ LivePools : \A a \in Addr :
                lent'[a] > lent[a] /\ InRange(p, a)
                  => \A b \in p.isip..(a - 1) :
                       b - p.isip \in p.map \cup Excluded(p)]_vars
  BY LowestStep
<1> QED
  BY <1>1, PoolsSound, PTL DEF Spec, SeqLowest

(* Out of sequence the search starts at the cursor and comes to the        *)
(* position before it last of all.                                         *)
LEMMA ReuseStep ==
  ASSUME PoolInv, ~InOrder, NEW l \in List, Alloc(l), NEW i \in Live(l),
         pool'[l][i] # pool[l][i],
         Cardinality(pool[l][i].map \cup Excluded(pool[l][i])) < pool[l][i].end - 1
  PROVE  \/ (pool[l][i].cur - 1) % pool[l][i].end \in pool[l][i].map
         \/ (pool[l][i].cur - 1) % pool[l][i].end \notin pool'[l][i].map
<1> DEFINE p == pool[l][i]
           x == (p.cur - 1) % p.end
           B == p.map \cup Excluded(p)
<1>1. PICK j \in Slot, c \in Int : Gives(l, j, c)
  BY AllocGives
<1>2. i = j
  BY <1>1 DEF Gives, Live
<1>3. /\ p.net # 0 /\ Sound(p) /\ c \in Reached(p, p.cur)
      /\ pool'[l][i].map = p.map \cup {c}
  BY <1>1, <1>2 DEF Gives, From
<1>4. p.end \in Nat /\ p.cur \in 0..(p.end - 1) /\ p.end > 0
  BY <1>3, Bounds DEF Sound, Shape
<1>5. B \subseteq 0..(p.end - 1) /\ Cardinality(B) < p.end - 1
  BY <1>3 DEF Sound, Shape
<1> HIDE DEF p
<1>6. x = IF p.cur = 0 THEN p.end - 1 ELSE p.cur - 1
  <2>1. CASE p.cur = 0
    BY <1>4, <2>1, Mod
  <2>2. CASE p.cur # 0
    <3>1. p.cur - 1 \in 0..(p.end - 1)
      BY <1>4, <2>2
    <3> QED
      BY <1>4, <2>2, <3>1, Mod
  <2> QED
    BY <2>1, <2>2
<1> HIDE DEF x, B
<1>7. PICK y \in 0..(p.end - 1) : y # x /\ y \notin B
  <2> DEFINE N == 0..(p.end - 1)
  <2>1. IsFiniteSet(B) /\ IsFiniteSet(N) /\ Cardinality(N) = p.end
    BY <1>4, <1>5, Bits, Positions
  <2> HIDE DEF N
  <2>2. IsFiniteSet(B \cup {x}) /\ Cardinality(B \cup {x}) <= Cardinality(B) + 1
    <3>1. CASE x \in B
      <4>1. B \cup {x} = B
        BY <3>1
      <4>2. Cardinality(B) \in Nat
        BY <2>1, FS_CardinalityType
      <4>3. Cardinality(B \cup {x}) = Cardinality(B) /\ IsFiniteSet(B \cup {x})
        BY <4>1, <2>1, Zenon
      <4> QED
        BY <4>2, <4>3
    <3>2. CASE x \notin B
      <4>1. Cardinality(B \cup {x}) = Cardinality(B) + 1 /\ IsFiniteSet(B \cup {x})
        BY <2>1, <3>2, FS_AddElement
      <4>2. Cardinality(B) \in Nat
        BY <2>1, FS_CardinalityType
      <4> QED
        BY <4>1, <4>2
    <3> QED
      BY <3>1, <3>2
  <2>3. Cardinality(B \cup {x}) < p.end
    <3>1. Cardinality(B) \in Nat /\ Cardinality(B \cup {x}) \in Nat
      BY <2>1, <2>2, FS_CardinalityType
    <3> QED
      BY <1>4, <1>5, <2>2, <3>1
  <2>4. ~(N \subseteq B \cup {x})
    <3> SUFFICES ASSUME N \subseteq B \cup {x} PROVE FALSE
      OBVIOUS
    <3>1. Cardinality(N) <= Cardinality(B \cup {x})
      BY <2>2, FS_Subset
    <3>2. Cardinality(B \cup {x}) \in Nat
      BY <2>2, FS_CardinalityType
    <3> QED
      BY <1>4, <2>1, <2>3, <3>1, <3>2
  <2> QED
    BY <2>4 DEF N
<1>8. y \notin p.map /\ y \notin Excluded(p)
  BY <1>7 DEF B
<1>9. c \in Arc(p, p.cur, y)
  BY <1>3, <1>4, <1>7, <1>8, ReachedOnArc
<1>10. c # x
  BY <1>4, <1>6, <1>7, <1>9 DEF Arc
<1>11. x \in p.map \/ x \notin pool'[l][i].map
  BY <1>3, <1>10
<1> QED
  BY <1>11 DEF p, x

(* Out of sequence, an address that has just been handed out and returned  *)
(* is not handed out again while the pool has another.                     *)
THEOREM ReusedLast == Spec => NoReuse
<1>1. PoolInv /\ [Next]_vars
        => [~InOrder => \A l \in List : Alloc(l) =>
              \A j \in Live(l) : LET p == pool[l][j] IN
                pool'[l][j] # p /\ Cardinality(p.map \cup Excluded(p)) < p.end - 1
                  => (p.cur - 1) % p.end \in p.map \/
                     (p.cur - 1) % p.end \notin pool'[l][j].map]_vars
  BY ReuseStep
<1> QED
  BY <1>1, PoolsSound, PTL DEF Spec, NoReuse

-----------------------------------------------------------------------------
(* The search ends, for clients that return the addresses of a pool before *)
(* it is deleted and exclusions that do not begin beyond the pool: total   *)
(* is then no more than what is not excluded.                              *)
AllInside == \A c \in Conf : Inside(PoolOf(c))
Tight(p) == p.total + Cardinality(Excluded(p)) <= p.end
TightInv == \A l \in List, j \in Slot : pool[l][j].net # 0 => Tight(pool[l][j])

LEMMA NewPoolTotal ==
  ASSUME NEW c \in Conf
  PROVE  LET p == NewPool(c)
         IN  /\ p.total = Capacity(p.end, <<p.xsip, p.xeip>>)
             /\ p.xsip = PoolOf(c).xsip /\ p.xeip = PoolOf(c).xeip
<1> DEFINE q == PoolOf(c)
<1>1. q.total = Capacity(q.end, <<q.xsip, q.xeip>>)
  BY DEF PoolOf, Capacity
<1>2. /\ NewPool(c).total = q.total /\ NewPool(c).end = q.end
      /\ NewPool(c).xsip = q.xsip /\ NewPool(c).xeip = q.xeip
  BY DEF NewPool, PoolOf
<1> HIDE DEF q
<1>3. NewPool(c).total = Capacity(NewPool(c).end,
                                  <<NewPool(c).xsip, NewPool(c).xeip>>)
  BY <1>1, <1>2
<1> QED
  BY <1>2, <1>3 DEF q

LEMMA NewPoolTight ==
  ASSUME AllInside, NEW c \in Conf, NewPool(c).net # 0
  PROVE  Tight(NewPool(c))
<1> DEFINE p == NewPool(c)
           lo == p.xsip - p.isip
           hi == p.xeip - p.isip
<1>1. p \in Pool /\ Shape(p) /\ Sound(p)
  BY NewPoolRight, NewPoolSound
<1>2. /\ p.total = Capacity(p.end, <<p.xsip, p.xeip>>)
      /\ p.xsip # 0 /\ p.xeip # 0 => p.xsip <= p.xeip + 1
  BY NewPoolTotal DEF AllInside, Inside
<1>3. /\ p.isip \in Nat /\ p.xsip \in Nat /\ p.xeip \in Nat
      /\ p.end \in Nat /\ p.end < U32 /\ U32 \in Nat /\ U32 > 0
      /\ Excluded(p) \subseteq 0..(p.end - 1)
  BY <1>1, ConfAssumption DEF Pool, Addr, Shape
<1> HIDE DEF p
<1>4. ASSUME ~(p.xsip # 0 /\ p.xeip # 0) PROVE Tight(p)
  <2>1. Excluded(p) = {} /\ p.total = p.end
    BY <1>2, <1>4 DEF Excluded, Capacity
  <2> QED
    BY <1>3, <2>1, FS_EmptySet DEF Tight
<1>5. ASSUME p.xsip # 0, p.xeip # 0 PROVE Tight(p)
  <2>1. Excluded(p) = lo..hi
    BY <1>5 DEF Excluded
  <2>2. lo \in Int /\ hi \in Int /\ lo <= hi + 1
    BY <1>2, <1>3, <1>5
  <2>3. Cardinality(lo..hi) = hi - lo + 1
    <3>1. Cardinality(lo..hi) = IF lo > hi THEN 0 ELSE hi - lo + 1
      BY <2>2, FS_Interval
    <3> HIDE DEF lo, hi
    <3> QED
      BY <2>2, <3>1
  <2>4. p.end - (hi - lo + 1) \in 0..(U32 - 1)
    <3> HIDE DEF lo, hi
    <3>1. CASE lo > hi
      BY <1>3, <2>2, <3>1
    <3>2. CASE lo <= hi
      <4>1. lo \in 0..(p.end - 1) /\ hi \in 0..(p.end - 1)
        BY <1>3, <2>1, <2>2, <3>2
      <4> QED
        BY <1>3, <3>2, <4>1
    <3> QED
      BY <2>2, <3>1, <3>2
  <2>5. p.total = p.end - (hi - lo + 1)
    <3>1. p.total = (p.end - (p.xeip - p.xsip + 1)) % U32
      BY <1>2, <1>5 DEF Capacity
    <3>2. p.xeip - p.xsip + 1 = hi - lo + 1
      BY <1>3
    <3>3. \A u \in 0..(U32 - 1) : u % U32 = u
      BY <1>3, Mod
    <3> QED
      BY <2>4, <3>1, <3>2, <3>3
  <2> HIDE DEF lo, hi
  <2> QED
    BY <1>3, <2>1, <2>2, <2>3, <2>5 DEF Tight
<1> QED
  BY <1>4, <1>5 DEF p

LEMMA SlotKeepsTight ==
  ASSUME PoolInv, TightInv, NEW l \in List, NEW j \in Slot, NEW q, Sound(q),
         SameRange(pool[l][j], q), pool' = [pool EXCEPT ![l][j] = q]
  PROVE  TightInv'
<1>1. \A k \in List, i \in Slot :
        pool'[k][i] = IF k = l /\ i = j THEN q ELSE pool[k][i]
  BY SlotChange
<1>2. \A k \in List, i \in Slot : SameRange(pool[k][i], pool'[k][i])
  BY <1>1 DEF SameRange
<1>3. ASSUME NEW k \in List, NEW i \in Slot, pool'[k][i].net # 0
      PROVE  Tight(pool'[k][i])
  <2>1. pool[k][i].net # 0 /\ Excluded(pool'[k][i]) = Excluded(pool[k][i])
    BY <1>2, <1>3, SameExcluded DEF SameRange
  <2>2. Tight(pool[k][i])
    BY <2>1 DEF TightInv
  <2> QED
    BY <1>2, <2>1, <2>2 DEF Tight, SameRange
<1> QED
  BY <1>3 DEF TightInv

LEMMA TightStep ==
  ASSUME AllInside, PoolInv, TightInv, [Next]_vars
  PROVE  TightInv'
<1>1. ASSUME NEW c \in Conf, Add(c) PROVE TightInv'
  <2>1. c.list \in List /\ Sound(NewPool(c)) /\ Tight(NewPool(c))
    BY <1>1, NewPoolSound, NewPoolTight, ConfAssumption DEF Add
  <2>2. CASE UNCHANGED pool
    BY <2>2 DEF TightInv
  <2>3. ASSUME NEW j \in Slot, pool' = [pool EXCEPT ![c.list][j] = NewPool(c)]
        PROVE  TightInv'
    <3>1. \A k \in List, i \in Slot :
            pool'[k][i] = IF k = c.list /\ i = j THEN NewPool(c) ELSE pool[k][i]
      BY <2>1, <2>3, SlotChange
    <3> QED
      BY <2>1, <3>1 DEF TightInv
  <2> QED
    BY <1>1, <2>2, <2>3 DEF Add
<1>2. ASSUME NEW c \in Conf, Del(c) PROVE TightInv'
  BY <1>2 DEF TightInv, Del, Empty
<1>3. ASSUME NEW l \in List, AddRejected(l) PROVE TightInv'
  BY <1>3 DEF TightInv, AddRejected
<1>4. CASE Flush
  BY <1>4 DEF TightInv, Flush, Empty
<1>5. ASSUME NEW l \in List, Alloc(l) PROVE TightInv'
  BY <1>5, AllocTakes, SlotKeepsTight DEF Takes
<1>6. ASSUME NEW l \in List, AllocHangs(l) \/ AllocTraps(l) PROVE TightInv'
  BY <1>6 DEF TightInv, AllocHangs, AllocTraps
<1>7. ASSUME NEW a \in Addr, Free(a) PROVE TightInv'
  <2>1. CASE UNCHANGED pool
    BY <2>1 DEF TightInv
  <2>2. ASSUME NEW l \in List, NEW j \in Slot, NEW q, Frees(a, <<l, j>>, q)
        PROVE  TightInv'
    BY <2>2, SlotKeepsTight DEF Frees
  <2> QED
    BY <1>7, <2>1, <2>2, FreeFrees
<1>8. ASSUME NEW a \in Claim, Set(a) PROVE TightInv'
  BY <1>8, SetTakes, SlotKeepsTight DEF Takes
<1>9. CASE UNCHANGED vars
  BY <1>9 DEF TightInv, vars
<1> QED
  BY <1>1, <1>2, <1>3, <1>4, <1>5, <1>6, <1>7, <1>8, <1>9
     DEF Next, Operator, Client

(* A pool that ipallocn looks into has a clear bit outside its exclusion,  *)
(* so it does not hang.                                                    *)
LEMMA NeverHangs ==
  ASSUME ~Late, HeldInv, TightInv, NEW l \in List
  PROVE  ~AllocHangs(l)
<1> SUFFICES ASSUME InArray, NEW j \in Open(l)
             PROVE  Reached(pool[l][j], From(pool[l][j])) # {}
  BY DEF AllocHangs, CanAlloc, Picked
<1> DEFINE p == pool[l][j]
<1>1. j \in Slot /\ p.net # 0 /\ p.total > p.used
  BY OpenLive DEF HeldInv, Open
<1>2. /\ Excluded(p) \subseteq p.map /\ p.map \subseteq 0..(p.end - 1)
      /\ p.end \in Nat /\ p.total \in Nat
      /\ Cardinality(p.map) \in 0..p.end
      /\ Cardinality(Excluded(p)) \in 0..p.end
      /\ p.used = Cardinality(p.map) - Cardinality(Excluded(p))
      /\ Sound(p)
  BY <1>1, HeldUsed
<1>3. Tight(p)
  BY <1>1 DEF TightInv
<1> HIDE DEF p
<1>4. Cardinality(p.map) < p.end
  BY <1>1, <1>2, <1>3 DEF Tight
<1>5. p.map # 0..(p.end - 1)
  BY <1>2, <1>4, Positions
<1>6. PICK y \in 0..(p.end - 1) : y \notin p.map /\ y \notin Excluded(p)
  BY <1>2, <1>5
<1>7. From(p) \in 0..(p.end - 1)
  BY <1>1, <1>2, <1>6 DEF From, Sound, Shape
<1>8. Reached(p, From(p)) # {}
  BY <1>1, <1>2, <1>6, <1>7, SearchFinds
<1> QED
  BY <1>8 DEF p

EndsInv == ~Late /\ AllInside => HeldInv /\ TightInv /\ fate # "hung"

(* The search for a clear bit ends.                                        *)
THEOREM SearchTerminates == Spec => []SearchEnds
<1>1. Init => EndsInv
  <2> SUFFICES ASSUME Init PROVE TightInv /\ fate # "hung" /\ HeldInv
    BY DEF EndsInv
  <2>1. TightInv /\ fate # "hung"
    BY DEF Init, TightInv, Empty
  <2> QED
    BY <2>1, HeldInit
<1>2. EndsInv /\ [Next]_vars => EndsInv'
  <2> SUFFICES ASSUME ~Late, AllInside, HeldInv, TightInv, fate # "hung",
                      [Next]_vars
               PROVE  HeldInv' /\ TightInv' /\ fate' # "hung"
    BY DEF EndsInv
  <2>1. HeldInv'
    BY HeldStep
  <2>2. TightInv'
    BY TightStep DEF HeldInv
  <2>3. fate' # "hung"
    <3>1. \A l \in List : ~AllocHangs(l)
      BY NeverHangs
    <3> QED
      BY <3>1 DEF Next, Operator, Client, Add, Del, AddRejected, Flush, Alloc,
                  AllocTraps, Free, Set, vars
  <2> QED
    BY <2>1, <2>2, <2>3
<1>3. EndsInv => SearchEnds
  BY DEF EndsInv, SearchEnds, AllInside
<1> QED
  BY <1>1, <1>2, <1>3, PTL DEF Spec
=============================================================================

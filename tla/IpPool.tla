------------------------------- MODULE IpPool --------------------------------
(***************************************************************************)
(* The IP address pools of lib/ipp.c, in one process (ipptype without      *)
(* IPP_SHARE and IPP_PRESHARE).                                            *)
(*                                                                         *)
(* A list holds MaxIpp pools; a pool is a range of addresses with a bitmap *)
(* of those taken, a cursor and two counters.  The operator adds and       *)
(* deletes pools; clients allocate addresses, claim one by value (ipset)   *)
(* and return what they hold.  The code is sequential: each call is one    *)
(* action.  Addresses are numbers: inet_addr and htonl turn them into each *)
(* other and back.                                                         *)
(*                                                                         *)
(* A definition Op_Fault is Op with a plausible mistake in it, as in Timer.*)
(***************************************************************************)
EXTENDS Integers, FiniteSets

CONSTANTS
  List,      \* the indexes of ipplist that are used, of 0..MAXIPPLIST-1
  MaxIpp,    \* MAXIPP, the pools of a list
  MaxAddr,   \* the last address
  MaxPool,   \* IPPSZ, the bits of a pool's map
  U32,       \* the range of an unsigned counter (2^32)
  Conf,      \* the calls of ippaddn and ippdel an operator may make
  Claim,     \* addresses a client may ask for with ipset
  Round,     \* ipptype & IPP_ROUND
  InOrder,   \* ipptype & IPP_SEQ
  Late,      \* clients may keep addresses of a pool that has been deleted
  MaxAdds,   \* bound: pools added to a list since it was created
  MaxHeld    \* bound: an address is not handed out to more clients

Addr == 0..MaxAddr
Slot == 0..(MaxIpp - 1)

ASSUME ListAssumption ==
  /\ List \subseteq Nat /\ IsFiniteSet(List)
  /\ MaxIpp \in Nat \ {0} /\ MaxAdds \in Nat /\ MaxHeld \in Nat
ASSUME FlagAssumption ==
  Round \in BOOLEAN /\ InOrder \in BOOLEAN /\ Late \in BOOLEAN
(* hosts is 32 - nbit; xs and xe are 0 for an exclusion that is not given. *)
ASSUME ConfAssumption ==
  /\ MaxAddr \in Nat /\ MaxAddr < U32
  /\ MaxPool \in Nat /\ U32 \in Nat /\ 4 <= MaxPool /\ MaxPool < U32
  /\ Claim \subseteq Addr \ {0}
  /\ \A c \in Conf : /\ c.list \in List
                     /\ c.addr \in Addr /\ c.hosts \in Nat
                     /\ c.xs \in Addr /\ c.xe \in Addr
(* What masks do, which the provers do not know of powers of two; and the  *)
(* pool fits its map (ipp.h:12-14).                                        *)
Block(hosts) == IF hosts < 2 THEN 1 ELSE 2 ^ hosts   \* nbit 31 taken for 32
NetOf(addr, block) == addr - (addr % block)
ASSUME MaskAssumption ==
  \A c \in Conf :
    LET b == Block(c.hosts)
    IN  /\ b = 1 \/ b \in 4..MaxPool
        /\ NetOf(c.addr, b) \in Nat /\ NetOf(c.addr, b) + b - 1 <= MaxAddr

VARIABLES
  alive,   \* the lists that ipplist points to
  nipp,    \* List -> ipplist_t.nipp
  pool,    \* List -> Slot -> its ipp_t
  lent,    \* Addr -> how many clients hold it
  fate     \* "up"; "hung" in a loop that never ends; "trap" on a division

vars == <<alive, nipp, pool, lent, fate>>

-----------------------------------------------------------------------------
(* Pools.                                                                  *)

Empty == [net |-> 0, isip |-> 0, ieip |-> 0, xsip |-> 0, xeip |-> 0,
          cur |-> 0, end |-> 0, total |-> 0, used |-> 0,
          map |-> {}]

Smaller(a, b) == IF a < b THEN a ELSE b
Larger(a, b)  == IF a < b THEN b ELSE a

(* Offsets from isip of the excluded addresses.                            *)
Excluded(p) ==
  IF p.xsip # 0 /\ p.xeip # 0 THEN (p.xsip - p.isip)..(p.xeip - p.isip) ELSE {}

(* The exclusion, clamped to the pool's range.                             *)
Clamped(lo, hi, isip, ieip) ==
  IF hi # 0 /\ hi < isip THEN <<0, 0>>
  ELSE <<IF lo = 0 THEN 0 ELSE Larger(lo, isip),
         IF hi = 0 THEN 0 ELSE Smaller(hi, ieip)>>

Capacity_Whole(size, x) == size
Capacity(size, x) ==
  IF x[1] # 0 /\ x[2] # 0 THEN (size - (x[2] - x[1] + 1)) % U32 ELSE size

PoolOf(c) ==
  LET block == Block(c.hosts)
      net   == NetOf(c.addr, block)
      size  == IF block = 1 THEN 1 ELSE block - 2
      isip  == IF size > 1 THEN net + 1 ELSE net
      ieip  == IF size > 1 THEN net + block - 2 ELSE net
      x     == Clamped(Smaller(c.xs, c.xe), Larger(c.xs, c.xe), isip, ieip)
  IN  [net |-> net, isip |-> isip, ieip |-> ieip, xsip |-> x[1], xeip |-> x[2],
       cur |-> 0, end |-> size, total |-> Capacity(size, x), used |-> 0,
       map |-> {}]
NewPool_NoBits(c) == PoolOf(c)
NewPool(c) == [PoolOf(c) EXCEPT !.map = Excluded(PoolOf(c))]

(* IPPSET and IPPCLR with the counter beside them.                         *)
Mark_CountOnly(p, c) == [p EXCEPT !.used = (@ + 1) % U32]
Mark(p, c) == [p EXCEPT !.map = @ \cup {c}, !.used = (@ + 1) % U32]

Release_Always(p, c) == [p EXCEPT !.map = @ \ {c}, !.used = (@ - 1) % U32]
Release_KeepsBit(p, c) ==
  IF c \in p.map THEN [p EXCEPT !.used = (@ - 1) % U32] ELSE p
Release(p, c) ==
  IF c \in p.map THEN [p EXCEPT !.map = @ \ {c}, !.used = (@ - 1) % U32] ELSE p

-----------------------------------------------------------------------------
(* The search for a clear bit.                                             *)

Skip(p, c) ==
  (IF c \in Excluded(p) THEN p.xeip - p.isip + 1 ELSE c + 1) % p.end

(* The clear bit the loop stops at when it starts from c: the one in the   *)
(* least set of positions that has c and, with every taken position, the   *)
(* next the loop tries.  There is none when the loop never stops.          *)
Closed(p, S) == \A s \in S \cap p.map : Skip(p, s) \in S
Reached(p, c) ==
  {d \in (0..(p.end - 1)) \ p.map :
     \A S \in SUBSET (0..(p.end - 1)) : c \in S /\ Closed(p, S) => d \in S}

From_Cursor(p) == p.cur
From_Start(p) == 0
From(p) == IF InOrder THEN 0 ELSE p.cur

Advanced_NoWrap(p, c) == [p EXCEPT !.cur = c + 1]
Advanced(p, c) == [p EXCEPT !.cur = (c + 1) % p.end]

Open(l) == {j \in 0..(nipp[l] - 1) : pool[l][j].total > pool[l][j].used}

(* cipp is 0 in every list: ipallocn advances a copy of it.                *)
Start(l) == IF Round THEN 1 % nipp[l] ELSE 0
Turn(l, j) == (j - Start(l)) % nipp[l]

(* Beyond MaxIpp pools the loops over nipp leave the array.                *)
InArray == \A l \in List : nipp[l] <= MaxIpp

-----------------------------------------------------------------------------
Init ==
  /\ alive = {}
  /\ nipp = [l \in List |-> 0]
  /\ pool = [l \in List |-> [j \in Slot |-> Empty]]
  /\ lent = [a \in Addr |-> 0]
  /\ fate = "up"

Live(l) == {j \in Slot : pool[l][j].net # 0}
InRange(p, a) == p.isip <= a /\ a <= p.ieip
Overlap(p, q) == p.isip <= q.ieip /\ q.isip <= p.ieip
LivePools == UNION {{pool[l][j] : j \in Live(l)} : l \in List}

(* ippaddn, of a pool that overlaps none of those there are.               *)
Add(c) ==
  LET l == c.list
      free == Slot \ Live(l)
  IN
  /\ fate = "up" /\ NewPool(c).net # 0
  /\ \A q \in LivePools : ~Overlap(NewPool(c), q)
  /\ alive' = alive \cup {l}
  /\ \/ /\ free = {}
        /\ UNCHANGED <<pool, nipp>>
     \/ \E j \in free :
          /\ \A i \in free : j <= i
          /\ nipp[l] < MaxAdds
          /\ pool' = [pool EXCEPT ![l][j] = NewPool(c)]
          /\ nipp' = [nipp EXCEPT ![l] = @ + 1]
  /\ UNCHANGED <<lent, fate>>

(* ippaddn with no address, or more than 32 bits: the list is there.       *)
AddRejected(l) ==
  /\ fate = "up" /\ l \notin alive
  /\ alive' = alive \cup {l}
  /\ UNCHANGED <<nipp, pool, lent, fate>>

(* ippdel erases every pool of that net in every list; unless Late, its    *)
(* addresses have been returned first.  nipp is decreased in a copy.       *)
Deleted(c) ==
  {d \in List \X Slot : /\ pool[d[1]][d[2]].net # 0
                        /\ pool[d[1]][d[2]].net = NetOf(c.addr, 2 ^ c.hosts)}
Returned(D) ==
  Late \/ \A d \in D, a \in Addr :
            InRange(pool[d[1]][d[2]], a) => lent[a] = 0
NippAfter_Counted(D) ==
  [l \in List |-> nipp[l] - Cardinality({d \in D : d[1] = l})]
NippAfter(D) == nipp
Del(c) ==
  LET D == Deleted(c)
  IN
  /\ fate = "up" /\ D # {} /\ Returned(D)
  /\ pool' = [l \in List |-> [j \in Slot |->
                IF <<l, j>> \in D THEN Empty ELSE pool[l][j]]]
  /\ nipp' = NippAfter(D)
  /\ UNCHANGED <<alive, lent, fate>>

(* ippflush frees every list.                                              *)
Flush ==
  /\ fate = "up" /\ alive # {}
  /\ Returned({d \in List \X Slot : pool[d[1]][d[2]].net # 0})
  /\ alive' = {}
  /\ nipp' = [l \in List |-> 0]
  /\ pool' = [l \in List |-> [j \in Slot |-> Empty]]
  /\ UNCHANGED <<lent, fate>>

(* ipallocn (ipalloc is ipallocn of list 0): the first pool in turn with   *)
(* addresses left.  When there is none it returns 0 and changes nothing.   *)
CanAlloc(l) == fate = "up" /\ l \in alive /\ InArray

Picked(l) == {j \in Open(l) : \A i \in Open(l) : Turn(l, j) <= Turn(l, i)}

Alloc(l) ==
  /\ CanAlloc(l) /\ nipp[l] > 0
  /\ \E j \in Picked(l) :
       LET p == pool[l][j]
       IN  \E c \in Reached(p, From(p)) :
             /\ lent[p.isip + c] < MaxHeld
             /\ pool' = [pool EXCEPT ![l][j] = Advanced(Mark(p, c), c)]
             /\ lent' = [lent EXCEPT ![p.isip + c] = @ + 1]
  /\ UNCHANGED <<alive, nipp, fate>>

AllocHangs(l) ==
  /\ CanAlloc(l) /\ nipp[l] > 0
  /\ \E j \in Picked(l) : Reached(pool[l][j], From(pool[l][j])) = {}
  /\ fate' = "hung"
  /\ UNCHANGED <<alive, nipp, pool, lent>>

(* (cipp+1)%nipp with no pool in the list.                                 *)
AllocTraps(l) ==
  /\ CanAlloc(l) /\ nipp[l] = 0 /\ Round
  /\ fate' = "trap"
  /\ UNCHANGED <<alive, nipp, pool, lent>>

(* The pool ipfree and ipset find for an address: lists, then pools, in    *)
(* order.                                                                  *)
Covers(a) ==
  {d \in List \X Slot : /\ d[1] \in alive /\ d[2] < nipp[d[1]]
                        /\ InRange(pool[d[1]][d[2]], a)}
First(a) ==
  {d \in Covers(a) : \A e \in Covers(a) :
                       d[1] < e[1] \/ (d[1] = e[1] /\ d[2] <= e[2])}

(* ipfree by a client that holds the address.                              *)
Free(a) ==
  /\ fate = "up" /\ InArray /\ lent[a] > 0
  /\ \/ First(a) = {} /\ UNCHANGED pool
     \/ \E d \in First(a) :
          LET p == pool[d[1]][d[2]]
          IN  pool' = [pool EXCEPT ![d[1]][d[2]] = Release(p, a - p.isip)]
  /\ lent' = [lent EXCEPT ![a] = @ - 1]
  /\ UNCHANGED <<alive, nipp, fate>>

(* ipset that succeeds; on a taken address it returns -1.                  *)
Set(a) ==
  /\ fate = "up" /\ InArray /\ lent[a] < MaxHeld
  /\ \E d \in First(a) :
       LET p == pool[d[1]][d[2]]
       IN  /\ a - p.isip \notin p.map
           /\ pool' = [pool EXCEPT ![d[1]][d[2]] = Mark(p, a - p.isip)]
  /\ lent' = [lent EXCEPT ![a] = @ + 1]
  /\ UNCHANGED <<alive, nipp, fate>>

Operator ==
  \/ \E c \in Conf : Add(c) \/ Del(c)
  \/ \E l \in List : AddRejected(l)
  \/ Flush
Client ==
  \/ \E l \in List : Alloc(l) \/ AllocHangs(l) \/ AllocTraps(l)
  \/ \E a \in Addr : Free(a)
  \/ \E a \in Claim : Set(a)

Next == Operator \/ Client
Spec == Init /\ [][Next]_vars

-----------------------------------------------------------------------------
Pool ==
  [net : Addr, isip : Addr, ieip : Addr, xsip : Addr, xeip : Addr,
   cur : Nat, end : 0..MaxPool, total : 0..(U32 - 1), used : 0..(U32 - 1),
   map : SUBSET Nat]

(* Types, and the shape of a pool: the cursor, the excluded range and every*)
(* bit that is set stay within the pool, so no search leaves the bitmap.   *)
Shape(p) ==
  /\ p.end = p.ieip - p.isip + 1
  /\ p.cur \in 0..(p.end - 1)
  /\ p.map \subseteq 0..(p.end - 1)
  /\ Excluded(p) \subseteq 0..(p.end - 1)
TypeOK ==
  /\ alive \subseteq List
  /\ nipp \in [List -> Nat]
  /\ pool \in [List -> [Slot -> Pool]]
  /\ \A p \in LivePools : Shape(p)
  /\ lent \in [Addr -> Nat]
  /\ fate \in {"up", "hung", "trap"}

(* No address is handed out to two clients, by ipallocn from any list or   *)
(* by ipset, however pools come and go.                                    *)
Exclusive == ~Late => \A a \in Addr : lent[a] <= 1

(* The bitmap of a pool is what its clients hold and what was excluded.    *)
MapExact ==
  ~Late => \A p \in LivePools :
             p.map = Excluded(p) \cup
                       {a - p.isip : a \in {b \in p.isip..p.ieip : lent[b] > 0}}

(* An excluded address is never handed out.                                *)
ReservedKept ==
  ~Late => \A p \in LivePools : \A a \in p.isip..p.ieip :
             a - p.isip \in Excluded(p) => lent[a] = 0

(* Allocation fails only when nothing is left: if the loop of ipallocn     *)
(* passes over all the pools it counts, every live pool of the list,       *)
(* wherever earlier deletions have left it in the array, is full.          *)
FullIsFull ==
  ~Late => \A l \in alive :
             Open(l) = {} => \A j \in Live(l) :
                               pool[l][j].map = 0..(pool[l][j].end - 1)

(* The search for a clear bit ends, unless an exclusion begins beyond the  *)
(* pool (by more than one address: total is then greater than end) or a    *)
(* late ipfree has cleared a bit inside an exclusion.                      *)
Inside(p) == p.xsip # 0 /\ p.xeip # 0 => p.xsip <= p.xeip + 1
SearchEnds ==
  ~Late /\ (\A c \in Conf : Inside(PoolOf(c))) => fate # "hung"

(* The counter follows the bitmap, modulo its width, whatever clients free *)
(* or claim: used is the number of bits set since the pool was added.      *)
UsedFollowsMap ==
  \A p \in LivePools :
    LET d == Cardinality(p.map) - Cardinality(Excluded(p))
    IN  p.used \in {d, d + U32}

(* In sequence (IPP_SEQ) a pool hands out its lowest free address, but for *)
(* an excluded one whose bit a late ipfree has cleared.                    *)
SeqLowest ==
  [][InOrder => \A l \in List : Alloc(l) =>
       \A p \in LivePools' \ LivePools : \A a \in Addr :
         lent'[a] > lent[a] /\ InRange(p, a)
           => \A b \in p.isip..(a - 1) : b - p.isip \in p.map \cup Excluded(p)]_vars

(* Out of sequence, an address that has just been handed out and returned  *)
(* is not handed out again while the pool has another.                     *)
NoReuse ==
  [][~InOrder => \A l \in List : Alloc(l) =>
       \A j \in Live(l) : LET p == pool[l][j] IN
         pool'[l][j] # p /\ Cardinality(p.map \cup Excluded(p)) < p.end - 1
           => (p.cur - 1) % p.end \in p.map \/
              (p.cur - 1) % p.end \notin pool'[l][j].map]_vars

-----------------------------------------------------------------------------
(* What the comments and the tests say and the code does not do.           *)

(* ipp.c:52, of nipp: number of ippool.                                    *)
NumberOfPools == \A l \in List : nipp[l] = Cardinality(Live(l))
=============================================================================

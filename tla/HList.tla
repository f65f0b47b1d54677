-------------------------------- MODULE HList --------------------------------
(***************************************************************************)
(* struct hlist_head of lib/list.h: lists for hash tables, with one        *)
(* pointer at the head and, in each node, the address of the pointer that  *)
(* leads to it.                                                            *)
(*                                                                         *)
(* A pointer is named by the head or the node it is a field of, so at[h]   *)
(* is h's first, at[n] is n's next, and pprev[n] is the name of a pointer. *)
(* The client adds a node that is in no list, calls hlist_del for one that *)
(* is hashed, and marks as fake a node it has initialised.                 *)
(***************************************************************************)
EXTENDS Naturals, Sequences, SequencesExt, FiniteSetsExt, Walks

CONSTANTS HHead, HNode,
          None,       \* the null pointer
          HPoison     \* poisoned or indeterminate

Pointer == HHead \cup HNode

ASSUME HAssumption ==
  /\ IsFiniteSet(HNode) /\ HHead \cap HNode = {} /\ None # HPoison
  /\ None \notin Pointer /\ HPoison \notin Pointer

VARIABLES at, pprev, hit     \* hit: an iteration under way

hvars == <<at, pprev, hit>>
NoPass == [head |-> None, pos |-> None, n |-> None, seen |-> <<>>, whole |-> <<>>]

\* Assigning pprev through a pointer that the code has tested.
Back(n, v) == IF n = None THEN pprev ELSE [pprev EXCEPT ![n] = v]

Passes(h) == Along(at[h], at, {None, HPoison}, Cardinality(HNode))
ChainOf == [h \in HHead |-> Passes(h)]
Chained == UNION {ToSet(ChainOf[h]) : h \in HHead}
Unhashed(n) == pprev[n] = None

HInit == /\ at = [p \in Pointer |-> IF p \in HHead THEN None ELSE HPoison]
         /\ pprev = [n \in HNode |-> HPoison] /\ hit = NoPass

InitNode(n) == /\ n \notin Chained /\ hit = NoPass
               /\ at' = [at EXCEPT ![n] = None]
               /\ pprev' = [pprev EXCEPT ![n] = None] /\ UNCHANGED hit

\* A node that enters has no fake pprev left.
Enters(n, a, b) == /\ n \notin Chained /\ hit = NoPass
                   /\ at' = a /\ pprev' = b /\ UNCHANGED hit

AddHead(n, h) ==
  Enters(n, [at EXCEPT ![n] = at[h], ![h] = n],
            [Back(at[h], n) EXCEPT ![n] = h])

AddBefore(n, next) ==
  /\ next \in Chained
  /\ Enters(n, [at EXCEPT ![n] = next, ![pprev[next]] = n],
               [pprev EXCEPT ![n] = pprev[next], ![next] = n])

AddAfter(n, next) ==   \* next goes behind n
  /\ n \in Chained
  /\ Enters(next, [at EXCEPT ![next] = at[n], ![n] = next],
                  [Back(at[n], next) EXCEPT ![next] = n])

AddFake(n) == /\ n \notin Chained /\ at[n] = None /\ Unhashed(n) /\ hit = NoPass
              /\ pprev' = [pprev EXCEPT ![n] = n] /\ UNCHANGED <<at, hit>>

MoveList_Copies(old, new) ==
  /\ old # new /\ at[new] = None /\ hit = NoPass
  /\ at' = [at EXCEPT ![new] = at[old]]
  /\ pprev' = Back(at[old], new) /\ UNCHANGED hit

MoveList(old, new) ==
  /\ old # new /\ at[new] = None /\ hit = NoPass
  /\ at' = [at EXCEPT ![new] = at[old], ![old] = None]
  /\ pprev' = Back(at[old], new) /\ UNCHANGED hit

PprevAfter_Kept(n) == pprev
\* __hlist_del: the pointer that led to n leads to its successor.
PprevAfter(n) == Back(at[n], pprev[n])

\* hlist_del with v poison, and hlist_del_init of a hashed node with v null.
Delete(n, v) ==
  /\ ~Unhashed(n) /\ (n \in Chained \/ pprev[n] = n)
  /\ hit = NoPass \/ hit.pos = n
  /\ at' = [at EXCEPT ![pprev[n]] = at[n], ![n] = v]
  /\ pprev' = [PprevAfter(n) EXCEPT ![n] = v]
  /\ UNCHANGED hit

\* hlist_for_each_safe: the successor is read before the body runs.
HBegin(h) == /\ hit = NoPass /\ at[h] # None
             /\ hit' = [head |-> h, pos |-> at[h], n |-> at[at[h]],
                        seen |-> <<at[h]>>, whole |-> ChainOf[h]]
             /\ UNCHANGED <<at, pprev>>
HAdvance_NotSafe ==
  /\ hit # NoPass /\ hit.pos # None
  /\ hit' = IF at[hit.pos] = None THEN [hit EXCEPT !.pos = None]
            ELSE [hit EXCEPT !.pos = at[hit.pos], !.seen = Append(@, at[hit.pos])]
  /\ UNCHANGED <<at, pprev>>
HAdvance == /\ hit # NoPass /\ hit.pos # None
            /\ hit' = IF hit.n = None THEN [hit EXCEPT !.pos = None]
                      ELSE [hit EXCEPT !.pos = hit.n, !.n = at[hit.n],
                                       !.seen = Append(@, hit.n)]
            /\ UNCHANGED <<at, pprev>>
HFinish == /\ hit # NoPass /\ hit.pos = None
           /\ hit' = NoPass /\ UNCHANGED <<at, pprev>>

HNext ==
  \/ \E n \in HNode : \/ InitNode(n) \/ AddFake(n)
                      \/ \E v \in {None, HPoison} : Delete(n, v)
                      \/ \E h \in HHead : AddHead(n, h)
                      \/ \E m \in HNode : AddBefore(n, m) \/ AddAfter(m, n)
  \/ \E h \in HHead : HBegin(h) \/ \E g \in HHead : MoveList(h, g)
  \/ HAdvance \/ HFinish

HSpec == HInit /\ [][HNext]_hvars
-----------------------------------------------------------------------------
(* Properties. *)

\* Pointers lead to nodes, to none, or are poisoned.
HTypeOK == /\ at \in [Pointer -> HNode \cup {None, HPoison}]
           /\ pprev \in [HNode -> Pointer \cup {None, HPoison}]
           /\ hit.pos \in HNode \cup {None} /\ hit.n \in HNode \cup {None, HPoison}

\* In every chain, whatever was inserted before or behind what, the pointer a
\* node's pprev names is the one that leads to the node, so that hlist_del can
\* take it out without its head; a poisoned node is in no chain.
LedTo == \A n \in Chained : pprev[n] \in Pointer /\ at[pprev[n]] = n

\* A safe iteration visits the whole chain although nodes are deleted under it.
SafePass == hit # NoPass /\ hit.pos = None => hit.seen = hit.whole

Chains == INSTANCE Lists WITH Anchor <- HHead, Entry <- HNode, lists <- ChainOf
\* The pointers implement one sequence of nodes for each head.
AreChains == Chains!Spec

-----------------------------------------------------------------------------
(* The inductive invariant.                                                *)

\* The pointers a and b link the chains c: the one at every place leads to the
\* node at the next place, and the node's pprev names it.
HShape(a, b, c) ==
  /\ c \in [HHead -> Seq(HNode)] /\ Apart(c, HHead)
  /\ \A h \in HHead : \A i \in 0..Len(c[h]) :
       a[Place(h, c[h], i)] = Place(None, c[h], i + 1)
  /\ \A h \in HHead : \A i \in 1..Len(c[h]) : b[c[h][i]] = Place(h, c[h], i - 1)

\* The nodes of the chain from the one that was read ahead on are linked as
\* they were when the iteration began.
Pass == [head : HHead, pos : HNode \cup {None}, n : HNode \cup {None},
         seen : Seq(HNode), whole : Seq(HNode)]
InPass(p, a) ==
  LET k == Len(p.seen)
  IN  /\ p \in Pass /\ NoTwice(p.whole) /\ k \in 1..Len(p.whole)
      /\ \A i \in 1..k : p.seen[i] = p.whole[i]
      /\ \/ p.pos = None /\ k = Len(p.whole)
         \/ p.pos = p.whole[k] /\ p.n = Place(None, p.whole, k + 1)
      /\ \A j \in (k + 1)..Len(p.whole) : a[p.whole[j]] = Place(None, p.whole, j + 1)

HInv == /\ HTypeOK /\ HShape(at, pprev, ChainOf)
        /\ \A n \in HNode : pprev[n] = n => at[n] = None
        /\ hit = NoPass \/ InPass(hit, at)
=============================================================================

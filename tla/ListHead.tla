------------------------------ MODULE ListHead -------------------------------
(***************************************************************************)
(* struct list_head of lib/list.h: circular lists through a head, as       *)
(* lib/timer.c and the rest of the library use them.                       *)
(*                                                                         *)
(* The client keeps the header's side: it adds an entry that is in no list,*)
(* removes one that is in a list, gives list_cut_position an entry of the  *)
(* list, and initialises a head whose entries another list has taken       *)
(* before it uses it again (live).  While it iterates with a safe macro it *)
(* only removes or moves away the entry it is at.                          *)
(***************************************************************************)
EXTENDS Naturals, Sequences, SequencesExt, FiniteSetsExt, Walks

CONSTANTS LHead, LEntry,   \* heads and entries
          Poison           \* LIST_POISON1, LIST_POISON2 and indeterminate

Node == LHead \cup LEntry

ASSUME LAssumption ==
  IsFiniteSet(Node) /\ LHead \cap LEntry = {} /\ Poison \notin Node

VARIABLES ls,     \* the links next and prev of every node
          live,   \* the heads that hold a list
          it      \* an iteration under way

lvars == <<ls, live, it>>
NoWalk == [head |-> Poison, pos |-> Poison, n |-> Poison,
           way |-> "next", seen |-> <<>>, whole |-> <<>>]

InitHead(l, h) == [l EXCEPT !.next[h] = h, !.prev[h] = h]
AddBetween(l, new, p, n) ==
  [l EXCEPT !.prev[n] = new, !.next[new] = n, !.prev[new] = p, !.next[p] = new]
ListAdd(l, new, h)     == AddBetween(l, new, h, l.next[h])
ListAddTail(l, new, h) == AddBetween(l, new, l.prev[h], h)

Join_NextOnly(l, p, n) == [l EXCEPT !.next[p] = n]
Join(l, p, n)  == [l EXCEPT !.prev[n] = p, !.next[p] = n]
Unlinked(l, e) == Join(l, l.prev[e], l.next[e])
Poisoned(l, e) == [l EXCEPT !.next[e] = Poison, !.prev[e] = Poison]

Replaced(l, old, new) ==
  LET a == [l EXCEPT !.next[new] = l.next[old], !.prev[l.next[old]] = new]
  IN  [a EXCEPT !.prev[new] = a.prev[old], !.next[a.prev[old]] = new]

Empty(l, h)    == l.next[h] = h
Singular(l, h) == ~Empty(l, h) /\ l.next[h] = l.prev[h]

CutAt(l, list, h, e) ==
  [l EXCEPT !.next[list] = l.next[h], !.prev[l.next[h]] = list,
            !.prev[list] = e, !.next[e] = list,
            !.next[h] = l.next[e], !.prev[l.next[e]] = h]

CutPosition(l, list, h, e) ==
  IF Empty(l, h) \/ (Singular(l, h) /\ l.next[h] # e /\ h # e) THEN l
  ELSE IF e = h THEN InitHead(l, list) ELSE CutAt(l, list, h, e)

SpliceBetween_KeepsLast(l, list, p, n) ==
  [l EXCEPT !.prev[l.next[list]] = p, !.next[p] = l.next[list],
            !.prev[n] = l.prev[list]]

SpliceBetween(l, list, p, n) ==
  [l EXCEPT !.prev[l.next[list]] = p, !.next[p] = l.next[list],
            !.next[l.prev[list]] = n, !.prev[n] = l.prev[list]]

\* What a walk from head h visits: list_for_each and list_for_each_prev.
Visits(h, link) == Along(link[h], link, {h, Poison}, Cardinality(Node))

\* Links of an entry that has left, which no call reads, are forgotten.
Forgotten(l, heads) ==
  LET used == heads \cup UNION {ToSet(Visits(h, l.next)) : h \in heads}
      self == {x \in LEntry : l.next[x] = x}
      kept(f) == [x \in Node |-> IF x \in used \cup self THEN f[x] ELSE Poison]
  IN  [next |-> kept(l.next), prev |-> kept(l.prev)]

ListOf == [h \in LHead |-> IF h \in live THEN Visits(h, ls.next) ELSE <<>>]
Members == UNION {ToSet(ListOf[h]) : h \in live}

LInit == /\ ls = [next |-> [x \in Node |-> IF x \in LHead THEN x ELSE Poison],
                  prev |-> [x \in Node |-> IF x \in LHead THEN x ELSE Poison]]
         /\ live = LHead /\ it = NoWalk

\* Outside an iteration.
Step(l, heads) ==
  it = NoWalk /\ ls' = Forgotten(l, heads) /\ live' = heads /\ UNCHANGED it

InitListHead(h) == Step(InitHead(ls, h), live \cup {h})
LAdd(e, h)     == e \notin Members /\ Step(ListAdd(ls, e, h), live)
LAddTail(e, h) == e \notin Members /\ Step(ListAddTail(ls, e, h), live)
ReplaceEntry(e, f, init) ==
  LET l == Replaced(ls, e, f)
  IN  /\ e \in Members /\ f \notin Members
      /\ Step(IF init THEN InitHead(l, e) ELSE l, live)
ReplaceHead(h, g)  == \* list_replace_init on a head, empty or not
  h # g /\ Step(InitHead(Replaced(ls, h, g), h), live \cup {g})
RotateLeft(h) ==
  LET f == ls.next[h]
  IN  /\ ~Empty(ls, h) /\ Step(ListAddTail(Unlinked(ls, f), f, h), live)
Cut(list, h, e) == /\ list # h /\ e \in ToSet(ListOf[h]) \cup {h}
                   /\ Step(CutPosition(ls, list, h, e), live)
Splice(list, h, tail, init) ==
  LET l == IF Empty(ls, list) THEN ls
           ELSE IF tail THEN SpliceBetween(ls, list, ls.prev[h], h)
                ELSE SpliceBetween(ls, list, h, ls.next[h])
  IN  /\ list # h
      /\ IF init /\ ~Empty(ls, list) THEN Step(InitHead(l, list), live)
         ELSE Step(l, IF Empty(ls, list) THEN live ELSE live \ {list})

\* Outside an iteration, or the entry the iteration is at.
TakeOut(e, l) == /\ e \in Members /\ (it = NoWalk \/ it.pos = e)
                /\ ls' = l /\ UNCHANGED <<live, it>>
LDel(e)     == TakeOut(e, Poisoned(Unlinked(ls, e), e))
LDelInit(e) == TakeOut(e, InitHead(Unlinked(ls, e), e))
DelInitAgain(e) == ls.next[e] = e /\ Step(InitHead(Unlinked(ls, e), e), live)
LMove(e, h) == h # it.head /\ TakeOut(e, ListAdd(Unlinked(ls, e), e, h))
LMoveTail(e, h) == h # it.head /\ TakeOut(e, ListAddTail(Unlinked(ls, e), e, h))

\* list_for_each_safe and list_for_each_prev_safe, and the same for entries.
Way(l, w) == IF w = "next" THEN l.next ELSE l.prev
WalkStep_NotSafe(w) == [w EXCEPT !.pos = Way(ls, w.way)[w.pos],
                                 !.n = w.pos, !.seen = Append(@, w.pos)]
WalkStep_Skips(w) == [w EXCEPT !.pos = Way(ls, w.way)[w.n],
                               !.n = Way(ls, w.way)[w.n], !.seen = Append(@, w.pos)]
WalkStep(w) == [w EXCEPT !.pos = w.n, !.n = Way(ls, w.way)[w.n],
                         !.seen = Append(@, w.pos)]
Begin(h, w) ==
  LET pos == Way(ls, w)[h]
  IN  /\ it = NoWalk
      /\ it' = [head |-> h, pos |-> pos, n |-> Way(ls, w)[pos], way |-> w,
                seen |-> <<>>, whole |-> IF w = "next" THEN ListOf[h]
                                         ELSE Reverse(ListOf[h])]
      /\ UNCHANGED <<ls, live>>
Advance == /\ it # NoWalk /\ it.pos # it.head
           /\ it' = WalkStep(it) /\ UNCHANGED <<ls, live>>
Finish == /\ it # NoWalk /\ it.pos = it.head
          /\ it' = NoWalk /\ UNCHANGED <<ls, live>>

LNext ==
  \/ \E h \in LHead : InitListHead(h)
  \/ \E h \in live : RotateLeft(h)
  \/ \E h \in live, w \in {"next", "prev"} : Begin(h, w)
  \/ \E h \in live, e \in LEntry : \/ LAdd(e, h) \/ LAddTail(e, h)
                                   \/ LMove(e, h) \/ LMoveTail(e, h)
  \/ \E e \in LEntry : LDel(e) \/ LDelInit(e) \/ DelInitAgain(e)
  \/ \E e, f \in LEntry, init \in BOOLEAN : ReplaceEntry(e, f, init)
  \/ \E h \in live, g \in LHead : ReplaceHead(h, g)
  \/ \E h, g \in live : \/ \E e \in Node : Cut(g, h, e)
                        \/ \E tail, init \in BOOLEAN : Splice(g, h, tail, init)
  \/ Advance \/ Finish

LSpec == LInit /\ [][LNext]_lvars
-----------------------------------------------------------------------------
(* Properties. *)

\* Pointers lead to nodes or are poisoned, and those of an iteration to nodes.
LTypeOK == /\ ls \in [next : [Node -> Node \cup {Poison}],
                      prev : [Node -> Node \cup {Poison}]]
           /\ live \subseteq LHead
           /\ it = NoWalk \/ (it.pos \in Node /\ it.n \in Node)

\* Every list walked backwards is the list walked forwards, turned around, no
\* two lists share an entry, and none leads to a poisoned or foreign pointer.
BothEnds == \A h \in live :
  /\ Visits(h, ls.prev) = Reverse(ListOf[h])
  /\ \A g \in live \ {h} : ToSet(ListOf[h]) \cap ToSet(ListOf[g]) = {}
  /\ ToSet(ListOf[h]) \subseteq LEntry

\* A safe iteration visits every entry of the list it began with, once and in
\* order, whichever of them are deleted or moved away under it.
SafeWalk == it # NoWalk /\ it.pos = it.head => it.seen = it.whole

\* The pointers implement one sequence of entries for each head.
Seqs == INSTANCE Lists WITH Anchor <- LHead, Entry <- LEntry, lists <- ListOf
AreLists == Seqs!Spec

-----------------------------------------------------------------------------
(* The inductive invariant.                                                *)

\* l links the entries s to a ring through h; and those of every c[h] with h in
\* H, no two of these rings sharing an entry.
Ring(l, h, s) == \A i \in 0..Len(s) : /\ l.next[Place(h, s, i)] = Place(h, s, i + 1)
                                      /\ l.prev[Place(h, s, i + 1)] = Place(h, s, i)
LShape(l, H, c) == /\ c \in [LHead -> Seq(LEntry)] /\ Apart(c, H)
                   /\ \A h \in H : Ring(l, h, c[h])

Links2 == [next : [Node -> Node \cup {Poison}], prev : [Node -> Node \cup {Poison}]]

\* An entry that is a ring of its own is one both ways.
SelfBoth(l) == \A e \in LEntry : l.next[e] = e => l.prev[e] = e

\* Behind the entry that was read ahead the list is what it was when the
\* iteration began.
Pass2 == [head : LHead, pos : Node, n : Node, way : {"next", "prev"},
         seen : Seq(LEntry), whole : Seq(LEntry)]
Onwards(w, s) == IF w = "next" THEN s ELSE Reverse(s)
InWalk(w, s) ==
  LET k == Len(w.seen)
      m == Len(w.whole)
      d == Onwards(w.way, s)
  IN  /\ w \in Pass2 /\ NoTwice(w.whole) /\ k \in 0..m
      /\ \A i \in 1..k : w.seen[i] = w.whole[i]
      /\ w.pos = Place(w.head, w.whole, k + 1)
      /\ k < m => /\ w.n = Place(w.head, w.whole, k + 2) /\ m <= Len(d) + k + 1
                  /\ \A j \in (k + 2)..m : d[Len(d) - m + j] = w.whole[j]

LInv == /\ ls \in Links2 /\ live \subseteq LHead /\ LShape(ls, live, ListOf)
        /\ SelfBoth(ls)
        /\ it = NoWalk \/ (it.head \in live /\ InWalk(it, ListOf[it.head]))
=============================================================================

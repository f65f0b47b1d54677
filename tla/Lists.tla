-------------------------------- MODULE Lists --------------------------------
(***************************************************************************)
(* What the two kinds of list of lib/list.h promise: a sequence of entries *)
(* at each head, an entry in one list at most.  ListHead and HList         *)
(* implement it with pointers.                                             *)
(***************************************************************************)
EXTENDS Naturals, Sequences, SequencesExt

CONSTANTS Anchor,   \* the heads
          Entry     \* the entries
VARIABLE lists     \* head -> the entries of its list, first to last

Linked == UNION {ToSet(lists[h]) : h \in Anchor}

Init == lists \in [Anchor -> {<<>>}]

Enter == \E e \in Entry \ Linked, h \in Anchor : \E i \in 1..(Len(lists[h]) + 1) :
           lists' = [lists EXCEPT ![h] = InsertAt(@, i, e)]

Leave == \E h \in Anchor : \E i \in DOMAIN lists[h] :
           lists' = [lists EXCEPT ![h] = RemoveAt(@, i)]

Exchange == \E h \in Anchor, e \in Entry \ Linked : \E i \in DOMAIN lists[h] :
              lists' = [lists EXCEPT ![h] = ReplaceAt(lists[h], i, e)]

\* From its place to the front or to the back of a list, its own maybe.
Placed(c, g, e, last) == [c EXCEPT ![g] = InsertAt(@, IF last THEN Len(@) + 1 ELSE 1, e)]
Move == \E f, g \in Anchor : \E i \in DOMAIN lists[f], last \in BOOLEAN :
          lists' = Placed([lists EXCEPT ![f] = RemoveAt(@, i)], g, lists[f][i], last)

\* The first i entries of h become the list of g, whose own entries drop out.
Cut == \E h, g \in Anchor : \E i \in 0..Len(lists[h]) :
         /\ h # g
         /\ lists' = [lists EXCEPT ![g] = SubSeq(lists[h], 1, i),
                                   ![h] = SubSeq(@, i + 1, Len(@))]

\* All of h goes to the front or the back of g.
Splice == \E h, g \in Anchor :
            /\ h # g
            /\ \E q \in {lists[h] \o lists[g], lists[g] \o lists[h]} :
                 lists' = [lists EXCEPT ![g] = q, ![h] = <<>>]

Clear == \E h \in Anchor : lists' = [lists EXCEPT ![h] = <<>>]

Next == Enter \/ Leave \/ Exchange \/ Move \/ Cut \/ Splice \/ Clear
Spec == Init /\ [][Next]_lists
=============================================================================

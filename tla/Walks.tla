-------------------------------- MODULE Walks --------------------------------
(***************************************************************************)
(* Reading a chain of pointers: what a loop over a linked list visits.     *)
(***************************************************************************)
EXTENDS Naturals, Sequences

\* The nodes from the one named from on along link, as far as one of stop; a
\* chain of more than turns nodes, a cycle, is cut.
Along(from, link, stop, turns) ==
  LET loop[i \in 0..turns] ==
        IF i = 0 THEN [seq |-> <<>>, at |-> from]
        ELSE LET w == loop[i - 1]
             IN  IF w.at \in stop THEN w
                 ELSE [seq |-> Append(w.seq, w.at), at |-> link[w.at]]
  IN  loop[turns].seq

NoTwice(s) == \A i, j \in DOMAIN s : s[i] = s[j] => i = j

\* No two of the sequences c[h] share an element, and none repeats one.
Apart(c, H) == \A h, g \in H : \A i \in DOMAIN c[h], j \in DOMAIN c[g] :
                 c[h][i] = c[g][j] => h = g /\ i = j

\* What is at place i of a sequence that has e in front of it and behind it.
Place(e, s, i) == IF i \in DOMAIN s THEN s[i] ELSE e
=============================================================================

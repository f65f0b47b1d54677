------------------------------ MODULE MCQueues -------------------------------
(***************************************************************************)
(* The linked structures, one at a time: a behaviour is one of BufQ, of    *)
(* ListHead or of HList while the others stay in their initial state.      *)
(***************************************************************************)
EXTENDS BufQ, ListHead, HList, TLC

Symmetry == Permutations(Msg) \cup Permutations(LHead) \cup Permutations(LEntry)
              \cup Permutations(HHead) \cup Permutations(HNode)

VARIABLE kind
allvars == <<bqvars, lvars, hvars, kind>>

Init == QInit /\ LInit /\ HInit /\ kind \in {"bufq", "list", "hlist"}
Next == /\ UNCHANGED kind
        /\ \/ kind = "bufq"  /\ QNext /\ UNCHANGED <<lvars, hvars>>
           \/ kind = "list"  /\ LNext /\ UNCHANGED <<bqvars, hvars>>
           \/ kind = "hlist" /\ HNext /\ UNCHANGED <<bqvars, lvars>>
Spec == Init /\ [][Next]_allvars

-----------------------------------------------------------------------------
\* The links of the queue and of both kinds of lists are whole after every
\* operation: the neighbours of an element point back at it, the counters are
\* those of what is linked, and no iteration loses its way in a list that is
\* changed under it in the ways that the iteration allows.
Linked == /\ QTypeOK /\ BothWays /\ LTypeOK /\ BothEnds /\ SafeWalk
          /\ HTypeOK /\ LedTo /\ SafePass
=============================================================================

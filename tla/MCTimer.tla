------------------------------- MODULE MCTimer -------------------------------
(***************************************************************************)
(* Values for the constants of Timer: TLC's instances of the timer service.*)
(* A millisecond is half a second, and the wheel keeps the proportions of  *)
(* the code's: SecWidth = WheelSize + 1, and a wheel turn outlasts         *)
(* MaxDiff + 1 seconds.                                                    *)
(***************************************************************************)
EXTENDS Timer, TLC

CONSTANTS ab, abc

(* Every 4-byte tid is in a bucket of its own; "ab" and "abc" share the    *)
(* bucket of their first two bytes (_khfn cases 2 and 3), and "ab" is      *)
(* found wherever "abc" is stored, not the other way round.                *)
MCKeyBucket == [k \in Key |-> IF k \in StrKey THEN 0 ELSE k]
MCKeyPrefix == {<<k, k>> : k \in Key}
                 \cup {p \in {<<ab, abc>>} : StrKey = {ab, abc}}
(* A .cfg file has no negative numbers. *)
MCBackSteps == {-1}
Symmetry == Permutations(Entry)
=============================================================================

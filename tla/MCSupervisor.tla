---------------------------- MODULE MCSupervisor -----------------------------
(***************************************************************************)
(* Values for the constants of Supervisor: two entries, the name of the    *)
(* first a part of the name of the second.                                 *)
(***************************************************************************)
EXTENDS Supervisor

MCMatches == {<<0, 0>>, <<1, 1>>, <<0, 1>>}
=============================================================================

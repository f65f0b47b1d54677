------------------------------ MODULE MCIpPool -------------------------------
(***************************************************************************)
(* Values for the constants of IpPool: addresses of four bits, a pool of   *)
(* six addresses with two excluded in its middle, one of two addresses     *)
(* (sometimes in either of two lists), and one of a single address.        *)
(***************************************************************************)
EXTENDS IpPool

Call(l, a, h, xs, xe) ==
  [list |-> l, addr |-> a, hosts |-> h, xs |-> xs, xe |-> xe]

(* ippaddn swaps the ends of an exclusion and clamps it. *)
MCConf == {Call(0, 5, 2, 0, 0), Call(1, 5, 2, 0, 0),
           Call(0, 12, 3, 11, 10)}
(* A pool of two addresses, and one whose exclusion has these in it; a     *)
(* pool of one address, and one with an exclusion that begins beyond it.   *)
MCEdge == {Call(0, 9, 2, 0, 0), Call(0, 12, 3, 1, 12),
           Call(0, 3, 0, 0, 0), Call(0, 5, 0, 9, 10)}
=============================================================================

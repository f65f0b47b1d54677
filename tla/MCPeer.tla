------------------------------- MODULE MCPeer --------------------------------
(***************************************************************************)
(* Values for the constants of Peer: see MCPeer.cfg.  Ages keep the order  *)
(* of the code's 10, 6 and 3 seconds: a silent peer is looked at twice     *)
(* between Valid and Expire.                                               *)
(***************************************************************************)
EXTENDS Peer
=============================================================================

-------------------------------- MODULE Probes --------------------------------
(***************************************************************************)
(* The two parts of the library that ask other hosts and believe what is   *)
(* answered: the NTP client, with the server of the same file, and the     *)
(* ping test.  They share nothing but the network's habits.                *)
(***************************************************************************)
EXTENDS Ntp, Ping

ProbesSpec == NSpec /\ GSpec

\* What the answers of the network make a client believe: a time that is no
\* junk and no earlier than the question, and a reference time that is its own;
\* that a host answers, or does not.
Believed == NTypeOK /\ ClockTrue /\ ReferenceRecent /\ GTypeOK /\ Verdict
=============================================================================

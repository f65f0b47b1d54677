-------------------------------- MODULE Ping --------------------------------
(***************************************************************************)
(* The ICMP test of lib/ping.c: pingtest and wait_icmp_reply.              *)
(*                                                                         *)
(* A test opens a raw socket, sends one request more than it was told to   *)
(* and waits for the first echo reply of the address under the identifier  *)
(* of the process.  Every raw socket of the process gets every packet, so  *)
(* a test of one thread sees the replies to those of the others, and those *)
(* to its own earlier ones; the sequence number is not looked at.          *)
(*                                                                         *)
(* External: the network, which may lose and delay; hosts that answer or   *)
(* not; other packets that come in: of another address, of another type or *)
(* of another process.                                                     *)
(***************************************************************************)
EXTENDS Integers, Sequences, FiniteSets

CONSTANTS
  Tester,      \* threads
  Addr,        \* addresses that are tested
  NPacket,     \* the argument npacket
  Wait,        \* times that a test waits (tsec and usec), in ticks
  MaxTests,    \* bound: calls of pingtest
  MaxTicks,    \* bound: time
  MaxStray     \* bound: packets that are no reply to this process

ASSUME PingAssumption ==
  /\ Wait \subseteq Nat /\ NPacket \in Nat
  /\ MaxTests \in Nat /\ MaxTicks \in Nat /\ MaxStray \in Nat

VARIABLES
  tick,        \* the time
  test,        \* per thread: addr, when it began and gives up (t2), until when
               \* poll waits, the packets in its socket, and (history) those
               \* it took after its time; NoTest when it is not in pingtest
  flying,      \* per address, requests on their way
  tests, stray,
  reached,     \* history: when an address has last replied to this process
  verdict      \* history: the last test that waited, and its result

gvars == <<tick, test, flying, tests, stray, reached, verdict>>

NoTest == [addr |-> 0]
Packet(a, reply, own) == [addr |-> a, reply |-> reply, own |-> own]

GInit == /\ tick = 0 /\ test = [t \in Tester |-> NoTest] /\ flying = [a \in Addr |-> 0]
         /\ tests = 0 /\ stray = 0 /\ reached = [a \in Addr |-> -1]
         /\ verdict = [ok |-> FALSE, addr |-> 0, began |-> 0, t2 |-> 0,
                       ended |-> 0, late |-> 0]

-----------------------------------------------------------------------------
\* One request more than npacket is sent; some are lost at once.  (Without a socket, or when nothing
\* can be sent, the result is 0 and nothing waits.)
pingtest(t, a, w) ==
  /\ test[t] = NoTest /\ tests < MaxTests /\ tests' = tests + 1
  /\ test' = [test EXCEPT ![t] = [addr |-> a, began |-> tick, t2 |-> tick + w,
                                  until |-> tick + w, late |-> 0, inbox |-> <<>>]]
  /\ \E n \in 0..NPacket + 1 : flying' = [flying EXCEPT ![a] = @ + n]
  /\ UNCHANGED <<tick, stray, reached, verdict>>

Result(t, ok, late) ==
  /\ verdict' = [ok |-> ok, addr |-> test[t].addr, began |-> test[t].began,
                 t2 |-> test[t].t2, ended |-> tick, late |-> late]
  /\ test' = [test EXCEPT ![t] = NoTest]

\* The reply that is waited for.
IsReply_AnyAddress(t, p) == p.reply /\ p.own
IsReply_AnyProcess(t, p) == p.addr = test[t].addr /\ p.reply
IsReply_AnyType(t, p) == p.addr = test[t].addr /\ p.own
IsReply(t, p) == p.addr = test[t].addr /\ p.reply /\ p.own

\* After a packet that is another, or a signal: what is left of the time.
remain_Whole(t) == test[t].t2 - test[t].began
remain(t) == test[t].t2 - tick
WaitOn(t, inbox, late) ==
  \/ remain(t) <= 0 /\ Result(t, FALSE, late)
  \/ /\ remain(t) > 0 /\ UNCHANGED verdict
     /\ test' = [test EXCEPT ![t].inbox = inbox, ![t].late = late,
                             ![t].until = tick + remain(t)]

\* poll returns 1: a packet is read.
wait_icmp_reply(t) ==
  /\ test[t] # NoTest /\ test[t].inbox # <<>>
  /\ LET p == Head(test[t].inbox)
         late == test[t].late + (IF tick >= test[t].t2 THEN 1 ELSE 0)
     IN \/ IsReply(t, p) /\ Result(t, TRUE, late)
        \/ ~IsReply(t, p) /\ WaitOn(t, Tail(test[t].inbox), late)
  /\ UNCHANGED <<tick, flying, tests, stray, reached>>

\* poll returns 0, or -1.
TimeOut(t) == /\ test[t] # NoTest /\ test[t].inbox = <<>>
              /\ tick >= test[t].until /\ Result(t, FALSE, test[t].late)
              /\ UNCHANGED <<tick, flying, tests, stray, reached>>
Interrupted(t) == /\ test[t] # NoTest /\ tick > test[t].began
                  /\ WaitOn(t, test[t].inbox, test[t].late)
                  /\ UNCHANGED <<tick, flying, tests, stray, reached>>

-----------------------------------------------------------------------------
(* External: what comes in, into every socket that is open; and time. *)

Deliver(p) == test' = [t \in Tester |->
                IF test[t] = NoTest THEN NoTest
                ELSE [test[t] EXCEPT !.inbox = Append(@, p)]]

Reply(a) == /\ flying[a] > 0 /\ flying' = [flying EXCEPT ![a] = @ - 1]
            /\ Deliver(Packet(a, TRUE, TRUE))
            /\ reached' = [reached EXCEPT ![a] = tick]
            /\ UNCHANGED <<tick, tests, stray, verdict>>
Stray(a, reply) == /\ stray < MaxStray /\ stray' = stray + 1
                   /\ Deliver(Packet(a, reply, ~reply))
                   /\ UNCHANGED <<tick, flying, tests, reached, verdict>>
Passes == /\ tick < MaxTicks /\ tick' = tick + 1
        /\ UNCHANGED <<test, flying, tests, stray, reached, verdict>>

GNext == \/ \E t \in Tester : \/ \E a \in Addr, w \in Wait : pingtest(t, a, w)
                             \/ wait_icmp_reply(t) \/ TimeOut(t) \/ Interrupted(t)
         \/ \E a \in Addr : Reply(a) \/ \E reply \in BOOLEAN : Stray(a, reply)
         \/ Passes
GSpec == GInit /\ [][GNext]_gvars

-----------------------------------------------------------------------------
\* What is counted, and the times of a test.
GTypeOK == /\ tests \in 0..MaxTests /\ stray \in 0..MaxStray
           /\ tick \in 0..MaxTicks
           /\ \A t \in Tester : test[t] # NoTest => test[t].began <= tick

\* A test says yes only if the address has replied to this process since it
\* began, to whichever request; it says no only after its time; and packets
\* that are not for it do not hold it up: it takes one at most after its time.
\* (It may say no with its reply behind that packet.)
Verdict ==
  /\ verdict.ok => reached[verdict.addr] >= verdict.began
  /\ ~verdict.ok => verdict.ended >= verdict.t2
  /\ verdict.late <= 1

-----------------------------------------------------------------------------
(* The inductive invariant. *)

\* A test ends with the first packet after its time, so a test that goes on
\* has taken none; poll waits until the time is over, however often it is
\* interrupted; and a reply in a socket came in when the socket was open.
Packets == [addr : Addr, reply : BOOLEAN, own : BOOLEAN]
Tests == [addr : Addr, began : Nat, t2 : Nat, until : Nat, late : {0},
          inbox : Seq(Packets)]
Waiting(t) == LET w == test[t] IN
  /\ w \in Tests /\ w.until = w.t2 /\ w.began <= tick
  /\ \A i \in DOMAIN w.inbox : LET p == w.inbox[i] IN
       p.reply /\ p.own => reached[p.addr] >= w.began
GInv == /\ GTypeOK /\ Verdict /\ verdict.began \in Nat
        /\ verdict.ok => verdict.addr \in Addr
        /\ test \in [Tester -> Tests \cup {NoTest}]
        /\ reached \in [Addr -> -1..tick] /\ flying \in [Addr -> Nat]
        /\ \A t \in Tester : test[t] # NoTest => Waiting(t)
=============================================================================

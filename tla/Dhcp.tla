-------------------------------- MODULE Dhcp --------------------------------
(***************************************************************************)
(* DHCP: lib/dhcp.c, a table of the client's states and the functions that *)
(* build messages and read and write their options.                        *)
(*                                                                         *)
(* The options of a message are octets: code, length, data, ..., 255.  A   *)
(* number of four octets is one item here, <<n, 0, 0, 0>>, and the fixed   *)
(* header is a record.                                                     *)
(*                                                                         *)
(* External: the program around the table, which feeds it what it receives *)
(* and its timers, and does what the table says; the timers, of which two  *)
(* that are due together fire in either order; the server, which answers   *)
(* or not; the network, which loses, delays and repeats.                   *)
(***************************************************************************)
EXTENDS Integers, Sequences, SequencesExt, FiniteSets

CONSTANTS
  Lease,        \* the lease times a server may give
  Server,       \* the servers, numbers
  HostName, DomainName,   \* octets
  MaxNet        \* bound: messages that are on their way to the client

VARIABLES
  st,           \* the client's state
  up,           \* the interface has its address (DHCP_LEASE to DHCP_DOWN)
  life,         \* the times of the last ACK: t1, t2, lease
  age,          \* seconds since that ACK
  due,          \* timers that have expired and not yet been handled
  net,          \* messages of servers that may still arrive
  wire          \* the message that was built last

dvars == <<st, up, life, age, due, net, wire>>

-----------------------------------------------------------------------------
\* Options.

End == 255
Pad == 0
subnetMask == 1
routersOnSubnet == 3
dnsServer == 6
hostName == 12
domainName == 15
dhcpRequestedIPaddr == 50
dhcpIPaddrLeaseTime == 51
dhcpMessageType == 53
dhcpServerIdentifier == 54
dhcpT1value == 58
dhcpT2value == 59
dhcpClientIdentifier == 61

Four(n) == <<n, 0, 0, 0>>

\* end_opt: the place of the end mark.  Options are never padded by the
\* functions below; on padding the code would not end.
end_opt(op) ==
  LET From[i \in 1..Len(op)] ==
        IF op[i] = End THEN i ELSE From[i + 2 + op[i + 1]]
  IN From[1]

add_dhcp_opt(op, code, data) ==
  SubSeq(op, 1, end_opt(op) - 1) \o <<code, Len(data)>> \o data \o <<End>>

\* The place of the data of an option, or 0; padding is skipped.
Find(op, code) ==
  LET From[i \in Nat] ==
        IF i > Len(op) \/ op[i] = End THEN 0
        ELSE IF op[i] = Pad THEN From[i + 1]
        ELSE IF op[i] = code THEN i + 2
        ELSE From[i + 2 + op[i + 1]]
  IN From[1]
get_dhcp_opt(op, code) ==
  LET i == Find(op, code) IN
  IF i = 0 THEN <<>> ELSE SubSeq(op, i, i + op[i - 1] - 1)
get_dhcp_msgtype(op) ==
  LET t == get_dhcp_opt(op, dhcpMessageType) IN IF t = <<>> THEN -1 ELSE t[1]
set_dhcp_opt_AtCode(op, code, data) ==
  LET i == Find(op, code) - 2 IN
  IF i < 0 THEN op
  ELSE [k \in DOMAIN op |->
          IF k \in i..(i + Len(data) - 1) THEN data[k - i + 1] ELSE op[k]]
set_dhcp_opt(op, code, data) ==
  LET i == Find(op, code) IN
  IF i = 0 THEN op
  ELSE [k \in DOMAIN op |->
          IF k \in i..(i + Len(data) - 1) THEN data[k - i + 1] ELSE op[k]]

-----------------------------------------------------------------------------
\* The builders.  opts lists the options; len counts what the code counts: two
\* octets and the data for each, but no such two for the domain name.

\* A message: its options, as octets as well, the octets of them that are
\* sent, and what a relay changes.
Message(type, opts, uncounted) ==
  LET all == <<<<dhcpMessageType, <<type>>>>>> \o opts
      op  == FoldLeft(LAMBDA o, x : add_dhcp_opt(o, x[1], x[2]), <<End>>, all)
      n   == FoldLeft(LAMBDA k, x : k + Len(x[2]) + 2, 0, all)
  IN [opts |-> all, op |-> op, len |-> n + 1 - uncounted, giaddr |-> 0, hops |-> 0]

dhcp_discover_build(client) ==
  Message(1, <<<<dhcpClientIdentifier, HostName>>,
               <<dhcpRequestedIPaddr, Four(client)>>, <<hostName, HostName>>>>, 0)

\* What an OFFER and an ACK share.
T1(lease) == lease \div 2
T2(lease) == (lease * 7) \div 8
Grant(server, lease) ==
  <<<<dhcpServerIdentifier, Four(server)>>, <<subnetMask, Four(255)>>,
    <<routersOnSubnet, Four(server)>>, <<dnsServer, Four(server)>>,
    <<dhcpIPaddrLeaseTime, Four(lease)>>, <<dhcpT1value, Four(T1(lease))>>,
    <<dhcpT2value, Four(T2(lease))>>, <<domainName, DomainName>>>>
dhcp_offer_build(server, lease) == Message(2, Grant(server, lease), 2)
dhcp_ack_build(server, lease)   == Message(5, Grant(server, lease), 2)

dhcp_req_build(client, leasetime) ==
  Message(3, <<<<dhcpClientIdentifier, HostName>>,
               <<dhcpRequestedIPaddr, Four(client)>>>>
             \o (IF leasetime = 0 THEN <<>>
                 ELSE <<<<dhcpIPaddrLeaseTime, Four(leasetime)>>>>)
             \o <<<<hostName, HostName>>>>, 0)
dhcp_nak_build(server) == Message(6, <<<<dhcpServerIdentifier, Four(server)>>>>, 0)
dhcp_release_build(relay, server) ==
  [Message(7, <<<<dhcpServerIdentifier, Four(server)>>>>, 0)
     EXCEPT !.giaddr = relay, !.hops = 1]

\* A relay fills its address in and puts a server's in place of the one named.
dhcp_relay_build(m, relay, server) ==
  [m EXCEPT !.giaddr = relay, !.hops = @ + 1,
            !.op = set_dhcp_opt(@, dhcpServerIdentifier, Four(server)),
            !.opts = [i \in DOMAIN m.opts |->
                        IF m.opts[i][1] = dhcpServerIdentifier
                        THEN <<dhcpServerIdentifier, Four(server)>> ELSE m.opts[i]]]

-----------------------------------------------------------------------------
\* The client.

Row(prev, event, act, next) ==
  [prev |-> prev, event |-> event, act |-> act, next |-> next]
dhcpfsm ==
  << Row("INIT",       "UP",    "DISCOVER", "SELECTING"),
     Row("SELECTING",  "OFFER", "REQUEST",  "REQUESTING"),
     Row("REQUESTING", "OFFER", "NOP",      "REQUESTING"),
     Row("REQUESTING", "ACK",   "LEASE",    "BOUND"),
     Row("BOUND",      "OFFER", "NOP",      "BOUND"),
     Row("BOUND",      "ACK",   "NOP",      "BOUND"),
     Row("BOUND",      "NAK",   "NOP",      "BOUND"),
     Row("BOUND",      "T1",    "REQUEST",  "RENEWING"),
     Row("RENEWING",   "ACK",   "LEASE",    "BOUND"),
     Row("RENEWING",   "NAK",   "DOWN",     "INIT"),
     Row("RENEWING",   "T2",    "REQUEST",  "REBINDING"),
     Row("REBINDING",  "ACK",   "LEASE",    "BOUND"),
     Row("REBINDING",  "NAK",   "DOWN",     "INIT"),
     Row("REBINDING",  "TMO",   "DOWN",     "INIT") >>

\* The row found first, or 0.
get_dhcp_cli_fsm_Short(prev, event) ==
  SelectInSeq(Front(dhcpfsm), LAMBDA r : r.prev = prev /\ r.event = event)
get_dhcp_cli_fsm(prev, event) ==
  SelectInSeq(dhcpfsm, LAMBDA r : r.prev = prev /\ r.event = event)

NoLife == [t1 |-> 0, t2 |-> 0, lease |-> 0]
DInit == /\ st = "INIT" /\ up = FALSE /\ life = NoLife /\ age = 0 /\ due = {}
         /\ net = {} /\ wire = dhcp_nak_build(0)

\* An event, with the options it brought, that leaves the timers in rest to
\* be handled: the table is asked, and what it says is done.
Number(op, code) == get_dhcp_opt(op, code)[1]
Does(act, op, rest) ==
  /\ up' = CASE act = "LEASE" -> TRUE [] act = "DOWN" -> FALSE [] OTHER -> up
  /\ IF act = "LEASE"
     THEN age' = 0 /\ life' = [t1 |-> Number(op, dhcpT1value),
                               t2 |-> Number(op, dhcpT2value),
                               lease |-> Number(op, dhcpIPaddrLeaseTime)]
     ELSE UNCHANGED <<life, age>>
  /\ due' = IF act \in {"LEASE", "DOWN"} THEN {} ELSE rest
  /\ wire' = CASE act = "DISCOVER" -> dhcp_discover_build(9)
               [] act = "REQUEST"  -> dhcp_req_build(9, life.lease)
               [] OTHER            -> wire
Handle(event, op, rest) ==
  LET i == get_dhcp_cli_fsm(st, event) IN
  IF i = 0 THEN due' = rest /\ UNCHANGED <<st, up, life, age, wire>>
  ELSE st' = dhcpfsm[i].next /\ Does(dhcpfsm[i].act, op, rest)

Start == st = "INIT" /\ Handle("UP", <<>>, due) /\ UNCHANGED net

\* What arrives is what was sent, len octets.
Octets(m) == SubSeq(m.op, 1, m.len)
Event(op) == CASE get_dhcp_msgtype(op) = 2 -> "OFFER" [] get_dhcp_msgtype(op) = 5 -> "ACK"
               [] get_dhcp_msgtype(op) = 6 -> "NAK"   [] OTHER -> "none"
Receive(m) == /\ m \in net /\ Handle(Event(Octets(m)), Octets(m), due)
              /\ UNCHANGED net \/ net' = net \ {m}

Timer(e) == e \in due /\ Handle(e, <<>>, due \ {e}) /\ UNCHANGED net

\* A second passes, when what is due has been handled.
Second == /\ up /\ due = {} /\ age <= life.lease /\ age' = age + 1
          /\ due' = {e \in {"T1", "T2", "TMO"} :
                       age' = CASE e = "T1" -> life.t1 [] e = "T2" -> life.t2
                                [] OTHER -> life.lease}
          /\ UNCHANGED <<st, up, life, net, wire>>

\* A server answers the message that was sent last, which may have come
\* through a relay; and the program may release an address.
Answer(s, l) ==
  /\ LET t == get_dhcp_msgtype(Octets(wire)) IN
     wire' \in CASE t = 1 -> {dhcp_offer_build(s, l)}
                 [] t = 3 -> {dhcp_ack_build(s, l), dhcp_nak_build(s)}
                 [] OTHER -> {}
  /\ net' = net \cup {wire'} /\ Cardinality(net') <= MaxNet
  /\ UNCHANGED <<st, up, life, age, due>>
Relay(s) == /\ get_dhcp_msgtype(Octets(wire)) \in {1, 3, 7} /\ wire.hops < 2
            /\ wire' = dhcp_relay_build(wire, 8, s)
            /\ UNCHANGED <<st, up, life, age, due, net>>
Release(s) == /\ up /\ wire' = dhcp_release_build(8, s)
              /\ UNCHANGED <<st, up, life, age, due, net>>

\* The table has no timer while the client has no lease, and no row for a NAK
\* before: it waits for an answer that may be lost for good.
Waits == st \in {"SELECTING", "REQUESTING"} /\ UNCHANGED dvars

DNext == \/ Start \/ Waits \/ Second \/ \E m \in net : Receive(m)
         \/ \E e \in due : Timer(e)
         \/ \E s \in Server : Relay(s) \/ Release(s) \/ \E l \in Lease : Answer(s, l)
DSpec == DInit /\ [][DNext]_dvars

-----------------------------------------------------------------------------
\* The table leads to states that it has rows for.
DTypeOK == /\ st \in {dhcpfsm[i].prev : i \in DOMAIN dhcpfsm} /\ up \in BOOLEAN
           /\ due \subseteq {"T1", "T2", "TMO"} /\ Cardinality(net) <= MaxNet

\* The interface has its address in the three states of a lease and in no
\* other, whatever arrives in whatever order; and never for longer than the
\* lease, if that is of three seconds or more.  (T1 and T2 of a shorter one
\* are the same, and a T2 that is handled first is dropped: the client then
\* stays in RENEWING, where the end of the lease is no event.)
LeaseInTime ==
  /\ up <=> st \in {"BOUND", "RENEWING", "REBINDING"}
  /\ up /\ life.lease >= 3 => age <= life.lease

\* Every option that a builder or a relay has put into a message is read back
\* from the octets that are sent, and the end mark is among them: but an OFFER
\* and an ACK are cut two octets before, within the domain name.
OptionsRead ==
  LET op == Octets(wire)
      type == get_dhcp_msgtype(op) IN
  /\ \A i \in DOMAIN wire.opts :
       \/ wire.opts[i][1] = domainName
       \/ get_dhcp_opt(op, wire.opts[i][1]) = wire.opts[i][2]
  /\ Len(op) = Len(wire.op) - (IF type \in {2, 5} THEN 2 ELSE 0)
=============================================================================

--------------------------------- MODULE Ntp ---------------------------------
(***************************************************************************)
(* The NTP client and server of lib/ntp.c.                                 *)
(*                                                                         *)
(* Both send sizeof(ntph_t) octets of a message of sizeof(ntp_t): it ends  *)
(* behind the originate time stamp and has no transmit time stamp.  The    *)
(* server answers whole messages only, so not those of this client.  The   *)
(* client sets its clock by the first datagram; behind the end of one that *)
(* is cut its buffer holds what the stack held.                            *)
(*                                                                         *)
(* The server keeps a table of clients: the reference time that it tells   *)
(* one is that of an earlier request of the same client, for as many       *)
(* answers as the poll field of that request says.  An entry that leaves   *)
(* the table is never freed; without memory for a new one the thread reads *)
(* through NULL.                                                           *)
(*                                                                         *)
(* External: the network, which loses, repeats, delays and reorders what   *)
(* is sent; the hosts that send whole requests; another server.            *)
(***************************************************************************)
EXTENDS Integers, Sequences

CONSTANTS
  Host,        \* hosts that ask the server
  Us,          \* this library's client, as the server sees it
  Poll,        \* the poll fields of requests
  Unset,       \* what the stack holds behind a datagram
  MaxServed,   \* bound: requests that the server handles, of each host
  MaxSyncs,    \* bound: calls of syncntp
  MaxHour      \* bound: time

ASSUME NtpAssumption ==
  /\ Us \notin Host /\ Poll \subseteq Nat /\ Unset \notin Nat
  /\ MaxServed \in Nat /\ MaxSyncs \in Nat /\ MaxHour \in Nat

VARIABLES
  ntptab,      \* the server's clients: addr, poll, ref (the fields sec and fix)
  dead,        \* the server's thread has read through NULL
  hour,        \* the time
  ours,        \* what the client has set its clock to
  syncing,     \* syncntp: its socket and when it sent the requests; or NotSyncing
  syncs,       \* calls of syncntp
  requests,    \* on the network: addr, port, whole, poll
  told,        \* answers on the network: addr, port, xmt, ref, nth
  served,      \* history: per host, the requests that were handled: at, poll
  since        \* history: when the call of syncntp that set the clock began

nvars == <<ntptab, dead, hour, ours, syncing, syncs, requests, told, served,
           since>>

NTP_MINPOLL == 4
NotSyncing == [port |-> 0, at |-> 0]
sndntp(port) == [addr |-> Us, port |-> port, whole |-> FALSE, poll |-> NTP_MINPOLL]
\* A host that keeps to the length of a message.
Whole(h, p) == [addr |-> h, port |-> 1, whole |-> TRUE, poll |-> p]

NInit == /\ ntptab = {} /\ dead = FALSE /\ hour = 0 /\ ours = 0 /\ since = 0
         /\ syncing = NotSyncing /\ syncs = 0 /\ requests = {} /\ told = {}
         /\ served = [h \in Host \cup {Us} |-> <<>>]

-----------------------------------------------------------------------------
(* The server. *)

ntpfind(addr) == {p \in ntptab : p.addr = addr}
ntpadd(m) == [addr |-> m.addr, poll |-> m.poll, ref |-> hour]

\* An entry that answers once more; at 0 it leaves the table.
Counted_Late(p) == {q \in {[p EXCEPT !.poll = @ - 1]} : q.poll # -1}
Counted(p) == {q \in {[p EXCEPT !.poll = @ - 1]} : q.poll # 0}

\* nbyte>=sizeof(ntp_t)
Enough_AsSent(m) == TRUE
Enough(m) == m.whole

\* The message is sent back, as far as it is sent: what follows the originate
\* time stamp is what the receiver's buffer holds.
AnswerTo(m, ref) ==
  /\ told' = told \cup {[addr |-> m.addr, port |-> m.port, xmt |-> Unset,
                         ref |-> ref, nth |-> Len(served[m.addr]) + 1]}
  /\ served' = [served EXCEPT ![m.addr] =
                  Append(@, [at |-> hour, poll |-> m.poll])]

\* One request.  The entry tells its time also when it has just left the table.
ntpstask(m) ==
  /\ ~dead /\ Enough(m) /\ Len(served[m.addr]) < MaxServed
  /\ \/ \E p \in ntpfind(m.addr) :
          /\ ntptab' = (ntptab \ {p}) \cup Counted(p)
          /\ AnswerTo(m, p.ref) /\ UNCHANGED dead
     \/ /\ ntpfind(m.addr) = {}
        /\ \/ /\ ntptab' = ntptab \cup {ntpadd(m)}
              /\ AnswerTo(m, hour) /\ UNCHANGED dead
           \/ dead' = TRUE /\ UNCHANGED <<ntptab, told, served>>  \* malloc
  /\ UNCHANGED <<hour, ours, syncing, syncs, requests, since>>

-----------------------------------------------------------------------------
(* The client. *)

\* udpsock(0): a port of its own for every call.
Port_Fixed(n) == 1
Port(n) == n

\* The four requests go to the library's server or to another.
syncntp == /\ syncing = NotSyncing /\ syncs < MaxSyncs /\ syncs' = syncs + 1
           /\ syncing' = [port |-> Port(syncs + 1), at |-> hour]
           /\ requests' \in {requests, requests \cup {sndntp(Port(syncs + 1))}}
           /\ UNCHANGED <<ntptab, dead, hour, ours, told, served, since>>

\* settimeofday, whoever has sent the datagram.
SetClock(d) == /\ syncing # NotSyncing /\ d.addr = Us /\ d.port = syncing.port
               /\ ours' = d.xmt /\ since' = syncing.at /\ syncing' = NotSyncing
               /\ UNCHANGED <<ntptab, dead, hour, syncs, requests, told, served>>

\* select has waited for a second.
GiveUp == /\ syncing # NotSyncing /\ syncing' = NotSyncing
          /\ UNCHANGED <<ntptab, dead, hour, ours, syncs, requests, told, served,
                         since>>

-----------------------------------------------------------------------------
(* External: the other side, and time. *)

\* Another server answers the client's requests, with a whole message.
OtherServer == /\ syncing # NotSyncing
               /\ told' = told \cup {[addr |-> Us, port |-> syncing.port,
                                      xmt |-> hour, ref |-> hour, nth |-> 0]}
               /\ UNCHANGED <<ntptab, dead, hour, ours, syncing, syncs, requests,
                              served, since>>
AskTime(h, p) == /\ requests' = requests \cup {Whole(h, p)}
                 /\ UNCHANGED <<ntptab, dead, hour, ours, syncing, syncs, told,
                                served, since>>
Hour == /\ hour < MaxHour /\ hour' = hour + 1
        /\ UNCHANGED <<ntptab, dead, ours, syncing, syncs, requests, told, served,
                       since>>

NNext == \/ \E m \in requests : ntpstask(m)
         \/ \E d \in told : SetClock(d)
         \/ syncntp \/ GiveUp \/ OtherServer \/ Hour
         \/ \E h \in Host, p \in Poll : AskTime(h, p)
NSpec == NInit /\ [][NNext]_nvars

-----------------------------------------------------------------------------
\* A host has one entry in the table.
NTypeOK == /\ hour \in 0..MaxHour /\ syncs \in 0..MaxSyncs /\ dead \in BOOLEAN
           /\ \A p, q \in ntptab : p.addr = q.addr => p = q

\* The clock is never set to what the stack held, nor to a time of before the
\* call: no answer that is cut and no late one to an earlier call is taken.
\* (It is the server's test of the length that keeps its own cut answers from
\* this client, at the price that it never answers it.)
ClockTrue == ours # Unset /\ ours >= since

\* The reference time in an answer is that of a request of the same host, and
\* no more answers ago than the poll field of that request said; but one that
\* said 0 has its time told until the field has wrapped.
ReferenceRecent == \A d \in told : d.nth > 0 =>
  \E i \in 1..d.nth : LET r == served[d.addr][i] IN
     /\ r.at = d.ref
     /\ r.poll > 0 => d.nth - i <= r.poll

-----------------------------------------------------------------------------
(* The inductive invariant. *)

\* The client's socket is that of its last call.
ClientAt == /\ syncing \in [port : Nat, at : 0..hour] /\ since \in Nat /\ ours \in Nat
            /\ syncing # NotSyncing => syncing.port = syncs /\ syncs > 0

\* Nobody but the library's client sends what is cut.
Senders == /\ \A m \in requests : m.whole => m.addr \in Host /\ m.poll \in Nat
           /\ served \in [Host \cup {Us} -> Seq([at : Nat, poll : Nat])]

\* What is under way to the client is no cut answer; in the socket that is open
\* it is no older than the call.
OnTheWay == \A d \in told : d.addr = Us =>
  /\ d.nth = 0 /\ d.port \in 0..syncs /\ d.xmt \in 0..hour
  /\ syncing # NotSyncing /\ d.port = syncing.port => d.xmt >= syncing.at

\* What an answer or an entry of the table tells is of an earlier request; an
\* entry has been counted down since, if it was for more than no time.
IsOf(h, n, ref, i) == i \in 1..n /\ n <= Len(served[h]) /\ served[h][i].at = ref
OfRequest(d) == d.addr \in Host /\ \E i \in 1..d.nth :
  /\ IsOf(d.addr, d.nth, d.ref, i)
  /\ served[d.addr][i].poll > 0 => d.nth - i <= served[d.addr][i].poll
Answered == \A d \in told : d.nth \in Nat /\ (d.nth > 0 => OfRequest(d))

Entered(p) == p \in [addr : Host, poll : Int, ref : Nat] /\ \E i \in 1..Len(served[p.addr]) :
  /\ IsOf(p.addr, Len(served[p.addr]), p.ref, i)
  /\ served[p.addr][i].poll > 0 =>
       p.poll > 0 /\ p.poll + Len(served[p.addr]) - i = served[p.addr][i].poll
Remembered == \A p \in ntptab : Entered(p)

NInv == NTypeOK /\ ClockTrue /\ ClientAt /\ Senders /\ OnTheWay /\ Answered /\ Remembered
=============================================================================

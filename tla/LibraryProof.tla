---------------------------- MODULE LibraryProof ----------------------------
(***************************************************************************)
(* Proofs about parts of the library that do not touch one another.        *)
(*                                                                         *)
(* What it leaves in the kernel: Sockets and IfConf, for every set of      *)
(* threads and any number of descriptors, devices and calls.  What it      *)
(* believes of the network: Probes, for every set of hosts, threads and    *)
(* addresses, all poll fields and times to wait, and any number of calls   *)
(* and packets; and Radius, for every secret and all attributes.  And      *)
(* Seed, for every key and block.                                          *)
(***************************************************************************)
EXTENDS IfConf, Sockets, Probes, Radius, Seed,
        FiniteSetTheorems, SequenceTheorems, WellFoundedInduction, TLAPS

-----------------------------------------------------------------------------
(* The functions and their steps.                                          *)

(* getproto comes before socket, and what is behind socket has a state of  *)
(* its own; only icmpsock ends with socket; what does not close the socket *)
(* is in sockv6.c or sendnwait.                                            *)
StepsOf(f, s) ==
  /\ Len(s) \in 1..6 /\ SocketAt(f) \in 1..2 /\ SocketAt(f) <= Len(s)
  /\ \A i \in 1..Len(s) :
       /\ s[i] = "getproto" <=> i = 1 /\ SocketAt(f) = 2
       /\ s[i] = "socket" <=> i = SocketAt(f)
       /\ s[i] \in DOMAIN AfterCall <=> i > SocketAt(f)
       /\ i = Len(s) /\ i = SocketAt(f) => f = "icmpsock"
       /\ i = Len(s) /\ i > SocketAt(f) => AfterCall[s[i]] # "new"
       /\ (i > SocketAt(f) /\ s[i] \notin Closes(f))
            => f \in {"v6_tcp_listen", "v6_tcp_connect", "sendnwait"}

LEMMA Sendnwait ==
  sendnwait = <<"getproto", "socket", "bind", "sendto", "ready", "recv">>
  <1> DEFINE S == {"getproto", "socket", "bind", "sendto", "ready", "recv"}
             a == <<"getproto", "socket", "bind">>
             b == <<"sendto", "ready", "recv">>
             c == <<"getproto", "socket", "bind", "sendto", "ready", "recv">>
  <1>1. a \in Seq(S)
    OBVIOUS
  <1>2. b \in Seq(S)
    OBVIOUS
  <1>3. c \in Seq(S)
    OBVIOUS
  <1>4. Len(a) = 3 /\ Len(b) = 3 /\ Len(c) = 6
    OBVIOUS
  <1>5. \A i \in 1..6 : c[i] = IF i <= 3 THEN a[i] ELSE b[i - 3]
    OBVIOUS
  <1>6. a \o b = c
    <2> HIDE DEF S, a, b, c
    <2>1. /\ a \o b \in Seq(S) /\ Len(a \o b) = Len(a) + Len(b)
          /\ \A i \in 1..(Len(a) + Len(b)) :
               (a \o b)[i] = IF i <= Len(a) THEN a[i] ELSE b[i - Len(a)]
      BY <1>1, <1>2, ConcatProperties, Zenon
    <2> QED
      BY <1>3, <1>4, <1>5, <2>1, SeqEqual
  <1> QED
    BY <1>6 DEF sendnwait, udpsock

LEMMA StepTable ==
  ASSUME NEW f \in Function PROVE StepsOf(f, Steps[f])
  <1>0. Function = {"icmpsock", "tcp_listen", "tcp_connect", "udpsock", "udpbsock",
                    "udpaddrsock", "v6_tcp_listen", "v6_tcp_connect", "sendnwait"}
    BY DEF Function, Steps
  <1>1. CASE f = "icmpsock"
    BY <1>1 DEF StepsOf, Steps, icmpsock, SocketAt, AfterCall, Closes
  <1>2. CASE f = "tcp_listen"
    BY <1>2 DEF StepsOf, Steps, tcp_listen, SocketAt, AfterCall, Closes
  <1>3. CASE f = "tcp_connect"
    BY <1>3 DEF StepsOf, Steps, tcp_connect, SocketAt, AfterCall, Closes
  <1>4. CASE f = "udpsock"
    BY <1>4 DEF StepsOf, Steps, udpsock, SocketAt, AfterCall, Closes
  <1>5. CASE f = "udpbsock"
    BY <1>5 DEF StepsOf, Steps, udpbsock, SocketAt, AfterCall, Closes
  <1>6. CASE f = "udpaddrsock"
    BY <1>6 DEF StepsOf, Steps, udpaddrsock, SocketAt, AfterCall, Closes
  <1>7. CASE f = "v6_tcp_listen"
    BY <1>7 DEF StepsOf, Steps, v6_tcp_listen, SocketAt, AfterCall, Closes
  <1>8. CASE f = "v6_tcp_connect"
    BY <1>8 DEF StepsOf, Steps, v6_tcp_connect, SocketAt, AfterCall, Closes
  <1>9. CASE f = "sendnwait"
    BY <1>9, Sendnwait DEF StepsOf, Steps, SocketAt, AfterCall, Closes
  <1> QED
    BY <1>0, <1>1, <1>2, <1>3, <1>4, <1>5, <1>6, <1>7, <1>8, <1>9

(* The same of a call that is at one of its steps.                         *)
AtStep(c) ==
  /\ c.f \in Function /\ c.at \in 1..6 /\ SocketAt(c.f) \in 1..2
  /\ c # Free /\ c.fd \in 0..MaxOpen
  /\ Steps[c.f][c.at] = "getproto" <=> c.at = 1 /\ SocketAt(c.f) = 2
  /\ Steps[c.f][c.at] = "socket" <=> c.at = SocketAt(c.f)
  /\ Steps[c.f][c.at] \in DOMAIN AfterCall <=> c.at > SocketAt(c.f)
  /\ c.at = Len(Steps[c.f]) /\ c.at = SocketAt(c.f) => c.f = "icmpsock"
  /\ c.at = Len(Steps[c.f]) => c.at >= SocketAt(c.f)
  /\ c.at = Len(Steps[c.f]) /\ c.at > SocketAt(c.f)
       => AfterCall[Steps[c.f][c.at]] # "new"
  /\ c.at > SocketAt(c.f) => AfterCall[Steps[c.f][c.at]] \in State
  /\ (c.at > SocketAt(c.f) /\ Steps[c.f][c.at] \notin Closes(c.f))
       => c.f \in {"v6_tcp_listen", "v6_tcp_connect", "sendnwait"}
  /\ c.at # Len(Steps[c.f]) => c.at + 1 \in 1..Len(Steps[c.f]) /\ c.at + 1 \in 1..6

LEMMA CallAtStep ==
  ASSUME NEW c \in Calls, c.at \in 1..Len(Steps[c.f]) PROVE AtStep(c)
  <1>1. c.f \in Function /\ c.at \in 1..6 /\ c.fd \in 0..MaxOpen
    BY DEF Calls
  <1>2. StepsOf(c.f, Steps[c.f])
    BY <1>1, StepTable
  <1>3. c # Free
    <2>1. "none" \notin Function
      BY DEF Function, Steps
    <2> QED
      BY <1>1, <2>1 DEF Free
  <1>4. \A s \in DOMAIN AfterCall : AfterCall[s] \in State
    BY DEF AfterCall, State
  <1> DEFINE s == Steps[c.f]
             i == c.at
             k == SocketAt(c.f)
  <1>5. /\ i \in 1..Len(s) /\ Len(s) \in 1..6 /\ k \in 1..2 /\ k <= Len(s)
        /\ s[i] = "getproto" <=> i = 1 /\ k = 2
        /\ s[i] = "socket" <=> i = k
        /\ s[i] \in DOMAIN AfterCall <=> i > k
        /\ i = Len(s) /\ i = k => c.f = "icmpsock"
        /\ i = Len(s) /\ i > k => AfterCall[s[i]] # "new"
        /\ (i > k /\ s[i] \notin Closes(c.f))
             => c.f \in {"v6_tcp_listen", "v6_tcp_connect", "sendnwait"}
    BY <1>2, Zenon DEF StepsOf
  <1>6. /\ i = Len(s) => i >= k
        /\ i # Len(s) => i + 1 \in 1..Len(s) /\ i + 1 \in 1..6
    <2> DEFINE n == Len(s)
    <2>1. i \in 1..n /\ n \in 1..6 /\ k \in 1..2 /\ k <= n
      BY <1>5, Zenon
    <2> HIDE DEF s, i, k, n
    <2>2. /\ i = n => i >= k
          /\ i # n => i + 1 \in 1..n /\ i + 1 \in 1..6
      BY <2>1
    <2> QED
      BY <2>2, Zenon DEF n
  <1>7. i > k => AfterCall[s[i]] \in State
    BY <1>4, <1>5, Zenon
  <1> QED
    BY <1>1, <1>3, <1>5, <1>6, <1>7, Zenon DEF AtStep

LEMMA KInitInv == KInit => KInv
  <1> SUFFICES ASSUME KInit PROVE KInv
    OBVIOUS
  <1>1. \A t \in Client : use[t] = Free
    BY DEF KInit
  <1>2. KTypeOK /\ Opened /\ Overheard
    BY SocketAssumption DEF KInit, KTypeOK, Opened, Overheard
  <1>3. InCall
    BY <1>1 DEF KInit, InCall
  <1>4. OwnFd
    BY <1>1 DEF OwnFd, Free
  <1>5. Looked
    BY <1>1 DEF Looked, CallStep
  <1> QED
    BY <1>2, <1>3, <1>4, <1>5 DEF KInv

-----------------------------------------------------------------------------
(* The steps.                                                              *)

(* What the invariant says of a thread that is in a call.                  *)
LEMMA InCallAtStep ==
  ASSUME KInv, NEW t \in Client, use[t] # Free
  PROVE  use[t] \in Calls /\ AtStep(use[t])
  <1>1. use[t] \in Calls /\ use[t].at \in 1..Len(Steps[use[t].f])
    BY DEF KInv, InCall
  <1> QED
    BY <1>1, CallAtStep

LEMMA FreeHasNoFd ==
  ASSUME KInv, NEW t \in Client, use[t].fd # NoFd
  PROVE  /\ use[t] # Free /\ use[t].fd \in Fd
         /\ use[t].at > SocketAt(use[t].f)
  BY SocketAssumption DEF KInv, InCall, Free, NoFd, Fd, Calls

LEMMA EnterInv ==
  ASSUME KInv, NEW t \in Client, NEW f \in Function, Enter(t, f) PROVE KInv'
  <1> USE DEF Enter
  <1>1. use' \in [Client -> Calls \cup {Free}]
    BY SocketAssumption DEF KInv, InCall, Calls, NoFd
  <1>2. use'[t] = [f |-> f, at |-> 1, fd |-> NoFd] /\ use'[t] \in Calls
    BY SocketAssumption DEF KInv, InCall, Calls, NoFd
  <1>3. \A u \in Client \ {t} : use'[u] = use[u]
    BY DEF KInv, InCall
  <1>4. SocketAt(f) \in 1..2 /\ 1 \in 1..Len(Steps[f])
    BY StepTable DEF StepsOf
  <1>5. InCall'
    BY <1>1, <1>2, <1>3, <1>4 DEF KInv, InCall
  <1>6. OwnFd'
    BY <1>2, <1>3 DEF KInv, OwnFd
  <1>7. Opened'
    BY <1>2, <1>3 DEF KInv, Opened, Free, NoFd, Fd
  <1>8. Looked'
    BY <1>2, <1>3 DEF KInv, Looked, CallStep, KStep
  <1>9. KTypeOK' /\ Overheard'
    BY SocketAssumption DEF KInv, KTypeOK, Overheard
  <1> QED
    BY <1>5, <1>6, <1>7, <1>8, <1>9 DEF KInv

LEMMA CloseHeldInv ==
  ASSUME KInv, NEW fd \in Fd, CloseHeld(fd) PROVE KInv'
  <1> USE DEF CloseHeld, Drop
  <1>1. DOMAIN sock' = DOMAIN sock \ {fd} /\ \A d \in DOMAIN sock' : sock'[d] = sock[d]
    OBVIOUS
  <1>2. InCall' /\ Looked'
    BY DEF KInv, InCall, Looked, CallStep, KStep
  <1>3. OwnFd'
    BY <1>1 DEF KInv, OwnFd
  <1>4. Opened'
    BY <1>1 DEF KInv, Opened
  <1>5. KTypeOK' /\ Overheard'
    BY <1>1 DEF KInv, KTypeOK, Overheard, Opened
  <1> QED
    BY <1>2, <1>3, <1>4, <1>5 DEF KInv

LEMMA FailInv ==
  ASSUME KInv, NEW t \in Client, Fail(t) PROVE KInv'
  <1> USE DEF Fail, Drop
  <1>1. use'[t] = Free /\ use' \in [Client -> Calls \cup {Free}]
    BY DEF KInv, InCall
  <1>2. \A u \in Client \ {t} : use'[u] = use[u]
    BY DEF KInv, InCall
  <1>3. InCall'
    BY <1>1, <1>2 DEF KInv, InCall
  <1>4. Looked'
    BY <1>1, <1>2 DEF KInv, Looked, CallStep, KStep
  <1>5. AtStep(use[t])
    BY InCallAtStep
  <1>6. CASE use[t].fd = NoFd \/ KStep(t) \in Closes(use[t].f)
    <2>1. /\ DOMAIN sock' = DOMAIN sock \ {use[t].fd} /\ left' = left /\ held' = held
          /\ \A d \in DOMAIN sock' : sock'[d] = sock[d]
      BY <1>6
    <2>2. OwnFd'
      BY <1>1, <1>2, <2>1 DEF KInv, OwnFd, Free
    <2>3. use[t].fd \notin held \cup left
      BY SocketAssumption DEF KInv, OwnFd, KTypeOK, Opened, NoFd, Fd
    <2>4. \A d \in DOMAIN sock' :
            d \in held' \cup left' \/ \E u \in Client : use'[u].fd = d
      BY <1>2, <2>1 DEF KInv, Opened
    <2>5. Opened'
      BY <2>1, <2>4 DEF KInv, Opened
    <2>6. KTypeOK' /\ Overheard'
      BY <2>1, <2>3 DEF KInv, KTypeOK, Overheard
    <2> QED
      BY <1>3, <1>4, <2>2, <2>5, <2>6 DEF KInv
  <1>7. CASE ~(use[t].fd = NoFd \/ KStep(t) \in Closes(use[t].f))
    <2>1. use[t].at > SocketAt(use[t].f)
      BY <1>7, FreeHasNoFd
    <2>2. use[t].f \in {"v6_tcp_listen", "v6_tcp_connect", "sendnwait"}
      BY <1>5, <1>7, <2>1 DEF AtStep, KStep
    <2>3. sock' = sock /\ left' = left \cup {use[t].fd} /\ held' = held
      BY <1>7, <2>2 DEF Lost
    <2>4. use[t].fd \in DOMAIN sock /\ use[t].fd \notin held
      BY <1>7 DEF KInv, OwnFd
    <2>5. OwnFd'
      BY <1>1, <1>2, <1>7, <2>3 DEF KInv, OwnFd, Free
    <2>6. Opened'
      BY <1>2, <2>3, <2>4 DEF KInv, Opened
    <2>7. KTypeOK' /\ Overheard'
      BY <2>3, <2>4 DEF KInv, KTypeOK, Overheard
    <2> QED
      BY <1>3, <1>4, <2>5, <2>6, <2>7 DEF KInv
  <1> QED
    BY <1>6, <1>7

LEMMA ProtoOf ==
  /\ \A f \in Function : Proto[f] \in {"icmp", "tcp", "udp"}
  /\ Proto["icmpsock"] = "icmp" /\ SocketAt("icmpsock") = 2
  <1>1. \A f \in Function : Proto[f] \in {"icmp", "tcp", "udp"}
    BY DEF Proto
  <1>2. "icmpsock" \in Function
    BY DEF Function, Steps
  <1>3. SocketAt("icmpsock") = 2
    BY DEF SocketAt, Steps, icmpsock
  <1> QED
    BY <1>1, <1>2, <1>3 DEF Proto

(* A call that goes on.                                                    *)
LEMMA CallGoesOn ==
  ASSUME KInv, NEW t \in Client, use[t] \in Calls, NEW fd \in 0..MaxOpen,
         use[t].at + 1 \in 1..6,
         use' = [use EXCEPT ![t].at = @ + 1, ![t].fd = fd]
  PROVE  /\ use'[t] \in Calls /\ use'[t].at = use[t].at + 1 /\ use'[t].fd = fd
         /\ use'[t].f = use[t].f
         /\ use' \in [Client -> Calls \cup {Free}]
         /\ \A u \in Client \ {t} : use'[u] = use[u]
  <1>1. use \in [Client -> Calls \cup {Free}]
    BY DEF KInv, InCall
  <1> DEFINE c == use[t]
             b == [c EXCEPT !.at = c.at + 1]
             e == [b EXCEPT !.fd = fd]
  <1>2. b \in Calls /\ b.at = c.at + 1 /\ b.f = c.f
    BY DEF Calls
  <1>3. e \in Calls /\ e.at = b.at /\ e.f = b.f /\ e.fd = fd
    <2> HIDE DEF b
    <2> QED
      BY <1>2 DEF Calls
  <1>4. use'[t] = e
    BY <1>1
  <1>5. \A u \in Client \ {t} : use'[u] = use[u]
    BY <1>1
  <1>6. use' \in [Client -> Calls \cup {Free}]
    <2> HIDE DEF e
    <2> QED
      BY <1>1, <1>3, <1>4, <1>5
  <1> QED
    BY <1>2, <1>3, <1>4, <1>5, <1>6

(* The lookup is never the last step, and whoever has looked up before is  *)
(* told or has shared the buffer.                                          *)
LEMMA GetProtoInv ==
  ASSUME KInv, NEW t \in Client, GetProto(t) PROVE KInv'
  <1> USE DEF GetProto
  <1>1. AtStep(use[t]) /\ use[t] \in Calls /\ use[t] # Free
    BY InCallAtStep DEF CallStep
  <1>2. use[t].at = 1 /\ SocketAt(use[t].f) = 2 /\ ~LastStep(t)
    BY <1>1 DEF AtStep, CallStep, KStep, LastStep
  <1>3. 2 \in 1..Len(Steps[use[t].f])
    BY <1>1, <1>2 DEF AtStep, LastStep
  <1>4. use' = [use EXCEPT ![t].at = @ + 1, ![t].fd = NoFd]
        /\ held' = held /\ left' = left
    BY <1>2 DEF Proceed
  <1>5. /\ use'[t] \in Calls /\ use'[t].at = 2 /\ use'[t].fd = NoFd
        /\ use'[t].f = use[t].f
    <2>1. NoFd \in 0..MaxOpen /\ use[t].at + 1 \in 1..6 /\ 1 + 1 = 2
      BY <1>2, SocketAssumption DEF NoFd
    <2> QED
      BY <1>1, <1>2, <1>4, <2>1, CallGoesOn
  <1>6. /\ use' \in [Client -> Calls \cup {Free}]
        /\ \A u \in Client \ {t} : use'[u] = use[u]
    <2>1. NoFd \in 0..MaxOpen /\ use[t].at + 1 \in 1..6
      BY <1>2, SocketAssumption DEF NoFd
    <2> QED
      BY <1>1, <1>4, <2>1, CallGoesOn
  <1>7. use[t].fd = NoFd
    BY <1>1, <1>2 DEF KInv, InCall
  <1>8. InCall'
    BY <1>2, <1>3, <1>5, <1>6 DEF KInv, InCall
  <1>9. OwnFd' /\ Opened'
    BY <1>4, <1>5, <1>6, <1>7 DEF KInv, OwnFd, Opened
  <1>10. Looked'
    <2> SUFFICES ASSUME NEW u \in Client, CallStep(u, "socket")', use'[u].at > 1
                 PROVE  /\ protoent' \in {"icmp", "tcp", "udp"}
                        /\ protoent' = Proto[use'[u].f] \/ shared'
      BY DEF Looked
    <2>1. protoent' \in {"icmp", "tcp", "udp"}
      BY <1>1, ProtoOf DEF AtStep
    <2>2. CASE u = t
      BY <1>5, <2>1, <2>2
    <2>3. CASE u # t
      BY <1>6, <2>1, <2>3 DEF CallStep, KStep
    <2> QED
      BY <2>2, <2>3
  <1>11. KTypeOK' /\ Overheard'
    BY <1>4 DEF KInv, KTypeOK, Overheard
  <1> QED
    BY <1>8, <1>9, <1>10, <1>11 DEF KInv

(* Only icmpsock returns what socket gave it.                              *)
LEMMA SocketInv ==
  ASSUME KInv, NEW t \in Client, Socket(t) PROVE KInv'
  <1> DEFINE f == use[t].f
             p == IF use[t].at = 1 THEN Proto[f] ELSE protoent
  <1>1. AtStep(use[t]) /\ use[t] \in Calls /\ use[t] # Free
    BY InCallAtStep DEF Socket, CallStep
  <1>2. use[t].at = SocketAt(f)
    BY <1>1 DEF AtStep, CallStep, KStep, Socket
  <1>3. p \in {"icmp", "tcp", "udp"}
    BY <1>1, <1>2, ProtoOf DEF AtStep, Socket, KInv, Looked
  <1>4. f = "icmpsock" => p = "icmp" \/ shared
    BY <1>2, ProtoOf DEF Socket, KInv, Looked
  <1>5. use[t].fd = NoFd
    BY <1>1, <1>2 DEF KInv, InCall, AtStep
  <1>6. PICK fd \in Fd \ DOMAIN sock :
          /\ Proceed(t, fd)
          /\ sock' = [d \in DOMAIN sock \cup {fd} |->
                        IF d = fd THEN [proto |-> p, state |-> "new"] ELSE sock[d]]
    BY DEF Socket
  <1>7. UNCHANGED <<protoent, uses, shared>>
    BY DEF Socket
  <1> HIDE DEF p
  <1>8. /\ DOMAIN sock' = DOMAIN sock \cup {fd}
        /\ sock'[fd] = [proto |-> p, state |-> "new"]
        /\ \A d \in DOMAIN sock : sock'[d] = sock[d]
    BY <1>6
  <1>9. sock' \in [DOMAIN sock' -> [proto : {"icmp", "tcp", "udp"}, state : State]]
    <2>1. sock'[fd] \in [proto : {"icmp", "tcp", "udp"}, state : State]
      BY <1>3, <1>8 DEF State
    <2>2. \A d \in DOMAIN sock' :
            sock'[d] \in [proto : {"icmp", "tcp", "udp"}, state : State]
      BY <1>8, <2>1 DEF KInv, Opened
    <2> QED
      BY <1>6, <2>2
  <1>10. fd \notin held \cup left /\ fd # NoFd
    BY SocketAssumption DEF KInv, KTypeOK, Fd, NoFd
  <1>11. \A u \in Client : use[u].fd # fd
    BY <1>10 DEF KInv, OwnFd
  <1>12. CASE LastStep(t)
    <2>1. f = "icmpsock"
      BY <1>1, <1>2, <1>12 DEF AtStep, LastStep
    <2>2. use' = [use EXCEPT ![t] = Free] /\ held' = held \cup {fd} /\ left' = left
      BY <1>6, <1>12, <2>1 DEF Proceed, Return
    <2>3. /\ use'[t] = Free /\ use' \in [Client -> Calls \cup {Free}]
          /\ \A u \in Client \ {t} : use'[u] = use[u]
      BY <2>2 DEF KInv, InCall
    <2>4. InCall' /\ Looked'
      BY <1>7, <2>3 DEF KInv, InCall, Looked, CallStep, KStep
    <2>5. OwnFd'
      BY <1>8, <1>11, <2>2, <2>3 DEF KInv, OwnFd, Free
    <2>6. Opened'
      BY <1>5, <1>8, <1>9, <1>10, <2>2, <2>3 DEF KInv, Opened, NoFd, Fd
    <2>7. KTypeOK' /\ Overheard'
      BY <1>3, <1>4, <1>7, <1>8, <2>1, <2>2 DEF KInv, KTypeOK, Overheard
    <2> QED
      BY <2>4, <2>5, <2>6, <2>7 DEF KInv
  <1>13. CASE ~LastStep(t)
    <2>1. /\ use' = [use EXCEPT ![t].at = @ + 1, ![t].fd = fd]
          /\ held' = held /\ left' = left
      BY <1>6, <1>13 DEF Proceed
    <2>2. /\ use[t].at + 1 \in 1..Len(Steps[f]) /\ use[t].at + 1 \in 1..6
          /\ use[t].at + 1 > SocketAt(f)
      BY <1>1, <1>2, <1>13 DEF AtStep, LastStep
    <2>3. /\ use'[t] \in Calls /\ use'[t].at = use[t].at + 1 /\ use'[t].fd = fd
          /\ use'[t].f = f
      <3>1. fd \in 0..MaxOpen
        BY SocketAssumption DEF Fd
      <3> QED
        BY <1>1, <2>1, <2>2, <3>1, CallGoesOn
    <2>4. /\ use' \in [Client -> Calls \cup {Free}]
          /\ \A u \in Client \ {t} : use'[u] = use[u]
      <3>1. fd \in 0..MaxOpen
        BY SocketAssumption DEF Fd
      <3> QED
        BY <1>1, <2>1, <2>2, <3>1, CallGoesOn
    <2>5. InCall'
      BY <1>10, <2>2, <2>3, <2>4 DEF KInv, InCall
    <2>6. OwnFd'
      BY <1>8, <1>10, <1>11, <2>1, <2>3, <2>4 DEF KInv, OwnFd
    <2>7. Opened'
      BY <1>5, <1>8, <1>9, <1>10, <2>1, <2>3, <2>4 DEF KInv, Opened, NoFd, Fd
    <2>8. Looked'
      <3>1. use'[t] # Free => ~CallStep(t, "socket")'
        <4>1. AtStep(use'[t])
          BY <2>2, <2>3, CallAtStep
        <4>2. use'[t].at > SocketAt(use'[t].f)
          BY <2>2, <2>3
        <4> QED
          BY <1>1, <4>1, <4>2 DEF AtStep, CallStep, KStep
      <3> QED
        BY <1>7, <2>4, <3>1 DEF KInv, Looked, CallStep, KStep
    <2>9. KTypeOK' /\ Overheard'
      BY <1>3, <1>7, <1>8, <1>10, <2>1 DEF KInv, KTypeOK, Overheard
    <2> QED
      BY <2>5, <2>6, <2>7, <2>8, <2>9 DEF KInv
  <1> QED
    BY <1>12, <1>13

(* What follows socket changes the state of the call's own descriptor.     *)
LEMMA RequestInv ==
  ASSUME KInv, NEW t \in Client, Request(t) PROVE KInv'
  <1> DEFINE f == use[t].f
             fd == use[t].fd
             st == AfterCall[KStep(t)]
  <1>1. AtStep(use[t]) /\ use[t] \in Calls /\ use[t] # Free
    BY InCallAtStep DEF Request
  <1>2. use[t].at > SocketAt(f)
    BY <1>1 DEF AtStep, KStep, Request
  <1>3. fd # NoFd /\ fd \in DOMAIN sock /\ fd \notin held \cup left /\ fd \in 0..MaxOpen
    BY <1>1, <1>2 DEF KInv, InCall, OwnFd, AtStep
  <1>4. \A u \in Client \ {t} : use[u].fd # fd
    BY <1>3 DEF KInv, OwnFd
  <1>5. st \in State /\ (LastStep(t) => st # "new")
    BY <1>1, <1>2 DEF AtStep, KStep, LastStep
  <1>6. /\ sock' = [sock EXCEPT ![fd].state = st] /\ Proceed(t, fd)
        /\ UNCHANGED <<protoent, uses, shared>>
    BY DEF Request
  <1> HIDE DEF st
  <1>7. /\ DOMAIN sock' = DOMAIN sock
        /\ \A d \in DOMAIN sock \ {fd} : sock'[d] = sock[d]
        /\ sock'[fd].proto = sock[fd].proto /\ sock'[fd].state = st
        /\ sock'[fd] \in [proto : {"icmp", "tcp", "udp"}, state : State]
    <2>1. sock[fd] \in [proto : {"icmp", "tcp", "udp"}, state : State]
      BY <1>3 DEF KInv, Opened
    <2>2. sock'[fd] = [sock[fd] EXCEPT !.state = st]
      BY <1>3, <1>6 DEF KInv, Opened
    <2> QED
      BY <1>5, <1>6, <2>1, <2>2
  <1>8. sock' \in [DOMAIN sock' -> [proto : {"icmp", "tcp", "udp"}, state : State]]
    <2>1. \A d \in DOMAIN sock' :
            sock'[d] \in [proto : {"icmp", "tcp", "udp"}, state : State]
      BY <1>7 DEF KInv, Opened
    <2>2. sock' = [d \in DOMAIN sock' |-> sock'[d]]
      BY <1>6 DEF KInv, Opened
    <2> QED
      BY <2>1, <2>2
  <1>9. CASE LastStep(t)
    <2>1. /\ use' = [use EXCEPT ![t] = Free]
          /\ \/ held' = held \cup {fd} /\ left' = left
             \/ left' = left \cup {fd} /\ held' = held
      BY <1>6, <1>9 DEF Proceed, Return
    <2>2. /\ use'[t] = Free /\ use' \in [Client -> Calls \cup {Free}]
          /\ \A u \in Client \ {t} : use'[u] = use[u]
      BY <2>1 DEF KInv, InCall
    <2>3. InCall' /\ Looked'
      BY <1>6, <2>2 DEF KInv, InCall, Looked, CallStep, KStep
    <2>4. OwnFd'
      BY <1>4, <1>7, <2>1, <2>2 DEF KInv, OwnFd, Free
    <2>5. Opened'
      BY <1>3, <1>7, <1>8, <2>1, <2>2 DEF KInv, Opened
    <2>6. KTypeOK' /\ Overheard'
      BY <1>3, <1>5, <1>6, <1>7, <1>9, <2>1 DEF KInv, KTypeOK, Overheard
    <2> QED
      BY <2>3, <2>4, <2>5, <2>6 DEF KInv
  <1>10. CASE ~LastStep(t)
    <2>1. /\ use' = [use EXCEPT ![t].at = @ + 1, ![t].fd = fd]
          /\ held' = held /\ left' = left
      BY <1>6, <1>10 DEF Proceed
    <2>2. /\ use[t].at + 1 \in 1..Len(Steps[f]) /\ use[t].at + 1 \in 1..6
          /\ use[t].at + 1 > SocketAt(f)
      BY <1>1, <1>2, <1>10 DEF AtStep, LastStep
    <2>3. /\ use'[t] \in Calls /\ use'[t].at = use[t].at + 1 /\ use'[t].fd = fd
          /\ use'[t].f = f
          /\ use' \in [Client -> Calls \cup {Free}]
          /\ \A u \in Client \ {t} : use'[u] = use[u]
      <3> HIDE DEF fd
      <3>1. fd = use[t].fd
        BY DEF fd
      <3> QED
        BY <1>1, <1>3, <2>1, <2>2, CallGoesOn, Zenon
    <2>4. InCall'
      BY <1>3, <2>2, <2>3 DEF KInv, InCall
    <2>5. OwnFd'
      BY <1>3, <1>4, <1>7, <2>1, <2>3 DEF KInv, OwnFd
    <2>6. Opened'
      BY <1>7, <1>8, <2>1, <2>3 DEF KInv, Opened
    <2>7. Looked'
      <3>1. ~CallStep(t, "socket")'
        <4>1. AtStep(use'[t])
          BY <2>2, <2>3, CallAtStep
        <4>2. use'[t].at > SocketAt(use'[t].f)
          BY <2>2, <2>3
        <4> QED
          BY <1>1, <4>1, <4>2 DEF AtStep, CallStep, KStep
      <3> QED
        BY <1>6, <2>3, <3>1 DEF KInv, Looked, CallStep, KStep
    <2>8. KTypeOK' /\ Overheard'
      BY <1>3, <1>6, <1>7, <2>1 DEF KInv, KTypeOK, Overheard
    <2> QED
      BY <2>4, <2>5, <2>6, <2>7, <2>8 DEF KInv
  <1> QED
    BY <1>9, <1>10

LEMMA KStutters ==
  ASSUME KInv, UNCHANGED kvars PROVE KInv'
  BY DEF KInv, kvars, KTypeOK, InCall, OwnFd, Opened, Looked, CallStep, KStep,
         Overheard

(* No call works on a descriptor that is closed or another's, what has no  *)
(* owner was left behind, and ICMP is received where it was asked for.     *)
LEMMA KInvHolds == KInv => SocketsOwned
  <1> SUFFICES ASSUME KInv PROVE SocketsOwned
    OBVIOUS
  <1>1. ASSUME NEW d \in DOMAIN sock
        PROVE  \/ d \in held /\ d \notin left /\ Running(d) = {}
               \/ d \in left /\ d \notin held /\ Running(d) = {}
               \/ d \notin held \cup left /\ Cardinality(Running(d)) = 1
    <2>1. d # NoFd
      BY <1>1, SocketAssumption DEF KInv, Opened, Fd, NoFd
    <2>2. CASE d \in held \cup left
      <3>1. Running(d) = {}
        BY <2>1, <2>2 DEF KInv, OwnFd, Running
      <3> QED
        BY <2>2, <3>1 DEF KInv, Opened
    <2>3. CASE d \notin held \cup left
      <3>1. PICK t \in Client : use[t].fd = d
        BY <1>1, <2>3 DEF KInv, Opened
      <3>2. use[t] # Free
        BY <2>1, <3>1, FreeHasNoFd
      <3>3. Running(d) = {t}
        BY <2>1, <3>1, <3>2 DEF KInv, OwnFd, Running
      <3>4. Cardinality(Running(d)) = 1
        BY <3>3, FS_Singleton
      <3> QED
        BY <2>3, <3>4
    <2> QED
      BY <2>2, <2>3
  <1>2. Owned
    BY <1>1 DEF KInv, OwnFd, Owned
  <1> QED
    BY <1>2 DEF KInv, SocketsOwned

(* SocketsOwned: the ownership of descriptors over every interleaving of   *)
(* the functions of sock.c and sockv6.c, whichever system calls fail.      *)
THEOREM EveryDescriptorOwned == KSpec => []SocketsOwned
  <1>1. KInv /\ [KNext]_kvars => KInv'
    BY EnterInv, FailInv, GetProtoInv, SocketInv, RequestInv, CloseHeldInv,
       KStutters DEF KNext
  <1> QED
    BY KInitInv, <1>1, KInvHolds, PTL DEF KSpec

-----------------------------------------------------------------------------
(* Interfaces: the calls, and what one thread's step leaves of the others'. *)

LEMMA CallKinds ==
  /\ \A c \in IfCalls : c # Idle /\ "op" \notin DOMAIN c /\ c.at \in IfAt
  /\ \A c \in BondCalls : c # Idle /\ "op" \in DOMAIN c
       /\ c.at \in BeforeAddr \cup BeforeMtu \cup BeforeHw \cup {"join"}
  <1>1. "idle" \notin IfAt \cup BeforeAddr \cup BeforeMtu \cup BeforeHw \cup {"join"}
    BY DEF IfAt, BeforeAddr, BeforeMtu, BeforeHw
  <1>2. Idle.at = "idle"
    BY DEF Idle
  <1>3. ASSUME NEW c \in IfCalls PROVE "op" \notin DOMAIN c /\ c.at \in IfAt
    BY DEF IfCalls
  <1>4. ASSUME NEW c \in BondCalls
        PROVE "op" \in DOMAIN c
              /\ c.at \in BeforeAddr \cup BeforeMtu \cup BeforeHw \cup {"join"}
    BY DEF BondCalls
  <1> QED
    BY <1>1, <1>2, <1>3, <1>4

LEMMA BondingIs ==
  UnderWay => Bonding = {t \in Thread : call[t] \in BondCalls}
  BY CallKinds DEF UnderWay, Bonding

LEMMA Silenced ==
  /\ \A c \in IfCalls : /\ [c EXCEPT !.quiet = FALSE] \in IfCalls
                        /\ [c EXCEPT !.quiet = FALSE].flags = c.flags
                        /\ [c EXCEPT !.quiet = FALSE].at = c.at
  /\ \A c \in BondCalls :
       LET d == [c EXCEPT !.quiet = FALSE] IN
       /\ d \in BondCalls /\ d.flags = c.flags /\ d.at = c.at /\ d.op = c.op
       /\ d.hw = c.hw /\ ~d.quiet
  BY DEF IfCalls, BondCalls

LEMMA OthersGo ==
  ASSUME UnderWay, NEW t \in Thread, NEW c, Goes(t, c), NEW u \in Thread, u # t
  PROVE  \/ call'[u] = call[u] /\ (call[u] = Idle \/ dev' = dev)
         \/ call[u] # Idle /\ call'[u] = [call[u] EXCEPT !.quiet = FALSE]
  BY DEF Goes

(* A step of t that leaves it at c keeps the invariant when it keeps the     *)
(* kernel's table, counts its descriptor, holds no DEBUG to write back and    *)
(* has brought its slave as far as c says.                                   *)
Right(c) == \/ c = Idle
            \/ c \in IfCalls
            \/ /\ c \in BondCalls
               /\ c.at \notin {"flags", "join"} => c.op = "enslave"
               /\ c.at \notin {"shw", "join"} => c.hw = 0
Held(c) == IF c \in BondCalls THEN 1 ELSE 0
Harmless(c) == c = Idle \/ "DEBUG" \notin c.flags \/ c.at \in {"flags", "join"}

LEMMA BondingNext ==
  ASSUME UnderWay, NEW t \in Thread, NEW c \in {Idle} \cup IfCalls \cup BondCalls,
         Goes(t, c)
  PROVE  /\ UnderWay'
         /\ IsFiniteSet(Bonding)
         /\ Cardinality(Bonding) \in Nat
         /\ Cardinality(Bonding') = Cardinality(Bonding) + Held(c) - Held(call[t])
  <1>1. \A u \in Thread : u # t =>
          /\ call'[u] \in {Idle} \cup IfCalls \cup BondCalls
          /\ call'[u] \in BondCalls <=> call[u] \in BondCalls
    <2> SUFFICES ASSUME NEW u \in Thread, u # t
                 PROVE /\ call'[u] \in {Idle} \cup IfCalls \cup BondCalls
                       /\ call'[u] \in BondCalls <=> call[u] \in BondCalls
      OBVIOUS
    <2>1. call[u] \in {Idle} \cup IfCalls \cup BondCalls
      BY DEF UnderWay
    <2>2. \/ call'[u] = call[u]
          \/ call[u] # Idle /\ call'[u] = [call[u] EXCEPT !.quiet = FALSE]
      BY OthersGo
    <2>3. \A d \in IfCalls : d \notin BondCalls
      BY CallKinds
    <2>4. [call[u] EXCEPT !.quiet = FALSE] \in IfCalls \/ call[u] \notin IfCalls
      BY Silenced
    <2>5. [call[u] EXCEPT !.quiet = FALSE] \in BondCalls \/ call[u] \notin BondCalls
      BY Silenced
    <2> QED
      BY <2>1, <2>2, <2>3, <2>4, <2>5
  <1>2. call'[t] = c /\ call' = [u \in Thread |-> call'[u]]
    BY DEF Goes
  <1>3. UnderWay'
    BY <1>1, <1>2 DEF UnderWay
  <1>4. Bonding = {u \in Thread : call[u] \in BondCalls}
    BY BondingIs
  <1>5. Bonding' = {u \in Thread : call'[u] \in BondCalls}
    BY <1>3, CallKinds DEF UnderWay, Bonding
  <1>6. Bonding' = IF c \in BondCalls THEN Bonding \cup {t} ELSE Bonding \ {t}
    BY <1>1, <1>2, <1>4, <1>5
  <1>7. IsFiniteSet(Bonding) /\ IsFiniteSet(Thread)
    BY <1>4, IfAssumption, FS_Subset
  <1>8. Cardinality(Bonding) \in Nat
    BY <1>7, FS_CardinalityType
  <1>9. Cardinality(Bonding \cup {t}) =
          IF t \in Bonding THEN Cardinality(Bonding) ELSE Cardinality(Bonding) + 1
    BY <1>7, FS_AddElement
  <1>10. Cardinality(Bonding \ {t}) =
          IF t \in Bonding THEN Cardinality(Bonding) - 1 ELSE Cardinality(Bonding)
    BY <1>7, FS_RemoveElement
  <1>11. t \in Bonding <=> call[t] \in BondCalls
    BY <1>4
  <1> QED
    BY <1>3, <1>6, <1>7, <1>8, <1>9, <1>10, <1>11 DEF Held

LEMMA IfStep ==
  ASSUME IInv, NEW t \in Thread, NEW c, Right(c), Goes(t, c), Devices',
         early' \in Nat, early <= early', fds' \in Int, fds' <= MaxFd,
         fds' - early' = fds - early + Held(c) - Held(call[t]),
         Leaked' \/ (/\ \A n \in DOMAIN dev' : "DEBUG" \notin dev'[n].flags
                     /\ Harmless(c)),
         (c \in BondCalls /\ c.op = "enslave" /\ c.quiet) => Brought(dev', c)
  PROVE  IInv'
  <1>1. c \in {Idle} \cup IfCalls \cup BondCalls
    BY DEF Right
  <1>2. /\ UnderWay' /\ Cardinality(Bonding) \in Nat
        /\ Cardinality(Bonding') = Cardinality(Bonding) + Held(c) - Held(call[t])
    BY <1>1, BondingNext DEF IInv
  <1>3. Descriptors'
    <2>1. early \in Nat /\ fds = early + Cardinality(Bonding) /\ fds <= MaxFd
      BY DEF IInv, Descriptors
    <2>2. Held(c) \in Int /\ Held(call[t]) \in Int /\ MaxFd \in Nat
      BY IfAssumption DEF Held
    <2>3. Cardinality(Bonding') \in Int
      BY <1>2, <2>2
    <2>4. fds' = early' + Cardinality(Bonding')
      BY <1>2, <2>1, <2>2, <2>3
    <2> QED
      BY <2>4 DEF Descriptors
  <1>4. Debugged'
    <2>1. CASE Leaked'
      BY <2>1 DEF Debugged
    <2>2. CASE ~Leaked'
      <3>1. ~Leaked
        <4>1. early \in Nat /\ Cardinality(Thread) \in Nat /\ MaxFd \in Nat
          BY IfAssumption, FS_CardinalityType DEF IInv, Descriptors
        <4> QED
          BY <2>2, <4>1 DEF Leaked
      <3>2. /\ \A n \in DOMAIN dev' : "DEBUG" \notin dev'[n].flags
            /\ Harmless(c)
        BY <2>2
      <3>3. \A u \in Thread : Harmless(call[u])
        BY <3>1 DEF IInv, Debugged, Harmless, At
      <3>4. ASSUME NEW u \in Thread, u # t PROVE Harmless(call'[u])
        <4>1. \/ call'[u] = call[u]
              \/ call[u] # Idle /\ call'[u] = [call[u] EXCEPT !.quiet = FALSE]
          BY <3>4, OthersGo DEF IInv
        <4>2. call[u] \in {Idle} \cup IfCalls \cup BondCalls
          BY DEF IInv, UnderWay
        <4>3. call[u] # Idle =>
                /\ [call[u] EXCEPT !.quiet = FALSE].flags = call[u].flags
                /\ [call[u] EXCEPT !.quiet = FALSE].at = call[u].at
          BY <4>2, Silenced
        <4> QED
          BY <3>3, <4>1, <4>3 DEF Harmless
      <3>5. call'[t] = c
        BY DEF Goes
      <3>6. \A u \in Thread : Harmless(call'[u])
        BY <3>2, <3>4, <3>5
      <3> QED
        BY <3>2, <3>6 DEF Debugged, Harmless, At
    <2> QED
      BY <2>1, <2>2
  <1>5. Undisturbed'
    <2> SUFFICES ASSUME NEW u \in Bonding'
                 PROVE  /\ call'[u].at \notin {"flags", "join"} => call'[u].op = "enslave"
                        /\ call'[u].at \notin {"shw", "join"} => call'[u].hw = 0
                        /\ (call'[u].op = "enslave" /\ call'[u].quiet)
                             => Brought(dev', call'[u])
      BY DEF Undisturbed
    <2>0. u \in Thread /\ call'[u] \in BondCalls
      BY <1>2, CallKinds DEF UnderWay, Bonding
    <2>1. CASE u = t
      <3>1. call'[u] = c
        BY <2>1 DEF Goes
      <3>2. c \in BondCalls /\ Right(c)
        BY <2>0, <3>1
      <3>3. c # Idle /\ c \notin IfCalls
        BY <3>2, CallKinds
      <3>4. /\ c.at \notin {"flags", "join"} => c.op = "enslave"
            /\ c.at \notin {"shw", "join"} => c.hw = 0
        BY <3>2, <3>3 DEF Right
      <3> QED
        BY <3>1, <3>2, <3>4
    <2>2. CASE u # t
      <3>1. \/ call'[u] = call[u] /\ (call[u] = Idle \/ dev' = dev)
            \/ call[u] # Idle /\ call'[u] = [call[u] EXCEPT !.quiet = FALSE]
        BY <2>0, <2>2, OthersGo DEF IInv
      <3>2. call[u] \in BondCalls
        <4>1. call[u] \in {Idle} \cup IfCalls \cup BondCalls
          BY <2>0 DEF IInv, UnderWay
        <4>2. call[u] \in IfCalls => [call[u] EXCEPT !.quiet = FALSE] \in IfCalls
          BY Silenced
        <4> QED
          BY <2>0, <3>1, <4>1, <4>2, CallKinds
      <3>3. u \in Bonding
        BY <2>0, <3>2, CallKinds DEF Bonding
      <3>4. /\ call[u].at \notin {"flags", "join"} => call[u].op = "enslave"
            /\ call[u].at \notin {"shw", "join"} => call[u].hw = 0
            /\ (call[u].op = "enslave" /\ call[u].quiet) => Brought(dev, call[u])
        BY <3>3 DEF IInv, Undisturbed
      <3>5. call[u] # Idle
        BY <3>2, CallKinds
      <3>6. CASE call'[u] = call[u] /\ dev' = dev
        BY <3>4, <3>6
      <3>7. CASE call'[u] = [call[u] EXCEPT !.quiet = FALSE]
        <4> DEFINE d == [call[u] EXCEPT !.quiet = FALSE]
        <4>1. d.at = call[u].at /\ d.op = call[u].op /\ d.hw = call[u].hw /\ ~d.quiet
          BY <3>2, Silenced
        <4> QED
          BY <3>4, <3>7, <4>1
      <3> QED
        BY <3>1, <3>5, <3>6, <3>7
    <2> QED
      BY <2>1, <2>2
  <1> QED
    BY <1>2, <1>3, <1>4, <1>5 DEF IInv

-----------------------------------------------------------------------------
(* What the kernel's calls leave of its table.                             *)

Numbers8 == {"addr", "dstaddr", "brdaddr", "netmask", "mtu", "hwaddr",
             "hwbroadcast", "txqlen"}

(* Of a record of a device one number is another.                          *)
LEMMA FieldPut ==
  ASSUME NEW r \in Fields, NEW f \in Numbers8, NEW v \in Nat
  PROVE  LET s == [r EXCEPT ![f] = v] IN
         /\ s \in Fields /\ s.flags = r.flags
         /\ s.addr = IF f = "addr" THEN v ELSE r.addr
         /\ s.mtu = IF f = "mtu" THEN v ELSE r.mtu
         /\ s.hwaddr = IF f = "hwaddr" THEN v ELSE r.hwaddr
  <1>1. CASE f = "addr"
    BY <1>1 DEF Fields
  <1>2. CASE f = "dstaddr"
    BY <1>2 DEF Fields
  <1>3. CASE f = "brdaddr"
    BY <1>3 DEF Fields
  <1>4. CASE f = "netmask"
    BY <1>4 DEF Fields
  <1>5. CASE f = "mtu"
    BY <1>5 DEF Fields
  <1>6. CASE f = "hwaddr"
    BY <1>6 DEF Fields
  <1>7. CASE f = "hwbroadcast"
    BY <1>7 DEF Fields
  <1>8. CASE f = "txqlen"
    BY <1>8 DEF Fields
  <1> QED
    BY <1>1, <1>2, <1>3, <1>4, <1>5, <1>6, <1>7, <1>8 DEF Numbers8

(* Another record of one device is in the table.                           *)
LEMMA TablePut ==
  ASSUME Devices, NEW n \in DOMAIN dev, NEW s \in Fields,
         dev' = [dev EXCEPT ![n] = s]
  PROVE  /\ Devices' /\ DOMAIN dev' = DOMAIN dev /\ dev'[n] = s
         /\ \A x \in DOMAIN dev : x # n => dev'[x] = dev[x]
  BY DEF Devices

(* The same table but for one number of n, which is v when it went well.   *)
PutAt(o, n, f, v) ==
  /\ Devices' /\ DOMAIN dev' = DOMAIN dev
  /\ \A x \in DOMAIN dev :
       /\ dev'[x].flags = dev[x].flags
       /\ x # n \/ f # "addr" => dev'[x].addr = dev[x].addr
       /\ x # n \/ f # "mtu" => dev'[x].mtu = dev[x].mtu
       /\ x # n \/ f # "hwaddr" => dev'[x].hwaddr = dev[x].hwaddr
  /\ o = "ok" => /\ n \in DOMAIN dev /\ v \in Values
                 /\ f = "addr" => dev'[n].addr = v
                 /\ f = "mtu" => dev'[n].mtu = v
                 /\ f = "hwaddr" => dev'[n].hwaddr = v
  /\ o # "ok" => dev' = dev

LEMMA PutKeeps ==
  ASSUME Devices, NEW o \in Outcome, NEW n, NEW f \in Numbers8, NEW v, Put(o, n, f, v)
  PROVE  PutAt(o, n, f, v)
  <1>1. CASE o = "ok"
    <2>1. n \in DOMAIN dev /\ v \in Values
      BY <1>1 DEF Put, May, Known
    <2>2. v \in Nat
      BY <2>1, IfAssumption DEF Values
    <2> DEFINE r == dev[n]
               s == [r EXCEPT ![f] = v]
    <2>3. dev' = [dev EXCEPT ![n] = s]
      BY <1>1 DEF Put
    <2>4. r \in Fields
      BY <2>1 DEF Devices
    <2>5. /\ s \in Fields /\ s.flags = r.flags
          /\ s.addr = IF f = "addr" THEN v ELSE r.addr
          /\ s.mtu = IF f = "mtu" THEN v ELSE r.mtu
          /\ s.hwaddr = IF f = "hwaddr" THEN v ELSE r.hwaddr
      BY <2>2, <2>4, FieldPut
    <2> HIDE DEF s
    <2>6. /\ Devices' /\ DOMAIN dev' = DOMAIN dev /\ dev'[n] = s
          /\ \A x \in DOMAIN dev : x # n => dev'[x] = dev[x]
      BY <2>1, <2>3, <2>5, TablePut
    <2> QED
      BY <1>1, <2>1, <2>5, <2>6 DEF PutAt
  <1>2. CASE o # "ok"
    <2>1. dev' = dev
      BY <1>2 DEF Put
    <2>2. Devices'
      BY <2>1 DEF Devices
    <2> QED
      BY <1>2, <2>1, <2>2 DEF PutAt
  <1> QED
    BY <1>1, <1>2

(* The same table but for the flags of n: no other DEBUG than that of fl.  *)
FlagsAt(n, fl) ==
  /\ Devices' /\ DOMAIN dev' = DOMAIN dev
  /\ \A x \in DOMAIN dev :
       /\ "DEBUG" \in dev'[x].flags => "DEBUG" \in dev[x].flags \cup fl
       /\ dev'[x].addr = dev[x].addr /\ dev'[x].mtu = dev[x].mtu
       /\ dev'[x].hwaddr = dev[x].hwaddr

LEMMA FlagsKeep ==
  ASSUME Devices, NEW o \in Outcome, NEW n, NEW fl, SetFlags(o, n, fl)
  PROVE  FlagsAt(n, fl)
  <1>1. CASE o = "ok"
    <2>1. n \in DOMAIN dev
      BY <1>1 DEF SetFlags, May, Known
    <2> DEFINE r == dev[n]
               s == [r EXCEPT !.flags = (fl \cap Settable) \cup (@ \ Settable)]
    <2>2. r \in Fields
      BY <2>1 DEF Devices
    <2>3. dev' = [dev EXCEPT ![n] = s]
      BY <1>1 DEF SetFlags
    <2>4. /\ s \in Fields /\ s.flags = (fl \cap Settable) \cup (r.flags \ Settable)
          /\ s.addr = r.addr /\ s.mtu = r.mtu /\ s.hwaddr = r.hwaddr
      BY <2>2 DEF Fields, Settable, Flags
    <2> HIDE DEF s
    <2>5. /\ Devices' /\ DOMAIN dev' = DOMAIN dev /\ dev'[n] = s
          /\ \A x \in DOMAIN dev : x # n => dev'[x] = dev[x]
      BY <2>1, <2>3, <2>4, TablePut
    <2> QED
      BY <2>4, <2>5 DEF FlagsAt, Settable
  <1>2. CASE o # "ok"
    <2>1. dev' = dev
      BY <1>2 DEF SetFlags
    <2>2. Devices'
      BY <2>1 DEF Devices
    <2> QED
      BY <2>1, <2>2 DEF FlagsAt
  <1> QED
    BY <1>1, <1>2

-----------------------------------------------------------------------------
(* Steps of a call that keep its descriptor, and those that leave it behind. *)

NoDebug(d) == \A n \in DOMAIN d : "DEBUG" \notin d[n].flags

LEMMA ThreadFacts ==
  ASSUME IInv, NEW t \in Thread
  PROVE  /\ call[t] \in {Idle} \cup IfCalls \cup BondCalls
         /\ Leaked \/ (NoDebug(dev) /\ Harmless(call[t]))
         /\ early \in Nat /\ fds \in Nat /\ fds <= MaxFd /\ MaxFd \in Nat
         /\ call[t] \in BondCalls =>
              /\ call[t].at \notin {"flags", "join"} => call[t].op = "enslave"
              /\ call[t].at \notin {"shw", "join"} => call[t].hw = 0
              /\ (call[t].op = "enslave" /\ call[t].quiet) => Brought(dev, call[t])
  <1>1. call[t] \in {Idle} \cup IfCalls \cup BondCalls
    BY DEF IInv, UnderWay
  <1>2. Leaked \/ (NoDebug(dev) /\ Harmless(call[t]))
    BY DEF IInv, Debugged, NoDebug, Harmless, At
  <1>3. early \in Nat /\ fds \in Nat /\ fds <= MaxFd /\ MaxFd \in Nat
    <2>1. UnderWay
      BY DEF IInv
    <2>2. Bonding = {u \in Thread : call[u] \in BondCalls}
      BY <2>1, BondingIs
    <2>3. Cardinality(Bonding) \in Nat
      BY <2>2, IfAssumption, FS_Subset, FS_CardinalityType
    <2> QED
      BY <2>3, IfAssumption DEF IInv, Descriptors
  <1>4. call[t] \in BondCalls => t \in Bonding
    BY CallKinds DEF Bonding
  <1> QED
    BY <1>1, <1>2, <1>3, <1>4 DEF IInv, Undisturbed

LEMMA KeepsDescriptor ==
  ASSUME IInv, NEW t \in Thread, NEW c, Right(c), Goes(t, c), Devices',
         UNCHANGED <<fds, early>>, Held(c) = Held(call[t]),
         Leaked \/ (NoDebug(dev') /\ Harmless(c)),
         (c \in BondCalls /\ c.op = "enslave" /\ c.quiet) => Brought(dev', c)
  PROVE  IInv'
  <1>1. early \in Nat /\ fds \in Nat /\ fds <= MaxFd
    BY ThreadFacts
  <1>2. fds' - early' = fds - early + Held(c) - Held(call[t])
    BY <1>1 DEF Held
  <1>3. Leaked' \/ (NoDebug(dev') /\ Harmless(c))
    BY DEF Leaked
  <1> QED
    BY <1>1, <1>2, <1>3, IfStep DEF NoDebug

LEMMA LeavesDescriptor ==
  ASSUME IInv, NEW t \in Thread, call[t] \in BondCalls, Ends(t), Devices',
         fds' = fds, early' = early + 1, Leaked \/ NoDebug(dev')
  PROVE  IInv'
  <1>1. early \in Nat /\ fds \in Nat /\ fds <= MaxFd /\ MaxFd \in Nat
    BY ThreadFacts
  <1>2. Held(call[t]) = 1 /\ Held(Idle) = 0
    BY CallKinds DEF Held
  <1>3. fds' - early' = fds - early + Held(Idle) - Held(call[t])
    BY <1>1, <1>2
  <1>4. Leaked' \/ (NoDebug(dev') /\ Harmless(Idle))
    <2>1. Cardinality(Thread) \in Nat
      BY IfAssumption, FS_CardinalityType
    <2> QED
      BY <1>1, <2>1 DEF Leaked, Harmless
  <1>5. Goes(t, Idle) /\ Right(Idle)
    BY DEF Ends, Right
  <1>6. Idle \notin BondCalls
    BY CallKinds
  <1>7. early' \in Nat /\ early <= early' /\ fds' \in Int /\ fds' <= MaxFd
    BY <1>1
  <1> QED
    BY <1>3, <1>4, <1>5, <1>6, <1>7, IfStep DEF NoDebug

LEMMA NothingGoes ==
  ASSUME IInv, UNCHANGED <<dev, call, fds, early>>
  PROVE  IInv'
  BY DEF IInv, Devices, UnderWay, Descriptors, Bonding, Debugged, Leaked, At, Undisturbed

(* Which calls are at a step.                                              *)
LEMMA AtWhich ==
  ASSUME IInv, NEW t \in Thread, NEW w, At(t, w)
  PROVE  /\ w \in IfAt => call[t] \in IfCalls
         /\ w \in BeforeAddr \cup BeforeMtu \cup BeforeHw \cup {"join"}
              => call[t] \in BondCalls
  <1>1. call[t] \in {Idle} \cup IfCalls \cup BondCalls /\ call[t].at = w
    BY ThreadFacts DEF At
  <1>2. /\ \A x \in IfAt : x \notin BeforeAddr \cup BeforeMtu \cup BeforeHw \cup {"join"}
        /\ "idle" \notin IfAt \cup BeforeAddr \cup BeforeMtu \cup BeforeHw \cup {"join"}
    BY DEF IfAt, BeforeAddr, BeforeMtu, BeforeHw
  <1>3. Idle.at = "idle"
    BY DEF Idle
  <1> QED
    BY <1>1, <1>2, <1>3, CallKinds

LEMMA IfAtNext ==
  ASSUME NEW c \in IfCalls, NEW w \in IfAt
  PROVE  LET d == [c EXCEPT !.at = w] IN
         d \in IfCalls /\ d.at = w /\ d.flags = c.flags
  BY DEF IfCalls

LEMMA BondAtNext ==
  ASSUME NEW c \in BondCalls,
         NEW w \in BeforeAddr \cup BeforeMtu \cup BeforeHw \cup {"join"}
  PROVE  LET d == [c EXCEPT !.at = w] IN
         /\ d \in BondCalls /\ d.at = w /\ d.flags = c.flags /\ d.op = c.op
         /\ d.mtu = c.mtu /\ d.hw = c.hw /\ d.slave = c.slave /\ d.quiet = c.quiet
  BY DEF BondCalls

-----------------------------------------------------------------------------
(* Every step keeps the invariant.                                         *)

LEMMA IfInitInv == IInit => IInv
  <1> SUFFICES ASSUME IInit PROVE IInv
    OBVIOUS
  <1>1. \A n \in {Master} \cup Slave : dev[n] \in Fields /\ "DEBUG" \notin dev[n].flags
    BY DEF IInit, Fields, Flags, Name
  <1>2. Devices
    BY <1>1 DEF IInit, Devices, Name
  <1>3. UnderWay /\ \A t \in Thread : call[t] = Idle
    BY DEF IInit, UnderWay
  <1>4. Bonding = {}
    BY <1>3 DEF Bonding
  <1>5. Descriptors
    BY <1>4, FS_EmptySet, IfAssumption DEF IInit, Descriptors
  <1>6. Debugged
    BY <1>1, <1>3 DEF IInit, Debugged
  <1>7. Undisturbed
    BY <1>4 DEF Undisturbed
  <1> QED
    BY <1>2, <1>3, <1>5, <1>6, <1>7 DEF IInv

(* A thread that is not in a call, or ends ifup or ifdown.                 *)
LEMMA EndsWithout ==
  ASSUME IInv, NEW t \in Thread, call[t] \notin BondCalls, Ends(t), Devices',
         UNCHANGED <<fds, early>>, Leaked \/ NoDebug(dev')
  PROVE  IInv'
  <1>1. Held(call[t]) = 0 /\ Held(Idle) = 0 /\ Idle \notin BondCalls
    BY CallKinds DEF Held
  <1> QED
    BY <1>1, KeepsDescriptor DEF Ends, Right, Harmless

LEMMA ChangeInv ==
  ASSUME IInv, NEW t \in Thread, Change(t) PROVE IInv'
  <1>1. /\ call[t] = Idle /\ Ends(t) /\ UNCHANGED <<fds, early>>
        /\ \E o \in Outcome, n \in Name, v \in Values :
             \/ \E f \in Numbers8 : Put(o, n, f, v)
             \/ sioc_sifname(o, n, Spare)
    BY DEF Change, Simple, sioc_sifaddr, sioc_sifdstaddr, sioc_sifbrdaddr,
           sioc_sifnetmask, setmtu, sioc_sifmtu, sioc_siftxqlen, sioc_sifhwaddr,
           sioc_sifhwbroadcast, Numbers8
  <1>2. PICK o \in Outcome, n \in Name, v \in Values :
             \/ \E f \in Numbers8 : Put(o, n, f, v)
             \/ sioc_sifname(o, n, Spare)
    BY <1>1
  <1>3. Devices' /\ (NoDebug(dev) => NoDebug(dev'))
    <2>1. ASSUME NEW f \in Numbers8, Put(o, n, f, v)
          PROVE  Devices' /\ (NoDebug(dev) => NoDebug(dev'))
      <3>1. PutAt(o, n, f, v)
        BY <2>1, PutKeeps DEF IInv
      <3> QED
        BY <3>1 DEF PutAt, NoDebug
    <2>2. CASE sioc_sifname(o, n, Spare)
      BY <2>2 DEF sioc_sifname, IInv, Devices, NoDebug, Name, Known, May
    <2> QED
      BY <1>2, <2>1, <2>2
  <1>4. Leaked \/ NoDebug(dev')
    BY <1>3, ThreadFacts
  <1>5. call[t] \notin BondCalls
    BY <1>1, CallKinds
  <1> QED
    BY <1>1, <1>3, <1>4, <1>5, EndsWithout

(* An idle thread that finds no descriptor shows that many are left open.  *)
LEMMA NoSocketLeaks ==
  ASSUME IInv, NEW t \in Thread, call[t] = Idle,
         fds + Cardinality(Thread) - 1 >= MaxFd
  PROVE  Leaked
  <1>1. UnderWay
    BY DEF IInv
  <1>2. Bonding = {u \in Thread : call[u] \in BondCalls}
    BY <1>1, BondingIs
  <1>3. Bonding \subseteq Thread \ {t} /\ IsFiniteSet(Thread) /\ IsFiniteSet(Thread \ {t})
    BY <1>2, CallKinds, IfAssumption, FS_RemoveElement
  <1>4. Cardinality(Bonding) <= Cardinality(Thread \ {t})
    BY <1>3, FS_Subset
  <1>5. Cardinality(Thread \ {t}) = Cardinality(Thread) - 1
    BY <1>3, FS_RemoveElement
  <1>6. /\ Cardinality(Thread) \in Nat /\ Cardinality(Bonding) \in Nat
    BY <1>3, FS_Subset, FS_CardinalityType
  <1>7. early \in Nat /\ fds = early + Cardinality(Bonding) /\ MaxFd \in Nat
    BY IfAssumption DEF IInv, Descriptors
  <1> QED
    BY <1>4, <1>5, <1>6, <1>7 DEF Leaked

LEMMA IfBeginInv ==
  ASSUME IInv, NEW t \in Thread, IfBegin(t) PROVE IInv'
  <1>1. call[t] = Idle /\ UNCHANGED <<fds, early>>
    BY DEF IfBegin
  <1>2. PICK o \in Outcome, n \in Name, up \in BOOLEAN, v \in Values :
          /\ Get(o, n)
          /\ Goes(t, [at |-> IF up /\ v # 0 THEN "addr" ELSE "set", dev |-> n,
                      flags |-> sioc_gifflags(o, n), up |-> up, v |-> v,
                      quiet |-> TRUE])
    BY DEF IfBegin
  <1> DEFINE fl == sioc_gifflags(o, n)
             c == [at |-> IF up /\ v # 0 THEN "addr" ELSE "set", dev |-> n,
                   flags |-> fl, up |-> up, v |-> v, quiet |-> TRUE]
  <1>3. dev' = dev /\ May(o, Known(n))
    BY <1>2 DEF Get
  <1>4. fl \in SUBSET Flags /\ (Leaked \/ "DEBUG" \notin fl)
    <2>1. CASE o = "nosock"
      <3>1. fds + Cardinality(Thread) - 1 >= MaxFd
        BY <1>3, <2>1 DEF May
      <3> QED
        BY <1>1, <2>1, <3>1, NoSocketLeaks DEF sioc_gifflags
    <2>2. CASE o = "refused"
      BY <2>2 DEF sioc_gifflags
    <2>3. CASE o = "ok"
      <3>1. n \in DOMAIN dev
        BY <1>3, <2>3 DEF May, Known
      <3>2. dev[n].flags \in SUBSET Flags
        BY <3>1 DEF IInv, Devices, Fields
      <3> QED
        BY <2>3, <3>1, <3>2, ThreadFacts DEF sioc_gifflags, NoDebug
    <2> QED
      BY <2>1, <2>2, <2>3 DEF Outcome
  <1> HIDE DEF fl
  <1>5. c \in IfCalls /\ c.flags = fl
    BY <1>4 DEF IfCalls, IfAt
  <1>6. Goes(t, c)
    BY <1>2 DEF fl
  <1> HIDE DEF c
  <1>7. Right(c) /\ c \notin BondCalls /\ Held(c) = Held(call[t])
    BY <1>1, <1>5, CallKinds DEF Right, Held
  <1>8. Leaked \/ (NoDebug(dev') /\ Harmless(c))
    BY <1>3, <1>4, <1>5, ThreadFacts DEF Harmless
  <1>9. Devices'
    BY <1>3 DEF IInv, Devices
  <1> QED
    BY <1>1, <1>6, <1>7, <1>8, <1>9, KeepsDescriptor

LEMMA IfAddrInv ==
  ASSUME IInv, NEW t \in Thread, IfAddr(t) PROVE IInv'
  <1>1. UNCHANGED <<fds, early>>
    BY DEF IfAddr
  <1>2. \E o \in Outcome, w \in IfAt, x \in IfAt, f \in Numbers8 :
          At(t, w) /\ w # "set" /\ Put(o, call[t].dev, f, call[t].v) /\ Next2(t, x)
    BY DEF IfAddr, sioc_sifaddr, sioc_sifnetmask, sioc_sifbrdaddr, IfAt, Numbers8
  <1>3. PICK o \in Outcome, w \in IfAt, x \in IfAt, f \in Numbers8 :
          At(t, w) /\ w # "set" /\ Put(o, call[t].dev, f, call[t].v) /\ Next2(t, x)
    BY <1>2
  <1> DEFINE c == [call[t] EXCEPT !.at = x]
  <1>4. call[t] \in IfCalls
    BY <1>3, AtWhich
  <1>5. c \in IfCalls /\ c.flags = call[t].flags
    BY <1>4, IfAtNext
  <1>6. Goes(t, c)
    BY <1>3 DEF Next2
  <1> HIDE DEF c
  <1>7. Right(c) /\ c \notin BondCalls /\ Held(c) = Held(call[t])
    BY <1>4, <1>5, CallKinds DEF Right, Held
  <1>8. PutAt(o, call[t].dev, f, call[t].v)
    BY <1>3, PutKeeps DEF IInv
  <1>9. Devices' /\ (NoDebug(dev) => NoDebug(dev'))
    BY <1>8 DEF PutAt, NoDebug
  <1>10. Harmless(call[t]) => Harmless(c)
    <2>1. call[t] # Idle /\ call[t].at \in IfAt
      BY <1>4, CallKinds
    <2>2. call[t].at \notin {"flags", "join"}
      BY <2>1 DEF IfAt
    <2> QED
      BY <1>5, <2>1, <2>2 DEF Harmless
  <1> QED
    BY <1>1, <1>6, <1>7, <1>9, <1>10, ThreadFacts, KeepsDescriptor

LEMMA IfSetInv ==
  ASSUME IInv, NEW t \in Thread, IfSet(t) PROVE IInv'
  <1>1. PICK o \in Outcome :
          /\ \/ SetFlags(o, call[t].dev, call[t].flags \cup {"UP"})
             \/ SetFlags(o, call[t].dev, call[t].flags \ {"UP"})
          /\ Ends(t)
    BY DEF IfSet, ifup, ifdown, sioc_sifflags
  <1>2. At(t, "set") /\ UNCHANGED <<fds, early>>
    BY DEF IfSet
  <1>3. call[t] \in IfCalls
    BY <1>2, AtWhich DEF IfAt
  <1>4. PICK fl : /\ SetFlags(o, call[t].dev, fl)
                  /\ "DEBUG" \in fl => "DEBUG" \in call[t].flags
    BY <1>1
  <1>5. FlagsAt(call[t].dev, fl)
    BY <1>4, FlagsKeep DEF IInv
  <1>6. Harmless(call[t]) => "DEBUG" \notin fl
    BY <1>2, <1>3, <1>4, CallKinds DEF Harmless, At
  <1>7. Devices' /\ (Leaked \/ NoDebug(dev'))
    BY <1>5, <1>6, ThreadFacts DEF FlagsAt, NoDebug
  <1>8. call[t] \notin BondCalls
    BY <1>3, CallKinds
  <1> QED
    BY <1>1, <1>2, <1>7, <1>8, EndsWithout

LEMMA BondBeginInv ==
  ASSUME IInv, NEW t \in Thread, BondBegin(t) PROVE IInv'
  <1>1. call[t] = Idle /\ dev' = dev
    BY DEF BondBegin
  <1>2. Devices' /\ (Leaked \/ NoDebug(dev')) /\ call[t] \notin BondCalls
    BY <1>1, ThreadFacts, CallKinds DEF IInv, Devices
  <1>3. CASE Ends(t) /\ UNCHANGED <<fds, early>>
    BY <1>2, <1>3, EndsWithout
  <1>4. ASSUME NEW op \in {"enslave", "release", "active", "sethw"},
               NEW s \in Slave \cup {Spare},
               fds < MaxFd, fds' = fds + 1, UNCHANGED early,
               Goes(t, [at |-> IF op = "sethw" THEN "join" ELSE "flags", op |-> op,
                        slave |-> s, flags |-> {}, mtu |-> 0, hw |-> 0,
                        quiet |-> TRUE])
        PROVE IInv'
    <2> DEFINE c == [at |-> IF op = "sethw" THEN "join" ELSE "flags", op |-> op,
                     slave |-> s, flags |-> {}, mtu |-> 0, hw |-> 0, quiet |-> TRUE]
    <2>1. c \in BondCalls /\ c.hw = 0 /\ "DEBUG" \notin c.flags
          /\ c.at \in {"flags", "join"} /\ (c.op = "enslave" => c.at = "flags")
      BY DEF BondCalls, BeforeAddr
    <2>2. Goes(t, c)
      BY <1>4
    <2> HIDE DEF c
    <2>3. Right(c) /\ Held(c) = 1 /\ Held(call[t]) = 0
      BY <1>2, <2>1 DEF Right, Held
    <2>4. /\ early \in Nat /\ fds \in Nat /\ MaxFd \in Nat
          /\ early' \in Nat /\ early <= early' /\ fds' \in Int /\ fds' <= MaxFd
          /\ fds' - early' = fds - early + Held(c) - Held(call[t])
      BY <1>4, <2>3, ThreadFacts
    <2>5. Leaked' \/ (NoDebug(dev') /\ Harmless(c))
      BY <1>2, <1>4, <2>1 DEF Leaked, Harmless
    <2>6. c.op = "enslave" => Brought(dev', c)
      BY <2>1 DEF Brought, BeforeMtu, BeforeHw
    <2> QED
      BY <1>2, <2>2, <2>3, <2>4, <2>5, <2>6, IfStep DEF NoDebug
  <1> QED
    BY <1>3, <1>4 DEF BondBegin

LEMMA BondFlagsInv ==
  ASSUME IInv, NEW t \in Thread, BondFlags(t) PROVE IInv'
  <1> DEFINE c == call[t]
  <1>1. PICK o \in Outcome :
          /\ Get(o, c.slave)
          /\ IF Refuses(c.op, sioc_gifflags(o, c.slave))
             THEN Ends(t) /\ early' = early + 1
             ELSE /\ Goes(t, [c EXCEPT !.flags = sioc_gifflags(o, c.slave),
                                       !.at = IF c.op = "enslave" THEN "down"
                                              ELSE "join"])
                  /\ UNCHANGED early
    BY DEF BondFlags
  <1>2. At(t, "flags") /\ fds' = fds
    BY DEF BondFlags
  <1>3. c \in BondCalls /\ c.at = "flags"
    BY <1>2, AtWhich DEF BeforeAddr, At
  <1>4. dev' = dev /\ May(o, Known(c.slave))
    BY <1>1 DEF Get
  <1>5. Devices' /\ (Leaked \/ NoDebug(dev'))
    BY <1>4, ThreadFacts DEF IInv, Devices
  <1> DEFINE fl == sioc_gifflags(o, c.slave)
             w == IF c.op = "enslave" THEN "down" ELSE "join"
             d == [c EXCEPT !.flags = fl, !.at = w]
  <1>6. CASE Refuses(c.op, fl)
    BY <1>1, <1>2, <1>3, <1>5, <1>6, LeavesDescriptor
  <1>7. CASE ~Refuses(c.op, fl)
    <2>1. fl \in SUBSET Flags /\ (NoDebug(dev) /\ "DEBUG" \in fl => fl = Flags)
      <3>1. CASE o = "ok"
        <4>1. c.slave \in DOMAIN dev
          BY <1>4, <3>1 DEF May, Known
        <4>2. dev[c.slave].flags \in SUBSET Flags
          BY <4>1 DEF IInv, Devices, Fields
        <4> QED
          BY <3>1, <4>1, <4>2 DEF sioc_gifflags, NoDebug
      <3>2. CASE o # "ok"
        BY <3>2 DEF Outcome, sioc_gifflags
      <3> QED
        BY <3>1, <3>2
    <2> HIDE DEF fl
    <2>2. w \in {"down", "join"} /\ w \in BeforeAddr \cup {"join"}
      BY DEF BeforeAddr
    <2>6. w = "join" <=> c.op # "enslave"
      OBVIOUS
    <2>0. d = [c EXCEPT !.flags = fl, !.at = w]
      OBVIOUS
    <2> HIDE DEF d, w
    <2>3. /\ d \in BondCalls /\ d.at = w /\ d.flags = fl /\ d.op = c.op
          /\ d.hw = c.hw
      BY <1>3, <2>0, <2>1, <2>2 DEF BondCalls, BeforeAddr
    <2>4. Goes(t, d) /\ early' = early
      BY <1>1, <1>7 DEF fl, w, d
    <2>5. c.op = "enslave" => fl # Flags
      BY <1>7 DEF Refuses, Flags
    <2>7. c.hw = 0
      BY <1>3, ThreadFacts
    <2>8. Right(d) /\ Held(d) = Held(c)
      BY <1>3, <2>2, <2>3, <2>6, <2>7 DEF Right, Held
    <2>9. Leaked \/ (NoDebug(dev') /\ Harmless(d))
      BY <1>4, <1>5, <2>1, <2>3, <2>5, <2>6 DEF Harmless
    <2>10. d.op = "enslave" => Brought(dev', d)
      BY <2>2, <2>3, <2>6 DEF Brought, BeforeMtu, BeforeHw
    <2> QED
      BY <1>2, <1>5, <2>4, <2>8, <2>9, <2>10, KeepsDescriptor
  <1> QED
    BY <1>6, <1>7

(* A step of bondenslave with its next place, or that fails.               *)
LEMMA OrInv ==
  ASSUME IInv, NEW t \in Thread, call[t] \in BondCalls, NEW o, NEW c, Or(t, o, c),
         Devices', Leaked \/ NoDebug(dev'), fds' = fds,
         o = "ok" => /\ Right(c) /\ c \in BondCalls
                     /\ Leaked \/ Harmless(c)
                     /\ (c.op = "enslave" /\ c.quiet) => Brought(dev', c)
  PROVE  IInv'
  <1>1. CASE o = "ok"
    <2>1. Goes(t, c) /\ UNCHANGED early
      BY <1>1 DEF Or
    <2>2. Held(c) = Held(call[t])
      BY <1>1 DEF Held
    <2> QED
      BY <1>1, <2>1, <2>2, KeepsDescriptor
  <1>2. CASE o # "ok"
    BY <1>2, LeavesDescriptor DEF Or
  <1> QED
    BY <1>1, <1>2

(* What a call at one of these steps is, and what holds of its next place. *)
LEMMA EnslaveAt ==
  ASSUME IInv, NEW t \in Thread, NEW w, At(t, w),
         w \in {"down", "addr0"} \cup BeforeMtu \cup BeforeHw
  PROVE  /\ call[t] \in BondCalls /\ call[t].at = w /\ call[t].op = "enslave"
         /\ w # "shw" => call[t].hw = 0
         /\ call[t].quiet => Brought(dev, call[t])
         /\ Leaked \/ (NoDebug(dev) /\ "DEBUG" \notin call[t].flags)
  <1>1. call[t] \in BondCalls /\ call[t].at = w
    BY AtWhich DEF At, BeforeAddr
  <1>2. w \notin {"flags", "join"}
    BY DEF BeforeMtu, BeforeHw
  <1>3. call[t] # Idle
    BY <1>1, CallKinds
  <1> QED
    BY <1>1, <1>2, <1>3, ThreadFacts DEF Harmless

LEMMA TakeDownInv ==
  ASSUME IInv, NEW t \in Thread, NEW o \in Outcome, TakeDown(t, o), fds' = fds
  PROVE  IInv'
  <1> DEFINE c == call[t]
  <1>1. CASE At(t, "down") /\ SetFlags(o, c.slave, c.flags \ {"UP"})
             /\ Next2(t, "addr0") /\ UNCHANGED early
    <2> DEFINE d == [c EXCEPT !.at = "addr0"]
    <2>1. /\ c \in BondCalls /\ c.at = "down" /\ c.op = "enslave" /\ c.hw = 0
          /\ Leaked \/ (NoDebug(dev) /\ "DEBUG" \notin c.flags)
      BY <1>1, EnslaveAt
    <2>2. d \in BondCalls /\ d.at = "addr0" /\ d.flags = c.flags /\ d.op = c.op
          /\ d.hw = c.hw
      BY <2>1, BondAtNext DEF BeforeAddr
    <2>3. Goes(t, d)
      BY <1>1 DEF Next2
    <2> HIDE DEF d
    <2>4. FlagsAt(c.slave, c.flags \ {"UP"})
      BY <1>1, FlagsKeep DEF IInv
    <2>5. Devices' /\ (Leaked \/ (NoDebug(dev') /\ Harmless(d)))
      BY <2>1, <2>2, <2>4 DEF FlagsAt, NoDebug, Harmless
    <2>6. Right(d) /\ Held(d) = Held(c)
      BY <2>1, <2>2 DEF Right, Held
    <2>7. Brought(dev', d)
      BY <2>2 DEF Brought, BeforeMtu, BeforeHw
    <2> QED
      BY <1>1, <2>3, <2>5, <2>6, <2>7, KeepsDescriptor
  <1>2. CASE At(t, "addr0") /\ Put(o, c.slave, "addr", 0)
             /\ Or(t, o, [c EXCEPT !.at = "gmtu"])
    <2> DEFINE d == [c EXCEPT !.at = "gmtu"]
    <2>1. /\ c \in BondCalls /\ c.at = "addr0" /\ c.op = "enslave" /\ c.hw = 0
          /\ Leaked \/ (NoDebug(dev) /\ "DEBUG" \notin c.flags)
      BY <1>2, EnslaveAt
    <2>2. d \in BondCalls /\ d.at = "gmtu" /\ d.flags = c.flags /\ d.op = c.op
          /\ d.hw = c.hw /\ d.slave = c.slave
      BY <2>1, BondAtNext DEF BeforeMtu
    <2>3. Or(t, o, d)
      BY <1>2
    <2> HIDE DEF d
    <2>4. PutAt(o, c.slave, "addr", 0)
      BY <1>2, PutKeeps DEF IInv, Numbers8
    <2>5. Devices' /\ (Leaked \/ (NoDebug(dev') /\ Harmless(d)))
      BY <2>1, <2>2, <2>4 DEF PutAt, NoDebug, Harmless
    <2>6. Right(d)
      BY <2>1, <2>2 DEF Right
    <2>7. o = "ok" => Brought(dev', d)
      BY <2>2, <2>4 DEF Brought, BeforeMtu, BeforeHw, PutAt
    <2> QED
      BY <2>1, <2>2, <2>3, <2>5, <2>6, <2>7, OrInv
  <1> QED
    BY <1>1, <1>2 DEF TakeDown, sioc_sifflags, sioc_sifaddr

LEMMA TakeMtuInv ==
  ASSUME IInv, NEW t \in Thread, NEW o \in Outcome, TakeMtu(t, o), fds' = fds
  PROVE  IInv'
  <1> DEFINE c == call[t]
  <1>1. CASE At(t, "gmtu") /\ Get(o, Master) /\ UNCHANGED early
             /\ Goes(t, [c EXCEPT !.at = "smtu", !.mtu = sioc_gifmtu(o, Master)])
    <2> DEFINE m == sioc_gifmtu(o, Master)
               d == [c EXCEPT !.at = "smtu", !.mtu = m]
    <2>1. /\ c \in BondCalls /\ c.at = "gmtu" /\ c.op = "enslave" /\ c.hw = 0
          /\ Leaked \/ (NoDebug(dev) /\ "DEBUG" \notin c.flags)
          /\ c.quiet => Brought(dev, c)
      BY <1>1, EnslaveAt DEF BeforeMtu
    <2>2. dev' = dev /\ May(o, Known(Master))
      BY <1>1 DEF Get
    <2>3. m \in Nat \cup {-1}
          /\ (m \notin {-1, 0} => Master \in DOMAIN dev /\ m = dev[Master].mtu)
      <3>1. CASE o = "ok"
        <4>1. Master \in DOMAIN dev
          BY <2>2, <3>1 DEF May, Known
        <4>2. dev[Master].mtu \in Nat
          BY <4>1 DEF IInv, Devices, Fields
        <4>3. m = dev[Master].mtu
          BY <3>1 DEF sioc_gifmtu, Asked
        <4> QED
          BY <4>1, <4>2, <4>3
      <3>2. CASE o # "ok"
        BY <3>2 DEF Outcome, sioc_gifmtu, Asked
      <3> QED
        BY <3>1, <3>2
    <2> HIDE DEF m
    <2>4. d \in BondCalls /\ d.at = "smtu" /\ d.flags = c.flags /\ d.op = c.op
          /\ d.hw = c.hw /\ d.slave = c.slave /\ d.mtu = m /\ d.quiet = c.quiet
      BY <2>1, <2>3 DEF BondCalls, BeforeMtu
    <2>5. Goes(t, d)
      BY <1>1 DEF m
    <2> HIDE DEF d
    <2>6. Devices' /\ (Leaked \/ (NoDebug(dev') /\ Harmless(d)))
      BY <2>1, <2>2, <2>4 DEF IInv, Devices, Harmless
    <2>7. Right(d) /\ Held(d) = Held(c)
      BY <2>1, <2>4 DEF Right, Held
    <2>8. c.quiet => Brought(dev', d)
      BY <2>1, <2>2, <2>3, <2>4 DEF Brought, BeforeMtu, BeforeHw
    <2> QED
      BY <1>1, <2>4, <2>5, <2>6, <2>7, <2>8, KeepsDescriptor
  <1>2. CASE At(t, "smtu") /\ Put(o, c.slave, "mtu", c.mtu)
             /\ Or(t, o, [c EXCEPT !.at = "mhw"])
    <2> DEFINE d == [c EXCEPT !.at = "mhw"]
    <2>1. /\ c \in BondCalls /\ c.at = "smtu" /\ c.op = "enslave" /\ c.hw = 0
          /\ Leaked \/ (NoDebug(dev) /\ "DEBUG" \notin c.flags)
          /\ c.quiet => Brought(dev, c)
      BY <1>2, EnslaveAt DEF BeforeMtu
    <2>2. d \in BondCalls /\ d.at = "mhw" /\ d.flags = c.flags /\ d.op = c.op
          /\ d.hw = c.hw /\ d.slave = c.slave /\ d.mtu = c.mtu /\ d.quiet = c.quiet
      BY <2>1, BondAtNext DEF BeforeHw
    <2>3. Or(t, o, d)
      BY <1>2
    <2> HIDE DEF d
    <2>4. PutAt(o, c.slave, "mtu", c.mtu)
      BY <1>2, PutKeeps DEF IInv, Numbers8
    <2>5. Devices' /\ (Leaked \/ (NoDebug(dev') /\ Harmless(d)))
      BY <2>1, <2>2, <2>4 DEF PutAt, NoDebug, Harmless
    <2>6. Right(d)
      BY <2>1, <2>2 DEF Right
    <2>7. o = "ok" /\ c.quiet => Brought(dev', d)
      <3> SUFFICES ASSUME o = "ok", c.quiet PROVE Brought(dev', d)
        OBVIOUS
      <3>1. c.slave \in DOMAIN dev /\ c.mtu \in Nat /\ dev'[c.slave].mtu = c.mtu
        <4>1. c.slave \in DOMAIN dev /\ c.mtu \in Values /\ dev'[c.slave].mtu = c.mtu
          BY <2>4, Zenon DEF PutAt
        <4>2. \A v \in Values : v \in Nat
          BY IfAssumption DEF Values
        <4> QED
          BY <4>1, <4>2
      <3>2. dev'[c.slave].addr = 0
        BY <2>1, <2>4, <3>1 DEF PutAt, Brought, BeforeMtu
      <3>3. c.mtu # 0 => Master \in DOMAIN dev /\ c.mtu = dev'[Master].mtu
        <4>1. c.mtu # 0 => Master \in DOMAIN dev /\ c.mtu = dev[Master].mtu
          BY <2>1, <3>1 DEF Brought
        <4> QED
          BY <2>4, <3>1, <4>1 DEF PutAt
      <3> QED
        BY <2>2, <2>4, <3>1, <3>2, <3>3 DEF Brought, PutAt
    <2> QED
      BY <2>1, <2>2, <2>3, <2>5, <2>6, <2>7, OrInv
  <1> QED
    BY <1>1, <1>2 DEF TakeMtu, sioc_sifmtu

LEMMA GiveAddressInv ==
  ASSUME IInv, NEW t \in Thread, NEW o \in Outcome, GiveAddress(t, o), fds' = fds
  PROVE  IInv'
  <1> DEFINE c == call[t]
  <1>1. ASSUME NEW w \in {"ghw", "join"}, At(t, "mhw"), dev' = dev,
               Or(t, o, [c EXCEPT !.at = w])
        PROVE  IInv'
    <2> DEFINE d == [c EXCEPT !.at = w]
    <2>1. /\ c \in BondCalls /\ c.at = "mhw" /\ c.op = "enslave" /\ c.hw = 0
          /\ Leaked \/ (NoDebug(dev) /\ "DEBUG" \notin c.flags)
          /\ c.quiet => Brought(dev, c)
      BY <1>1, EnslaveAt DEF BeforeHw
    <2>2. d \in BondCalls /\ d.at = w /\ d.flags = c.flags /\ d.op = c.op
          /\ d.hw = c.hw /\ d.slave = c.slave /\ d.mtu = c.mtu /\ d.quiet = c.quiet
      BY <2>1, BondAtNext DEF BeforeHw
    <2>3. Or(t, o, d)
      BY <1>1
    <2> HIDE DEF d
    <2>4. Devices' /\ (Leaked \/ (NoDebug(dev') /\ Harmless(d)))
      BY <1>1, <2>1, <2>2 DEF IInv, Devices, Harmless
    <2>5. Right(d)
      BY <2>1, <2>2 DEF Right
    <2>6. c.quiet => Brought(dev', d)
      BY <1>1, <2>1, <2>2 DEF Brought, BeforeMtu, BeforeHw
    <2> QED
      BY <2>1, <2>2, <2>3, <2>4, <2>5, <2>6, OrInv
  <1>2. CASE At(t, "ghw") /\ Get(o, c.slave)
             /\ Or(t, o, [c EXCEPT !.at = "shw", !.hw = sioc_gifhwaddr(o, c.slave).addr])
    <2> DEFINE h == sioc_gifhwaddr(o, c.slave).addr
               d == [c EXCEPT !.at = "shw", !.hw = h]
    <2>1. /\ c \in BondCalls /\ c.at = "ghw" /\ c.op = "enslave" /\ c.hw = 0
          /\ Leaked \/ (NoDebug(dev) /\ "DEBUG" \notin c.flags)
          /\ c.quiet => Brought(dev, c)
      BY <1>2, EnslaveAt DEF BeforeHw
    <2>2. dev' = dev /\ May(o, Known(c.slave))
      BY <1>2 DEF Get
    <2>3. o = "ok" => h \in Nat
      <3> SUFFICES ASSUME o = "ok" PROVE h \in Nat
        OBVIOUS
      <3>1. c.slave \in DOMAIN dev
        BY <2>2 DEF May, Known
      <3>2. dev[c.slave].hwaddr \in Nat
        BY <3>1 DEF IInv, Devices, Fields
      <3>3. h = dev[c.slave].hwaddr
        BY DEF sioc_gifhwaddr, Asked
      <3> QED
        BY <3>2, <3>3
    <2>4. Or(t, o, d)
      BY <1>2
    <2> HIDE DEF h
    <2>5. o = "ok" =>
            d \in BondCalls /\ d.at = "shw" /\ d.flags = c.flags /\ d.op = c.op
            /\ d.slave = c.slave /\ d.mtu = c.mtu /\ d.quiet = c.quiet
      BY <2>1, <2>3 DEF BondCalls, BeforeHw
    <2> HIDE DEF d
    <2>6. Devices' /\ (Leaked \/ NoDebug(dev'))
          /\ (o = "ok" => Leaked \/ Harmless(d))
      BY <2>1, <2>2, <2>5 DEF IInv, Devices, Harmless
    <2>7. o = "ok" => Right(d)
      BY <2>1, <2>5 DEF Right
    <2>8. o = "ok" /\ c.quiet => Brought(dev', d)
      BY <2>1, <2>2, <2>5 DEF Brought, BeforeMtu, BeforeHw
    <2> QED
      BY <1>2, <2>1, <2>4, <2>5, <2>6, <2>7, <2>8, OrInv
  <1>3. CASE At(t, "shw") /\ Put(o, Master, "hwaddr", c.hw)
             /\ Or(t, o, [c EXCEPT !.at = "join"])
    <2> DEFINE d == [c EXCEPT !.at = "join"]
    <2>1. /\ c \in BondCalls /\ c.at = "shw" /\ c.op = "enslave"
          /\ Leaked \/ (NoDebug(dev) /\ "DEBUG" \notin c.flags)
          /\ c.quiet => Brought(dev, c)
      BY <1>3, EnslaveAt DEF BeforeHw
    <2>2. d \in BondCalls /\ d.at = "join" /\ d.flags = c.flags /\ d.op = c.op
          /\ d.hw = c.hw /\ d.slave = c.slave /\ d.mtu = c.mtu /\ d.quiet = c.quiet
      BY <2>1, BondAtNext DEF BeforeHw
    <2>3. Or(t, o, d)
      BY <1>3
    <2> HIDE DEF d
    <2>4. PutAt(o, Master, "hwaddr", c.hw)
      BY <1>3, PutKeeps DEF IInv, Numbers8
    <2>5. Devices' /\ (Leaked \/ (NoDebug(dev') /\ Harmless(d)))
      BY <2>1, <2>2, <2>4 DEF PutAt, NoDebug, Harmless
    <2>6. Right(d)
      BY <2>1, <2>2 DEF Right
    <2>7. o = "ok" /\ c.quiet => Brought(dev', d)
      BY <2>1, <2>2, <2>4 DEF Brought, BeforeMtu, BeforeHw, PutAt
    <2> QED
      BY <2>1, <2>2, <2>3, <2>5, <2>6, <2>7, OrInv
  <1>4. CASE At(t, "mhw") /\ Get(o, Master)
             /\ Or(t, o, [c EXCEPT !.at = IF sioc_gifhwaddr(o, Master).addr = 0
                                          THEN "ghw" ELSE "join"])
    <2>1. PICK w : w = IF sioc_gifhwaddr(o, Master).addr = 0 THEN "ghw" ELSE "join"
      OBVIOUS
    <2> QED
      BY <1>1, <1>4, <2>1 DEF Get
  <1> QED
    BY <1>2, <1>3, <1>4 DEF GiveAddress, sioc_sifhwaddr

LEMMA BondJoinInv ==
  ASSUME IInv, NEW t \in Thread, BondJoin(t) PROVE IInv'
  <1> DEFINE c == call[t]
  <1>1. /\ At(t, "join") /\ Ends(t) /\ fds' = fds - 1 /\ early' = early
        /\ \/ /\ c.slave \in DOMAIN dev /\ Master \in DOMAIN dev
              /\ dev' = Joined(c.op, c.slave)
           \/ dev' = dev
    BY DEF BondJoin, Close, Known
  <1>2. c \in BondCalls
    BY <1>1, AtWhich
  <1>3. Devices' /\ (NoDebug(dev) => NoDebug(dev'))
    <2>1. CASE dev' = dev
      BY <2>1 DEF IInv, Devices
    <2>2. CASE /\ c.slave \in DOMAIN dev /\ Master \in DOMAIN dev
               /\ dev' = Joined(c.op, c.slave)
      <3> DEFINE n == c.slave
                 r == dev[n]
      <3>1. r \in Fields
        BY <2>2 DEF IInv, Devices
      <3>2. ASSUME NEW s \in Fields, "DEBUG" \in s.flags => "DEBUG" \in r.flags,
                   dev' = [dev EXCEPT ![n] = s]
            PROVE  Devices' /\ (NoDebug(dev) => NoDebug(dev'))
        <4>1. /\ Devices' /\ DOMAIN dev' = DOMAIN dev /\ dev'[n] = s
              /\ \A x \in DOMAIN dev : x # n => dev'[x] = dev[x]
          BY <2>2, <3>2, TablePut DEF IInv
        <4> QED
          BY <2>2, <3>2, <4>1 DEF NoDebug
      <3>3. CASE c.op = "enslave"
        <4> DEFINE s == [r EXCEPT !.flags = @ \cup {"SLAVE", "UP"}, !.master = Master]
        <4>1. s \in Fields /\ s.flags = r.flags \cup {"SLAVE", "UP"}
          BY <3>1 DEF Fields, Flags, Name
        <4>2. dev' = [dev EXCEPT ![n] = s]
          BY <2>2, <3>1, <3>3 DEF Joined, Fields
        <4> QED
          BY <3>2, <4>1, <4>2
      <3>4. CASE c.op = "release"
        <4> DEFINE s == [r EXCEPT !.flags = @ \ {"SLAVE", "UP"}, !.master = "none"]
        <4>1. s \in Fields /\ s.flags = r.flags \ {"SLAVE", "UP"}
          BY <3>1 DEF Fields, Flags, Name
        <4>2. dev' = [dev EXCEPT ![n] = s]
          BY <2>2, <3>1, <3>4 DEF Joined, Fields
        <4> QED
          BY <3>2, <4>1, <4>2
      <3>5. CASE c.op = "sethw"
        <4> DEFINE s == [r EXCEPT !.hwaddr = dev[Master].hwaddr]
        <4>1. s \in Fields /\ s.flags = r.flags
          BY <2>2, <3>1 DEF Fields, IInv, Devices
        <4>2. dev' = [dev EXCEPT ![n] = s]
          BY <2>2, <3>1, <3>5 DEF Joined
        <4> QED
          BY <3>2, <4>1, <4>2
      <3>6. CASE c.op = "active"
        BY <2>2, <3>6 DEF Joined, IInv, Devices
      <3>7. c.op \in {"enslave", "release", "active", "sethw"}
        BY <1>2 DEF BondCalls
      <3> QED
        BY <3>3, <3>4, <3>5, <3>6, <3>7
    <2> QED
      BY <1>1, <2>1, <2>2
  <1>4. /\ early \in Nat /\ fds \in Nat /\ fds <= MaxFd /\ MaxFd \in Nat
        /\ Leaked \/ NoDebug(dev)
    BY ThreadFacts
  <1>5. Held(c) = 1 /\ Held(Idle) = 0 /\ Right(Idle) /\ Idle \notin BondCalls
    BY <1>2, CallKinds DEF Held, Right
  <1>6. /\ early' \in Nat /\ early <= early' /\ fds' \in Int /\ fds' <= MaxFd
        /\ fds' - early' = fds - early + Held(Idle) - Held(c)
    BY <1>1, <1>4, <1>5
  <1>7. Leaked' \/ (NoDebug(dev') /\ Harmless(Idle))
    BY <1>1, <1>3, <1>4 DEF Leaked, Harmless
  <1>8. Goes(t, Idle)
    BY <1>1 DEF Ends
  <1> QED
    BY <1>3, <1>5, <1>6, <1>7, <1>8, IfStep DEF NoDebug

LEMMA EnslaveInv ==
  ASSUME IInv, NEW t \in Thread, sioc_bondenslave(t) PROVE IInv'
  <1>1. fds' = fds /\ \E o \in Outcome : TakeDown(t, o) \/ TakeMtu(t, o) \/ GiveAddress(t, o)
    BY DEF sioc_bondenslave
  <1> QED
    BY <1>1, TakeDownInv, TakeMtuInv, GiveAddressInv

LEMMA IfNextInv ==
  ASSUME IInv, [INext]_ivars PROVE IInv'
  <1>1. ASSUME NEW t \in Thread, Read(t) \/ ChangeTables(t) PROVE IInv'
    BY <1>1, NothingGoes DEF Read, ChangeTables, Simple
  <1>2. ASSUME NEW t \in Thread, Change(t) PROVE IInv'
    BY <1>2, ChangeInv
  <1>3. ASSUME NEW t \in Thread, IfBegin(t) PROVE IInv'
    BY <1>3, IfBeginInv
  <1>4. ASSUME NEW t \in Thread, IfAddr(t) PROVE IInv'
    BY <1>4, IfAddrInv
  <1>5. ASSUME NEW t \in Thread, IfSet(t) PROVE IInv'
    BY <1>5, IfSetInv
  <1>6. ASSUME NEW t \in Thread, BondBegin(t) PROVE IInv'
    BY <1>6, BondBeginInv
  <1>7. ASSUME NEW t \in Thread, BondFlags(t) PROVE IInv'
    BY <1>7, BondFlagsInv
  <1>8. ASSUME NEW t \in Thread, sioc_bondenslave(t) PROVE IInv'
    BY <1>8, EnslaveInv
  <1>9. ASSUME NEW t \in Thread, BondJoin(t) PROVE IInv'
    BY <1>9, BondJoinInv
  <1>10. CASE UNCHANGED ivars
    BY <1>10, NothingGoes DEF ivars
  <1> QED
    BY <1>1, <1>2, <1>3, <1>4, <1>5, <1>6, <1>7, <1>8, <1>9, <1>10 DEF INext

-----------------------------------------------------------------------------
(* The properties.                                                         *)

LEMMA IfSafe == IInv => ITypeOK /\ FlagsTrue
  <1> SUFFICES ASSUME IInv PROVE ITypeOK /\ FlagsTrue
    OBVIOUS
  <1>1. \A n \in DOMAIN dev : n \in Name /\ dev[n].flags \subseteq Flags
    BY DEF IInv, Devices, Fields
  <1>2. fds \in 0..MaxFd /\ fds = early + Cardinality(Bonding)
    <2>1. Bonding = {t \in Thread : call[t] \in BondCalls}
      BY BondingIs DEF IInv
    <2>2. Cardinality(Bonding) \in Nat
      BY <2>1, IfAssumption, FS_Subset, FS_CardinalityType
    <2> QED
      BY <2>2, IfAssumption DEF IInv, Descriptors
  <1>3. FlagsTrue
    BY DEF IInv, Debugged, Leaked, FlagsTrue
  <1> QED
    BY <1>1, <1>2, <1>3 DEF ITypeOK, Bonding

(* Whose call ends is the one that takes the step.                         *)
LEMMA OnlyOwnEnds ==
  ASSUME IInv, NEW t \in Thread, NEW u \in Thread, NEW c, Goes(u, c),
         call[t] \in BondCalls, call'[t] = Idle
  PROVE  t = u
  <1> SUFFICES ASSUME t # u PROVE FALSE
    OBVIOUS
  <1>1. \/ call'[t] = call[t]
        \/ call'[t] = [call[t] EXCEPT !.quiet = FALSE]
    BY OthersGo DEF IInv
  <1>2. [call[t] EXCEPT !.quiet = FALSE] \in BondCalls
    BY Silenced
  <1> QED
    BY <1>1, <1>2, CallKinds

(* What an undisturbed enslave has changed when it joins the slave.        *)
JoinedRight(t) ==
  LET c == call[t] IN
  (At(t, "join") /\ c.op = "enslave" /\ c.quiet /\ dev' # dev /\ call'[t] = Idle)
    => /\ dev'[c.slave].addr = 0
       /\ c.mtu # 0 => dev'[c.slave].mtu = dev'[Master].mtu
       /\ c.hw # 0 => dev'[Master].hwaddr = c.hw

LEMMA JoinsRight ==
  ASSUME IInv, NEW t \in Thread, BondJoin(t) PROVE JoinedRight(t)
  <1> SUFFICES ASSUME At(t, "join"), call[t].op = "enslave", call[t].quiet, dev' # dev
               PROVE  /\ dev'[call[t].slave].addr = 0
                      /\ call[t].mtu # 0 => dev'[call[t].slave].mtu = dev'[Master].mtu
                      /\ call[t].hw # 0 => dev'[Master].hwaddr = call[t].hw
    BY DEF JoinedRight
  <1> DEFINE c == call[t]
             n == c.slave
             s == [dev[n] EXCEPT !.flags = @ \cup {"SLAVE", "UP"}, !.master = Master]
  <1>1. c \in BondCalls /\ c.at = "join"
    BY AtWhich DEF At
  <1>2. Brought(dev, c)
    BY <1>1, ThreadFacts
  <1>3. n \in DOMAIN dev /\ Master \in DOMAIN dev /\ dev' = Joined(c.op, n)
    BY DEF BondJoin, Known
  <1>4. dev[n] \in Fields
    BY <1>3 DEF IInv, Devices
  <1>5. s \in Fields /\ s.addr = dev[n].addr /\ s.mtu = dev[n].mtu
        /\ s.hwaddr = dev[n].hwaddr
    BY <1>4 DEF Fields, Flags, Name
  <1>6. dev' = [dev EXCEPT ![n] = s]
    BY <1>3, <1>4 DEF Joined, Fields
  <1> HIDE DEF s
  <1>7. dev'[n] = s /\ \A x \in DOMAIN dev : x # n => dev'[x] = dev[x]
    BY <1>3, <1>5, <1>6, TablePut DEF IInv
  <1>8. \A x \in DOMAIN dev : /\ dev'[x].addr = dev[x].addr
                              /\ dev'[x].mtu = dev[x].mtu
                              /\ dev'[x].hwaddr = dev[x].hwaddr
    BY <1>5, <1>7
  <1> QED
    BY <1>1, <1>2, <1>3, <1>8 DEF Brought

LEMMA EnslavedStep ==
  ASSUME IInv, [INext]_ivars, NEW t \in Thread PROVE JoinedRight(t)
  <1> SUFFICES ASSUME At(t, "join"), dev' # dev, call'[t] = Idle PROVE JoinedRight(t)
    BY DEF JoinedRight
  <1>1. call[t] \in BondCalls /\ call[t].at = "join"
    BY AtWhich DEF At
  <1>2. PICK u \in Thread : \/ Change(u) \/ IfBegin(u) \/ IfAddr(u) \/ IfSet(u)
                            \/ BondBegin(u) \/ BondFlags(u)
                            \/ sioc_bondenslave(u) \/ BondJoin(u)
    BY DEF INext, ivars, Read, ChangeTables
  <1>3. \E c : Goes(u, c)
    BY <1>2 DEF Change, IfBegin, IfAddr, IfSet, BondBegin, BondFlags,
                sioc_bondenslave, BondJoin, TakeDown, TakeMtu, GiveAddress, Ends,
                Next2, Or
  <1>4. t = u
    BY <1>1, <1>3, OnlyOwnEnds
  <1>5. call[t] # Idle
    BY <1>1, CallKinds
  <1>6. ~Change(t) /\ ~IfBegin(t) /\ ~BondBegin(t)
    BY <1>5 DEF Change, IfBegin, BondBegin
  <1>7. ~IfAddr(t) /\ ~IfSet(t) /\ ~BondFlags(t)
    BY <1>1 DEF IfAddr, IfSet, BondFlags, At
  <1>8. ~sioc_bondenslave(t)
    BY <1>1 DEF sioc_bondenslave, TakeDown, TakeMtu, GiveAddress, At
  <1> QED
    BY <1>2, <1>4, <1>6, <1>7, <1>8, JoinsRight

(* What the calls of the bonding functions leave behind (BondLeaves): flags *)
(* that nobody asked for are written only when calls that returned early    *)
(* have left too few descriptors, the open ones are counted right, and an   *)
(* undisturbed bondenslave leaves its slave without address and with the    *)
(* MTU of its master.                                                      *)
THEOREM BondingLeavesRight == ISpec => BondLeaves
  <1>1. IInv /\ [INext]_ivars =>
          [\A t \in Thread :
             LET c == call[t] IN
             (At(t, "join") /\ c.op = "enslave" /\ c.quiet /\ dev' # dev
                /\ call'[t] = Idle)
               => /\ dev'[c.slave].addr = 0
                  /\ c.mtu # 0 => dev'[c.slave].mtu = dev'[Master].mtu
                  /\ c.hw # 0 => dev'[Master].hwaddr = c.hw]_ivars
    BY EnslavedStep DEF JoinedRight
  <1>2. IInit => IInv
    BY IfInitInv
  <1>3. IInv /\ [INext]_ivars => IInv'
    BY IfNextInv
  <1>4. IInv => ITypeOK /\ FlagsTrue
    BY IfSafe
  <1> QED
    BY <1>1, <1>2, <1>3, <1>4, PTL DEF ISpec, BondLeaves, Enslaved

-----------------------------------------------------------------------------
(* The NTP client and server.                                              *)

LEMMA NInitInv == NInit => NInv
  <1> SUFFICES ASSUME NInit PROVE NInv
    OBVIOUS
  <1>1. NTypeOK /\ ClockTrue /\ ClientAt
    <2>1. dead \in BOOLEAN
      BY Zenon DEF NInit
    <2>2. NTypeOK
      BY <2>1, NtpAssumption DEF NInit, NTypeOK
    <2>3. ClockTrue
      BY NtpAssumption DEF NInit, ClockTrue
    <2>4. syncing \in [port : Nat, at : 0..hour]
      BY DEF NInit, NotSyncing
    <2> QED
      BY <2>2, <2>3, <2>4 DEF NInit, ClientAt
  <1>2. Senders
    <2>1. \A h \in Host \cup {Us} : served[h] \in Seq([at : Nat, poll : Nat])
      BY DEF NInit
    <2> QED
      BY <2>1 DEF NInit, Senders
  <1>3. OnTheWay /\ Answered /\ Remembered
    BY DEF NInit, OnTheWay, Answered, Remembered
  <1> QED
    BY <1>1, <1>2, <1>3 DEF NInv

(* One more request of a host: what was recorded of it before stays, and   *)
(* nothing else changes.                                                   *)
LEMMA OneMore ==
  ASSUME Senders, NEW h \in Host, NEW r \in [at : Nat, poll : Nat],
         served' = [served EXCEPT ![h] = Append(@, r)]
  PROVE  /\ served' \in [Host \cup {Us} -> Seq([at : Nat, poll : Nat])]
         /\ Len(served[h]) \in Nat /\ Len(served'[h]) = Len(served[h]) + 1
         /\ \A i \in 1..Len(served[h]) : served'[h][i] = served[h][i]
         /\ \A g \in (Host \cup {Us}) \ {h} : served'[g] = served[g]
  <1>1. served[h] \in Seq([at : Nat, poll : Nat])
    BY DEF Senders
  <1>2. served'[h] = Append(served[h], r)
    BY DEF Senders
  <1>3. Append(served[h], r) \in Seq([at : Nat, poll : Nat])
    BY <1>1
  <1>4. served' \in [Host \cup {Us} -> Seq([at : Nat, poll : Nat])]
    BY <1>3 DEF Senders
  <1>5. \A g \in (Host \cup {Us}) \ {h} : served'[g] = served[g]
    BY DEF Senders
  <1> QED
    BY <1>1, <1>2, <1>4, <1>5, AppendProperties

(* What was told of an earlier request is still of it.                     *)
LEMMA StillAnswered ==
  ASSUME NInv, NEW h \in Host, NEW r \in [at : Nat, poll : Nat],
         served' = [served EXCEPT ![h] = Append(@, r)], NEW d \in told, d.nth > 0
  PROVE  OfRequest(d)'
  <1>1. PICK i \in 1..d.nth : /\ IsOf(d.addr, d.nth, d.ref, i)
                              /\ served[d.addr][i].poll > 0
                                   => d.nth - i <= served[d.addr][i].poll
    BY DEF NInv, Answered, OfRequest
  <1>2. d.addr \in Host /\ d.nth \in Nat
    BY DEF NInv, Answered, OfRequest
  <1>3. i \in 1..Len(served[d.addr]) /\ Len(served[d.addr]) \in Nat
    <2>1. served[d.addr] \in Seq([at : Nat, poll : Nat])
      BY <1>2 DEF NInv, Senders
    <2>2. Len(served[d.addr]) \in Nat
      BY <2>1
    <2> QED
      BY <1>1, <1>2, <2>2 DEF IsOf
  <1>4. Senders
    BY DEF NInv
  <1>5. served'[d.addr][i] = served[d.addr][i]
    BY <1>2, <1>3, <1>4, OneMore
  <1>6. Len(served[d.addr]) <= Len(served'[d.addr])
    BY <1>2, <1>3, <1>4, OneMore
  <1>7. IsOf(d.addr, d.nth, d.ref, i)'
    <2>1. d.nth <= Len(served'[d.addr])
      <3>1. d.nth <= Len(served[d.addr])
        BY <1>1 DEF IsOf
      <3>2. Len(served'[d.addr]) \in Nat
        BY <1>2, <1>4, OneMore
      <3> QED
        BY <1>2, <1>3, <1>6, <3>1, <3>2
    <2> QED
      BY <1>1, <1>5, <2>1 DEF IsOf
  <1> QED
    BY <1>1, <1>2, <1>5, <1>7 DEF OfRequest

(* An entry of another host.                                               *)
LEMMA StillRemembered ==
  ASSUME NInv, NEW h \in Host, NEW r \in [at : Nat, poll : Nat],
         served' = [served EXCEPT ![h] = Append(@, r)],
         NEW p \in ntptab, p.addr # h
  PROVE  Entered(p)'
  <1>1. p \in [addr : Host, poll : Int, ref : Nat]
    BY DEF NInv, Remembered, Entered
  <1>2. served'[p.addr] = served[p.addr]
    BY <1>1, OneMore DEF NInv
  <1>3. PICK i \in 1..Len(served[p.addr]) :
          /\ IsOf(p.addr, Len(served[p.addr]), p.ref, i)
          /\ served[p.addr][i].poll > 0
               => /\ p.poll > 0
                  /\ p.poll + Len(served[p.addr]) - i = served[p.addr][i].poll
    BY DEF NInv, Remembered, Entered
  <1>4. IsOf(p.addr, Len(served[p.addr]), p.ref, i)'
    BY <1>2, <1>3 DEF IsOf
  <1> QED
    BY <1>1, <1>2, <1>3, <1>4 DEF Entered

(* The server answers m, and what it tells is of a request of the host that *)
(* asked.                                                                  *)
LEMMA AnswerInv ==
  ASSUME NInv, NEW m \in requests, m.addr \in Host, m.poll \in Nat, NEW ref,
         AnswerTo(m, ref), UNCHANGED <<hour, syncing, syncs, requests>>,
         NEW i \in 1..(Len(served[m.addr]) + 1),
         served'[m.addr][i].at = ref,
         served'[m.addr][i].poll > 0
           => Len(served[m.addr]) + 1 - i <= served'[m.addr][i].poll
  PROVE  Senders' /\ OnTheWay' /\ Answered'
  <1>n. PICK n : n = Len(served[m.addr])
    OBVIOUS
  <1>r. PICK r : r = [at |-> hour, poll |-> m.poll]
    OBVIOUS
  <1>d. PICK d0 : d0 = [addr |-> m.addr, port |-> m.port, xmt |-> Unset, ref |-> ref,
                        nth |-> n + 1]
    OBVIOUS
  <1>1. r \in [at : Nat, poll : Nat]
    BY <1>r, NtpAssumption DEF NInv, NTypeOK
  <1>2. served' = [served EXCEPT ![m.addr] = Append(@, r)] /\ told' = told \cup {d0}
    BY <1>n, <1>r, <1>d DEF AnswerTo
  <1>3. /\ served' \in [Host \cup {Us} -> Seq([at : Nat, poll : Nat])]
        /\ n \in Nat /\ Len(served'[m.addr]) = n + 1
    BY <1>1, <1>2, <1>n, OneMore DEF NInv
  <1>4. OfRequest(d0)'
    <2>1. IsOf(m.addr, n + 1, ref, i)'
      BY <1>3, <1>n DEF IsOf
    <2> QED
      BY <1>3, <1>n, <1>d, <2>1 DEF OfRequest
  <1>5. m.addr # Us
    BY NtpAssumption
  <1>6. Senders'
    BY <1>3 DEF NInv, Senders
  <1>7. OnTheWay'
    BY <1>2, <1>5, <1>d DEF NInv, OnTheWay
  <1>8. Answered'
    <2> SUFFICES ASSUME NEW d \in told'
                 PROVE  d.nth \in Nat /\ (d.nth > 0 => OfRequest(d)')
      BY DEF Answered
    <2>1. CASE d = d0
      BY <1>3, <1>4, <1>d, <2>1
    <2>2. CASE d # d0
      <3>1. d \in told /\ d.nth \in Nat
        BY <1>2, <2>2 DEF NInv, Answered
      <3> QED
        BY <1>1, <1>2, <3>1, StillAnswered
    <2> QED
      BY <2>1, <2>2
  <1> QED
    BY <1>6, <1>7, <1>8

LEMMA ServerInv ==
  ASSUME NInv, NEW m \in requests, ntpstask(m) PROVE NInv'
  <1>n. PICK n : n = Len(served[m.addr])
    OBVIOUS
  <1>r. PICK r : r = [at |-> hour, poll |-> m.poll]
    OBVIOUS
  <1>1. m.addr \in Host /\ m.poll \in Nat /\ m.whole
    BY DEF ntpstask, Enough, NInv, Senders
  <1>2. UNCHANGED <<hour, ours, syncing, syncs, requests, since>>
    BY DEF ntpstask
  <1>3. r \in [at : Nat, poll : Nat]
    BY <1>1, <1>r, NtpAssumption DEF NInv, NTypeOK
  <1>4. ClockTrue' /\ ClientAt'
    BY <1>2 DEF NInv, ClockTrue, ClientAt
  <1>5. ASSUME served' = [served EXCEPT ![m.addr] = Append(@, r)]
        PROVE  /\ n \in Nat /\ Len(served'[m.addr]) = n + 1
               /\ served'[m.addr][n + 1] = r
               /\ \A j \in 1..n : served'[m.addr][j] = served[m.addr][j]
    <2>1. Senders
      BY DEF NInv
    <2>2. /\ Len(served[m.addr]) \in Nat
          /\ Len(served'[m.addr]) = Len(served[m.addr]) + 1
          /\ \A j \in 1..Len(served[m.addr]) : served'[m.addr][j] = served[m.addr][j]
      BY <1>1, <1>3, <1>5, <2>1, OneMore
    <2>3. served'[m.addr][Len(served[m.addr]) + 1] = r
      <3>1. served[m.addr] \in Seq([at : Nat, poll : Nat])
        BY <1>1, <2>1 DEF Senders
      <3>2. served'[m.addr] = Append(served[m.addr], r)
        BY <1>1, <1>5, <2>1 DEF Senders
      <3> QED
        BY <3>1, <3>2
    <2> QED
      BY <1>n, <2>2, <2>3, Zenon
  <1>6. ASSUME NEW p \in ntpfind(m.addr),
               ntptab' = (ntptab \ {p}) \cup Counted(p),
               AnswerTo(m, p.ref), UNCHANGED dead
        PROVE  NInv'
    <2>1. p \in ntptab /\ p.addr = m.addr /\ Entered(p)
      BY <1>6 DEF ntpfind, NInv, Remembered
    <2>2. served' = [served EXCEPT ![m.addr] = Append(@, r)]
      BY <1>6, <1>r DEF AnswerTo
    <2>3. PICK i \in 1..n :
            /\ IsOf(m.addr, n, p.ref, i)
            /\ served[m.addr][i].poll > 0
                 => p.poll > 0 /\ p.poll + n - i = served[m.addr][i].poll
      BY <2>1, <1>n DEF Entered
    <2>4. /\ n \in Nat /\ Len(served'[m.addr]) = n + 1 /\ i \in 1..(n + 1)
          /\ served'[m.addr][i] = served[m.addr][i] /\ served[m.addr][i].at = p.ref
      BY <1>5, <2>2, <2>3 DEF IsOf
    <2>5. p.poll \in Int /\ p \in [addr : Host, poll : Int, ref : Nat]
      BY <2>1 DEF Entered
    <2>6. served'[m.addr][i].poll > 0 => n + 1 - i <= served'[m.addr][i].poll
      BY <2>3, <2>4, <2>5
    <2>7. Senders' /\ OnTheWay' /\ Answered'
      <3>1. i \in 1..(Len(served[m.addr]) + 1) /\ served'[m.addr][i].at = p.ref
        BY <1>n, <2>4
      <3>2. served'[m.addr][i].poll > 0
              => Len(served[m.addr]) + 1 - i <= served'[m.addr][i].poll
        BY <1>n, <2>6
      <3> QED
        BY <1>1, <1>2, <1>6, <3>1, <3>2, AnswerInv, Zenon
    <2>q. PICK q : q = [p EXCEPT !.poll = @ - 1]
      OBVIOUS
    <2>8. q.addr = m.addr /\ q.poll = p.poll - 1 /\ q.ref = p.ref
          /\ q \in [addr : Host, poll : Int, ref : Nat]
      BY <2>1, <2>5, <2>q
    <2>9. Counted(p) = IF q.poll # 0 THEN {q} ELSE {}
      BY <2>q DEF Counted
    <2>10. q.poll # 0 => Entered(q)'
      <3>1. IsOf(m.addr, n + 1, q.ref, i)'
        BY <2>3, <2>4, <2>8 DEF IsOf
      <3>2. ASSUME q.poll # 0, served'[m.addr][i].poll > 0
            PROVE  q.poll > 0 /\ q.poll + (n + 1) - i = served'[m.addr][i].poll
        BY <2>3, <2>4, <2>5, <2>8, <3>2
      <3> QED
        BY <2>4, <2>8, <3>1, <3>2 DEF Entered
    <2>11. Remembered'
      <3> SUFFICES ASSUME NEW x \in ntptab' PROVE Entered(x)'
        BY DEF Remembered
      <3>1. CASE x \in ntptab /\ x # p
        <4>1. x.addr # m.addr
          BY <2>1, <3>1 DEF NInv, NTypeOK
        <4> QED
          BY <1>1, <1>3, <2>2, <3>1, <4>1, StillRemembered
      <3>2. CASE x = q /\ q.poll # 0
        BY <2>10, <3>2
      <3> QED
        BY <1>6, <2>9, <3>1, <3>2
    <2>12. NTypeOK'
      <3>1. \A x, y \in ntptab' : x.addr = y.addr => x = y
        BY <1>6, <2>1, <2>8, <2>9 DEF NInv, NTypeOK
      <3> QED
        BY <1>2, <1>6, <3>1 DEF NInv, NTypeOK
    <2> QED
      BY <1>4, <2>7, <2>11, <2>12 DEF NInv
  <1>7. ASSUME ntpfind(m.addr) = {}, ntptab' = ntptab \cup {ntpadd(m)},
               AnswerTo(m, hour), UNCHANGED dead
        PROVE  NInv'
    <2>1. served' = [served EXCEPT ![m.addr] = Append(@, r)]
      BY <1>7, <1>r DEF AnswerTo
    <2>2. /\ n \in Nat /\ Len(served'[m.addr]) = n + 1 /\ n + 1 \in 1..(n + 1)
          /\ served'[m.addr][n + 1] = r
      BY <1>5, <2>1
    <2>3. n + 1 - (n + 1) <= r.poll
      BY <1>1, <1>r, <2>2
    <2>4. Senders' /\ OnTheWay' /\ Answered'
      <3>i. PICK i : i = n + 1
        OBVIOUS
      <3>1. i \in 1..(Len(served[m.addr]) + 1) /\ served'[m.addr][i].at = hour
        BY <1>n, <1>r, <2>2, <3>i
      <3>2. served'[m.addr][i].poll > 0
              => Len(served[m.addr]) + 1 - i <= served'[m.addr][i].poll
        BY <1>n, <2>2, <2>3, <3>i
      <3> QED
        BY <1>1, <1>2, <1>7, <3>1, <3>2, AnswerInv, Zenon
    <2>q. PICK q : q = ntpadd(m)
      OBVIOUS
    <2>5. /\ q \in [addr : Host, poll : Int, ref : Nat]
          /\ q.addr = m.addr /\ q.poll = m.poll /\ q.ref = hour
      BY <1>1, <1>3, <1>r, <2>q DEF ntpadd
    <2>6. \A x \in ntptab : x.addr # m.addr
      BY <1>7 DEF ntpfind
    <2>7. Entered(q)'
      <3>1. IsOf(m.addr, n + 1, q.ref, n + 1)'
        BY <1>r, <2>2, <2>5 DEF IsOf
      <3>2. r.poll > 0 => q.poll > 0 /\ q.poll + (n + 1) - (n + 1) = r.poll
        BY <1>1, <1>r, <2>2, <2>5
      <3> QED
        BY <2>2, <2>5, <3>1, <3>2 DEF Entered
    <2>8. Remembered'
      <3> SUFFICES ASSUME NEW x \in ntptab' PROVE Entered(x)'
        BY DEF Remembered
      <3>1. CASE x \in ntptab
        BY <1>1, <1>3, <2>1, <2>6, <3>1, StillRemembered
      <3>2. CASE x = q
        BY <2>7, <3>2
      <3> QED
        BY <1>7, <2>q, <3>1, <3>2
    <2>9. NTypeOK'
      <3>1. \A x, y \in ntptab' : x.addr = y.addr => x = y
        BY <1>7, <2>q, <2>5, <2>6 DEF NInv, NTypeOK
      <3> QED
        BY <1>2, <1>7, <3>1 DEF NInv, NTypeOK
    <2> QED
      BY <1>4, <2>4, <2>8, <2>9 DEF NInv
  <1>8. ASSUME dead' = TRUE, UNCHANGED <<ntptab, told, served>>
        PROVE  NInv'
    <2>1. NTypeOK'
      BY <1>2, <1>8 DEF NInv, NTypeOK
    <2>2. Senders' /\ OnTheWay'
      BY <1>2, <1>8 DEF NInv, Senders, OnTheWay
    <2>3. Answered' /\ Remembered'
      BY <1>8 DEF NInv, Answered, OfRequest, Remembered, Entered, IsOf
    <2> QED
      BY <1>4, <2>1, <2>2, <2>3 DEF NInv
  <1> QED
    BY <1>6, <1>7, <1>8 DEF ntpstask

(* What touches neither the table nor what was recorded of the hosts.      *)
LEMMA TableStays ==
  ASSUME NInv, UNCHANGED <<ntptab, served>>,
         \A d \in told' : d \in told \/ d.nth = 0
  PROVE  Answered' /\ Remembered'
  BY DEF NInv, Answered, OfRequest, Remembered, Entered, IsOf

LEMMA ClientInv ==
  ASSUME NInv, syncntp \/ GiveUp \/ OtherServer \/ Hour
                 \/ (\E h \in Host, p \in Poll : AskTime(h, p))
                 \/ (\E d \in told : SetClock(d))
  PROVE  NInv'
  <1>0. /\ hour \in Nat /\ syncs \in Nat /\ syncing.port \in Nat /\ syncing.at \in Nat
        /\ syncing \in [port : Nat, at : 0..hour] /\ syncing.at <= hour
    BY NtpAssumption DEF NInv, NTypeOK, ClientAt
  <1>1. CASE syncntp
    <2>1. /\ syncs' = syncs + 1 /\ syncing' = [port |-> syncs + 1, at |-> hour]
          /\ requests' \in {requests, requests \cup {sndntp(syncs + 1)}}
          /\ UNCHANGED <<ntptab, dead, hour, ours, told, served, since>>
          /\ syncs < MaxSyncs
      BY <1>1 DEF syncntp, Port
    <2>2. NTypeOK'
      BY <1>0, <2>1, NtpAssumption DEF NInv, NTypeOK
    <2>3. ClientAt' /\ ClockTrue'
      BY <1>0, <2>1 DEF NInv, ClientAt, ClockTrue
    <2>4. Senders'
      BY <2>1 DEF NInv, Senders, sndntp
    <2>5. OnTheWay'
      BY <1>0, <2>1 DEF NInv, OnTheWay
    <2>6. Answered' /\ Remembered'
      BY <2>1, TableStays
    <2> QED
      BY <2>2, <2>3, <2>4, <2>5, <2>6 DEF NInv
  <1>2. CASE GiveUp
    <2>1. /\ syncing' = NotSyncing
          /\ UNCHANGED <<ntptab, dead, hour, ours, syncs, requests, told, served,
                         since>>
      BY <1>2 DEF GiveUp
    <2>2. NTypeOK' /\ ClockTrue' /\ Senders' /\ OnTheWay'
      BY <2>1 DEF NInv, NTypeOK, ClockTrue, Senders, OnTheWay
    <2>3. ClientAt'
      BY <1>0, <2>1 DEF NInv, ClientAt, NotSyncing
    <2>4. Answered' /\ Remembered'
      BY <2>1, TableStays
    <2> QED
      BY <2>2, <2>3, <2>4 DEF NInv
  <1>3. CASE OtherServer
    <2>1. /\ syncing # NotSyncing
          /\ told' = told \cup {[addr |-> Us, port |-> syncing.port, xmt |-> hour,
                                 ref |-> hour, nth |-> 0]}
          /\ UNCHANGED <<ntptab, dead, hour, ours, syncing, syncs, requests, served,
                         since>>
      BY <1>3 DEF OtherServer
    <2>2. NTypeOK' /\ ClockTrue' /\ Senders' /\ ClientAt'
      BY <2>1 DEF NInv, NTypeOK, ClockTrue, Senders, ClientAt
    <2>3. syncing.port \in 0..syncs
      BY <1>0, <2>1 DEF NInv, ClientAt
    <2>4. OnTheWay'
      BY <1>0, <2>1, <2>3 DEF NInv, OnTheWay
    <2>5. Answered' /\ Remembered'
      BY <2>1, TableStays
    <2> QED
      BY <2>2, <2>4, <2>5 DEF NInv
  <1>4. CASE Hour
    <2>1. /\ hour' = hour + 1 /\ hour < MaxHour
          /\ UNCHANGED <<ntptab, dead, ours, syncing, syncs, requests, told, served,
                         since>>
      BY <1>4 DEF Hour
    <2>2. NTypeOK'
      BY <1>0, <2>1, NtpAssumption DEF NInv, NTypeOK
    <2>3. ClientAt'
      <3>1. syncing \in [port : Nat, at : 0..(hour + 1)]
        BY <1>0
      <3> QED
        BY <2>1, <3>1 DEF NInv, ClientAt
    <2>4. ClockTrue' /\ Senders'
      BY <2>1 DEF NInv, ClockTrue, Senders
    <2>5. OnTheWay'
      BY <1>0, <2>1 DEF NInv, OnTheWay
    <2>6. Answered' /\ Remembered'
      BY <2>1, TableStays
    <2> QED
      BY <2>2, <2>3, <2>4, <2>5, <2>6 DEF NInv
  <1>5. ASSUME NEW h \in Host, NEW p \in Poll, AskTime(h, p) PROVE NInv'
    <2>1. /\ requests' = requests \cup {Whole(h, p)}
          /\ UNCHANGED <<ntptab, dead, hour, ours, syncing, syncs, told, served, since>>
      BY <1>5 DEF AskTime
    <2>2. Senders'
      BY <2>1, NtpAssumption DEF NInv, Senders, Whole
    <2>3. NTypeOK' /\ ClockTrue' /\ ClientAt' /\ OnTheWay'
      BY <2>1 DEF NInv, NTypeOK, ClockTrue, ClientAt, OnTheWay
    <2>4. Answered' /\ Remembered'
      BY <2>1, TableStays
    <2> QED
      BY <2>2, <2>3, <2>4 DEF NInv
  <1>6. ASSUME NEW d \in told, SetClock(d) PROVE NInv'
    <2>1. /\ syncing # NotSyncing /\ d.addr = Us /\ d.port = syncing.port
          /\ ours' = d.xmt /\ since' = syncing.at /\ syncing' = NotSyncing
          /\ UNCHANGED <<ntptab, dead, hour, syncs, requests, told, served>>
      BY <1>6 DEF SetClock
    <2>2. d.xmt \in Nat /\ d.xmt >= syncing.at
      BY <1>0, <2>1 DEF NInv, OnTheWay
    <2>3. ClockTrue'
      BY <2>1, <2>2, NtpAssumption DEF ClockTrue
    <2>4. ClientAt'
      BY <1>0, <2>1, <2>2 DEF ClientAt, NotSyncing
    <2>5. NTypeOK' /\ Senders' /\ OnTheWay'
      BY <2>1 DEF NInv, NTypeOK, Senders, OnTheWay
    <2>6. Answered' /\ Remembered'
      BY <2>1, TableStays
    <2> QED
      BY <2>3, <2>4, <2>5, <2>6 DEF NInv
  <1> QED
    BY <1>1, <1>2, <1>3, <1>4, <1>5, <1>6

LEMMA NNextInv == NInv /\ [NNext]_nvars => NInv'
  <1>1. ASSUME NInv, UNCHANGED nvars PROVE NInv'
    <2>1. Answered' /\ Remembered'
      BY <1>1, TableStays DEF nvars
    <2>2. NTypeOK' /\ ClockTrue' /\ ClientAt' /\ Senders' /\ OnTheWay'
      BY <1>1 DEF nvars, NInv, NTypeOK, ClockTrue, ClientAt, Senders, OnTheWay
    <2> QED
      BY <2>1, <2>2 DEF NInv
  <1> QED
    BY <1>1, ServerInv, ClientInv DEF NNext

(* An answer of the server says a reference time that is the host's own    *)
(* and not too old.                                                        *)
LEMMA NInvHolds == NInv => NTypeOK /\ ClockTrue /\ ReferenceRecent
  <1> SUFFICES ASSUME NInv PROVE ReferenceRecent
    BY DEF NInv
  <1> QED
    BY DEF NInv, Answered, OfRequest, IsOf, ReferenceRecent

-----------------------------------------------------------------------------
(* The ping test.                                                          *)

LEMMA GInitInv == GInit => GInv
  <1> SUFFICES ASSUME GInit PROVE GInv
    OBVIOUS
  <1>1. \A t \in Tester : test[t] = NoTest
    BY DEF GInit
  <1>2. GTypeOK
    BY <1>1, PingAssumption DEF GInit, GTypeOK
  <1>3. Verdict /\ verdict.began \in Nat /\ (verdict.ok => verdict.addr \in Addr)
    BY DEF GInit, Verdict
  <1>4. /\ test \in [Tester -> Tests \cup {NoTest}]
        /\ reached \in [Addr -> -1..tick] /\ flying \in [Addr -> Nat]
    BY DEF GInit
  <1> QED
    BY <1>1, <1>2, <1>3, <1>4 DEF GInv

(* A test is a record of six fields, and NoTest is not.                    *)
LEMMA TestIsOne == \A w \in Tests : w # NoTest
  <1> SUFFICES ASSUME NEW w \in Tests, w = NoTest PROVE FALSE
    OBVIOUS
  <1>1. "t2" \in DOMAIN w /\ "t2" \notin DOMAIN NoTest
    BY DEF Tests, NoTest
  <1> QED
    BY <1>1

LEMMA PingStarts ==
  ASSUME GInv, NEW t \in Tester, NEW a \in Addr, NEW w \in Wait, pingtest(t, a, w)
  PROVE  GInv'
  <1>p. PICK p : p = [addr |-> a, began |-> tick, t2 |-> tick + w, until |-> tick + w,
                      late |-> 0, inbox |-> <<>>]
    OBVIOUS
  <1>1. /\ tests' = tests + 1 /\ tests < MaxTests /\ test' = [test EXCEPT ![t] = p]
        /\ UNCHANGED <<tick, stray, reached, verdict>>
    BY <1>p DEF pingtest
  <1>2. tick \in Nat /\ tests \in Nat
    BY PingAssumption DEF GInv, GTypeOK
  <1>3. p \in Tests
    <2>1. tick + w \in Nat
      BY <1>2, PingAssumption
    <2>2. <<>> \in Seq(Packets)
      OBVIOUS
    <2> QED
      BY <1>2, <1>p, <2>1, <2>2 DEF Tests
  <1>4. /\ test'[t] = p /\ test' \in [Tester -> Tests \cup {NoTest}]
        /\ \A u \in Tester \ {t} : test'[u] = test[u]
    BY <1>1, <1>3 DEF GInv
  <1>5. Waiting(t)'
    BY <1>1, <1>2, <1>3, <1>4, <1>p DEF Waiting
  <1>6. \A u \in Tester : test'[u] # NoTest => Waiting(u)'
    BY <1>1, <1>4, <1>5 DEF GInv, Waiting
  <1>7. GTypeOK'
    <2>1. \A u \in Tester : test'[u] # NoTest => test'[u].began <= tick'
      BY <1>6 DEF Waiting
    <2> QED
      BY <1>1, <1>2, <2>1, PingAssumption DEF GInv, GTypeOK
  <1>8. flying' \in [Addr -> Nat]
    <2>1. PICK n \in 0..NPacket + 1 : flying' = [flying EXCEPT ![a] = @ + n]
      BY DEF pingtest
    <2>2. flying[a] + n \in Nat
      BY PingAssumption DEF GInv
    <2> QED
      BY <2>1, <2>2 DEF GInv
  <1> QED
    BY <1>1, <1>4, <1>6, <1>7, <1>8 DEF GInv, Verdict

(* A test that ends: with a reply, or after its time.                      *)
LEMMA ResultInv ==
  ASSUME GInv, NEW t \in Tester, test[t] # NoTest, NEW ok \in BOOLEAN,
         NEW late \in 0..1,
         Result(t, ok, late), UNCHANGED <<tick, flying, tests, stray, reached>>,
         ok => reached[test[t].addr] >= test[t].began,
         ~ok => tick >= test[t].t2
  PROVE  GInv'
  <1>1. /\ test'[t] = NoTest /\ test' \in [Tester -> Tests \cup {NoTest}]
        /\ \A u \in Tester \ {t} : test'[u] = test[u]
    BY DEF GInv, Result
  <1>2. \A u \in Tester : test'[u] # NoTest => Waiting(u)'
    BY <1>1 DEF GInv, Waiting
  <1>3. GTypeOK'
    BY <1>1 DEF GInv, GTypeOK
  <1>4. Verdict'
    BY DEF Result, Verdict
  <1>5. verdict'.began \in Nat /\ verdict'.addr \in Addr
    <2>1. test[t] \in Tests
      BY DEF GInv, Waiting
    <2> QED
      BY <2>1 DEF Result, Tests
  <1> QED
    BY <1>1, <1>2, <1>3, <1>4, <1>5 DEF GInv

(* A test that waits on: its time is not over.                             *)
LEMMA WaitOnInv ==
  ASSUME GInv, NEW t \in Tester, test[t] # NoTest, NEW inbox, NEW late \in 0..1,
         WaitOn(t, inbox, late), UNCHANGED <<tick, flying, tests, stray, reached>>,
         tick < test[t].t2 => late = 0,
         inbox \in Seq(Packets),
         \A i \in DOMAIN inbox : inbox[i].reply /\ inbox[i].own
                                   => reached[inbox[i].addr] >= test[t].began
  PROVE  GInv'
  <1>1. test[t] \in Tests /\ Waiting(t) /\ tick \in Nat /\ test[t].t2 \in Nat
    <2>1. test[t] \in Tests /\ Waiting(t)
      BY DEF GInv, Waiting
    <2>2. test[t].t2 \in Nat
      BY <2>1 DEF Tests
    <2>3. tick \in Nat
      BY PingAssumption DEF GInv, GTypeOK
    <2> QED
      BY <2>1, <2>2, <2>3
  <1>2. CASE remain(t) <= 0 /\ Result(t, FALSE, late)
    <2>1. tick >= test[t].t2
      BY <1>1, <1>2 DEF remain
    <2> QED
      BY <1>2, <2>1, ResultInv, Zenon
  <1>3. ASSUME remain(t) > 0, UNCHANGED verdict,
               test' = [test EXCEPT ![t].inbox = inbox, ![t].late = late,
                                    ![t].until = tick + remain(t)]
        PROVE  GInv'
    <2>1. tick + remain(t) = test[t].t2 /\ late = 0
      <3>1. remain(t) = test[t].t2 - tick /\ remain(t) > 0
        BY <1>3 DEF remain
      <3> HIDE <1>3
      <3>2. tick < test[t].t2 /\ tick + remain(t) = test[t].t2
        BY <1>1, <3>1, SMTT(30)
      <3> QED
        BY <3>2
    <2>w. PICK w : w = [test[t] EXCEPT !.inbox = inbox, !.late = 0,
                                       !.until = test[t].t2]
      OBVIOUS
    <2>2. /\ test'[t] = w /\ DOMAIN test' = Tester
          /\ test' = [u \in Tester |-> test'[u]]
          /\ \A u \in Tester \ {t} : test'[u] = test[u]
      <3> DEFINE f1 == [test EXCEPT ![t] = [@ EXCEPT !.inbox = inbox]]
                 f2 == [f1 EXCEPT ![t] = [@ EXCEPT !.late = late]]
                 f3 == [f2 EXCEPT ![t] = [@ EXCEPT !.until = tick + remain(t)]]
      <3>1. test' = f3
        BY <1>3
      <3> QED
        BY <2>1, <2>w, <3>1 DEF GInv
    <2>3. /\ w \in Tests /\ w.until = w.t2 /\ w.began = test[t].began
          /\ w.inbox = inbox
      BY <1>1, <2>w DEF Tests
    <2>4. test' \in [Tester -> Tests \cup {NoTest}]
      BY <2>2, <2>3 DEF GInv
    <2>5. Waiting(t)'
      BY <1>1, <2>2, <2>3 DEF Waiting
    <2>6. \A u \in Tester : test'[u] # NoTest => Waiting(u)'
      <3>1. ASSUME NEW u \in Tester \ {t}, test'[u] # NoTest PROVE Waiting(u)'
        <4>1. test'[u] = test[u] /\ Waiting(u)
          BY <2>2, <3>1 DEF GInv
        <4> QED
          BY <2>2, <4>1 DEF Waiting
      <3> QED
        BY <2>5, <3>1, Zenon
    <2>7. GTypeOK'
      <3>1. \A u \in Tester : test'[u] # NoTest => test'[u].began <= tick'
        BY <2>6 DEF Waiting
      <3> QED
        BY <3>1 DEF GInv, GTypeOK
    <2> QED
      BY <1>3, <2>4, <2>6, <2>7 DEF GInv, Verdict
  <1> QED
    BY <1>2, <1>3 DEF WaitOn

LEMMA WaiterInv ==
  ASSUME GInv, NEW t \in Tester, wait_icmp_reply(t) \/ TimeOut(t) \/ Interrupted(t)
  PROVE  GInv'
  <1>0. /\ test[t] # NoTest /\ UNCHANGED <<tick, flying, tests, stray, reached>>
    BY DEF wait_icmp_reply, TimeOut, Interrupted
  <1>1. test[t] \in Tests /\ Waiting(t)
    BY <1>0 DEF GInv, Waiting
  <1>2. /\ test[t].t2 \in Nat /\ test[t].late = 0 /\ test[t].until = test[t].t2
        /\ test[t].inbox \in Seq(Packets)
    BY <1>1 DEF Tests, Waiting
  <1>3. tick \in Nat
    BY PingAssumption DEF GInv, GTypeOK
  <1>4. CASE wait_icmp_reply(t)
    <2>p. PICK p : p = Head(test[t].inbox)
      OBVIOUS
    <2>l. PICK late : late = test[t].late + (IF tick >= test[t].t2 THEN 1 ELSE 0)
      OBVIOUS
    <2>1. late \in 0..1 /\ (tick < test[t].t2 => late = 0)
      BY <1>2, <1>3, <2>l
    <2>2. /\ 1 \in DOMAIN test[t].inbox /\ p = test[t].inbox[1]
          /\ Tail(test[t].inbox) \in Seq(Packets)
          /\ \A i \in DOMAIN Tail(test[t].inbox) :
               /\ Tail(test[t].inbox)[i] = test[t].inbox[i + 1]
               /\ i + 1 \in DOMAIN test[t].inbox
      <3>1. test[t].inbox # <<>>
        BY <1>4 DEF wait_icmp_reply
      <3> DEFINE s == test[t].inbox
      <3>2. s \in Seq(Packets) /\ s # <<>>
        BY <1>2, <3>1
      <3>3. p = Head(s)
        BY <2>p
      <3> HIDE DEF s
      <3>4. /\ 1 \in DOMAIN s /\ p = s[1]
            /\ Tail(s) \in Seq(Packets)
            /\ \A i \in DOMAIN Tail(s) : Tail(s)[i] = s[i + 1] /\ i + 1 \in DOMAIN s
        BY <3>2, <3>3
      <3> QED
        BY <3>4 DEF s
    <2>3. CASE IsReply(t, p) /\ Result(t, TRUE, late)
      <3>1. reached[test[t].addr] >= test[t].began
        BY <1>1, <2>2, <2>3 DEF IsReply, Waiting
      <3> QED
        BY <1>0, <2>1, <2>3, <3>1, ResultInv, Zenon
    <2>4. CASE WaitOn(t, Tail(test[t].inbox), late)
      <3>s. PICK s : s = Tail(test[t].inbox)
        OBVIOUS
      <3>1. s \in Seq(Packets)
        BY <2>2, <3>s
      <3>2. \A i \in DOMAIN s :
              s[i].reply /\ s[i].own => reached[s[i].addr] >= test[t].began
        BY <1>1, <2>2, <3>s DEF Waiting
      <3>3. WaitOn(t, s, late)
        BY <2>4, <3>s
      <3> QED
        BY <1>0, <2>1, <3>1, <3>2, <3>3, WaitOnInv, Zenon
    <2> QED
      BY <1>4, <2>3, <2>4, <2>p, <2>l DEF wait_icmp_reply
  <1>5. CASE TimeOut(t)
    <2>1. tick >= test[t].t2 /\ Result(t, FALSE, 0)
      BY <1>2, <1>5 DEF TimeOut
    <2>2. 0 \in 0..1
      OBVIOUS
    <2> QED
      BY <1>0, <2>1, <2>2, ResultInv, Zenon
  <1>6. CASE Interrupted(t)
    <2>s. PICK s : s = test[t].inbox
      OBVIOUS
    <2>1. WaitOn(t, s, 0)
      BY <1>2, <1>6, <2>s DEF Interrupted
    <2>2. 0 \in 0..1 /\ s \in Seq(Packets)
      BY <1>2, <2>s
    <2>3. \A i \in DOMAIN s :
            s[i].reply /\ s[i].own => reached[s[i].addr] >= test[t].began
      BY <1>1, <2>s DEF Waiting
    <2> QED
      BY <1>0, <2>1, <2>2, <2>3, WaitOnInv, Zenon
  <1> QED
    BY <1>4, <1>5, <1>6

(* A packet comes into every socket; what was in it before has not changed,*)
(* and time does not run back.                                             *)
LEMMA DeliverInv ==
  ASSUME GInv, NEW p \in Packets, Deliver(p),
         UNCHANGED <<tick, tests, verdict>>, stray' \in 0..MaxStray,
         reached' \in [Addr -> -1..tick], flying' \in [Addr -> Nat],
         \A a \in Addr : reached'[a] >= reached[a],
         p.reply /\ p.own => reached'[p.addr] = tick
  PROVE  GInv'
  <1>1. ASSUME NEW u \in Tester, test[u] # NoTest PROVE Waiting(u)'
    <2>1. test[u] \in Tests /\ Waiting(u)
      BY <1>1 DEF GInv, Waiting
    <2>2. test'[u] = [test[u] EXCEPT !.inbox = Append(@, p)]
      BY <1>1 DEF Deliver
    <2>s. PICK s : s = test[u].inbox
      OBVIOUS
    <2>3. s \in Seq(Packets)
      BY <2>1, <2>s DEF Tests
    <2>4. /\ Append(s, p) \in Seq(Packets)
          /\ \A i \in DOMAIN Append(s, p) :
               \/ i \in DOMAIN s /\ Append(s, p)[i] = s[i]
               \/ Append(s, p)[i] = p
      BY <2>3
    <2>5. /\ test'[u] \in Tests /\ test'[u].began = test[u].began
          /\ test'[u].t2 = test[u].t2 /\ test'[u].until = test[u].until
          /\ test'[u].inbox = Append(s, p)
      BY <2>1, <2>2, <2>4, <2>s DEF Tests
    <2>6. ASSUME NEW i \in DOMAIN Append(s, p),
                 Append(s, p)[i].reply, Append(s, p)[i].own
          PROVE  reached'[Append(s, p)[i].addr] >= test[u].began
      <3>1. CASE Append(s, p)[i] = p
        <4>1. reached'[p.addr] = tick /\ test[u].began <= tick
          BY <2>1, <2>6, <3>1 DEF Waiting
        <4>2. tick \in Nat /\ test[u].began \in Nat
          BY <2>1, PingAssumption DEF GInv, GTypeOK, Tests
        <4> QED
          BY <3>1, <4>1, <4>2
      <3>2. CASE i \in DOMAIN s /\ Append(s, p)[i] = s[i]
        <4>1. reached[s[i].addr] >= test[u].began
          BY <2>1, <2>6, <2>s, <3>2 DEF Waiting
        <4>2. s[i].addr \in Addr
          <5>1. s[i] \in Packets
            BY <2>3, <3>2
          <5> QED
            BY <5>1 DEF Packets
        <4>3. /\ reached[s[i].addr] \in Int /\ reached'[s[i].addr] \in Int
              /\ reached'[s[i].addr] >= reached[s[i].addr]
          BY <4>2 DEF GInv
        <4>4. test[u].began \in Nat
          BY <2>1 DEF Tests
        <4> QED
          BY <3>2, <4>1, <4>3, <4>4
      <3> QED
        BY <2>4, <3>1, <3>2
    <2> QED
      BY <2>1, <2>5, <2>6 DEF Waiting
  <1>2. \A u \in Tester : test[u] = NoTest => test'[u] = NoTest
    BY DEF Deliver
  <1>3. test' \in [Tester -> Tests \cup {NoTest}]
    <2>1. \A u \in Tester : test'[u] \in Tests \cup {NoTest}
      BY <1>1, <1>2 DEF Waiting
    <2> QED
      BY <2>1 DEF Deliver
  <1>4. GTypeOK'
    <2>1. \A u \in Tester : test'[u] # NoTest => test'[u].began <= tick'
      BY <1>1, <1>2 DEF Waiting
    <2> QED
      BY <2>1 DEF GInv, GTypeOK
  <1>5. Verdict'
    <2>1. verdict.ok => reached'[verdict.addr] >= verdict.began
      <3> SUFFICES ASSUME verdict.ok PROVE reached'[verdict.addr] >= verdict.began
        OBVIOUS
      <3>1. verdict.addr \in Addr /\ reached[verdict.addr] >= verdict.began
        BY DEF GInv, Verdict
      <3>2. /\ reached[verdict.addr] \in Int /\ reached'[verdict.addr] \in Int
            /\ reached'[verdict.addr] >= reached[verdict.addr] /\ verdict.began \in Nat
        BY <3>1 DEF GInv
      <3> QED
        BY <3>1, <3>2
    <2> QED
      BY <2>1 DEF GInv, Verdict
  <1> QED
    BY <1>1, <1>2, <1>3, <1>4, <1>5 DEF GInv

LEMMA OutsideInv ==
  ASSUME GInv,
         Passes \/ (\E a \in Addr : Reply(a) \/ \E reply \in BOOLEAN : Stray(a, reply))
  PROVE  GInv'
  <1>0. tick \in Nat /\ stray \in Nat
    BY PingAssumption DEF GInv, GTypeOK
  <1>1. CASE Passes
    <2>1. tick' = tick + 1 /\ UNCHANGED <<test, flying, tests, stray, reached, verdict>>
      BY <1>1 DEF Passes
    <2>2. \A u \in Tester : test[u] # NoTest => Waiting(u)'
      <3> SUFFICES ASSUME NEW u \in Tester, test[u] # NoTest PROVE Waiting(u)'
        OBVIOUS
      <3>1. test[u] \in Tests /\ Waiting(u)
        BY DEF GInv, Waiting
      <3>2. test[u].began \in Nat
        BY <3>1 DEF Tests
      <3> QED
        BY <1>0, <2>1, <3>1, <3>2 DEF Waiting
    <2>3. GTypeOK'
      <3>1. \A u \in Tester : test'[u] # NoTest => test'[u].began <= tick'
        BY <2>1, <2>2 DEF Waiting
      <3> QED
        BY <1>1, <2>1, <3>1, PingAssumption DEF GInv, GTypeOK, Passes
    <2>4. reached' \in [Addr -> -1..tick']
      BY <1>0, <2>1 DEF GInv
    <2> QED
      BY <2>1, <2>2, <2>3, <2>4 DEF GInv, Verdict
  <1>2. ASSUME NEW a \in Addr, Reply(a) PROVE GInv'
    <2>p. PICK p : p = Packet(a, TRUE, TRUE)
      OBVIOUS
    <2>1. /\ flying' = [flying EXCEPT ![a] = @ - 1] /\ flying[a] > 0 /\ Deliver(p)
          /\ reached' = [reached EXCEPT ![a] = tick]
          /\ UNCHANGED <<tick, tests, stray, verdict>>
      BY <1>2, <2>p DEF Reply
    <2>2. p \in Packets
      BY <2>p DEF Packet, Packets
    <2>3. flying' \in [Addr -> Nat]
      BY <2>1 DEF GInv
    <2>4. /\ reached' \in [Addr -> -1..tick] /\ reached'[p.addr] = tick
      BY <1>0, <2>1, <2>p DEF GInv, Packet
    <2>5. \A b \in Addr : reached'[b] >= reached[b]
      <3> SUFFICES ASSUME NEW b \in Addr PROVE reached'[b] >= reached[b]
        OBVIOUS
      <3>1. reached[b] \in Int /\ reached[b] <= tick
        BY <1>0 DEF GInv
      <3> QED
        BY <1>0, <2>1, <3>1 DEF GInv
    <2>6. stray' \in 0..MaxStray
      BY <2>1 DEF GInv, GTypeOK
    <2> QED
      BY <2>1, <2>2, <2>3, <2>4, <2>5, <2>6, DeliverInv
  <1>3. ASSUME NEW a \in Addr, NEW reply \in BOOLEAN, Stray(a, reply) PROVE GInv'
    <2>p. PICK p : p = Packet(a, reply, ~reply)
      OBVIOUS
    <2>1. /\ stray' = stray + 1 /\ stray < MaxStray /\ Deliver(p)
          /\ UNCHANGED <<tick, flying, tests, reached, verdict>>
      BY <1>3, <2>p DEF Stray
    <2>2. p.addr = a /\ p.reply = reply /\ p.own = ~reply
      BY <2>p DEF Packet
    <2>3. p \in Packets
      <3>1. CASE reply = TRUE
        BY <2>p, <3>1 DEF Packet, Packets
      <3>2. CASE reply = FALSE
        BY <2>p, <3>2 DEF Packet, Packets
      <3> QED
        BY <3>1, <3>2
    <2>4. ~(p.reply /\ p.own)
      BY <2>2, Zenon
    <2>5. flying' \in [Addr -> Nat] /\ reached' \in [Addr -> -1..tick]
      BY <2>1 DEF GInv
    <2>6. \A b \in Addr : reached'[b] >= reached[b]
      BY <2>1 DEF GInv
    <2>7. stray' \in 0..MaxStray
      BY <1>0, <2>1, PingAssumption
    <2> QED
      BY <2>1, <2>3, <2>4, <2>5, <2>6, <2>7, DeliverInv
  <1> QED
    BY <1>1, <1>2, <1>3

LEMMA GNextInv == GInv /\ [GNext]_gvars => GInv'
  <1>1. ASSUME GInv, UNCHANGED gvars PROVE GInv'
    BY <1>1 DEF gvars, GInv, GTypeOK, Verdict, Waiting
  <1> QED
    BY <1>1, PingStarts, WaiterInv, OutsideInv DEF GNext

(* Believed: neither a late, cut or repeated answer sets the clock or is   *)
(* told as a time of a host, nor a stray packet makes a host answer, in    *)
(* lib/ntp.c and lib/ping.c, whatever the network does.                    *)
THEOREM NothingFalseIsBelieved == ProbesSpec => []Believed
  <1>1. NSpec => [](NTypeOK /\ ClockTrue /\ ReferenceRecent)
    BY NInitInv, NNextInv, NInvHolds, PTL DEF NSpec
  <1>2. GInv => GTypeOK /\ Verdict
    BY DEF GInv
  <1>3. GSpec => [](GTypeOK /\ Verdict)
    BY GInitInv, GNextInv, <1>2, PTL DEF GSpec
  <1> QED
    BY <1>1, <1>3, PTL DEF ProbesSpec, Believed

-----------------------------------------------------------------------------
(* The RADIUS messages.                                                    *)

(* The beginning of a buffer.                                              *)
LEMMA Beginning ==
  ASSUME NEW s \in Seq(Nat), NEW n \in 0..Len(s)
  PROVE  /\ SubSeq(s, 1, n) \in Seq(Nat) /\ Len(SubSeq(s, 1, n)) = n
         /\ \A i \in 1..n : SubSeq(s, 1, n)[i] = s[i]
  <1> DEFINE l == Len(s)
             r == SubSeq(s, 1, n)
  <1>1. l \in Nat /\ \A i \in 1..l : s[i] \in Nat
    BY LenProperties, ElementOfSeq
  <1> HIDE DEF l
  <1>2. n \in 0..l
    BY DEF l
  <1>a. PICK m : m = 1
    OBVIOUS
  <1>3. m \in Int /\ n \in Int /\ \A i \in m..n : s[i] \in Nat
    BY <1>1, <1>2, <1>a
  <1>b. /\ SubSeq(s, m, n) \in Seq(Nat)
        /\ Len(SubSeq(s, m, n)) = IF m <= n THEN n - m + 1 ELSE 0
        /\ \A i \in 1..n - m + 1 : SubSeq(s, m, n)[i] = s[m + i - 1]
    BY <1>3, SubSeqProperties
  <1>4. /\ r \in Seq(Nat)
        /\ Len(r) = IF 1 <= n THEN n - 1 + 1 ELSE 0
        /\ \A i \in 1..n - 1 + 1 : r[i] = s[1 + i - 1]
    BY <1>a, <1>b, Zenon
  <1> HIDE DEF r
  <1>5. /\ Len(r) = n
        /\ \A i \in 1..n : r[i] = s[i]
    <2>1. n - 1 + 1 = n /\ (~(1 <= n) => n = 0)
      BY <1>1, <1>2
    <2>2. \A i \in 1..n : 1 + i - 1 = i
      BY <1>1, <1>2
    <2> QED
      BY <1>4, <2>1, <2>2
  <1> QED
    BY <1>4, <1>5 DEF r

(* The beginning of two sequences in a row is the first.                   *)
LEMMA BeginningOfConcat ==
  ASSUME NEW s \in Seq(Nat), NEW t \in Seq(Nat)
  PROVE  SubSeq(s \o t, 1, Len(s)) = s
  <1> DEFINE u == s \o t
             l == Len(s)
             r == SubSeq(u, 1, l)
  <1>1. l \in Nat /\ Len(t) \in Nat
    BY LenProperties
  <1>2. u \in Seq(Nat) /\ Len(u) = l + Len(t)
          /\ \A i \in 1..l + Len(t) : u[i] = IF i <= l THEN s[i] ELSE t[i - l]
    BY ConcatProperties, Zenon
  <1> HIDE DEF u
  <1>3. l \in 0..Len(u) /\ \A i \in 1..l : i \in 1..l + Len(t) /\ i <= l
    BY <1>1, <1>2
  <1>4. r \in Seq(Nat) /\ Len(r) = l /\ \A i \in 1..l : r[i] = u[i]
    BY <1>2, <1>3, Beginning, Zenon
  <1>5. \A i \in 1..Len(r) : r[i] = s[i]
    BY <1>2, <1>3, <1>4, Zenon
  <1> QED
    BY <1>2, <1>4, <1>5, SeqEqual, Zenon DEF u

(* The rest of a buffer.                                                   *)
LEMMA TheRest ==
  ASSUME NEW s \in Seq(Nat), NEW n \in Nat
  PROVE  SubSeq(s, n + 1, Len(s)) \in Seq(Nat)
  <1>1. Len(s) \in Nat /\ \A i \in 1..Len(s) : s[i] \in Nat
    BY LenProperties, ElementOfSeq
  <1>2. n + 1 \in Int /\ Len(s) \in Int /\ \A i \in n + 1..Len(s) : s[i] \in Nat
    BY <1>1
  <1> QED
    BY <1>2, SubSeqProperties, Zenon

(* What is written over the beginning of a buffer is there.                *)
LEMMA Overwritten ==
  ASSUME NEW a \in Seq(Nat), NEW b \in Seq(Nat)
  PROVE  /\ Over(a, b) \in Seq(Nat) /\ Len(Over(a, b)) \in Nat
         /\ Len(a) \in 0..Len(Over(a, b))
         /\ SubSeq(Over(a, b), 1, Len(a)) = a
  <1> DEFINE rest == SubSeq(b, Len(a) + 1, Len(b))
  <1>1. Len(a) \in Nat
    BY LenProperties
  <1>3. rest \in Seq(Nat)
    BY <1>1, TheRest
  <1>4. Over(a, b) = a \o rest
    BY DEF Over
  <1> HIDE DEF rest
  <1>5. /\ a \o rest \in Seq(Nat) /\ Len(a \o rest) = Len(a) + Len(rest)
        /\ Len(rest) \in Nat
    BY <1>3, ConcatProperties, LenProperties, Zenon
  <1>6. SubSeq(a \o rest, 1, Len(a)) = a
    BY <1>3, BeginningOfConcat
  <1>7. Len(a \o rest) \in Nat /\ Len(a) \in 0..Len(a \o rest)
    BY <1>1, <1>5
  <1> QED
    BY <1>4, <1>5, <1>6, <1>7

(* And so it is behind what was there.                                     *)
LEMMA ConcatOver ==
  ASSUME NEW p \in Seq(Nat), NEW a \in Seq(Nat), NEW b \in Seq(Nat)
  PROVE  LET r == p \o Over(a, b) IN
         /\ r \in Seq(Nat) /\ Len(r) \in Nat /\ Len(p) + Len(a) \in 0..Len(r)
         /\ SubSeq(r, 1, Len(p)) = p
         /\ SubSeq(r, 1, Len(p) + Len(a)) = p \o a
  <1> DEFINE o == Over(a, b)
             rest == SubSeq(b, Len(a) + 1, Len(b))
  <1>1. Len(p) \in Nat /\ Len(a) \in Nat
    BY LenProperties
  <1>3. rest \in Seq(Nat)
    BY <1>1, TheRest
  <1>4. o = a \o rest
    BY DEF Over
  <1> HIDE DEF o, rest
  <1>5. p \o o = (p \o a) \o rest
    <2>1. (p \o a) \o rest = p \o (a \o rest)
      BY <1>3, ConcatAssociative, SMTT(30)
    <2> QED
      BY <2>1, <1>4, Zenon
  <1>6. p \o a \in Seq(Nat) /\ Len(p \o a) = Len(p) + Len(a)
    BY ConcatProperties, Zenon
  <1>7. /\ (p \o a) \o rest \in Seq(Nat)
        /\ Len((p \o a) \o rest) = Len(p \o a) + Len(rest)
        /\ Len(rest) \in Nat
    BY <1>3, <1>6, ConcatProperties, LenProperties, Zenon
  <1>8. SubSeq((p \o a) \o rest, 1, Len(p \o a)) = p \o a
    BY <1>3, <1>6, BeginningOfConcat
  <1>9. o \in Seq(Nat)
    BY <1>3, <1>4, ConcatProperties, Zenon
  <1>10. SubSeq(p \o o, 1, Len(p)) = p
    BY <1>9, BeginningOfConcat
  <1>11. Len(p \o o) \in Nat /\ Len(p) + Len(a) \in 0..Len(p \o o)
    BY <1>1, <1>5, <1>6, <1>7
  <1>12. p \o o \in Seq(Nat) /\ SubSeq(p \o o, 1, Len(p) + Len(a)) = p \o a
    BY <1>5, <1>6, <1>7, <1>8
  <1> QED
    BY <1>10, <1>11, <1>12 DEF o

-----------------------------------------------------------------------------
(* A message under way, and what is added to it.                           *)
IsMessage(m) == m.body \in Seq(Nat) /\ m.len \in 0..Len(m.body)
IsPiece(a) == a.octets \in Seq(Nat) /\ a.len \in 0..Len(a.octets)

(* A message is one with a piece more, and the piece is behind it.         *)
LEMMA AddedIs ==
  ASSUME NEW m, NEW a, IsMessage(m), IsPiece(a)
  PROVE  /\ IsMessage(Added(m, a)) /\ Added(m, a).len = m.len + a.len
         /\ m.len + Len(a.octets) \in 0..Len(Added(m, a).body)
         /\ SubSeq(Added(m, a).body, 1, m.len) = SubSeq(m.body, 1, m.len)
         /\ SubSeq(Added(m, a).body, 1, m.len + Len(a.octets))
              = SubSeq(m.body, 1, m.len) \o a.octets
  <1> DEFINE p == SubSeq(m.body, 1, m.len)
             rest == SubSeq(m.body, m.len + 1, Len(m.body))
             r == p \o Over(a.octets, rest)
  <1>1. /\ m.body \in Seq(Nat) /\ m.len \in 0..Len(m.body) /\ Len(m.body) \in Nat
        /\ a.octets \in Seq(Nat) /\ a.len \in 0..Len(a.octets) /\ Len(a.octets) \in Nat
    BY LenProperties DEF IsMessage, IsPiece
  <1>2. p \in Seq(Nat) /\ Len(p) = m.len
    BY <1>1, Beginning, Zenon
  <1>3. rest \in Seq(Nat)
    <2>1. m.len \in Nat
      BY <1>1
    <2> QED
      BY <1>1, <2>1, TheRest
  <1>4. Added(m, a).body = r /\ Added(m, a).len = m.len + a.len
    BY DEF Added
  <1> HIDE DEF p, rest
  <1>5. /\ r \in Seq(Nat) /\ Len(r) \in Nat /\ Len(p) + Len(a.octets) \in 0..Len(r)
        /\ SubSeq(r, 1, Len(p)) = p
        /\ SubSeq(r, 1, Len(p) + Len(a.octets)) = p \o a.octets
    BY <1>1, <1>2, <1>3, ConcatOver
  <1> HIDE DEF r
  <1>6. m.len + a.len \in 0..Len(r)
    BY <1>1, <1>2, <1>5
  <1>7. IsMessage(Added(m, a))
    BY <1>4, <1>5, <1>6 DEF IsMessage
  <1> QED
    BY <1>2, <1>4, <1>5, <1>7 DEF p

(* Every set of numbers has a least one.                                   *)
LEMMA LeastOf ==
  ASSUME NEW S \in SUBSET Nat, S # {}
  PROVE  \E m \in S : \A n \in S : m <= n
  <1>1. PICK m \in S : \A n \in S : <<n, m>> \notin OpToRel(<, Nat)
    BY NatLessThanWellFounded, WFMin, Zenon
  <1>2. \A n \in S : ~(n < m)
    BY <1>1, Zenon DEF OpToRel
  <1> QED
    BY <1>2

(* The messages of the pieces so far.                                      *)
IsBuilt(m, body, pieces, n) ==
  m = [i \in 0..n |-> IF i = 0 THEN [body |-> body, len |-> 0]
                      ELSE Added(m[i - 1], pieces[i])]

(* They exist: otherwise there was a least number of pieces without them.  *)
LEMMA BuiltExists ==
  ASSUME NEW body, NEW pieces, NEW l \in Nat
  PROVE  \E m : IsBuilt(m, body, pieces, l)
  <1> DEFINE Bad == {n \in 0..l : ~\E m : IsBuilt(m, body, pieces, n)}
  <1>1. SUFFICES ASSUME Bad # {} PROVE FALSE
    OBVIOUS
  <1>2. Bad \in SUBSET Nat
    OBVIOUS
  <1>3. PICK n \in Bad : \A k \in Bad : n <= k
    BY <1>1, <1>2, LeastOf
  <1>4. n # 0
    <2> DEFINE m == [i \in 0..0 |-> [body |-> body, len |-> 0]]
    <2>1. IsBuilt(m, body, pieces, 0)
      BY DEF IsBuilt
    <2> QED
      BY <2>1
  <1>5. n - 1 \in 0..l /\ n - 1 \notin Bad
    BY <1>3, <1>4
  <1>6. PICK m : IsBuilt(m, body, pieces, n - 1)
    BY <1>5
  <1> DEFINE g == [i \in 0..n |-> IF i = n THEN Added(m[n - 1], pieces[n]) ELSE m[i]]
             h == [i \in 0..n |-> IF i = 0 THEN [body |-> body, len |-> 0]
                                  ELSE Added(g[i - 1], pieces[i])]
  <1>7. ASSUME NEW i \in 0..n PROVE g[i] = h[i]
    <2>1. n \in Nat /\ n # 0 /\ n - 1 \in Nat
      BY <1>4
    <2>2. CASE i = 0
      BY <1>6, <2>1, <2>2 DEF IsBuilt
    <2>3. CASE i = n
      <3>1. g[n - 1] = m[n - 1]
        BY <2>1
      <3> QED
        BY <2>1, <2>3, <3>1
    <2>4. CASE i # 0 /\ i # n
      <3>1. i - 1 \in 0..n /\ i - 1 # n /\ i \in 0..n - 1
        BY <2>1, <2>4
      <3>2. g[i] = m[i] /\ g[i - 1] = m[i - 1]
        BY <2>4, <3>1
      <3>3. m[i] = Added(m[i - 1], pieces[i])
        BY <1>6, <2>4, <3>1 DEF IsBuilt
      <3> QED
        BY <2>4, <3>2, <3>3
    <2> QED
      BY <2>2, <2>3, <2>4
  <1>8. g = h
    BY <1>7
  <1>9. IsBuilt(g, body, pieces, n)
    BY <1>8 DEF IsBuilt
  <1> QED
    BY <1>9

(* All pieces in a row make a message.                                     *)
LEMMA PiecesIs ==
  ASSUME NEW body \in Seq(Nat), NEW pieces, Len(pieces) \in Nat,
         \A i \in 1..Len(pieces) : IsPiece(pieces[i])
  PROVE  IsMessage(Pieces(body, pieces))
  <1> DEFINE l == Len(pieces)
             m == CHOOSE m : IsBuilt(m, body, pieces, l)
             Bad == {n \in 0..l : ~IsMessage(m[n])}
  <1>1. IsBuilt(m, body, pieces, l)
    BY BuiltExists
  <1>2. Pieces(body, pieces) = m[l]
    BY DEF Pieces, IsBuilt
  <1> HIDE DEF m
  <1>3. ASSUME Bad # {} PROVE FALSE
    <2>1. PICK n \in Bad : \A k \in Bad : n <= k
      <3>1. Bad \in SUBSET Nat
        OBVIOUS
      <3> QED
        BY <1>3, <3>1, LeastOf
    <2>2. CASE n = 0
      <3>1. m[0] = [body |-> body, len |-> 0]
        BY <1>1 DEF IsBuilt
      <3>2. IsMessage(m[0])
        BY <3>1, LenProperties DEF IsMessage
      <3> QED
        BY <2>2, <3>2
    <2>3. CASE n # 0
      <3>1. n - 1 \in 0..l /\ n - 1 \notin Bad /\ n \in 1..l
        BY <2>1, <2>3
      <3>2. IsMessage(m[n - 1]) /\ IsPiece(pieces[n])
        BY <3>1
      <3>3. m[n] = Added(m[n - 1], pieces[n])
        BY <1>1, <2>3 DEF IsBuilt
      <3>4. IsMessage(m[n])
        BY <3>2, <3>3, AddedIs
      <3> QED
        BY <3>4
    <2> QED
      BY <2>2, <2>3
  <1> QED
    BY <1>2, <1>3

-----------------------------------------------------------------------------
(* A part of a buffer, behind its first l octets.                          *)
Part(s, l, n) == SubSeq(s, l + 1, l + n)

Fits(s, l, n) == l + n <= Len(s)

LEMMA PartIs ==
  ASSUME NEW s \in Seq(Nat), NEW l \in Nat, NEW n \in Nat, Fits(s, l, n)
  PROVE  /\ Part(s, l, n) \in Seq(Nat) /\ Len(Part(s, l, n)) = n
         /\ \A i \in 1..n : Part(s, l, n)[i] = s[l + i]
  <1> DEFINE m == l + 1
             k == l + n
             r == SubSeq(s, m, k)
  <1>1. Len(s) \in Nat /\ \A i \in 1..Len(s) : s[i] \in Nat
    BY LenProperties, ElementOfSeq
  <1>2. m \in Int /\ k \in Int /\ \A i \in m..k : s[i] \in Nat
    BY <1>1 DEF Fits
  <1> HIDE DEF m, k
  <1>3. /\ r \in Seq(Nat) /\ Len(r) = IF m <= k THEN k - m + 1 ELSE 0
        /\ \A i \in 1..k - m + 1 : r[i] = s[m + i - 1]
    BY <1>2, SubSeqProperties
  <1> HIDE DEF r
  <1>4. k - m + 1 = n /\ (~(m <= k) => n = 0)
    BY DEF m, k
  <1>5. \A i \in 1..n : m + i - 1 = l + i
    BY DEF m
  <1>6. Len(r) = n /\ \A i \in 1..n : r[i] = s[l + i]
    BY <1>3, <1>4, <1>5
  <1> QED
    BY <1>3, <1>6 DEF r, m, k, Part

(* A part behind the beginning.                                            *)
LEMMA Split ==
  ASSUME NEW s \in Seq(Nat), NEW l \in Nat, NEW n \in Nat, Fits(s, l, n)
  PROVE  SubSeq(s, 1, l + n) = SubSeq(s, 1, l) \o Part(s, l, n)
  <1> DEFINE p == SubSeq(s, 1, l)
             q == Part(s, l, n)
             r == SubSeq(s, 1, l + n)
  <1>1. Len(s) \in Nat /\ l \in 0..Len(s) /\ l + n \in 0..Len(s)
    BY LenProperties DEF Fits
  <1>2. p \in Seq(Nat) /\ Len(p) = l /\ \A i \in 1..l : p[i] = s[i]
    BY <1>1, Beginning, Zenon
  <1>3. r \in Seq(Nat) /\ Len(r) = l + n /\ \A i \in 1..(l + n) : r[i] = s[i]
    BY <1>1, Beginning, Zenon
  <1>4. q \in Seq(Nat) /\ Len(q) = n /\ \A i \in 1..n : q[i] = s[l + i]
    BY PartIs, Zenon
  <1> HIDE DEF p, q, r
  <1>5. /\ p \o q \in Seq(Nat) /\ Len(p \o q) = Len(p) + Len(q)
        /\ \A i \in 1..(Len(p) + Len(q)) :
             (p \o q)[i] = IF i <= Len(p) THEN p[i] ELSE q[i - Len(p)]
    BY <1>2, <1>4, ConcatProperties, Zenon
  <1>6. ASSUME NEW i \in 1..Len(r) PROVE r[i] = (p \o q)[i]
    <2>1. i \in 1..(l + n) /\ r[i] = s[i]
            /\ (p \o q)[i] = IF i <= l THEN p[i] ELSE q[i - l]
      BY <1>2, <1>3, <1>4, <1>5
    <2>2. CASE i <= l
      BY <1>2, <2>1, <2>2
    <2>3. CASE ~(i <= l)
      <3>1. i - l \in 1..n /\ l + (i - l) = i
        BY <2>1, <2>3
      <3> QED
        BY <1>4, <2>1, <2>3, <3>1
    <2> QED
      BY <2>2, <2>3
  <1>7. Len(r) = Len(p \o q)
    BY <1>2, <1>3, <1>4, <1>5, Zenon
  <1>8. r = p \o q
    BY <1>3, <1>5, <1>6, <1>7, SeqEqual, Zenon
  <1> QED
    BY <1>8 DEF p, q, r

(* A message of pieces, with other octets behind it.                       *)
LEMMA FramedIs ==
  ASSUME NEW code, NEW auth, NEW behind \in Seq(Nat), NEW pieces,
         IsBuffer(sbuf), Len(pieces) \in Nat,
         \A i \in 1..Len(pieces) : IsPiece(pieces[i])
  PROVE  LET f == Framed(code, auth, behind, pieces) IN
         /\ f = [code |-> code, auth |-> auth, len |-> f.len, body |-> f.body]
         /\ IsMessage(f) /\ f.len + Len(behind) \in 0..Len(f.body)
         /\ SubSeq(f.body, 1, f.len + Len(behind)) = Attrs(f) \o behind
  <1> DEFINE m == Pieces(sbuf.body, pieces)
             a == [octets |-> behind, len |-> Len(behind)]
             n == Added(m, a)
             f == Framed(code, auth, behind, pieces)
  <1>1. sbuf.body \in Seq(Nat) /\ Len(behind) \in Nat
    BY LenProperties DEF IsBuffer
  <1>2. IsMessage(m)
    BY <1>1, PiecesIs
  <1>3. IsPiece(a) /\ a.octets = behind
    BY <1>1 DEF IsPiece
  <1>4. f = [code |-> code, auth |-> auth, len |-> m.len, body |-> n.body]
    BY DEF Framed
  <1> HIDE DEF m, a
  <1>5. /\ IsMessage(n) /\ m.len + Len(behind) \in 0..Len(n.body)
        /\ SubSeq(n.body, 1, m.len) = SubSeq(m.body, 1, m.len)
        /\ SubSeq(n.body, 1, m.len + Len(behind)) = SubSeq(m.body, 1, m.len) \o behind
    BY <1>2, <1>3, AddedIs
  <1> HIDE DEF n, f
  <1>6. f.len = m.len /\ f.body = n.body
          /\ f = [code |-> code, auth |-> auth, len |-> f.len, body |-> f.body]
    BY <1>4
  <1>7. m.len \in Nat /\ n.body \in Seq(Nat) /\ Len(n.body) \in Nat
    <2>1. n.body \in Seq(Nat) /\ m.len \in 0..Len(m.body)
      BY <1>2, <1>5 DEF IsMessage
    <2>2. Len(n.body) \in Nat
      BY <2>1, LenProperties
    <2> QED
      BY <2>1, <2>2
  <1>8. m.len \in 0..Len(n.body)
    BY <1>1, <1>5, <1>7
  <1>9. IsMessage(f)
    BY <1>6, <1>7, <1>8, Zenon DEF IsMessage
  <1>10. Attrs(f) = SubSeq(m.body, 1, m.len)
    BY <1>5, <1>6, Zenon DEF Attrs
  <1>11. /\ f.len + Len(behind) \in 0..Len(f.body)
         /\ SubSeq(f.body, 1, f.len + Len(behind)) = Attrs(f) \o behind
    BY <1>5, <1>6, <1>10, Zenon
  <1> QED
    BY <1>6, <1>9, <1>11, Zenon DEF f

(* What a sequence begins with, a part of it begins with.                  *)
Starts(q, k) == Len(k) <= Len(q) /\ \A i \in 1..Len(k) : q[i] = k[i]

LEMMA PartOfConcat ==
  ASSUME NEW s \in Seq(Nat), NEW p \in Seq(Nat), NEW q \in Seq(Nat),
         NEW k \in Seq(Nat), Starts(q, k), Len(p) + Len(q) \in 0..Len(s),
         SubSeq(s, 1, Len(p) + Len(q)) = p \o q
  PROVE  Part(s, Len(p), Len(k)) = k
  <1>1. Len(s) \in Nat /\ Len(p) \in Nat /\ Len(q) \in Nat /\ Len(k) \in Nat
    BY LenProperties, Zenon
  <1>2. Fits(s, Len(p), Len(k))
    BY <1>1 DEF Fits, Starts
  <1>3. \A i \in 1..(Len(p) + Len(q)) : SubSeq(s, 1, Len(p) + Len(q))[i] = s[i]
    BY Beginning, Zenon
  <1>4. \A i \in 1..(Len(p) + Len(q)) :
          (p \o q)[i] = IF i <= Len(p) THEN p[i] ELSE q[i - Len(p)]
    BY ConcatProperties, Zenon
  <1> DEFINE r == Part(s, Len(p), Len(k))
  <1>5. /\ r \in Seq(Nat) /\ Len(r) = Len(k)
        /\ \A i \in 1..Len(k) : r[i] = s[Len(p) + i]
    BY <1>1, <1>2, PartIs, Zenon
  <1> HIDE DEF r
  <1>6. ASSUME NEW i \in 1..Len(k) PROVE r[i] = k[i]
    <2>1. PICK l, b, n : l = Len(p) /\ b = Len(q) /\ n = Len(k)
      OBVIOUS
    <2>2. l \in Nat /\ b \in Nat /\ n \in Nat /\ n <= b /\ i \in 1..n
      BY <1>1, <2>1, Zenon DEF Starts
    <2> DEFINE j == l + i
    <2>3. j \in 1..(l + b) /\ ~(j <= l) /\ j - l = i
      BY <2>2
    <2> HIDE DEF j
    <2>4. s[j] = (p \o q)[j]
      BY <1>3, <2>1, <2>3, Zenon
    <2>5. s[j] = q[j - l]
      BY <1>4, <2>1, <2>3, <2>4, Zenon
    <2>6. s[j] = q[i]
      BY <2>3, <2>5, Zenon
    <2>7. r[i] = s[j]
      BY <1>5, <2>1, Zenon DEF j
    <2> QED
      BY <2>6, <2>7, Zenon DEF Starts
  <1>7. r = k
    BY <1>5, <1>6, SeqEqual, Zenon
  <1> QED
    BY <1>7 DEF r

(* Where the secret was copied behind it, it is there.                     *)
LEMMA CopiedIs ==
  ASSUME NEW f, IsMessage(f), NEW behind \in Seq(Nat), NEW secret \in Seq(Nat),
         f.len + Len(behind) \in 0..Len(f.body),
         SubSeq(f.body, 1, f.len + Len(behind)) = Attrs(f) \o behind,
         Starts(behind, secret)
  PROVE  Behind(f, Len(secret)) = secret
  <1>1. f.body \in Seq(Nat) /\ f.len \in 0..Len(f.body)
    BY DEF IsMessage
  <1>2. Attrs(f) \in Seq(Nat) /\ Len(Attrs(f)) = f.len
    BY <1>1, Beginning, Zenon DEF Attrs
  <1> DEFINE s == f.body
             p == Attrs(f)
  <1>3. s \in Seq(Nat) /\ p \in Seq(Nat) /\ Len(p) + Len(behind) \in 0..Len(s)
    BY <1>1, <1>2, Zenon
  <1>4. SubSeq(s, 1, Len(p) + Len(behind)) = p \o behind
    BY <1>2, Zenon
  <1>5. Behind(f, Len(secret)) = Part(s, Len(p), Len(secret))
    BY <1>2, Zenon DEF Behind, Part
  <1> HIDE DEF s, p
  <1>6. Part(s, Len(p), Len(secret)) = secret
    BY <1>3, <1>4, PartOfConcat, Zenon
  <1> QED
    BY <1>5, <1>6, Zenon

(* Its digest is that of the message and of what is behind it.             *)
LEMMA SignedIs ==
  ASSUME NEW code, NEW auth, NEW l, NEW body, NEW f, NEW secret \in Seq(Nat),
         f = [code |-> code, auth |-> auth, len |-> l, body |-> body],
         IsMessage(f), f.len + Len(secret) <= Len(f.body)
  PROVE  LET b == Signed(f, secret) IN
         /\ IsBuffer(b) /\ SignedBy(b, Behind(f, Len(secret)))
         /\ Behind(f, Len(secret)) \in Seq(Nat)
         /\ b.code = code /\ b.auth.auth = auth
  <1> DEFINE n == Len(secret)
             b == Signed(f, secret)
             key == Behind(f, n)
  <1>1. f.code = code /\ f.auth = auth /\ f.len = l /\ f.body = body
    OBVIOUS
  <1>2. body \in Seq(Nat) /\ l \in 0..Len(body) /\ Len(body) \in Nat /\ n \in Nat
    BY <1>1, LenProperties DEF IsMessage
  <1> HIDE DEF n
  <1>3. l \in Nat /\ Fits(body, l, n)
    BY <1>1, <1>2 DEF n, Fits
  <1>4. key \in Seq(Nat) /\ SubSeq(body, 1, l + n) = SubSeq(body, 1, l) \o key
    <2>1. key = Part(body, l, n)
      BY <1>1 DEF Behind, Part
    <2>2. \A t \in Seq(Nat) : \A j, k \in Nat :
            Fits(t, j, k) => /\ Part(t, j, k) \in Seq(Nat)
                             /\ SubSeq(t, 1, j + k) = SubSeq(t, 1, j) \o Part(t, j, k)
      BY PartIs, Split, Zenon
    <2>3. /\ Part(body, l, n) \in Seq(Nat)
          /\ SubSeq(body, 1, l + n) = SubSeq(body, 1, l) \o Part(body, l, n)
      BY <1>2, <1>3, <2>2, Zenon
    <2> HIDE DEF key
    <2> QED
      BY <2>1, <2>3, Zenon
  <1> HIDE DEF key
  <1>5. b = [code |-> code, auth |-> MD5(f, l + n), len |-> l, body |-> body]
    BY <1>1 DEF Signed, n
  <1>6. MD5(f, l + n) = [code |-> code, auth |-> auth, len |-> l,
                         octets |-> SubSeq(body, 1, l) \o key]
    BY <1>1, <1>4, Zenon DEF MD5
  <1> HIDE DEF b
  <1> DEFINE d == MD5(f, l + n)
  <1>7. b.code = code /\ b.len = l /\ b.body = body /\ b.auth = d
    BY <1>5
  <1>8. d.auth = auth
    BY <1>6
  <1>9. IsBuffer(b)
    BY <1>2, <1>5, <1>7, Zenon DEF IsBuffer
  <1>10. Attrs(b) = SubSeq(body, 1, l)
    BY <1>7, Zenon DEF Attrs
  <1>11. b.auth = [code |-> b.code, auth |-> b.auth.auth, len |-> b.len,
                   octets |-> Attrs(b) \o key]
    BY <1>6, <1>7, <1>8, <1>10, Zenon
  <1>12. SignedBy(b, key)
    BY <1>2, <1>7, <1>11, Zenon DEF SignedBy
  <1> QED
    BY <1>4, <1>7, <1>8, <1>9, <1>12, Zenon DEF b, key, n

(* The builders' attributes are pieces.                                    *)
LEMMA AttributeIs ==
  ASSUME NEW a \in Nat \X Seq(Nat)
  PROVE  IsPiece(Plain(a)) /\ IsPiece(add_radius_att_string(a[1], a[2]))
  <1> DEFINE o == <<a[1], Len(a[2]) + 2>>
             s == o \o a[2]
  <1>1. a[1] \in Nat /\ a[2] \in Seq(Nat) /\ Len(a[2]) \in Nat
    BY LenProperties
  <1>2. o \in Seq(Nat) /\ Len(o) = 2
    BY <1>1
  <1> HIDE DEF o
  <1>3. s \in Seq(Nat) /\ Len(s) = 2 + Len(a[2])
    <2>1. s \in Seq(Nat) /\ Len(s) = Len(o) + Len(a[2])
      BY <1>1, <1>2, ConcatProperties, Zenon
    <2> QED
      BY <1>2, <2>1
  <1> HIDE DEF s
  <1>4. Plain(a) = [octets |-> s, len |-> Len(s)]
    BY DEF Plain, add_sattr, s, o
  <1>5. add_radius_att_string(a[1], a[2]) = [octets |-> s, len |-> Len(a[2]) + 2]
    BY DEF add_radius_att_string, s, o
  <1> QED
    BY <1>1, <1>3, <1>4, <1>5 DEF IsPiece

(* So are those of the vendor.                                             *)
LEMMA VendorIs == \A vendor \in VendorAttrs : IsPiece(vendor)
  <1> DEFINE v == <<1>>
             o == <<Vendor, 6, 7, 1, 1, 0, 0>>
             p == <<Vendor, 6, 7, 1, 3>>
  <1>1. v \in Seq(Nat) /\ Len(v) = 1 /\ o \in Seq(Nat) /\ Len(o) = 7
          /\ p \in Seq(Nat) /\ Len(p) = 5
    BY DEF Vendor
  <1>2. add_radius_vattr(7, 1, v) = [octets |-> o \o v, len |-> 6]
    BY DEF add_radius_vattr
  <1>3. add_radius_att_vendor_string(7, 1, v) = [octets |-> p \o v, len |-> 6]
    BY DEF add_radius_att_vendor_string
  <1>4. VendorAttrs = {add_radius_vattr(7, 1, v), add_radius_att_vendor_string(7, 1, v)}
    BY DEF VendorAttrs
  <1>5. \A n \in {8, 6} : 6 \in 0..n
    OBVIOUS
  <1>6. IsPiece([octets |-> o \o v, len |-> 6])
          <=> (o \o v \in Seq(Nat) /\ 6 \in 0..Len(o \o v))
    BY DEF IsPiece
  <1>7. IsPiece([octets |-> p \o v, len |-> 6])
          <=> (p \o v \in Seq(Nat) /\ 6 \in 0..Len(p \o v))
    BY DEF IsPiece
  <1> HIDE DEF o, p, v
  <1>8. /\ o \o v \in Seq(Nat) /\ Len(o \o v) = 8
        /\ p \o v \in Seq(Nat) /\ Len(p \o v) = 6
    <2>1. /\ o \o v \in Seq(Nat) /\ Len(o \o v) = Len(o) + Len(v)
          /\ p \o v \in Seq(Nat) /\ Len(p \o v) = Len(p) + Len(v)
      BY <1>1, ConcatProperties, Zenon
    <2> QED
      BY <1>1, <2>1
  <1> QED
    BY <1>2, <1>3, <1>4, <1>5, <1>6, <1>7, <1>8

-----------------------------------------------------------------------------
(* The steps.                                                              *)

(* What is built is signed; nothing has arrived yet.                       *)
LEMMA BuildKeeps ==
  ASSUME AInv, NEW secret \in Secrets, NEW attrs \in Attributes,
         Build(secret, attrs)
  PROVE  AInv'
  <1>1. /\ IsBuffer(sbuf) /\ secret \in Seq(Nat) /\ attrs \in Seq(Nat \X Seq(Nat))
        /\ UNCHANGED <<rbuf, altered>>
    BY RadiusAssumption DEF AInv, Build
  <1>2. IsBuffer(rbuf)' /\ rbuf'.len \in 0..Len(rbuf'.body) /\ altered' \in BOOLEAN
    BY <1>1, Zenon DEF AInv, IsBuffer
  <1>3. Received'
    BY <1>1, Zenon DEF AInv, Received, Unaltered, Attrs
  <1> DEFINE n == Len(secret)
  <1>4. ASSUME NEW code, NEW auth, NEW behind \in Seq(Nat), NEW pieces, NEW copied, NEW f,
               Len(pieces) \in Nat, \A i \in 1..Len(pieces) : IsPiece(pieces[i]),
               f = Framed(code, auth, behind, pieces), f.len + n <= Len(f.body),
               sbuf' = Signed(f, secret), Has(f, secret, attrs, copied),
               copied => n <= Len(behind) /\ \A i \in 1..n : behind[i] = secret[i]
        PROVE  AInv'
    <2> DEFINE key == Behind(f, n)
    <2>1. /\ f = [code |-> code, auth |-> auth, len |-> f.len, body |-> f.body]
          /\ IsMessage(f) /\ f.len + Len(behind) \in 0..Len(f.body)
          /\ SubSeq(f.body, 1, f.len + Len(behind)) = Attrs(f) \o behind
      <3>1. LET g == Framed(code, auth, behind, pieces) IN
            /\ g = [code |-> code, auth |-> auth, len |-> g.len, body |-> g.body]
            /\ IsMessage(g) /\ g.len + Len(behind) \in 0..Len(g.body)
            /\ SubSeq(g.body, 1, g.len + Len(behind)) = Attrs(g) \o behind
        BY <1>1, <1>4, FramedIs
      <3> QED
        BY <1>4, <3>1, Zenon
    <2>2. PICK l, body : f = [code |-> code, auth |-> auth, len |-> l, body |-> body]
      BY <2>1, Zenon
    <2>3. f.auth = auth
      BY <2>2
    <2> DEFINE b == Signed(f, secret)
    <2>4. /\ IsBuffer(b) /\ SignedBy(b, key) /\ key \in Seq(Nat)
          /\ b.code = code /\ b.auth.auth = auth
      <3> HIDE DEF b
      <3>1. LET d == Signed(f, secret) IN
            /\ IsBuffer(d) /\ SignedBy(d, Behind(f, Len(secret)))
            /\ Behind(f, Len(secret)) \in Seq(Nat)
            /\ d.code = code /\ d.auth.auth = auth
        BY <1>1, <1>4, <2>1, <2>2, SignedIs
      <3> QED
        BY <3>1, Zenon DEF b
    <2>5. copied => key = secret
      <3> SUFFICES ASSUME copied PROVE key = secret
        OBVIOUS
      <3>1. n <= Len(behind) /\ \A i \in 1..n : behind[i] = secret[i]
        BY <1>4
      <3> QED
        BY <1>1, <2>1, <3>1, CopiedIs DEF Starts
    <2>6. sbuf' = b
      BY <1>4
    <2>7. /\ built'.key = key /\ built'.secret = secret /\ built'.copied = copied
          /\ built'.clear = (auth = Zero)
      <3>1. built' = [attrs |-> attrs, secret |-> secret, key |-> key,
                      copied |-> copied, clear |-> auth = Zero]
        BY <1>4, <2>3 DEF Has
      <3> HIDE DEF key
      <3> QED
        BY <3>1
    <2> HIDE DEF b, key
    <2>8. IsBuffer(sbuf)'
      BY <2>4, <2>6, Zenon DEF IsBuffer
    <2>9. SignedBy(sbuf, built.key)' /\ built'.key \in Seq(Nat)
      BY <2>4, <2>6, <2>7, Zenon DEF SignedBy, Attrs
    <2>10. built'.clear <=> sbuf'.auth.auth = Zero
      BY <2>4, <2>6, <2>7, Zenon
    <2>11. built'.copied => built'.key = built'.secret
      BY <2>5, <2>7, Zenon
    <2> QED
      BY <1>2, <1>3, <2>8, <2>9, <2>10, <2>11, Zenon DEF AInv
  <1> DEFINE l == Len(attrs)
             ps == Each(Plain, attrs)
             qs == [i \in DOMAIN attrs |->
                      add_radius_att_string(attrs[i][1], attrs[i][2])]
  <1>5. l \in Nat /\ DOMAIN attrs = 1..l /\ \A i \in 1..l : attrs[i] \in Nat \X Seq(Nat)
    BY <1>1, LenProperties, ElementOfSeq, Zenon
  <1> HIDE DEF l
  <1>6. /\ DOMAIN ps = 1..l /\ \A i \in 1..l : ps[i] = Plain(attrs[i])
        /\ ps = [i \in 1..l |-> ps[i]]
    BY <1>5, Zenon DEF Each
  <1>7. /\ DOMAIN qs = 1..l
        /\ \A i \in 1..l : qs[i] = add_radius_att_string(attrs[i][1], attrs[i][2])
        /\ qs = [i \in 1..l |-> qs[i]]
    BY <1>5, Zenon
  <1>8. \A i \in 1..l : IsPiece(Plain(attrs[i]))
                          /\ IsPiece(add_radius_att_string(attrs[i][1], attrs[i][2]))
    BY <1>5, AttributeIs
  <1> HIDE DEF ps, qs
  <1>9. Len(ps) \in Nat /\ \A i \in 1..Len(ps) : IsPiece(ps[i])
    <2>1. Len(ps) = l
      BY <1>5, <1>6
    <2> QED
      BY <1>5, <1>6, <1>8, <2>1, Zenon
  <1>a. n \in Nat /\ n <= n
    BY <1>1, LenProperties
  <1> HIDE DEF n
  <1>b. ASSUME NEW code, NEW auth, NEW f, f = Framed(code, auth, secret, ps),
               sbuf' = Signed(f, secret), Has(f, secret, attrs, TRUE)
        PROVE  AInv'
    <2>1. f.len + n <= Len(f.body)
      <3>1. LET g == Framed(code, auth, secret, ps) IN
            IsMessage(g) /\ g.len + Len(secret) \in 0..Len(g.body)
        BY <1>1, <1>9, FramedIs
      <3>2. f.len + n \in 0..Len(f.body) /\ Len(f.body) \in Nat
        <4>1. IsMessage(f) /\ f.len + n \in 0..Len(f.body)
          BY <1>b, <3>1, Zenon DEF n
        <4> QED
          BY <4>1, LenProperties DEF IsMessage
      <3> QED
        BY <3>2
    <2>2. \A i \in 1..n : secret[i] = secret[i]
      OBVIOUS
    <2>3. n <= Len(secret)
      BY <1>a DEF n
    <2> QED
      BY <1>1, <1>4, <1>9, <1>b, <2>1, <2>2, <2>3, Zenon
  <1>10. CASE /\ sbuf' = radius_account_request_build(secret, attrs)
              /\ Has(account_request(secret, attrs), secret, attrs, TRUE)
    <2>1. account_request(secret, attrs) = Framed(Accounting, sbuf.auth, secret, ps)
      BY DEF account_request, ps
    <2>2. sbuf' = Signed(account_request(secret, attrs), secret)
      BY <1>10 DEF radius_account_request_build
    <2> QED
      BY <1>b, <1>10, <2>1, <2>2, Zenon
  <1>11. CASE /\ sbuf' = radius_access_request_build(secret, attrs)
              /\ Has(access_request(secret, attrs), secret, attrs, TRUE)
    <2>1. access_request(secret, attrs) = Framed(Access, Nonce, secret, ps)
      BY DEF access_request, ps
    <2>2. sbuf' = Signed(access_request(secret, attrs), secret)
      BY <1>11 DEF radius_access_request_build
    <2> QED
      BY <1>b, <1>11, <2>1, <2>2, Zenon
  <1>12. ASSUME NEW vendor \in VendorAttrs, NEW copied \in {<<>>, Append(secret, 0)},
                NEW b, b = make_account_msg(copied, vendor, attrs),
                b.len + n <= Len(b.body), sbuf' = finish_account_msg(b, secret),
                Has(b, secret, attrs, copied # <<>>)
         PROVE  AInv'
    <2> DEFINE vs == <<vendor>> \o qs
    <2>1. b = Framed(Accounting, sbuf.auth, copied, vs) /\ sbuf' = Signed(b, secret)
      BY <1>12 DEF finish_account_msg, make_account_msg, qs
    <2>2. IsPiece(vendor)
      BY <1>12, VendorIs, Zenon
    <2> DEFINE Piece == {a \in {vendor} \cup {qs[i] : i \in 1..l} : IsPiece(a)}
    <2>3. <<vendor>> \in Seq(Piece) /\ qs \in Seq(Piece)
      <3>1. vendor \in Piece /\ \A i \in 1..l : qs[i] \in Piece
        BY <1>7, <1>8, <2>2, Zenon
      <3> HIDE DEF Piece
      <3> QED
        BY <1>5, <1>7, <3>1
    <2>4. vs \in Seq(Piece)
      <3> HIDE DEF Piece
      <3> QED
        BY <2>3, ConcatProperties, Zenon
    <2> HIDE DEF vs
    <2>5. Len(vs) \in Nat /\ \A i \in 1..Len(vs) : vs[i] \in Piece
      <3> HIDE DEF Piece
      <3> QED
        BY <2>4, LenProperties, ElementOfSeq, Zenon
    <2>6. \A i \in 1..Len(vs) : IsPiece(vs[i])
      BY <2>5, Zenon
    <2>7. copied \in Seq(Nat)
            /\ (copied # <<>> => n <= Len(copied)
                                   /\ \A i \in 1..n : copied[i] = secret[i])
      <3>1. CASE copied = <<>>
        BY <3>1
      <3>2. CASE copied = Append(secret, 0)
        <4>1. /\ Append(secret, 0) \in Seq(Nat) /\ Len(Append(secret, 0)) = Len(secret) + 1
              /\ \A i \in 1..Len(secret) : Append(secret, 0)[i] = secret[i]
          BY <1>1, AppendProperties
        <4>2. n <= Len(copied)
          BY <1>a, <3>2, <4>1 DEF n
        <4> QED
          BY <3>2, <4>1, <4>2, Zenon DEF n
      <3> QED
        BY <1>12, <3>1, <3>2, Zenon
    <2> QED
      BY <1>4, <1>12, <2>1, <2>5, <2>6, <2>7, Zenon
  <1>13. \/ /\ sbuf' = radius_account_request_build(secret, attrs)
            /\ Has(account_request(secret, attrs), secret, attrs, TRUE)
         \/ /\ sbuf' = radius_access_request_build(secret, attrs)
            /\ Has(access_request(secret, attrs), secret, attrs, TRUE)
         \/ \E vendor \in VendorAttrs, copied \in {<<>>, Append(secret, 0)} :
              LET b == make_account_msg(copied, vendor, attrs) IN
              /\ b.len + Len(secret) <= Len(b.body)
              /\ sbuf' = finish_account_msg(b, secret)
              /\ Has(b, secret, attrs, copied # <<>>)
    BY Zenon DEF Build
  <1> QED
    BY <1>10, <1>11, <1>12, <1>13, Zenon DEF n

(* A message that arrives: it is whole if its octets are those that were   *)
(* sent.                                                                   *)
LEMMA ArriveKeeps ==
  ASSUME AInv, built # NoBuild, UNCHANGED <<sbuf, built>>,
         NEW octets \in Seq(Nat), NEW len, NEW hurt \in BOOLEAN,
         len = Len(octets), Arrive(octets, len, hurt),
         ~hurt <=> octets = Attrs(sbuf)
  PROVE  AInv'
  <1> DEFINE secret == built.key
             o == Attrs(sbuf)
             body == Over(octets, rbuf.body)
  <1>1. /\ rbuf.body \in Seq(Nat) /\ sbuf.body \in Seq(Nat) /\ secret \in Seq(Nat)
        /\ SignedBy(sbuf, secret)
    BY Zenon DEF AInv, IsBuffer
  <1>2. sbuf.len \in 0..Len(sbuf.body) /\ sbuf.auth.code = sbuf.code
          /\ sbuf.auth.len = sbuf.len /\ sbuf.auth.octets = o \o secret
    <2>1. PICK x : x = sbuf.auth.auth
      OBVIOUS
    <2>2. /\ sbuf.len \in 0..Len(sbuf.body)
          /\ sbuf.auth = [code |-> sbuf.code, auth |-> x, len |-> sbuf.len,
                          octets |-> o \o secret]
      BY <1>1, <2>1, Zenon DEF SignedBy
    <2> HIDE DEF o
    <2> QED
      BY <2>2, SMTT(30)
  <1>3. o \in Seq(Nat) /\ Len(o) = sbuf.len
    BY <1>1, <1>2, Beginning DEF Attrs
  <1>4. /\ body \in Seq(Nat) /\ Len(body) \in Nat /\ Len(octets) \in 0..Len(body)
        /\ SubSeq(body, 1, Len(octets)) = octets
    BY <1>1, Overwritten
  <1>5. rbuf' = [code |-> sbuf.code, auth |-> sbuf.auth, len |-> len, body |-> body]
          /\ altered' = hurt
    BY DEF Arrive
  <1> HIDE DEF body
  <1>6. /\ rbuf'.code = sbuf.code /\ rbuf'.auth = sbuf.auth /\ rbuf'.len = Len(octets)
        /\ rbuf'.body = body /\ IsBuffer(rbuf')
    BY <1>4, <1>5 DEF IsBuffer
  <1>7. SubSeq(o \o secret, 1, sbuf.len) = o
    BY <1>1, <1>3, BeginningOfConcat
  <1> HIDE DEF o
  <1>8. Attrs(rbuf') = octets
    BY <1>4, <1>6, Zenon DEF Attrs
  <1>9. Unaltered(rbuf') <=> octets = o
    BY <1>2, <1>3, <1>6, <1>7, <1>8, Zenon DEF Unaltered
  <1>10. Received'
    <2>1. altered' <=> ~Unaltered(rbuf')
      BY <1>5, <1>9, Zenon DEF o
    <2>2. rbuf'.auth.code = rbuf'.code
      BY <1>2, <1>6, Zenon
    <2> QED
      BY <2>1, <2>2, Zenon DEF Received, Unaltered, Attrs
  <1>11. IsBuffer(sbuf)' /\ IsBuffer(rbuf)'
    BY <1>6, Zenon DEF AInv, IsBuffer
  <1>12. /\ built'.key \in Seq(Nat) /\ SignedBy(sbuf, built.key)'
         /\ sbuf'.code = Accounting => (built'.clear <=> sbuf'.auth.auth = Zero)
    BY Zenon DEF AInv, SignedBy, Attrs
  <1>13. altered' \in BOOLEAN
    BY <1>5
  <1> QED
    BY <1>4, <1>6, <1>10, <1>11, <1>12, <1>13, Zenon DEF AInv

(* On the way an octet is altered, or the last is lost, or nothing is.     *)
LEMMA TransmitKeeps ==
  ASSUME AInv, Transmit PROVE AInv'
  <1> DEFINE o == Attrs(sbuf)
  <1>1. built # NoBuild /\ UNCHANGED <<sbuf, built>>
    BY DEF Transmit
  <1>2. sbuf.body \in Seq(Nat) /\ sbuf.len \in 0..Len(sbuf.body)
    BY <1>1, Zenon DEF AInv, IsBuffer, SignedBy
  <1>3. o \in Seq(Nat) /\ Len(o) = sbuf.len /\ Len(o) \in Nat
    <2>1. o \in Seq(Nat) /\ Len(o) = sbuf.len
      BY <1>2, Beginning DEF Attrs
    <2> QED
      BY <2>1, LenProperties, Zenon
  <1>4. \/ Arrive(o, sbuf.len, FALSE)
        \/ \E i \in DOMAIN o : Arrive([o EXCEPT ![i] = @ + 1], sbuf.len, TRUE)
        \/ sbuf.len > 0 /\ Arrive(Front(o), sbuf.len - 1, TRUE)
    BY Zenon DEF Transmit, Attrs
  <1>5. CASE Arrive(o, sbuf.len, FALSE)
    BY <1>1, <1>3, <1>5, ArriveKeeps
  <1>6. ASSUME NEW i \in DOMAIN o, Arrive([o EXCEPT ![i] = @ + 1], sbuf.len, TRUE)
        PROVE  AInv'
    <2> DEFINE e == o[i] + 1
               q == [o EXCEPT ![i] = e]
    <2>1. i \in 1..Len(o) /\ o[i] \in Nat
      BY <1>3, <1>6, LenProperties, ElementOfSeq, Zenon
    <2>2. e \in Nat /\ e # o[i]
      BY <2>1
    <2> HIDE DEF e
    <2>3. q \in Seq(Nat) /\ Len(q) = Len(o) /\ q[i] = e
      <3> HIDE DEF o
      <3>1. /\ q \in Seq(Nat) /\ Len(q) = Len(o)
            /\ \A j \in 1..Len(o) : q[j] = IF j = i THEN e ELSE o[j]
        BY <1>3, <2>1, <2>2, ExceptSeq
      <3> QED
        BY <2>1, <3>1, Zenon
    <2>4. Arrive(q, sbuf.len, TRUE)
      BY <1>6 DEF e
    <2> HIDE DEF q
    <2>5. q # o
      BY <2>2, <2>3, Zenon
    <2> QED
      BY <1>1, <1>3, <2>3, <2>4, <2>5, ArriveKeeps
  <1>7. CASE sbuf.len > 0 /\ Arrive(Front(o), sbuf.len - 1, TRUE)
    <2> DEFINE q == Front(o)
    <2>1. q = SubSeq(o, 1, Len(o) - 1)
      BY DEF Front
    <2>2. Len(o) - 1 \in 0..Len(o) /\ Len(o) - 1 # Len(o)
      BY <1>3, <1>7
    <2>3. q \in Seq(Nat) /\ Len(q) = Len(o) - 1
      <3> HIDE DEF o, q
      <3> QED
        BY <1>3, <2>1, <2>2, Beginning, Zenon
    <2> HIDE DEF q
    <2>4. q # o
      BY <2>2, <2>3, Zenon
    <2>5. Arrive(q, sbuf.len - 1, TRUE)
      BY <1>7 DEF q
    <2> QED
      BY <1>1, <1>3, <2>3, <2>4, <2>5, ArriveKeeps
  <1> QED
    BY <1>4, <1>5, <1>6, <1>7, Zenon

(* What the callers clear.                                                 *)
LEMMA BlankIs == Blank16(Room) \in Seq(Nat) /\ Len(Blank16(Room)) \in Nat
  <1>1. Blank16(Room) \in Seq(Nat)
    BY DEF Blank16, Room
  <1> QED
    BY <1>1, LenProperties, Zenon

LEMMA ClearKeeps ==
  ASSUME AInv, ClearSender \/ ClearReceiver PROVE AInv'
  <1> DEFINE blank == Blank16(Room)
  <1>1. blank \in Seq(Nat) /\ Len(blank) \in Nat /\ 0 \in 0..Len(blank)
    BY BlankIs
  <1>2. CASE ClearSender
    <2>1. /\ sbuf' = [sbuf EXCEPT !.auth = Zero, !.body = blank] /\ built' = NoBuild
          /\ rbuf' = rbuf /\ altered' = altered
      BY <1>2 DEF ClearSender
    <2> HIDE DEF blank
    <2>2. PICK b : b = sbuf
      OBVIOUS
    <2>3. b = [code |-> b.code, auth |-> b.auth, len |-> b.len, body |-> b.body]
      BY <2>2, Zenon DEF AInv, IsBuffer
    <2>4. PICK c, a, l, o : b = [code |-> c, auth |-> a, len |-> l, body |-> o]
      BY <2>3, Zenon
    <2>a. sbuf' = [b EXCEPT !.auth = Zero, !.body = blank]
      BY <2>1, <2>2, Zenon
    <2> DEFINE d == [b EXCEPT !.auth = Zero]
    <2>b. d = [code |-> c, auth |-> Zero, len |-> l, body |-> o]
      BY <2>4
    <2>c. sbuf' = [d EXCEPT !.body = blank]
      BY <2>a
    <2> HIDE DEF d
    <2>5. sbuf' = [code |-> c, auth |-> Zero, len |-> l, body |-> blank]
      BY <2>b, <2>c
    <2>6. IsBuffer(sbuf)'
      BY <1>1, <2>5 DEF IsBuffer
    <2>7. Received' /\ IsBuffer(rbuf)' /\ rbuf'.len \in 0..Len(rbuf'.body)
            /\ altered' \in BOOLEAN
      BY <2>1, Zenon DEF AInv, Received, Unaltered, Attrs, IsBuffer
    <2>8. ~built'.copied
      BY <2>1 DEF NoBuild
    <2> QED
      BY <2>1, <2>6, <2>7, <2>8, Zenon DEF AInv
  <1>3. CASE ClearReceiver
    <2>1. /\ rbuf' = [code |-> 0, auth |-> Zero, len |-> 0, body |-> blank]
          /\ UNCHANGED <<sbuf, built, altered>>
      BY <1>3 DEF ClearReceiver
    <2> HIDE DEF blank
    <2>2. /\ rbuf'.code = 0 /\ rbuf'.len = 0 /\ rbuf'.body = blank /\ IsBuffer(rbuf)'
      BY <1>1, <2>1 DEF IsBuffer
    <2>3. Received'
      BY <2>2, Zenon DEF Received
    <2>4. rbuf'.len \in 0..Len(rbuf'.body)
      BY <1>1, <2>2
    <2> QED
      BY <2>1, <2>2, <2>3, <2>4, Zenon DEF AInv, IsBuffer, SignedBy, Attrs
  <1> QED
    BY <1>2, <1>3

(* The inductive invariant.                                                *)
LEMMA RadiusInvariant == ASpec => []AInv
  <1>1. AInit => AInv
    <2> SUFFICES ASSUME AInit PROVE AInv
      OBVIOUS
    <2> DEFINE blank == Blank16(Room)
    <2>1. blank \in Seq(Nat) /\ 0 \in 0..Len(blank)
      BY BlankIs
    <2>2. /\ sbuf = [code |-> 0, auth |-> Zero, len |-> 0, body |-> blank]
          /\ rbuf = sbuf /\ built = NoBuild /\ altered \in BOOLEAN
      BY DEF AInit
    <2> HIDE DEF blank
    <2>3. IsBuffer(sbuf) /\ sbuf.len = 0 /\ sbuf.body = blank /\ sbuf.code = 0
      BY <2>1, <2>2 DEF IsBuffer
    <2>4. ~built.copied
      BY <2>2 DEF NoBuild
    <2> QED
      BY <2>1, <2>2, <2>3, <2>4, Zenon DEF AInv, Received
  <1>2. AInv /\ [ANext]_avars => AInv'
    <2> SUFFICES ASSUME AInv, [ANext]_avars PROVE AInv'
      OBVIOUS
    <2>1. ASSUME NEW s \in Secrets, NEW a \in Attributes, Build(s, a) PROVE AInv'
      BY <2>1, BuildKeeps
    <2>2. CASE UNCHANGED avars
      BY <2>2, Zenon DEF avars, AInv, IsBuffer, SignedBy, Received, Unaltered, Attrs
    <2> QED
      BY <2>1, <2>2, ClearKeeps, TransmitKeeps, Zenon DEF ANext
  <1> QED
    BY <1>1, <1>2, PTL DEF ASpec

(* A receiver accepts an accounting request if and only if its secret is   *)
(* what was signed behind it, it was built in a clear buffer and nothing   *)
(* of it was altered; and what was signed is the sender's secret if the    *)
(* builder, or its caller, has copied it there.                            *)
THEOREM OnlyTheGenuineIsAccepted == ASpec => []Genuine
  <1>1. AInv => Genuine
    <2> SUFFICES ASSUME AInv, built # NoBuild, rbuf.auth = sbuf.auth,
                        rbuf.code = Accounting, NEW s \in Secrets
                 PROVE  Accepted(s) <=> (s = built.key /\ built.clear /\ ~altered)
      BY DEF Genuine, AInv
    <2> DEFINE secret == built.key
               o == Attrs(sbuf)
               r == Attrs(rbuf)
    <2>1. s \in Seq(Nat) /\ secret \in Seq(Nat) /\ SignedBy(sbuf, secret)
      BY RadiusAssumption, Zenon DEF AInv
    <2>2. /\ sbuf.body \in Seq(Nat) /\ sbuf.len \in 0..Len(sbuf.body)
          /\ rbuf.body \in Seq(Nat) /\ rbuf.len \in 0..Len(rbuf.body)
      BY <2>1, Zenon DEF AInv, IsBuffer, SignedBy
    <2>3. /\ o \in Seq(Nat) /\ Len(o) = sbuf.len /\ r \in Seq(Nat) /\ Len(r) = rbuf.len
      BY <2>2, Beginning DEF Attrs
    <2>4. PICK a : a = sbuf.auth.auth
      OBVIOUS
    <2>5. sbuf.auth = [code |-> sbuf.code, auth |-> a, len |-> sbuf.len,
                       octets |-> o \o secret]
      BY <2>1, <2>4, Zenon DEF SignedBy
    <2>6. PICK c, l : rbuf = [code |-> c, auth |-> sbuf.auth, len |-> l,
                              body |-> rbuf.body]
                        /\ c = Accounting /\ l = rbuf.len
      BY Zenon DEF AInv, IsBuffer
    <2>7. sbuf.code = Accounting
      <3>1. rbuf.auth.code = rbuf.code
        BY DEF AInv, Received, Accounting
      <3> QED
        BY <2>5, <3>1
    <2>8. built.clear <=> a = Zero
      BY <2>4, <2>7, Zenon DEF AInv
    <2>9. ~altered <=> (rbuf.len = sbuf.len /\ r = o)
      <3>1. ~altered <=> Unaltered(rbuf)
        BY DEF AInv, Received, Accounting
      <3>2. sbuf.auth.len = sbuf.len /\ sbuf.auth.octets = o \o secret
        BY <2>5
      <3>3. SubSeq(o \o secret, 1, sbuf.len) = o
        BY <2>1, <2>3, BeginningOfConcat
      <3> QED
        BY <3>1, <3>2, <3>3, Zenon DEF Unaltered
    <2>10. Accepted(s) <=> [code |-> Accounting, auth |-> Zero, len |-> rbuf.len,
                            octets |-> r \o s] = sbuf.auth
      <3> DEFINE body == rbuf.body
                 t == r \o s
      <3>1. SubSeq(t, 1, rbuf.len + Len(s)) = t
        <4>1. t \in Seq(Nat) /\ Len(t) = rbuf.len + Len(s)
          <5> HIDE DEF r
          <5>1. t \in Seq(Nat) /\ Len(t) = Len(r) + Len(s)
            BY <2>1, <2>3, ConcatProperties, Zenon
          <5> QED
            BY <2>3, <5>1, Zenon
        <4> HIDE DEF t
        <4>2. Len(t) \in Nat /\ Len(t) \in 0..Len(t)
          BY <4>1, LenProperties
        <4>3. /\ SubSeq(t, 1, Len(t)) \in Seq(Nat) /\ Len(SubSeq(t, 1, Len(t))) = Len(t)
              /\ \A i \in 1..Len(t) : SubSeq(t, 1, Len(t))[i] = t[i]
          BY <4>1, <4>2, Beginning, Zenon
        <4>4. SubSeq(t, 1, Len(t)) = t
          BY <4>1, <4>3, SeqEqual
        <4> QED
          BY <4>1, <4>4, Zenon
      <3>2. t = SubSeq(rbuf.body, 1, rbuf.len) \o s
        BY DEF Attrs
      <3> HIDE DEF t
      <3> DEFINE b == [rbuf EXCEPT !.auth = Zero]
      <3>3. b = [code |-> c, auth |-> Zero, len |-> l, body |-> body]
        BY <2>6
      <3> HIDE DEF b
      <3>4. b.len = rbuf.len /\ b.body = rbuf.body /\ b.auth = Zero /\ b.code = c
        BY <2>6, <3>3
      <3>5. [b EXCEPT !.body = t] = [code |-> c, auth |-> Zero, len |-> l, body |-> t]
        BY <3>3
      <3>6. radius_auth_check(rbuf.auth, s, b)
              <=> MD5([b EXCEPT !.body = t], rbuf.len + Len(s)) = rbuf.auth
        BY <3>2, <3>4 DEF radius_auth_check
      <3>7. MD5([b EXCEPT !.body = t], rbuf.len + Len(s))
              = [code |-> c, auth |-> Zero, len |-> l, octets |-> t]
        BY <3>1, <3>5 DEF MD5
      <3> QED
        BY <2>6, <3>6, <3>7 DEF Accepted, b, t
    <2> HIDE DEF o, r, secret
    <2>11. Accepted(s) <=> (a = Zero /\ rbuf.len = sbuf.len /\ r \o s = o \o secret)
      <3> DEFINE t == r \o s
                 u == o \o secret
      <3>1. Accepted(s) <=> [code |-> Accounting, auth |-> Zero, len |-> rbuf.len,
                             octets |-> t]
                          = [code |-> Accounting, auth |-> a, len |-> sbuf.len,
                             octets |-> u]
        BY <2>5, <2>7, <2>10
      <3> HIDE DEF t, u
      <3>2. Accepted(s) <=> (Zero = a /\ rbuf.len = sbuf.len /\ t = u)
        BY <3>1
      <3> QED
        BY <3>2 DEF t, u
    <2>12. ASSUME rbuf.len = sbuf.len, r \o s = o \o secret PROVE r = o /\ s = secret
      <3>1. SubSeq(r \o s, 1, Len(r)) = r /\ SubSeq(o \o secret, 1, Len(o)) = o
        BY <2>1, <2>3, BeginningOfConcat DEF secret
      <3>2. r = o
        BY <2>3, <2>12, <3>1
      <3>3. o \o s = o \o secret
        BY <2>12, <3>2
      <3>4. s = secret
        BY <2>1, <2>3, <3>3, ConcatSimplifications DEF secret
      <3> QED
        BY <3>2, <3>4
    <2> QED
      BY <2>8, <2>9, <2>11, <2>12, Zenon DEF secret
  <1> QED
    BY <1>1, RadiusInvariant, PTL

-----------------------------------------------------------------------------
(* The block cipher.                                                       *)

\* The round function returns a half.
LEMMA RoundFunctionType ==
  ASSUME NEW r \in Half, NEW k \in Half
  PROVE  F(r, k) \in Half
<1> DEFINE t0 == BitXor(r[1], k[1])
           t1 == G(BitXor(BitXor(r[2], k[2]), t0))
           u0 == G(Plus(t0, t1))
           u1 == G(Plus(t1, u0))
<1>1. t0 \in DWORD
  BY XorAssumption DEF Half
<1>2. BitXor(r[2], k[2]) \in DWORD
  BY XorAssumption DEF Half
<1>3. t1 \in DWORD
  BY <1>1, <1>2, XorAssumption, WordAssumption
<1>4. u0 \in DWORD
  BY <1>1, <1>3, WordAssumption
<1>5. u1 \in DWORD
  BY <1>3, <1>4, WordAssumption
<1>6. Plus(u0, u1) \in DWORD
  BY <1>4, <1>5, WordAssumption
<1> QED
  BY <1>5, <1>6 DEF F, Half

\* A round with the same right half and key takes back what it has added.
LEMMA RoundUndone ==
  ASSUME NEW l \in Half, NEW r \in Half, NEW k \in Half
  PROVE  /\ SeedRound(l, r, k) \in Half
         /\ SeedRound(SeedRound(l, r, k), r, k) = l
<1> DEFINE f == F(r, k)
           m == SeedRound(l, r, k)
<1>1. f \in Half
  BY RoundFunctionType
<1>2. m = <<BitXor(l[1], f[1]), BitXor(l[2], f[2])>>
  BY DEF SeedRound
<1>3. /\ l[1] \in DWORD /\ l[2] \in DWORD /\ f[1] \in DWORD /\ f[2] \in DWORD
      /\ l = <<l[1], l[2]>>
  BY <1>1 DEF Half
<1>4. m \in Half
  BY <1>2, <1>3, XorAssumption DEF Half
<1>5. m[1] = BitXor(l[1], f[1]) /\ m[2] = BitXor(l[2], f[2])
  BY <1>2
<1>6. BitXor(m[1], f[1]) = l[1] /\ BitXor(m[2], f[2]) = l[2]
  BY <1>3, <1>5, XorAssumption
<1>7. SeedRound(m, r, k) = <<BitXor(m[1], f[1]), BitXor(m[2], f[2])>>
  BY DEF SeedRound
<1> QED
  BY <1>3, <1>4, <1>6, <1>7

\* Two rounds on the swapped halves, with the keys swapped, take back two.
LEMMA TwoRoundsUndone ==
  ASSUME NEW b \in Block, NEW j \in Half, NEW k \in Half
  PROVE  /\ TwoRounds(b, j, k) \in Block
         /\ TwoRounds(Swapped(TwoRounds(b, j, k)), k, j) = Swapped(b)
<1> DEFINE m == SeedRound(b[1], b[2], j)
           v == SeedRound(b[2], m, k)
<1>1. b[1] \in Half /\ b[2] \in Half
  BY DEF Block
<1>2. m \in Half /\ SeedRound(m, b[2], j) = b[1]
  BY <1>1, RoundUndone
<1>3. v \in Half /\ SeedRound(v, m, k) = b[2]
  BY <1>1, <1>2, RoundUndone
<1>4. TwoRounds(b, j, k) = <<m, v>>
  BY DEF TwoRounds, SecondRound
<1>5. Swapped(TwoRounds(b, j, k)) = <<v, m>>
  BY <1>4 DEF Swapped
<1>6. TwoRounds(<<v, m>>, k, j) = <<b[2], SeedRound(m, b[2], j)>>
  <2>1. TwoRounds(<<v, m>>, k, j) = SecondRound(SeedRound(v, m, k), m, j)
    BY DEF TwoRounds
  <2> QED
    BY <1>3, <2>1 DEF SecondRound
<1> QED
  BY <1>2, <1>3, <1>4, <1>5, <1>6 DEF Swapped, Block

\* The blocks between the rounds: each is two rounds of the one before.
InTurn(s, b, k) ==
  /\ s = [i \in 0..8 |-> s[i]] /\ s[0] = b
  /\ \A i \in 1..8 : s[i] = TwoRounds(s[i - 1], k[2 * i - 1], k[2 * i])
Passing(s, b, k) ==
  [i \in 0..8 |-> IF i = 0 THEN b
                  ELSE TwoRounds(s[i - 1], k[2 * i - 1], k[2 * i])]

\* They are what the recursive function of Rounds steps through.
LEMMA InTurnIsFixed ==
  ASSUME NEW s, NEW b, NEW k
  PROVE  InTurn(s, b, k) <=> s = Passing(s, b, k)
<1>1. ASSUME InTurn(s, b, k) PROVE s = Passing(s, b, k)
  <2>1. \A i \in 0..8 : s[i] = Passing(s, b, k)[i]
    BY <1>1 DEF InTurn, Passing
  <2>2. Passing(s, b, k) = [i \in 0..8 |-> Passing(s, b, k)[i]]
    BY DEF Passing
  <2> QED
    BY <1>1, <2>1, <2>2 DEF InTurn
<1>2. ASSUME s = Passing(s, b, k) PROVE InTurn(s, b, k)
  <2>1. s = [i \in 0..8 |-> s[i]] /\ s[0] = b
    BY <1>2 DEF Passing
  <2>2. ASSUME NEW i \in 1..8
        PROVE  s[i] = TwoRounds(s[i - 1], k[2 * i - 1], k[2 * i])
    <3>1. Passing(s, b, k)[i] = TwoRounds(s[i - 1], k[2 * i - 1], k[2 * i])
      BY DEF Passing
    <3> QED
      BY <1>2, <3>1
  <2> QED
    BY <2>1, <2>2 DEF InTurn
<1> QED
  BY <1>1, <1>2

\* There is one sequence of them, and Rounds returns its end swapped.
LEMMA RoundsEnd ==
  ASSUME NEW s, NEW b, NEW k, InTurn(s, b, k)
  PROVE  Rounds(b, k) = Swapped(s[8])
<1> DEFINE d == CHOOSE t : t = Passing(t, b, k)
<1>1. s = Passing(s, b, k)
  BY InTurnIsFixed
<1>2. d = Passing(d, b, k)
  BY <1>1
<1> HIDE DEF d
<1>3. InTurn(d, b, k)
  BY <1>2, InTurnIsFixed
<1>4. d[0] = s[0]
  BY <1>3 DEF InTurn
<1>5. d[1] = s[1] /\ d[2] = s[2] /\ d[3] = s[3] /\ d[4] = s[4]
  BY <1>3, <1>4 DEF InTurn
<1>6. d[5] = s[5] /\ d[6] = s[6] /\ d[7] = s[7] /\ d[8] = s[8]
  BY <1>3, <1>5 DEF InTurn
<1>7. Rounds(b, k) = Swapped(d[8])
  BY DEF Rounds, Passing, d
<1> QED
  BY <1>6, <1>7

\* Between the rounds there are blocks.
LEMMA BlocksBetween ==
  ASSUME NEW b \in Block, NEW k \in [1..16 -> Half]
  PROVE  \E s \in [0..8 -> Block] : InTurn(s, b, k)
<1> DEFINE T(a, i) == TwoRounds(a, k[2 * i - 1], k[2 * i])
<1>1. ASSUME NEW a \in Block, NEW i \in 1..8 PROVE T(a, i) \in Block
  <2>1. k[2 * i - 1] \in Half /\ k[2 * i] \in Half
    OBVIOUS
  <2> QED
    BY <2>1, TwoRoundsUndone
<1> HIDE DEF T
<1>2. PICK b1 \in Block : b1 = T(b, 1)
  BY <1>1
<1>3. PICK b2 \in Block : b2 = T(b1, 2)
  BY <1>1
<1>4. PICK b3 \in Block : b3 = T(b2, 3)
  BY <1>1
<1>5. PICK b4 \in Block : b4 = T(b3, 4)
  BY <1>1
<1>6. PICK b5 \in Block : b5 = T(b4, 5)
  BY <1>1
<1>7. PICK b6 \in Block : b6 = T(b5, 6)
  BY <1>1
<1>8. PICK b7 \in Block : b7 = T(b6, 7)
  BY <1>1
<1>9. PICK b8 \in Block : b8 = T(b7, 8)
  BY <1>1
<1> DEFINE s == [i \in 0..8 |-> IF i = 0 THEN b ELSE
                                <<b1, b2, b3, b4, b5, b6, b7, b8>>[i]]
<1>10. s \in [0..8 -> Block]
  OBVIOUS
<1>11. \A i \in 1..8 : s[i] = T(s[i - 1], i)
  BY <1>2, <1>3, <1>4, <1>5, <1>6, <1>7, <1>8, <1>9
<1>12. s[0] = b /\ s = [i \in 0..8 |-> s[i]]
  OBVIOUS
<1>13. InTurn(s, b, k)
  BY <1>11, <1>12 DEF InTurn, T
<1> QED
  BY <1>10, <1>13

\* SeedDecrypt returns what SeedEncrypt was given, for all blocks and keys: it
\* passes through the blocks that SeedEncrypt passed, swapped and backwards.
THEOREM DecryptsWhatWasEncrypted ==
  ASSUME NEW b \in Block, NEW k \in [1..16 -> Half]
  PROVE  SeedDecrypt(SeedEncrypt(b, k), k) = b
<1>1. PICK s \in [0..8 -> Block] : InTurn(s, b, k)
  BY BlocksBetween
<1>2. SeedEncrypt(b, k) = Swapped(s[8])
  BY <1>1, RoundsEnd DEF SeedEncrypt
<1> DEFINE r == [i \in 1..16 |-> k[17 - i]]
           t == [i \in 0..8 |-> Swapped(s[8 - i])]
<1>3. ASSUME NEW i \in 1..8
      PROVE  t[i] = TwoRounds(t[i - 1], r[2 * i - 1], r[2 * i])
  <2>1. /\ r[2 * i - 1] = k[18 - 2 * i] /\ r[2 * i] = k[17 - 2 * i]
        /\ k[18 - 2 * i] \in Half /\ k[17 - 2 * i] \in Half
    OBVIOUS
  <2>2. 9 - i \in 1..8 /\ 8 - i \in 0..8
        /\ (9 - i) - 1 = 8 - i /\ 2 * (9 - i) - 1 = 17 - 2 * i
        /\ 2 * (9 - i) = 18 - 2 * i
    OBVIOUS
  <2>3. s[9 - i] = TwoRounds(s[8 - i], k[17 - 2 * i], k[18 - 2 * i])
    BY <1>1, <2>2 DEF InTurn
  <2>4. TwoRounds(Swapped(s[9 - i]), k[18 - 2 * i], k[17 - 2 * i]) = Swapped(s[8 - i])
    <3>1. s[8 - i] \in Block
      BY <1>1, <2>2
    <3>2. TwoRounds(Swapped(TwoRounds(s[8 - i], k[17 - 2 * i], k[18 - 2 * i])),
                    k[18 - 2 * i], k[17 - 2 * i]) = Swapped(s[8 - i])
      BY <2>1, <3>1, TwoRoundsUndone, Zenon
    <3> QED
      BY <2>3, <3>2, Zenon
  <2>5. t[i] = Swapped(s[8 - i]) /\ t[i - 1] = Swapped(s[9 - i])
    OBVIOUS
  <2> QED
    BY <2>1, <2>4, <2>5
<1>4. t[0] = Swapped(s[8]) /\ t[8] = Swapped(s[0]) /\ t = [i \in 0..8 |-> t[i]]
  OBVIOUS
<1> HIDE DEF t, r
<1>5. InTurn(t, Swapped(s[8]), r)
  BY <1>3, <1>4 DEF InTurn
<1>6. Rounds(Swapped(s[8]), r) = Swapped(t[8])
  BY <1>5, RoundsEnd
<1>7. SeedDecrypt(SeedEncrypt(b, k), k) = Swapped(Swapped(s[0]))
  BY <1>2, <1>4, <1>6 DEF SeedDecrypt, r
<1>8. s[0] = b
  BY <1>1 DEF InTurn
<1> QED
  BY <1>7, <1>8 DEF Swapped, Block
=============================================================================

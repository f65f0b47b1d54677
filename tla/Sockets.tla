------------------------------- MODULE Sockets -------------------------------
(***************************************************************************)
(* Sockets: lib/sock.c and lib/sockv6.c.                                   *)
(*                                                                         *)
(* A function makes its system calls in order and returns a descriptor, or *)
(* -1 when one of them failed.  The functions run in several threads, and  *)
(* getprotobyname answers all of them in one static buffer (it is glibc's; *)
(* only the sockets of IPv6 do without it).                                *)
(*                                                                         *)
(* External: the kernel, which grants or refuses a call, takes a stream or *)
(* a datagram socket of its own protocol only and a raw one of any; and    *)
(* the host that answers what sendnwait sent, or does not.                 *)
(***************************************************************************)
EXTENDS Integers, Sequences, FiniteSets

CONSTANTS
  Client,       \* the threads
  MaxOpen,      \* descriptors the process may open
  MaxUses       \* bound: calls of the functions

ASSUME SocketAssumption == MaxOpen \in Nat /\ MaxUses \in Nat

VARIABLES
  protoent,     \* the static buffer of getprotobyname
  sock,         \* open descriptors: protocol, state
  use,          \* the call of each thread: the function, its step, its fd
  held,         \* descriptors that were returned and not yet closed
  uses,         \* calls so far
  left,         \* history: descriptors that a call did not close
  shared        \* history: two lookups of different protocols overlapped

kvars == <<protoent, sock, use, held, uses, left, shared>>

Fd == 1..MaxOpen
NoFd == 0
Free == [f |-> "none", at |-> 0, fd |-> NoFd]

\* The system calls of each function; "ready" and "recv" are select and
\* recvfrom.  An address is converted before it is used, and for IPv6 that is
\* a step that can fail.
icmpsock       == <<"getproto", "socket">>
tcp_listen     == <<"getproto", "socket", "bind", "listen">>
tcp_connect    == <<"getproto", "socket", "connect">>
udpsock        == <<"getproto", "socket", "bind">>
udpbsock       == <<"getproto", "socket", "bind">>
udpaddrsock    == <<"getproto", "socket", "bind">>
v6_tcp_listen  == <<"socket", "pton", "bind", "listen">>
v6_tcp_connect == <<"socket", "pton", "connect">>
sendnwait      == udpsock \o <<"sendto", "ready", "recv">>

Steps == [icmpsock |-> icmpsock, tcp_listen |-> tcp_listen,
          tcp_connect |-> tcp_connect, udpsock |-> udpsock,
          udpbsock |-> udpbsock, udpaddrsock |-> udpaddrsock,
          v6_tcp_listen |-> v6_tcp_listen, v6_tcp_connect |-> v6_tcp_connect,
          sendnwait |-> sendnwait]
Function == DOMAIN Steps
Proto == [f \in Function |->
  CASE f = "icmpsock" -> "icmp"
    [] f \in {"tcp_listen", "tcp_connect", "v6_tcp_listen", "v6_tcp_connect"} -> "tcp"
    [] OTHER -> "udp"]
Raw(f) == f = "icmpsock"

\* The steps whose failure closes the socket again: sock.c does after bind,
\* listen and connect, sockv6.c never, and sendnwait only within udpsock.
Closes_NotListen(f) == IF f \in {"v6_tcp_listen", "v6_tcp_connect"} THEN {}
                       ELSE {"bind", "connect"}
Closes(f) == IF f \in {"v6_tcp_listen", "v6_tcp_connect"} THEN {}
             ELSE {"bind", "listen", "connect"}

KInit == /\ protoent = "none" /\ sock = [d \in {} |-> 0] /\ held = {}
         /\ use = [t \in Client |-> Free] /\ uses = 0 /\ left = {}
         /\ shared = FALSE

KStep(t) == Steps[use[t].f][use[t].at]
CallStep(t, s) == use[t] # Free /\ KStep(t) = s
LastStep(t) == use[t].at = Len(Steps[use[t].f])

Enter(t, f) ==
  /\ use[t] = Free /\ uses < MaxUses /\ uses' = uses + 1
  /\ use' = [use EXCEPT ![t] = [f |-> f, at |-> 1, fd |-> NoFd]]
  /\ UNCHANGED <<protoent, sock, held, left, shared>>

\* The call goes on, or returns its descriptor.  sendnwait returns a length:
\* it has closed nothing.
Return(t, fd) == IF use[t].f = "sendnwait" THEN left' = left \cup {fd} /\ UNCHANGED held
                 ELSE held' = held \cup {fd} /\ UNCHANGED left
Proceed(t, fd) ==
  IF LastStep(t) THEN use' = [use EXCEPT ![t] = Free] /\ Return(t, fd)
  ELSE /\ use' = [use EXCEPT ![t].at = @ + 1, ![t].fd = fd]
       /\ UNCHANGED <<held, left>>

\* The functions that are known to leave a descriptor open.
Lost(t) == IF use[t].f \in {"v6_tcp_listen", "v6_tcp_connect", "sendnwait"}
           THEN left \cup {use[t].fd} ELSE left

\* A step fails and the function returns -1.
Drop(fd) == [d \in DOMAIN sock \ {fd} |-> sock[d]]
Fail(t) ==
  /\ use[t] # Free /\ use' = [use EXCEPT ![t] = Free]
  /\ IF use[t].fd = NoFd \/ KStep(t) \in Closes(use[t].f)
     THEN sock' = Drop(use[t].fd) /\ UNCHANGED left
     ELSE left' = Lost(t) /\ UNCHANGED sock
  /\ UNCHANGED <<protoent, held, uses, shared>>

\* The answer is in the buffer of everyone.
GetProto(t) ==
  /\ CallStep(t, "getproto") /\ protoent' = Proto[use[t].f] /\ Proceed(t, NoFd)
  /\ shared' = (shared \/ \E u \in Client \ {t} :
                  CallStep(u, "socket") /\ use[u].at > 1 /\ Proto[use[u].f] # protoent')
  /\ UNCHANGED <<sock, uses>>

\* socket() reads the buffer.
Socket(t) ==
  /\ CallStep(t, "socket")
  /\ LET f == use[t].f
         p == IF use[t].at = 1 THEN Proto[f] ELSE protoent IN
       /\ Raw(f) \/ p = Proto[f]
       /\ \E fd \in Fd \ DOMAIN sock :
            /\ \A d \in Fd : d < fd => d \in DOMAIN sock
            /\ Proceed(t, fd)
            /\ sock' = [d \in DOMAIN sock \cup {fd} |->
                          IF d = fd THEN [proto |-> p, state |-> "new"] ELSE sock[d]]
  /\ UNCHANGED <<protoent, uses, shared>>

\* The other steps; a select that times out ends sendnwait like a failure.
AfterCall == [pton |-> "new", bind |-> "bound", listen |-> "listening",
          connect |-> "connected", sendto |-> "bound", ready |-> "bound",
          recv |-> "bound"]
Request(t) ==
  /\ use[t] # Free /\ KStep(t) \in DOMAIN AfterCall
  /\ sock' = [sock EXCEPT ![use[t].fd].state = AfterCall[KStep(t)]]
  /\ Proceed(t, use[t].fd)
  /\ UNCHANGED <<protoent, uses, shared>>

\* The program closes a descriptor it was given.
CloseHeld(fd) == /\ fd \in held /\ held' = held \ {fd} /\ sock' = Drop(fd)
                 /\ UNCHANGED <<protoent, use, uses, left, shared>>

KDone == uses = MaxUses /\ held = {} /\ \A t \in Client : use[t] = Free
KNext == \/ \E t \in Client : \/ \E f \in Function : Enter(t, f)
                              \/ Fail(t) \/ GetProto(t) \/ Socket(t) \/ Request(t)
         \/ \E fd \in Fd : CloseHeld(fd)
         \/ KDone /\ UNCHANGED kvars
KSpec == KInit /\ [][KNext]_kvars

-----------------------------------------------------------------------------
\* What the program holds, and what a call has left behind, is open.
KTypeOK == /\ held \subseteq DOMAIN sock /\ left \subseteq DOMAIN sock
           /\ uses \in 0..MaxUses
           /\ \A d \in DOMAIN sock : sock[d].proto \in {"icmp", "tcp", "udp"}

\* Every open descriptor has one owner: the program, one call that is running,
\* or nobody, and then a function of sockv6.c failed or sendnwait ended.  No
\* call works on a descriptor that is closed or another's.
Running(d) == {t \in Client : use[t] # Free /\ use[t].fd = d}
Owned ==
  /\ \A d \in DOMAIN sock :
       \/ d \in held /\ d \notin left /\ Running(d) = {}
       \/ d \in left /\ d \notin held /\ Running(d) = {}
       \/ d \notin held \cup left /\ Cardinality(Running(d)) = 1
  /\ \A t \in Client : use[t].fd # NoFd => use[t].fd \in DOMAIN sock

\* What icmpsock returns receives ICMP, unless another thread looked a
\* protocol up between the two calls.
Overheard == \A d \in DOMAIN sock :
  (sock[d].proto # "icmp" /\ sock[d].state = "new" /\ d \in held) => shared

\* All of it: every open descriptor has one owner, and what icmpsock returns
\* receives ICMP unless another thread looked a protocol up meanwhile.
SocketsOwned == KTypeOK /\ Owned /\ Overheard

-----------------------------------------------------------------------------
(* The inductive invariant.                                                *)

\* A call is one of the functions, at one of its steps, and has a descriptor
\* behind its socket() and not before.
Calls == [f : Function, at : 1..6, fd : 0..MaxOpen]
SocketAt(f) == IF Steps[f][1] = "socket" THEN 1 ELSE 2
InCall == /\ use \in [Client -> Calls \cup {Free}]
          /\ \A t \in Client : use[t] # Free =>
               /\ use[t].at \in 1..Len(Steps[use[t].f])
               /\ use[t].fd # NoFd <=> use[t].at > SocketAt(use[t].f)

\* Its descriptor is open and nobody else's.
OwnFd == \A t \in Client : use[t].fd # NoFd =>
  /\ use[t].fd \in DOMAIN sock /\ use[t].fd \notin held \cup left
  /\ \A u \in Client : use[u].fd = use[t].fd => u = t

\* An open descriptor has a number, and is held, left behind or in use.
State == {"new", "bound", "listening", "connected"}
Opened == /\ sock \in [DOMAIN sock -> [proto : {"icmp", "tcp", "udp"}, state : State]]
          /\ DOMAIN sock \subseteq Fd /\ held \cap left = {}
          /\ \A d \in DOMAIN sock : d \in held \cup left \/ \E t \in Client : use[t].fd = d

\* The buffer has the protocol of a call between its two steps, or the two
\* lookups have overlapped.
Looked == \A t \in Client : (CallStep(t, "socket") /\ use[t].at > 1) =>
  /\ protoent \in {"icmp", "tcp", "udp"}
  /\ protoent = Proto[use[t].f] \/ shared

KInv == KTypeOK /\ InCall /\ OwnFd /\ Opened /\ Looked /\ Overheard
=============================================================================

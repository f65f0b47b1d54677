-------------------------------- MODULE Peer ---------------------------------
(***************************************************************************)
(* The peer monitor of lib/peer.c.                                         *)
(*                                                                         *)
(* Application threads put addresses on a sorted list (peeradd) and take   *)
(* them off (peerdel).  A checking thread looks at the whole list every    *)
(* Duration seconds: first it reports the peers that have been silent, then*)
(* it sends echo requests to those that may soon be.  A receiving thread   *)
(* stamps a peer when its answer comes and reports it when it was down.    *)
(*                                                                         *)
(* There are two sets of threads.  The one the first peeradd starts holds  *)
(* _peer_lock while it is on the list; the one initpeer2 starts, which     *)
(* sends its requests through tunnels, takes no lock at all.  peeradd and  *)
(* peerdel themselves look for the address before they take the lock, so a *)
(* walk along the list is a step per node here, and a node that was freed  *)
(* meanwhile is a fault.                                                   *)
(*                                                                         *)
(* A peer's stamp p->t is modelled by its age, time(0) - p->t, which Tick  *)
(* advances; ages above Expire + 1 are the same to the code.  A pass over  *)
(* the list reads the clock once, and between two passes the clock may go  *)
(* on: by a second in all, a check takes no longer here.                   *)
(*                                                                         *)
(* Bound: once two walks have met that no lock keeps apart, nothing new is *)
(* begun; what is under way is followed to what it breaks.                 *)
(***************************************************************************)
EXTENDS Integers, Sequences, FiniteSets

CONSTANTS
  Addr,       \* addresses, as numbers
  Host,       \* addresses with a host that may answer; others never do
  Node,       \* heap cells for peer_t
  Client,     \* application threads
  Task,       \* peertask, peertask2
  Checker,    \* peercheck_th, and peercheck2 called by the timer
  Expire,     \* PEER_ICMP_EXPIRE (10)
  Valid,      \* PEER_ICMP_VALID (6)
  Duration,   \* PEER_ICMP_DURATION (3)
  Tunnels,    \* the values of cnt in initpeer2
  MaxCalls,   \* bound: calls of the API, and times the clock is set back
  Free, NULL

Walker == Client \cup {Task, Checker}

ASSUME PeerAssumption ==
  /\ Addr \subseteq Int /\ Host \subseteq Addr /\ Tunnels \subseteq Nat
  /\ Task \notin Client /\ Checker \notin Client /\ Task # Checker
  /\ NULL \notin Node /\ NULL \notin Walker
  /\ Expire \in Nat /\ Valid \in Nat /\ Duration \in Nat \ {0} /\ MaxCalls \in Nat
  /\ Duration < Expire /\ Valid <= Expire

Age  == -1..(Expire + 1)
Peer == [addr : Addr, age : Age, stat : {0, 1}]
ASSUME FreeAssumption == Free \notin Peer

VARIABLES
  list,     \* prhash: the nodes from the first to the last
  cell,     \* Node -> its peer_t, or Free
  mode,     \* which threads run: "off" (peerfd is 0), "plain", "tunnel"
  holder,   \* who has _peer_lock, or NULL
  pc, at,   \* Walker -> what it does, and the node it points to
  arg,      \* Walker -> the address it looks for
  sleep,    \* seconds until the checking thread wakes, or may still work
  left,     \* passes of the probing loop still to do
  peercnt,  \* _peercnt
  probed,   \* addresses an echo request is under way to
  answers,  \* addresses whose echo replies wait in the raw socket
  alive,    \* addresses that answer
  calls,
  quiet,    \* history: seconds since a's answer was read, or it was added
  raced,    \* history: two walks met that no lock keeps apart
  fate      \* "ok", or "fault": a freed node was used

peers   == <<list, cell, holder>>
walks   == <<pc, at, arg>>
checks  == <<sleep, left>>
network == <<probed, answers, alive>>
config  == <<mode, peercnt>>
vars == <<peers, walks, checks, network, config, calls, quiet, raced, fate>>

-----------------------------------------------------------------------------
(* The list.                                                               *)

Linked == {list[i] : i \in 1..Len(list)}
First  == IF list = <<>> THEN NULL ELSE list[1]

Index(n) == CHOOSE i \in 1..Len(list) : list[i] = n

(* p->next.                                                                *)
Succ(n) == IF Index(n) < Len(list) THEN list[Index(n) + 1] ELSE NULL

(* peerhash: before the first node with a greater address.                 *)
Hashed_Front(n, a) == <<n>> \o list
Hashed(n, a) ==
  LET k == Cardinality({i \in 1..Len(list) :
                          \A j \in 1..i : cell[list[j]].addr <= a})
  IN  [i \in 1..(Len(list) + 1) |->
         IF i <= k THEN list[i] ELSE IF i = k + 1 THEN n ELSE list[i - 1]]

(* peerunhash.                                                             *)
Unhashed(n) ==
  [i \in 1..(Len(list) - 1) |-> IF i < Index(n) THEN list[i] ELSE list[i + 1]]

-----------------------------------------------------------------------------
(* Locks and races.                                                        *)

Locks(w) == w \in Client \/ mode # "tunnel"

Goto(w, to) == pc' = [pc EXCEPT ![w] = to]
PointTo(w, n) == at' = [at EXCEPT ![w] = n]

Busy(w) == pc[w] \notin {"idle", "sleep"}
Meets(w) ==
  \E v \in Walker \ {w} :
    Busy(v) /\ (mode = "tunnel" \/ {v, w} \subseteq Client)

Acquire(w) == holder = NULL /\ holder' = w
Release(w) == holder' = IF holder = w THEN NULL ELSE holder

(* The node a walker points to is still a peer.                            *)
Sound(w) == at[w] # NULL /\ cell[at[w]] # Free

-----------------------------------------------------------------------------
Init ==
  /\ list = <<>> /\ cell = [n \in Node |-> Free]
  /\ mode = "off" /\ holder = NULL
  /\ pc = [w \in Walker |-> IF w = Checker THEN "sleep" ELSE "idle"]
  /\ at = [w \in Walker |-> NULL]
  /\ arg = [w \in Walker |-> NULL]
  /\ sleep = Duration /\ left = 0 /\ peercnt = 0
  /\ probed = {} /\ answers = {} /\ alive = Host
  /\ calls = 0
  /\ quiet = [a \in Addr |-> 0]
  /\ raced = FALSE /\ fate = "ok"

-----------------------------------------------------------------------------
(* A walk along the list by a thread looking for an address: peerfind.     *)

StartWalk(w, what, a) ==
  /\ Goto(w, what)
  /\ PointTo(w, First)
  /\ arg' = [arg EXCEPT ![w] = a]
  /\ raced' = (raced \/ Meets(w))

(* Idle threads are alike, and so are free cells: one is as good as any.   *)
IdleClient == CHOOSE d \in Client : pc[d] = "idle"
FreeNodes  == {n \in Node : cell[n] = Free}

Call(c, what, a) ==
  /\ pc[c] = "idle" /\ c = IdleClient /\ calls < MaxCalls /\ ~raced
  /\ calls' = calls + 1
  /\ StartWalk(c, what, a)
  /\ UNCHANGED <<peers, checks, network, config, quiet, fate>>

FindNext(w) ==
  /\ pc[w] \in {"add", "del", "reply"}
  /\ Sound(w) /\ cell[at[w]].addr # arg[w]
  /\ PointTo(w, Succ(at[w]))
  /\ UNCHANGED <<peers, pc, arg, checks, network, config, calls, quiet,
                 raced, fate>>

Found(w) == Sound(w) /\ cell[at[w]].addr = arg[w]
NotFound(w) == at[w] = NULL

(* A walker reads, or frees again, a node that is free.                    *)
Fault(w) ==
  /\ Busy(w) /\ at[w] # NULL /\ cell[at[w]] = Free
  /\ fate' = "fault"
  /\ UNCHANGED <<peers, walks, checks, network, config, calls, quiet, raced>>

Done(w) ==
  /\ pc' = [pc EXCEPT ![w] = "idle"]
  /\ at' = [at EXCEPT ![w] = NULL]
  /\ arg' = [arg EXCEPT ![w] = NULL]

(* peeradd finds the address, peerdel does not.                            *)
Return(c) ==
  /\ \/ pc[c] = "add"  /\ Found(c)
     \/ pc[c] = "del"  /\ NotFound(c)
  /\ Done(c)
  /\ UNCHANGED <<peers, checks, network, config, calls, quiet, raced, fate>>

(* Under _peer_lock: the node is allocated and hashed, and the first one   *)
(* starts the two threads.  Or malloc fails.                               *)
Add(c) ==
  /\ pc[c] = "add" /\ NotFound(c) /\ holder = NULL
  /\ FreeNodes # {}
  /\ LET n == CHOOSE n \in FreeNodes : TRUE IN
       /\ cell' = [cell EXCEPT ![n] =
                     [addr |-> arg[c], age |-> Duration, stat |-> 1]]
       /\ list' = Hashed(n, arg[c])
       /\ mode' = (IF mode = "off" THEN "plain" ELSE mode)
       /\ quiet' = [quiet EXCEPT ![arg[c]] = Duration]
  /\ Done(c)
  /\ UNCHANGED <<holder, checks, network, peercnt, calls, raced, fate>>

AddFails(c) ==
  /\ pc[c] = "add" /\ NotFound(c) /\ holder = NULL
  /\ FreeNodes = {}
  /\ Done(c)
  /\ UNCHANGED <<peers, checks, network, config, calls, quiet, raced, fate>>

(* peerdel has its node, and waits for the lock to unhash and free it.     *)
Delete(c) ==
  /\ pc[c] = "del" /\ Found(c)
  /\ Goto(c, "free")
  /\ UNCHANGED <<peers, at, arg, checks, network, config, calls, quiet,
                 raced, fate>>

FreeNode(c) ==
  /\ pc[c] = "free" /\ Sound(c) /\ holder = NULL
  /\ list' = Unhashed(at[c])
  /\ cell' = [cell EXCEPT ![at[c]] = Free]
  /\ quiet' = [quiet EXCEPT ![cell[at[c]].addr] = 0]
  /\ Done(c)
  /\ UNCHANGED <<holder, checks, network, config, calls, raced, fate>>

(* initpeer2: the tunnelled threads, unless the others run already.        *)
InitPeer2(n) ==
  /\ calls < MaxCalls /\ ~raced /\ n # peercnt
  /\ calls' = calls + 1
  /\ peercnt' = n
  /\ mode' = IF mode = "off" THEN "tunnel" ELSE mode
  /\ sleep' = IF mode = "off" THEN 0 ELSE sleep
  /\ UNCHANGED <<peers, walks, left, network, quiet, raced, fate>>

-----------------------------------------------------------------------------
(* The receiving thread.                                                   *)

Receive(a) ==
  /\ mode # "off" /\ pc[Task] = "idle" /\ a \in answers /\ ~raced
  /\ answers' = answers \ {a}
  /\ IF Locks(Task) THEN Acquire(Task) ELSE UNCHANGED holder
  /\ StartWalk(Task, "reply", a)
  /\ UNCHANGED <<list, cell, checks, probed, alive, config, calls, quiet,
                 fate>>

(* p->t = time(0), and the up callback if the peer was down.               *)
Stamp_StatOnly(n) == cell' = [cell EXCEPT ![n].stat = 1]
Stamp(n) == cell' = [cell EXCEPT ![n].age = 0, ![n].stat = 1]

Reply ==
  /\ pc[Task] = "reply"
  /\ \/ Found(Task) /\ Stamp(at[Task]) /\ quiet' = [quiet EXCEPT ![arg[Task]] = 0]
     \/ NotFound(Task) /\ UNCHANGED <<cell, quiet>>
  /\ Release(Task)
  /\ Done(Task)
  /\ UNCHANGED <<list, checks, network, config, calls, raced, fate>>

-----------------------------------------------------------------------------
(* The checking thread.                                                    *)

Wake ==
  /\ mode # "off" /\ pc[Checker] = "sleep" /\ sleep = 0 /\ ~raced
  /\ IF Locks(Checker) THEN Acquire(Checker) ELSE UNCHANGED holder
  /\ StartWalk(Checker, "expire", NULL)
  /\ left' = (IF mode = "tunnel" THEN peercnt ELSE 1)
  /\ sleep' = 1
  /\ UNCHANGED <<list, cell, network, config, calls, quiet, fate>>

(* First pass: a stamp in the future is brought back; a peer that has been *)
(* silent for Expire seconds is down.                                      *)
Judged(p) ==
  LET age == IF p.age < 0 THEN 0 ELSE p.age
  IN  [p EXCEPT !.age = age, !.stat = IF age >= Expire THEN 0 ELSE @]

Silent ==
  /\ pc[Checker] = "expire" /\ Sound(Checker)
  /\ cell' = [cell EXCEPT ![at[Checker]] = Judged(@)]
  /\ PointTo(Checker, Succ(at[Checker]))
  /\ UNCHANGED <<list, holder, pc, arg, checks, network, config, calls, quiet,
                 raced, fate>>

(* The loop over the tunnels (one turn of it without them); each pass reads *)
(* the clock again.                                                        *)
MorePasses_OneTooMany == left >= 0
MorePasses == left > 0
EndPass ==
  /\ pc[Checker] \in {"expire", "probe"} /\ at[Checker] = NULL
  /\ \/ /\ MorePasses
        /\ Goto(Checker, "gap")
        /\ UNCHANGED <<holder, sleep>>
     \/ /\ ~MorePasses
        /\ Goto(Checker, "sleep")
        /\ sleep' = Duration
        /\ Release(Checker)
  /\ UNCHANGED <<list, cell, at, arg, left, network, config, calls, quiet,
                 raced, fate>>

NextPass ==
  /\ pc[Checker] = "gap"
  /\ Goto(Checker, "probe") /\ PointTo(Checker, First)
  /\ left' = left - 1
  /\ UNCHANGED <<peers, arg, sleep, network, config, calls, quiet, raced,
                 fate>>

(* Second pass: no request yet, a new period, or an echo request.          *)
TooYoung_Inclusive(age) == age <= Expire
TooYoung(age) == age < Valid
TooOld_AtExpire(age) == age >= Expire
TooOld(age) == age > Expire
Probe ==
  /\ pc[Checker] = "probe" /\ Sound(Checker)
  /\ LET n == at[Checker]
         age == cell[n].age
     IN  \/ TooYoung(age) /\ UNCHANGED <<cell, probed>>
         \/ /\ TooOld(age)
            /\ cell' = [cell EXCEPT ![n].age = 0]
            /\ UNCHANGED probed
         \/ /\ ~TooYoung(age) /\ ~TooOld(age)
            /\ probed' = probed \cup ({cell[n].addr} \cap Host)
            /\ UNCHANGED cell
  /\ PointTo(Checker, Succ(at[Checker]))
  /\ UNCHANGED <<list, holder, pc, arg, checks, answers, alive, config, calls,
                 quiet, raced, fate>>

-----------------------------------------------------------------------------
(* The network, the hosts and the clock.                                   *)

Answer(a) ==
  /\ a \in probed \cap alive
  /\ probed' = probed \ {a}
  /\ answers' = answers \cup {a}
  /\ UNCHANGED <<peers, walks, checks, alive, config, calls, quiet, raced,
                 fate>>

Lose(a) ==
  /\ a \in probed
  /\ probed' = probed \ {a}
  /\ UNCHANGED <<peers, walks, checks, answers, alive, config, calls, quiet,
                 raced, fate>>

(* A host stops answering, or answers again.                               *)
Flip(a) ==
  /\ alive' = (alive \ {a}) \cup ({a} \ alive)
  /\ UNCHANGED <<peers, walks, checks, probed, answers, config, calls, quiet,
                 raced, fate>>

\* The age of a peer a second later.
Older(n) ==
  IF cell[n] # Free /\ cell[n].age <= Expire
  THEN [cell[n] EXCEPT !.age = @ + 1] ELSE cell[n]

(* A second passes, once the checking thread is up if it is to be.         *)
Tick ==
  /\ mode # "off" /\ ~raced
  /\ pc[Checker] \in {"sleep", "gap"} /\ sleep > 0
  /\ sleep' = sleep - 1
  /\ cell' = [n \in Node |-> Older(n)]
  /\ quiet' = [a \in Addr |-> IF (\E n \in Linked : cell[n].addr = a)
                                 /\ quiet[a] < Expire
                              THEN quiet[a] + 1 ELSE quiet[a]]
  /\ UNCHANGED <<list, holder, walks, left, network, config, calls, raced,
                 fate>>

(* The wall clock is set back by a second.                                 *)
SetBack ==
  /\ calls < MaxCalls /\ ~raced
  /\ calls' = calls + 1
  /\ cell' = [n \in Node |-> IF cell[n] # Free /\ cell[n].age >= 0
                             THEN [cell[n] EXCEPT !.age = @ - 1] ELSE cell[n]]
  /\ UNCHANGED <<list, holder, walks, checks, network, config, quiet,
                 raced, fate>>

-----------------------------------------------------------------------------
Api(c) ==
  \/ \E what \in {"add", "del"}, a \in Addr : Call(c, what, a)
  \/ Return(c) \/ Add(c) \/ AddFails(c) \/ Delete(c) \/ FreeNode(c)

Check == Wake \/ Silent \/ EndPass \/ NextPass \/ Probe
World ==
  \/ \E a \in Host : Answer(a) \/ Lose(a) \/ Flip(a)
  \/ Tick \/ SetBack

Next ==
  \/ \E c \in Client : Api(c)
  \/ \E n \in Tunnels : InitPeer2(n)
  \/ \E w \in Walker : FindNext(w) \/ Fault(w)
  \/ \E a \in Host : Receive(a)
  \/ Reply \/ Check \/ World

Spec == Init /\ [][Next]_vars

(* The threads run, a thread that keeps asking for the lock gets it, and a *)
(* host that answers does not lose every one of its answers.               *)
Fairness ==
  /\ WF_vars(Tick) /\ SF_vars(Wake)
  /\ WF_vars(Silent \/ EndPass \/ NextPass \/ Probe)
  /\ WF_vars(FindNext(Task) \/ Reply)
  /\ \A a \in Host : SF_vars(Receive(a)) /\ SF_vars(Answer(a))
FairSpec == Spec /\ Fairness

-----------------------------------------------------------------------------
TypeOK ==
  /\ list \in Seq(Node) /\ cell \in [Node -> Peer \cup {Free}]
  /\ mode \in {"off", "plain", "tunnel"} /\ holder \in Walker \cup {NULL}
  /\ pc \in [Walker -> {"idle", "add", "del", "free", "reply", "sleep",
                        "expire", "gap", "probe"}]
  /\ at \in [Walker -> Node \cup {NULL}] /\ arg \in [Walker -> Addr \cup {NULL}]
  /\ sleep \in 0..Duration /\ left \in Nat /\ peercnt \in Nat
  /\ probed \subseteq Addr /\ answers \subseteq Addr /\ alive \subseteq Addr
  /\ calls \in 0..MaxCalls
  /\ quiet \in [Addr -> 0..Expire]
  /\ raced \in BOOLEAN /\ fate \in {"ok", "fault"}

(* peeradd and peerdel search without the lock, and the tunnelled threads  *)
(* never take it.  As long as no two such walks meet, nothing is wrong: no *)
(* freed peer is used, the list is in order with one entry an address, and *)
(* every allocated peer is on it.                                          *)
SerialSafe ==
  ~raced =>
    /\ fate = "ok"
    /\ \A i, j \in 1..Len(list) : i < j => cell[list[i]].addr < cell[list[j]].addr
    /\ Linked = {n \in Node : cell[n] # Free}

ListSafe == TypeOK /\ SerialSafe

(* A peer is reported down only if for Expire seconds none of its answers  *)
(* was read (Duration less for one just added): resetting an old stamp and *)
(* a clock set back never make it look more silent than it was.            *)
DownMeansSilent ==
  [][\A n \in Node :
       cell[n] # Free /\ cell'[n] # Free /\ ~raced =>
         (cell[n].stat = 1 /\ cell'[n].stat = 0
            => quiet[cell[n].addr] >= Expire)]_vars

Up(a)   == \E n \in Linked : cell[n].addr = a /\ cell[n].stat = 1
Down(a) == \E n \in Linked : cell[n].addr = a /\ cell[n].stat = 0

(* A peer that stops answering is reported down, although a peer that is   *)
(* too old for a request gets a new stamp and the clock is read twice.     *)
SilentReported ==
  \A a \in Addr :
    Up(a) /\ a \notin alive /\ a \notin answers ~> ~Up(a) \/ a \in alive \/ raced

(* A peer that answers again is reported up, although requests stop for a  *)
(* while whenever its stamp is reset.                                      *)
AnswersReported ==
  \A a \in Host : Down(a) /\ a \in alive ~> ~Down(a) \/ a \notin alive \/ raced

-----------------------------------------------------------------------------
(* The inductive invariant: what ListSafe and DownMeansSilent need besides *)
(* each other.                                                             *)

(* The list holds the allocated peers, each of them once, races or not.    *)
OnList ==
  /\ Linked = {n \in Node : cell[n] # Free}
  /\ \A i, j \in 1..Len(list) : i < j => list[i] # list[j]

(* What the walkers do, and what they then hold.                           *)
Roles ==
  /\ \A c \in Client : pc[c] \in {"idle", "add", "del", "free"}
  /\ pc[Task] \in {"idle", "reply"}
  /\ pc[Checker] \in {"sleep", "expire", "gap", "probe"}
  /\ \A w \in Walker :
       /\ pc[w] \in {"add", "del", "reply"} => arg[w] \in Addr
       /\ pc[w] \in {"idle", "sleep", "gap"} => at[w] = NULL
  /\ pc[Checker] = "gap" => left > 0

(* The threads that lock hold the lock as long as they are on the list.    *)
Locked ==
  \A w \in {Task, Checker} :
    Busy(w) => mode # "off" /\ (mode = "plain" => holder = w)

(* Without a race two walks are under way only if one of them is locked.   *)
Apart ==
  ~raced => \A v, w \in Walker :
              v # w /\ Busy(v) /\ Busy(w) => mode # "tunnel" /\ ~({v, w} \subseteq Client)

(* Then what a walker points to is on the list, and peeradd has passed no  *)
(* peer with its address.                                                  *)
Aimed ==
  ~raced => \A w \in Walker : /\ at[w] # NULL => at[w] \in Linked
                              /\ pc[w] = "free" => at[w] # NULL
Missed ==
  ~raced => \A c \in Client : pc[c] = "add" =>
              \A i, k \in 1..Len(list) :
                at[c] = NULL \/ (list[k] = at[c] /\ i < k) => cell[list[i]].addr # arg[c]

(* No peer looks more silent than it is.                                   *)
Aged ==
  ~raced => \A n \in Node :
              cell[n] # Free => \/ cell[n].age <= quiet[cell[n].addr]
                                \/ quiet[cell[n].addr] >= Expire

PeerInv == /\ TypeOK /\ SerialSafe /\ OnList /\ Roles /\ Locked
           /\ Apart /\ Aimed /\ Missed /\ Aged
=============================================================================

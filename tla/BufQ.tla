-------------------------------- MODULE BufQ ---------------------------------
(***************************************************************************)
(* The message queue of lib/bufq.c: messages linked both ways from q_head  *)
(* to q_tail, a count of messages and a count of bytes.                    *)
(*                                                                         *)
(* One client calls one function at a time: the code locks in bufq_purge   *)
(* only.  The client keeps its side: it queues a message it owns, and      *)
(* names as a place one that is in the queue.  Payloads and time stamps    *)
(* are left out; a message keeps its length.  A failed malloc returns NULL *)
(* and changes nothing.  A freed message may be allocated again.           *)
(***************************************************************************)
EXTENDS Naturals, Sequences, SequencesExt, FiniteSetsExt, Walks

CONSTANTS Msg,     \* addresses of messages
          Size,    \* lengths a client asks for
          Limit,   \* limits a client passes to bufq_resupply
          Nil

\* Memory holds so many messages at most; Nil is the address of none.
ASSUME MsgAssumption == IsFiniteSet(Msg) /\ Nil \notin Msg /\ Size \subseteq Nat

VARIABLES bq,      \* the queue, and the links of all messages
          mine,    \* the messages the client owns
          length   \* message -> its length

bqvars == <<bq, mine, length>>

NoLinks == [m \in Msg |-> Nil]
EmptyQ == [head |-> Nil, tail |-> Nil, msgs |-> 0, count |-> 0,
           prev |-> NoLinks, next |-> NoLinks]

\* Assigning through a pointer that the code has tested.
Link(f, m, v) == IF m = Nil THEN f ELSE [f EXCEPT ![m] = v]

Add(q, m) == [q EXCEPT !.msgs = @ + 1, !.count = @ + length[m]]

Sub_NotTheLast(q, m) ==
  [q EXCEPT !.msgs = @ - 1, !.count = IF q.msgs = 1 THEN length[m] ELSE @ - length[m]]

Sub(q, m) ==
  LET rest == IF q.count >= length[m] THEN q.count - length[m] ELSE 0
  IN  [q EXCEPT !.msgs = @ - 1, !.count = IF q.msgs = 1 THEN 0 ELSE rest]

\* m goes between p and s, of which either may be Nil.
Between(q, p, m, s) ==
  [q EXCEPT !.head = IF p = Nil THEN m ELSE @,
            !.tail = IF s = Nil THEN m ELSE @,
            !.prev = Link([@ EXCEPT ![m] = p], s, m),
            !.next = Link([@ EXCEPT ![m] = s], p, m)]

AtTail_Head(q, m) == Add(Between(q, Nil, m, q.head), m)

AtTail(q, m)     == Add(Between(q, q.tail, m, Nil), m)
AtHead(q, m)     == Add(Between(q, Nil, m, q.head), m)
Before(q, m, np) == Add(Between(q, q.prev[m], np, m), np)

After(q, m, np)  == Add(Between(q, m, np, q.next[m]), np)

Without_OneWay(q, m) ==
  Sub([q EXCEPT !.head = IF q.prev[m] = Nil THEN q.next[m] ELSE @,
                !.tail = IF q.next[m] = Nil THEN q.prev[m] ELSE @,
                !.next = [Link(@, q.prev[m], q.next[m]) EXCEPT ![m] = Nil],
                !.prev = [@ EXCEPT ![m] = Nil]], m)

Without_NoSub(q, m) ==
  [q EXCEPT !.head = IF q.prev[m] = Nil THEN q.next[m] ELSE @,
            !.tail = IF q.next[m] = Nil THEN q.prev[m] ELSE @,
            !.next = [Link(@, q.prev[m], q.next[m]) EXCEPT ![m] = Nil],
            !.prev = [Link(@, q.next[m], q.prev[m]) EXCEPT ![m] = Nil]]

\* bufq_unlink, and bufq_dequeue when m is the head.
Without(q, m) ==
  Sub([q EXCEPT !.head = IF q.prev[m] = Nil THEN q.next[m] ELSE @,
                !.tail = IF q.next[m] = Nil THEN q.prev[m] ELSE @,
                !.next = [Link(@, q.prev[m], q.next[m]) EXCEPT ![m] = Nil],
                !.prev = [Link(@, q.next[m], q.prev[m]) EXCEPT ![m] = Nil]], m)

\* The loops; none turns more often than there are messages.
Turns == 0..Cardinality(Msg)

Cleared ==
  LET loop[i \in Turns] ==
        IF i = 0 THEN bq
        ELSE LET q == loop[i - 1]
             IN  IF q.head = Nil THEN q ELSE Without(q, q.head)
  IN  loop[Cardinality(Msg)]

\* The loop of bufq_supply reads the successor of its argument m, not of the
\* message md it is about to queue.
Supplied(q, m) ==
  LET loop[i \in Turns] ==
        IF i = 0 THEN [q |-> q, md |-> m]
        ELSE LET s == loop[i - 1]
             IN  IF s.md = Nil THEN s
                 ELSE [q |-> AtTail(s.q, s.md), md |-> s.q.next[m]]
  IN  loop[Cardinality(Msg)].q

\* The messages from the head on, and from the tail back.
Walk(from, link) == Along(from, link, {Nil}, Cardinality(Msg))
Forward  == Walk(bq.head, bq.next)
Backward == Walk(bq.tail, bq.prev)
InQueue  == ToSet(Forward)

QInit == bq = EmptyQ /\ mine = {} /\ length = [m \in Msg |-> 0]

\* alloc_umsg, dupl_umsg and copy_umsg: a new message with links of its own.
Alloc(m, size) ==
  /\ m \notin mine \cup InQueue
  /\ bq' = [bq EXCEPT !.prev[m] = Nil, !.next[m] = Nil]
  /\ mine' = mine \cup {m} /\ length' = [length EXCEPT ![m] = size]

Dupl(p, m) == p \in mine \cup InQueue /\ Alloc(m, length[p])

\* free_umsg, or freechunks when the client has linked the set.
FreeChunks(S) == S \subseteq mine /\ mine' = mine \ S /\ UNCHANGED <<bq, length>>

Takes(m, q) == m \in mine /\ bq' = q /\ mine' = mine \ {m} /\ UNCHANGED length

Queue(m)     == Takes(m, AtTail(bq, m))
QueueHead(m) == Takes(m, AtHead(bq, m))
Insert(m, np) == m \in InQueue /\ Takes(np, Before(bq, m, np))
AppendTo(m, np) == m \in InQueue /\ Takes(np, After(bq, m, np))

Unlink(m) == /\ m \in InQueue
             /\ bq' = Without(bq, m) /\ mine' = mine \cup {m} /\ UNCHANGED length

Dequeue == bq.head # Nil /\ Unlink(bq.head)

FreeHead == /\ bq.head # Nil
            /\ bq' = Without(bq, bq.head) /\ UNCHANGED <<mine, length>>

Purge == bq' = Cleared /\ UNCHANGED <<mine, length>>

\* The links of all messages when the client has linked those of c.
Following(c) == [m \in Msg |-> IF m \in ToSet(c) /\ m # Last(c)
                              THEN c[(CHOOSE k \in DOMAIN c : c[k] = m) + 1]
                              ELSE bq.next[m]]

\* bufq_resupply with a chain c that the client has linked forward.
Resupply(c, maxsize, maxcount) ==
  /\ ~(bq.msgs > maxcount \/ bq.count > maxsize)
  /\ bq' = Supplied([bq EXCEPT !.next = Following(c)], Head(c))
  /\ mine' = mine \ ToSet(c) /\ UNCHANGED length

QNext == \/ \E m \in Msg : \/ \E s \in Size : Alloc(m, s)
                           \/ \E p \in Msg : Dupl(p, m)
                           \/ Queue(m) \/ QueueHead(m) \/ Unlink(m)
                           \/ \E np \in Msg : Insert(m, np) \/ AppendTo(m, np)
         \/ \E S \in SUBSET mine \ {{}} : FreeChunks(S)
         \/ Dequeue \/ FreeHead \/ Purge
         \/ \E c \in SetToAllKPermutations(mine) \ {<<>>}, s, k \in Limit :
              Resupply(c, s, k)

QSpec == QInit /\ [][QNext]_bqvars

-----------------------------------------------------------------------------
(* Properties. *)

\* Head and tail are messages or Nil, and the counters within their ranges.
QTypeOK ==
  /\ bq.head \in Msg \cup {Nil} /\ bq.tail \in Msg \cup {Nil}
  /\ bq.msgs \in 0..Cardinality(Msg) /\ bq.count \in Nat
  /\ bq.prev \in [Msg -> Msg \cup {Nil}] /\ bq.next \in [Msg -> Msg \cup {Nil}]
  /\ mine \subseteq Msg /\ length \in [Msg -> {0} \cup Size]

\* After any series of calls the queue read from the tail by prev is the
\* queue read from the head by next, turned around; no message in it is also
\* the client's or appears twice; and q_msgs counts the messages.
BothWays == /\ Backward = Reverse(Forward)
            /\ Cardinality(InQueue) = bq.msgs /\ Len(Forward) = bq.msgs
            /\ InQueue \cap mine = {}

\* The linked list is a queue: every call of bufq.c changes the sequence of
\* messages, the client's messages and the number of bytes as one step of
\* MsgQueue, however many pointers it writes.
Abs == INSTANCE MsgQueue WITH queue <- Forward, held <- mine,
                              bytes <- bq.count, len <- length
IsAQueue == Abs!Spec

\* Each call of bufq.c moves a message where the call says, and no other: to
\* the tail, to the head, before or behind the one it names, or out of its
\* place; and a chain of two at most enters whole, in its order.
Puts(m, i) == Abs!Becomes(InsertAt(Forward, i, m), mine \ {m})
At(m)      == {i \in DOMAIN Forward : Forward[i] = m}

InItsPlace ==
  [][/\ \A m \in Msg :
          /\ Queue(m)     => Puts(m, Len(Forward) + 1)
          /\ QueueHead(m) => Puts(m, 1)
          /\ \A np \in Msg : /\ Insert(m, np) => \E i \in At(m) : Puts(np, i)
                             /\ AppendTo(m, np) => \E i \in At(m) : Puts(np, i + 1)
          /\ Unlink(m) => \E i \in At(m) :
                            Abs!Becomes(RemoveAt(Forward, i), mine \cup {m})
     /\ Dequeue => Abs!Becomes(Tail(Forward), mine \cup {Head(Forward)})
     /\ \A c \in SetToAllKPermutations(mine) \ {<<>>}, s, k \in Limit :
          Resupply(c, s, k) /\ Len(c) <= 2
            => Abs!Becomes(Forward \o c, mine \ ToSet(c))]_bqvars

-----------------------------------------------------------------------------
(* The inductive invariant.                                                *)

Bufq == [head : Msg \cup {Nil}, tail : Msg \cup {Nil}, msgs : Nat, count : Nat,
         prev : [Msg -> Msg \cup {Nil}], next : [Msg -> Msg \cup {Nil}]]

\* q links the messages of s: every pointer leads to the neighbour there.
Nth(s, i)  == IF i \in DOMAIN s THEN s[i] ELSE Nil
Links(q, s) ==
  /\ q.head = Nth(s, 1) /\ q.tail = Nth(s, Len(s))
  /\ \A i \in DOMAIN s : /\ q.next[s[i]] = Nth(s, i + 1)
                         /\ q.prev[s[i]] = Nth(s, i - 1)

\* The counters of q are those of s.
Shape(q, s) == /\ s \in Seq(Msg) /\ NoTwice(s) /\ Links(q, s)
               /\ q.msgs = Len(s) /\ q.count = Abs!Sum(length, s)

\* The queue has a shape; the client's messages are linked to nothing; and all
\* of them have a length that was asked for.
QInv ==
  /\ bq \in Bufq
  /\ mine \subseteq Msg /\ length \in [Msg -> {0} \cup Size]
  /\ Shape(bq, Forward)
  /\ \A m \in mine : m \notin InQueue /\ bq.next[m] = Nil
  /\ \A m \in mine \cup InQueue : length[m] \in Size
=============================================================================

------------------------------ MODULE MsgQueue -------------------------------
(***************************************************************************)
(* A queue of messages, each owned by the queue or by its client, with the *)
(* bytes it holds: what the calls of lib/bufq.c do to it when the links    *)
(* are forgotten.  BufQ, the linked list, implements this module; at which *)
(* place each call puts a message is InItsPlace of BufQ.                   *)
(*                                                                         *)
(* lib/bufq.h is no guide to it.  Its comments call q_msgs the bytes and   *)
(* q_count the messages (34-35), which __bufq_add counts the other way,    *)
(* say of bufq_length that it answers bytes and of bufq_size that it       *)
(* answers messages (79-87), and have bufq_queue attach at the header      *)
(* (99-103), where the code attaches at the tail.                          *)
(***************************************************************************)
EXTENDS Naturals, Sequences, SequencesExt, FiniteSetsExt

CONSTANTS Msg,     \* messages
          Size     \* their lengths

VARIABLES queue,   \* the messages of the queue, first to last
          held,    \* the messages its client owns
          bytes,   \* what q_count holds and bufq_size answers
          len      \* message -> its length

vars == <<queue, held, bytes, len>>

Queued == ToSet(queue)

\* The sum of the lengths l of a sequence of messages.
Sum(l, q) == LET sum[i \in 0..Len(q)] == IF i = 0 THEN 0 ELSE sum[i - 1] + l[q[i]]
             IN  sum[Len(q)]
Total(q) == Sum(len, q)

Init == queue = <<>> /\ held = {} /\ bytes = 0 /\ len \in [Msg -> {0}]

\* The queue becomes q and the client owns h; lengths stay.
Becomes(q, h) == queue' = q /\ held' = h /\ bytes' = Total(q) /\ UNCHANGED len

New == \E m \in Msg \ (held \cup Queued), n \in Size :
         /\ held' = held \cup {m} /\ len' = [len EXCEPT ![m] = n]
         /\ UNCHANGED <<queue, bytes>>

Discard == \E S \in SUBSET held : Becomes(queue, held \ S)

\* One message enters, anywhere: at the tail, the head, before or after one.
Enter == \E m \in held, i \in 1..(Len(queue) + 1) :
           Becomes(InsertAt(queue, i, m), held \ {m})

\* One message leaves, to the client or to the heap.
Leave == \E i \in DOMAIN queue :
           \/ Becomes(RemoveAt(queue, i), held \cup {queue[i]})
           \/ i = 1 /\ Becomes(Tail(queue), held)

Clear == Becomes(<<>>, held)

\* A chain of messages is handed over to enter at the tail, in its order.  Two
\* of it enter at most; of a longer chain the rest is lost, owned by nobody.
\* This is what bufq_supply does, and hardly what its callers want.
EnterChain == \E c \in SetToAllKPermutations(held) :
           Becomes(queue \o SubSeq(c, 1, Min({2, Len(c)})), held \ ToSet(c))

Next == New \/ Discard \/ Enter \/ Leave \/ Clear \/ EnterChain
Spec == Init /\ [][Next]_vars
=============================================================================

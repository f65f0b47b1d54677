-------------------------------- MODULE Timer --------------------------------
(***************************************************************************)
(* The timer service of lib/timer.c.                                       *)
(*                                                                         *)
(* Client threads arm timers (set_timeout, set_cb_timeout,                 *)
(* set_cb_itimeout) and cancel them (del_timeout, del_cb_timeout).  A      *)
(* timer_check thread follows the wall clock and moves expired entries     *)
(* from the hashed timing wheel _thlist to the queue _tqueue; a            *)
(* timer_callback thread sleeps on a condition variable and runs what is   *)
(* in the queue.  A callback may itself arm and cancel timers.             *)
(*                                                                         *)
(* A definition Op_Fault is Op with a plausible mistake in it; nothing     *)
(* uses it.  A property that still held with Op_Fault in Op's place would  *)
(* say nothing about Op.                                                   *)
(*                                                                         *)
(* A critical section of time_lock, hash_lock or tid_lock is one action:   *)
(* none of them blocks inside.  task_lock is held over user callbacks, so  *)
(* it is explicit: the callback thread holds it exactly when cbpc is       *)
(* "loop" or "fn", and timer_check takes it for the whole of Scan.         *)
(***************************************************************************)
EXTENDS Integers, Sequences, FiniteSets

CONSTANTS
  Entry,       \* heap cells malloc can return (bounds the number of timers)
  Client,      \* application threads that use the API
  Callback,    \* the timer_callback thread when it calls the API
  MaxTid,      \* timer ids are 1..MaxTid; cb_tid wraps after it (2^32 - 1)
  StrKey,      \* keys given to set_timeout and del_timeout
  KeyBucket,   \* _khfn of a key's bytes
  KeyPrefix,   \* <<probe, stored>>: memcmp over the probe's length finds 0
  Delay,       \* the delays asked for, in milliseconds
  MS,          \* milliseconds in a second (1000)
  WheelSize,   \* TIMER_HASH_SIZE (65535)
  SecWidth,    \* the wheel hashes seconds modulo SecWidth (65536)
  U16,         \* range of timeb.millitm, an unsigned short (65536)
  MaxDiff,     \* MAX_TIME_DIFF, seconds (3)
  Jumps,       \* seconds by which ntpd or an operator steps the clock
  Epoch,       \* the wall clock's seconds at start-up
  MaxTime,     \* bound: the clock never passes MaxTime seconds
  Free,        \* heap contents of a cell that is not allocated
  NULL

Thread == Client \cup {Callback}
Tid    == 1..MaxTid
Key    == Tid \cup StrKey
Slot   == 0..(WheelSize - 1)
Millis == 0..(U16 - 1)
Timeb  == [time : Int, millitm : Millis]
Wall   == [time : Int, millitm : 0..(MS - 1)]   \* what ftime returns
Cell   == [key : Key, t : Timeb]

ASSUME ThreadAssumption ==
  Callback \notin Client /\ NULL \notin Entry /\ IsFiniteSet(Entry)
ASSUME KeyAssumption ==
  /\ MaxTid \in Nat \ {0}
  /\ Free \notin Cell
  /\ KeyPrefix \subseteq Key \X Key
  /\ \A k \in Key : <<k, k>> \in KeyPrefix
(* 0xffff slots, and 0x10000 seconds in sixteen bits.                      *)
ASSUME WheelAssumption == SecWidth = WheelSize + 1
ASSUME TimeAssumption ==
  /\ Delay \subseteq Nat
  /\ MS \in Nat \ {0} /\ U16 \in Nat /\ 2 * MS <= U16
  /\ WheelSize \in Nat \ {0} /\ WheelSize > (MaxDiff + 1) * MS
  /\ SecWidth \in Nat \ {0}
  /\ MaxDiff \in Nat
  /\ Jumps \subseteq Int
  /\ Epoch \in Nat /\ MaxTime \in Nat

VARIABLES
  clock,     \* what ftime() reads
  internal,  \* _internal_time
  ext,       \* timer_check's _external_time
  scanned,   \* the time whose hash is timer_check's phv
  tpc,       \* timer_check: "start", "sleep", "sync", "scan"
  heap,      \* Entry -> its tentry_t, or Free
  thlist,    \* _thlist: Slot -> the entries linked in it
  khash,     \* the entries linked in _khlist
  newer,     \* <<a, b>>: a is nearer than b to the head of their key chain
  tqueue,    \* _tqueue from its head
  cbpc,      \* timer_callback: "lock", "wait", "woken", "loop", "fn"
  cbTid,     \* cb_tid
  pc,        \* API call of each thread: "idle", "tid", "hash"
  tid,       \* the tid an API call has drawn
  te         \* the entry an API call has allocated

timeVars   == <<clock, internal, ext, scanned>>
wheelVars  == <<thlist, khash, newer>>
clientVars == <<cbTid, pc, tid, te>>
vars == <<timeVars, tpc, heap, wheelVars, tqueue, cbpc, clientVars>>

-----------------------------------------------------------------------------
(* Time.                                                                   *)

Before(a, b) == a.time < b.time \/ (a.time = b.time /\ a.millitm < b.millitm)
Expired(t, now) ==
  t.time < now.time \/ (t.time = now.time /\ t.millitm <= now.millitm)
Ticks(t) == t.time * MS + t.millitm

(* _thfn *)
Hash(t) == ((t.time % SecWidth) * MS + t.millitm) % WheelSize

(* The expiry timer_add and its siblings compute; d is never negative.     *)
Plus(t, sec, ms) ==
  IF t.millitm + ms >= MS
  THEN [time |-> t.time + sec + 1, millitm |-> t.millitm + ms - MS]
  ELSE [time |-> t.time + sec, millitm |-> t.millitm + ms]
After(t, d) == Plus(t, d \div MS, d % MS)

(* What _tsync makes of an entry's expiry.  tmp is computed from the new   *)
(* seconds, not from the milliseconds, and the store into millitm keeps    *)
(* its low 16 bits.                                                        *)
Resynced(t, dsec, dms) ==
  LET sec == t.time + dsec
      tmp == sec + dms
  IN  IF tmp < 0 THEN [time |-> sec - 1, millitm |-> (tmp + MS) % U16]
                 ELSE [time |-> sec, millitm |-> tmp % U16]

(* The slots timer_check visits: from phv up to chv, chv excluded, around  *)
(* the wheel.                                                              *)
ScanSlots_AfterFirst(phv, chv) ==
  {i \in Slot : IF phv <= chv THEN phv < i /\ i < chv
                              ELSE phv < i \/ i < chv}
ScanSlots(phv, chv) ==
  {i \in Slot : IF phv <= chv THEN phv <= i /\ i < chv
                              ELSE phv <= i \/ i < chv}

(* How many steps after phv the scan reaches slot i.                       *)
ScanOrder(phv, i) == (i - phv + WheelSize) % WheelSize

-----------------------------------------------------------------------------
(* The two hashes.                                                         *)

Wheel == UNION {thlist[i] : i \in Slot}

(* The entries _kfind would stop at, and the one it does: it walks the     *)
(* probe's chain from its head to the first key that starts with the probe.*)
Matches_PastHead(k) ==
  {e \in khash : /\ KeyBucket[heap[e].key] = KeyBucket[k]
                 /\ <<k, heap[e].key>> \in KeyPrefix
                 /\ \E f \in khash : <<f, e>> \in newer}
Matches(k) ==
  {e \in khash : /\ KeyBucket[heap[e].key] = KeyBucket[k]
                 /\ <<k, heap[e].key>> \in KeyPrefix}
KFind(k) == {e \in Matches(k) : \A f \in Matches(k) : <<f, e>> \notin newer}

(* list_del of the entries E from the wheel, and _kunhash of them.         *)
Unlink(E) == thlist' = [i \in Slot |-> thlist[i] \ E]

KUnhash_Forgets(E) == UNCHANGED <<khash, newer>>
KUnhash(E) ==
  /\ khash' = khash \ E
  /\ newer' = newer \cap (khash' \X khash')

(* Every entry of the wheel linked again where its expiry in h hashes.     *)
Rehashed_InPlace(h) == thlist
Rehashed(h) == [i \in Slot |-> {e \in Wheel : Hash(h[e].t) = i}]

-----------------------------------------------------------------------------
Init ==
  /\ clock = [time |-> Epoch, millitm |-> 0]
  /\ internal = clock /\ ext = clock /\ scanned = clock
  /\ tpc = "start"
  /\ heap = [e \in Entry |-> Free]
  /\ thlist = [i \in Slot |-> {}]
  /\ khash = {} /\ newer = {}
  /\ tqueue = <<>>
  /\ cbpc = "lock"
  /\ cbTid = 0
  /\ pc = [t \in Thread |-> "idle"]
  /\ tid = [t \in Thread |-> 0]
  /\ te = [t \in Thread |-> NULL]

(* The wall clock runs, and may be stepped under the program.              *)
ClockTick ==
  /\ clock.time < MaxTime
  /\ clock' = IF clock.millitm + 1 = MS
              THEN [time |-> clock.time + 1, millitm |-> 0]
              ELSE [clock EXCEPT !.millitm = @ + 1]
  /\ UNCHANGED <<internal, ext, scanned, tpc, heap, wheelVars, tqueue, cbpc,
                 clientVars>>

ClockStep ==
  /\ \E j \in Jumps :
       /\ Epoch <= clock.time + j /\ clock.time + j <= MaxTime
       /\ clock' = [clock EXCEPT !.time = @ + j]
  /\ UNCHANGED <<internal, ext, scanned, tpc, heap, wheelVars, tqueue, cbpc,
                 clientVars>>

-----------------------------------------------------------------------------
(* The API, called by a client thread or from inside a callback function.  *)

CanCall(t) ==
  t = Callback => /\ cbpc = "fn" /\ tqueue # <<>>
                  /\ heap[Head(tqueue)].key \in Tid

NextTid_NoWrap == cbTid + 1
NextTid == IF cbTid = MaxTid THEN 1 ELSE cbTid + 1

(* set_cb_timeout draws the next tid under tid_lock; 0 is never used.      *)
NewTid(t) ==
  /\ pc[t] = "idle" /\ CanCall(t)
  /\ cbTid' = NextTid
  /\ tid' = [tid EXCEPT ![t] = cbTid']
  /\ pc' = [pc EXCEPT ![t] = "tid"]
  /\ UNCHANGED <<timeVars, tpc, heap, wheelVars, tqueue, cbpc, te>>

(* malloc an entry and compute its expiry from _internal_time (time_lock). *)
NewEntry(t, k, d) ==
  /\ \E e \in Entry :
       /\ heap[e] = Free
       /\ heap' = [heap EXCEPT ![e] = [key |-> k, t |-> After(internal, d)]]
       /\ te' = [te EXCEPT ![t] = e]
  /\ pc' = [pc EXCEPT ![t] = "hash"]
  /\ tid' = [tid EXCEPT ![t] = 0]
  /\ UNCHANGED <<timeVars, tpc, wheelVars, tqueue, cbpc, cbTid>>

CbAdd(t, d)     == pc[t] = "tid" /\ NewEntry(t, tid[t], d)
TimerAdd(t, k, d) == pc[t] = "idle" /\ CanCall(t) /\ NewEntry(t, k, d)

(* malloc failed: set_cb_timeout returns the tid all the same.             *)
MallocFails(t) ==
  /\ pc[t] = "tid" /\ \A e \in Entry : heap[e] # Free
  /\ pc' = [pc EXCEPT ![t] = "idle"]
  /\ tid' = [tid EXCEPT ![t] = 0]
  /\ UNCHANGED <<timeVars, tpc, heap, wheelVars, tqueue, cbpc, cbTid, te>>

(* Under hash_lock: link the entry into both hashes, unless its key is     *)
(* found; then the entry is freed.                                         *)
HashEntry(t) ==
  LET e == te[t]
      c == heap[e]
  IN
  /\ pc[t] = "hash"
  /\ \/ /\ Matches(c.key) # {}
        /\ heap' = [heap EXCEPT ![e] = Free]
        /\ UNCHANGED wheelVars
     \/ /\ Matches(c.key) = {}
        /\ thlist' = [thlist EXCEPT ![Hash(c.t)] = @ \cup {e}]
        /\ khash' = khash \cup {e}
        /\ newer' = newer \cup
             {<<e, f>> : f \in {g \in khash :
                                  KeyBucket[heap[g].key] = KeyBucket[c.key]}}
        /\ UNCHANGED heap
  /\ pc' = [pc EXCEPT ![t] = "idle"]
  /\ te' = [te EXCEPT ![t] = NULL]
  /\ UNCHANGED <<timeVars, tpc, tqueue, cbpc, cbTid, tid>>

(* timer_del and timer_cb_del, when _kfind finds an entry (else nothing    *)
(* changes).                                                               *)
Del(t, k) ==
  /\ pc[t] = "idle" /\ CanCall(t)
  /\ \E e \in KFind(k) :
       /\ Unlink({e})
       /\ KUnhash({e})
       /\ heap' = [heap EXCEPT ![e] = Free]
  /\ UNCHANGED <<timeVars, tpc, tqueue, cbpc, clientVars>>

-----------------------------------------------------------------------------
(* The timer_check thread.                                                 *)

StartCheck ==
  /\ tpc = "start"
  /\ scanned' = clock
  /\ tpc' = "sleep"
  /\ UNCHANGED <<clock, internal, ext, heap, wheelVars, tqueue, cbpc,
                 clientVars>>

(* select() has slept; ftime().                                            *)
ReadClock ==
  /\ tpc = "sleep"
  /\ ext' = clock
  /\ tpc' = "sync"
  /\ UNCHANGED <<clock, internal, scanned, heap, wheelVars, tqueue, cbpc,
                 clientVars>>

TimeDiff == internal.time - ext.time
OutOfSync == TimeDiff > MaxDiff \/ TimeDiff < -MaxDiff

(* Under time_lock: follow the clock.                                      *)
Follow ==
  /\ tpc = "sync" /\ ~OutOfSync
  /\ internal' = ext
  /\ tpc' = "scan"
  /\ UNCHANGED <<clock, ext, scanned, heap, wheelVars, tqueue, cbpc,
                 clientVars>>

(* Under time_lock, and hash_lock for _tsync: the clock is more than       *)
(* MAX_TIME_DIFF away, so every entry is shifted and rehashed, and phv     *)
(* starts over from a second ftime().                                      *)
Resync ==
  /\ tpc = "sync" /\ OutOfSync
  /\ heap' = [e \in Entry |->
                IF e \in Wheel
                THEN [heap[e] EXCEPT !.t =
                        Resynced(@, ext.time - internal.time,
                                    ext.millitm - internal.millitm)]
                ELSE heap[e]]
  /\ thlist' = Rehashed(heap')
  /\ ext' = clock
  /\ internal' = ext'
  /\ scanned' = ext'
  /\ tpc' = "scan"
  /\ UNCHANGED <<clock, khash, newer, tqueue, cbpc, clientVars>>

Due_WholeSlots ==
  UNION {thlist[i] : i \in ScanSlots(Hash(scanned), Hash(internal))}
Due == {e \in UNION {thlist[i] : i \in ScanSlots(Hash(scanned), Hash(internal))} :
          Expired(heap[e].t, internal)}

(* a leaves the wheel before b in one scan: slots in turn, each from its   *)
(* tail, the earliest expiry.                                              *)
ScannedBefore(a, b) ==
  LET sa == ScanOrder(Hash(scanned), Hash(heap[a].t))
      sb == ScanOrder(Hash(scanned), Hash(heap[b].t))
  IN  sa < sb \/ (sa = sb /\ Before(heap[a].t, heap[b].t))

(* list_add puts each entry at the head of _tqueue: the last one scanned   *)
(* comes first.  (The order of equal expiries is left open.)               *)
Batches(D) ==
  {q \in [1..Cardinality(D) -> D] :
     /\ \A e \in D : \E i \in DOMAIN q : q[i] = e
     /\ \A i, j \in DOMAIN q :
          i < j => q[i] # q[j] /\ ~ScannedBefore(q[i], q[j])}

(* Under task_lock and hash_lock.  The signal is lost unless the callback  *)
(* thread is inside pthread_cond_wait.                                     *)
Scan ==
  /\ tpc = "scan"
  /\ cbpc \notin {"loop", "fn"}
  /\ Unlink(Due)
  /\ KUnhash(Due)
  /\ \E q \in Batches(Due) : tqueue' = q \o tqueue
  /\ cbpc' = IF Due # {} /\ cbpc = "wait" THEN "woken" ELSE cbpc
  /\ scanned' = internal
  /\ tpc' = "sleep"
  /\ UNCHANGED <<clock, internal, ext, heap, clientVars>>

-----------------------------------------------------------------------------
(* The timer_callback thread.                                              *)

CbGoto(from, to) == cbpc = from /\ cbpc' = to
CbKeeps == UNCHANGED <<timeVars, tpc, wheelVars, clientVars>>

(* Lock task_lock and wait: there is no test of _tqueue before the wait.   *)
CbWait == CbGoto("lock", "wait") /\ CbKeeps /\ UNCHANGED <<heap, tqueue>>

(* POSIX allows pthread_cond_wait to return without a signal.              *)
CbSpurious == CbGoto("wait", "woken") /\ CbKeeps /\ UNCHANGED <<heap, tqueue>>

CbResume == CbGoto("woken", "loop") /\ CbKeeps /\ UNCHANGED <<heap, tqueue>>

(* Send to the entry's port, or enter its callback function.               *)
CbRun ==
  /\ tqueue # <<>>
  /\ CbGoto("loop", "fn") /\ CbKeeps /\ UNCHANGED <<heap, tqueue>>

(* The function has returned: list_del and free.                           *)
CbReturn ==
  /\ pc[Callback] = "idle"
  /\ CbGoto("fn", "loop") /\ CbKeeps
  /\ heap' = [heap EXCEPT ![Head(tqueue)] = Free]
  /\ tqueue' = Tail(tqueue)

CbUnlock_AfterOne ==
  CbGoto("loop", "lock") /\ CbKeeps /\ UNCHANGED <<heap, tqueue>>
CbUnlock ==
  /\ tqueue = <<>>
  /\ CbGoto("loop", "lock") /\ CbKeeps /\ UNCHANGED <<heap, tqueue>>

-----------------------------------------------------------------------------
Clock  == ClockTick \/ ClockStep
Check  == StartCheck \/ ReadClock \/ Follow \/ Resync \/ Scan
CbStep == CbWait \/ CbSpurious \/ CbResume \/ CbRun \/ CbReturn \/ CbUnlock
Api(t) ==
  \/ NewTid(t)
  \/ \E d \in Delay : CbAdd(t, d)
  \/ \E k \in StrKey, d \in Delay : TimerAdd(t, k, d)
  \/ MallocFails(t)
  \/ HashEntry(t)
  \/ \E k \in Key : Del(t, k)

Next == Clock \/ Check \/ CbStep \/ \E t \in Thread : Api(t)

Spec == Init /\ [][Next]_vars
-----------------------------------------------------------------------------
(* Types.                                                                  *)
TypeOK ==
  /\ clock \in Wall /\ internal \in Wall /\ ext \in Wall /\ scanned \in Wall
  /\ tpc \in {"start", "sleep", "sync", "scan"}
  /\ heap \in [Entry -> Cell \cup {Free}]
  /\ thlist \in [Slot -> SUBSET Entry]
  /\ khash \in SUBSET Entry
  /\ newer \in SUBSET (Entry \X Entry)
  /\ tqueue \in Seq(Entry)
  /\ cbpc \in {"lock", "wait", "woken", "loop", "fn"}
  /\ cbTid \in 0..MaxTid
  /\ pc \in [Thread -> {"idle", "tid", "hash"}]
  /\ tid \in [Thread -> 0..MaxTid]
  /\ te \in [Thread -> Entry \cup {NULL}]

Elems(s) == {s[i] : i \in 1..Len(s)}
Once(s)  == \A i, j \in 1..Len(s) : i # j => s[i] # s[j]

Queued == Elems(tqueue)
Held   == {te[t] : t \in Thread} \ {NULL}

(* Memory safety across the threads: an allocated entry is in exactly one  *)
(* of a caller's hands, the hashes and the queue (nothing leaks), what any *)
(* of them links is allocated (nothing dangles), no entry is linked twice, *)
(* and the two hashes always hold the same entries.                        *)
OnePlace ==
  /\ \A e \in Entry : heap[e] # Free <=> e \in Held \cup Wheel \cup Queued
  /\ Held \cap (Wheel \cup Queued) = {} /\ Wheel \cap Queued = {}
  /\ khash = Wheel
  /\ \A s, t \in Thread : s # t /\ te[s] # NULL => te[s] # te[t]
  /\ Once(tqueue)
  /\ \A i, j \in Slot : i # j => thlist[i] \cap thlist[j] = {}

(* The wheel finds what it holds: an entry is linked in the slot its       *)
(* present expiry hashes to, although _tsync rewrites expiries in place    *)
(* and _tunhash recomputes the slot.                                       *)
SlotHash == \A i \in Slot : \A e \in thlist[i] : Hash(heap[e].t) = i

(* No two live timers have the same key: two callers that arm the same key *)
(* at once, or a tid drawn again after cb_tid wraps, never both get in,    *)
(* so a delete by key has one meaning.                                     *)
UniqueKeys ==
  \A e, f \in khash : heap[e].key = heap[f].key => e = f

(* What waits in _tqueue had reached its expiry on the service's own       *)
(* clock, and still has: whatever is rewritten while a callback keeps the  *)
(* queue waiting, a timer that has left the wheel is never postponed and   *)
(* none is released before its time.  (Clock steps forward only.)          *)
QueueExpired ==
  Jumps \subseteq Nat => \A e \in Queued : Expired(heap[e].t, internal)

(* One scan leaves nothing behind: of the timers whose expiry lies between *)
(* the previous scan and the clock, none is still linked when it ends.     *)
(* The wheel position falls back by one second when the seconds wrap       *)
(* modulo SecWidth, so a scan that covers more than a second across that   *)
(* boundary is exempt; so is an expiry that _tsync has left with more than *)
(* MS - 1 milliseconds.                                                    *)
Wraps(a, b) == a.time \div SecWidth # b.time \div SecWidth
ScanComplete ==
  [][tpc = "scan" /\ tpc' = "sleep"
       /\ (Wraps(scanned, internal) => Ticks(internal) - Ticks(scanned) < MS)
     => \A e \in Wheel' : \/ heap[e].t.millitm >= MS
                          \/ Before(heap[e].t, scanned)
                          \/ ~Before(heap[e].t, internal)]_vars

-----------------------------------------------------------------------------
(* Fairness: each thread of the service keeps running, time passes, a      *)
(* callback function finishes the API calls it makes and returns.          *)
Fairness ==
  /\ WF_vars(ClockTick)
  /\ WF_vars(StartCheck) /\ WF_vars(ReadClock) /\ WF_vars(Follow)
  /\ WF_vars(Resync) /\ SF_vars(Scan)
  /\ WF_vars(CbWait) /\ WF_vars(CbResume) /\ WF_vars(CbRun) /\ WF_vars(CbUnlock)
  /\ SF_vars(CbReturn)
  /\ \A t \in Thread : WF_vars(HashEntry(t))
  /\ WF_vars(MallocFails(Callback) \/ \E d \in Delay : CbAdd(Callback, d))

FairSpec == Spec /\ Fairness

(* A signal that does reach the callback thread empties the whole queue,   *)
(* including what earlier lost signals left in it and what is added before *)
(* the thread has task_lock again.                                         *)
WokenDrains == cbpc = "woken" ~> tqueue = <<>>

(* A timer ahead of the scan is released: once timer_check has taken its   *)
(* first position and the entry is in the wheel at or after the scan       *)
(* position, it does not stay there for good, whatever the callbacks do.   *)
Ahead(e) ==
  /\ tpc # "start" /\ e \in Wheel
  /\ ~Before(heap[e].t, scanned) /\ Before(heap[e].t, clock)
AheadExpires == \A e \in Entry : Ahead(e) ~> e \notin Wheel

-----------------------------------------------------------------------------
(* The inductive invariant: what the properties above need besides each    *)
(* other.  An API call that has an entry in hand is about to hash it, one  *)
(* that has drawn a tid has a real one, and a callback function runs only  *)
(* with its entry at the head of the queue; and on a clock that is never   *)
(* stepped back, the service's clock readings are never ahead of it.       *)
PcInv ==
  /\ \A t \in Thread : pc[t] = "hash" <=> te[t] # NULL
  /\ \A t \in Thread : pc[t] = "tid" => tid[t] \in Tid
  /\ cbpc = "fn" => tqueue # <<>>

TimeInv ==
  Jumps \subseteq Nat =>
    /\ Expired(internal, clock) /\ Expired(ext, clock)
    /\ tpc = "sync" => Expired(internal, ext)

HeapInv == TypeOK /\ PcInv /\ OnePlace

(* No scan covers more than the wheel: between scans the scan position is  *)
(* not behind the service's clock, which one step moves by MaxDiff seconds *)
(* at most.  Before the first scan it is a reading of the clock since the  *)
(* start.                                                                  *)
PaceInv ==
  /\ clock.time >= Epoch
  /\ tpc = "start" => internal.time = Epoch
  /\ tpc \in {"sleep", "sync"} => internal.time <= scanned.time
  /\ tpc = "scan" => internal.time - scanned.time <= MaxDiff

-----------------------------------------------------------------------------
(* What the comments and the tests say and the code does not do.           *)

(* lib/test/test_cbtimer.c:24: the callback comes after the delay, so what *)
(* has been queued is run.                                                 *)
QueueDrains == tqueue # <<>> ~> tqueue = <<>>

(* lib/test/test_cbtimer.c:24: the callback comes after the delay, so a    *)
(* timer does not stay in the wheel once the scan has passed its expiry.   *)
NothingOverdue ==
  tpc = "sleep" => \A e \in Wheel : ~Before(heap[e].t, scanned)
=============================================================================

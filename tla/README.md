# A verification project for mmi and libpopup

`mmi` is a small command-line tool (`main.c`, `mmc.c`) on top of `libpopup.a`
(`lib/`), a C library of services that telecom daemons link: timers with
callbacks, a peer monitor, a process supervisor, an IP address pool, message
queues, a configuration-file editor, an interactive command interpreter, a log
writer, protocol helpers (DHCP, RADIUS, NTP, ICMP), socket and interface calls,
encodings, a block cipher and readers of system statistics. Several of the
services start threads of their own and call back into the program. This
directory holds TLA+ models of them, the TLC configurations that check the
models, and proofs that TLAPS checks.

## Inventory

| component | files | state | hard behaviour | module |
|---|---|---|---|---|
| timer service | `timer.c` | timing wheel, key hash, task queue, clocks, three mutexes, a condition | four kinds of thread, callbacks under a lock, clock steps, wheel arithmetic | `Timer` |
| IP address pool | `ipp.c` | 16 lists of 10 pools: range, exclusion, bitmap, cursor, counters | long sequences of calls; counters beside a bitmap; shared memory | `IpPool` |
| peer monitor | `peer.c` | sorted list of peers with stamp and status | check-then-lock, callbacks under a lock, probe and expiry times | `Peer` |
| process supervisor | `shell.c`, `proc.c` | `proctab`: pid, run, crash count | asynchronous signals that coalesce, a limit another thread resets | `Supervisor` |
| message queue | `bufq.c` | doubly linked list and two counters | order of assignments | `BufQ` |
| linked lists | `list.h` | pointers | deletion under an iteration, splicing and cutting | `ListHead`, `HList` |
| configuration file | `conf.c` | a text file, a swap file | replacement in several steps, crashes | `ConfFile` |
| log writer | `log.c` | file, size, date, limits | rotation by threads that lock nothing | `LogFile` |
| command interpreter | `mmc.c`, `main.c` | command table, line, history | abbreviations, completion, history by number | `Mmc` |
| DHCP | `dhcp.c` | client states, option octets | messages out of order, timers that coincide, hand-summed lengths | `Dhcp` |
| NTP | `ntp.c` | the server's table of clients | late and cut messages | `Ntp` |
| ping | `ping.c` | one raw socket a test | every socket gets every packet | `Ping` |
| RADIUS | `radius.c`, `make_radius.c` | the caller's buffers | what an earlier message left, lengths | `Radius` |
| encodings | `encode.c`, `mac_parse.c`, `imsi.c` | none | boundaries | `Codec` |
| SEED cipher | `seed.c` | none | key order, the rest of a text | `Seed` |
| interfaces | `ioctl_func.c`, `if.c` | the kernel's devices, a global table | errors that look like values, descriptors, threads | `IfConf`, `IfTable` |
| sockets | `sock.c`, `sockv6.c` | descriptors, a static buffer of libc | error paths, threads | `Sockets` |

How they interact: `peer.c`'s second variant re-arms its check with
`set_cb_timeout`, so it runs on the timer's callback thread, under `task_lock`;
`shell.c` starts processes through `proc.c` and reads its table with `conf.c`;
`mmi` registers its commands with the interpreter, which calls them; ping and
NTP open their sockets through `sock.c`. The rest are called by programs
outside this repository, so their callers are modelled as clients that make any
legal call in any order.

What makes each correct, in one line: the **timer** runs every armed and not
cancelled callback once, neither early nor much too late, and never touches an
entry after freeing it; the **pool** never hands out one address twice, nor a
reserved one, and its counters agree with its bitmap; the **peer monitor**
reports each change of state and never uses a freed peer; the **supervisor**
keeps every process that should run running, one of each, and gives up on one
that keeps dying; **queues and lists** are sequences, to which each call does
what its name says; the **configuration file** survives a crash; the **log**
loses no line without a reason; the **interpreter** runs what was meant and
repeats what was run; what one side of a **protocol or encoding** writes the
other reads; **sockets and interfaces** leave no descriptor and no flag that
nobody asked for.

## How the modules fit together

Each component's module stands by itself: its state, one action per operation
or step, its specification and its properties. Names follow the source.

* `MCTimer`, `MCIpPool`, `MCPeer`, `MCSupervisor` give one component's
  constants their values.
* `MCQueues` runs `BufQ`, `ListHead` and `HList`, `MCLibrary` the twelve parts
  of the library that no other part calls: a behaviour is one of one part while
  the others stay in their initial states, so one run covers all of them, and
  its properties join those of a part (`Linked`, `TextKept`, ...). Symmetry is
  used in these two runs, whose properties are all of safety.
* `MsgQueue` and `Lists` are abstract specifications: a queue as a sequence, and
  several lists as sequences of entries, each entry in one list at most.
  `BufQ` implements the first (`IsAQueue`; `InItsPlace` says which call does
  what), `ListHead` and `HList` the second
  (`AreLists`, `AreChains`), each through `INSTANCE ... WITH` and an operator
  that reads the sequence off the pointers (`Along`, of `Walks`, is what a loop
  over a linked list does).
* `Probes` joins `Ntp` and `Ping`, two clients that believe what the network
  says, and states `Believed` of both.
* The theorems are in a proof module for each component or group of components:
  `TimerProof`, `IpPoolProof`, `SupervisorProof`, `PeerProof`; `ListsProof`
  (`HList`, `ListHead`) and `QueuesProof` (`BufQ`, and the three together in
  `MCQueues`), which extends it; `LibraryProof` for parts that do not touch one
  another (`Sockets`, `IfConf`, `Probes`, `Radius`, `Seed`); and `FilesProof`
  for what the library reads and writes as text (`LogFile`, `IfTable`,
  `ConfFile`). The inductive invariant of a component is stated at the end of
  the component's module, so that TLC can check it too, or in the proof module
  when it serves one proof.

## Modules

### Timer (`lib/timer.c`)

State. `heap` is what `malloc` has returned (a `tentry_t` reduced to key and
expiry); `thlist` the wheel, each slot as a *set* of entries, because `_thash`
keeps every slot sorted by expiry and only that order is ever used; `khash` and
`newer` the key hash, `newer` recording the order within a chain, which
`_kfind` depends on when one key is a prefix of another; `tqueue` the task
queue; `internal`, `ext` and `scanned` the `_internal_time`, the
`_external_time` and the time whose hash is `phv`; `cbTid`, `pc`, `tid`, `te`
the calls under way.

Actions. A critical section of `time_lock`, `hash_lock` or `tid_lock` does not
block inside, so each is one action, and a function that enters two of them is
two: `NewEntry` (expiry from `_internal_time`) then `HashEntry` (link, or free
when the key is found). `task_lock` is held across user callbacks, so it is
explicit: the callback thread holds it in `cbpc` = "loop" or "fn", and `Scan`
waits for it. `timer_check` is `StartCheck`, then `ReadClock`, `Follow` or
`Resync`, and `Scan`, over and over. A callback is any sequence of API calls
between `CbRun` and `CbReturn`. The wall clock ticks by itself (`ClockTick`)
and may be stepped (`ClockStep`).

Data. Expiries are `[time, millitm]` records with `millitm` modulo `U16`, an
`unsigned short`; the wheel arithmetic is the code's, with the constants
`MS` (1000), `WheelSize` (65535), `SecWidth` (65536) and `MaxDiff` (3) as
parameters. The callback function, its argument and the port are payload and
left out, except that `set_timeout` entries run no function.

| run | instance | shows |
|---|---|---|
| `timer_steps` | 2 entries, 1 client, 2 ms to the second, wheel of 5, four seconds, clock stepped forward by 2 or 3 s | types; every scan empties its interval of the wheel (`ScanComplete`); `SlotHash` and `QueueExpired` through resynchronisations |
| `timer_keys` | 2 entries, 2 clients, string keys `ab`, `abc`, one tid, clock stepped back by 1 s | `OnePlace`, `UniqueKeys` |
| `timer_live` | fair threads | `WokenDrains`, `AheadExpires` |
| `timer_overdue`, `timer_wakeup` | | the findings below |

Bounds: `Entry` bounds the live timers, `MaxTime` the clock, `MaxTid` makes the
tid wrap within a run (the code wraps after 2^32 - 1), `Jumps` the clock steps.
The wheel is smaller than the time a run covers, so positions wrap and
collide; `MaxDiff` is 1 so that both branches of the difference test are taken.
Two entries are enough to share a slot, a key chain and a queue, and with two
clients to have none left while a third is asked for.

Fairness (`timer_live`). Time passes; each service thread keeps taking steps
(weak fairness). `Scan` gets strong fairness, because it competes for
`task_lock` with the callback thread, which releases it for ever and again:
the default mutex makes no promise, but a waiter that is scheduled while the
lock is free gets it. A callback returns (strong fairness of `CbReturn`): its
API calls are interleaved with it, and a callback that never returns is a bug
of the caller. Clients promise nothing.

### TimerProof

Theorems, for every value of the constants that meets the assumptions of
`Timer`: `HeapSafe` (the inductive invariant), `TypeCorrect`, `MemorySafety`,
`KeysUnique`, `SlotsRight`, `NothingEarly`, `ScanLeavesNone`. Assumed:
`ThreadAssumption` (names are told apart), `KeyAssumption` (a key is a prefix of
itself), `TimeAssumption` (a second has milliseconds that fit twice into their
width, the wheel is longer than the interval a scan may cover) and
`WheelAssumption` (0xffff slots beside 0x10000 seconds, as in the code).

The invariant is `HeapInv`: the type invariant, `OnePlace`, and `PcInv`, which
ties a call's program counter to what it holds. `OnePlace` alone is not
inductive: `HashEntry` needs to know that an entry in hand is not in another
hand, and `CbReturn` that the queue is not empty. `SlotHash` is then inductive
beside it, because `HashEntry` links by the expiry it computes, `Resync`
relinks the whole wheel and nothing else writes an expiry. `UniqueKeys`
needs `OnePlace` (the wheel and the key hash agree) and that every key matches
itself (`KeyAssumption`). `QueueExpired` needs `TimeInv`: on a clock that is
never stepped back the service's readings of it never run ahead of it nor
fall behind each other. Each step lemma has one case per action.

`ScanComplete` says that a scan leaves no entry in its interval that has
expired. It needs `SlotHash` (an entry is where its expiry says) and `PaceInv`:
the interval of a scan is at most `MaxDiff` seconds, shorter than the wheel, so
a position in it stands for one time only. The arithmetic is of remainders
modulo the wheel: the lemmas bound the quotients instead of dividing.

Beyond TLAPS are the two liveness properties.

### IpPool (`lib/ipp.c`)

State. `pool[l][j]` is `ipplist[l]->ipp[j]` with the fields of `ipp_t` except
`mask` and `nbit`, which only the construction uses, and `free`, which stays 0;
its bitmap is the *set* of offsets whose bit is set. `alive` are the lists that
`ipplist` points to, `nipp` their counters; `cipp` is 0 for ever, because only
copies of it are advanced, so `IPP_ROUND` starts every search from the second
pool. `lent` counts the clients that hold an address and belongs to the
callers. `fate` tells a running program from one that loops for ever or has
divided by zero.

Actions. The code is sequential, so a call is an action: `Add`, `AddRejected`,
`Del`, `Flush`, `Alloc`, `Free`, `Set`; `AllocHangs` and `AllocTraps` are the
calls that never return. The loop that looks for a clear bit is `Reached`: the
clear bit that lies in every set of positions closed under the loop's step
(`Skip`) from where it starts. If there is none, the loop never ends. The mask
arithmetic of `ippaddn` is `Block`, `NetOf`, `PoolOf`, with the clamping of the
exclusion (`Clamped`) and the capacity (`Capacity`) as the code has them,
unsigned and modulo `U32`. `ippdel` compares the net only, in all lists; it
masks a 31-bit net by one bit where `ippaddn` takes it for a single address, so
such a pool at an odd address cannot be deleted (`Deleted` against `Block`).

Callers. The operator adds no pool that overlaps another, in any list: the code
has no such check and would hand one address out twice. Clients free only what
they hold. Unless `Late`, they return the addresses of a pool before it is
deleted; with `Late` they may keep them, and nothing but `UsedFollowsMap` and
the order of allocation is promised: a late `ipfree` clears whatever bit the
address has in the pool that covers it now, an excluded one too. More than
`MaxIpp` additions leave the array (`InArray`); beyond that nothing is
modelled.

| run | instance | shows |
|---|---|---|
| `pool_alloc` | two lists, pools of 2 and of 6 addresses, two of these excluded in the middle, 3 additions to a list | `Exclusive`, `MapExact`, `ReservedKept`, `FullIsFull`, `SearchEnds`, `NoReuse` and types over pools that are deleted and added again elsewhere |
| `pool_seq` | one list, `IPP_SEQ` and `IPP_ROUND`, `Late`, 2 additions; a pool of two addresses and one whose exclusion covers these, a pool of one address and one with an exclusion beyond it (whose search may hang) | `SeqLowest`, `UsedFollowsMap`, with `used` below zero |
| `pool_count` | | the finding below |

Bounds: addresses have four bits, a pool at most eight, counters wrap at 32, a
list has three slots; `MaxAdds` bounds the additions, `MaxHeld` = 2 is one more
holder than `Exclusive` allows. A hole in the array needs two pools, its reuse
a third addition. Deadlock is not checked in `pool_seq`, where the
program really stops: with `IPP_ROUND` a list without pools traps, and the
search in a full pool with an exclusion beyond it hangs. `SearchEnds` says that
no search hangs if no pool has such an exclusion and clients return addresses in
time; `SeqLowest` and `NoReuse` say which address a search finds, except that a
bit of the exclusion that a late `ipfree` has cleared is not offered to it.

### IpPoolProof

`PoolInv` says of every slot, live or empty, what its fields promise each other
(`Sound`): cursor, exclusion and bits within the range, `used` the number of
bits set minus those excluded, modulo `U32`, and a `total` that is not too
small (`Roomy`). `NewPoolSound`, `MarkSound`, `ReleaseSound` and
`AdvancedSound` are the lemmas about the operations on one pool; `AllocTakes`,
`SetTakes` and `FreeFrees` reduce the calls to them. From it follow
`PoolTypeCorrect` and `CounterRight`, for every behaviour of the clients.

What clients hold needs more (`HeldInv`): live pools are where the searches
look for them (`Placed`: their list is alive and their index below `nipp`,
which holds *because* `ippdel` leaves `nipp` alone), they do not overlap
(`Apart`), and a bit is set exactly for an excluded or a held address
(`HolderInv`). `ipfree` then finds the one pool the address was taken from
(`FirstOfHeld`). This gives `AddressesExclusive`, `ExcludedKept`, `BitmapExact`
and `AllocationFailsOnlyWhenFull`.

Assumed of the constants: what a mask does (`MaskAssumption`: a block is one
address or at least four, starts at its net and ends below `MaxAddr`), which
TLC evaluates for the instances, and that a pool fits its map, as `IPPSZ` is
meant to ensure.

The search itself is the loop `Skip` around the circle of a pool's positions.
`Arc` is the part of the circle from the start up to a position, and `SkipTo`
says that the loop goes through an arc that has no clear bit; the lemma
`SearchFinds` follows: the search finds the first clear bit of the arc, if there
is one outside the exclusion. From this, `LowestFirst` (with `IPP_SEQ` the
lowest free address is taken) and `ReusedLast` (without it, an address that was
just returned is taken last). `SearchTerminates` needs more: a pool that `used <
total` calls not full must really have a clear bit, so its `total` must not be
too large either (`Tight`, `TightInv`). This is false of a pool with an
exclusion beyond its end, and with clients that free late; `EndsInv` is the
invariant under the two conditions of `SearchEnds`.

### Peer (`lib/peer.c`)

The list is a sequence of nodes, a walk along it is a step per node because
`peeradd` and `peerdel` search before they lock, and the threads of
`initpeer2` never lock. A stamp is its age; `Tick` makes all of them older, the
clock may be set back once. `First`, `FindNext` and `Found` are the walk of any
caller, `Add`, `Delete` and `FreeNode` what follows it, `Wake`, `Silent`,
`EndPass`, `NextPass` and `Probe` the checking thread (of either set), `Receive`
and `Reply` the receiving one. Addresses in `Tunnels` belong to the second set.

Run `peers`: two addresses, of which one host answers, two callers, three
calls, `Expire` = 2, `Valid` = 1: the order of the code's 10, 6 and 3 seconds.
`ListSafe` holds as long as no two walks meet that no lock keeps apart; after
that the list does break (a duplicate, a peer used after it was freed), which
is why it says so. `DownMeansSilent`: nobody is reported down who has answered
in time. `SilentReported` and `AnswersReported` need time that passes, a
checker that is scheduled and gets the lock (strong fairness of `Wake`), and a
network that does not lose every answer (strong fairness of `Receive` and
`Answer`).

### PeerProof

`PeerInvariant`, `ListIsSafe`, `DownIsSilent`: `PeerInv`, `ListSafe` and
`DownMeansSilent` for any number of peers, callers and calls. As long as no two
walks have met (`SerialSafe`) the list is sorted and without duplicates
(`OnList`), a program counter says who is where (`Roles`), who has the lock
(`Locked`) and that no two walkers that may change the list are in it (`Apart`),
and a walker's pointer aims at a node of the list, between its neighbours in
order (`Aimed`). A walker that has found nothing has passed all smaller
addresses, and that makes the insertion keep the order. `Missed` and `Aged` tie
a stamp's age to the answers: a node is down only if nothing was received for
`Expire`. Assumed (`PeerAssumption`): the code's order of its three times, that
a period is not zero (a second passes between its two passes), and that names
are told apart; `FreeAssumption`: a freed cell is not a peer.

`DownMeansSilent` compares a stamp with what was received, and `Aged` had to
allow for a stamp that was reset: the peer it belongs to had been silent for
`Expire` by then and may be called down by any pass until it answers.

### Supervisor (`lib/shell.c`, `lib/proc.c`)

A *frame* is a piece of code under way: main, the handler that interrupts it,
the handler on the thread of `pstattask`. `Sig`, `Visible`, `Match`, `Handle`
and `Rearm` are the steps of `sigchld`, `PKill`, `TooMany`/`GiveUp`, `Fork`,
`StorePid`, `StoreRun`, `Count` those of `proc_start`. Children exit at any
moment; a signal that finds one pending is lost. `fork` may fail, which stores
-1. `crz_cnt += 1` is a load (in `StoreRun`) and a store (`Count`), and `Second`
clears the counter of any entry at any moment, as `get_proc_info` does without a
lock, also between the test and the load and between the load and the store:
then the clearing is lost, and the limit comes early. Only a handler on the
thread of `pstattask` itself holds it up. `forks` counts what the limit is
about, the forks of an entry since its counter was cleared.

Run `procs`: two entries, the name of one a part of the other's (so `pkill`
takes both), a limit of one start a second, three pids, one command of the
operator. `OneInstance` and `TableTrue` hold unless one entry is started by two
frames at once (`clash`): no program runs twice, none is forked more than the
limit allows between two clearings, and the table names the child that runs.
`Restarted` says of every state in which nothing is under way or pending that
what the table says to run does run; except where an exit went unannounced (two
exits with one signal, or a pid not yet in the table: `missed`), which the code
does suffer, and where fork failed. Nothing is modelled once an entry has been
started twice at once or `kill(-1)` has been called (`Beyond`). No liveness is
claimed: after `quit` the code waits for no child.

### SupervisorProof

`ChildInvariant`, `SupervisorTypes`, `OneInstanceEach`, `TableNamesChildren`:
`ChildInv`, `TypeOK`, `OneInstance` and `TableTrue`, for any table. `ChildInv`
adds to the type: the table that was read is seen whole (`TableSeen`); what was
forked is counted or will be by the frame that starts it, whenever the counter
is cleared in between (`StartsCounted`); no two frames start one entry without a
clash (`Apart`); between
`proc_start`'s `pkill` and its `fork` no child of the entry is left (`Cleared`);
a child is in the table, in a frame that has just forked it, or told to exit
(`Accounted`), and of one entry there is one such (`Single`); pids are children
unless a fork has failed (`ForksSucceed`) and what has exited is seen by the
handler (`Reaped`).

Assumed (`TableAssumption`): the entries are numbered from 0 without a gap, as
in `proctab`, and each name matches itself. The first is used: the walks of
`sigchld` and `pkill` go from one index to the next, and in a table with gaps
they would miss a child.

### BufQ, ListHead, HList (`lib/bufq.c`, `lib/list.h`)

Pointers are functions; every function of the code is one action that makes its
assignments in order (`Before`, `Join`, `SpliceBetween`, ... are the shared
ones). The iteration macros that allow deletions are steps (`WalkStep`,
`HAdvance`), between which the caller deletes or moves the element it is at.
`MsgQueue` is a queue by the code, not by `bufq.h`, whose comments the code
contradicts: they have `q_msgs` count bytes and `q_count` messages (lines
34-35), `bufq_length` answer bytes and `bufq_size` messages (79-87), and
`bufq_queue` attach at the header (99-103), while `bufq.c` counts the other way
round and attaches at the tail. So `IsAQueue` says that a call, whatever
pointers it writes, is one step of a queue that is owned and counted right, and
`InItsPlace` where each call puts its message; the mutant of the latter is the
`bufq_queue` of the header. `EnterChain` takes only the first two messages of a
chain because the loop of `bufq_supply` does: the loss is in the abstract queue,
and no property forbids it. In `BufQ` the two loops of the code, over the queue
and over a chain, are recursive functions with as many turns as there are
messages.

Run `queues`: three messages of one or two bytes, two heads and three entries
of either kind of list: enough for the first, last, only and middle element of
every operation and for splicing and cutting at both ends.

### The parts in MCLibrary

| module | code and state | properties |
|---|---|---|
| `Sockets` | each call of the socket functions in its order, in two threads, three descriptors; what a failed call leaves open | `SocketsOwned`: every descriptor has one owner; an ICMP socket is one unless another thread looked a protocol up between two steps (proved) |
| `IfTable` | `getifs` reads the words of `ifconfig -a` for two callers under its lock | `DevicesTold`: the attributes of an entry are its device's, aliases and missing statistics included (proved) |
| `IfConf` | getters and setters on the kernel's devices, `ifup`, `ifdown`, `bond_enslave`, `bond_release` step by step | `BondLeaves`: flags appear from nowhere only when descriptors have run out, which the run reaches; an enslaved device has no address and its master's MTU (proved) |
| `Dhcp` | the client's state table between a server and a network that loses, repeats and delays; messages as octets | `RoundTrips`: options are read back, and an address is kept for no longer than its lease, of three seconds or more (`LeaseInTime`) |
| `Ntp` | `syncntp` against this server and another; the server's table | `Believed`: the clock is set to no junk and to no time of before the call; the reference time a host is told is that of a recent request of its own (proved) |
| `Ping` | tests of two threads, each socket with all packets | `Believed`: a yes means that the host has replied meanwhile, a no comes after the whole time, at most one stray packet is read after it (proved) |
| `Radius` | one buffer on either side, never cleared by the code | `Genuine`: accepted if and only if the receiver's secret is what was signed behind the message, the authenticator was clear and nothing altered; what was signed is the sender's secret where builder or caller copied it there (proved); `RoundTrips` |
| `Seed`, `Codec` | one text at a time: encrypt and decrypt, encode and decode; `imsi2str` takes its fields from the bits of an `int` as a big or a little host makes it of four octets | `RoundTrips` |
| `ConfFile` | the directory's changes one by one, crashes between any two, a failing link | `TextKept`: the text of the last finished edit is in the file or in its swap; nobody opens half a text; `getconf` answers what `modconf` wrote and the same as before for other labels, `getlabel` what `updlabel` wrote, but where a line has run into an unfinished one (proved) |
| `LogFile` | check, rotate and write of two threads without a lock, midnight | `LogKept`: a line is lost only for a reason (replaced, directory not made, log restarted by another thread); the oldest file goes; a file is at most `size` and a line of each thread long, unless the log was started again on a file that has lines (proved) |
| `Mmc` | words, `<tab>`, `<return>`, history numbers; parsing against the command table | `Understood`: a line of the history runs what it ran; nothing runs by guessing: words are looked up with the format as it is then, the `-` behind it included; `<tab>` keeps the meaning |

Bounds: in the cfg and, as definitions, in `MCLibrary`. Two threads race; three
descriptors are one more than a bonding function needs, and once a call has
returned early and kept one there may be a third call, so that the reads of a
bonding function run out of them and -1 stands for flags; the devices include an
alias whose device is missing; options and secrets are octets that look like
codes; SEED has words of eight bits and an arbitrary function for its tables,
texts of nothing to more than a block; base 64 lines have 8 characters, texts
fill two and a half; a file has three lines and suffers one crash in three
edits; the log keeps two files of one line; a DHCP lease lasts 2 or 3, two
servers share the network's two messages; a host sends three requests to the NTP
server, with a poll field of 0 or 1, so that an entry runs out. Deadlock is not
checked: `quit` ends the interpreter and the counted parts end when their bound
is used up.

One mutation of the code per property is in `PROJECT.json`. The joined
properties are broken by others as well, defined beside what they change:
`IfConf.Close_OnError`; `Dhcp.set_dhcp_opt_AtCode`; `Ntp.Port_Fixed`,
`Counted_Late`; `Ping.IsReply_AnyAddress`, `IsReply_AnyProcess`,
`IsReply_AnyType`, `remain_Whole`; `Radius.get_sattr_OffByTwo`;
`Codec.long2bcd_HighFirst`; `ConfFile.UpdLabel_Finished`, `Restored_Not`,
`Mine_EqOnly`, `CloseSwap_OnlyChanged`, `UnlinkPath_Swap`;
`LogFile.Full_AtMost`, `Place_Last`, `SetName_NoSprintf`;
`Mmc.HistAdd_NumberBefore`, `Left_DropsLast`;
`Peer.MorePasses_OneTooMany`; `BufQ.Without_NoSub`; `ListHead.Join_NextOnly`,
`WalkStep_NotSafe`, `WalkStep_Skips`; `HList.PprevAfter_Kept`,
`HAdvance_NotSafe`.

### ListsProof, QueuesProof

`ChainsAreLists`, `HeadsAreLists` and `QueueImplements` state the refinements of
the run `queues`, `CallsInPlace` its property `InItsPlace` and `LinksAreWhole`
its invariant `Linked`, for any number of heads, entries, nodes and messages.
All rest on an invariant of one form (`HInv`, `LInv`, `QInv`): the sequence that
a reader of the pointers finds is linked by them at every place, and no two
heads share an element. What a head has is read off by `Along`, so the
invariants name no ghost state. The proofs go the same way:

1. Pointers that link a sequence and end in a stop let a reader find that
   sequence (`AlongIs`, an induction along the chain by `UpTo`).
2. What a shared piece of code does to the links at the place where it works,
   and what that makes of the sequence: an element enters or leaves, a list is
   cut in two or put into another. The rest is left alone, because no two places
   share an element.
3. A call is one or two of these, and the abstract step says the same of the
   sequences.

For `HShape` a node's `pprev` names the pointer that leads to it, the head's for
the first one; for `LShape` the head is the place before the first and behind
the last, so a ring needs no case for its ends. `Linked` also says that an
iteration visits what it has to while its caller deletes or moves the element it
is at. `InPass` and `InWalk` keep what makes that so: the macros read ahead, so
what is behind the element at hand is still the list the iteration began with.
`InWalk` counts from the end of the list, because elements before the one at
hand may have come and gone.

`QInv` adds that the counters of the queue are those of the sequence (`Shape`)
and that the client's messages are not in it. Recursive functions (the walks,
the loops of `bufq_purge` and `bufq_supply`) are used through the fact that a
function with their equations exists, which is proved for each.

Assumed (`HAssumption`, `LAssumption`, `MsgAssumption`): finitely many nodes and
messages, heads are no entries, `NULL` and the poison that `list_del` leaves are
neither, lengths are numbers.

### LibraryProof

**Descriptors.** `EveryDescriptorOwned` (`SocketsOwned`) by `KInv`. The
functions are data, a sequence of calls each, so the proof first says what all
of them have in common (`StepsOf`: where `getprotobyname` and `socket` are in
them, what comes behind and what it leaves open) and then has one case per
action, none per function. `KInv`: a call has a descriptor behind its `socket`
and not before (`InCall`); nobody else has that descriptor (`OwnFd`); an open
one is held, left behind or in use (`Opened`); libc's buffer has the protocol of
the call that is between its two steps, or two lookups have overlapped
(`Looked`).

`BondingLeavesRight` (`BondLeaves`) by `IInv`: a descriptor is open for each
bonding call that runs or returned early (`Descriptors`); a call carries flags
that nobody asked for only once so many are left open that a read may have found
none (`Debugged`); and `Undisturbed` says how far a `bond_enslave` has brought
its slave at each of its steps if no other thread worked on the devices.

Assumed (`SocketAssumption`, `IfAssumption`): descriptors and threads are
finitely many, and addresses and MTUs are numbers.

**The network.** `NothingFalseIsBelieved` (`Believed`, of `Ntp` and `Ping` side
by side) by `NInv` and `GInv`. `OnTheWay` is what keeps the clock right: no
message under way to the client's open socket is older than the call, because a
call has a new port, and none is a cut one, because the server's length test
drops the client's own requests. `Answered` and `Remembered` tie an answer and
an entry of the table to the request that they tell of, and count an entry down
once an answer. `Waiting` says that a test goes on only while it has taken no
late packet, and that a reply in its socket came in after it was opened.

`OnlyTheGenuineIsAccepted` (`Genuine`) by `AInv`: what has a digest is the
octets of the message and those that lay behind it, as many as the secret has
(`SignedBy`), whether anybody copied the secret there or not, and what was
received is as it was sent if and only if it has these octets (`Received`). The
message is built attribute by attribute; that its octets have the length that is
sent is an induction along the attributes, done by a least counterexample, since
the library's induction theorems cannot be used.

Assumed: names and numbers are what they look like (`NtpAssumption`,
`PingAssumption`, `RadiusAssumption`: attributes and secrets are octets). As in
the model, a digest is an injective function of what it covers.

**The cipher.** `DecryptsWhatWasEncrypted`: for any function in place of the
S-boxes, any addition and any exclusive or that undoes itself (`XorAssumption`),
decryption returns every block under every sequence of round keys. `RoundUndone`
is the Feistel step, `TwoRoundsUndone` two of them, and the theorem chains the
eight pairs of the unrolled code. The key schedule and the texts around the
blocks, which do lose what is behind the first block, are model-checked only.

### FilesProof

**The log.** `LogIsKept` (`LogKept`) by `RInv`: every line is in a file,
replaced or lost (`LinesKept`); a file counts with the threads that are about to
write to it (`Sized`); the name is empty only while a call sets it (`Named`);
and as long as calls keep out of each other's way the number that one has chosen
is free or that of the oldest file (`Alone`, `Aimed`). With three threads the
bound on the size of a file turned out to be false: while two start the log
again after midnight, on a file that has lines, a third finds no size and
writes. `RTypeOK` now says `reopened`. Assumed (`LogAssumption`): days and file
numbers are counted from 1.

**The table of interfaces.** `TableTells` (`DevicesTold`) by `TInv`. While a
call reads, it stands behind all that was printed about n devices of the list
and k words about the next one (`Reading`). Between two devices the table is
what was printed so far (`Between`); within one, its last entry is the device's
but for the fields whose words are still to come (`Partly`), and a word fills in
as long as none of the statistics was read (`Within`). An entry stays open
behind its device only if that printed no statistics, and then the next name
that counts begins a new one: hence the exception, `Runs`. What is printed about
a device has one form for all of them (`PrintedIs`), and where it stands in the
file is an induction along the list (`FileParts`).

Assumed (`TableAssumption`): whether a device counts depends on its name.

**Configuration files.** `TextIsKept` (`TextKept`) by `ConfInv`, of three parts.
`WholeInv` says which of the two files has the text at each step of an edit:
until the file is unlinked it has the text of the last finished edit, from then
on the swap file has the new one. The exceptions are the property's own
(`unsafe`): a swap file that a crash left and a later edit emptied, and a link
that failed. That alone gives `NothingIsLost`. `ModInv` says that the new text
is what `modconf` makes of the file as it is, and that it says what was asked
for (`Says`): some line with "=" has the label, and every one that has it has
the value. `ConfTypes` is needed because texts are compared line by line.

What an answer is changed by is a matter of lines: `IsPut` says where a line
goes that is written behind a text, finished or not, `IsModified` what `modconf`
does to the rest; a label's lines stay the same lines unless the new one runs
into them (`OthersAnswered`). `updlabel` is a recursive function of the lines.
`TurnsExist` shows that it exists, `TurnsBefore` that up to the label's first
line it copies, and `TurnsFrom` what becomes of that line, each by induction
along the text.

Assumed (`ConfAssumption`): a missing file is no text and a missing label no
label; the first texts are texts and within the bound. What counts as the same
label to `strupr` may be any relation between labels that comes from a function.

### What is only model-checked

* Liveness: `WokenDrains`, `AheadExpires`, `SilentReported`, `AnswersReported`.
  Fairness and `ENABLED` are beyond TLAPS.
* `Restarted`, whose exceptions are too many for an invariant of a page.
* `RoundTrips` and `Understood`: what encoders and the command parser compute,
  octet by octet and word by word, are inductions over data.

## Findings

* `timer_overdue`: a timer linked behind the scan position, as one armed with a
  stale `_internal_time` or before the first scan, waits for a turn of the
  wheel. (One that is linked ahead of it with a stale `_internal_time` runs
  early.)
* `timer_wakeup`: `pthread_cond_wait` without a predicate loses a signal, and an
  expired timer may wait in the queue for ever.
* `pool_count`: `ippdel` decreases a copy of `nipp`; after `MAXIPP` additions
  and some deletions the loops over `nipp` leave the array.

The models contain, as the code does, the following; the properties above name
them as exceptions where they touch them.

* `timer.c`: `_tsync` computes an entry's new milliseconds from its seconds
  (line 217), so no timer keeps its remaining time over a clock step; a callback
  of more than three seconds looks like such a step.
* `ipp.c`: an exclusion beyond the pool makes the capacity too large, and
  allocation from the full pool never returns; the round-robin position is never
  stored (line 194); a rejected `ippaddn` leaves a list without pools, in which
  a round-robin allocation divides by zero; `ipptotal` and `ippused` start their
  sum again with each list; `ippfree` adds up a field that nothing maintains.
* `shell.c`: a failed fork stores pid -1, and giving up on that entry is
  `kill(-1, SIGKILL)`; a clearing of a crash counter that falls into an
  increment is lost. `bufq.c`: `bufq_tail` returns the head, and `bufq_supply`
  queues two messages of a chain; `bufq.h` describes the counters and
  `bufq_queue` otherwise than they are.
* `conf.c`: `findlabel` and `updlabel` do not find `A=a`; a swap file that a
  crash left blocks `modconf` (line 389) and is emptied by `updlabel` and
  `mkcomment`; a failing link loses the file. `updlabel` leaves its line without
  a newline, and what is written next runs into it (line 290); it compares a
  blank line with the label read before, a first blank line with what the stack
  holds.
* `log.c`: `lprintf` and `logprn` test the level in opposite ways; `initlog` at
  midnight resets the limits of `logset`; two threads may both rename (lines
  176, 180) and replace a kept file; when a directory cannot be made the log is
  silent for the day.
* `ioctl_func.c`: the bonding functions leave their descriptor open on early
  returns, and without a descriptor -1 stands for all flags. `if.c` never tests
  `MAXIF`. `sockv6.c` leaves the sockets of failed calls open, `sendnwait` its
  own.
* `dhcp.c`: the length of an offer and of an acknowledgement is two short;
  selecting and requesting are never repeated and a refusal is not handled; a
  lease below three seconds has T1 = T2. `radius.c`: the vendor attribute is two
  short, `get_sattr` reads past the end of the message, and the authenticator
  needs a buffer that the caller has cleared. `make_radius.c` digests as many
  octets behind the message as the key has (line 51) and copies no key there;
  `test_make_account.c` does it (line 42), and who does not signs what was left.
* `ntp.c`: `sendto` is given `sizeof(ntph_t)` (lines 169, 239), 32 octets of 48,
  so the server answers no client of this library and tells nobody the transmit
  time; an entry that leaves the table is not freed (line 209), one whose poll
  field is 0 counts below zero, and a failed `malloc` is used (line 229).
  `ping.c` sends one request more than asked and does not look at the sequence
  number.
* `encode.c`: base 64 is wrong beyond one line of 64 characters. `seed.c`:
  `SeedEncryptBase64` drops the octets behind the last whole block,
  `SeedDecryptBase64` decrypts the first block only. `imsi.c` copies four octets
  into an `int` and shifts fields out of it, which are the fields only if the
  host is big: of `05:77:1f:13:7b:91:a8`, the example of `test_imsi`, a little
  one prints 199 for 349. It clears a third group of 10 where it means the fifth
  digit.

## Not modelled

Within the components: the timer's start-up race (`cb_thr` is tested without a
lock) and its callback socket; the shared-memory modes of `ipp.c`, which a flag
of a list selects at run time, and its totals; the table of daemons in
`shell.c`, whose processes are no children, and the CPU figures of `pstattask`;
`modconf` by two processes at once; what a command's function does, and the
generator of command tables (`premmc.c`); `make_dhcp.c`, `base64.c` and
`interface.c`, which are copies; EAP and challenge messages of RADIUS;
`pingcheck`, which sends without end; a `recvfrom` of the NTP server that fails,
whose -1 passes the test of the length (line 204) and makes it answer the last
buffer once more; readers of PHY registers that only print.

As a whole, with the reasons in `PROJECT.json`: shared memory and message
queues (`ipc.c`), which are one system call each; time formatting; the
readers of `/proc`, which keep no state that a property could be about;
vendored code (`json-c`), scripts and demonstrations.

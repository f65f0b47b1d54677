----------------------------- MODULE Supervisor ------------------------------
(***************************************************************************)
(* The process supervisor of lib/shell.c, with exeproc of lib/proc.c.      *)
(*                                                                         *)
(* A table of processes is read from a file and every one is started.      *)
(* When a child exits, SIGCHLD runs sigchld, which reaps one child and     *)
(* starts its entry again, unless it has been started MAX_CRZ_CNT times in *)
(* the current second; pstattask clears the counters every second.  The    *)
(* operator takes entries down and up, and quits.                          *)
(*                                                                         *)
(* The handler interrupts the main thread, or runs on the thread of        *)
(* pstattask beside it: a frame is a piece of code that is under way, and  *)
(* main's own frame waits while a handler interrupts it.  A signal that    *)
(* finds one pending is lost.  Killing a child is asynchronous: it exits   *)
(* some time later.  system() is one step: it waits for its shell, whose   *)
(* SIGCHLD stays pending all the same.  crz_cnt += 1 is a load and a store:*)
(* the counters are cleared by a thread that takes no lock, in between too.*)
(*                                                                         *)
(* Bound: nothing happens any more once an entry has been started twice at *)
(* once, or kill(-1, SIGKILL) has been called.                             *)
(***************************************************************************)
EXTENDS Integers, FiniteSets

CONSTANTS
  Entry,       \* indexes of proctab, 0..nproc-1
  Matches,     \* <<i, j>>: pkill with i's name also matches j's
  MaxCrash,    \* MAX_CRZ_CNT (3)
  MaxPid,      \* bound: process ids; when they are used up, fork fails
  MaxCmds      \* bound: commands of the operator

Frame   == {"main", "hmain", "hstat"}
Handler == {"hmain", "hstat"}
Pid     == 1..MaxPid

ASSUME TableAssumption ==
  /\ IsFiniteSet(Entry) /\ Entry # {} /\ Entry = 0..(Cardinality(Entry) - 1)
  /\ Matches \subseteq Entry \X Entry
  /\ \A i \in Entry : <<i, i>> \in Matches
  /\ MaxCrash \in Nat \ {0} /\ MaxPid \in Nat /\ MaxCmds \in Nat

VARIABLES
  run, pid, crz,   \* the entries' run, pid and crz_cnt
  nproc,           \* how many entries of the table can be seen
  child,           \* Pid -> "none", "alive", "dying", "zombie", "gone"
  image,           \* Pid -> the entry whose program it runs
  pending,         \* a SIGCHLD is pending
  ignored,         \* SIGCLD is set to SIG_IGN
  pc,              \* Frame -> what it does next
  op,              \* main's command: "none", "conf", "up", "dn", "quit"
  todo,            \* Frame -> the entries its loop has still to visit
  got,             \* Frame -> the pid that wait3, or fork, has returned
  reg,             \* Frame -> the crz_cnt that it has loaded and will store
  cmds,
  missed,          \* history: an exit that no signal of its own announces
  clash,           \* history: an entry was being started twice at once
  forks,           \* history: the entries' forks since crz_cnt was cleared
  fate             \* "ok"; "all" when kill(-1, SIGKILL) has been called

table  == <<run, pid, crz, nproc>>
kids   == <<child, image, pending>>
frames == <<pc, todo, got, reg>>
hist   == <<missed, clash, forks, fate>>
vars == <<table, kids, ignored, frames, op, cmds, hist>>

-----------------------------------------------------------------------------
Least(S) == CHOOSE i \in S : \A j \in S : i <= j

Beyond == clash \/ fate = "all"

(* main goes on when no handler interrupts it.                             *)
Runs(f) == f = "main" => pc["hmain"] = "idle"
At(f, where) == pc[f] = where /\ Runs(f) /\ ~Beyond
Goto(f, where) == pc' = [pc EXCEPT ![f] = where]
Here(f) == Least(todo[f])

Visible_NotLast == {i \in Entry : i + 1 < nproc}
Visible == {i \in Entry : i < nproc}

(* kill(p, sig) for a pid the table holds: only a child that still runs    *)
(* notices.                                                                *)
Killed(c, p) == IF p \in Pid /\ c[p] = "alive" THEN [c EXCEPT ![p] = "dying"] ELSE c

Starting == {"pkill", "check", "pid", "run", "count"}
Rival(f, i) == \E g \in Frame \ {f} : pc[g] \in Starting /\ Here(g) = i

-----------------------------------------------------------------------------
Init ==
  /\ run = [i \in Entry |-> 0] /\ pid = [i \in Entry |-> 0]
  /\ crz = [i \in Entry |-> 0]
  /\ nproc = 0
  /\ child = [p \in Pid |-> "none"] /\ image = [p \in Pid |-> 0]
  /\ pending = FALSE /\ ignored = FALSE
  /\ pc = [f \in Frame |-> IF f = "main" THEN "read" ELSE "idle"]
  /\ op = "conf"
  /\ todo = [f \in Frame |-> {}] /\ got = [f \in Frame |-> 0]
  /\ reg = [f \in Frame |-> 0] /\ forks = [i \in Entry |-> 0]
  /\ cmds = 0 /\ missed = FALSE /\ clash = FALSE /\ fate = "ok"

-----------------------------------------------------------------------------
(* proc_start(i), in whatever frame calls it.                              *)

(* pkill -9 by name.  The shell's exit leaves a signal, no child to reap.  *)
PKill(f) ==
  /\ At(f, "pkill")
  /\ child' = [p \in Pid |->
                 IF child[p] = "alive" /\ <<Here(f), image[p]>> \in Matches
                 THEN "dying" ELSE child[p]]
  /\ clash' = (clash \/ Rival(f, Here(f)))
  /\ pending' = ~ignored
  /\ Goto(f, "check")
  /\ UNCHANGED <<table, image, ignored, todo, got, reg, op, cmds, missed, forks,
                 fate>>

(* The loop of the caller goes on: with the next entry it has to start, or *)
(* to the end.                                                             *)
Return(f) ==
  LET rest == todo[f] \ {Here(f)}
  IN  /\ todo' = [todo EXCEPT ![f] = rest]
      /\ got' = [got EXCEPT ![f] = 0]
      /\ reg' = [reg EXCEPT ![f] = 0]
      /\ op' = IF f = "main" /\ rest = {} THEN "none" ELSE op
      /\ Goto(f, CASE f \in Handler -> IF rest = {} THEN "rearm" ELSE "pkill"
                   [] f = "main" -> IF rest = {} THEN "idle"
                                    ELSE IF op = "up" THEN "up" ELSE "pkill")

(* Too many starts in this second: the entry is given up.  Where fork has  *)
(* failed before, kill(-1, SIGKILL) ends everything.                       *)
TooMany_OffByOne(i) == crz[i] > MaxCrash
TooMany(i) == crz[i] >= MaxCrash
GiveUp(f) ==
  LET i == Here(f)
  IN  /\ At(f, "check") /\ TooMany(i)
      /\ run' = [run EXCEPT ![i] = 0]
      /\ \/ /\ pid[i] = -1
            /\ child' = [p \in Pid |-> Killed(child, p)[p]]
            /\ fate' = "all"
         \/ /\ pid[i] # -1
            /\ child' = Killed(child, pid[i])
            /\ UNCHANGED fate
      /\ Return(f)
      /\ UNCHANGED <<pid, crz, nproc, image, pending, ignored, cmds,
                     missed, clash, forks>>

(* Else the old child is told to exit and exeproc forks; the new child     *)
(* runs before its pid is stored.                                          *)
Fork(f) ==
  LET i == Here(f)
      told == Killed(child, pid[i])
      free == {p \in Pid : child[p] = "none"}
  IN  /\ At(f, "check") /\ ~TooMany(i)
      /\ \/ /\ free # {}
            /\ child' = [told EXCEPT ![Least(free)] = "alive"]
            /\ image' = [image EXCEPT ![Least(free)] = i]
            /\ got' = [got EXCEPT ![f] = Least(free)]
         \/ /\ free = {}
            /\ child' = told
            /\ got' = [got EXCEPT ![f] = -1]
            /\ UNCHANGED image
      /\ forks' = [forks EXCEPT ![i] = IF free # {} THEN @ + 1 ELSE @]
      /\ Goto(f, "pid")
      /\ UNCHANGED <<table, pending, ignored, todo, reg, op, cmds, missed, clash,
                     fate>>

StorePid(f) ==
  /\ At(f, "pid")
  /\ pid' = [pid EXCEPT ![Here(f)] = got[f]]
  /\ Goto(f, "run")
  /\ UNCHANGED <<run, crz, nproc, kids, ignored, todo, got, reg, op, cmds, hist>>

Running_Forgotten(i) == run
Running(i) == [run EXCEPT ![i] = 1]
StoreRun(f) ==
  /\ At(f, "run")
  /\ run' = Running(Here(f))
  /\ reg' = [reg EXCEPT ![f] = crz[Here(f)]]
  /\ Goto(f, "count")
  /\ UNCHANGED <<pid, crz, nproc, kids, ignored, todo, got, op, cmds, hist>>

Count(f) ==
  /\ At(f, "count")
  /\ crz' = [crz EXCEPT ![Here(f)] = reg[f] + 1]
  /\ Return(f)
  /\ UNCHANGED <<run, pid, nproc, kids, ignored, cmds, hist>>

-----------------------------------------------------------------------------
(* SIGCHLD.                                                                *)

(* A child exits.  With SIGCLD ignored it leaves no zombie and no signal.  *)
Unstored(p) == \E f \in Frame : pc[f] \in {"pid", "run"} /\ got[f] = p
Exit(p) ==
  /\ child[p] \in {"alive", "dying"} /\ ~Beyond
  /\ child' = [child EXCEPT ![p] = IF ignored THEN "gone" ELSE "zombie"]
  /\ image' = [image EXCEPT ![p] = 0]
  /\ pending' = ~ignored
  /\ missed' = \/ missed \/ Unstored(p)
               \/ \E q \in Pid : child[q] = "zombie"
  /\ UNCHANGED <<table, ignored, frames, op, cmds, clash, forks, fate>>

(* The kernel delivers the signal to a thread that is not in the handler,  *)
(* the main thread first.  The handler reaps at most one child.            *)
Deliver(f) ==
  /\ pending /\ ~ignored /\ pc[f] = "idle" /\ ~Beyond
  /\ f = "hstat" => pc["hmain"] # "idle"
  /\ pending' = FALSE
  /\ \/ \E p \in Pid :
          /\ child[p] = "zombie"
          /\ child' = [child EXCEPT ![p] = "gone"]
          /\ got' = [got EXCEPT ![f] = p]
     \/ /\ \A p \in Pid : child[p] # "zombie"
        /\ got' = [got EXCEPT ![f] =
                     IF \E p \in Pid : child[p] \in {"alive", "dying"}
                     THEN 0 ELSE -1]
        /\ UNCHANGED child
  /\ Goto(f, "match")
  /\ UNCHANGED <<table, image, ignored, todo, reg, op, cmds, hist>>

(* The entries that run with the pid that was reaped are started again.    *)
Dead(f) == {i \in Visible : run[i] = 1 /\ pid[i] = got[f] /\ got[f] # 0}
Handle_NoTest(f) == "pkill"
Handle(f) == IF Dead(f) = {} THEN "rearm" ELSE "pkill"
Match(f) ==
  /\ At(f, "match")
  /\ pid' = [i \in Entry |-> IF i \in Dead(f) THEN 0 ELSE pid[i]]
  /\ todo' = [todo EXCEPT ![f] = Dead(f)]
  /\ got' = [got EXCEPT ![f] = 0]
  /\ Goto(f, Handle(f))
  /\ missed' = (missed \/ nproc = 0)
  /\ UNCHANGED <<run, crz, nproc, kids, ignored, reg, op, cmds, clash, forks, fate>>

(* signal(SIGCLD, sigchld) at the end of the handler.                      *)
Rearm(f) ==
  /\ At(f, "rearm")
  /\ ignored' = FALSE
  /\ Goto(f, "idle")
  /\ UNCHANGED <<table, kids, todo, got, reg, op, cmds, hist>>

-----------------------------------------------------------------------------
(* The main thread.                                                        *)

Command(what, where, S) ==
  /\ At("main", "idle") /\ cmds < MaxCmds /\ op = "none"
  /\ cmds' = cmds + 1
  /\ op' = what
  /\ Goto("main", where)
  /\ todo' = [todo EXCEPT !["main"] = S]
  /\ UNCHANGED <<table, kids, ignored, got, reg, hist>>

(* proc_up, proc_dn (proc_stop) of one entry or of all.                    *)
ProcUp == \E S \in {{i} : i \in Visible} \cup {Visible} : Command("up", "up", S)
ProcDn == \E S \in {{i} : i \in Visible} \cup {Visible} : Command("dn", "dn", S)
ProcConf == Command("conf", "read", {})

(* proc_conf reads the table from its first line again, and starts all.    *)
ReadTable ==
  /\ At("main", "read")
  /\ \/ nproc > 0 /\ nproc' = 0 /\ UNCHANGED <<crz, forks, todo, pc>>
     \/ /\ nproc = 0
        /\ nproc' = Cardinality(Entry)
        /\ crz' = [i \in Entry |-> 0]
        /\ forks' = [i \in Entry |-> 0]
        /\ todo' = [todo EXCEPT !["main"] = Entry]
        /\ Goto("main", "pkill")
  /\ UNCHANGED <<run, pid, kids, ignored, got, reg, op, cmds, missed, clash, fate>>

(* run is cleared first, so that the handler leaves the entry alone.       *)
Stop(i) ==
  /\ run' = [run EXCEPT ![i] = 0]
  /\ child' = Killed(child, pid[i])

Up ==
  /\ At("main", "up")
  /\ Stop(Here("main"))
  /\ Goto("main", "pkill")
  /\ UNCHANGED <<pid, crz, nproc, image, pending, ignored, todo, got, reg, op, cmds,
                 hist>>

Dn ==
  /\ At("main", "dn")
  /\ Stop(Here("main"))
  /\ todo' = [todo EXCEPT !["main"] = @ \ {Here("main")}]
  /\ Goto("main", IF todo["main"] = {Here("main")} THEN "idle" ELSE "dn")
  /\ op' = IF todo["main"] = {Here("main")} THEN "none" ELSE op
  /\ UNCHANGED <<pid, crz, nproc, image, pending, ignored, got, reg, cmds, hist>>

(* proc_quit: children are not waited for any more, and all that the table *)
(* says to run are killed.                                                 *)
Quit ==
  /\ At("main", "idle") /\ cmds < MaxCmds /\ op = "none"
  /\ cmds' = cmds + 1
  /\ op' = "quit"
  /\ ignored' = TRUE
  /\ child' = [p \in Pid |->
                 IF /\ child[p] = "alive"
                    /\ \E i \in Visible : run[i] = 1 /\ pid[i] = p
                 THEN "dying" ELSE child[p]]
  /\ pending' = FALSE
  /\ UNCHANGED <<table, image, frames, hist>>

(* get_proc_info clears the counters one by one, once a second, without a  *)
(* lock and whatever the other frames are doing; only a handler on its own *)
(* thread interrupts it.                                                   *)
Second(i) ==
  /\ i \in Visible /\ pc["hstat"] = "idle" /\ ~Beyond
  /\ crz' = [crz EXCEPT ![i] = 0]
  /\ forks' = [forks EXCEPT ![i] = 0]
  /\ UNCHANGED <<run, pid, nproc, kids, ignored, frames, op, cmds, missed, clash, fate>>

-----------------------------------------------------------------------------
Start(f) == PKill(f) \/ GiveUp(f) \/ Fork(f) \/ StorePid(f) \/ StoreRun(f) \/ Count(f)
Sig(f)   == Deliver(f) \/ Match(f) \/ Rearm(f)
Main     == ProcUp \/ ProcDn \/ ProcConf \/ ReadTable \/ Up \/ Dn \/ Quit

Next ==
  \/ \E f \in Frame : Start(f)
  \/ \E f \in Handler : Sig(f)
  \/ \E p \in Pid : Exit(p)
  \/ \E i \in Entry : Second(i)
  \/ Main
  \/ Beyond /\ UNCHANGED vars

Spec == Init /\ [][Next]_vars

-----------------------------------------------------------------------------
Idle == \A f \in Frame : pc[f] = "idle"
Alive == {p \in Pid : child[p] = "alive"}

TypeOK ==
  /\ run \in [Entry -> {0, 1}] /\ pid \in [Entry -> Pid \cup {-1, 0}]
  /\ crz \in [Entry -> Nat] /\ nproc \in Nat
  /\ reg \in [Frame -> Nat] /\ forks \in [Entry -> Nat]
  /\ child \in [Pid -> {"none", "alive", "dying", "zombie", "gone"}]
  /\ image \in [Pid -> Nat] /\ pending \in BOOLEAN /\ ignored \in BOOLEAN
  /\ pc \in [Frame -> Starting \cup {"idle", "match", "rearm", "read", "up", "dn"}]
  /\ op \in {"none", "conf", "up", "dn", "quit"}
  /\ todo \in [Frame -> SUBSET Entry] /\ got \in [Frame -> Pid \cup {-1, 0}]
  /\ \A f \in Frame : pc[f] \in Starting \cup {"up", "dn"} => todo[f] # {}
  /\ cmds \in 0..MaxCmds
  /\ missed \in BOOLEAN /\ clash \in BOOLEAN /\ fate \in {"ok", "all"}

(* As long as no entry is started by the handler while main is starting it:*)
(* two instances of a program never run at once (what runs a second time   *)
(* has been told to exit); between two clearings of its counter no entry is*)
(* forked more often than the crash limit allows, wherever between the test*)
(* and the store of a start the clearing falls; and nobody else's processes*)
(* are killed unless fork has failed.                                      *)
OneInstance ==
  ~clash =>
    /\ \A p, q \in Alive : p # q => image[p] # image[q]
    /\ \A i \in Entry : forks[i] <= MaxCrash
    /\ (\E p \in Pid : child[p] = "none") => fate = "ok"

(* Then the table is true as well: whenever nothing is under way, a child  *)
(* that runs is the one its entry names, and the entry says that it runs.  *)
TableTrue ==
  ~clash /\ Idle =>
    \A p \in Alive : pid[image[p]] = p /\ run[image[p]] = 1

(* When nothing is under way and no signal is to come, every entry that    *)
(* says it runs has a child that does: what died has been started again or *)
(* given up, however handlers, clearings and commands fell between; but for*)
(* a fork that failed, and if each exit had a signal of its own to announce*)
(* it and its pid was in the table by then.                                *)
Restarted ==
  ~Beyond /\ ~missed /\ Idle /\ ~pending /\ op = "none" =>
    \A i \in Entry : run[i] = 1 =>
      pid[i] = -1 \/ (pid[i] \in Pid /\ child[pid[i]] \in {"alive", "dying"})

-----------------------------------------------------------------------------
(* The inductive invariant: what the properties above need besides each    *)
(* other.                                                                  *)

(* Once the table has been read all of it can be seen.                     *)
TableSeen == pc["main"] # "read" => nproc = Cardinality(Entry)

(* A frame that has passed the crash limit has yet to count its start: what*)
(* has been forked is counted, or will be by the frame that starts it.     *)
Passed(f, i) == pc[f] \in {"pid", "run"} /\ Here(f) = i
Counting(f, i) == pc[f] = "count" /\ Here(f) = i
CountedFor(i) ==
  /\ crz[i] <= MaxCrash /\ forks[i] <= MaxCrash
  /\ \A f \in Frame : /\ Passed(f, i) => crz[i] < MaxCrash /\ forks[i] <= crz[i] + 1
                      /\ Counting(f, i) => reg[f] < MaxCrash /\ forks[i] <= reg[f] + 1
  /\ (\A f \in Frame : ~Passed(f, i) /\ ~Counting(f, i)) => forks[i] <= crz[i]
StartsCounted == ~clash => \A i \in Entry : CountedFor(i)

(* Frames start different entries, unless they clash.                      *)
Apart ==
  ~clash => \A f, g \in Frame :
              /\ f # g
              /\ pc[f] \in Starting \ {"pkill"} /\ pc[g] \in Starting \ {"pkill"}
              => Here(f) # Here(g)

(* After pkill nothing runs the program that is going to be started, and   *)
(* after fork only the new child does.                                     *)
Cleared ==
  ~clash => \A f \in Frame, p \in Alive :
              pc[f] \in {"check", "pid"} /\ image[p] = Here(f)
                => pc[f] = "pid" /\ got[f] = p

(* A child that runs is in the table, or a frame is about to put it there. *)
Stored(p) == pid[image[p]] = p /\ run[image[p]] = 1
Storing(f, p) ==
  /\ \/ pc[f] = "pid" /\ got[f] = p
     \/ pc[f] = "run" /\ pid[image[p]] = p
  /\ Here(f) = image[p]
Accounted ==
  ~clash => \A p \in Alive : /\ image[p] \in Entry
                             /\ Stored(p) \/ \E f \in Frame : Storing(f, p)
Single == ~clash => \A p, q \in Alive : p # q => image[p] # image[q]

(* Fork fails only when there are no more process ids.                     *)
ForksSucceed ==
  (\E p \in Pid : child[p] = "none") =>
    /\ fate = "ok" /\ \A i \in Entry : pid[i] # -1
    /\ \A f \in Frame : pc[f] = "pid" => got[f] # -1

(* What the handler looks for in the table has been reaped.                *)
Reaped == \A f \in Frame : pc[f] = "match" /\ got[f] \in Pid => child[got[f]] = "gone"

ChildInv == /\ TypeOK /\ TableSeen /\ StartsCounted /\ Apart /\ Cleared
            /\ Accounted /\ Single /\ ForksSucceed /\ Reaped
=============================================================================

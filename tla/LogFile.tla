------------------------------- MODULE LogFile -------------------------------
(***************************************************************************)
(* The log writer: lib/log.c.                                              *)
(*                                                                         *)
(* Threads share one log_t and lock nothing.  A call passes the level test,*)
(* starts the log again when the day has changed (check_date, initlog,     *)
(* check_path), moves the file away when it has reached its size           *)
(* (check_fsize) and appends its line.  Every point where another thread   *)
(* can change what the call has read is a step.                            *)
(*                                                                         *)
(* A file is the set of its lines and the second of its last one; its size *)
(* is their number.  The name of a day's file is the day; file 0 is the    *)
(* one being written, file i the one renamed to .000i.  Errors go to a file *)
(* of their own, which is not renamed, though they may have the log's file *)
(* renamed.  The mode is MODE_PATH: check_path makes the day's directory,  *)
(* which may fail; errors then go to the file of the day before.           *)
(***************************************************************************)
EXTENDS Naturals, FiniteSets, FiniteSetsExt

CONSTANTS
  Logger, Day, Slot,        \* days and rename numbers are 1..n
  DefSize, DefNum,          \* MID_LOG_SIZE, MAX_FNUM
  MaxLine, MaxTick,         \* bounds: lines, seconds,
  MaxExtra,                 \* and how many errors and settings
  NoFile

NoName == 0                 \* fname is empty

\* Days and rename numbers are counted from 1, limits are above 0, and NoFile
\* is no file.
ASSUME LogAssumption ==
  /\ IsFiniteSet(Logger) /\ IsFiniteSet(Day) /\ IsFiniteSet(Slot)
  /\ Day = 1..Cardinality(Day) /\ 1 \in Day
  /\ Slot = 1..Cardinality(Slot) /\ DefNum \in Slot
  /\ DefSize \in Nat \ {0} /\ MaxLine \in Nat /\ MaxTick \in Nat /\ MaxExtra \in Nat
  /\ NoFile \notin [lines : SUBSET (1..MaxLine), time : 0..MaxTick]

VARIABLES
  today, now,      \* the clock: the day, and seconds since the beginning
  log,             \* _log[idx]: date, fname, err_fname, fsize, fnum, level
  files,           \* Day -> {0} \cup Slot -> lines and time, or NoFile
  errs,            \* Day -> the lines of errors
  pc, target, line,  \* Logger -> next step, day and number to rename to, line
  err,             \* Logger -> whether the line is an error
  said, errors, sets,  \* how many lines, errors and settings so far
  lost,            \* history: lines whose call did not write them
  aged,            \* history: lines of files that a rename replaced
  failed,          \* history: days whose directory could not be made
  raced,           \* history: two calls got in each other's way
  reopened         \* history: the log was started again on a file with lines

clock == <<today, now>>
rcalls == <<pc, target, line, err, said, errors, sets>>
rhist == <<lost, aged, failed, raced, reopened>>
rvars == <<clock, log, files, errs, rcalls, rhist>>

Lines(f) == IF f = NoFile THEN {} ELSE f.lines
All == (UNION {Lines(files[d][i]) : d \in Day, i \in {0} \cup Slot})
         \cup (UNION {errs[d] : d \in Day})
Others(t, steps) == \E u \in Logger \ {t} : pc[u] \in steps
ToLog(t) == err' = [err EXCEPT ![t] = FALSE] /\ UNCHANGED errors
ToErr(t) == /\ errors + sets < MaxExtra /\ errors' = errors + 1
            /\ err' = [err EXCEPT ![t] = TRUE]
Under == {"blank", "name", "size", "rename", "write"}

RInit == /\ today = 1 /\ now = 0
         /\ log = [date |-> 1, fname |-> 1, err_fname |-> 1, fsize |-> DefSize,
                   fnum |-> DefNum, level |-> 1]
         /\ errs = [d \in Day |-> {}]
         /\ files = [d \in Day |-> [i \in {0} \cup Slot |-> NoFile]]
         /\ pc = [t \in Logger |-> "idle"] /\ line = [t \in Logger |-> 0]
         /\ target = [t \in Logger |-> <<1, 0>>] /\ said = 0 /\ sets = 0
         /\ err = [t \in Logger |-> FALSE] /\ errors = 0
         /\ lost = {} /\ aged = {} /\ failed = {} /\ raced = FALSE
         /\ reopened = FALSE

GoesOn(t, step) == /\ pc' = [pc EXCEPT ![t] = step]
                   /\ UNCHANGED <<clock, err, said, errors, sets>>
Returns(t) == /\ pc' = [pc EXCEPT ![t] = "idle"]
              /\ line' = [line EXCEPT ![t] = 0]
              /\ target' = [target EXCEPT ![t] = <<1, 0>>]
              /\ err' = [err EXCEPT ![t] = FALSE]
              /\ UNCHANGED <<clock, said, errors, sets>>

\* The test that every call makes first: check_date.
check_date(t) ==
  /\ pc[t] = "idle" /\ said < MaxLine
  /\ said' = said + 1 /\ line' = [line EXCEPT ![t] = said + 1]
  /\ pc' = [pc EXCEPT ![t] = IF log.date # today THEN "blank" ELSE "size"]
  /\ UNCHANGED <<clock, log, files, errs, target, sets, rhist>>

\* Of the levels lprintf logs those up to the log's, logprn those from it on.
\* For another level nothing happens.
lprintf(t, level) == log.level >= level /\ ToLog(t) /\ check_date(t)
logprn(t, level)  == log.level <= level /\ ToLog(t) /\ check_date(t)
logdump(t) == ToLog(t) /\ check_date(t)

\* The errors.
eprintf(t) == ToErr(t) /\ check_date(t)
errprn(t)  == ToErr(t) /\ check_date(t)

\* initlog, up to check_path: the name is empty and the limits are the
\* default ones again, whatever logset had made them.
Restart(t) == /\ pc[t] = "blank" /\ GoesOn(t, "name")
            /\ log' = [log EXCEPT !.date = today, !.fname = NoName,
                                  !.fsize = DefSize, !.fnum = DefNum]
            /\ raced' = (raced \/ Others(t, Under))
            /\ UNCHANGED <<files, errs, target, line, lost, aged, failed, reopened>>

\* check_path: without its directory the name stays empty for the day.
SetName_NoSprintf(t) ==
  /\ pc[t] = "name" /\ GoesOn(t, "size") /\ UNCHANGED <<log, failed>>
  /\ UNCHANGED <<files, errs, target, line, lost, aged, raced, reopened>>

SetName(t) == /\ pc[t] = "name" /\ GoesOn(t, "size")
           /\ \/ log' = [log EXCEPT !.fname = today, !.err_fname = today]
                 /\ reopened' = (reopened \/ files[today][0] # NoFile)
                 /\ UNCHANGED failed
              \/ failed' = failed \cup {log.date} /\ UNCHANGED <<log, reopened>>
           /\ UNCHANGED <<files, errs, target, line, lost, aged, raced>>

Base == IF log.fname = NoName THEN NoFile ELSE files[log.fname][0]
Nums == 1..log.fnum
Taken == {i \in Nums : files[log.fname][i] # NoFile}
Time(i) == files[log.fname][i].time

\* check_fsize: the first free number, or else that of the oldest file.
Place_Last == IF Taken # Nums THEN Min(Nums \ Taken) ELSE Max(Nums)
Place == IF Taken # Nums THEN Min(Nums \ Taken)
         ELSE CHOOSE i \in Nums : \A j \in Nums \ {i} :
                Time(i) < Time(j) \/ (Time(i) = Time(j) /\ i < j)

Full_AtMost == Base # NoFile /\ Cardinality(Base.lines) > log.fsize + 1
Full == Base # NoFile /\ Cardinality(Base.lines) >= log.fsize

Size(t) == /\ pc[t] = "size"
           /\ IF Full
              THEN /\ GoesOn(t, "rename")
                   /\ target' = [target EXCEPT ![t] = <<log.fname, Place>>]
              ELSE GoesOn(t, "write") /\ UNCHANGED target
           /\ UNCHANGED <<log, files, errs, line, rhist>>

\* rename replaces the file that has the new name; it fails without a file.
Rename(t) ==
  LET d == target[t][1]
      i == target[t][2]
  IN  /\ pc[t] = "rename" /\ GoesOn(t, "write")
      /\ IF Base = NoFile THEN UNCHANGED <<files, aged>>
         ELSE /\ aged' = aged \cup Lines(files[d][i])
              /\ files' = [[files EXCEPT ![d][i] = Base]
                               EXCEPT ![log.fname][0] = NoFile]
      /\ raced' = (raced \/ Others(t, {"rename"}))
      /\ UNCHANGED <<log, errs, target, line, lost, failed, reopened>>

\* fopen with an empty name fails and the call returns 0.
Write_Truncates(t) ==
  /\ pc[t] = "write" /\ ~err[t] /\ Returns(t)
  /\ IF log.fname = NoName THEN lost' = lost \cup {line[t]} /\ UNCHANGED files
     ELSE /\ files' = [files EXCEPT ![log.fname][0] =
                        [lines |-> {line[t]}, time |-> now]]
          /\ UNCHANGED lost
  /\ UNCHANGED <<log, errs, aged, failed, raced, reopened>>

Write(t) ==
  /\ pc[t] = "write" /\ ~err[t] /\ Returns(t)
  /\ IF log.fname = NoName THEN lost' = lost \cup {line[t]} /\ UNCHANGED files
     ELSE /\ files' = [files EXCEPT ![log.fname][0] =
                        [lines |-> Lines(@) \cup {line[t]}, time |-> now]]
          /\ UNCHANGED lost
  /\ UNCHANGED <<log, errs, aged, failed, raced, reopened>>

WriteErr(t) ==
  /\ pc[t] = "write" /\ err[t] /\ Returns(t)
  /\ errs' = [errs EXCEPT ![log.err_fname] = @ \cup {line[t]}]
  /\ UNCHANGED <<log, files, rhist>>

Setting(l) == /\ errors + sets < MaxExtra /\ sets' = sets + 1 /\ log' = l
              /\ raced' = (raced \/ \E t \in Logger : pc[t] \in Under)
              /\ UNCHANGED <<clock, files, errs, pc, target, line, err,
                             said, errors, lost, aged, failed, reopened>>
LogSet(n, s)   == Setting([log EXCEPT !.fnum = n, !.fsize = s])
SetLogLevel(l) == Setting([log EXCEPT !.level = l])

Tick == /\ now < MaxTick /\ now' = now + 1
        /\ UNCHANGED <<today, log, files, errs, rcalls, rhist>>
Midnight == /\ today + 1 \in Day /\ today' = today + 1
            /\ UNCHANGED <<now, log, files, errs, rcalls, rhist>>

RNext == \/ \E t \in Logger :
              \/ \E l \in 1..2 : lprintf(t, l) \/ logprn(t, l)
              \/ logdump(t) \/ eprintf(t) \/ errprn(t)
              \/ Restart(t) \/ SetName(t) \/ Size(t) \/ Rename(t)
              \/ Write(t) \/ WriteErr(t)
         \/ \E n, s \in Slot : LogSet(n, s)
         \/ SetLogLevel(2)
         \/ Tick \/ Midnight

RSpec == RInit /\ [][RNext]_rvars
-----------------------------------------------------------------------------
(* Properties. *)

\* No file outgrows its limit by more than the lines of the threads that had
\* looked at its size before it was reached; unless the log was started again
\* on that file, while whose name was empty more threads found no size.
RTypeOK ==
  /\ today \in Day /\ log.date \in Day /\ log.fname \in {NoName} \cup Day
  /\ pc \in [Logger -> Under \cup {"idle"}]
  /\ err \in [Logger -> BOOLEAN] /\ errors + sets \in 0..MaxExtra
  /\ log.err_fname \in Day
  /\ target \in [Logger -> Day \X ({0} \cup Slot)]
  /\ \A d \in Day, i \in {0} \cup Slot :
       reopened \/ Cardinality(Lines(files[d][i]))
                     < Max({DefSize} \cup Slot) + Cardinality(Logger)

\* A line whose call has returned is in a file, or in one that was replaced,
\* or its call could not open the file.
LinesKept == LET under == {line[t] : t \in {u \in Logger : pc[u] # "idle"}}
             IN  (1..said) \ under \subseteq All \cup aged \cup lost

\* Calls that keep out of each other's way replace a file only when there is
\* one of every number, and then one whose last line is as old as any.
OldestGoes ==
  [][aged' # aged /\ ~raced' =>
       \E i \in Nums :
         /\ Lines(files[log.fname][i]) \subseteq aged'
         /\ \A j \in Nums :
              files[log.fname][j] # NoFile /\ Time(i) <= Time(j)]_rvars

\* A line is lost only on a day whose directory could not be made, or while
\* another call is starting the log again after midnight.
Silent == [][lost' # lost => log.date \in failed
                             \/ \E t \in Logger : pc[t] = "name"]_rvars

\* The log: no line is lost but for a reason, and no file goes too early.
LogKept == [](RTypeOK /\ LinesKept) /\ OldestGoes /\ Silent

-----------------------------------------------------------------------------
(* The inductive invariant.                                                *)

File == [lines : SUBSET (1..MaxLine), time : 0..MaxTick]
Logs == [date : Day, fname : {NoName} \cup Day, err_fname : Day,
         fsize : Slot \cup {DefSize}, fnum : Slot \cup {DefNum}, level : 1..2]
Kinds == /\ today \in Day /\ now \in 0..MaxTick /\ log \in Logs
         /\ files \in [Day -> [{0} \cup Slot -> File \cup {NoFile}]]
         /\ errs \in [Day -> SUBSET (1..MaxLine)]
         /\ pc \in [Logger -> Under \cup {"idle"}]
         /\ line \in [Logger -> 0..MaxLine]
         /\ \A t \in Logger : pc[t] # "idle" => line[t] # 0
         /\ target \in [Logger -> Day \X ({0} \cup Slot)]
         /\ err \in [Logger -> BOOLEAN] /\ said \in 0..MaxLine
         /\ errors \in Nat /\ sets \in Nat /\ errors + sets <= MaxExtra

\* A file that is being written counts with the threads that will write.
Limit == Max({DefSize} \cup Slot)
Writers == {t \in Logger : pc[t] = "write"}
Sized == reopened \/
  \A d \in Day :
    /\ Cardinality(Lines(files[d][0])) + (IF log.fname = d THEN Cardinality(Writers) ELSE 0)
         < Limit + Cardinality(Logger)
    /\ \A i \in Slot : Cardinality(Lines(files[d][i])) < Limit + Cardinality(Logger)

\* The name is empty only while a call is about to set it, or could not.
Named == log.fname = NoName => log.date \in failed \/ \E t \in Logger : pc[t] = "name"

\* As long as calls keep out of each other's way one starts the log again, and
\* the number that a call has chosen is free, or that of the oldest file.
Oldest(i) == \A j \in Nums : files[log.fname][j] # NoFile /\ Time(i) <= Time(j)
Alone == raced \/
  /\ \A t \in Logger : pc[t] = "name" =>
       log.fname = NoName /\ \A u \in Logger : pc[u] = "name" => u = t
  /\ \A t \in Logger : pc[t] = "rename" =>
       /\ log.fname # NoName /\ target[t][1] = log.fname /\ target[t][2] \in Nums
       /\ files[log.fname][target[t][2]] = NoFile \/ Oldest(target[t][2])

Aimed == \A t \in Logger : pc[t] = "rename" => target[t][2] \in Slot

RInv == Kinds /\ LinesKept /\ Sized /\ Named /\ Alone /\ Aimed
=============================================================================

------------------------------ MODULE ConfFile -------------------------------
(***************************************************************************)
(* Configuration files: lib/conf.c.                                        *)
(*                                                                         *)
(* updlabel, mkcomment and modconf write the changed text to path.swap,    *)
(* unlink path, link path.swap to it and unlink path.swap.  One process    *)
(* edits at a time, a step for each change to the directory; it may crash  *)
(* between any two and another call, by anyone, comes after.  While text   *)
(* is being written the stream's buffer is lost by a crash, all or the end *)
(* of it.  The link may fail, which the code prints and nothing else.      *)
(*                                                                         *)
(* A text is a sequence of lines and whether the last one is unfinished.   *)
(* Lines differ in what the functions tell apart:                          *)
(*   "eq"   L=v            "spaced" L = v  # comment                       *)
(*   "words" L v           "note" a comment        "blank"                 *)
(***************************************************************************)
EXTENDS Naturals, Sequences

CONSTANTS
  Label, Val,
  Upper(_),         \* strupr: labels that differ in case only are one
  Gone,             \* no file, no value
  Starts,           \* texts that may be there at the beginning
  MaxLines, MaxEdits, MaxCrashes     \* bounds

Kind == {"eq", "spaced", "words", "note", "blank"}
LineSet == [k : Kind, l : Label \cup {Gone}, v : Val \cup {Gone, "other"}]
Texts == {t \in [lines : Seq(LineSet), open : BOOLEAN] : t.lines = <<>> => ~t.open}

\* No file is another thing than an empty one, and no label is no label.
ASSUME ConfAssumption ==
  /\ Gone \notin Texts /\ Gone \notin Label
  /\ \A t \in Starts : t \in Texts /\ Len(t.lines) <= MaxLines
  /\ {MaxLines, MaxEdits, MaxCrashes} \subseteq Nat

VARIABLES
  path, swap,       \* texts of the two files, or Gone
  do,               \* the call under way: op, step, label, value, new text; and,
                    \* history, runs: its line has run into the one before
  edits, crashes,
  kept,             \* history: the text that the last finished edits made
  unsafe            \* history: the link failed, or a swap file was emptied

cvars == <<path, swap, do, edits, crashes, kept, unsafe>>

ConfLine(k, l, v) == [k |-> k, l |-> l, v |-> v]
Note  == ConfLine("note", Gone, Gone)
BlankLine == ConfLine("blank", Gone, Gone)
Text(lines, open) == [lines |-> lines, open |-> open]
EmptyText == Text(<<>>, FALSE)
NoCall == [op |-> "idle", step |-> "idle", l |-> Gone, v |-> Gone,
           new |-> EmptyText, runs |-> FALSE]

\* Line y where x ends without a newline: x has another value then, unless y or
\* the end of x is a comment.  An "=" of y gives x no label that readconf knows.
RunInto(x, y) == IF x.k = "blank" THEN y
                 ELSE IF y.k \in {"note", "blank"} \/ x.k \in {"note", "spaced"} THEN x
                 ELSE [x EXCEPT !.v = "other"]

\* fprintf of a line to the end of a text, finished by a newline or not.
PutLine(t, line, open) ==
  Text(IF t.open THEN [t.lines EXCEPT ![Len(t.lines)] = RunInto(@, line)]
       ELSE Append(t.lines, line), open)

\* What sscanf "%s" finds first on a line.
FirstWord(x) == IF x.k \in {"spaced", "words"} THEN x.l ELSE Gone
-----------------------------------------------------------------------------
(* Reading. *)

HasEq(x) == x.k \in {"eq", "spaced"}

Earliest(I) == IF I = {} THEN 0 ELSE CHOOSE i \in I : \A j \in I : i <= j

\* readconf: the lines with "=", their labels in capitals.
ReadConf(t) == {i \in DOMAIN t.lines : HasEq(t.lines[i])}

\* getconf: the first of them with the label; getconfdelim takes a field of it.
FirstOf(t, l) == Earliest({i \in ReadConf(t) : Upper(t.lines[i].l) = Upper(l)})
GetConf(t, l) ==
  IF t = Gone \/ FirstOf(t, l) = 0 THEN Gone ELSE t.lines[FirstOf(t, l)].v

\* The lines that begin with a label.
Begun(t, l) == {i \in DOMAIN t.lines : FirstWord(t.lines[i]) = l}
FindLabel(t, l) == t # Gone /\ Begun(t, l) # {}

\* getlabel: the second word of the first of them.
GetLabel(t, l) ==
  LET i == Earliest(Begun(t, l))
  IN  IF t = Gone \/ i = 0 THEN Gone
      ELSE IF t.lines[i].k = "words" THEN t.lines[i].v ELSE "other"
-----------------------------------------------------------------------------
(* Writing: the text that each function makes of the text it reads. *)

\* The last line of a text may be unfinished, and is written as it was read.
Unfinished(t, i) == t.open /\ i = Len(t.lines)

UpdLabel_Finished(t, l, v, left) ==
  Text([i \in DOMAIN t.lines |-> IF FirstWord(t.lines[i]) = l
                                 THEN ConfLine("words", l, v) ELSE t.lines[i]], t.open)

\* updlabel: a blank line is taken for another of the label before it, the first
\* for what the stack has left in arg, and no newline follows the line written.
UpdTurn(t, l, v, i, s) ==
  LET x == t.lines[i]
      arg == IF x.k = "blank" THEN s.arg ELSE FirstWord(x)
  IN  [arg |-> arg,
       out |-> IF arg = l THEN PutLine(s.out, ConfLine("words", l, v), TRUE)
               ELSE PutLine(s.out, x, Unfinished(t, i))]
UpdLabel(t, l, v, left) ==
  LET turn[i \in 0..Len(t.lines)] ==
        IF i = 0 THEN [arg |-> left, out |-> EmptyText]
        ELSE UpdTurn(t, l, v, i, turn[i - 1])
  IN  turn[Len(t.lines)].out

MkComment(t) == Text([i \in DOMAIN t.lines |-> Note], t.open)

Restored_Not(x) == IF x.k = "eq" THEN [x EXCEPT !.k = "words"] ELSE x
\* The line written back when its label is another: "=" is "=" again.
Restored(x) == x

\* modconf: every line of the label, or else a new one at the end.
Mine_EqOnly(t, l) == {i \in DOMAIN t.lines : t.lines[i].k = "eq" /\ t.lines[i].l = l}
Mine(t, l) == {i \in DOMAIN t.lines : t.lines[i].k \in {"eq", "spaced", "words"}
                                      /\ t.lines[i].l = l}
ModConf(t, l, v) ==
  LET new == ConfLine("spaced", l, v)
      out == Text([i \in DOMAIN t.lines |-> IF i \in Mine(t, l) THEN new
                                            ELSE Restored(t.lines[i])],
                  t.open /\ Len(t.lines) \notin Mine(t, l))
  IN  IF Mine(t, l) # {} THEN out ELSE PutLine(out, new, FALSE)
-----------------------------------------------------------------------------
CInit == /\ path \in Starts \cup {Gone} /\ swap = Gone /\ do = NoCall
         /\ edits = 0 /\ crashes = 0 /\ kept = path /\ unsafe = FALSE

Edit == do = NoCall /\ edits < MaxEdits /\ edits' = edits + 1
Fits(t) == Len(t.lines) <= MaxLines

AddLabel(line) ==
  LET t == PutLine(IF path = Gone THEN EmptyText ELSE path, line, FALSE)
  IN  /\ Edit /\ Fits(t) /\ path' = t
      /\ kept' = IF path = kept THEN t ELSE kept
      /\ UNCHANGED <<swap, do, crashes, unsafe>>

\* modconf opens path, or makes it; a swap file in its way ends the call.
ModOpen(l, v) ==
  LET t == IF path = Gone THEN EmptyText ELSE path
  IN  /\ Edit /\ Fits(ModConf(t, l, v)) /\ path' = t
      /\ kept' = IF path = kept THEN t ELSE kept
      /\ do' = [op |-> "mod", step |-> "lock", l |-> l, v |-> v,
                new |-> ModConf(t, l, v), runs |-> t.open /\ Mine(t, l) = {}]
      /\ UNCHANGED <<swap, crashes, unsafe>>

ModLock_Late == /\ do.step = "lock"
                /\ swap' = EmptyText /\ do' = [do EXCEPT !.step = "write"]
                /\ UNCHANGED <<path, edits, crashes, kept, unsafe>>

ModLock == /\ do.step = "lock"
           /\ IF swap # Gone THEN do' = NoCall /\ UNCHANGED swap
              ELSE swap' = EmptyText /\ do' = [do EXCEPT !.step = "write"]
           /\ UNCHANGED <<path, edits, crashes, kept, unsafe>>

\* updlabel (l a label) and mkcomment open the swap file for writing whether
\* it is there or not.
RewriteOpen(op, l, v) ==
  /\ Edit /\ path # Gone
  /\ swap' = EmptyText /\ unsafe' = (unsafe \/ swap # Gone)
  /\ \E left \in {Gone, l} :
       do' = [op |-> op, step |-> "write", l |-> l, v |-> v, runs |-> FALSE,
              new |-> IF op = "upd" THEN UpdLabel(path, l, v, left)
                      ELSE MkComment(path)]
  /\ UNCHANGED <<path, crashes, kept>>

CloseSwap_OnlyChanged ==
         /\ do.step = "write"
         /\ swap' = Text(SubSeq(do.new.lines, 1, 1), FALSE)
         /\ do' = [do EXCEPT !.step = "unlink"]
         /\ UNCHANGED <<path, edits, crashes, kept, unsafe>>

\* fclose: the text is in the swap file.
CloseSwap == /\ do.step = "write"
         /\ swap' = do.new /\ do' = [do EXCEPT !.step = "unlink"]
         /\ UNCHANGED <<path, edits, crashes, kept, unsafe>>

UnlinkPath_Swap ==
              /\ do.step = "unlink"
              /\ swap' = Gone /\ kept' = do.new
              /\ do' = [do EXCEPT !.step = "link"]
              /\ UNCHANGED <<path, edits, crashes, unsafe>>

UnlinkPath == /\ do.step = "unlink"
              /\ path' = Gone /\ kept' = do.new
              /\ do' = [do EXCEPT !.step = "link"]
              /\ UNCHANGED <<swap, edits, crashes, unsafe>>

LinkSwap == /\ do.step = "link"
            /\ \/ path' = swap /\ UNCHANGED unsafe
               \/ path' = Gone /\ unsafe' = TRUE
            /\ do' = [do EXCEPT !.step = "drop"]
            /\ UNCHANGED <<swap, edits, crashes, kept>>

UnlinkSwap == /\ do.step = "drop"
              /\ swap' = Gone
              /\ do' = [do EXCEPT !.step = "idle", !.new = EmptyText]
              /\ UNCHANGED <<path, edits, crashes, kept, unsafe>>

\* The call returns to its caller, who has read nothing yet.
EditReturns == /\ do.step = "idle" /\ do # NoCall /\ do' = NoCall
          /\ UNCHANGED <<path, swap, edits, crashes, kept, unsafe>>

\* The process dies; of text being written a first part may be in the file.
Crash == /\ do.step # "idle" /\ crashes < MaxCrashes
         /\ crashes' = crashes + 1 /\ do' = NoCall
         /\ IF do.step # "write" THEN UNCHANGED swap
            ELSE \E n \in 0..Len(do.new.lines) :
                   swap' = Text(SubSeq(do.new.lines, 1, n), n > 0)
         /\ UNCHANGED <<path, edits, kept, unsafe>>

\* getconf, findlabel, getlabel: the operators of reading above.
ReadOnly == do = NoCall /\ UNCHANGED cvars

CNext == \/ \E l \in Label, v \in Val :
              \/ ModOpen(l, v) \/ RewriteOpen("upd", l, v)
              \/ AddLabel(ConfLine("eq", l, v))
         \/ AddLabel(BlankLine) \/ RewriteOpen("note", Gone, Gone)
         \/ ModLock \/ CloseSwap \/ UnlinkPath \/ LinkSwap \/ UnlinkSwap
         \/ EditReturns \/ Crash \/ ReadOnly

CSpec == CInit /\ [][CNext]_cvars
-----------------------------------------------------------------------------
(* Properties. *)

\* The texts fit the bound, and the swap file is there from its opening to the
\* end of the call.
CTypeOK == /\ path = Gone \/ Fits(path)
           /\ swap = Gone \/ Fits(swap)
           /\ do.step \in {"idle", "lock", "write", "unlink", "link", "drop"}
           /\ edits \in 0..MaxEdits /\ crashes \in 0..MaxCrashes
           /\ unsafe \in BOOLEAN
           /\ do.step \in {"unlink", "link", "drop"} => swap # Gone

\* After any number of crashes the text that the last finished edits made is
\* still in path or whole in path.swap, though a later modconf finds path gone
\* and makes an empty one; unless the link failed, or updlabel or mkcomment
\* emptied a swap file that a crash had left.
NothingLost == unsafe \/ kept \in {path, swap}

\* Whoever opens path at any moment finds no half-written text: the file is
\* gone, empty, or a text that some call finished.
WholeText == unsafe \/ path \in {Gone, EmptyText, kept} \/ swap = kept

\* When modconf has returned, getconf of the label answers the value, whatever
\* forms the label's lines had; a line in another case that stands before them
\* is answered instead, and a new line may have run into an unfinished one.
Done(op) == do.step = "idle" /\ do.op = op /\ path # Gone
ReadsBack == Done("mod") /\ ~do.runs =>
  LET i == FirstOf(path, do.l)
  IN  i # 0 /\ (path.lines[i].l = do.l => GetConf(path, do.l) = do.v)

\* An edit by modconf leaves what getconf answers for every other label, but
\* for that of the unfinished line that a new one runs into.
OthersKept ==
  [][do.op = "mod" /\ do.step = "lock" /\ do'.step = "write" =>
       \A l \in Label :
         \/ Upper(l) = Upper(do.l) \/ GetConf(do.new, l) = GetConf(path, l)
         \/ do.runs /\ Upper(l) = Upper(path.lines[Len(path.lines)].l)]_cvars

\* updlabel finds the label's line and gives it the value, but getlabel answers
\* the value only if that line was the last, or the next one, which runs into
\* it, a comment.  A blank first line may be taken for the label's.
RunsOn ==
  [][do'.op = "upd" /\ do'.step = "write" /\ FindLabel(path, do'.l)
     /\ path.lines[1].k # "blank" =>
       LET i == Earliest(Begun(path, do'.l))
       IN  GetLabel(do'.new, do'.l) =
             IF i = Len(path.lines) \/ path.lines[i + 1].k = "note"
             THEN do'.v ELSE "other"]_cvars

\* What crashes and other calls leave of a configuration file, and what an
\* edit changes of the answers that it gives.
TextKept == [](CTypeOK /\ NothingLost /\ WholeText /\ ReadsBack)
              /\ OthersKept /\ RunsOn

-----------------------------------------------------------------------------
(* The inductive invariant of TextKept: which file has the text at every    *)
(* step of a call, whatever the texts are; and what text modconf has made.  *)
Stages == {"idle", "lock", "write", "unlink", "link", "drop"}
WholeInv ==
  /\ do.step \in Stages
  /\ NothingLost /\ WholeText
  /\ kept = Gone => path = Gone
  /\ do.step = "lock" => path # Gone
  /\ do.step \in {"write", "unlink"} => unsafe \/ kept = path
  /\ do.step \in {"unlink", "link", "drop"} => swap = do.new
  /\ do.step \in {"link", "drop"} => kept = do.new
  /\ do.step = "drop" => unsafe \/ path = kept

Fitting == {t \in Texts : Fits(t)}
ConfTypes ==
  /\ {path, swap} \subseteq {Gone} \cup Fitting
  /\ do \in [op : {"idle", "mod", "upd", "note"}, step : Stages,
             l : Label \cup {Gone}, v : Val \cup {Gone},
             new : Fitting, runs : BOOLEAN]
  /\ edits \in 0..MaxEdits /\ crashes \in 0..MaxCrashes /\ unsafe \in BOOLEAN

\* Some line with "=" has the label, and all that have it have the value.
Says(t, l, v) ==
  LET S == {i \in ReadConf(t) : t.lines[i].l = l}
  IN  S # {} /\ \A i \in S : t.lines[i].v = v

ModInv ==
  /\ do.step = "drop" => path \in {Gone, do.new}
  /\ do.step = "lock" =>
       /\ do.op = "mod"
       /\ do.new = ModConf(path, do.l, do.v)
       /\ do.runs = (path.open /\ Mine(path, do.l) = {})
  /\ do.op = "mod" =>
       /\ do.l \in Label /\ do.v \in Val
       /\ \/ do.runs
          \/ do.step = "idle" /\ (path = Gone \/ Says(path, do.l, do.v))
          \/ do.step # "idle" /\ Says(do.new, do.l, do.v)

ConfInv == ConfTypes /\ WholeInv /\ ModInv
=============================================================================

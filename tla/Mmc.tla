--------------------------------- MODULE Mmc ---------------------------------
(***************************************************************************)
(* The command interpreter: lib/mmc.c and the loop of mmc.c.               *)
(*                                                                         *)
(* The operator types words; <tab> completes the line and <return> runs    *)
(* it.  pparse gives every word a type, expands an abbreviation, and joins *)
(* the words and the letters of the types to a format, which it looks up   *)
(* in the table of commands.  Words and formats are compared by their      *)
(* beginnings and without case: here every letter is small.                *)
(*                                                                         *)
(* The function of a command is not modelled: it is called with the words, *)
(* and the line and the history are not touched until it returns.          *)
(***************************************************************************)
EXTENDS Integers, Sequences, SequencesExt, FiniteSets

CONSTANTS
  Table,        \* the commands: s, depth, cont, f and whether func is set
  Quit,         \* the word quit
  Words,        \* what is typed: w, its letters, and k: "word", "num" or "ip"
  MaxWords,     \* bound: words in a line
  MaxId         \* bound: commands that are run

VARIABLES
  buf,          \* the line: words
  mmcid,        \* number of the last command
  hist,         \* the history, newest first: id, s (words)
  ran,          \* history: what this step ran: idx, or 0, and the line
  exited        \* quit has been run

mvars == <<buf, mmcid, hist, ran, exited>>

Letter(k) == CASE k = "num" -> <<"n">> [] k = "ip" -> <<"i">> [] OTHER -> <<"s">>

Entries(depth) == {i \in DOMAIN Table : Table[i].depth = depth}

\* findlex: the commands that word s may abbreviate behind the format f, which
\* ends with a dash; one that is spelled out ends the search.
LexFound(depth, s, f) == {i \in Entries(depth) : IsPrefix(s, Table[i].s)
                                                 /\ IsPrefix(f, Table[i].f)}
FindLex(depth, s, f) ==
  LET found == LexFound(depth, s, f)
      exact == {i \in found : Table[i].s = s}
  IN  [n |-> IF exact # {} THEN 1 ELSE Cardinality(found),
       s |-> IF exact = {} /\ Cardinality(found) = 1
             THEN Table[CHOOSE i \in found : TRUE].s ELSE s]

\* findmmc: the commands whose format begins with f; the first that is equal
\* ends the search, else idx is the last that was found.
FoundMmc(I, f) ==
  LET found == {i \in I : IsPrefix(f, Table[i].f)}
      exact == {i \in found : Table[i].f = f}
  IN  IF exact # {}
      THEN [n |-> 1, idx |-> CHOOSE i \in exact : \A j \in exact : i <= j]
      ELSE [n |-> Cardinality(found),
            idx |-> CHOOSE i \in found \cup {0} : \A j \in found : i >= j]

FindMmc(depth, f) == FoundMmc(Entries(depth), f)

\* One turn of pparse's loop over the words, all but the first behind a dash.  A
\* word that abbreviates several commands ends the loop; over a number ret keeps
\* the value it had.
Classified(p, word) ==
  LET dashed == IF p.tok = <<>> THEN <<>> ELSE Append(p.f, "-")
      lex == FindLex(Len(p.tok), word.w, dashed)
      with(w, letters, ret) ==
        [tok |-> Append(p.tok, [word EXCEPT !.w = w]), f |-> dashed \o letters,
         ret |-> ret]
  IN  IF p.ret > 1 THEN [p EXCEPT !.tok = Append(@, word)]
      ELSE IF word.k # "word" THEN with(word.w, Letter(word.k), p.ret)
      ELSE IF lex.n = 1 THEN with(lex.s, lex.s, 1)
      ELSE with(word.w, IF lex.n = 0 THEN Letter("word") ELSE word.w, lex.n)

\* pparse up to its switch, and all of mmc_syntax_check: the words with their
\* abbreviations expanded, how many commands match, and the one that does.
Parse(line) ==
  LET p == FoldLeft(Classified, [tok |-> <<>>, f |-> <<>>, ret |-> 0], line)
  IN  IF p.ret > 1 THEN [tok |-> p.tok, ret |-> p.ret, idx |-> 0]
      ELSE LET mmc == FindMmc(Len(line) - 1, p.f)
           IN  [tok |-> p.tok, ret |-> mmc.n, idx |-> mmc.idx]

Complete(p) == p.ret = 1 /\ ~Table[p.idx].cont /\ Table[p.idx].func

NoRun == [idx |-> 0, line |-> <<>>]
-----------------------------------------------------------------------------
MInit == /\ buf = <<>> /\ mmcid = 0 /\ hist = <<>> /\ ran = NoRun
         /\ exited = FALSE

\* mmcgets: a word and a blank, or backspaces over the last word.
Type(word) == /\ ~exited /\ Len(buf) < MaxWords /\ buf' = Append(buf, word)
              /\ ran' = NoRun /\ UNCHANGED <<mmcid, hist, exited>>
Erase == /\ ~exited /\ buf # <<>> /\ buf' = Front(buf)
         /\ ran' = NoRun /\ UNCHANGED <<mmcid, hist, exited>>

\* chkhist: !! stands for the newest line and !n for the line of that number.
HistFind(n) == {i \in DOMAIN hist : hist[i].id = n}
Meant(n) == IF n = 0 THEN {buf}
            ELSE IF buf # <<>> THEN {} ELSE {hist[i].s : i \in HistFind(n)}

\* What is left in the line: all words if one command matched, or else those
\* before the last, even if it was another word that was ambiguous.
Left_DropsLast(p) == IF p.tok = <<>> THEN p.tok ELSE Front(p.tok)
Left(p) == IF p.ret = 1 \/ p.tok = <<>> THEN p.tok ELSE Front(p.tok)

\* <tab> on an empty line lists the commands and on others shows what follows.
Tab == /\ ~exited /\ \E n \in 0..MaxId : \E line \in Meant(n) : buf' = Left(Parse(line))
       /\ ran' = NoRun /\ UNCHANGED <<mmcid, hist, exited>>

\* The commands are numbered from 1, in the history too.
HistAdd_NumberBefore(s) == <<[id |-> mmcid, s |-> s]>> \o hist
HistAdd(s) == <<[id |-> mmcid + 1, s |-> s]>> \o hist

\* The history gets the expanded words; if the last is quit all of it is freed.
Record_AsTyped(line, p) == IF Last(p.tok).w = Quit THEN <<>> ELSE HistAdd(line)
Record(line, p) == IF Last(p.tok).w = Quit THEN <<>> ELSE HistAdd(p.tok)

\* <return>: the command runs, or what is wrong or missing is shown.
RunLine ==
  /\ ~exited /\ buf' = <<>>
  /\ \E n \in 0..MaxId : \E line \in Meant(n) :
       LET p == Parse(line)
       IN  IF line # <<>> /\ Complete(p)
           THEN /\ mmcid < MaxId /\ mmcid' = mmcid + 1
                /\ hist' = Record(line, p)
                /\ ran' = [idx |-> p.idx, line |-> line]
                /\ exited' = (Table[p.idx].s = Quit)
           ELSE ran' = NoRun /\ UNCHANGED <<mmcid, hist, exited>>

\* chksh: a command to the shell takes a number but is not in the history.
Shell == /\ ~exited /\ buf = <<>> /\ mmcid < MaxId
         /\ mmcid' = mmcid + 1 /\ ran' = NoRun /\ UNCHANGED <<buf, hist, exited>>

MNext == (\E word \in Words : Type(word)) \/ Erase \/ Tab \/ RunLine \/ Shell

MSpec == MInit /\ [][MNext]_mvars
-----------------------------------------------------------------------------
(* Properties. *)

\* The history has each number once, from the newest line to the oldest.
MTypeOK == /\ Len(buf) \in 0..MaxWords /\ mmcid \in 0..MaxId
           /\ \A i \in DOMAIN hist : hist[i].id \in 1..mmcid
           /\ \A i, j \in DOMAIN hist : i < j => hist[i].id > hist[j].id

\* A line of the history runs the command that it ran before, whichever
\* abbreviations it was typed with.
Replays == \A i \in DOMAIN hist : LET p == Parse(hist[i].s)
                                  IN  Complete(p) /\ p.tok = hist[i].s

\* The words that were typed may stand for the command that runs, and from
\* whatever else they may stand for one of them that is spelled out tells it
\* apart: nothing runs by guessing.  A word that is no command stands for its
\* letter; the last, for a word of the format that begins with that letter.
WordsOf(f) == FoldLeft(LAMBDA ws, c : IF c = "-" THEN Append(ws, <<>>)
                                      ELSE [ws EXCEPT ![Len(ws)] = Append(@, c)],
                       << <<>> >>, f)
StandsFor(line, i) ==
  LET ws == WordsOf(Table[i].f)
  IN  /\ Len(ws) = Len(line)
      /\ \A j \in DOMAIN ws : \/ ws[j] = Letter(line[j].k)
                              \/ j = Len(ws) /\ IsPrefix(Letter(line[j].k), ws[j])
                              \/ line[j].k = "word" /\ IsPrefix(line[j].w, ws[j])
MeansIt == ran.idx # 0 =>
  /\ StandsFor(ran.line, ran.idx)
  /\ \A i \in DOMAIN Table :
       StandsFor(ran.line, i) /\ i # ran.idx /\ Table[i].func
         => \E j \in DOMAIN ran.line :
              /\ WordsOf(Table[ran.idx].f)[j] = ran.line[j].w
              /\ WordsOf(Table[i].f)[j] # ran.line[j].w

\* <tab> on a line that means one command leaves a line that means the same.
TabKeeps == [][Tab /\ buf # <<>> /\ Parse(buf).ret = 1
               => Parse(buf').ret = 1 /\ Parse(buf').idx = Parse(buf).idx]_mvars
=============================================================================

------------------------------- MODULE IfTable -------------------------------
(***************************************************************************)
(* The table of interfaces: getifs of lib/if.c (Linux).                    *)
(*                                                                         *)
(* getifs lets the command ifconfig -a write a file and reads the file     *)
(* word by word into the global table ifs.  A name of the right form       *)
(* begins an entry, and the words behind it fill the entry in until one of *)
(* the statistics or the interrupt ends it; other words are skipped.       *)
(*                                                                         *)
(* External: the devices, and what ifconfig writes about one of them.  It  *)
(* prints no statistics for an alias (eth0:1), and the interrupt only of a *)
(* device that has one.  The words "up", "running", ... are one word here. *)
(***************************************************************************)
EXTENDS Integers, Sequences, FiniteSets

CONSTANTS
  Asker,        \* the threads that call getifs
  Device,       \* what a device can be: name, known, mac, addr, up, irq, alias
  Nobody,       \* no thread
  MaxDevices,   \* bound: devices in the list
  MaxAsks       \* bound: calls

\* A name counts or not, whichever device has it.
ASSUME TableAssumption ==
  /\ \A d \in Device : {d.known, d.up, d.alias, d.irq} \subseteq BOOLEAN
  /\ \A d, e \in Device : d.name = e.name => d.known = e.known
  /\ Nobody \notin Asker /\ MaxDevices \in Nat /\ MaxAsks \in Nat

VARIABLES
  file,         \* the words of the file and, history, the devices it is about
  ifs,          \* the table
  lock,         \* bufq_ifs_mutex: its owner, or Nobody
  rd,           \* the reader: words left, whether iffs has the bit of a name
  asks,         \* calls so far
  about,        \* history: the devices ifs has been read from, or Nobody
  wild          \* history: this call stored something in front of the table

tvars == <<file, ifs, lock, rd, asks, about, wild>>

Word(k, v) == [k |-> k, v |-> v]

\* Outside: what ifconfig prints about device d.  A device of IPv6 has a line
\* "inet6 addr:", whose address is a word of its own.
Printed(d) ==
  <<Word("name", d.name)>>
    \o (IF d.mac = 0 THEN <<>> ELSE <<Word("HWaddr", d.mac)>>)
    \o (IF d.addr = 0 THEN <<>>
        ELSE <<Word("addr:", d.addr), Word("Mask:", d.addr), Word("addr:", 0)>>)
    \o (IF d.up THEN <<Word("UP", TRUE)>> ELSE <<>>) \o <<Word("MTU:", d.mtu)>>
    \o (IF d.alias THEN <<>> ELSE <<Word("RX", 0), Word("TX", 0)>>)
    \o (IF d.irq THEN <<Word("Interrupt:", 0)>> ELSE <<>>)
\* And about the first n devices of a list.
FileOf(l, n) ==
  LET words[i \in 0..Len(l)] ==
        IF i = 0 THEN <<>> ELSE words[i - 1] \o Printed(l[i])
  IN words[n]

\* getiftok: the kind of a word; a name counts if it begins with eth or bond.
KnownDevice(n) == \E d \in Device : d.name = n /\ d.known
getiftok_NoStats(w) ==
  CASE w.k = "name" -> IF KnownDevice(w.v) THEN "name" ELSE "skip"
    [] w.k = "Interrupt:" -> "clear"
    [] w.k \in {"RX", "TX"} -> "skip"
    [] OTHER -> w.k
getiftok(w) ==
  CASE w.k = "name" -> IF KnownDevice(w.v) THEN "name" ELSE "skip"
    [] w.k \in {"RX", "TX", "Interrupt:"} -> "clear"
    [] OTHER -> w.k

Blank(n) == [name |-> n, mac |-> 0, addr |-> 0, mask |-> 0, up |-> FALSE, mtu |-> 0]
Zeroed == <<>>

TInit == /\ file = [words |-> <<>>, of |-> <<>>] /\ ifs = Zeroed /\ lock = Nobody
         /\ rd = [words |-> <<>>, name |-> FALSE] /\ asks = 0
         /\ about = <<>> /\ wild = FALSE

\* The lock, bzero of the table, and ifconfig -a into the file.  iffs is not
\* initialised: it may have the bit of a name.
Lists == UNION {[1..n -> Device] : n \in 0..MaxDevices}
Ask(t) ==
  /\ lock = Nobody /\ asks < MaxAsks /\ asks' = asks + 1
  /\ lock' = t /\ ifs' = Zeroed /\ about' = Nobody
  /\ \E l \in Lists, garbage \in BOOLEAN :
       /\ \A i, j \in DOMAIN l : i < j => l[i].name # l[j].name
       /\ file' = [words |-> FileOf(l, Len(l)), of |-> l]
       /\ rd' = [words |-> FileOf(l, Len(l)), name |-> garbage]
  /\ wild' = FALSE

\* stat, fopen, malloc or fread fails (an empty file is a failure as well):
\* the lock is released and the table stays empty.
Unlock == lock' = Nobody
AskFails(t) ==
  /\ lock = t /\ rd.words = file.words /\ ifs = Zeroed
  /\ Unlock /\ about' = <<>> /\ UNCHANGED <<file, ifs, rd, asks, wild>>

\* One word.  A word that fills in is stored in the last entry: in front of
\* the table when there is none and iffs has the bit.
FilledIn(e, k, v) == CASE k = "HWaddr" -> [e EXCEPT !.mac = v]
                     [] k = "addr:"  -> IF v = 0 THEN e ELSE [e EXCEPT !.addr = v]
                     [] k = "Mask:"  -> [e EXCEPT !.mask = v]
                     [] k = "UP"     -> [e EXCEPT !.up = TRUE]
                     [] k = "MTU:"   -> [e EXCEPT !.mtu = v]
                     [] OTHER        -> e
Store(w) ==
  LET k == getiftok(w) IN
  IF k = "name"
  THEN /\ ifs' = Append(ifs, Blank(w.v))
       /\ rd' = [words |-> Tail(rd.words), name |-> TRUE]
       /\ UNCHANGED wild
  ELSE /\ rd' = [words |-> Tail(rd.words), name |-> k # "clear" /\ rd.name]
       /\ ifs' = IF rd.name /\ ifs # <<>>
                 THEN [ifs EXCEPT ![Len(ifs)] = FilledIn(@, k, w.v)] ELSE ifs
       /\ wild' = (wild \/ (rd.name /\ ifs = <<>> /\ k \notin {"skip", "clear"}))

Take(t) == /\ lock = t /\ rd.words # <<>> /\ Store(Head(rd.words))
           /\ UNCHANGED <<file, lock, asks, about>>

AskEnds(t) == /\ lock = t /\ rd.words = <<>> /\ file.words # <<>>
              /\ Unlock /\ about' = file.of
              /\ UNCHANGED <<file, ifs, rd, asks, wild>>

TDone == asks = MaxAsks /\ lock = Nobody
TNext == \/ \E t \in Asker : Ask(t) \/ AskFails(t) \/ Take(t) \/ AskEnds(t)
         \/ TDone /\ UNCHANGED tvars
TSpec == TInit /\ [][TNext]_tvars

-----------------------------------------------------------------------------
\* The table has at most an entry for each device, and one thread the lock.
TTypeOK == /\ Len(ifs) <= MaxDevices /\ lock \in Asker \cup {Nobody}
           /\ asks \in 0..MaxAsks /\ rd.name \in BOOLEAN

\* A device whose name does not count follows one that printed nothing to end
\* its entry.
Runs(l) == \E i \in 2..Len(l) :
  ~l[i].known /\ l[i-1].known /\ l[i-1].alias /\ ~l[i-1].irq

\* The table has the devices of the list whose names count, in their order
\* and each with what was printed about it; that is so for every list in
\* which no alias without an interrupt stands before a device to be skipped.
\* And nothing is stored in front of the table unless such a device is first.
Entry(d) == [name |-> d.name, mac |-> d.mac, addr |-> d.addr, mask |-> d.addr,
             up |-> d.up, mtu |-> d.mtu]
\* TableOf: the entries of the first n devices of a list.
TableOf(l, n) ==
  LET told[i \in 0..Len(l)] ==
        IF i = 0 THEN <<>>
        ELSE IF l[i].known THEN Append(told[i - 1], Entry(l[i])) ELSE told[i - 1]
  IN told[n]
Attributed ==
  /\ wild => ~file.of[1].known
  /\ (about # Nobody /\ ~Runs(about) /\ lock = Nobody)
       => ifs = TableOf(about, Len(about))

\* The attributes of a device are its own, whoever else asks meanwhile.
DevicesTold == TTypeOK /\ Attributed

-----------------------------------------------------------------------------
\* The inductive invariant: what the reader has behind it, and what it has
\* made of it.

TableRows ==
  [name : {d.name : d \in Device}, mac : {0} \cup {d.mac : d \in Device},
   addr : {0} \cup {d.addr : d \in Device}, mask : {0} \cup {d.addr : d \in Device},
   up : BOOLEAN, mtu : {0} \cup {d.mtu : d \in Device}]

\* n devices are read: the table is what was printed about them.
Between(l, n) ==
  /\ ifs = TableOf(l, n)
  /\ \/ ~rd.name \/ ifs = <<>>
     \/ n \in DOMAIN l /\ l[n].known /\ l[n].alias /\ ~l[n].irq

\* k words about device d are read: those that its entry lacks are to come.
Ending == {"RX", "TX", "Interrupt:"}
Partly(e, d, k) ==
  LET p == Printed(d)
      Later(x) == \E i \in (k + 1)..Len(p) : p[i].k = x
  IN /\ e.name = d.name /\ (e.mac = d.mac \/ Later("HWaddr"))
     /\ \/ e.addr = d.addr
        \/ d.addr # 0 /\ \E i \in (k + 1)..Len(p) : p[i] = Word("addr:", d.addr)
     /\ (e.mask = d.addr \/ Later("Mask:")) /\ (e.up = d.up \/ Later("UP"))
     /\ (e.mtu = d.mtu \/ Later("MTU:"))
Within(d, table, k) ==
  IF d.known
  THEN /\ \E e \in TableRows : ifs = Append(table, e) /\ Partly(e, d, k)
       /\ rd.name <=> \A i \in 1..k : Printed(d)[i].k \notin Ending
  ELSE ifs = table /\ (~rd.name \/ ifs = <<>>)

Reading ==
  /\ file.of \in Lists /\ file.words = FileOf(file.of, Len(file.of))
  /\ \E n \in 0..Len(file.of), k \in 0..9 :
       LET at == Len(FileOf(file.of, n)) + k IN
       /\ k # 0 => n < Len(file.of) /\ k < Len(Printed(file.of[n + 1]))
       /\ at <= Len(file.words)
       /\ rd.words = SubSeq(file.words, at + 1, Len(file.words))
       /\ Len(ifs) <= n + (IF k = 0 THEN 0 ELSE 1)
       /\ (file.of # <<>> /\ file.of[1].known) => ifs # <<>> \/ n + k = 0
       /\ ~Runs(file.of) =>
            IF k = 0 THEN Between(file.of, n)
            ELSE Within(file.of[n + 1], TableOf(file.of, n), k)

TInv == /\ TTypeOK /\ ifs \in Seq(TableRows) /\ wild \in BOOLEAN
        /\ wild => file.of # <<>> /\ ~file.of[1].known
        /\ lock # Nobody => about = Nobody /\ Reading
        /\ lock = Nobody => Attributed
=============================================================================

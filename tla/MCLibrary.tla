------------------------------ MODULE MCLibrary ------------------------------
(***************************************************************************)
(* The parts of the library that nothing else here calls: the calls of the *)
(* kernel for interfaces and sockets, the DHCP and NTP clients, the NTP     *)
(* server and the ping test, the messages and texts that are encoded, the  *)
(* files that are written and the operator's commands.  A behaviour is one *)
(* of one part, while the others stay in their initial states.             *)
(***************************************************************************)
EXTENDS IfConf, IfTable, Sockets, Dhcp, Radius, Seed, Codec, ConfFile,
        LogFile, Mmc, Probes, TLC

\* Threads are alike, in whichever part they are.
Symmetry == Permutations(Thread)

VARIABLE kind
kernel   == <<ivars, tvars, kvars>>
messages == <<dvars, avars, svars, ovars>>
probes   == <<nvars, gvars>>
operator == <<cvars, rvars, mvars>>
allvars  == <<kernel, messages, probes, operator, kind>>

-----------------------------------------------------------------------------
\* Devices: one without /proc statistics, one that is down, one with an alias,
\* an alias whose device is not there, and the loopback device, the only one
\* without an interrupt.
Dev(nm, k, m, a, u, i, l, t) ==
  [name |-> nm, known |-> k, mac |-> m, addr |-> a, up |-> u, irq |-> i,
   alias |-> l, mtu |-> t]
MCDevice == {Dev("bond0",  TRUE,  3, 0, FALSE, FALSE, FALSE, 2),
             Dev("dummy0", FALSE, 4, 0, FALSE, FALSE, FALSE, 2),
             Dev("eth0",   TRUE,  1, 1, TRUE,  TRUE,  FALSE, 1),
             Dev("eth0:1", TRUE,  1, 2, TRUE,  FALSE, TRUE,  1),
             Dev("lo",     FALSE, 0, 3, TRUE,  FALSE, FALSE, 3)}

\* Octets that look like the options' codes: a pad and an end among them.
MCHost   == <<7, 255, 0>>
MCDomain == <<0, 5, 255, 6>>

\* RADIUS: no attribute; the one that is wanted behind another; twice and the
\* first time empty.  A secret whose octets look like an attribute, and another
\* of its length.
MCAttributes == {<<>>, <<<<2, <<3, 3>>>>, <<1, <<5>>>>>>,
                 <<<<1, <<>>>>, <<1, <<6>>>>>>}
MCSecrets == {<<1, 4, 9>>, <<6, 6, 6>>}

\* SEED on words of eight bits, with any function for its tables.
MCWord == 0..255
Bits == {1, 2, 4, 8, 16, 32, 64, 128}
MCXor(a, b) == SumSet({d \in Bits : (a \div d) % 2 /= (b \div d) % 2})
MCPlus(a, b) == (a + b) % 256
MCMinus(a, b) == (a - b) % 256
MCG(a) == (29 * a + 101) % 256
MCRight(h) == <<(h[1] \div 4 + 64 * h[2]) % 256, (h[2] \div 4 + 64 * h[1]) % 256>>
MCLeft(h) == <<(4 * h[1] + h[2] \div 64) % 256, (4 * h[2] + h[1] \div 64) % 256>>
MCKC(i) == (158 * (i + 1)) % 256
MCUserKey == {<<65, 66, 0, 0>>, <<200, 1, 7, 9>>}
\* Texts of none, one, three and four octets, and of more than a block.
MCText == {<<>>, <<104>>, <<104, 105, 106>>, <<104, 255, 1, 7>>,
           <<1, 2, 3, 4, 5>>, <<9, 8, 7, 6, 5, 4, 3, 2>>,
           <<9, 8, 7, 6, 5, 4, 3, 2, 1>>}
MCJunk == {<<0, 0, 0>>, <<170, 0, 85>>}

\* Texts of up to two lines and a half of base 64; digits of BCD up to all the
\* nibbles; addresses with an empty token, with six, and with a capital.
MCStrings == {[i \in 1..z |-> (37 * i + 200) % 256] : z \in 0..14}
MCNumbers == {<<>>, <<7>>, <<1, 2, 3>>, <<1, 2, 3, 4>>, <<9, 8, 7, 6, 5, 4, 3, 2>>}
MCAddresses ==
  {<<<<1>>, <<10, 11>>, <<>>, <<3>>, <<4, 4>>, <<5>>, <<15, 0>>>>,
   <<<<1>>, <<10, 11>>, <<3>>, <<4, 4>>, <<5>>, <<15, 0>>>>,
   <<<<26, 1>>, <<10, 11>>, <<3>>, <<4, 4>>, <<5>>>>}
MCNumbers10 == {0, 10, 123, 909, 999}

\* "a" and "A" are one label to strupr.  A file as in the documentation; a
\* label in two cases; one with words, its last line finished or not.
MCUpper(l) == IF l = "a" THEN "A" ELSE l
MCStarts == {Text(<<ConfLine("eq", "A", "x")>>, FALSE),
             Text(<<ConfLine("eq", "a", "x"), ConfLine("eq", "A", "y")>>, FALSE)}
            \cup {Text(<<ConfLine("words", "A", "x"), ConfLine("eq", "B", "y")>>, o) :
                    o \in BOOLEAN}

\* Commands like those of mmc.c: words that begin alike, one that is another
\* with a letter more, and one of three words.
Cmd(s, d, f, c) == [s |-> s, depth |-> d, f |-> f, cont |-> c, func |-> ~c]
MCTable == << Cmd(<<"q">>, 0, <<"q">>, FALSE),
              Cmd(<<"s", "h">>, 0, <<"s", "h">>, TRUE),
              Cmd(<<"s", "t">>, 0, <<"s", "t">>, TRUE),
              Cmd(<<"{">>, 1, <<"q", "-", "s">>, FALSE),
              Cmd(<<"c">>, 1, <<"s", "h", "-", "c">>, FALSE),
              Cmd(<<"c", "r">>, 1, <<"s", "h", "-", "c", "r">>, FALSE),
              Cmd(<<"d", "r">>, 1, <<"s", "h", "-", "d", "r">>, FALSE),
              Cmd(<<"i">>, 2, <<"s", "h", "-", "d", "r", "-", "i">>, FALSE) >>
Typed(k, w) == [k |-> k, w |-> w]
MCWords == {Typed("word", w) : w \in {<<"q">>, <<"s">>, <<"s", "h">>,
                                      <<"c">>, <<"d">>}}
             \cup {Typed("ip", <<"2">>)}
MCQuit == <<"q">>

-----------------------------------------------------------------------------
Init == /\ IInit /\ TInit /\ KInit /\ DInit /\ AInit /\ SInit /\ OInit
        /\ CInit /\ RInit /\ MInit /\ NInit /\ GInit
        /\ kind \in {"ifconf", "iftable", "sockets", "dhcp", "radius", "seed",
                     "codec", "conf", "log", "mmc", "ntp", "ping"}
        /\ kind # "conf" => path = Gone
Next == /\ UNCHANGED kind
        /\ \/ /\ UNCHANGED <<messages, probes, operator>>
              /\ \/ kind = "ifconf"  /\ INext /\ UNCHANGED <<tvars, kvars>>
                 \/ kind = "iftable" /\ TNext /\ UNCHANGED <<ivars, kvars>>
                 \/ kind = "sockets" /\ KNext /\ UNCHANGED <<ivars, tvars>>
           \/ /\ UNCHANGED <<kernel, probes, operator>>
              /\ \/ kind = "dhcp"   /\ DNext /\ UNCHANGED <<avars, svars, ovars>>
                 \/ kind = "radius" /\ ANext /\ UNCHANGED <<dvars, svars, ovars>>
                 \/ kind = "seed"   /\ SNext /\ UNCHANGED <<dvars, avars, ovars>>
                 \/ kind = "codec"  /\ ONext /\ UNCHANGED <<dvars, avars, svars>>
           \/ /\ UNCHANGED <<kernel, messages, operator>>
              /\ \/ kind = "ntp"  /\ NNext /\ UNCHANGED gvars
                 \/ kind = "ping" /\ GNext /\ UNCHANGED nvars
           \/ /\ UNCHANGED <<kernel, messages, probes>>
              /\ \/ kind = "conf" /\ CNext /\ UNCHANGED <<rvars, mvars>>
                 \/ kind = "log"  /\ RNext /\ UNCHANGED <<cvars, mvars>>
                 \/ kind = "mmc"  /\ MNext /\ UNCHANGED <<cvars, rvars>>
Spec == Init /\ [][Next]_allvars

-----------------------------------------------------------------------------
(* Properties: those of one part together, where it has several.  BondLeaves *)
(* is in IfConf, DevicesTold in IfTable, SocketsOwned in Sockets, Believed *)
(* in Probes, TextKept in ConfFile and LogKept in LogFile.                 *)

\* What one side encodes the other reads: DHCP options, and the client keeps its
\* address for no longer than the lease that it has read; RADIUS attributes,
\* encrypted texts, base 64, BCD, hardware addresses and subscriber numbers.
RoundTrips == CASE kind = "dhcp"   -> DTypeOK /\ OptionsRead /\ LeaseInTime
                [] kind = "radius" -> ATypeOK /\ RadiusRead
                [] kind = "seed"   -> STypeOK /\ SeedReturns
                [] kind = "codec"  -> CodecReturns
                [] OTHER -> TRUE

\* The operator's line: what it runs, what <tab> makes of it, and what a line
\* of the history runs.
Understood == [](kind = "mmc" => MTypeOK /\ Replays /\ MeansIt) /\ TabKeeps
=============================================================================

-------------------------------- MODULE IfConf --------------------------------
(***************************************************************************)
(* Network interfaces: lib/ioctl_func.c and its callers in lib/if.c.       *)
(*                                                                         *)
(* A function opens a socket, asks the kernel one thing and closes the     *)
(* socket; it is one step here, and o says how it went: "nosock" (no       *)
(* descriptor was left), "refused" (the ioctl failed) or "ok".  ifup,      *)
(* ifdown and the bonding functions make several such calls, and those of  *)
(* two threads interleave.  A getter cannot report an error: without a     *)
(* socket its value is -1, as flags every flag at once.                    *)
(*                                                                         *)
(* The kernel is external: a table of devices by name, of which it grants  *)
(* or refuses the changes, routes, the ARP table and PHY registers.        *)
(***************************************************************************)
EXTENDS Integers, FiniteSets

CONSTANTS
  Thread,       \* the callers
  Master,       \* the name of the bonding device
  Slave,        \* names of devices that can be slaves
  Spare,        \* a name that no device has at first
  IfValue,      \* what an address, a mask or an MTU can be, beside 0
  MaxFd,        \* descriptors the process may open
  MaxCalls,     \* bound: calls that the program makes, but for the
                \* first of bonding that leaves a descriptor open
  MaxSimple     \* bound: those of one step

\* The threads are some, the values numbers; -1 and 0 tell of a failure.
ASSUME IfAssumption ==
  IsFiniteSet(Thread) /\ IfValue \subseteq Nat /\ MaxFd \in Nat

VARIABLES
  dev,          \* the kernel's devices, by name
  route, arp,   \* the kernel's tables: destinations, and address to hardware
  mii,          \* the PHY register
  fds,          \* descriptors that are open between two steps
  call,         \* the call of each thread that is under way
  ret,          \* what the last step returned, if it was a read
  calls, simple, \* calls of several steps and of one made so far
  early         \* history: bonding calls that returned behind their socket

ivars == <<dev, route, arp, mii, fds, call, ret, calls, simple, early>>

Name == {Master, Spare} \cup Slave
Flags == {"UP", "PROMISC", "SLAVE", "DEBUG"}
Settable == {"UP", "PROMISC", "DEBUG"}
Outcome == {"nosock", "refused", "ok"}
Values == IfValue \cup {0}

Idle == [at |-> "idle"]

IInit ==
  /\ dev = [n \in {Master} \cup Slave |->
             [flags |-> {"PROMISC"}, addr |-> 1, dstaddr |-> 0, brdaddr |-> 0,
              netmask |-> 0, mtu |-> IF n = Master THEN 1 ELSE 0,
              hwaddr |-> IF n = Master THEN 0 ELSE 1, hwbroadcast |-> 0,
              txqlen |-> 0, master |-> "none", index |-> n]]
  /\ route = {} /\ arp = [v \in IfValue |-> 0] /\ mii = 0
  /\ fds = 0 /\ call = [t \in Thread |-> Idle] /\ ret = 0 /\ calls = 0
  /\ simple = 0 /\ early = 0

-----------------------------------------------------------------------------
\* The kernel.  A socket is refused when the process has no descriptor left,
\* where each of the other threads may hold one for the time of a call.
May(o, granted) ==
  \/ o = "nosock" /\ fds + Cardinality(Thread) - 1 >= MaxFd
  \/ o \in {"refused", "ok"} /\ fds < MaxFd /\ (o = "ok" => granted)

Known(n) == n \in DOMAIN dev

Asked(o, n, f) == CASE o = "nosock"  -> -1
                    [] o = "refused" -> 0
                    [] OTHER         -> dev[n][f]

Told(o) == IF o = "ok" THEN 0 ELSE -1

Put(o, n, f, v) ==
  /\ May(o, Known(n) /\ v \in Values)
  /\ dev' = IF o = "ok" THEN [dev EXCEPT ![n][f] = v] ELSE dev

SetFlags(o, n, fl) ==
  /\ May(o, Known(n))
  /\ dev' = IF o = "ok"
            THEN [dev EXCEPT ![n].flags = (fl \cap Settable) \cup (@ \ Settable)]
            ELSE dev

-----------------------------------------------------------------------------
\* The functions that ask the kernel one thing.

Get(o, n) == May(o, Known(n)) /\ UNCHANGED dev

sioc_gifflags(o, n) == CASE o = "nosock"  -> Flags
                         [] o = "refused" -> {}
                         [] OTHER         -> dev[n].flags
sioc_sifflags(o, n, fl)   == SetFlags(o, n, fl)
sioc_gifaddr(o, n)        == Asked(o, n, "addr")
sioc_sifaddr(o, n, v)     == Put(o, n, "addr", v)
sioc_gifdstaddr(o, n)     == Asked(o, n, "dstaddr")
sioc_sifdstaddr(o, n, v)  == Put(o, n, "dstaddr", v)
sioc_gifbrdaddr(o, n)     == Asked(o, n, "brdaddr")
sioc_sifbrdaddr(o, n, v)  == Put(o, n, "brdaddr", v)
sioc_gifnetmask(o, n)     == Asked(o, n, "netmask")
sioc_sifnetmask(o, n, v)  == Put(o, n, "netmask", v)
sioc_gifmtu(o, n)         == Asked(o, n, "mtu")
sioc_sifmtu(o, n, v)      == Put(o, n, "mtu", v)
sioc_giftxqlen(o, n)      == Asked(o, n, "txqlen")
sioc_siftxqlen(o, n, v)   == Put(o, n, "txqlen", v)
sioc_sifhwaddr(o, n, v)   == Put(o, n, "hwaddr", v)
sioc_sifhwbroadcast(o, n, v) == Put(o, n, "hwbroadcast", v)

\* These two report the error; the buffer is zeroed when the ioctl failed.
sioc_gifhwaddr(o, n) == [ret |-> Told(o), addr |-> Asked(o, n, "hwaddr")]
sioc_garp(o, v) == [ret |-> Told(o), addr |-> IF o = "ok" THEN arp[v] ELSE 0]

sioc_gifindex(o, n) == IF o = "nosock" THEN -1
                       ELSE IF o = "refused" THEN 0 ELSE dev[n].index
sioc_gifname(o, i) == IF o = "ok" THEN CHOOSE n \in DOMAIN dev : dev[n].index = i
                      ELSE -1
sioc_gifconf(o) == Told(o)

\* Only a device that is down can be renamed.
sioc_sifname(o, n, new) ==
  /\ May(o, Known(n) /\ ~Known(new) /\ "UP" \notin dev[n].flags)
  /\ dev' = IF o = "ok"
            THEN [x \in (DOMAIN dev \ {n}) \cup {new} |->
                    IF x = new THEN dev[n] ELSE dev[x]]
            ELSE dev

sioc_addrt(o, v) == /\ May(o, v \notin route)
                    /\ route' = IF o = "ok" THEN route \cup {v} ELSE route
sioc_delrt(o, v) == /\ May(o, v \in route)
                    /\ route' = IF o = "ok" THEN route \ {v} ELSE route
sioc_sarp(o, v, hw) == /\ May(o, TRUE)
                       /\ arp' = IF o = "ok" THEN [arp EXCEPT ![v] = hw] ELSE arp
sioc_darp(o, v) == /\ May(o, arp[v] # 0)
                   /\ arp' = IF o = "ok" THEN [arp EXCEPT ![v] = 0] ELSE arp
sioc_gmiiphy(o) == Told(o)
sioc_gmiireg(o) == IF o = "ok" THEN mii ELSE Told(o)
sioc_smiireg(o, v) == /\ May(o, TRUE)
                      /\ mii' = IF o = "ok" THEN v ELSE mii
sioc_ethtool(o) == Told(o)
sioc_devprivate(o) == Told(o)

\* lib/if.c: some call those functions, some repeat them and then tell a
\* failure, by a 0 or by a -1.
getmac(o, n)     == sioc_gifhwaddr(o, n).addr
getip(o, n)      == sioc_gifaddr(o, n)
getmtu(o, n)     == sioc_gifmtu(o, n)
setmtu(o, n, v)  == sioc_sifmtu(o, n, v)
getifflags(o, n) == IF o = "ok" THEN dev[n].flags ELSE {}
getifindex(o, n) == IF o = "ok" THEN dev[n].index ELSE -1
getifspeed(o, speed) == IF o = "ok" THEN speed ELSE 0
getifmode(o, duplex) == IF o = "ok" THEN duplex + 1 ELSE 0
getifstat(o, link)   == IF o = "ok" THEN link ELSE 0

-----------------------------------------------------------------------------
\* The program calls one of them.

\* The call of t is c from here on.  call[t].quiet: no other thread changed a
\* device since the call began (history).

Goes(t, c) == call' = [u \in Thread |->
  IF u = t THEN c
  ELSE IF call[u] # Idle /\ dev' # dev THEN [call[u] EXCEPT !.quiet = FALSE]
  ELSE call[u]]
At(t, where) == call[t].at = where
Next2(t, where) == Goes(t, [call[t] EXCEPT !.at = where])

Ends(t) == Goes(t, Idle) /\ ret' = 0

\* The bound MaxCalls leaves out the first call that left a descriptor open.
CallsLeft == MaxCalls + (IF early > 0 THEN 1 ELSE 0) - (calls + simple)
Simple == /\ simple < MaxSimple /\ CallsLeft > 0 /\ simple' = simple + 1
          /\ UNCHANGED <<fds, early, calls>>
Called == CallsLeft > 0 /\ calls' = calls + 1

Read(t) ==
  /\ call[t] = Idle /\ Simple /\ UNCHANGED <<dev, route, arp, mii, call>>
  /\ \E o \in Outcome, n \in Name, v \in IfValue, x \in 0..1 :
       /\ May(o, Known(n))
       /\ \/ ret' \in {sioc_gifaddr(o, n), sioc_gifdstaddr(o, n), getip(o, n),
                       sioc_gifbrdaddr(o, n), sioc_gifnetmask(o, n),
                       sioc_giftxqlen(o, n), getmtu(o, n), getmac(o, n),
                       sioc_gifhwaddr(o, n).ret, sioc_garp(o, v).addr,
                       sioc_gifconf(o), sioc_ethtool(o), sioc_devprivate(o),
                       sioc_gmiiphy(o), sioc_gmiireg(o), getifspeed(o, x),
                       getifmode(o, x), getifstat(o, x)}
          \/ ret' = getifflags(o, n)
          \/ ret' \in {sioc_gifindex(o, n), getifindex(o, n)}
          \/ Known(n) /\ ret' = sioc_gifname(o, dev[n].index)

Change(t) ==
  /\ call[t] = Idle /\ Simple /\ UNCHANGED <<route, arp, mii>>
  /\ \E o \in Outcome, n \in Name, v \in Values :
       /\ \/ sioc_sifaddr(o, n, v) \/ sioc_sifdstaddr(o, n, v)
          \/ sioc_sifbrdaddr(o, n, v) \/ sioc_sifnetmask(o, n, v)
          \/ setmtu(o, n, v) \/ sioc_siftxqlen(o, n, v)
          \/ sioc_sifhwaddr(o, n, v) \/ sioc_sifhwbroadcast(o, n, v)
          \/ sioc_sifname(o, n, Spare)
       /\ Ends(t)

ChangeTables(t) ==
  /\ call[t] = Idle /\ Simple /\ UNCHANGED <<dev, call>>
  /\ \E o \in Outcome, v \in IfValue :
       /\ ret' = 0
       /\ \/ UNCHANGED <<arp, mii>> /\ (sioc_addrt(o, v) \/ sioc_delrt(o, v))
          \/ UNCHANGED <<route, mii>> /\ (sioc_sarp(o, v, 1) \/ sioc_darp(o, v))
          \/ UNCHANGED <<route, arp>> /\ sioc_smiireg(o, v)

-----------------------------------------------------------------------------
\* The calls of several steps.

Other == UNCHANGED <<route, arp, mii, simple>>

\* ifup and ifdown read the flags, without a test, and write them back.
IfBegin(t) ==
  /\ call[t] = Idle /\ Called /\ Other /\ ret' = 0 /\ UNCHANGED <<fds, early>>
  /\ \E o \in Outcome, n \in Name, up \in BOOLEAN, v \in Values :
       /\ Get(o, n)
       /\ Goes(t, [at |-> IF up /\ v # 0 THEN "addr" ELSE "set", dev |-> n,
                   flags |-> sioc_gifflags(o, n), up |-> up, v |-> v,
                   quiet |-> TRUE])

\* The address, the mask and the broadcast address, each if it is given;
\* failures are not looked at.
IfAddr(t) ==
  /\ \E o \in Outcome :
       \/ /\ At(t, "addr") /\ sioc_sifaddr(o, call[t].dev, call[t].v)
          /\ Next2(t, "mask")
       \/ /\ At(t, "mask") /\ sioc_sifnetmask(o, call[t].dev, call[t].v)
          /\ Next2(t, "bcast")
       \/ /\ At(t, "bcast") /\ sioc_sifbrdaddr(o, call[t].dev, call[t].v)
          /\ Next2(t, "set")
  /\ Other /\ ret' = 0 /\ UNCHANGED <<fds, early, calls>>

ifup(o, n, fl)   == sioc_sifflags(o, n, fl \cup {"UP"})
ifdown(o, n, fl) == sioc_sifflags(o, n, fl \ {"UP"})
IfSet(t) ==
  /\ At(t, "set")
  /\ \E o \in Outcome : LET c == call[t] IN
       /\ IF c.up THEN ifup(o, c.dev, c.flags) ELSE ifdown(o, c.dev, c.flags)
       /\ Ends(t)
  /\ Other /\ UNCHANGED <<fds, early, calls>>

-----------------------------------------------------------------------------
\* The bonding functions keep a socket of their own for the last request.

\* socket(), and the flags of the slave; a device that is, or is not, a slave
\* already is refused, and the socket is left open.
Refuses(op, fl) == IF op = "enslave" THEN "SLAVE" \in fl ELSE "SLAVE" \notin fl
BondBegin(t) ==
  /\ call[t] = Idle /\ Called /\ Other /\ UNCHANGED dev
  /\ \E op \in {"enslave", "release", "active", "sethw"}, s \in Slave \cup {Spare} :
       \/ /\ fds + Cardinality(Thread) - 1 >= MaxFd
          /\ Ends(t) /\ UNCHANGED <<fds, early>>
       \/ /\ fds < MaxFd /\ fds' = fds + 1 /\ ret' = 0 /\ UNCHANGED early
          /\ Goes(t, [at |-> IF op = "sethw" THEN "join" ELSE "flags", op |-> op,
                      slave |-> s, flags |-> {}, mtu |-> 0, hw |-> 0,
                      quiet |-> TRUE])

BondFlags(t) ==
  /\ At(t, "flags") /\ Other /\ UNCHANGED <<calls, fds>>
  /\ \E o \in Outcome : LET c == call[t]
                            fl == sioc_gifflags(o, c.slave) IN
       /\ Get(o, c.slave)
       /\ IF Refuses(c.op, fl) THEN Ends(t) /\ early' = early + 1
          ELSE /\ Goes(t, [c EXCEPT !.flags = fl,
                                    !.at = IF c.op = "enslave" THEN "down" ELSE "join"])
               /\ ret' = 0 /\ UNCHANGED early

\* A step of bondenslave: what failed ends the call, and the socket of the
\* call stays open.
Or_NoTest(t, o, c) == Goes(t, c) /\ ret' = 0 /\ UNCHANGED early
Or(t, o, c) == IF o = "ok" THEN Goes(t, c) /\ ret' = 0 /\ UNCHANGED early
               ELSE Ends(t) /\ early' = early + 1

\* The slave is taken down, which may fail, and loses its address.
TakeDown(t, o) ==
  \/ /\ At(t, "down") /\ sioc_sifflags(o, call[t].slave, call[t].flags \ {"UP"})
     /\ Next2(t, "addr0") /\ ret' = 0 /\ UNCHANGED early
  \/ /\ At(t, "addr0") /\ sioc_sifaddr(o, call[t].slave, 0)
     /\ Or(t, o, [call[t] EXCEPT !.at = "gmtu"])

\* It gets the MTU of the master.
TakeMtu(t, o) ==
  \/ /\ At(t, "gmtu") /\ Get(o, Master)
     /\ Goes(t, [call[t] EXCEPT !.at = "smtu", !.mtu = sioc_gifmtu(o, Master)])
     /\ ret' = 0 /\ UNCHANGED early
  \/ /\ At(t, "smtu") /\ sioc_sifmtu(o, call[t].slave, call[t].mtu)
     /\ Or(t, o, [call[t] EXCEPT !.at = "mhw"])

\* A master without a hardware address gets that of the slave.
GiveAddress(t, o) ==
  \/ /\ At(t, "mhw") /\ Get(o, Master)
     /\ Or(t, o, [call[t] EXCEPT !.at = IF sioc_gifhwaddr(o, Master).addr = 0
                                        THEN "ghw" ELSE "join"])
  \/ /\ At(t, "ghw") /\ Get(o, call[t].slave)
     /\ Or(t, o, [call[t] EXCEPT !.at = "shw",
                                 !.hw = sioc_gifhwaddr(o, call[t].slave).addr])
  \/ /\ At(t, "shw") /\ sioc_sifhwaddr(o, Master, call[t].hw)
     /\ Or(t, o, [call[t] EXCEPT !.at = "join"])

sioc_bondenslave(t) ==
  /\ \E o \in Outcome : TakeDown(t, o) \/ TakeMtu(t, o) \/ GiveAddress(t, o)
  /\ Other /\ UNCHANGED <<calls, fds>>

\* The last request, which is repeated in its old form when it failed, and
\* close().  The kernel brings a slave up, and a released device down.
Joined(op, s) ==
  CASE op = "enslave" ->
         [dev EXCEPT ![s].flags = @ \cup {"SLAVE", "UP"}, ![s].master = Master]
    [] op = "release" ->
         [dev EXCEPT ![s].flags = @ \ {"SLAVE", "UP"}, ![s].master = "none"]
    [] op = "sethw" -> [dev EXCEPT ![s].hwaddr = dev[Master].hwaddr]
    [] OTHER -> dev
Close_OnError == fds' = IF dev' = dev THEN fds - 1 ELSE fds
Close == fds' = fds - 1
BondJoin(t) ==
  /\ At(t, "join")
  /\ LET c == call[t] IN
       \/ /\ Known(c.slave) /\ Known(Master)
          /\ c.op # "sethw" => ~Refuses(c.op, dev[c.slave].flags)
          /\ dev' = Joined(c.op, c.slave) /\ Ends(t)
       \/ UNCHANGED dev /\ Ends(t)
  /\ Close /\ Other /\ UNCHANGED <<calls, early>>

IDone == CallsLeft = 0 /\ \A t \in Thread : call[t] = Idle

INext == \/ \E t \in Thread : \/ Read(t) \/ Change(t) \/ ChangeTables(t)
                              \/ IfBegin(t) \/ IfAddr(t) \/ IfSet(t)
                              \/ BondBegin(t) \/ BondFlags(t)
                              \/ sioc_bondenslave(t) \/ BondJoin(t)
         \/ IDone /\ UNCHANGED ivars
-----------------------------------------------------------------------------
\* Every device has its fields, and the open descriptors are those of the
\* bonding calls that run and of those that returned behind their socket.
ITypeOK ==
  /\ \A n \in DOMAIN dev : n \in Name /\ dev[n].flags \subseteq Flags
  /\ fds \in 0..MaxFd
  /\ fds = early + Cardinality({t \in Thread :
                                 call[t] # Idle /\ "op" \in DOMAIN call[t]})

\* No caller sets DEBUG and no device has it.  It is set, with every other
\* flag, by an ifup or ifdown that found no descriptor for its read; and that
\* needs bonding calls that returned early and kept theirs.
FlagsTrue ==
  (\E n \in DOMAIN dev : "DEBUG" \in dev[n].flags)
    => early >= MaxFd - 2 * (Cardinality(Thread) - 1)

\* A slave that was enslaved has no address and, when the MTU of the master
\* could be read, that MTU, and the master has a hardware address: whatever
\* failed on the way, if no other thread worked on the devices.
Enslaved ==
  [][\A t \in Thread :
       LET c == call[t] IN
       (At(t, "join") /\ c.op = "enslave" /\ c.quiet /\ dev' # dev
          /\ call'[t] = Idle)
         => /\ dev'[c.slave].addr = 0
            /\ c.mtu # 0 => dev'[c.slave].mtu = dev'[Master].mtu
            /\ c.hw # 0 => dev'[Master].hwaddr = c.hw]_ivars

\* What the calls of the bonding functions leave behind: no device gets flags
\* that nobody asked for as long as there are descriptors, and what was
\* enslaved has the MTU of the others and no address.
BondLeaves == [](ITypeOK /\ FlagsTrue) /\ Enslaved

-----------------------------------------------------------------------------
(* The inductive invariant.                                                *)

Fields == [flags : SUBSET Flags, addr : Nat, dstaddr : Nat, brdaddr : Nat,
           netmask : Nat, mtu : Nat, hwaddr : Nat, hwbroadcast : Nat,
           txqlen : Nat, master : Name \cup {"none"}, index : Name]
Devices == dev \in [DOMAIN dev -> Fields] /\ DOMAIN dev \subseteq Name

\* A call is one of ifup and ifdown or one of bonding, at one of its steps.
IfAt == {"addr", "mask", "bcast", "set"}
IfCalls == [at : IfAt, dev : Name, flags : SUBSET Flags, up : BOOLEAN,
            v : Values, quiet : BOOLEAN]
BeforeAddr == {"flags", "down", "addr0"}
BeforeMtu  == {"gmtu", "smtu"}
BeforeHw   == {"mhw", "ghw", "shw"}
BondCalls == [at : BeforeAddr \cup BeforeMtu \cup BeforeHw \cup {"join"},
              op : {"enslave", "release", "active", "sethw"},
              slave : Slave \cup {Spare}, flags : SUBSET Flags,
              mtu : Nat \cup {-1}, hw : Nat, quiet : BOOLEAN]
UnderWay == call \in [Thread -> {Idle} \cup IfCalls \cup BondCalls]

\* A descriptor is open for each bonding call that runs or returned early.
Bonding == {t \in Thread : call[t] # Idle /\ "op" \in DOMAIN call[t]}
Descriptors == /\ early \in Nat /\ fds = early + Cardinality(Bonding)
               /\ fds <= MaxFd

\* Only with that many left open does a call hold DEBUG to write it back.
Leaked == early >= MaxFd - 2 * (Cardinality(Thread) - 1)
Debugged == \/ Leaked
            \/ /\ \A n \in DOMAIN dev : "DEBUG" \notin dev[n].flags
               /\ \A t \in Thread : call[t] # Idle =>
                    "DEBUG" \notin call[t].flags \/ At(t, "flags") \/ At(t, "join")

\* How far an undisturbed call has brought its slave, and the master, in the
\* kernel's table d.
Brought(d, c) ==
  /\ c.at \in BeforeMtu \cup BeforeHw \cup {"join"} =>
       c.slave \in DOMAIN d /\ d[c.slave].addr = 0
  /\ c.at = "smtu" /\ c.mtu \notin {-1, 0} =>
       Master \in DOMAIN d /\ c.mtu = d[Master].mtu
  /\ c.at \in BeforeHw \cup {"join"} /\ c.mtu # 0 =>
       Master \in DOMAIN d /\ d[c.slave].mtu = d[Master].mtu
  /\ c.at = "join" /\ c.hw # 0 => Master \in DOMAIN d /\ d[Master].hwaddr = c.hw
Undisturbed == \A t \in Bonding :
  /\ call[t].at \notin {"flags", "join"} => call[t].op = "enslave"
  /\ call[t].at \notin {"shw", "join"} => call[t].hw = 0
  /\ call[t].op = "enslave" /\ call[t].quiet => Brought(dev, call[t])

IInv == Devices /\ UnderWay /\ Descriptors /\ Debugged /\ Undisturbed

ISpec == IInit /\ [][INext]_ivars
=============================================================================

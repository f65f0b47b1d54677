SPECIFICATION Spec
CONSTANTS
  Thread = {t1, t2}
  Master = "bond0"
  Slave = {"eth0"}
  Spare = "lan0"
  IfValue = {1}
  MaxFd = 3
  MaxCalls = 2
  MaxSimple = 1
  Asker = {t1, t2}
  Device <- MCDevice
  Nobody = Nobody
  MaxDevices = 3
  MaxAsks = 2
  Client = {t1, t2}
  MaxOpen = 3
  MaxUses = 3
  Lease = {2, 3}
  Server = {1, 2}
  HostName <- MCHost
  DomainName <- MCDomain
  MaxNet = 2
  Attributes <- MCAttributes
  Wanted = 1
  Secrets <- MCSecrets
  Zero = Zero
  Nonce = Nonce
  MaxBuilds = 2
  DWORD <- MCWord
  BitXor <- MCXor
  Plus <- MCPlus
  Minus <- MCMinus
  G <- MCG
  RightBy8 <- MCRight
  LeftBy8 <- MCLeft
  KC <- MCKC
  UserKey <- MCUserKey
  Message64 <- MCText
  Junk <- MCJunk
  Line = 8
  Nibbles = 8
  Strings <- MCStrings
  Numbers <- MCNumbers
  Addresses <- MCAddresses
  Numbers10 <- MCNumbers10
  Label = {"A", "a", "B"}
  Val = {"x", "y"}
  Upper <- MCUpper
  Gone = Gone
  Starts <- MCStarts
  MaxLines = 3
  MaxEdits = 3
  MaxCrashes = 1
  Logger = {t1, t2}
  Day = {1, 2}
  Slot = {1, 2}
  DefSize = 1
  DefNum = 2
  MaxLine = 4
  MaxExtra = 1
  MaxTick = 1
  NoFile = NoFile
  Table <- MCTable
  Words <- MCWords
  Quit <- MCQuit
  MaxWords = 3
  MaxId = 2
  Host = {h1}
  Us = Us
  Poll = {0, 1}
  Unset = Unset
  MaxServed = 3
  MaxSyncs = 2
  MaxHour = 1
  Tester = {t1, t2}
  Addr = {1, 2}
  NPacket = 0
  Wait = {1}
  MaxTests = 2
  MaxTicks = 2
  MaxStray = 1
INVARIANTS SocketsOwned DevicesTold Believed Genuine RoundTrips
PROPERTIES BondLeaves TextKept LogKept Understood
CHECK_DEADLOCK FALSE
SYMMETRY Symmetry

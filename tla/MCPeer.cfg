SPECIFICATION FairSpec
CONSTANTS
  Addr = {1, 2}
  Host = {1}
  Node = {n1, n2}
  Client = {c1, c2}

  Task = Task
  Checker = Checker
  Expire = 2
  Valid = 1
  Duration = 1
  Tunnels = {1}
  MaxCalls = 3
  Free = Free
  NULL = NULL
INVARIANTS ListSafe
PROPERTIES DownMeansSilent SilentReported AnswersReported

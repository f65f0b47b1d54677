SPECIFICATION Spec
CONSTANTS
  Entry = {0, 1}
  Matches <- MCMatches
  MaxCrash = 1
  MaxPid = 3
  MaxCmds = 1
INVARIANTS TypeOK OneInstance TableTrue Restarted

SPECIFICATION FairSpec
CONSTANTS
  e1 = e1
  e2 = e2
  c1 = c1
  c2 = c2
  ab = ab
  abc = abc
  Callback = Callback
  KeyBucket <- MCKeyBucket
  KeyPrefix <- MCKeyPrefix
  Free = Free
  NULL = NULL
  Entry = {e1, e2}
  Client = {c1}
  MaxTid = 2
  StrKey = {}
  Delay = {0, 1}
  Jumps = {}
  MS = 3
  WheelSize = 7
  SecWidth = 8
  U16 = 8
  MaxDiff = 1
  Epoch = 4
  MaxTime = 5
PROPERTIES WokenDrains AheadExpires

SPECIFICATION WanSpec
CONSTANTS
  None = None
  Empty = Empty
  Addr = {a1}
  Wan = {"dhcp", "static", "calc", "pppoe"}
  Inst = {i1, i2}
  StaticTries <- TwoMasks
  SavedPppoe = TRUE
  Lines <- OneSetting
  TornCopy = TRUE
  MaxTerms = 1
  MaxKills9 = 0
  MaxFlips = 3
  MaxCrashes = 0
  TwoStarters = FALSE
INVARIANTS WanTypeOK TrapOnlyUnlocks
PROPERTIES StartsDebounced EndsOnline LockReleased
CHECK_DEADLOCK FALSE

SPECIFICATION WanSafetySpec
CONSTANTS
  None = None
  Empty = Empty
  Addr = {a1}
  Wan = {"dhcp", "pppoe"}
  Inst = {i1, i2}
  StaticTries <- NoStatic
  SavedPppoe = TRUE
  Lines <- NoLine
  TornCopy = FALSE
  MaxTerms = 0
  MaxKills9 = 0
  MaxFlips = 3
  MaxCrashes = 1
  TwoStarters = TRUE
INVARIANT TrapOnlyUnlocks
CHECK_DEADLOCK FALSE

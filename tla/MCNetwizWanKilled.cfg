SPECIFICATION WanSpec
CONSTANTS
  None = None
  Empty = Empty
  Addr = {a1}
  Wan = {"dhcp", "pppoe"}
  Inst = {i1, i2}
  StaticTries <- NoStatic
  SavedPppoe = TRUE
  Lines <- NoLine
  TornCopy = FALSE
  MaxTerms = 0
  MaxKills9 = 1
  MaxFlips = 3
  MaxCrashes = 0
  TwoStarters = FALSE
PROPERTY LeftoverRestored
CHECK_DEADLOCK FALSE

SPECIFICATION SysSpec
CONSTANTS
  None = None
  Empty = Empty
  Addr = {a1, a2}
  Wan = {"dhcp"}
  MaxCalls = 1
  MaxKills = 0
  MaxCrashes = 1
  TornBackup = TRUE
  HasRadio = TRUE
  OldReachable = TRUE
  Overlap = FALSE
  Inst = {i1}
  StaticTries <- NoStatic
  SavedPppoe = FALSE
  Lines <- NoLine
  TornCopy = FALSE
  MaxTerms = 0
  MaxKills9 = 0
  MaxFlips = 1
  TwoStarters = FALSE
PROPERTY LeavesNothing
CHECK_DEADLOCK FALSE

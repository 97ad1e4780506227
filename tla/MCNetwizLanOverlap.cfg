SPECIFICATION LanSafetySpec
CONSTANTS
  None = None
  Empty = Empty
  Addr = {a1, a2}
  Wan = {w1}
  MaxCalls = 2
  MaxKills = 0
  MaxCrashes = 0
  TornBackup = FALSE
  HasRadio = TRUE
  OldReachable = FALSE
  Overlap = TRUE
INVARIANT ExpiryReverts
CHECK_DEADLOCK FALSE

SPECIFICATION LanSafetySpec
CONSTANTS
  None = None
  Empty = Empty
  Addr = {a1, a2, a3}
  Wan = {w1, w2}
  MaxCalls = 2
  MaxKills = 1
  MaxCrashes = 1
  TornBackup = FALSE
  HasRadio = TRUE
  OldReachable = FALSE
  Overlap = FALSE
INVARIANTS LanTypeOK AlwaysRecoverable LanInv
PROPERTIES DurableByConsent TrialRefined
CHECK_DEADLOCK FALSE

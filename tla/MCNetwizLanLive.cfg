SPECIFICATION LanSpec
CONSTANTS
  None = None
  Empty = Empty
  Addr = {a1, a2}
  Wan = {w1, w2}
  MaxCalls = 2
  MaxKills = 0
  MaxCrashes = 1
  TornBackup = FALSE
  HasRadio = TRUE
  OldReachable = FALSE
  Overlap = FALSE
INVARIANTS TrialWatched DisarmedIntact
PROPERTIES AddressReturns Quiesces TrialKept
CHECK_DEADLOCK FALSE

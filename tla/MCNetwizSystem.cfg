SPECIFICATION SysSafetySpec
CONSTANTS
  None = None
  Empty = Empty
  Addr = {a1, a2}
  Wan = {"dhcp"}
  MaxCalls = 1
  MaxKills = 1
  MaxCrashes = 1
  TornBackup = TRUE
  HasRadio = TRUE
  OldReachable = TRUE
  Overlap = FALSE
  Inst = {i1}
  StaticTries <- NoStatic
  SavedPppoe = FALSE
  Lines <- DhcpOrNone
  TornCopy = FALSE
  MaxTerms = 0
  MaxKills9 = 0
  MaxFlips = 1
  TwoStarters = FALSE
INVARIANTS TimerBacked BackupsPaired
CHECK_DEADLOCK FALSE

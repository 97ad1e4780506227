SPECIFICATION SysSafetySpec
CONSTANTS
  None = None
  Empty = Empty
  Addr = {a1, a2}
  Wan = {"dhcp", "pppoe"}
  MaxCalls = 1
  MaxKills = 0
  MaxCrashes = 0
  TornBackup = FALSE
  HasRadio = TRUE
  OldReachable = FALSE
  Overlap = FALSE
  Inst = {i1}
  StaticTries <- NoStatic
  SavedPppoe = TRUE
  Lines <- DhcpOrNone
  TornCopy = FALSE
  MaxTerms = 0
  MaxKills9 = 0
  MaxFlips = 1
  TwoStarters = FALSE
INVARIANT PowerLossUndoesTrial
CHECK_DEADLOCK FALSE

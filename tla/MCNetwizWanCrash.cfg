SPECIFICATION WanSafetySpec
CONSTANTS
  None = None
  Empty = Empty
  Addr = {a1}
  Wan = {"dhcp", "static", "calc", "pppoe"}
  Inst = {i1, i2}
  StaticTries <- TwoMasks
  SavedPppoe = TRUE
  Lines <- AllLines
  TornCopy = FALSE
  MaxTerms = 0
  MaxKills9 = 1
  MaxFlips = 3
  MaxCrashes = 2
  TwoStarters = FALSE
INVARIANT OneEngine
PROPERTY DurableWanWorks
CHECK_DEADLOCK FALSE

CONSTANTS
    Proc = {p1, p2}
    Latest = 2
    Keys = {"port", "mirror"}
    RestartKeys = {"port"}
    Vals = {1, 2}
    Default = 2
    Poller = {"chk", "do", "miss"}
    MaxEvents = 2
    MaxFaults = 1
SPECIFICATION Spec
CHECK_DEADLOCK FALSE
INVARIANTS LuckyTypeOK InstalledMatches DaemonAsAsked SwitchTells
PROPERTIES EndsFresh SaveKeepsOthers WaitsEnd

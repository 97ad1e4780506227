---------------------------- MODULE NetwizRecovery ---------------------------
(***************************************************************************)
(* Power loss, and the early boot script that puts the backups back before *)
(* the network service starts.                                             *)
(***************************************************************************)
EXTENDS NetwizRouter

CONSTANT MaxCrashes     \* bound on the power losses of a behaviour

ASSUME RecoveryAssumption == MaxCrashes \in Nat

VARIABLES
    poller,     \* the background wait for a carrier: "none", "waiting", "ready"
    crashes     \* power losses so far

recVars == <<poller, crashes>>

BootStates == {"up", "net", "fillNet", "dhcp", "fillDhcp", "clean",
               "wan", "fillWan", "cleanWan", "start"}

RecTypeOK ==
    /\ boot \in BootStates
    /\ poller \in {"none", "waiting", "ready"}
    /\ crashes \in Nat

RecInit == poller = "none" /\ crashes = 0

\* The RAM disk is lost; what happens to flash is for the composition to say.
RouterDies ==
    /\ crashes < MaxCrashes
    /\ crashes' = crashes + 1
    /\ target' = None /\ deadline' = None /\ lock' = FALSE
    /\ live' = None /\ browser' = None /\ reached' = {}
    /\ boot' = "net" /\ poller' = "none"

\* `cat netBak > network` truncates network first.
BootNet ==
    /\ boot = "net"
    /\ IF netBak = None THEN boot' = "wan" /\ UNCHANGED network
                        ELSE boot' = "fillNet" /\ network' = Empty
    /\ UNCHANGED <<dhcp, netBak, dhcpBak, wanBak, timer, lock, running, recVars>>

BootFillNet ==
    /\ boot = "fillNet"
    /\ network' = CatOf(netBak)
    /\ boot' = "dhcp"
    /\ UNCHANGED <<dhcp, netBak, dhcpBak, wanBak, timer, lock, running, recVars>>

BootDhcp ==
    /\ boot = "dhcp"
    /\ IF dhcpBak = None THEN boot' = "clean" /\ UNCHANGED dhcp
                         ELSE boot' = "fillDhcp" /\ dhcp' = Empty
    /\ UNCHANGED <<network, netBak, dhcpBak, wanBak, timer, lock, running, recVars>>

BootFillDhcp ==
    /\ boot = "fillDhcp"
    /\ dhcp' = CatOf(dhcpBak)
    /\ boot' = "clean"
    /\ UNCHANGED <<network, netBak, dhcpBak, wanBak, timer, lock, running, recVars>>

BootClean ==
    /\ boot = "clean"
    /\ netBak' = None /\ dhcpBak' = None
    /\ target' = None /\ deadline' = None
    /\ boot' = "wan"
    /\ UNCHANGED <<network, dhcp, wanBak, lock, running, recVars>>

\* No backup of a WAN probe: the script is done and the network starts.
BootWan ==
    /\ boot = "wan"
    /\ IF wanBak = None THEN boot' = "start" /\ UNCHANGED network
                        ELSE boot' = "fillWan" /\ network' = Empty
    /\ UNCHANGED <<dhcp, netBak, dhcpBak, wanBak, timer, lock, running, recVars>>

BootFillWan ==
    /\ boot = "fillWan"
    /\ network' = CatOf(wanBak)
    /\ boot' = "cleanWan"
    /\ UNCHANGED <<dhcp, netBak, dhcpBak, wanBak, timer, lock, running, recVars>>

\* Remove the WAN backup and leave the poller that restarts the detection.
BootCleanWan ==
    /\ boot = "cleanWan"
    /\ wanBak' = None
    /\ poller' = "waiting"
    /\ boot' = "start"
    /\ UNCHANGED <<network, dhcp, netBak, dhcpBak, timer, lock, running, crashes>>

\* The network service starts with what the files say now.
BootStart ==
    /\ boot = "start"
    /\ LoadNetwork
    /\ boot' = "up"
    /\ UNCHANGED <<flash, timer, lock, recVars>>

BootStep ==
    \/ BootNet \/ BootFillNet \/ BootDhcp \/ BootFillDhcp \/ BootClean
    \/ BootWan \/ BootFillWan \/ BootCleanWan \/ BootStart
=============================================================================

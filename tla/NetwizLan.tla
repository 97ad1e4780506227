------------------------------ MODULE NetwizLan ------------------------------
(***************************************************************************)
(* The LAN fail-safe of NetWiz: the page, the rpcd plugin, the monitor's   *)
(* radar and rollback, and the boot recovery, sharing the router's files.  *)
(* The WAN detection is not part of this composition (see NetwizSystem).   *)
(***************************************************************************)
EXTENDS NetwizPage, NetwizMonitor, NetwizRecovery

CONSTANT Overlap    \* may a call arrive before an earlier change is settled?

ASSUME LanAssumption == Overlap \in BOOLEAN

lanVars == <<flash, timer, lock, boot, running, rpcVars, monVars, recVars, pageVars>>

LanInit == RouterInit /\ RpcInit /\ MonInit /\ RecInit /\ PageInit

\* Nothing of an earlier change is pending: the user of one page, which is
\* covered by a dialog until the change is over, makes the next call then.
Settled ==
    /\ page = "idle" /\ applies = 0 /\ mon = "scan" /\ job = "none"
    /\ netBak = None /\ deadline = None

\* The 120 seconds are longer than the two commits that follow the arming.
ClockRuns ==
    /\ TimerDue
    /\ ~(rpc \in {"commitNet", "commitDhcp"} /\ req.mode = "lan" /\ req.safe)

LanPowerLoss == RouterDies /\ UNCHANGED flash /\ RpcDies /\ MonDies /\ PageDies

\* What clients, the plugin and the monitor do while the router is up.
ClientStep ==
    /\ \/ (Overlap \/ Settled) /\ \E r \in Request : Apply(r)
       \/ KnockAnswered \/ Confirm \/ Jump \/ GiveUp \/ Browse
    /\ UNCHANGED <<monVars, recVars>>

PluginStep == (RpcStep \/ ApplyJob) /\ UNCHANGED <<monVars, recVars, pageVars>>

RadarStep ==
    /\ ClockRuns \/ MonStep \/ JobStep
    /\ UNCHANGED <<rpcVars, recVars, pageVars>>

LanNext ==
    \/ ClientStep \/ PluginStep \/ RadarStep
    \/ Respawn /\ UNCHANGED <<rpcVars, recVars, pageVars>>
    \/ BootStep /\ UNCHANGED <<rpcVars, monVars, pageVars>>
    \/ LanPowerLoss

LanSafetySpec == LanInit /\ [][LanNext]_lanVars

\* The daemons run; users, pages and power losses are under no obligation.
LanFairness ==
    /\ WF_lanVars(RpcStep /\ UNCHANGED <<monVars, recVars, pageVars>>)
    /\ WF_lanVars(ApplyJob /\ UNCHANGED <<monVars, recVars, pageVars>>)
    /\ WF_lanVars(ClockRuns /\ UNCHANGED <<rpcVars, recVars, pageVars>>)
    /\ WF_lanVars(MonStep /\ UNCHANGED <<rpcVars, recVars, pageVars>>)
    /\ WF_lanVars(JobStep /\ UNCHANGED <<rpcVars, recVars, pageVars>>)
    /\ WF_lanVars(BootStep /\ UNCHANGED <<rpcVars, monVars, pageVars>>)

LanSpec == LanSafetySpec /\ LanFairness

-----------------------------------------------------------------------------
\* The files, timers, handler, loop, boot script and page hold only values that
\* set_network, the monitor loop and netwiz-recovery can give them.
LanTypeOK == RouterTypeOK /\ RpcTypeOK /\ MonTypeOK /\ RecTypeOK /\ PageTypeOK

\* Power loss: whatever command set_network, the rollback, its job or
\* netwiz-recovery is at, boot() would leave complete configuration files.
AlwaysRecoverable == Durable \in NetCfg \X Dhcp

\* set_network, confirm, the radar, the rollback's job and the boot script never
\* leave a DHCP backup without a network backup: it would stay for ever, since
\* rollback and boot look at it only after they have seen the network backup.
BackupsPaired == dhcpBak # None => netBak # None

\* The configuration that survives a power loss changes only by the user's
\* consent: a client has reached the new LAN address since the request (radar,
\* confirm), or set_network commits a change made without the safety timer.
DurableByConsent ==
    [][Durable' # Durable =>
         \/ Durable' = Disk /\ network.lan \in reached
         \/ rpc \in {"commitNet", "commitDhcp"} /\ target = None]_lanVars

\* Files that differ from what a power loss would bring back are never left
\* alone: set_network's timer is armed, the monitor loop is rolling back, or the
\* rollback's background job has yet to finish.
TrialWatched ==
    Up /\ Durable # Disk =>
        \/ target # None /\ deadline # None
        \/ mon \in {"restore", "fillNet", "dhcp", "fillDhcp"}
        \/ job # "none"

\* A new address on disk that set_network has put on trial and no client ever
\* reaches gives way to the address in the backup: the monitor's rollback, its job
\* or the boot script brings that back to disk and to life.
AddressReturns ==
    \A a \in Addr :
        (Up /\ deadline # None /\ LanOf(netBak) = a /\ target = LanOf(network) /\ target # a)
            ~> \/ LanOf(live) = a /\ LanOf(network) = a
               \/ (reached \cup {browser}) \ {a, None} # {}

\* When the 120 seconds have run out without a connection to the new address, the
\* rollback finds the backup that set_network took when it armed the timer.
ExpiryReverts == mon = "restore" => netBak # None

\* Once confirm, the radar or the rollback's job has removed the backup and no
\* timer is left, the files are whole: confirm never comes between the test for
\* the backup and the cat that restores it.
DisarmedIntact ==
    Up /\ netBak = None /\ deadline = None => network # Empty /\ dhcp # Empty

\* After the last request the handler, the monitor, its job and the boot script
\* come to rest: the files are the ones that run, no backup or timer is left.
Quiesces ==
    <>[](/\ Up /\ live = network
         /\ netBak = None /\ dhcpBak = None
         /\ target = None /\ deadline = None)

\* The fail-safe, seen through its files: a trial is open while the network
\* backup exists, and proven while a client has reached the address on disk.
Trial == INSTANCE NetwizTrial WITH
    Config  <- NetCfg \X Dhcp,
    durable <- Durable,
    disk    <- Disk,
    open    <- netBak # None,
    proven  <- network # Empty /\ network.lan \in reached

\* Every step of set_network, confirm, the monitor and the boot script is a step
\* of a trial: the new configuration is accepted only proven, else abandoned.
TrialRefined == Trial!TrialSafety

\* And every trial that set_network opens is closed by the radar, the rollback's
\* job, confirm or the boot script.
TrialKept == Trial!TrialSpec
=============================================================================

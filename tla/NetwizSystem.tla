----------------------------- MODULE NetwizSystem ----------------------------
(***************************************************************************)
(* All of NetWiz: the LAN fail-safe and the WAN detection over the same    *)
(* files and the same running network.                                     *)
(***************************************************************************)
EXTENDS NetwizLan, NetwizWan

sysVars == <<flash, timer, lock, boot, running, rpcVars, monVars, recVars,
             pageVars, autoVars, debVars>>

SysInit == LanInit /\ AutoInit /\ DebInit

lanOnly == <<rpcVars, monVars, pageVars>>
wanOnly == <<autoVars, debVars>>

\* The loop is one process: the carrier is read between two radar scans.
CycleStep == LoopCycle /\ mon = "scan" /\ UNCHANGED <<recVars, lanOnly>>

SysRespawn == Respawn /\ LoopStarts /\ UNCHANGED <<rpcVars, recVars, pageVars, autoVars>>

SysBoot ==
    /\ BootStep
    /\ IF boot = "start" THEN LoopStarts ELSE UNCHANGED debVars
    /\ UNCHANGED <<lanOnly, autoVars>>

SysPowerLoss ==
    /\ RouterDies /\ TornFlash
    /\ RpcDies /\ MonDies /\ PageDies /\ AutoDies /\ DebDies

SysNext ==
    \/ (ClientStep \/ PluginStep \/ RadarStep) /\ UNCHANGED wanOnly
    \/ ScriptStep /\ UNCHANGED lanOnly
    \/ CycleStep
    \/ SysRespawn
    \/ SysBoot
    \/ SysPowerLoss

SysSafetySpec == SysInit /\ [][SysNext]_sysVars

SysSpec ==
    /\ SysSafetySpec
    /\ WF_sysVars(RpcStep /\ UNCHANGED <<monVars, recVars, pageVars, wanOnly>>)
    /\ WF_sysVars(ApplyJob /\ UNCHANGED <<monVars, recVars, pageVars, wanOnly>>)
    /\ WF_sysVars(ClockRuns /\ UNCHANGED <<rpcVars, recVars, pageVars, wanOnly>>)
    /\ WF_sysVars(MonStep /\ UNCHANGED <<rpcVars, recVars, pageVars, wanOnly>>)
    /\ WF_sysVars(JobStep /\ UNCHANGED <<rpcVars, recVars, pageVars, wanOnly>>)
    /\ WF_sysVars(CycleStep)
    /\ \A i \in Inst : WF_sysVars(EngineOf(i) /\ UNCHANGED lanOnly)
    /\ WF_sysVars((PollerSees \/ PollerStarts) /\ UNCHANGED lanOnly)
    /\ WF_sysVars(SysBoot)

-----------------------------------------------------------------------------
\* A timer that set_network has armed always has a LAN backup to go back to, also
\* while the detection script copies network back and forth, and after boot.
TimerBacked == deadline # None => netBak # None

\* The files of a request or of a probe never outlive it: handler, radar,
\* rollback and script together end with no backup, no timer and no lock, unless
\* the loop has died (in the middle of a rollback nobody then finishes it).
LeavesNothing ==
    <>[](\/ kills > 0
         \/ /\ netBak = None /\ dhcpBak = None /\ wanBak = None
            /\ target = None /\ deadline = None /\ ~lock)

\* While a LAN change is on trial, a power loss brings the old address back: the
\* boot script's restore of network.netwiz_bak is the last word on it.
PowerLossUndoesTrial == netBak \in NetCfg => LanOf(Durable[1]) = netBak.lan
=============================================================================

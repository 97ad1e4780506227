------------------------------ MODULE NetwizWan ------------------------------
(***************************************************************************)
(* The WAN detection of NetWiz: the monitor's debounce, the script it      *)
(* starts, the boot recovery and the poller that starts the script a       *)
(* second time.  No LAN request is made in this composition.               *)
(***************************************************************************)
EXTENDS NetwizDebounce, NetwizRecovery

CONSTANT TwoStarters    \* may the loop start the script while the poller waits?

ASSUME WanAssumption == TwoStarters \in BOOLEAN

wanVars == <<flash, timer, lock, boot, running, autoVars, debVars, recVars>>

WanInit == RouterInit /\ AutoInit /\ DebInit /\ RecInit

\* The poller sees the carrier, sleeps 3 seconds and starts the script; after
\* 60 seconds without a carrier it gives up.
PollerSees ==
    /\ Up /\ poller = "waiting"
    /\ poller' \in IF carrier THEN {"ready"} ELSE {"none"}
    /\ UNCHANGED <<flash, timer, lock, boot, running, autoVars, debVars, crashes>>

PollerStarts ==
    /\ Up /\ poller = "ready"
    /\ \E i \in Inst : Launch(i)
    /\ poller' = "none"
    /\ UNCHANGED <<flash, timer, lock, boot, running, tries, resume, carrier,
                   works, signals, debVars, crashes>>

LoopCycle == Cycle /\ (TwoStarters \/ poller = "none" \/ UNCHANGED pc)

\* An instance is in the middle of `cp BAK network`.
Tearing ==
    \E i \in Inst :
        /\ pc[i] \in {"copy", "lose", "trapBak"} \/ (pc[i] = "orphan" /\ ~lock)
        /\ wanBak # None

\* Flash keeps what was written, but a copy in progress leaves no contents.
TornFlash ==
    /\ \/ UNCHANGED network
       \/ Tearing /\ network' = Empty
    /\ UNCHANGED <<dhcp, netBak, dhcpBak, wanBak>>

DebDies == UNCHANGED <<last, downs, flips>> /\ streak' = 0

WanPowerLoss == RouterDies /\ TornFlash /\ AutoDies /\ DebDies

BootWanStep ==
    /\ BootStep
    /\ IF boot = "start" THEN LoopStarts ELSE UNCHANGED debVars
    /\ UNCHANGED autoVars

\* What the script, the poller and the cable do while the router is up.
EngineOf(i) == EngineStep(i) /\ UNCHANGED <<debVars, recVars>>

ScriptStep ==
    \/ \E i \in Inst : EngineOf(i)
    \/ \E i \in Inst : (Term(i) \/ Kill9(i)) /\ UNCHANGED <<debVars, recVars>>
    \/ PollerSees \/ PollerStarts
    \/ Flip /\ UNCHANGED recVars

LoopRespawned ==
    Up /\ LoopStarts /\ UNCHANGED <<flash, timer, lock, boot, running, autoVars>>

WanNext ==
    \/ LoopCycle /\ UNCHANGED recVars
    \/ LoopRespawned /\ UNCHANGED recVars
    \/ ScriptStep
    \/ BootWanStep
    \/ WanPowerLoss

WanSafetySpec == WanInit /\ [][WanNext]_wanVars

WanSpec ==
    /\ WanSafetySpec
    /\ WF_wanVars(LoopCycle /\ UNCHANGED recVars)
    /\ \A i \in Inst : WF_wanVars(EngineOf(i))
    /\ WF_wanVars(PollerSees \/ PollerStarts)
    /\ WF_wanVars(BootWanStep)

-----------------------------------------------------------------------------
\* The script, the loop, the poller and the boot script hold only values their
\* commands can give them; no copy leaves the name of a missing backup.
WanTypeOK == RouterTypeOK /\ AutoTypeOK /\ DebTypeOK /\ RecTypeOK

\* The lock file (checked, then touched) and the pause of the monitor loop while
\* it exists keep two instances of the script from probing at the same time.
OneEngine == \A i, j \in Inst : pc[i] \in Probing /\ pc[j] \in Probing => i = j

\* The script's backup makes a probe a trial: the WAN setting that survives a
\* power loss changes only to one that leads to the internet, whatever command
\* the script, the boot script or a kill -9 stops at.
DurableWanWorks ==
    [][WanOf(Durable'[1]) # WanOf(Durable[1]) => WanOf(Durable'[1]) \in works]_wanVars

\* The monitor loop starts the script only after three readings in a row without
\* a carrier (DOWN_COUNT): a flapping link never reconfigures the WAN.  (After a
\* power loss the poller may start the script before the loop has seen the carrier;
\* the loop, paused by the lock, keeps its count and starts the script once more.)
StartsDebounced ==
    [][(Cycle /\ pc' # pc /\ crashes = 0) => streak >= Threshold]_wanVars

\* Without a signal every way out of the script is a normal exit, and cleanup()
\* then finds no backup: it never undoes the probe of another instance.
TrapOnlyUnlocks == signals = [term |-> 0, kill |-> 0] => \A i \in Inst : pc[i] # "trapRm"

\* A backup that no instance holds (kill -9) goes back when a cable that was out
\* for three readings is plugged in again and the loop starts the script.
LeftoverRestored ==
    (/\ Up /\ wanBak # None /\ \A i \in Inst : pc[i] = "off"
     /\ streak >= Threshold /\ carrier /\ flips = MaxFlips)
        ~> wanBak = None

\* Every instance of the script comes to its end, SIGTERM or not, and cleanup()
\* gives the lock back; else the monitor's part 1 would be paused for ever.
LockReleased == lock ~> ~lock

\* A cable that stays in ends up online unless somebody signals the script: if the
\* setting in the file or one the script tries (DHCP, static with either mask,
\* PPPoE) works, it is found and loaded by the time the script ends.
EndsOnline ==
    (/\ \E i \in Inst : pc[i] = "wait"
     /\ carrier /\ flips = MaxFlips /\ crashes = MaxCrashes
     /\ \/ WanOf(network) \in works
        \/ \E k \in DOMAIN Candidates(WanOf(network)) :
              Candidates(WanOf(network))[k] \in works)
        ~> Online \/ signals # [term |-> 0, kill |-> 0]
=============================================================================

----------------------------- MODULE NetwizWanInv ----------------------------
(***************************************************************************)
(* Why the WAN detection is correct: the inductive invariants behind       *)
(* OneEngine, TrapOnlyUnlocks, DurableWanWorks and StartsDebounced.  The   *)
(* first three hold as long as nobody sends a SIGTERM, because the trap    *)
(* unlocks and does not exit, and as long as the loop does not start the   *)
(* script while the poller of the boot script waits (~TwoStarters).        *)
(***************************************************************************)
EXTENDS NetwizWan

\* The settings the saved credentials allow to try.
Usable ==
    {"dhcp"} \cup {StaticTries[k] : k \in DOMAIN StaticTries}
             \cup (IF SavedPppoe THEN {"pppoe"} ELSE {})

\* The commands that use the first of the settings still to be tried.
Trying == {"copy", "set", "reload", "probe"}

\* A setting is at hand wherever one is used, also after a trap that goes on there.
TriesInv ==
    /\ tries \in [Inst -> Seq(Usable)]
    /\ \A i \in Inst :
          /\ pc[i] \in Trying \/ resume[i] \in Trying => tries[i] # <<>>
          /\ resume[i] # "off" => pc[i] \in Trapping

WanTypeInv == WanTypeOK /\ TriesInv

-----------------------------------------------------------------------------
\* At most one instance runs; none while the boot script or its poller does.
SoloInv ==
    /\ \A i, j \in Inst : pc[i] # "off" /\ pc[j] # "off" => i = j
    /\ ~Up \/ poller # "none" => ~lock /\ \A i \in Inst : pc[i] = "off"

\* The lock belongs to an instance that probes; a killed one leaves it behind.
LockInv ==
    \A i \in Inst :
        /\ pc[i] \in Starting \cup {"trapBak"} => ~lock
        /\ pc[i] \in Probing \cup {"trap"} => lock

\* An instance that nobody has signalled leaves no backup for its trap to find.
TrapInv ==
    \A i \in Inst :
        /\ pc[i] \in {"check", "touch", "wait", "backup", "loseReload", "trap", "trapBak"}
              => wanBak = None
        /\ pc[i] \notin {"trapRm", "trapReload"}
        /\ resume[i] = "off"

EngineInv == SoloInv /\ LockInv /\ TrapInv

\* The setting in which an instance of the script is alone.
Unsignalled == ~TwoStarters /\ signals.term = 0

-----------------------------------------------------------------------------
\* The commands of an instance that works between its backup and its removal.
Holding == {"read", "next", "copy", "set", "reload", "probe", "win", "lose", "loseRm"}

\* What is about to outlive the backup works or is the backup.
TrialInv ==
    /\ netBak = None
    /\ boot \in {"up", "net", "wan", "fillWan", "cleanWan", "start"}
    /\ boot \in {"fillWan", "cleanWan"} => wanBak # None
    /\ boot = "cleanWan" => network = wanBak
    /\ \A i \in Inst :
          /\ pc[i] \in Holding => wanBak # None
          /\ pc[i] = "probe" => live = network
          /\ pc[i] = "win" => WanOf(network) \in works
          /\ pc[i] = "loseRm" => network = wanBak

WanInv == WanTypeInv /\ (Unsignalled => EngineInv /\ (~TornCopy => TrialInv))

-----------------------------------------------------------------------------
\* Until a power loss the loop is the only one that starts the script: it has
\* counted no more readings than there were, and none when the script locks.
CountInv ==
    crashes = 0 =>
        /\ Up /\ poller = "none"
        /\ downs <= streak
        /\ lock \/ (\E i \in Inst : pc[i] \in Starting \/ resume[i] \in Starting) => downs = 0
=============================================================================

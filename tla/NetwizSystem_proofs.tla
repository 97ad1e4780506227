------------------------- MODULE NetwizSystem_proofs -------------------------
(***************************************************************************)
(* Proofs about all of NetWiz: which promises of its two halves survive    *)
(* that both work on the same files.                                       *)
(***************************************************************************)
EXTENDS NetwizSystemInv, NetwizLan_proofs, NetwizWan_proofs

-----------------------------------------------------------------------------
(* Every step is a step of one half that leaves the other half's processes *)
(* alone, or one that both take together.                                  *)

\* What clients, the handler and the radar do, while the script and the loop's first
\* part rest.
LanSide == (ClientStep \/ PluginStep \/ RadarStep) /\ UNCHANGED wanOnly

\* To the WAN detection every other step is one of its own.
LEMMA WanSide ==
    ASSUME [SysNext]_sysVars
    PROVE  LanSide \/ [WanNext]_wanVars
<1>1. CASE CycleStep
  BY <1>1 DEF CycleStep, WanNext
<1>2. CASE SysRespawn
  BY <1>2 DEF SysRespawn, Respawn, WanNext, LoopRespawned
<1>3. CASE SysBoot
  BY <1>3 DEF SysBoot, WanNext, BootWanStep
<1>4. CASE SysPowerLoss
  BY <1>4 DEF SysPowerLoss, WanNext, WanPowerLoss
<1>5. CASE UNCHANGED sysVars
  BY <1>5 DEF sysVars, wanVars
<1> QED
  BY <1>1, <1>2, <1>3, <1>4, <1>5 DEF SysNext, LanSide, WanNext

\* A request, a confirm or the radar starts no script and touches no lock.
LEMMA LanLeaves ==
    ASSUME LanSide
    PROVE  UNCHANGED <<lock, boot, autoVars, debVars, recVars>>
<1>1. UNCHANGED <<autoVars, debVars, recVars>>
  BY DEF LanSide, wanOnly, ClientStep, PluginStep, RadarStep
<1>2. ASSUME ClientStep PROVE UNCHANGED <<lock, boot>>
  BY <1>2 DEF ClientStep, Apply, Receive, KnockAnswered, Confirm, ConfirmFiles, Jump, GiveUp,
     Browse
<1>3. ASSUME PluginStep PROVE UNCHANGED <<lock, boot>>
  BY <1>3 DEF PluginStep, RpcStep, ApplyJob, Reject, PlanGuarded, PlanDirect, PlanOther,
     CreateNetBak, BackupNet, CreateDhcpBak, BackupDhcp, ArmTarget, ArmTime, CommitNet,
     CommitDhcp
<1>4. ASSUME RadarStep PROVE UNCHANGED <<lock, boot>>
  BY <1>4 DEF RadarStep, ClockRuns, TimerDue, MonStep, JobStep, Scan, Defuse, Clock, Expire,
     Restore, FillNet, RestoreDhcp, FinishRestore, JobRestart, JobCleanup
<1> QED
  BY <1>1, <1>2, <1>3, <1>4 DEF LanSide

\* The script, the poller and the cable touch no LAN backup and no timer.
LEMMA ScriptLeaves ==
    ASSUME ScriptStep
    PROVE  UNCHANGED <<netBak, dhcpBak, timer, boot>>
<1>1. ASSUME NEW i \in Inst, EngineOf(i)
      PROVE  UNCHANGED <<netBak, dhcpBak, timer, boot>>
  BY <1>1 DEF EngineOf, EngineStep, flash, Orphan, Check, Touch, Wait, CreateBackup, Backup,
     ReadSaved, NextTry, Copy, SetProto, Reload, Probe, Win, Lose, LoseRm, LoseReload,
     TrapLock, TrapBak, TrapRm, TrapReload
<1>2. ASSUME NEW i \in Inst, Term(i) \/ Kill9(i)
      PROVE  UNCHANGED <<netBak, dhcpBak, timer, boot>>
  BY <1>2 DEF Term, Kill9, flash
<1>3. CASE PollerSees \/ PollerStarts \/ Flip
  BY <1>3 DEF PollerSees, PollerStarts, Flip, flash
<1> QED
  BY <1>1, <1>2, <1>3 DEF ScriptStep

-----------------------------------------------------------------------------
(* Type correctness: each half's lemmas serve the whole.                   *)

\* The files initially are those both halves begin with.
LEMMA SysInits == SysInit => LanInit /\ WanInit
BY DEF SysInit, LanInit, WanInit

\* The types of the whole are those of the LAN and of what only the script and the
\* debounce keep.
LEMMA SysTypeParts ==
    ASSUME TypeInv, AutoTypeOK, DebTypeOK, TriesInv
    PROVE  SysTypeInv
BY DEF SysTypeInv, TypeInv, LanTypeOK, WanTypeInv, WanTypeOK

\* A step of the LAN's processes keeps the types of the whole.
LEMMA SysTypeLan ==
    ASSUME SysTypeInv, LanSide
    PROVE  SysTypeInv'
<1>1. TypeInv'
  BY TypeInvClient, TypeInvRpc, TypeInvApply, TypeInvRadar
     DEF SysTypeInv, LanSide, PluginStep
<1>2. UNCHANGED <<autoVars, debVars>>
  BY LanLeaves
<1>3. AutoTypeOK' /\ DebTypeOK' /\ TriesInv'
  BY <1>2 DEF SysTypeInv, WanTypeInv, WanTypeOK, AutoTypeOK, DebTypeOK, TriesInv, autoVars,
     debVars
<1> QED
  BY <1>1, <1>3, SysTypeParts DEF SysTypeInv, TypeInv, LanTypeOK, WanTypeInv, WanTypeOK

\* A step that leaves the LAN's processes alone keeps their types.
LEMMA LanIdle ==
    ASSUME TypeInv, UNCHANGED lanOnly
    PROVE  RpcTypeOK' /\ MonTypeOK' /\ PageTypeOK' /\ RequestInv'
BY DEF TypeInv, LanTypeOK, lanOnly, rpcVars, monVars, pageVars, RpcTypeOK, MonTypeOK,
   PageTypeOK, RequestInv

\* Power loss ends the LAN's processes and keeps the page.
LEMMA LanDies ==
    ASSUME TypeInv, RpcDies, MonDies, PageDies
    PROVE  RpcTypeOK' /\ MonTypeOK' /\ PageTypeOK' /\ RequestInv'
BY DEF TypeInv, LanTypeOK, RpcDies, MonDies, PageDies, RpcTypeOK, MonTypeOK, PageTypeOK,
   RequestInv, RpcStates, MonStates, Preparing, Committing

\* Every step of the whole system keeps the types.
LEMMA SysTypeNext ==
    ASSUME SysTypeInv, [SysNext]_sysVars
    PROVE  SysTypeInv'
<1>1. CASE LanSide
  BY <1>1, SysTypeLan
<1>2. ASSUME [WanNext]_wanVars, RpcTypeOK', MonTypeOK', PageTypeOK', RequestInv'
      PROVE  SysTypeInv'
  <2>1. WanTypeInv'
    BY <1>2, WanTypeNext DEF SysTypeInv
  <2>2. TypeInv'
    BY <1>2, <2>1 DEF TypeInv, LanTypeOK, WanTypeInv, WanTypeOK
  <2> QED
    BY <2>1, <2>2 DEF SysTypeInv
<1>3. CASE SysRespawn
  <2>1. MonTypeOK'
    BY <1>3 DEF SysRespawn, Respawn, SysTypeInv, TypeInv, LanTypeOK, MonTypeOK, MonStates
  <2>2. RpcTypeOK' /\ PageTypeOK' /\ RequestInv'
    BY <1>3 DEF SysRespawn, SysTypeInv, TypeInv, LanTypeOK, rpcVars, pageVars, RpcTypeOK,
       PageTypeOK, RequestInv
  <2>3. [WanNext]_wanVars
    BY <1>3 DEF SysRespawn, Respawn, WanNext, LoopRespawned
  <2> QED
    BY <1>2, <2>1, <2>2, <2>3
<1>4. CASE SysPowerLoss
  <2>1. [WanNext]_wanVars
    BY <1>4 DEF SysPowerLoss, WanNext, WanPowerLoss
  <2> QED
    BY <1>2, <1>4, <2>1, LanDies DEF SysPowerLoss, SysTypeInv
<1>5. ASSUME ~LanSide, UNCHANGED lanOnly
      PROVE  SysTypeInv'
  BY <1>2, <1>5, WanSide, LanIdle DEF SysTypeInv
<1> QED
  BY <1>1, <1>3, <1>4, <1>5 DEF SysNext, LanSide, CycleStep, SysBoot, lanOnly, sysVars

\* Every variable keeps its type in the whole system: no copy of the script and no
\* edit of a request makes a file the other half cannot handle.
THEOREM SysTypeCorrect == SysSafetySpec => [](LanTypeOK /\ WanTypeOK)
<1>1. SysInit => SysTypeInv
  BY SysInits, TypeInvInit, WanTypeInit DEF SysTypeInv
<1>2. SysTypeInv /\ [SysNext]_sysVars => SysTypeInv'
  BY SysTypeNext
<1>3. SysTypeInv => LanTypeOK /\ WanTypeOK
  BY DEF SysTypeInv, TypeInv, WanTypeInv
<1> QED
  BY <1>1, <1>2, <1>3, PTL DEF SysSafetySpec

-----------------------------------------------------------------------------
(* Who may take a backup away, and when.                                   *)

\* Nothing is at work initially.
LEMMA PairInit == SysInit => PairInv
BY MarkerAssumption
   DEF SysInit, LanInit, RouterInit, RpcInit, MonInit, RecInit, PageInit, PairInv, HandlerInv,
       LoopInv, TimerBacked, BackupsPaired, Up, Copied, Preparing, Committing, Restoring

\* A request takes the backups when no timer runs; a confirm takes both, with the
\* timer, and finds no request half served.
LEMMA PairClient ==
    ASSUME ~Overlap, SysTypeInv, PairInv, ClientStep
    PROVE  PairInv'
<1> USE MarkerAssumption DEF PairInv, HandlerInv, LoopInv, TimerBacked, BackupsPaired, Up,
        Copied, Preparing, Committing, Restoring, flash, timer, running, rpcVars, monVars,
        recVars, pageVars
<1>0. UNCHANGED <<monVars, recVars>>
  BY DEF ClientStep
<1>1. CASE Settled /\ \E r \in Request : Apply(r)
  BY <1>0, <1>1 DEF Settled, Apply, Receive
<1>2. CASE KnockAnswered
  BY <1>0, <1>2 DEF KnockAnswered
<1>3. CASE Confirm
  BY <1>0, <1>3 DEF Confirm, ConfirmFiles, Pending
<1>4. CASE Jump
  BY <1>0, <1>4 DEF Jump
<1>5. CASE GiveUp
  BY <1>0, <1>5 DEF GiveUp
<1>6. CASE Browse
  BY <1>0, <1>6 DEF Browse
<1> QED
  BY <1>1, <1>2, <1>3, <1>4, <1>5, <1>6 DEF ClientStep

\* The handler makes the network backup before the DHCP backup and both before the
\* timer, although the script may have left network empty meanwhile.
LEMMA PairHandler ==
    ASSUME SysTypeInv, PairInv, RpcStep, UNCHANGED <<monVars, recVars, pageVars>>
    PROVE  PairInv'
<1>0. /\ network # None /\ dhcp # None
      /\ rpc \in {"armTime"} => req.mode = "lan" /\ req.safe
  BY MarkerAssumption DEF SysTypeInv, TypeInv, LanTypeOK, RouterTypeOK, RequestInv, Preparing
<1> USE <1>0, MarkerAssumption DEF PairInv, HandlerInv, LoopInv, TimerBacked, BackupsPaired,
        Up, Copied, Preparing, Committing, Restoring, flash, timer, running, monVars, recVars,
        pageVars
<1>1. CASE Reject
  BY <1>1 DEF Reject
<1>2. CASE PlanGuarded
  BY <1>2 DEF PlanGuarded
<1>3. CASE PlanDirect
  BY <1>3 DEF PlanDirect
<1>4. CASE PlanOther
  BY <1>4 DEF PlanOther
<1>5. CASE CreateNetBak
  BY <1>5 DEF CreateNetBak
<1>6. CASE BackupNet
  BY <1>6 DEF BackupNet
<1>7. CASE CreateDhcpBak
  BY <1>7 DEF CreateDhcpBak
<1>8. CASE BackupDhcp
  BY <1>8 DEF BackupDhcp
<1>9. CASE ArmTarget
  BY <1>9 DEF ArmTarget
<1>10. CASE ArmTime
  BY <1>10 DEF ArmTime
<1>11. CASE CommitNet
  BY <1>11 DEF CommitNet
<1>12. CASE CommitDhcp
  BY <1>12 DEF CommitDhcp
<1> QED
  BY <1>1, <1>2, <1>3, <1>4, <1>5, <1>6, <1>7, <1>8, <1>9, <1>10, <1>11, <1>12
     DEF RpcStep

\* The radar removes timer and backups together; the rollback removes the timer
\* first, and its job the backups, when no request has armed another.
LEMMA PairRadar ==
    ASSUME SysTypeInv, PairInv, RadarStep
    PROVE  PairInv'
<1>t. rpc \in RpcStates
  BY DEF SysTypeInv, TypeInv, LanTypeOK, RpcTypeOK
<1> USE MarkerAssumption DEF PairInv, HandlerInv, LoopInv, TimerBacked, BackupsPaired, Up,
        Copied, Preparing, Committing, Restoring, flash, timer, running, rpcVars, recVars,
        pageVars
<1>0. UNCHANGED <<rpcVars, recVars, pageVars>>
  BY DEF RadarStep
<1>1. CASE ClockRuns
  BY <1>0, <1>1 DEF ClockRuns, TimerDue, monVars
<1>2. CASE Scan
  BY <1>0, <1>2 DEF Scan
<1>3. CASE Defuse
  BY <1>0, <1>3 DEF Defuse
<1>4. CASE Clock
  BY <1>t, <1>0, <1>4 DEF Clock, RpcStates
<1>5. CASE Expire
  BY <1>0, <1>5 DEF Expire
<1>6. CASE Restore
  BY <1>0, <1>6 DEF Restore
<1>7. CASE FillNet
  BY <1>0, <1>7 DEF FillNet
<1>8. CASE RestoreDhcp
  BY <1>0, <1>8 DEF RestoreDhcp
<1>9. CASE FinishRestore
  BY <1>0, <1>9 DEF FinishRestore
<1>10. CASE JobRestart
  BY <1>0, <1>10 DEF JobRestart
<1>11. CASE JobCleanup
  BY <1>0, <1>11 DEF JobCleanup
<1> QED
  BY <1>1, <1>2, <1>3, <1>4, <1>5, <1>6, <1>7, <1>8, <1>9, <1>10, <1>11
     DEF RadarStep, MonStep, JobStep

\* The boot script removes both backups with one command, when nothing else works.
LEMMA PairBoot ==
    ASSUME PairInv, BootStep, UNCHANGED lanOnly
    PROVE  PairInv'
<1> USE MarkerAssumption DEF PairInv, HandlerInv, LoopInv, TimerBacked, BackupsPaired, Up,
        Copied, Preparing, Committing, Restoring, timer, lanOnly, rpcVars, monVars, pageVars
<1>1. CASE BootNet
  BY <1>1 DEF BootNet
<1>2. CASE BootFillNet
  BY <1>2 DEF BootFillNet
<1>3. CASE BootDhcp
  BY <1>3 DEF BootDhcp
<1>4. CASE BootFillDhcp
  BY <1>4 DEF BootFillDhcp
<1>5. CASE BootClean
  BY <1>5 DEF BootClean
<1>6. CASE BootWan
  BY <1>6 DEF BootWan
<1>7. CASE BootFillWan
  BY <1>7 DEF BootFillWan
<1>8. CASE BootCleanWan
  BY <1>8 DEF BootCleanWan
<1>9. CASE BootStart
  BY <1>9 DEF BootStart, flash
<1> QED
  BY <1>1, <1>2, <1>3, <1>4, <1>5, <1>6, <1>7, <1>8, <1>9 DEF BootStep

\* Steps that write no LAN backup, timer or process of the LAN change nothing here.
LEMMA PairIdle ==
    ASSUME PairInv, UNCHANGED <<netBak, dhcpBak, timer, boot, lanOnly>>
    PROVE  PairInv'
BY DEF PairInv, HandlerInv, LoopInv, TimerBacked, BackupsPaired, Up, timer, lanOnly, rpcVars,
   monVars, pageVars

\* Every step keeps the order in which backups and timers come and go.
LEMMA PairNext ==
    ASSUME ~Overlap, SysTypeInv, PairInv, [SysNext]_sysVars
    PROVE  PairInv'
<1>1. CASE ClientStep
  BY <1>1, PairClient
<1>2. CASE PluginStep
  <2>1. CASE RpcStep
    BY <1>2, <2>1, PairHandler DEF PluginStep
  <2>2. CASE ApplyJob
    BY <1>2, <2>2 DEF PluginStep, ApplyJob, flash, timer, monVars, pageVars, PairInv,
       HandlerInv, LoopInv, TimerBacked, BackupsPaired, Up
  <2> QED
    BY <1>2, <2>1, <2>2 DEF PluginStep
<1>3. CASE RadarStep
  BY <1>3, PairRadar
<1>4. CASE ScriptStep /\ UNCHANGED lanOnly
  BY <1>4, ScriptLeaves, PairIdle
<1>5. CASE CycleStep
  BY <1>5, PairIdle DEF CycleStep, LoopCycle, Cycle, flash
<1>6. CASE SysRespawn
  BY <1>6 DEF SysRespawn, Respawn, rpcVars, pageVars, flash, timer, PairInv, HandlerInv,
     LoopInv, TimerBacked, BackupsPaired, Up, Restoring
<1>7. CASE SysBoot
  BY <1>7, PairBoot DEF SysBoot
<1>8. CASE SysPowerLoss
  BY <1>8 DEF SysPowerLoss, RouterDies, TornFlash, RpcDies, MonDies, PageDies, PairInv,
     HandlerInv, LoopInv, TimerBacked, BackupsPaired, Up, Copied, Preparing, Committing,
     Restoring
<1>9. CASE UNCHANGED sysVars
  BY <1>9, PairIdle DEF sysVars, lanOnly, flash
<1> QED
  BY <1>1, <1>2, <1>3, <1>4, <1>5, <1>6, <1>7, <1>8, <1>9 DEF SysNext

\* Patient calls (~Overlap) keep the order, also with late confirms, torn backups,
\* respawns, power losses and any detection script.
LEMMA PairAlways ==
    ASSUME ~Overlap
    PROVE  SysSafetySpec => []PairInv
<1>1. SysInit => SysTypeInv /\ PairInv
  BY PairInit, SysInits, TypeInvInit, WanTypeInit DEF SysTypeInv
<1>2. SysTypeInv /\ PairInv /\ [SysNext]_sysVars => (SysTypeInv /\ PairInv)'
  BY SysTypeNext, PairNext
<1> QED
  BY <1>1, <1>2, PTL DEF SysSafetySpec

\* An armed rollback timer always has a network backup to go back to, although the
\* detection script copies network back and forth meanwhile.
THEOREM TimersBacked ==
    ASSUME ~Overlap
    PROVE  SysSafetySpec => []TimerBacked
<1>1. PairInv => TimerBacked
  BY DEF PairInv
<1> QED
  BY <1>1, PairAlways, PTL

\* No DHCP backup is ever left without the network backup that rollback and boot
\* script look for first.
THEOREM Paired ==
    ASSUME ~Overlap
    PROVE  SysSafetySpec => []BackupsPaired
<1>1. PairInv => BackupsPaired
  BY DEF PairInv
<1> QED
  BY <1>1, PairAlways, PTL

-----------------------------------------------------------------------------
(* What the WAN detection promises on its own it keeps in company.         *)

\* The LAN's processes take the script's backup away, and never bring one.
LEMMA LanTakes ==
    ASSUME LanSide
    PROVE  wanBak' \in {wanBak, None}
<1>1. ASSUME ClientStep PROVE wanBak' \in {wanBak, None}
  BY <1>1 DEF ClientStep, Apply, Receive, KnockAnswered, Confirm, ConfirmFiles, Jump, GiveUp,
     Browse, flash
<1>2. ASSUME PluginStep PROVE wanBak' \in {wanBak, None}
  BY <1>2 DEF PluginStep, RpcStep, ApplyJob, Reject, PlanGuarded, PlanDirect, PlanOther,
     CreateNetBak, BackupNet, CreateDhcpBak, BackupDhcp, ArmTarget, ArmTime, CommitNet,
     CommitDhcp, flash
<1>3. ASSUME RadarStep PROVE wanBak' \in {wanBak, None}
  BY <1>3 DEF RadarStep, ClockRuns, TimerDue, MonStep, JobStep, Scan, Defuse, Clock, Expire,
     Restore, FillNet, RestoreDhcp, FinishRestore, JobRestart, JobCleanup, flash
<1> QED
  BY <1>1, <1>2, <1>3 DEF LanSide

\* The lock and the trap need nothing that a request, a confirm or the radar removes.
LEMMA EngineLan ==
    ASSUME EngineInv, LanSide
    PROVE  EngineInv'
<1>1. UNCHANGED <<lock, boot, pc, resume, poller>>
  BY LanLeaves DEF autoVars, recVars
<1>2. SoloInv' /\ LockInv'
  BY <1>1 DEF EngineInv, SoloInv, LockInv, Up
<1>3. TrapInv'
  BY <1>1, LanTakes DEF EngineInv, TrapInv
<1> QED
  BY <1>2, <1>3 DEF EngineInv

\* Until somebody signals it, the script is alone in the whole system.
LEMMA SysAlone ==
    ASSUME ~TwoStarters
    PROVE  SysSafetySpec => [](SysTypeInv /\ (Unsignalled => EngineInv))
<1>1. SysInit => SysTypeInv /\ (Unsignalled => EngineInv)
  BY SysInits, TypeInvInit, WanTypeInit, EngineInvInit DEF SysTypeInv
<1>2. SysTypeInv /\ (Unsignalled => EngineInv) /\ [SysNext]_sysVars
      => (SysTypeInv /\ (Unsignalled => EngineInv))'
  <2> SUFFICES ASSUME SysTypeInv, Unsignalled => EngineInv, [SysNext]_sysVars
               PROVE  (SysTypeInv /\ (Unsignalled => EngineInv))'
    OBVIOUS
  <2>1. CASE LanSide
    <3>1. signals' = signals
      BY <2>1, LanLeaves DEF autoVars
    <3> QED
      BY <2>1, <3>1, SysTypeNext, EngineLan DEF Unsignalled
  <2>2. CASE [WanNext]_wanVars
    BY <2>2, SysTypeNext, EngineInvNext DEF SysTypeInv
  <2> QED
    BY <2>1, <2>2, WanSide
<1> QED
  BY <1>1, <1>2, PTL DEF SysSafetySpec

\* No request, confirm, rollback or respawn makes the script's trap undo a probe: in
\* the whole system, too, an unsignalled instance only unlocks.
THEOREM SysTrapUnlocks == ASSUME ~TwoStarters PROVE SysSafetySpec => []TrapOnlyUnlocks
<1>1. (Unsignalled => EngineInv) => TrapOnlyUnlocks
  BY DEF Unsignalled, EngineInv, TrapInv, TrapOnlyUnlocks
<1> QED
  BY <1>1, SysAlone, PTL

\* Without SIGTERMs at most one instance of the script probes, whatever requests,
\* confirms, rollbacks, respawns, kills and power losses come between.
THEOREM SysExclusive ==
    ASSUME ~TwoStarters, MaxTerms = 0
    PROVE  SysSafetySpec => []OneEngine
<1> DEFINE Inv == SysTypeInv /\ signals.term = 0
<1>1. SysInit => Inv
  BY SysInits, TypeInvInit, WanTypeInit DEF SysTypeInv, WanInit, AutoInit
<1>2. Inv /\ [SysNext]_sysVars => Inv'
  <2> SUFFICES ASSUME Inv, [SysNext]_sysVars PROVE Inv'
    OBVIOUS
  <2>1. CASE LanSide
    BY <2>1, SysTypeNext, LanLeaves DEF autoVars
  <2>2. CASE [WanNext]_wanVars
    BY <2>2, SysTypeNext, NoTerms DEF SysTypeInv
  <2> QED
    BY <2>1, <2>2, WanSide
<1>3. Inv /\ (Unsignalled => EngineInv) => OneEngine
  BY DEF Unsignalled, EngineInv, SoloInv, OneEngine, Probing
<1> HIDE DEF Inv
<1> QED
  BY <1>1, <1>2, <1>3, SysAlone, PTL DEF SysSafetySpec

\* The debounce counts only its own readings, whatever the LAN side does.
LEMMA CountLan ==
    ASSUME CountInv, LanSide
    PROVE  CountInv'
<1>1. UNCHANGED <<lock, boot, pc, resume, poller, crashes, downs, streak>>
  BY LanLeaves DEF autoVars, recVars, debVars
<1> QED
  BY <1>1 DEF CountInv, Up

\* Until a power loss a bouncing link starts no script in the whole system: no
\* request, rollback or respawn of the loop adds a reading or keeps an old count.
THEOREM SysDebounced == SysSafetySpec => StartsDebounced
<1> DEFINE Inv == SysTypeInv /\ CountInv
           Fair == Cycle /\ pc' # pc /\ crashes = 0 => streak >= Threshold
<1>1. SysInit => Inv
  <2>1. SysInit => CountInv
    BY SysInits DEF WanInit, RouterInit, AutoInit, DebInit, RecInit, CountInv, Up, Starting
  <2> QED
    BY <2>1, SysInits, TypeInvInit, WanTypeInit DEF SysTypeInv
<1>2. Inv /\ [SysNext]_sysVars => Inv'
  <2> SUFFICES ASSUME Inv, [SysNext]_sysVars PROVE Inv'
    OBVIOUS
  <2>1. CASE LanSide
    BY <2>1, SysTypeNext, CountLan
  <2>2. CASE [WanNext]_wanVars
    BY <2>2, SysTypeNext, CountNext DEF SysTypeInv
  <2> QED
    BY <2>1, <2>2, WanSide
<1>3. Inv => [Fair]_wanVars
  <2> SUFFICES ASSUME Inv, Cycle, pc' # pc, crashes = 0
               PROVE  streak >= Threshold
    OBVIOUS
  <2>1. streak \in Nat /\ downs \in Nat /\ downs <= streak
    BY DEF SysTypeInv, WanTypeInv, WanTypeOK, DebTypeOK, CountInv
  <2> QED
    BY <2>1 DEF Cycle, Threshold
<1>4. SysSafetySpec => []Inv
  <2> HIDE DEF Inv
  <2> QED
    BY <1>1, <1>2, PTL DEF SysSafetySpec
<1>5. []Inv => [][Fair]_wanVars
  <2> HIDE DEF Inv, Fair
  <2> QED
    BY <1>3, PTL
<1> QED
  BY <1>4, <1>5 DEF StartsDebounced
=============================================================================

--------------------------- MODULE NetwizLan_proofs --------------------------
(***************************************************************************)
(* Proofs about the LAN fail-safe, for any set of addresses and any number *)
(* of calls, power losses and respawns.                                    *)
(***************************************************************************)
EXTENDS NetwizLanInv, TLAPS

-----------------------------------------------------------------------------
(* What the operators of NetwizRouter return.                              *)

\* Every configuration file has a LAN address or none (LanOf).
LEMMA LanOfType == \A cfg : LanOf(cfg) \in Addr \cup {None}
BY DEF LanOf, NetCfg

\* A request of each mode has the fields that mode uses (set_network).
LEMMA RequestFields ==
    ASSUME NEW r \in Request
    PROVE  /\ r.mode \in {"lan", "wan", "wizard", "wifi", "set_wizard"}
           /\ r.dhcp \in Dhcp /\ r.safe \in BOOLEAN /\ r.valid \in BOOLEAN
           /\ r.mode = "lan" => r.ip \in Addr
           /\ r.mode \in {"wan", "wizard"} => r.wan \in Wan
BY DEF Request, LanRequest, WanRequest, WizardRequest, OtherRequest, Dhcp

-----------------------------------------------------------------------------
(* Type correctness, for every value of the constants.                     *)

\* The initial files and processes are well typed.
LEMMA TypeInvInit == LanInit => TypeInv
<1> SUFFICES ASSUME LanInit PROVE TypeInv
  OBVIOUS
<1> USE DEF LanInit, RouterInit, RpcInit, MonInit, RecInit, PageInit
<1>1. RouterTypeOK
  BY DEF RouterTypeOK, Dhcp
<1>2. RpcTypeOK /\ MonTypeOK
  BY DEF RpcTypeOK, MonTypeOK, RpcStates, MonStates
<1>3. RecTypeOK /\ PageTypeOK
  BY DEF RecTypeOK, PageTypeOK, BootStates
<1>4. RequestInv
  BY DEF RequestInv, Preparing, Committing
<1> QED
  BY <1>1, <1>2, <1>3, <1>4 DEF TypeInv, LanTypeOK

\* The set_network handler writes only values its files can hold.
LEMMA TypeInvRpc ==
    ASSUME TypeInv, RpcStep, UNCHANGED <<monVars, recVars, pageVars>>
    PROVE  TypeInv'
<1> USE DEF TypeInv, LanTypeOK, RouterTypeOK, RpcTypeOK, MonTypeOK, RecTypeOK,
            PageTypeOK, RequestInv, RpcStates, Preparing, Committing, flash, timer,
            running, monVars, recVars, pageVars
<1>1. CASE Reject
  BY <1>1 DEF Reject
<1>2. CASE PlanGuarded
  BY <1>2 DEF PlanGuarded, Guarded
<1>3. CASE PlanDirect
  BY <1>3 DEF PlanDirect
<1>4. CASE PlanOther
  BY <1>4 DEF PlanOther
<1>5. CASE CreateNetBak
  BY <1>5 DEF CreateNetBak
<1>6. CASE BackupNet
  BY <1>6 DEF BackupNet
<1>7. CASE CreateDhcpBak
  BY <1>7 DEF CreateDhcpBak
<1>8. CASE BackupDhcp
  BY <1>8 DEF BackupDhcp
<1>9. CASE ArmTarget
  BY <1>9, RequestFields DEF ArmTarget
<1>10. CASE ArmTime
  BY <1>10 DEF ArmTime
<1>11. CASE CommitNet
  BY <1>11, RequestFields DEF CommitNet, EditedNetwork, NetCfg
<1>12. CASE CommitDhcp
  BY <1>12, RequestFields DEF CommitDhcp, EditedDhcp
<1> QED
  BY <1>1, <1>2, <1>3, <1>4, <1>5, <1>6, <1>7, <1>8, <1>9, <1>10, <1>11, <1>12
     DEF RpcStep

\* A request comes from LanRequest and its like, so the page keeps the
\* types.
LEMMA TypeInvClient ==
    ASSUME TypeInv, ClientStep
    PROVE  TypeInv'
<1> USE DEF TypeInv, LanTypeOK, RouterTypeOK, RpcTypeOK, MonTypeOK, RecTypeOK,
            PageTypeOK, RequestInv, Preparing, Committing, flash, timer, running,
            rpcVars, monVars, recVars, pageVars
<1>0. UNCHANGED <<monVars, recVars>>
  BY DEF ClientStep
<1>1. CASE (Overlap \/ Settled) /\ \E r \in Request : Apply(r)
  BY <1>0, <1>1, LanOfType, RequestFields, MarkerAssumption DEF Apply, Knocks,
     Receive, RpcStates
<1>2. CASE KnockAnswered
  BY <1>0, <1>2 DEF KnockAnswered
<1>3. CASE Confirm
  BY <1>0, <1>3 DEF Confirm, ConfirmFiles
<1>4. CASE Jump
  BY <1>0, <1>4 DEF Jump
<1>5. CASE GiveUp
  BY <1>0, <1>5 DEF GiveUp
<1>6. CASE Browse
  BY <1>0, <1>6, LanOfType DEF Browse
<1> QED
  BY <1>1, <1>2, <1>3, <1>4, <1>5, <1>6 DEF ClientStep

\* The restart job loads what the file holds.
LEMMA TypeInvApply ==
    ASSUME TypeInv, ApplyJob, UNCHANGED <<monVars, recVars, pageVars>>
    PROVE  TypeInv'
<1> USE DEF TypeInv, LanTypeOK, RouterTypeOK, RpcTypeOK, MonTypeOK, RecTypeOK,
            PageTypeOK, RequestInv, Preparing, Committing, flash, timer, running,
            rpcVars, monVars, recVars, pageVars
<1> QED
  BY DEF ApplyJob, LoadNetwork

\* The radar, the rollback and its job keep the types.
LEMMA TypeInvRadar ==
    ASSUME TypeInv, RadarStep
    PROVE  TypeInv'
<1> USE DEF TypeInv, LanTypeOK, RouterTypeOK, RpcTypeOK, MonTypeOK, RecTypeOK,
            PageTypeOK, RequestInv, Preparing, Committing, flash, timer, running,
            rpcVars, monVars, recVars, pageVars
<1>0. UNCHANGED <<rpcVars, recVars, pageVars>>
  BY DEF RadarStep
<1>1. CASE ClockRuns
  BY <1>0, <1>1 DEF ClockRuns, TimerDue
<1>2. CASE Scan
  BY <1>0, <1>2 DEF Scan, MonStates
<1>3. CASE Defuse
  BY <1>0, <1>3 DEF Defuse, MonStates
<1>4. CASE Clock
  BY <1>0, <1>4 DEF Clock, MonStates
<1>5. CASE Expire
  BY <1>0, <1>5 DEF Expire, MonStates
<1>6. CASE Restore
  BY <1>0, <1>6 DEF Restore, MonStates
<1>7. CASE FillNet
  BY <1>0, <1>7 DEF FillNet, CatOf, MonStates
<1>8. CASE RestoreDhcp
  BY <1>0, <1>8 DEF RestoreDhcp, MonStates
<1>9. CASE FinishRestore
  BY <1>0, <1>9 DEF FinishRestore, CatOf, MonStates
<1>10. CASE JobRestart
  BY <1>0, <1>10 DEF JobRestart, LoadNetwork
<1>11. CASE JobCleanup
  BY <1>0, <1>11 DEF JobCleanup
<1> QED
  BY <1>1, <1>2, <1>3, <1>4, <1>5, <1>6, <1>7, <1>8, <1>9, <1>10, <1>11
     DEF RadarStep, MonStep, JobStep

\* The boot script keeps the types.
LEMMA TypeInvBoot ==
    ASSUME TypeInv, BootStep, UNCHANGED <<rpcVars, monVars, pageVars>>
    PROVE  TypeInv'
<1> USE DEF TypeInv, LanTypeOK, RouterTypeOK, RpcTypeOK, MonTypeOK, RecTypeOK,
            PageTypeOK, RequestInv, Preparing, Committing, flash, timer, running,
            rpcVars, monVars, recVars, pageVars
<1>1. CASE BootNet
  BY <1>1 DEF BootNet, BootStates
<1>2. CASE BootFillNet
  BY <1>2 DEF BootFillNet, CatOf, BootStates
<1>3. CASE BootDhcp
  BY <1>3 DEF BootDhcp, BootStates
<1>4. CASE BootFillDhcp
  BY <1>4 DEF BootFillDhcp, CatOf, BootStates
<1>5. CASE BootClean
  BY <1>5 DEF BootClean, BootStates
<1>6. CASE BootWan
  BY <1>6 DEF BootWan, BootStates
<1>7. CASE BootFillWan
  BY <1>7 DEF BootFillWan, CatOf, BootStates
<1>8. CASE BootCleanWan
  BY <1>8 DEF BootCleanWan, BootStates
<1>9. CASE BootStart
  BY <1>9 DEF BootStart, LoadNetwork, BootStates
<1> QED
  BY <1>1, <1>2, <1>3, <1>4, <1>5, <1>6, <1>7, <1>8, <1>9 DEF BootStep

\* Every step keeps the types.
LEMMA TypeInvNext ==
    ASSUME TypeInv, [LanNext]_lanVars
    PROVE  TypeInv'
<1>1. CASE ClientStep
  BY <1>1, TypeInvClient
<1>2. CASE PluginStep
  BY <1>2, TypeInvRpc, TypeInvApply DEF PluginStep
<1>3. CASE RadarStep
  BY <1>3, TypeInvRadar
<1> USE DEF TypeInv, LanTypeOK, RouterTypeOK, RpcTypeOK, MonTypeOK, RecTypeOK,
            PageTypeOK, RequestInv, Preparing, Committing, flash, timer, running,
            rpcVars, monVars, recVars, pageVars
<1>4. CASE Respawn /\ UNCHANGED <<rpcVars, recVars, pageVars>>
  BY <1>4 DEF Respawn, MonStates
<1>5. CASE BootStep /\ UNCHANGED <<rpcVars, monVars, pageVars>>
  BY <1>5, TypeInvBoot
<1>6. CASE LanPowerLoss
  <2>1. RouterTypeOK'
    BY <1>6 DEF LanPowerLoss, RouterDies
  <2>2. RpcTypeOK' /\ RequestInv'
    BY <1>6 DEF LanPowerLoss, RpcDies, RpcStates
  <2>3. MonTypeOK' /\ RecTypeOK'
    BY <1>6 DEF LanPowerLoss, RouterDies, MonDies, MonStates, BootStates
  <2>4. PageTypeOK'
    BY <1>6 DEF LanPowerLoss, PageDies
  <2> QED
    BY <2>1, <2>2, <2>3, <2>4
<1>7. CASE UNCHANGED lanVars
  BY <1>7 DEF lanVars
<1> QED
  BY <1>1, <1>2, <1>3, <1>4, <1>5, <1>6, <1>7 DEF LanNext

\* Whatever the constants are, every variable of the LAN fail-safe keeps the
\* values its file, timer or process can hold (LanTypeOK), and a request that
\* is committed is one that has something to commit (set_network).
THEOREM TypeCorrect == LanSafetySpec => []LanTypeOK
<1>1. LanInit => TypeInv
  BY TypeInvInit
<1>2. TypeInv /\ [LanNext]_lanVars => TypeInv'
  BY TypeInvNext
<1>3. TypeInv => LanTypeOK
  BY DEF TypeInv
<1> QED
  BY <1>1, <1>2, <1>3, PTL DEF LanSafetySpec

-----------------------------------------------------------------------------
(* The inductive invariant.                                                 *)

\* No request, timer, rollback or boot script is at work initially.
LEMMA SafeInvInit == LanInit => SafeInv
<1> SUFFICES ASSUME LanInit PROVE SafeInv
  OBVIOUS
<1>1. TypeInv
  BY TypeInvInit
<1>2. StepInv
  BY MarkerAssumption
     DEF LanInit, RouterInit, RpcInit, MonInit, RecInit, PageInit, StepInv, FilesInv, RpcInv,
         TimerInv, RollbackInv, BootInv, PageInv, Whole, Up, Preparing, Restoring, Dhcp
<1> QED
  BY <1>1, <1>2 DEF SafeInv

\* The handler prepares a backup before it arms the timer, and arms it
\* before it commits.
LEMMA SafeInvRpc ==
    ASSUME PlainUse, SafeInv, RpcStep, UNCHANGED <<monVars, recVars, pageVars>>
    PROVE  StepInv'
<1> USE MarkerAssumption
    DEF SafeInv, TypeInv, StepInv, PlainUse, LanTypeOK, RouterTypeOK, RpcTypeOK,
            MonTypeOK, RecTypeOK, PageTypeOK, RequestInv, FilesInv, RpcInv, TimerInv,
            RollbackInv, BootInv, PageInv, Whole, Up, Preparing, Committing, Restoring,
            flash, timer, running, rpcVars, monVars, recVars, pageVars
<1>1. CASE Reject
  BY <1>1 DEF Reject
<1>2. CASE PlanGuarded
  BY <1>2 DEF PlanGuarded, Guarded
<1>3. CASE PlanDirect
  BY <1>3 DEF PlanDirect
<1>4. CASE PlanOther
  BY <1>4 DEF PlanOther
<1>5. CASE CreateNetBak
  BY <1>5 DEF CreateNetBak
<1>6. CASE BackupNet
  BY <1>6, MarkerAssumption DEF BackupNet
<1>7. CASE CreateDhcpBak
  BY <1>7 DEF CreateDhcpBak
<1>8. CASE BackupDhcp
  BY <1>8, MarkerAssumption DEF BackupDhcp
<1>9. CASE ArmTarget
  BY <1>9 DEF ArmTarget
<1>10. CASE ArmTime
  BY <1>10, MarkerAssumption DEF ArmTime
<1>11. CASE CommitNet
  BY <1>11, RequestFields DEF CommitNet, EditedNetwork, NetCfg
<1>12. CASE CommitDhcp
  BY <1>12, MarkerAssumption, RequestFields DEF CommitDhcp, EditedDhcp
<1> QED
  BY <1>1, <1>2, <1>3, <1>4, <1>5, <1>6, <1>7, <1>8, <1>9, <1>10, <1>11, <1>12
     DEF RpcStep

\* The restart job touches no file.
LEMMA SafeInvApply ==
    ASSUME PlainUse, SafeInv, ApplyJob, UNCHANGED <<monVars, recVars, pageVars>>
    PROVE  StepInv'
<1> USE MarkerAssumption
    DEF SafeInv, TypeInv, StepInv, PlainUse, LanTypeOK, RouterTypeOK, RpcTypeOK,
            MonTypeOK, RecTypeOK, PageTypeOK, RequestInv, FilesInv, RpcInv, TimerInv,
            RollbackInv, BootInv, PageInv, Whole, Up, Preparing, Committing, Restoring,
            flash, timer, running, rpcVars, monVars, recVars, pageVars
<1> QED
  BY DEF ApplyJob, LoadNetwork

\* A call finds nothing of an earlier one, and a confirm finds whole
\* files.
LEMMA SafeInvClient ==
    ASSUME PlainUse, SafeInv, ClientStep
    PROVE  StepInv'
<1> USE MarkerAssumption
    DEF SafeInv, TypeInv, StepInv, PlainUse, LanTypeOK, RouterTypeOK, RpcTypeOK,
            MonTypeOK, RecTypeOK, PageTypeOK, RequestInv, FilesInv, RpcInv, TimerInv,
            RollbackInv, BootInv, PageInv, Whole, Up, Preparing, Committing, Restoring,
            flash, timer, running, rpcVars, monVars, recVars, pageVars
<1>0. UNCHANGED <<monVars, recVars>>
  BY DEF ClientStep
<1>1. CASE (Overlap \/ Settled) /\ \E r \in Request : Apply(r)
  BY <1>0, <1>1, LanOfType, RequestFields DEF Settled, Apply, Knocks, Receive
<1>2. CASE KnockAnswered
  BY <1>0, <1>2 DEF KnockAnswered
<1>3. CASE Confirm
  BY <1>0, <1>3 DEF Confirm, ConfirmFiles
<1>4. CASE Jump
  BY <1>0, <1>4 DEF Jump
<1>5. CASE GiveUp
  BY <1>0, <1>5 DEF GiveUp
<1>6. CASE Browse
  BY <1>0, <1>6 DEF Browse
<1> QED
  BY <1>1, <1>2, <1>3, <1>4, <1>5, <1>6
     DEF ClientStep

\* The rollback tears the files only while their backups are there.
LEMMA SafeInvRadar ==
    ASSUME PlainUse, SafeInv, RadarStep
    PROVE  StepInv'
<1> USE MarkerAssumption
    DEF SafeInv, TypeInv, StepInv, PlainUse, LanTypeOK, RouterTypeOK, RpcTypeOK,
            MonTypeOK, RecTypeOK, PageTypeOK, RequestInv, FilesInv, RpcInv, TimerInv,
            RollbackInv, BootInv, PageInv, Whole, Up, Preparing, Committing, Restoring,
            flash, timer, running, rpcVars, monVars, recVars, pageVars
<1>0. UNCHANGED <<rpcVars, recVars, pageVars>>
  BY DEF RadarStep
<1>1. CASE ClockRuns
  BY <1>0, <1>1, MarkerAssumption DEF ClockRuns, TimerDue
<1>2. CASE Scan
  BY <1>0, <1>2 DEF Scan
<1>3. CASE Defuse
  BY <1>0, <1>3 DEF Defuse
<1>4. CASE Clock
  BY <1>0, <1>4, MarkerAssumption DEF Clock
<1>5. CASE Expire
  BY <1>0, <1>5 DEF Expire
<1>6. CASE Restore
  BY <1>0, <1>6, MarkerAssumption DEF Restore
<1>7. CASE FillNet
  BY <1>0, <1>7, MarkerAssumption DEF FillNet, CatOf
<1>8. CASE RestoreDhcp
  BY <1>0, <1>8, MarkerAssumption DEF RestoreDhcp
<1>9. CASE FinishRestore
  BY <1>0, <1>9, MarkerAssumption DEF FinishRestore, CatOf
<1>10. CASE JobRestart
  BY <1>0, <1>10 DEF JobRestart, LoadNetwork
<1>11. CASE JobCleanup
  BY <1>0, <1>11 DEF JobCleanup
<1> QED
  BY <1>1, <1>2, <1>3, <1>4, <1>5, <1>6, <1>7, <1>8, <1>9, <1>10, <1>11
     DEF RadarStep, MonStep, JobStep

\* The boot script tears the files only while their backups are there.
LEMMA SafeInvBoot ==
    ASSUME PlainUse, SafeInv, BootStep, UNCHANGED <<rpcVars, monVars, pageVars>>
    PROVE  StepInv'
<1> USE MarkerAssumption
    DEF SafeInv, TypeInv, StepInv, PlainUse, LanTypeOK, RouterTypeOK, RpcTypeOK,
            MonTypeOK, RecTypeOK, PageTypeOK, RequestInv, FilesInv, RpcInv, TimerInv,
            RollbackInv, BootInv, PageInv, Whole, Up, Preparing, Committing, Restoring,
            flash, timer, running, rpcVars, monVars, recVars, pageVars
<1>1. CASE BootNet
  BY <1>1, MarkerAssumption DEF BootNet
<1>2. CASE BootFillNet
  BY <1>2, MarkerAssumption DEF BootFillNet, CatOf
<1>3. CASE BootDhcp
  BY <1>3, MarkerAssumption DEF BootDhcp
<1>4. CASE BootFillDhcp
  BY <1>4, MarkerAssumption DEF BootFillDhcp, CatOf
<1>5. CASE BootClean
  BY <1>5 DEF BootClean
<1>6. CASE BootWan
  BY <1>6 DEF BootWan
<1>7. CASE BootFillWan
  BY <1>7 DEF BootFillWan
<1>8. CASE BootCleanWan
  BY <1>8 DEF BootCleanWan
<1>9. CASE BootStart
  BY <1>9 DEF BootStart, LoadNetwork
<1> QED
  BY <1>1, <1>2, <1>3, <1>4, <1>5, <1>6, <1>7, <1>8, <1>9
     DEF BootStep

\* A respawn forgets the loop's command but none of the files.
LEMMA SafeInvRespawn ==
    ASSUME PlainUse, SafeInv, Respawn, UNCHANGED <<rpcVars, recVars, pageVars>>
    PROVE  StepInv'
<1> USE MarkerAssumption
    DEF SafeInv, TypeInv, StepInv, PlainUse, LanTypeOK, RouterTypeOK, RpcTypeOK,
            MonTypeOK, RecTypeOK, PageTypeOK, RequestInv, FilesInv, RpcInv, TimerInv,
            RollbackInv, BootInv, PageInv, Whole, Up, Preparing, Committing, Restoring,
            flash, timer, running, rpcVars, monVars, recVars, pageVars
<1> QED
  BY DEF Respawn

\* A power loss at any command leaves what the boot script needs.
LEMMA SafeInvPowerLoss ==
    ASSUME PlainUse, SafeInv, LanPowerLoss
    PROVE  StepInv'
<1> USE MarkerAssumption
    DEF SafeInv, TypeInv, StepInv, PlainUse, LanTypeOK, RouterTypeOK, RpcTypeOK,
            MonTypeOK, RecTypeOK, PageTypeOK, RequestInv, FilesInv, RpcInv, TimerInv,
            RollbackInv, BootInv, PageInv, Whole, Up, Preparing, Committing, Restoring,
            flash, timer, running, rpcVars, monVars, recVars, pageVars
<1>1. FilesInv'
  BY DEF LanPowerLoss, RouterDies, RpcDies, MonDies, PageDies
<1>2. RpcInv'
  BY DEF LanPowerLoss, RouterDies, RpcDies, MonDies, PageDies
<1>3. TimerInv'
  BY DEF LanPowerLoss, RouterDies, RpcDies, MonDies, PageDies
<1>4. RollbackInv'
  BY DEF LanPowerLoss, RouterDies, RpcDies, MonDies, PageDies
<1>5. BootInv'
  BY DEF LanPowerLoss, RouterDies, RpcDies, MonDies, PageDies
<1>6. PageInv'
  BY DEF LanPowerLoss, RouterDies, RpcDies, MonDies, PageDies
<1> QED
  BY <1>1, <1>2, <1>3, <1>4, <1>5, <1>6

\* Every step keeps the invariant behind AlwaysRecoverable.
LEMMA SafeInvNext ==
    ASSUME PlainUse, SafeInv, [LanNext]_lanVars
    PROVE  SafeInv'
<1>1. TypeInv'
  BY TypeInvNext DEF SafeInv
<1>2. StepInv'
  <2>1. CASE ClientStep
    BY <2>1, SafeInvClient
  <2>2. CASE PluginStep
    BY <2>2, SafeInvRpc, SafeInvApply DEF PluginStep
  <2>3. CASE RadarStep
    BY <2>3, SafeInvRadar
  <2>4. CASE Respawn /\ UNCHANGED <<rpcVars, recVars, pageVars>>
    BY <2>4, SafeInvRespawn
  <2>5. CASE BootStep /\ UNCHANGED <<rpcVars, monVars, pageVars>>
    BY <2>5, SafeInvBoot
  <2>6. CASE LanPowerLoss
    BY <2>6, SafeInvPowerLoss
  <2>7. CASE UNCHANGED lanVars
    BY <2>7 DEF SafeInv, StepInv, FilesInv, RpcInv, TimerInv, RollbackInv, BootInv,
       PageInv,
                Whole, Up, lanVars, flash, timer, running, rpcVars, monVars, recVars, pageVars
  <2> QED
    BY <2>1, <2>2, <2>3, <2>4, <2>5, <2>6, <2>7 DEF LanNext
<1> QED
  BY <1>1, <1>2 DEF SafeInv

-----------------------------------------------------------------------------
(* The part of the invariant that consent needs.                            *)

\* Nothing is armed or connected initially.
LEMMA ConsentInvInit == LanInit => ConsentInv
<1> SUFFICES ASSUME LanInit PROVE ConsentInv
  OBVIOUS
<1> QED
  BY MarkerAssumption
     DEF LanInit, RouterInit, RpcInit, MonInit, RecInit, PageInit, ConsentInv, AgreeInv,
         Agree, TargetInv, ClientInv, BackupInv, Up, Preparing, Committing

\* The handler arms the address it is about to commit, which is not the
\* one that runs.
LEMMA ConsentInvRpc ==
    ASSUME PlainUse, LanInv, RpcStep, UNCHANGED <<monVars, recVars, pageVars>>
    PROVE  ConsentInv'
<1> USE MarkerAssumption
    DEF LanInv, ConsentInv, AgreeInv, Agree, TargetInv, ClientInv, BackupInv,
        SafeInv, TypeInv, StepInv, PlainUse, LanTypeOK, RouterTypeOK, RpcTypeOK,
        MonTypeOK, RecTypeOK, PageTypeOK, RequestInv, FilesInv, RpcInv, TimerInv,
        RollbackInv, BootInv, PageInv, Whole, Up, Preparing, Committing, Restoring,
        flash, timer, running, rpcVars, monVars, recVars, pageVars
<1>1. CASE Reject
  BY <1>1 DEF Reject
<1>2. CASE PlanGuarded
  BY <1>2 DEF PlanGuarded, Guarded
<1>3. CASE PlanDirect
  BY <1>3 DEF PlanDirect
<1>4. CASE PlanOther
  BY <1>4 DEF PlanOther
<1>5. CASE CreateNetBak
  BY <1>5 DEF CreateNetBak
<1>6. CASE BackupNet
  BY <1>6 DEF BackupNet
<1>7. CASE CreateDhcpBak
  BY <1>7 DEF CreateDhcpBak
<1>8. CASE BackupDhcp
  BY <1>8 DEF BackupDhcp
<1>9. CASE ArmTarget
  BY <1>9, RequestFields DEF ArmTarget
<1>10. CASE ArmTime
  BY <1>10, LanOfType, RequestFields DEF ArmTime
<1>11. CASE CommitNet
  BY <1>11, RequestFields DEF CommitNet, EditedNetwork, NetCfg, LanOf
<1>12. CASE CommitDhcp
  BY <1>12, RequestFields DEF CommitDhcp, EditedDhcp, Restarts
<1> QED
  BY <1>1, <1>2, <1>3, <1>4, <1>5, <1>6, <1>7, <1>8, <1>9, <1>10, <1>11, <1>12
     DEF RpcStep

\* The restart brings the address on disk, and cuts connections to the old
\* one.
LEMMA ConsentInvApply ==
    ASSUME PlainUse, LanInv, ApplyJob, UNCHANGED <<monVars, recVars, pageVars>>
    PROVE  ConsentInv'
<1> USE MarkerAssumption
    DEF LanInv, ConsentInv, AgreeInv, Agree, TargetInv, ClientInv, BackupInv,
        SafeInv, TypeInv, StepInv, PlainUse, LanTypeOK, RouterTypeOK, RpcTypeOK,
        MonTypeOK, RecTypeOK, PageTypeOK, RequestInv, FilesInv, RpcInv, TimerInv,
        RollbackInv, BootInv, PageInv, Whole, Up, Preparing, Committing, Restoring,
        flash, timer, running, rpcVars, monVars, recVars, pageVars
<1> QED
  BY DEF ApplyJob, LoadNetwork

\* A client connects only to the address that runs, and has then reached
\* it.
LEMMA ConsentInvClient ==
    ASSUME PlainUse, LanInv, ClientStep
    PROVE  ConsentInv'
<1> USE MarkerAssumption
    DEF LanInv, ConsentInv, AgreeInv, Agree, TargetInv, ClientInv, BackupInv,
        SafeInv, TypeInv, StepInv, PlainUse, LanTypeOK, RouterTypeOK, RpcTypeOK,
        MonTypeOK, RecTypeOK, PageTypeOK, RequestInv, FilesInv, RpcInv, TimerInv,
        RollbackInv, BootInv, PageInv, Whole, Up, Preparing, Committing, Restoring,
        flash, timer, running, rpcVars, monVars, recVars, pageVars
<1>0. UNCHANGED <<monVars, recVars>>
  BY DEF ClientStep
<1>1. CASE (Overlap \/ Settled) /\ \E r \in Request : Apply(r)
  BY <1>0, <1>1, LanOfType, RequestFields DEF Settled, Apply, Knocks, Receive
<1>2. CASE KnockAnswered
  BY <1>0, <1>2 DEF KnockAnswered
<1>3. CASE Confirm
  BY <1>0, <1>3 DEF Confirm, ConfirmFiles
<1>4. CASE Jump
  BY <1>0, <1>4 DEF Jump
<1>5. CASE GiveUp
  BY <1>0, <1>5 DEF GiveUp
<1>6. CASE Browse
  BY <1>0, <1>6 DEF Browse
<1> QED
  BY <1>1, <1>2, <1>3, <1>4, <1>5, <1>6
     DEF ClientStep

\* The radar disarms only for the target, the job cleans up only equal
\* files.
LEMMA ConsentInvRadar ==
    ASSUME PlainUse, LanInv, RadarStep
    PROVE  ConsentInv'
<1> USE MarkerAssumption
    DEF LanInv, ConsentInv, AgreeInv, Agree, TargetInv, ClientInv, BackupInv,
        SafeInv, TypeInv, StepInv, PlainUse, LanTypeOK, RouterTypeOK, RpcTypeOK,
        MonTypeOK, RecTypeOK, PageTypeOK, RequestInv, FilesInv, RpcInv, TimerInv,
        RollbackInv, BootInv, PageInv, Whole, Up, Preparing, Committing, Restoring,
        flash, timer, running, rpcVars, monVars, recVars, pageVars
<1>0. UNCHANGED <<rpcVars, recVars, pageVars>>
  BY DEF RadarStep
<1>1. CASE ClockRuns
  BY <1>0, <1>1 DEF ClockRuns, TimerDue
<1>2. CASE Scan
  BY <1>0, <1>2 DEF Scan
<1>3. CASE Defuse
  BY <1>0, <1>3 DEF Defuse
<1>4. CASE Clock
  BY <1>0, <1>4 DEF Clock
<1>5. CASE Expire
  BY <1>0, <1>5 DEF Expire
<1>6. CASE Restore
  BY <1>0, <1>6 DEF Restore
<1>7. CASE FillNet
  BY <1>0, <1>7 DEF FillNet, CatOf
<1>8. CASE RestoreDhcp
  BY <1>0, <1>8 DEF RestoreDhcp
<1>9. CASE FinishRestore
  BY <1>0, <1>9 DEF FinishRestore, CatOf
<1>10. CASE JobRestart
  BY <1>0, <1>10 DEF JobRestart, LoadNetwork
<1>11. CASE JobCleanup
  BY <1>0, <1>11 DEF JobCleanup
<1> QED
  BY <1>1, <1>2, <1>3, <1>4, <1>5, <1>6, <1>7, <1>8, <1>9, <1>10, <1>11
     DEF RadarStep, MonStep, JobStep

\* The boot script removes only backups it has restored.
LEMMA ConsentInvBoot ==
    ASSUME PlainUse, LanInv, BootStep, UNCHANGED <<rpcVars, monVars, pageVars>>
    PROVE  ConsentInv'
<1> USE MarkerAssumption
    DEF LanInv, ConsentInv, AgreeInv, Agree, TargetInv, ClientInv, BackupInv,
        SafeInv, TypeInv, StepInv, PlainUse, LanTypeOK, RouterTypeOK, RpcTypeOK,
        MonTypeOK, RecTypeOK, PageTypeOK, RequestInv, FilesInv, RpcInv, TimerInv,
        RollbackInv, BootInv, PageInv, Whole, Up, Preparing, Committing, Restoring,
        flash, timer, running, rpcVars, monVars, recVars, pageVars
<1>1. CASE BootNet
  BY <1>1 DEF BootNet
<1>2. CASE BootFillNet
  BY <1>2 DEF BootFillNet, CatOf
<1>3. CASE BootDhcp
  BY <1>3 DEF BootDhcp
<1>4. CASE BootFillDhcp
  BY <1>4 DEF BootFillDhcp, CatOf
<1>5. CASE BootClean
  BY <1>5 DEF BootClean
<1>6. CASE BootWan
  BY <1>6 DEF BootWan
<1>7. CASE BootFillWan
  BY <1>7 DEF BootFillWan
<1>8. CASE BootCleanWan
  BY <1>8 DEF BootCleanWan
<1>9. CASE BootStart
  BY <1>9, LanOfType DEF BootStart, LoadNetwork
<1> QED
  BY <1>1, <1>2, <1>3, <1>4, <1>5, <1>6, <1>7, <1>8, <1>9
     DEF BootStep

\* A respawn changes no file and no connection.
LEMMA ConsentInvRespawn ==
    ASSUME PlainUse, LanInv, Respawn, UNCHANGED <<rpcVars, recVars, pageVars>>
    PROVE  ConsentInv'
<1> USE MarkerAssumption
    DEF LanInv, ConsentInv, AgreeInv, Agree, TargetInv, ClientInv, BackupInv,
        SafeInv, TypeInv, StepInv, PlainUse, LanTypeOK, RouterTypeOK, RpcTypeOK,
        MonTypeOK, RecTypeOK, PageTypeOK, RequestInv, FilesInv, RpcInv, TimerInv,
        RollbackInv, BootInv, PageInv, Whole, Up, Preparing, Committing, Restoring,
        flash, timer, running, rpcVars, monVars, recVars, pageVars
<1> QED
  BY DEF Respawn

\* A power loss cuts the connections and forgets the timer.
LEMMA ConsentInvPowerLoss ==
    ASSUME PlainUse, LanInv, LanPowerLoss
    PROVE  ConsentInv'
<1> USE MarkerAssumption
    DEF LanInv, ConsentInv, AgreeInv, Agree, TargetInv, ClientInv, BackupInv,
        SafeInv, TypeInv, StepInv, PlainUse, LanTypeOK, RouterTypeOK, RpcTypeOK,
        MonTypeOK, RecTypeOK, PageTypeOK, RequestInv, FilesInv, RpcInv, TimerInv,
        RollbackInv, BootInv, PageInv, Whole, Up, Preparing, Committing, Restoring,
        flash, timer, running, rpcVars, monVars, recVars, pageVars
<1> QED
  BY DEF LanPowerLoss, RouterDies, RpcDies, MonDies, PageDies, LanOf

\* Every step keeps the inductive invariant.
LEMMA LanInvNext ==
    ASSUME PlainUse, LanInv, [LanNext]_lanVars
    PROVE  LanInv'
<1>1. SafeInv'
  BY SafeInvNext DEF LanInv
<1>2. ConsentInv'
  <2>1. CASE ClientStep
    BY <2>1, ConsentInvClient
  <2>2. CASE PluginStep
    BY <2>2, ConsentInvRpc, ConsentInvApply DEF PluginStep
  <2>3. CASE RadarStep
    BY <2>3, ConsentInvRadar
  <2>4. CASE Respawn /\ UNCHANGED <<rpcVars, recVars, pageVars>>
    BY <2>4, ConsentInvRespawn
  <2>5. CASE BootStep /\ UNCHANGED <<rpcVars, monVars, pageVars>>
    BY <2>5, ConsentInvBoot
  <2>6. CASE LanPowerLoss
    BY <2>6, ConsentInvPowerLoss
  <2>7. CASE UNCHANGED lanVars
    BY <2>7 DEF LanInv, ConsentInv, AgreeInv, Agree, TargetInv, ClientInv,
       BackupInv, Up,
                lanVars, flash, timer, running, rpcVars, monVars, recVars, pageVars
  <2> QED
    BY <2>1, <2>2, <2>3, <2>4, <2>5, <2>6, <2>7 DEF LanNext
<1> QED
  BY <1>1, <1>2 DEF LanInv

\* The inductive invariant holds initially.
LEMMA LanInvInit == LanInit => LanInv
BY SafeInvInit, ConsentInvInit DEF LanInv

-----------------------------------------------------------------------------
(* What a step can do to the configuration that survives a power loss.      *)

\* Nothing, though the files of an open trial may change.
Quiet ==
    /\ Durable' = Durable
    /\ netBak = None <=> netBak' = None
    /\ netBak = None => Disk' = Disk

\* A trial begins with a backup of the files.
Opens == netBak = None /\ netBak' # None /\ Durable' = Durable /\ Disk' = Disk

\* A trial ends because a client has reached the address on disk.
Accepts ==
    /\ netBak # None /\ netBak' = None
    /\ network # Empty /\ network.lan \in reached
    /\ Disk \in NetCfg \X Dhcp /\ Durable' = Disk /\ Disk' = Disk

\* A trial ends because the files are the backups again.
Abandons == netBak # None /\ netBak' = None /\ Durable = Disk /\ Durable' = Disk
            /\ Disk' = Disk

\* The handler commits a change without a trial.
Direct == netBak = None /\ netBak' = None /\ Durable' = Disk' /\ rpc \in Committing
          /\ target = None

Kind == Quiet \/ Opens \/ Accepts \/ Abandons \/ Direct

\* The handler opens a trial or commits directly.
LEMMA KindRpc ==
    ASSUME PlainUse, LanInv, LanInv', RpcStep, UNCHANGED <<monVars, recVars, pageVars>>
    PROVE  Kind
<1> USE MarkerAssumption
    DEF LanInv, ConsentInv, AgreeInv, Agree, TargetInv, ClientInv, BackupInv,
        SafeInv, TypeInv, StepInv, PlainUse, LanTypeOK, RouterTypeOK, RpcTypeOK,
        MonTypeOK, RecTypeOK, PageTypeOK, RequestInv, FilesInv, RpcInv, TimerInv,
        RollbackInv, BootInv, PageInv, Whole, Up, Preparing, Committing, Restoring,
        flash, timer, running, rpcVars, monVars, recVars, pageVars, Durable, Disk,
        Quiet, Opens, Accepts, Abandons, Direct, Kind
<1>1. ASSUME Reject
      PROVE  Quiet
  BY <1>1 DEF Reject
<1>2. ASSUME PlanGuarded
      PROVE  Quiet
  BY <1>2 DEF PlanGuarded
<1>3. ASSUME PlanDirect
      PROVE  Quiet
  BY <1>3 DEF PlanDirect
<1>4. ASSUME PlanOther
      PROVE  Quiet
  BY <1>4 DEF PlanOther
<1>5. ASSUME CreateNetBak
      PROVE  Quiet
  BY <1>5 DEF CreateNetBak
<1>6. ASSUME BackupNet
      PROVE  Opens
  BY <1>6 DEF BackupNet
<1>7. ASSUME CreateDhcpBak
      PROVE  Quiet
  BY <1>7 DEF CreateDhcpBak
<1>8. ASSUME BackupDhcp
      PROVE  Quiet
  BY <1>8 DEF BackupDhcp
<1>9. ASSUME ArmTarget
      PROVE  Quiet
  BY <1>9 DEF ArmTarget
<1>10. ASSUME ArmTime
      PROVE  Quiet
  BY <1>10 DEF ArmTime
<1>11. ASSUME CommitNet
      PROVE  Quiet \/ Direct
  BY <1>11 DEF CommitNet
<1>12. ASSUME CommitDhcp
      PROVE  Quiet \/ Direct
  BY <1>12 DEF CommitDhcp
<1> QED
  BY <1>1, <1>2, <1>3, <1>4, <1>5, <1>6, <1>7, <1>8, <1>9, <1>10, <1>11, <1>12
     DEF RpcStep

\* A confirm at most abandons a trial that the rollback has undone.
LEMMA KindClient ==
    ASSUME PlainUse, LanInv, LanInv', ClientStep
    PROVE  Kind
<1> USE MarkerAssumption
    DEF LanInv, ConsentInv, AgreeInv, Agree, TargetInv, ClientInv, BackupInv,
        SafeInv, TypeInv, StepInv, PlainUse, LanTypeOK, RouterTypeOK, RpcTypeOK,
        MonTypeOK, RecTypeOK, PageTypeOK, RequestInv, FilesInv, RpcInv, TimerInv,
        RollbackInv, BootInv, PageInv, Whole, Up, Preparing, Committing, Restoring,
        flash, timer, running, rpcVars, monVars, recVars, pageVars, Durable, Disk,
        Quiet, Opens, Accepts, Abandons, Direct, Kind
<1>0. UNCHANGED <<monVars, recVars>>
  BY DEF ClientStep
<1>1. ASSUME (Overlap \/ Settled) /\ \E r \in Request : Apply(r)
      PROVE  Quiet
  BY <1>0, <1>1 DEF Settled, Apply, Receive
<1>2. ASSUME KnockAnswered
      PROVE  Quiet
  BY <1>0, <1>2 DEF KnockAnswered
<1>3. ASSUME Confirm
      PROVE  Quiet \/ Abandons
  BY <1>0, <1>3 DEF Confirm, ConfirmFiles
<1>4. ASSUME Jump
      PROVE  Quiet
  BY <1>0, <1>4 DEF Jump
<1>5. ASSUME GiveUp
      PROVE  Quiet
  BY <1>0, <1>5 DEF GiveUp
<1>6. ASSUME Browse
      PROVE  Quiet
  BY <1>0, <1>6 DEF Browse
<1> QED
  BY <1>1, <1>2, <1>3, <1>4, <1>5, <1>6
     DEF ClientStep

\* The radar accepts a reached address, the rollback's job abandons the
\* trial.
LEMMA KindRadar ==
    ASSUME PlainUse, LanInv, LanInv', RadarStep
    PROVE  Kind
<1> USE MarkerAssumption
    DEF LanInv, ConsentInv, AgreeInv, Agree, TargetInv, ClientInv, BackupInv,
        SafeInv, TypeInv, StepInv, PlainUse, LanTypeOK, RouterTypeOK, RpcTypeOK,
        MonTypeOK, RecTypeOK, PageTypeOK, RequestInv, FilesInv, RpcInv, TimerInv,
        RollbackInv, BootInv, PageInv, Whole, Up, Preparing, Committing, Restoring,
        flash, timer, running, rpcVars, monVars, recVars, pageVars, Durable, Disk,
        Quiet, Opens, Accepts, Abandons, Direct, Kind
<1>0. UNCHANGED <<rpcVars, recVars, pageVars>>
  BY DEF RadarStep
<1>1. ASSUME ClockRuns
      PROVE  Quiet
  BY <1>0, <1>1 DEF ClockRuns, TimerDue
<1>2. ASSUME Scan
      PROVE  Quiet
  BY <1>0, <1>2 DEF Scan
<1>3. ASSUME Defuse
      PROVE  Accepts
  BY <1>0, <1>3 DEF Defuse, LanOf
<1>4. ASSUME Clock
      PROVE  Quiet
  BY <1>0, <1>4 DEF Clock
<1>5. ASSUME Expire
      PROVE  Quiet
  BY <1>0, <1>5 DEF Expire
<1>6. ASSUME Restore
      PROVE  Quiet
  BY <1>0, <1>6 DEF Restore
<1>7. ASSUME FillNet
      PROVE  Quiet
  BY <1>0, <1>7 DEF FillNet
<1>8. ASSUME RestoreDhcp
      PROVE  Quiet
  BY <1>0, <1>8 DEF RestoreDhcp
<1>9. ASSUME FinishRestore
      PROVE  Quiet
  BY <1>0, <1>9 DEF FinishRestore
<1>10. ASSUME JobRestart
      PROVE  Quiet
  BY <1>0, <1>10 DEF JobRestart, LoadNetwork
<1>11. ASSUME JobCleanup
      PROVE  Quiet \/ Abandons
  BY <1>0, <1>11 DEF JobCleanup
<1> QED
  BY <1>1, <1>2, <1>3, <1>4, <1>5, <1>6, <1>7, <1>8, <1>9, <1>10, <1>11
     DEF RadarStep, MonStep, JobStep

\* The boot script abandons an interrupted trial.
LEMMA KindBoot ==
    ASSUME PlainUse, LanInv, LanInv', BootStep, UNCHANGED <<rpcVars, monVars, pageVars>>
    PROVE  Kind
<1> USE MarkerAssumption
    DEF LanInv, ConsentInv, AgreeInv, Agree, TargetInv, ClientInv, BackupInv,
        SafeInv, TypeInv, StepInv, PlainUse, LanTypeOK, RouterTypeOK, RpcTypeOK,
        MonTypeOK, RecTypeOK, PageTypeOK, RequestInv, FilesInv, RpcInv, TimerInv,
        RollbackInv, BootInv, PageInv, Whole, Up, Preparing, Committing, Restoring,
        flash, timer, running, rpcVars, monVars, recVars, pageVars, Durable, Disk,
        Quiet, Opens, Accepts, Abandons, Direct, Kind
<1>1. ASSUME BootNet
      PROVE  Quiet
  BY <1>1 DEF BootNet
<1>2. ASSUME BootFillNet
      PROVE  Quiet
  BY <1>2 DEF BootFillNet
<1>3. ASSUME BootDhcp
      PROVE  Quiet
  BY <1>3 DEF BootDhcp
<1>4. ASSUME BootFillDhcp
      PROVE  Quiet
  BY <1>4 DEF BootFillDhcp
<1>5. ASSUME BootClean
      PROVE  Abandons
  BY <1>5 DEF BootClean
<1>6. ASSUME BootWan
      PROVE  Quiet
  BY <1>6 DEF BootWan
<1>7. ASSUME BootFillWan
      PROVE  Quiet
  BY <1>7 DEF BootFillWan
<1>8. ASSUME BootCleanWan
      PROVE  Quiet
  BY <1>8 DEF BootCleanWan
<1>9. ASSUME BootStart
      PROVE  Quiet
  BY <1>9 DEF BootStart, LoadNetwork
<1> QED
  BY <1>1, <1>2, <1>3, <1>4, <1>5, <1>6, <1>7, <1>8, <1>9
     DEF BootStep

\* Every step is one of the five kinds.
LEMMA KindNext ==
    ASSUME PlainUse, LanInv, LanInv', [LanNext]_lanVars
    PROVE  Kind
<1>1. CASE ClientStep
  BY <1>1, KindClient
<1>2. CASE PluginStep
  <2>1. CASE RpcStep
    BY <1>2, <2>1, KindRpc DEF PluginStep
  <2>2. CASE ApplyJob
    BY <2>2 DEF ApplyJob, Kind, Quiet, Durable, Disk, flash
  <2> QED
    BY <1>2, <2>1, <2>2 DEF PluginStep
<1>3. CASE RadarStep
  BY <1>3, KindRadar
<1>4. CASE Respawn /\ UNCHANGED <<rpcVars, recVars, pageVars>>
  BY <1>4 DEF Respawn, Kind, Quiet, Durable, Disk, flash
<1>5. CASE BootStep /\ UNCHANGED <<rpcVars, monVars, pageVars>>
  BY <1>5, KindBoot
<1>6. CASE LanPowerLoss
  BY <1>6 DEF LanPowerLoss, Kind, Quiet, Durable, Disk, flash
<1>7. CASE UNCHANGED lanVars
  BY <1>7 DEF lanVars, Kind, Quiet, Durable, Disk, flash
<1> QED
  BY <1>1, <1>2, <1>3, <1>4, <1>5, <1>6, <1>7 DEF LanNext

\* Between requests the durable configuration is the one on disk.
LEMMA DurableIsDisk ==
    ASSUME LanInv, netBak = None
    PROVE  Durable = Disk /\ Disk \in NetCfg \X Dhcp
BY MarkerAssumption
   DEF LanInv, SafeInv, StepInv, FilesInv, TypeInv, LanTypeOK, RouterTypeOK, Durable, Disk

-----------------------------------------------------------------------------
(* The theorems.                                                            *)

\* The whole of NetwizLanInv holds of every state of set_network, confirm, the
\* radar, the rollback and the boot script.
THEOREM Inductive == ASSUME PlainUse PROVE LanSafetySpec => []LanInv
<1>1. LanInit => LanInv
  BY LanInvInit
<1>2. LanInv /\ [LanNext]_lanVars => LanInv'
  BY LanInvNext
<1> QED
  BY <1>1, <1>2, PTL DEF LanSafetySpec

\* Power may fail at any command of the handler, the rollback, its job or the
\* boot script: the boot script always makes complete files of what is left.
THEOREM Recoverable == ASSUME PlainUse PROVE LanSafetySpec => []AlwaysRecoverable
<1>1. LanInv => AlwaysRecoverable
  BY MarkerAssumption
     DEF LanInv, SafeInv, StepInv, FilesInv, TypeInv, LanTypeOK, RouterTypeOK,
         AlwaysRecoverable, Durable
<1> QED
  BY <1>1, Inductive, PTL

\* When no backup is left, neither file has been left torn by a rollback.
THEOREM Intact == ASSUME PlainUse PROVE LanSafetySpec => []DisarmedIntact
<1>1. LanInv => DisarmedIntact
  BY DEF LanInv, SafeInv, StepInv, FilesInv, DisarmedIntact
<1> QED
  BY <1>1, Inductive, PTL

\* What survives a power loss changes only when a client has reached the new
\* address, or when the handler commits a change made without the timer.
THEOREM Consent == ASSUME PlainUse PROVE LanSafetySpec => DurableByConsent
<1> DEFINE Consented ==
      Durable' # Durable =>
         \/ Durable' = Disk /\ network.lan \in reached
         \/ rpc \in {"commitNet", "commitDhcp"} /\ target = None
<1>1. LanInv /\ LanInv' /\ [LanNext]_lanVars => [Consented]_lanVars
  <2> SUFFICES ASSUME LanInv, LanInv', [LanNext]_lanVars PROVE Consented
    OBVIOUS
  <2> QED
    BY KindNext DEF Kind, Quiet, Opens, Accepts, Abandons, Direct, Committing
<1> QED
  BY <1>1, Inductive, PTL DEF LanSafetySpec, DurableByConsent

\* The safety part of NetwizTrial is implemented: a configuration on trial is
\* accepted only if a client has reached it, and otherwise given up.
THEOREM Refinement == ASSUME PlainUse PROVE LanSafetySpec => TrialRefined
<1>1. LanInit => Trial!TrialInit
  BY MarkerAssumption
     DEF LanInit, RouterInit, Trial!TrialInit, Durable, Disk, Dhcp
<1>2. LanInv /\ LanInv' /\ [LanNext]_lanVars => [Trial!TrialNext]_(Trial!trialVars)
  <2> SUFFICES ASSUME LanInv, LanInv', [LanNext]_lanVars PROVE Trial!TrialNext
    OBVIOUS
  <2>1. Kind
    BY KindNext
  <2>2. CASE Quiet /\ netBak # None
    BY <2>2 DEF Quiet, Trial!TrialNext, Trial!Write
  <2>3. CASE Quiet /\ netBak = None
    BY <2>3, DurableIsDisk DEF Quiet, Trial!TrialNext, Trial!SetDirectly
  <2>4. CASE Opens
    BY <2>4 DEF Opens, Trial!TrialNext, Trial!Begin
  <2>5. CASE Accepts
    BY <2>5 DEF Accepts, Trial!TrialNext, Trial!Accept
  <2>6. CASE Abandons
    BY <2>6 DEF Abandons, Trial!TrialNext, Trial!Abandon
  <2>7. CASE Direct
    <3>1. Durable' \in NetCfg \X Dhcp
      BY <2>7, MarkerAssumption
         DEF Direct, LanInv, SafeInv, StepInv, FilesInv, TypeInv, LanTypeOK,
             RouterTypeOK, Disk
    <3> QED
      BY <2>7, <3>1 DEF Direct, Trial!TrialNext, Trial!SetDirectly
  <2> QED
    BY <2>1, <2>2, <2>3, <2>4, <2>5, <2>6, <2>7 DEF Kind
<1> QED
  BY <1>1, <1>2, Inductive, PTL DEF LanSafetySpec, TrialRefined, Trial!TrialSafety

-----------------------------------------------------------------------------
(* Nobody forgets a trial, as long as the loop is not respawned.            *)

\* A step of the plugin keeps WatchInv.
LEMMA WatchInvPlugin ==
    ASSUME PlainUse, LanInv, WatchInv, PluginStep
    PROVE  WatchInv'
<1> USE MarkerAssumption
    DEF LanInv, ConsentInv, BackupInv, SafeInv, TypeInv, StepInv, PlainUse, LanTypeOK,
        RouterTypeOK, RpcTypeOK, FilesInv, RpcInv, TimerInv, RollbackInv, BootInv,
        WatchInv, Up, Preparing, Committing, Restoring, flash, timer, running,
        monVars, recVars, pageVars
<1>0. UNCHANGED <<monVars, recVars, pageVars>>
  BY DEF PluginStep
<1>1. ASSUME Reject \/ PlanGuarded \/ PlanDirect \/ PlanOther
      PROVE  WatchInv'
  BY <1>0, <1>1 DEF Reject, PlanGuarded, PlanDirect, PlanOther
<1>2. ASSUME CreateNetBak \/ BackupNet \/ CreateDhcpBak \/ BackupDhcp
      PROVE  WatchInv'
  BY <1>0, <1>2 DEF CreateNetBak, BackupNet, CreateDhcpBak, BackupDhcp
<1>3. ASSUME ArmTarget \/ ArmTime
      PROVE  WatchInv'
  BY <1>0, <1>3 DEF ArmTarget, ArmTime
<1>4. ASSUME CommitNet \/ CommitDhcp \/ ApplyJob
      PROVE  WatchInv'
  BY <1>0, <1>4 DEF CommitNet, CommitDhcp, ApplyJob
<1> QED
  BY <1>1, <1>2, <1>3, <1>4 DEF PluginStep, RpcStep

\* A step of the clients keeps WatchInv.
LEMMA WatchInvClient ==
    ASSUME PlainUse, LanInv, WatchInv, ClientStep
    PROVE  WatchInv'
<1> USE DEF LanInv, SafeInv, StepInv, PlainUse, FilesInv, RpcInv, BootInv, PageInv, WatchInv,
        Up, Preparing, Restoring, flash, timer, running, rpcVars, monVars, recVars, pageVars
<1>0. UNCHANGED <<monVars, recVars>>
  BY DEF ClientStep
<1>1. ASSUME (Overlap \/ Settled) /\ \E r \in Request : Apply(r)
      PROVE  WatchInv'
  BY <1>0, <1>1 DEF Settled, Apply, Receive
<1>2. ASSUME Confirm
      PROVE  WatchInv'
  BY <1>0, <1>2 DEF Confirm, ConfirmFiles
<1>3. ASSUME KnockAnswered \/ Jump \/ GiveUp \/ Browse
      PROVE  WatchInv'
  BY <1>0, <1>3 DEF KnockAnswered, Jump, GiveUp, Browse
<1> QED
  BY <1>1, <1>2, <1>3 DEF ClientStep

\* A step of the loop or of its job keeps WatchInv.
LEMMA WatchInvRadar ==
    ASSUME PlainUse, LanInv, WatchInv, RadarStep
    PROVE  WatchInv'
<1> USE MarkerAssumption
    DEF LanInv, SafeInv, TypeInv, StepInv, LanTypeOK, MonTypeOK, MonStates, RpcInv, TimerInv,
        RollbackInv, WatchInv, Up, Preparing, Committing, Restoring, flash, timer,
        running, rpcVars, monVars, recVars, pageVars
<1>0. UNCHANGED <<rpcVars, recVars, pageVars>>
  BY DEF RadarStep
<1>1. ASSUME ClockRuns
      PROVE  WatchInv'
  BY <1>0, <1>1 DEF ClockRuns, TimerDue
<1>2. ASSUME Scan \/ Defuse \/ Clock \/ Expire
      PROVE  WatchInv'
  BY <1>0, <1>2 DEF Scan, Defuse, Clock, Expire
<1>3. ASSUME Restore \/ FillNet \/ RestoreDhcp \/ FinishRestore
      PROVE  WatchInv'
  BY <1>0, <1>3 DEF Restore, FillNet, RestoreDhcp, FinishRestore
<1>4. ASSUME JobRestart \/ JobCleanup
      PROVE  WatchInv'
  BY <1>0, <1>4 DEF JobRestart, JobCleanup
<1> QED
  BY <1>1, <1>2, <1>3, <1>4 DEF RadarStep, MonStep, JobStep

\* A step of the boot script keeps WatchInv.
LEMMA WatchInvBoot ==
    ASSUME PlainUse, LanInv, WatchInv, BootStep, UNCHANGED <<rpcVars, monVars, pageVars>>
    PROVE  WatchInv'
<1> USE MarkerAssumption
    DEF LanInv, SafeInv, StepInv, FilesInv, BootInv, WatchInv, Up, Preparing, flash, timer,
        running, rpcVars, monVars, pageVars
<1>1. ASSUME BootNet \/ BootFillNet \/ BootDhcp \/ BootFillDhcp \/ BootClean
      PROVE  WatchInv'
  BY <1>1 DEF BootNet, BootFillNet, BootDhcp, BootFillDhcp, BootClean
<1>2. ASSUME BootWan \/ BootFillWan \/ BootCleanWan \/ BootStart
      PROVE  WatchInv'
  BY <1>2 DEF BootWan, BootFillWan, BootCleanWan, BootStart
<1> QED
  BY <1>1, <1>2 DEF BootStep

\* If procd never has to respawn the loop, files that differ from what a power
\* loss would bring back are under the timer, under a rollback, or in the hands
\* of the rollback's job.
THEOREM Watched ==
    ASSUME PlainUse, MaxKills = 0
    PROVE  LanSafetySpec => []TrialWatched
<1>1. LanInit => WatchInv
  BY DEF LanInit, RouterInit, RpcInit, WatchInv, Preparing
<1>2. LanInv /\ WatchInv /\ [LanNext]_lanVars => WatchInv'
  <2> SUFFICES ASSUME LanInv, WatchInv, [LanNext]_lanVars PROVE WatchInv'
    OBVIOUS
  <2>1. CASE ClientStep
    BY <2>1, WatchInvClient
  <2>2. CASE PluginStep
    BY <2>2, WatchInvPlugin
  <2>3. CASE RadarStep
    BY <2>3, WatchInvRadar
  <2>4. CASE Respawn
    <3>1. kills \in Nat
      BY DEF LanInv, SafeInv, TypeInv, LanTypeOK, MonTypeOK
    <3> QED
      BY <2>4, <3>1 DEF Respawn
  <2>5. CASE BootStep /\ UNCHANGED <<rpcVars, monVars, pageVars>>
    BY <2>5, WatchInvBoot
  <2>6. CASE LanPowerLoss
    BY <2>6 DEF LanPowerLoss, RouterDies, RpcDies, WatchInv, Up, Preparing
  <2>7. CASE UNCHANGED lanVars
    BY <2>7 DEF WatchInv, Up, lanVars, flash, timer, running, rpcVars, monVars, recVars
  <2> QED
    BY <2>1, <2>2, <2>3, <2>4, <2>5, <2>6, <2>7 DEF LanNext
<1>3. LanInv /\ WatchInv => TrialWatched
  <2> SUFFICES ASSUME LanInv, WatchInv, Up, Durable # Disk
               PROVE  \/ target # None /\ deadline # None
                      \/ mon \in Restoring \/ job # "none"
    BY DEF TrialWatched, Restoring
  <2>1. wanBak = None /\ netBak # None
    BY DurableIsDisk DEF LanInv, SafeInv, StepInv, FilesInv
  <2>2. rpc \notin Preparing
    BY <2>1 DEF LanInv, SafeInv, StepInv, RpcInv, WatchInv, Durable, Disk, Preparing
  <2> QED
    BY <2>1, <2>2 DEF LanInv, ConsentInv, TargetInv, WatchInv
<1> QED
  BY <1>1, <1>2, <1>3, Inductive, PTL DEF LanSafetySpec
=============================================================================

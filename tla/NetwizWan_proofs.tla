--------------------------- MODULE NetwizWan_proofs --------------------------
(***************************************************************************)
(* Proofs about the WAN detection, for any set of instances, any line, any *)
(* saved credentials and any number of signals, flips and power losses.    *)
(***************************************************************************)
EXTENDS NetwizWanInv, SequenceTheorems, TLAPS

-----------------------------------------------------------------------------
(* What the operators of NetwizAutodetect return.                          *)

\* The saved credentials name settings the file can hold.
LEMMA UsableType == Usable \subseteq Wan /\ Usable \subseteq {"dhcp", "static", "calc", "pppoe"}
<1>1. StaticTries \in {<<>>, <<"static">>, <<"calc">>, <<"static", "calc">>}
  BY AutodetectAssumption
<1>2. {StaticTries[k] : k \in DOMAIN StaticTries} \subseteq {"static", "calc"}
  BY <1>1
<1> QED
  BY <1>2, AutodetectAssumption DEF Usable

\* The list of settings to try holds only usable ones (wan_detect's order).
LEMMA CandidatesType == \A w : Candidates(w) \in Seq(Usable)
<1>1. StaticTries \in Seq(Usable)
  <2>1. StaticTries \in {<<>>, <<"static">>, <<"calc">>, <<"static", "calc">>}
    BY AutodetectAssumption
  <2>2. \A k \in DOMAIN StaticTries : StaticTries[k] \in Usable
    BY DEF Usable
  <2>3. CASE StaticTries = <<>>
    BY <2>3
  <2>4. CASE StaticTries \in {<<"static">>, <<"calc">>}
    <3>1. PICK w : StaticTries = <<w>>
      BY <2>4
    <3>2. w \in Usable
      BY <2>2, <3>1
    <3> QED
      BY <3>1, <3>2
  <2>5. CASE StaticTries = <<"static", "calc">>
    <3>1. StaticTries[1] \in Usable /\ StaticTries[2] \in Usable
      BY <2>2, <2>5
    <3>2. "static" \in Usable /\ "calc" \in Usable
      BY <2>5, <3>1
    <3> QED
      BY <2>5, <3>2
  <2> QED
    BY <2>1, <2>3, <2>4, <2>5
<1>2. <<"dhcp">> \in Seq(Usable) /\ <<>> \in Seq(Usable)
  BY DEF Usable
<1>3. SavedPppoe => <<"pppoe">> \in Seq(Usable)
  BY DEF Usable
<1> QED
  BY <1>1, <1>2, <1>3 DEF Candidates

\* A sequence of settings has a first one unless it is empty, and loses it.
LEMMA NextSetting ==
    ASSUME NEW s \in Seq(Usable), s # <<>>
    PROVE  Head(s) \in Usable /\ Tail(s) \in Seq(Usable)
OBVIOUS

\* What is usable is one of the settings the script knows.
LEMMA UsableSeq ==
    ASSUME NEW s \in Seq(Usable)
    PROVE  s \in Seq({"dhcp", "static", "calc", "pppoe"})
BY UsableType, SeqMonotonic

\* A setting written into a file leaves a file.
LEMMA SetWanType ==
    ASSUME NEW cfg \in NetCfg, NEW w \in Wan
    PROVE  [cfg EXCEPT !.wan = w] \in NetCfg
BY DEF NetCfg

-----------------------------------------------------------------------------
(* Type correctness, for every value of the constants.                     *)

\* The initial files and processes are well typed.
LEMMA WanTypeInit == WanInit => WanTypeInv
<1> SUFFICES ASSUME WanInit PROVE WanTypeInv
  OBVIOUS
<1> USE DEF WanInit, RouterInit, AutoInit, DebInit, RecInit
<1>1. RouterTypeOK
  BY DEF RouterTypeOK, Dhcp
<1>2. AutoTypeOK
  BY DEF AutoTypeOK, Starting, Probing, Trapping
<1>3. DebTypeOK /\ RecTypeOK
  BY DEF DebTypeOK, RecTypeOK, BootStates, Threshold
<1>4. TriesInv
  BY DEF TriesInv, Trying, Trapping
<1> QED
  BY <1>1, <1>2, <1>3, <1>4 DEF WanTypeInv, WanTypeOK

\* An instance that goes to another command keeps the types, whatever its trap is to
\* resume.
LEMMA AutoTypeMove ==
    ASSUME AutoTypeOK, NEW i \in Inst, UNCHANGED <<tries, carrier, works>>,
           signals' \in [term : Nat, kill : Nat],
           NEW at \in {"off"} \cup Starting \cup Probing \cup Trapping, Goto(i, at),
           NEW back \in {"off"} \cup Starting \cup Probing,
           resume' = resume \/ resume' = [resume EXCEPT ![i] = back]
    PROVE  AutoTypeOK'
<1>1. pc' \in [Inst -> {"off"} \cup Starting \cup Probing \cup Trapping]
  BY DEF AutoTypeOK, Goto
<1>2. resume' \in [Inst -> {"off"} \cup Starting \cup Probing]
  BY DEF AutoTypeOK
<1> QED
  BY <1>1, <1>2 DEF AutoTypeOK

\* Taking or removing the lock is no more than that.
LEMMA RouterTypeLock ==
    ASSUME RouterTypeOK, lock' \in BOOLEAN, UNCHANGED <<flash, timer, running>>
    PROVE  RouterTypeOK'
BY DEF RouterTypeOK, flash, timer, running

\* Every command of the script writes values its files can hold, and has a setting
\* at hand when it uses one.
LEMMA WanTypeEngine ==
    ASSUME WanTypeInv, NEW i \in Inst, EngineOf(i)
    PROVE  WanTypeInv'
<1> USE MarkerAssumption, UsableType
    DEF WanTypeInv, WanTypeOK, RouterTypeOK, AutoTypeOK, DebTypeOK, RecTypeOK, TriesInv,
        flash, timer, running, debVars, recVars, Move, Goto, Starting, Probing, Trapping,
        Trying
<1>0. UNCHANGED <<debVars, recVars>>
  BY DEF EngineOf
<1>1. CASE Orphan(i)
  BY <1>0, <1>1 DEF Orphan, CopyBack
<1>2. CASE Check(i)
  BY <1>0, <1>2 DEF Check
<1>3. CASE Touch(i)
  BY <1>0, <1>3 DEF Touch
<1>4. CASE Wait(i)
  BY <1>0, <1>4 DEF Wait
<1>5. CASE CreateBackup(i)
  BY <1>0, <1>5 DEF CreateBackup
<1>6. CASE Backup(i)
  BY <1>0, <1>6 DEF Backup
<1>7. CASE ReadSaved(i)
  <2>1. RouterTypeOK' /\ DebTypeOK' /\ RecTypeOK'
    BY <1>0, <1>7 DEF ReadSaved
  <2>2. tries' \in [Inst -> Seq(Usable)]
    BY <1>7, CandidatesType DEF ReadSaved
  <2>3. AutoTypeOK'
    BY <1>7, <2>2, UsableSeq DEF ReadSaved
  <2>4. TriesInv'
    BY <1>7, <2>2 DEF ReadSaved
  <2> QED
    BY <2>1, <2>3, <2>4
<1>8. CASE NextTry(i)
  BY <1>0, <1>8 DEF NextTry
<1>9. CASE Copy(i)
  BY <1>0, <1>9 DEF Copy, CopyBack
<1>10. CASE SetProto(i)
  BY <1>0, <1>10, NextSetting, SetWanType DEF SetProto
<1>11. CASE Reload(i)
  BY <1>0, <1>11 DEF Reload, LoadNetwork
<1>12. CASE Probe(i)
  BY <1>0, <1>12, NextSetting DEF Probe
<1>13. CASE Win(i)
  BY <1>0, <1>13 DEF Win
<1>14. CASE Lose(i)
  BY <1>0, <1>14 DEF Lose, CopyBack
<1>15. CASE LoseRm(i)
  BY <1>0, <1>15 DEF LoseRm
<1>16. CASE LoseReload(i)
  BY <1>0, <1>16 DEF LoseReload, LoadNetwork
<1>17. CASE TrapLock(i)
  <2>1. RouterTypeOK'
    <3>1. lock' \in BOOLEAN /\ UNCHANGED <<flash, timer, running>>
      BY <1>17 DEF TrapLock
    <3> QED
      BY <3>1, RouterTypeLock
  <2>2. DebTypeOK' /\ RecTypeOK'
    BY <1>0, <1>17 DEF TrapLock
  <2>3. AutoTypeOK'
    <3>1. Goto(i, "trapBak") /\ resume' = resume
      BY <1>17 DEF TrapLock
    <3>2. UNCHANGED <<tries, carrier, works, signals>>
      BY <1>17 DEF TrapLock
    <3> QED
      BY <3>1, <3>2, AutoTypeMove, Zenon
  <2>4. TriesInv'
    BY <1>17 DEF TrapLock
  <2> QED
    BY <2>1, <2>2, <2>3, <2>4
<1>18. CASE TrapBak(i)
  <2>1. RouterTypeOK' /\ DebTypeOK' /\ RecTypeOK'
    BY <1>0, <1>18 DEF TrapBak, CopyBack, AfterTrap
  <2>2. AutoTypeOK'
    <3>1. CASE wanBak = None
      <4>1. pc' = [pc EXCEPT ![i] = resume[i]] /\ resume' = [resume EXCEPT ![i] = "off"]
        BY <1>18, <3>1 DEF TrapBak, AfterTrap
      <4> QED
        BY <1>18, <4>1 DEF TrapBak
    <3>2. CASE wanBak # None
      <4>1. Goto(i, "trapRm") /\ resume' = resume
        BY <1>18, <3>2 DEF TrapBak
      <4>2. UNCHANGED <<tries, carrier, works, signals>>
        BY <1>18 DEF TrapBak
      <4> QED
        BY <4>1, <4>2, AutoTypeMove
    <3> QED
      BY <3>1, <3>2
  <2>3. TriesInv'
    BY <1>18 DEF TrapBak, CopyBack, AfterTrap
  <2> QED
    BY <2>1, <2>2, <2>3
<1>19. CASE TrapRm(i)
  BY <1>0, <1>19 DEF TrapRm
<1>20. CASE TrapReload(i)
  BY <1>0, <1>20 DEF TrapReload, LoadNetwork, AfterTrap
<1> QED
  BY <1>1, <1>2, <1>3, <1>4, <1>5, <1>6, <1>7, <1>8, <1>9, <1>10, <1>11, <1>12, <1>13, <1>14, <1>15, <1>16, <1>17, <1>18, <1>19, <1>20
     DEF EngineOf, EngineStep

\* Signals, the poller and the cable keep the types.
LEMMA WanTypeScript ==
    ASSUME WanTypeInv, ScriptStep
    PROVE  WanTypeInv'
<1> USE DEF WanTypeInv, WanTypeOK, RouterTypeOK, AutoTypeOK, DebTypeOK, RecTypeOK,
            TriesInv, flash, timer, running, debVars, recVars, Starting, Probing, Trapping,
            Trying
<1>1. CASE \E i \in Inst : EngineOf(i)
  BY <1>1, WanTypeEngine
<1>2. ASSUME NEW i \in Inst, Term(i), UNCHANGED <<debVars, recVars>>
      PROVE  WanTypeInv'
  <2>1. Goto(i, "trap") /\ resume' = [resume EXCEPT ![i] = pc[i]]
        /\ pc[i] \in Starting \cup Probing
    BY <1>2 DEF Term
  <2>2. UNCHANGED <<tries, carrier, works>> /\ signals' \in [term : Nat, kill : Nat]
    <3>1. signals' = [signals EXCEPT !.term = @ + 1] /\ UNCHANGED <<tries, carrier, works>>
      BY <1>2 DEF Term
    <3>2. signals \in [term : Nat, kill : Nat]
      OBVIOUS
    <3> QED
      BY ONLY <3>1, <3>2
  <2>3. AutoTypeOK'
    BY <2>1, <2>2, AutoTypeMove
  <2>4. RouterTypeOK' /\ DebTypeOK' /\ RecTypeOK'
    BY <1>2 DEF Term
  <2>5. TriesInv'
    BY <2>1, <2>2 DEF Goto
  <2> QED
    BY <2>3, <2>4, <2>5
<1>3. ASSUME NEW i \in Inst, Kill9(i), UNCHANGED <<debVars, recVars>>
      PROVE  WanTypeInv'
  BY <1>3 DEF Kill9, Goto
<1>4. CASE PollerSees
  BY <1>4 DEF PollerSees, autoVars
<1>5. CASE PollerStarts
  BY <1>5 DEF PollerStarts, Launch, Goto
<1>6. CASE Flip /\ UNCHANGED recVars
  BY <1>6 DEF Flip
<1> QED
  BY <1>1, <1>2, <1>3, <1>4, <1>5, <1>6 DEF ScriptStep

\* A cycle of the monitor loop keeps the types.
LEMMA WanTypeCycle ==
    ASSUME WanTypeInv, Cycle, UNCHANGED recVars
    PROVE  WanTypeInv'
<1> USE DEF WanTypeInv, WanTypeOK, RouterTypeOK, AutoTypeOK, DebTypeOK, RecTypeOK,
            TriesInv, flash, timer, running, debVars, recVars, Starting, Probing, Trapping,
            Trying, Threshold
<1>1. RouterTypeOK' /\ RecTypeOK'
  BY DEF Cycle
<1>2. DebTypeOK'
  BY DEF Cycle, Saturated
<1>3. CASE UNCHANGED pc
  BY <1>1, <1>2, <1>3 DEF Cycle
<1>4. ASSUME NEW i \in Inst, Launch(i)
      PROVE  WanTypeInv'
  BY <1>1, <1>2, <1>4 DEF Cycle, Launch, Goto
<1> QED
  BY <1>3, <1>4 DEF Cycle

\* The boot script keeps the types.
LEMMA WanTypeBoot ==
    ASSUME WanTypeInv, BootWanStep
    PROVE  WanTypeInv'
<1> USE DEF WanTypeInv, WanTypeOK, RouterTypeOK, DebTypeOK, RecTypeOK, flash, timer, running,
            recVars
<1>1. DebTypeOK'
  <2>1. CASE LoopStarts
    BY <2>1 DEF LoopStarts, AutoTypeOK, Threshold
  <2>2. CASE UNCHANGED debVars
    BY <2>2 DEF debVars
  <2> QED
    BY <2>1, <2>2 DEF BootWanStep
<1>2. AutoTypeOK' /\ TriesInv'
  BY DEF BootWanStep, autoVars, AutoTypeOK, TriesInv
<1>3. RouterTypeOK' /\ RecTypeOK'
  <2>1. CASE BootNet
    BY <2>1 DEF BootNet, BootStates
  <2>2. CASE BootFillNet
    BY <2>2 DEF BootFillNet, CatOf, BootStates
  <2>3. CASE BootDhcp
    BY <2>3 DEF BootDhcp, BootStates
  <2>4. CASE BootFillDhcp
    BY <2>4 DEF BootFillDhcp, CatOf, BootStates
  <2>5. CASE BootClean
    BY <2>5 DEF BootClean, BootStates
  <2>6. CASE BootWan
    BY <2>6 DEF BootWan, BootStates
  <2>7. CASE BootFillWan
    BY <2>7 DEF BootFillWan, CatOf, BootStates
  <2>8. CASE BootCleanWan
    BY <2>8 DEF BootCleanWan, BootStates
  <2>9. CASE BootStart
    BY <2>9 DEF BootStart, LoadNetwork, BootStates
  <2> QED
    BY <2>1, <2>2, <2>3, <2>4, <2>5, <2>6, <2>7, <2>8, <2>9 DEF BootWanStep, BootStep
<1> QED
  BY <1>1, <1>2, <1>3

\* A power loss stops every process and tears at most network.
LEMMA WanTypePower ==
    ASSUME WanTypeInv, WanPowerLoss
    PROVE  WanTypeInv'
<1> USE DEF WanTypeInv, WanTypeOK, WanPowerLoss
<1>1. RouterTypeOK'
  BY DEF RouterTypeOK, RouterDies, TornFlash
<1>2. AutoTypeOK' /\ TriesInv'
  BY DEF AutoTypeOK, TriesInv, AutoDies, Trying, Starting, Probing, Trapping
<1>3. DebTypeOK' /\ RecTypeOK'
  BY DEF DebTypeOK, RecTypeOK, DebDies, RouterDies, BootStates, Threshold
<1> QED
  BY <1>1, <1>2, <1>3

\* Every step keeps the types.
LEMMA WanTypeNext ==
    ASSUME WanTypeInv, [WanNext]_wanVars
    PROVE  WanTypeInv'
<1>1. CASE LoopCycle /\ UNCHANGED recVars
  BY <1>1, WanTypeCycle DEF LoopCycle
<1>2. CASE ScriptStep
  BY <1>2, WanTypeScript
<1>3. CASE BootWanStep
  BY <1>3, WanTypeBoot
<1>4. CASE WanPowerLoss
  BY <1>4, WanTypePower
<1> USE DEF WanTypeInv, WanTypeOK, RouterTypeOK, AutoTypeOK, DebTypeOK, RecTypeOK, TriesInv,
            flash, timer, running, autoVars, debVars, recVars
<1>5. CASE LoopRespawned /\ UNCHANGED recVars
  <2>1. RouterTypeOK' /\ RecTypeOK'
    BY <1>5 DEF LoopRespawned
  <2>2. AutoTypeOK' /\ TriesInv'
    BY <1>5 DEF LoopRespawned
  <2>3. DebTypeOK'
    BY <1>5 DEF LoopRespawned, LoopStarts, Threshold
  <2> QED
    BY <2>1, <2>2, <2>3
<1>6. CASE UNCHANGED wanVars
  BY <1>6 DEF wanVars
<1> QED
  BY <1>1, <1>2, <1>3, <1>4, <1>5, <1>6 DEF WanNext

\* Whatever the constants are, the script, the loop, the poller and the boot script
\* write only values their files and counters can hold (WanTypeOK); no copy leaves the
\* name of a missing backup, and no step uses a setting of an empty list.
THEOREM WanTypeCorrect == WanSafetySpec => []WanTypeOK
<1>1. WanInit => WanTypeInv
  BY WanTypeInit
<1>2. WanTypeInv /\ [WanNext]_wanVars => WanTypeInv'
  BY WanTypeNext
<1>3. WanTypeInv => WanTypeOK
  BY DEF WanTypeInv
<1> QED
  BY <1>1, <1>2, <1>3, PTL DEF WanSafetySpec

-----------------------------------------------------------------------------
(* One instance at a time.                                                  *)

\* Nothing runs initially.
LEMMA EngineInvInit == WanInit => EngineInv
<1> SUFFICES ASSUME WanInit PROVE EngineInv
  OBVIOUS
<1> QED
  BY DEF WanInit, RouterInit, AutoInit, RecInit, EngineInv, SoloInv, LockInv, TrapInv, Up,
         Starting, Probing

\* A command of instance i moves only that instance, which is the only one.
LEMMA Alone ==
    ASSUME WanTypeInv, EngineInv, NEW i \in Inst, EngineOf(i)
    PROVE  /\ Up /\ poller = "none" /\ boot' = boot /\ poller' = poller
           /\ \A j \in Inst \ {i} : pc[j] = "off" /\ pc'[j] = "off"
           /\ resume' = resume
<1> USE DEF WanTypeInv, WanTypeOK, AutoTypeOK, EngineInv, SoloInv, TrapInv, Move, Goto
<1>1. boot' = boot /\ poller' = poller
  BY DEF EngineOf, recVars, EngineStep, Orphan, Check, Touch, Wait, CreateBackup, Backup, ReadSaved, NextTry, Copy, SetProto, Reload, Probe, Win, Lose, LoseRm, LoseReload, TrapLock, TrapBak, TrapRm, TrapReload
<1>2. pc[i] # "off"
  BY DEF EngineStep, EngineOf, Orphan, Check, Touch, Wait, CreateBackup, Backup, ReadSaved, NextTry, Copy, SetProto, Reload, Probe, Win, Lose, LoseRm, LoseReload, TrapLock, TrapBak, TrapRm, TrapReload
<1>3. resume[i] = "off" /\ pc[i] \notin {"trapRm", "trapReload"}
  BY DEF TrapInv
<1>4. resume' = resume
  BY <1>3 DEF EngineStep, EngineOf, AfterTrap, Orphan, Check, Touch, Wait, CreateBackup, Backup, ReadSaved, NextTry, Copy, SetProto, Reload, Probe, Win, Lose, LoseRm, LoseReload, TrapLock, TrapBak, TrapRm, TrapReload
<1>5. \E at : pc' = [pc EXCEPT ![i] = at]
  BY <1>3 DEF EngineStep, EngineOf, AfterTrap, Orphan, Check, Touch, Wait, CreateBackup, Backup, ReadSaved, NextTry, Copy, SetProto, Reload, Probe, Win, Lose, LoseRm, LoseReload, TrapLock, TrapBak, TrapRm, TrapReload
<1> QED
  BY <1>1, <1>2, <1>4, <1>5

\* Every command keeps the lock and the backup as the next one expects them.
LEMMA EngineInvEngine ==
    ASSUME WanTypeInv, EngineInv, NEW i \in Inst, EngineOf(i)
    PROVE  EngineInv'
<1>a. /\ Up /\ poller = "none" /\ boot' = boot /\ poller' = poller
      /\ \A j \in Inst \ {i} : pc[j] = "off" /\ pc'[j] = "off"
      /\ resume' = resume
  BY Alone
<1>b. SoloInv'
  BY <1>a DEF SoloInv, Up
<1>c. network # None
  BY MarkerAssumption DEF WanTypeInv, WanTypeOK, RouterTypeOK
<1> SUFFICES LockInv' /\ TrapInv'
  BY <1>b DEF EngineInv
<1> SUFFICES /\ pc'[i] \in Starting \cup {"trapBak"} => ~lock'
             /\ pc'[i] \in Probing \cup {"trap"} => lock'
             /\ pc'[i] \in {"check", "touch", "wait", "backup", "loseReload", "trap", "trapBak"}
                   => wanBak' = None
             /\ pc'[i] \notin {"trapRm", "trapReload"}
  BY <1>a DEF EngineInv, LockInv, TrapInv, Starting, Probing
<1>d. /\ pc \in [Inst -> {"off"} \cup Starting \cup Probing \cup Trapping]
      /\ resume[i] = "off"
      /\ pc[i] \in Starting \cup {"trapBak"} => ~lock
      /\ pc[i] \in Probing \cup {"trap"} => lock
      /\ pc[i] \in {"check", "touch", "wait", "backup", "loseReload", "trap", "trapBak"}
            => wanBak = None
      /\ pc[i] \notin {"trapRm", "trapReload"}
  BY DEF WanTypeInv, WanTypeOK, AutoTypeOK, EngineInv, LockInv, TrapInv
<1> USE <1>c, <1>d DEF Starting, Probing, Move, Goto, flash
<1>1. CASE Orphan(i)
  BY <1>1 DEF Orphan
<1>2. CASE Check(i)
  BY <1>2 DEF Check
<1>3. CASE Touch(i)
  BY <1>3 DEF Touch
<1>4. CASE Wait(i)
  BY <1>4 DEF Wait
<1>5. CASE CreateBackup(i)
  BY <1>5 DEF CreateBackup
<1>6. CASE Backup(i)
  BY <1>6 DEF Backup
<1>7. CASE ReadSaved(i)
  BY <1>7 DEF ReadSaved
<1>8. CASE NextTry(i)
  BY <1>8 DEF NextTry
<1>9. CASE Copy(i)
  BY <1>9 DEF Copy
<1>10. CASE SetProto(i)
  BY <1>10 DEF SetProto
<1>11. CASE Reload(i)
  BY <1>11 DEF Reload
<1>12. CASE Probe(i)
  BY <1>12 DEF Probe
<1>13. CASE Win(i)
  BY <1>13 DEF Win
<1>14. CASE Lose(i)
  BY <1>14 DEF Lose
<1>15. CASE LoseRm(i)
  BY <1>15 DEF LoseRm
<1>16. CASE LoseReload(i)
  BY <1>16 DEF LoseReload
<1>17. CASE TrapLock(i)
  BY <1>17 DEF TrapLock
<1>18. CASE TrapBak(i)
  BY <1>18 DEF TrapBak, AfterTrap
<1>19. CASE TrapRm(i)
  BY <1>19 DEF TrapRm
<1>20. CASE TrapReload(i)
  BY <1>20 DEF TrapReload, AfterTrap
<1> QED
  BY <1>1, <1>2, <1>3, <1>4, <1>5, <1>6, <1>7, <1>8, <1>9, <1>10, <1>11, <1>12, <1>13, <1>14, <1>15, <1>16, <1>17, <1>18, <1>19, <1>20
     DEF EngineOf, EngineStep

\* Only a signal counts as one, and a step is at most one of them.
LEMMA SignalsOf ==
    ASSUME [WanNext]_wanVars
    PROVE  UNCHANGED signals \/ (\E i \in Inst : Term(i)) \/ (\E i \in Inst : Kill9(i))
<1>1. CASE LoopCycle
  BY <1>1 DEF LoopCycle, Cycle
<1>2. CASE LoopRespawned
  BY <1>2 DEF LoopRespawned, autoVars
<1>3. CASE ScriptStep
  BY <1>3 DEF ScriptStep, EngineOf, EngineStep, Orphan, Check, Touch, Wait, CreateBackup,
     Backup, ReadSaved, NextTry, Copy, SetProto, Reload, Probe, Win, Lose, LoseRm,
     LoseReload, TrapLock, TrapBak, TrapRm, TrapReload, PollerSees, PollerStarts, Flip,
     autoVars
<1>4. CASE BootWanStep
  BY <1>4 DEF BootWanStep, autoVars
<1>5. CASE WanPowerLoss
  BY <1>5 DEF WanPowerLoss, AutoDies
<1>6. CASE UNCHANGED wanVars
  BY <1>6 DEF wanVars, autoVars
<1> QED
  BY <1>1, <1>2, <1>3, <1>4, <1>5, <1>6 DEF WanNext

\* A signalled script has been signalled before: nothing takes a SIGTERM back.
LEMMA SignalsGrow ==
    ASSUME WanTypeInv, [WanNext]_wanVars, signals'.term = 0
    PROVE  signals.term = 0 /\ \A i \in Inst : ~Term(i)
<1>1. signals \in [term : Nat, kill : Nat]
  BY DEF WanTypeInv, WanTypeOK, AutoTypeOK
<1>2. ASSUME NEW i \in Inst, Term(i)
      PROVE  FALSE
  BY <1>1, <1>2 DEF Term
<1>3. ASSUME NEW i \in Inst, Kill9(i)
      PROVE  signals.term = 0
  BY <1>1, <1>3 DEF Kill9
<1> QED
  BY <1>2, <1>3, SignalsOf

\* With no SIGTERM allowed there is none.
LEMMA NoTerms ==
    ASSUME MaxTerms = 0, WanTypeInv, signals.term = 0, [WanNext]_wanVars
    PROVE  signals'.term = 0
<1>1. signals \in [term : Nat, kill : Nat]
  BY DEF WanTypeInv, WanTypeOK, AutoTypeOK
<1>2. \A i \in Inst : ~Term(i)
  BY DEF Term
<1>3. ASSUME NEW i \in Inst, Kill9(i)
      PROVE  signals'.term = 0
  BY <1>1, <1>3 DEF Kill9
<1> QED
  BY <1>2, <1>3, SignalsOf

\* An instance is launched only while no other runs and the lock is free.
LEMMA EngineInvLaunch ==
    ASSUME WanTypeInv, EngineInv, Up, ~lock, NEW i \in Inst, Launch(i),
           \A j \in Inst : pc[j] = "off",
           poller' = "none", UNCHANGED <<boot, lock, wanBak, resume>>
    PROVE  EngineInv'
<1>1. pc' = [pc EXCEPT ![i] = "orphan"] /\ pc \in [Inst -> {"off"} \cup Starting \cup Probing \cup Trapping]
  BY DEF Launch, Goto, WanTypeInv, WanTypeOK, AutoTypeOK
<1>2. pc'[i] = "orphan" /\ \A j \in Inst \ {i} : pc'[j] = "off"
  BY <1>1
<1>3. SoloInv'
  BY <1>2 DEF EngineInv, SoloInv, Up
<1>4. LockInv' /\ TrapInv'
  BY <1>2 DEF EngineInv, LockInv, TrapInv, Starting, Probing
<1> QED
  BY <1>3, <1>4 DEF EngineInv

\* A cycle of the loop that starts the script finds none running: an instance holds
\* the lock, or is among the commands no cycle falls among.
LEMMA EngineInvCycle ==
    ASSUME WanTypeInv, EngineInv, ~TwoStarters, LoopCycle, UNCHANGED recVars
    PROVE  EngineInv'
<1> USE DEF LoopCycle
<1>1. UNCHANGED <<boot, lock, wanBak, resume, poller>>
  BY DEF Cycle, flash, recVars
<1>2. CASE UNCHANGED pc
  BY <1>1, <1>2 DEF EngineInv, SoloInv, LockInv, TrapInv, Up
<1>3. CASE ~UNCHANGED pc
  <2>1. Up /\ ~lock /\ (\E i \in Inst : Launch(i)) /\ \A i \in Inst : ~Brief(i)
    BY <1>3 DEF Cycle
  <2>2. poller = "none"
    BY <1>3
  <2>3. \A j \in Inst : pc[j] = "off"
    BY <2>1 DEF WanTypeInv, WanTypeOK, AutoTypeOK, Brief, EngineInv, LockInv, TrapInv,
       Trapping
  <2> QED
    BY <1>1, <2>1, <2>2, <2>3, EngineInvLaunch
<1> QED
  BY <1>2, <1>3

\* A kill ends the only instance; its lock and its backup stay.
LEMMA EngineInvKill ==
    ASSUME WanTypeInv, EngineInv, NEW i \in Inst, Kill9(i), UNCHANGED recVars
    PROVE  EngineInv'
<1>1. pc' = [pc EXCEPT ![i] = "off"] /\ resume' = [resume EXCEPT ![i] = "off"]
  BY DEF Kill9, Goto
<1>2. UNCHANGED <<boot, lock, wanBak, poller>>
  BY DEF Kill9, flash, recVars
<1> QED
  BY <1>1, <1>2 DEF EngineInv, SoloInv, LockInv, TrapInv, Up, WanTypeInv, WanTypeOK,
     AutoTypeOK, Starting, Probing

\* The boot script runs before everything else and leaves the poller alone.
LEMMA EngineInvBoot ==
    ASSUME WanTypeInv, EngineInv, BootWanStep
    PROVE  EngineInv'
<1>1. UNCHANGED <<pc, resume>>
  BY DEF BootWanStep, autoVars
<1>2. ~Up /\ UNCHANGED lock
  BY DEF BootWanStep, BootStep, Up, BootNet, BootFillNet, BootDhcp, BootFillDhcp, BootClean,
     BootWan, BootFillWan, BootCleanWan, BootStart
<1>3. ~lock /\ \A i \in Inst : pc[i] = "off"
  BY <1>2 DEF EngineInv, SoloInv
<1> QED
  BY <1>1, <1>2, <1>3 DEF EngineInv, SoloInv, LockInv, TrapInv, Starting, Probing

\* As long as nobody sends a SIGTERM, every step keeps the script alone.
LEMMA EngineInvNext ==
    ASSUME WanTypeInv, Unsignalled => EngineInv, [WanNext]_wanVars
    PROVE  Unsignalled' => EngineInv'
<1> SUFFICES ASSUME Unsignalled' PROVE EngineInv'
  OBVIOUS
<1>0. ~TwoStarters /\ EngineInv /\ \A i \in Inst : ~Term(i)
  BY SignalsGrow DEF Unsignalled
<1>1. CASE LoopCycle /\ UNCHANGED recVars
  BY <1>0, <1>1, EngineInvCycle
<1>2. CASE LoopRespawned /\ UNCHANGED recVars
  BY <1>0, <1>2 DEF LoopRespawned, recVars, autoVars, flash, EngineInv, SoloInv, LockInv,
     TrapInv, Up
<1>3. CASE ScriptStep
  <2>1. ASSUME NEW i \in Inst, EngineOf(i)
        PROVE  EngineInv'
    BY <1>0, <2>1, EngineInvEngine
  <2>2. ASSUME NEW i \in Inst, Kill9(i), UNCHANGED recVars
        PROVE  EngineInv'
    BY <1>0, <2>2, EngineInvKill
  <2>3. CASE PollerSees
    BY <1>0, <2>3 DEF PollerSees, autoVars, flash, EngineInv, SoloInv, LockInv, TrapInv, Up
  <2>4. CASE PollerStarts
    <3>1. Up /\ ~lock /\ \A j \in Inst : pc[j] = "off"
      BY <1>0, <2>4 DEF PollerStarts, EngineInv, SoloInv
    <3>2. poller' = "none" /\ UNCHANGED <<boot, lock, wanBak, resume>>
      BY <2>4 DEF PollerStarts, flash
    <3> QED
      BY <1>0, <2>4, <3>1, <3>2, EngineInvLaunch DEF PollerStarts
  <2>5. CASE Flip /\ UNCHANGED recVars
    BY <1>0, <2>5 DEF Flip, recVars, flash, EngineInv, SoloInv, LockInv, TrapInv, Up
  <2> QED
    BY <1>0, <1>3, <2>1, <2>2, <2>3, <2>4, <2>5 DEF ScriptStep
<1>4. CASE BootWanStep
  BY <1>0, <1>4, EngineInvBoot
<1>5. CASE WanPowerLoss
  BY <1>5 DEF WanPowerLoss, RouterDies, AutoDies, EngineInv, SoloInv, LockInv, TrapInv,
     Starting, Probing
<1>6. CASE UNCHANGED wanVars
  BY <1>0, <1>6 DEF wanVars, recVars, autoVars, flash, EngineInv, SoloInv, LockInv, TrapInv,
     Up
<1> QED
  BY <1>1, <1>2, <1>3, <1>4, <1>5, <1>6 DEF WanNext

\* The script is alone in every reachable state without a SIGTERM.
LEMMA AloneAlways ==
    ASSUME ~TwoStarters
    PROVE  WanSafetySpec => [](WanTypeInv /\ (Unsignalled => EngineInv))
<1>1. WanInit => WanTypeInv /\ (Unsignalled => EngineInv)
  BY WanTypeInit, EngineInvInit
<1>2. WanTypeInv /\ (Unsignalled => EngineInv) /\ [WanNext]_wanVars
      => (WanTypeInv /\ (Unsignalled => EngineInv))'
  BY WanTypeNext, EngineInvNext
<1> QED
  BY <1>1, <1>2, PTL DEF WanSafetySpec

\* Where the loop waits for the poller, cleanup() finds no backup unless somebody has
\* signalled a script: every way out of an unsignalled one is a normal exit.
THEOREM TrapUnlocks == ASSUME ~TwoStarters PROVE WanSafetySpec => []TrapOnlyUnlocks
<1>1. (Unsignalled => EngineInv) => TrapOnlyUnlocks
  BY DEF Unsignalled, EngineInv, TrapInv, TrapOnlyUnlocks
<1> QED
  BY <1>1, AloneAlways, PTL

\* Without SIGTERMs the lock file keeps two instances of the script from probing at the
\* same time, however many are killed and however often power is lost.
THEOREM Exclusive ==
    ASSUME ~TwoStarters, MaxTerms = 0
    PROVE  WanSafetySpec => []OneEngine
<1> DEFINE Quiet == signals.term = 0
<1>1. WanInit => Quiet
  BY DEF WanInit, AutoInit
<1>2. WanTypeInv /\ Quiet /\ [WanNext]_wanVars => Quiet'
  BY NoTerms
<1>3. (Unsignalled => EngineInv) /\ Quiet => OneEngine
  BY DEF Unsignalled, EngineInv, SoloInv, OneEngine, Probing
<1> HIDE DEF Quiet
<1> QED
  BY <1>1, <1>2, <1>3, AloneAlways, PTL DEF WanSafetySpec

-----------------------------------------------------------------------------
(* What survives a power loss.                                              *)

\* What a power loss would leave for the network service to load: no LAN backup
\* is ever made here.
LEMMA DurableWan ==
    ASSUME netBak = None
    PROVE  Durable[1] = IF wanBak # None THEN wanBak ELSE network
BY DEF Durable

\* The WAN setting of the durable configuration is kept or changes to one that works.
Kept == WanOf(Durable'[1]) # WanOf(Durable[1]) => WanOf(Durable'[1]) \in works

\* No backup is there and no instance runs initially.
LEMMA TrialInvInit == WanInit => TrialInv
BY DEF WanInit, RouterInit, AutoInit, TrialInv, Holding

\* The commands of the one instance that runs: the backup is made of the file that
\* survives, and goes only when the file works or is the backup.
LEMMA TrialEngine ==
    ASSUME WanTypeInv, EngineInv, TrialInv, ~TornCopy, NEW i \in Inst, EngineOf(i)
    PROVE  TrialInv' /\ Kept
<1>a. /\ boot' = boot /\ boot = "up"
      /\ \A j \in Inst \ {i} : pc[j] = "off" /\ pc'[j] = "off"
  BY Alone DEF Up
<1>b. netBak = None /\ netBak' = None
  BY DEF TrialInv, EngineOf, EngineStep, flash, Orphan, Check, Touch, Wait, CreateBackup, Backup, ReadSaved, NextTry, Copy, SetProto, Reload, Probe, Win, Lose, LoseRm, LoseReload, TrapLock, TrapBak, TrapRm, TrapReload
<1>c. /\ Durable[1] = IF wanBak # None THEN wanBak ELSE network
      /\ Durable'[1] = IF wanBak' # None THEN wanBak' ELSE network'
  BY <1>b DEF Durable
<1> SUFFICES /\ pc'[i] \in Holding => wanBak' # None
             /\ pc'[i] = "probe" => live' = network'
             /\ pc'[i] = "win" => WanOf(network') \in works'
             /\ pc'[i] = "loseRm" => network' = wanBak'
             /\ Kept
  BY <1>a, <1>b DEF TrialInv, WanOf, Holding
<1>d. /\ pc \in [Inst -> {"off"} \cup Starting \cup Probing \cup Trapping]
      /\ resume[i] = "off"
      /\ pc[i] \in {"check", "touch", "wait", "backup", "loseReload", "trap", "trapBak"}
            => wanBak = None
      /\ pc[i] \in Holding => wanBak # None
      /\ pc[i] \notin {"trapRm", "trapReload"}
      /\ pc[i] = "probe" => live = network
      /\ pc[i] = "win" => WanOf(network) \in works
      /\ pc[i] = "loseRm" => network = wanBak
      /\ network # None
  BY MarkerAssumption DEF WanTypeInv, WanTypeOK, RouterTypeOK, AutoTypeOK, EngineInv, TrapInv,
     TrialInv
<1> USE <1>c, <1>d DEF Starting, Probing, Holding, Move, Goto, flash, running, Kept
<1>1. CASE Orphan(i)
  BY <1>1 DEF Orphan, CopyBack
<1>2. CASE Check(i)
  BY <1>2 DEF Check
<1>3. CASE Touch(i)
  BY <1>3 DEF Touch
<1>4. CASE Wait(i)
  BY <1>4 DEF Wait
<1>5. CASE CreateBackup(i)
  BY <1>5 DEF CreateBackup
<1>6. CASE Backup(i)
  BY <1>6 DEF Backup
<1>7. CASE ReadSaved(i)
  BY <1>7 DEF ReadSaved
<1>8. CASE NextTry(i)
  BY <1>8 DEF NextTry
<1>9. CASE Copy(i)
  BY <1>9 DEF Copy, CopyBack
<1>10. CASE SetProto(i)
  BY <1>10 DEF SetProto
<1>11. CASE Reload(i)
  BY <1>11 DEF Reload, LoadNetwork
<1>12. CASE Probe(i)
  BY <1>12 DEF Probe, Online
<1>13. CASE Win(i)
  BY <1>13 DEF Win
<1>14. CASE Lose(i)
  BY <1>14 DEF Lose, CopyBack
<1>15. CASE LoseRm(i)
  BY <1>15 DEF LoseRm
<1>16. CASE LoseReload(i)
  BY <1>16 DEF LoseReload, LoadNetwork
<1>17. CASE TrapLock(i)
  BY <1>17 DEF TrapLock
<1>18. CASE TrapBak(i)
  BY <1>18 DEF TrapBak, CopyBack, AfterTrap
<1>19. CASE TrapRm(i)
  BY <1>19 DEF TrapRm
<1>20. CASE TrapReload(i)
  BY <1>20 DEF TrapReload, LoadNetwork, AfterTrap
<1> QED
  BY <1>1, <1>2, <1>3, <1>4, <1>5, <1>6, <1>7, <1>8, <1>9, <1>10, <1>11, <1>12, <1>13, <1>14, <1>15, <1>16, <1>17, <1>18, <1>19, <1>20
     DEF EngineOf, EngineStep

\* The boot script copies the backup over network before it removes it.
LEMMA TrialBoot ==
    ASSUME WanTypeInv, EngineInv, TrialInv, BootWanStep
    PROVE  TrialInv' /\ Kept
<1>a. UNCHANGED <<pc, works>> /\ \A i \in Inst : pc[i] = "off"
  BY DEF BootWanStep, BootStep, autoVars, EngineInv, SoloInv, Up, BootNet, BootFillNet,
     BootDhcp, BootFillDhcp, BootClean, BootWan, BootFillWan, BootCleanWan, BootStart
<1>b. network # None
  BY MarkerAssumption DEF WanTypeInv, WanTypeOK, RouterTypeOK
<1> SUFFICES /\ netBak' = None
             /\ boot' \in {"up", "net", "wan", "fillWan", "cleanWan", "start"}
             /\ boot' \in {"fillWan", "cleanWan"} => wanBak' # None
             /\ boot' = "cleanWan" => network' = wanBak'
             /\ Kept
  BY <1>a DEF TrialInv, Holding
<1> USE <1>b DEF TrialInv, Kept, Durable, flash
<1>1. CASE BootNet
  BY <1>1 DEF BootNet
<1>2. CASE BootWan
  BY <1>2 DEF BootWan
<1>3. CASE BootFillWan
  BY <1>3 DEF BootFillWan, CatOf
<1>4. CASE BootCleanWan
  BY <1>4 DEF BootCleanWan
<1>5. CASE BootStart
  BY <1>5 DEF BootStart
<1> QED
  BY <1>1, <1>2, <1>3, <1>4, <1>5 DEF BootWanStep, BootStep, BootFillNet, BootDhcp,
     BootFillDhcp, BootClean

\* Every step keeps what makes a probe a trial, and the durable WAN setting unless the
\* new one works.
LEMMA TrialNext ==
    ASSUME WanTypeInv, EngineInv, TrialInv, ~TornCopy, Unsignalled', [WanNext]_wanVars
    PROVE  TrialInv' /\ Kept
<1>0. \A i \in Inst : ~Term(i)
  BY SignalsGrow DEF Unsignalled
<1>1. ASSUME UNCHANGED <<flash, boot, live, works>>,
             \A i \in Inst : pc'[i] \in Holding => pc'[i] = pc[i]
      PROVE  TrialInv' /\ Kept
  BY <1>1 DEF TrialInv, Kept, Durable, flash, WanOf, Holding
<1>2. CASE LoopCycle
  <2>1. UNCHANGED <<flash, boot, live, works>>
    BY <1>2 DEF LoopCycle, Cycle, running
  <2>2. CASE UNCHANGED pc
    BY <1>1, <2>1, <2>2
  <2>3. ASSUME NEW i \in Inst, Launch(i)
        PROVE  TrialInv' /\ Kept
    BY <1>1, <2>1, <2>3 DEF Launch, Goto, Holding, WanTypeInv, WanTypeOK, AutoTypeOK
  <2> QED
    BY <1>2, <2>2, <2>3 DEF LoopCycle, Cycle
<1>3. CASE LoopRespawned
  BY <1>1, <1>3 DEF LoopRespawned, autoVars, running
<1>4. CASE ScriptStep
  <2>1. ASSUME NEW i \in Inst, EngineOf(i)
        PROVE  TrialInv' /\ Kept
    BY <2>1, TrialEngine
  <2>2. ASSUME NEW i \in Inst, Kill9(i)
        PROVE  TrialInv' /\ Kept
    BY <1>1, <2>2 DEF Kill9, Goto, Holding, running, WanTypeInv, WanTypeOK, AutoTypeOK
  <2>3. CASE PollerSees
    BY <1>1, <2>3 DEF PollerSees, autoVars, running
  <2>4. CASE PollerStarts
    BY <1>1, <2>4 DEF PollerStarts, Launch, Goto, Holding, running, WanTypeInv, WanTypeOK, AutoTypeOK
  <2>5. CASE Flip
    BY <1>1, <2>5 DEF Flip, running
  <2> QED
    BY <1>0, <1>4, <2>1, <2>2, <2>3, <2>4, <2>5 DEF ScriptStep
<1>5. CASE BootWanStep
  BY <1>5, TrialBoot
<1>6. CASE WanPowerLoss
  <2>1. /\ netBak' = netBak /\ wanBak' = wanBak
        /\ wanBak = None => network' = network
        /\ boot' = "net" /\ works' = works
        /\ \A i \in Inst : pc'[i] = "off"
    BY <1>6 DEF WanPowerLoss, TornFlash, Tearing, RouterDies, AutoDies
  <2> QED
    BY <2>1 DEF TrialInv, Kept, Durable, Holding
<1>7. CASE UNCHANGED wanVars
  BY <1>1, <1>7 DEF wanVars, autoVars, running
<1> QED
  BY <1>2, <1>3, <1>4, <1>5, <1>6, <1>7 DEF WanNext

\* Without SIGTERMs and with whole backups, the WAN setting that survives a power loss
\* changes only to one that leads to the internet, at whatever command of the script
\* or of the boot script a SIGKILL or a power loss comes.
THEOREM Durability ==
    ASSUME ~TwoStarters, MaxTerms = 0, ~TornCopy
    PROVE  WanSafetySpec => DurableWanWorks
<1> DEFINE Inv == WanTypeInv /\ signals.term = 0 /\ EngineInv /\ TrialInv
<1>1. WanInit => Inv
  BY WanTypeInit, EngineInvInit, TrialInvInit DEF WanInit, AutoInit
<1>2. Inv /\ [WanNext]_wanVars => Inv' /\ Kept
  <2> SUFFICES ASSUME Inv, [WanNext]_wanVars PROVE Inv' /\ Kept
    OBVIOUS
  <2>1. WanTypeInv' /\ signals'.term = 0
    BY WanTypeNext, NoTerms
  <2>2. Unsignalled /\ Unsignalled'
    BY <2>1 DEF Unsignalled
  <2> QED
    BY <2>1, <2>2, EngineInvNext, TrialNext
<1>3. Inv /\ [WanNext]_wanVars => [WanOf(Durable'[1]) # WanOf(Durable[1])
                                    => WanOf(Durable'[1]) \in works]_wanVars
  BY <1>2 DEF Kept
<1>4. Inv /\ [WanNext]_wanVars => Inv'
  BY <1>2
<1> HIDE DEF Inv
<1> QED
  BY <1>1, <1>3, <1>4, PTL DEF WanSafetySpec, DurableWanWorks

-----------------------------------------------------------------------------
(* The debounce.                                                            *)

\* A command of the script starts no instance and takes no reading.
LEMMA CountEngine ==
    ASSUME WanTypeInv, CountInv, NEW i \in Inst, EngineOf(i)
    PROVE  CountInv'
<1>1. UNCHANGED <<boot, poller, crashes, downs, streak>>
  BY DEF EngineOf, debVars, recVars, EngineStep, Orphan, Check, Touch, Wait, CreateBackup, Backup, ReadSaved, NextTry, Copy, SetProto, Reload, Probe, Win, Lose, LoseRm, LoseReload, TrapLock, TrapBak, TrapRm, TrapReload
<1>2. lock' \/ (\E j \in Inst : pc'[j] \in Starting \/ resume'[j] \in Starting)
      => lock \/ (\E j \in Inst : pc[j] \in Starting \/ resume[j] \in Starting)
  <2> USE DEF WanTypeInv, WanTypeOK, AutoTypeOK, Starting, Move, Goto
  <2>1. CASE Orphan(i)
    BY <2>1 DEF Orphan
  <2>2. CASE Check(i)
    BY <2>2 DEF Check
  <2>3. CASE Touch(i)
    BY <2>3 DEF Touch
  <2>4. CASE Wait(i)
    BY <2>4 DEF Wait
  <2>5. CASE CreateBackup(i)
    BY <2>5 DEF CreateBackup
  <2>6. CASE Backup(i)
    BY <2>6 DEF Backup
  <2>7. CASE ReadSaved(i)
    BY <2>7 DEF ReadSaved
  <2>8. CASE NextTry(i)
    BY <2>8 DEF NextTry
  <2>9. CASE Copy(i)
    BY <2>9 DEF Copy
  <2>10. CASE SetProto(i)
    BY <2>10 DEF SetProto
  <2>11. CASE Reload(i)
    BY <2>11 DEF Reload
  <2>12. CASE Probe(i)
    BY <2>12 DEF Probe
  <2>13. CASE Win(i)
    BY <2>13 DEF Win
  <2>14. CASE Lose(i)
    BY <2>14 DEF Lose
  <2>15. CASE LoseRm(i)
    BY <2>15 DEF LoseRm
  <2>16. CASE LoseReload(i)
    BY <2>16 DEF LoseReload
  <2>17. CASE TrapLock(i)
    BY <2>17 DEF TrapLock
  <2>18. CASE TrapBak(i)
    BY <2>18 DEF TrapBak, AfterTrap
  <2>19. CASE TrapRm(i)
    BY <2>19 DEF TrapRm
  <2>20. CASE TrapReload(i)
    BY <2>20 DEF TrapReload, AfterTrap
  <2> QED
    BY <2>1, <2>2, <2>3, <2>4, <2>5, <2>6, <2>7, <2>8, <2>9, <2>10, <2>11, <2>12, <2>13, <2>14, <2>15, <2>16, <2>17, <2>18, <2>19, <2>20
       DEF EngineOf, EngineStep
<1> QED
  BY <1>1, <1>2 DEF CountInv, Up

\* A cycle counts a reading only while the lock is free, and starts the script with an
\* empty count.
LEMMA CountCycle ==
    ASSUME WanTypeInv, CountInv, Cycle, UNCHANGED recVars
    PROVE  CountInv'
<1> SUFFICES ASSUME crashes = 0
             PROVE  CountInv'
  BY DEF CountInv, recVars
<1>1. /\ downs \in 0..3 /\ streak \in 0..3 /\ downs <= streak
      /\ Up /\ poller = "none" /\ (lock => downs = 0)
  BY DEF WanTypeInv, WanTypeOK, DebTypeOK, Threshold, CountInv
<1>2. UNCHANGED <<boot, poller, crashes, lock, resume>>
  BY DEF Cycle, recVars
<1>3. /\ downs' <= streak' /\ (lock => downs' = 0)
      /\ (pc' # pc => downs' = 0)
  BY <1>1 DEF Cycle, Saturated, Threshold
<1>4. \A i \in Inst : pc[i] \notin Starting /\ resume[i] \notin Starting
  BY DEF Cycle, Brief
<1> QED
  BY <1>1, <1>2, <1>3, <1>4 DEF CountInv, Up

\* Every step keeps the count behind the readings.
LEMMA CountNext ==
    ASSUME WanTypeInv, CountInv, [WanNext]_wanVars
    PROVE  CountInv'
<1> USE DEF CountInv, Up
<1>1. CASE LoopCycle /\ UNCHANGED recVars
  BY <1>1, CountCycle DEF LoopCycle
<1>2. CASE LoopRespawned /\ UNCHANGED recVars
  <2>1. downs' = 0 /\ UNCHANGED <<streak, boot, poller, crashes, lock, pc, resume>>
    BY <1>2 DEF LoopRespawned, LoopStarts, autoVars, recVars
  <2> QED
    BY <2>1 DEF WanTypeInv, WanTypeOK, DebTypeOK, Threshold
<1>3. CASE ScriptStep
  <2>1. ASSUME NEW i \in Inst, EngineOf(i)
        PROVE  CountInv'
    BY <2>1, CountEngine
  <2>2. ASSUME NEW i \in Inst, Term(i) \/ Kill9(i), UNCHANGED <<debVars, recVars>>
        PROVE  CountInv'
    BY <2>2 DEF Term, Kill9, Goto, debVars, recVars, WanTypeInv, WanTypeOK, AutoTypeOK,
       Starting, Probing
  <2>3. CASE PollerSees \/ PollerStarts
    BY <2>3 DEF PollerSees, PollerStarts, RecTypeOK, WanTypeInv, WanTypeOK
  <2>4. CASE Flip /\ UNCHANGED recVars
    BY <2>4 DEF Flip, recVars
  <2> QED
    BY <1>3, <2>1, <2>2, <2>3, <2>4 DEF ScriptStep
<1>4. CASE BootWanStep
  <2>1. boot # "up" /\ crashes' = crashes
    BY <1>4 DEF BootWanStep, BootStep, BootNet, BootFillNet, BootDhcp, BootFillDhcp,
       BootClean, BootWan, BootFillWan, BootCleanWan, BootStart, recVars
  <2> QED
    BY <2>1
<1>5. CASE WanPowerLoss
  BY <1>5 DEF WanPowerLoss, RouterDies, WanTypeInv, WanTypeOK, RecTypeOK
<1>6. CASE UNCHANGED wanVars
  BY <1>6 DEF wanVars, autoVars, debVars, recVars
<1> QED
  BY <1>1, <1>2, <1>3, <1>4, <1>5, <1>6 DEF WanNext

\* Until a power loss the loop never starts the script with fewer than three readings
\* in a row without a carrier, whatever the cable, the signals and procd do.
THEOREM Debounced == WanSafetySpec => StartsDebounced
<1> DEFINE Inv == WanTypeInv /\ CountInv
<1>1. WanInit => Inv
  <2>1. WanInit => CountInv
    BY DEF WanInit, RouterInit, AutoInit, DebInit, RecInit, CountInv, Up, Starting
  <2> QED
    BY <2>1, WanTypeInit
<1>2. Inv /\ [WanNext]_wanVars => Inv'
  BY WanTypeNext, CountNext
<1>3. Inv /\ [WanNext]_wanVars
      => [(Cycle /\ pc' # pc /\ crashes = 0) => streak >= Threshold]_wanVars
  <2> SUFFICES ASSUME Inv, [WanNext]_wanVars, Cycle, pc' # pc, crashes = 0
               PROVE  streak >= Threshold
    OBVIOUS
  <2>1. streak \in Nat /\ downs \in Nat /\ downs <= streak
    BY DEF WanTypeInv, WanTypeOK, DebTypeOK, CountInv
  <2> QED
    BY <2>1 DEF Cycle, Threshold
<1> HIDE DEF Inv
<1> QED
  BY <1>1, <1>2, <1>3, PTL DEF WanSafetySpec, StartsDebounced
=============================================================================

----------------------------- MODULE Lucky_proofs ----------------------------
(***************************************************************************)
(* Proofs about luci-app-lucky as a whole, for any number of processes,    *)
(* versions, settings, clicks and faults.                                  *)
(***************************************************************************)
EXTENDS LuckyInv, FiniteSetTheorems, TLAPS

-----------------------------------------------------------------------------
(* Helpers of the router's side.                                           *)

\* A process of the update script at work.
Job == [kind : {"check", "download", "auto"}, pc : Steps, want : 0..Latest, cur : 0..Latest]

\* A process that is at some command is a job.
LEMMA TaskJob ==
    ASSUME RouterTypeOK, NEW p \in Proc, task[p].pc # "idle"
    PROVE  task[p] \in Job
BY DEF RouterTypeOK, Job, Idle

\* Spawn gives the new job a free process and leaves the others alone.
LEMMA SpawnJob ==
    ASSUME RouterTypeOK, NEW kind \in {"check", "download", "auto"},
           NEW want \in 0..Latest, Spawn(kind, want)
    PROVE  \E p \in Free :
              task' = [task EXCEPT ![p] =
                 [kind |-> kind, pc |-> IF kind = "download" THEN "lookup" ELSE "begin",
                  want |-> want, cur |-> 0]]
<1>1. Free # {}
  BY DEF Spawn
<1>2. (CHOOSE p \in Free : TRUE) \in Free
  BY <1>1
<1> QED
  BY <1>2 DEF Spawn

\* Spawn keeps the types.
LEMMA SpawnType ==
    ASSUME RouterTypeOK, NEW kind \in {"check", "download", "auto"},
           NEW want \in 0..Latest, Spawn(kind, want)
    PROVE  /\ task' \in [Proc -> {Idle} \cup Job]
           /\ launches' \in Nat /\ overlap' \in BOOLEAN
           /\ UNCHANGED <<faults, clash, cleared>>
<1>1. PICK p \in Free :
         task' = [task EXCEPT ![p] =
            [kind |-> kind, pc |-> IF kind = "download" THEN "lookup" ELSE "begin",
             want |-> want, cur |-> 0]]
  BY SpawnJob
<1>2. [kind |-> kind, pc |-> IF kind = "download" THEN "lookup" ELSE "begin",
       want |-> want, cur |-> 0] \in Job
  BY RouterAssumption DEF Job, Steps
<1>3. task \in [Proc -> {Idle} \cup Job]
  BY DEF RouterTypeOK, Job
<1>4. task' \in [Proc -> {Idle} \cup Job]
  BY <1>1, <1>2, <1>3
<1> QED
  BY <1>4 DEF Spawn, RouterTypeOK

\* A command of the script changes only its own process, which stays a job or ends.
LEMMA ScriptTask ==
    ASSUME RouterTypeOK, NEW p \in Proc, ScriptStep(p)
    PROVE  /\ task' \in [Proc -> {Idle} \cup Job]
           /\ task[p] \in Job
           /\ \A r \in Proc \ {p} : task'[r] = task[r]
<1>1. task \in [Proc -> {Idle} \cup Job]
  BY DEF RouterTypeOK, Job
<1>2. task[p] \in Job
  BY TaskJob DEF ScriptStep, At, Begin, Query, Decide, Lookup, Fetch, Unpack,
     StopForInstall, Copy, StartAfterInstall, Record, Luci
<1>3. \/ \E pc \in Steps : task' = [task EXCEPT ![p].pc = pc]
      \/ task' = [task EXCEPT ![p] = Idle]
      \/ \E cur \in 0..Latest : task' = [task EXCEPT ![p].pc = "query", ![p].cur = cur]
      \/ task' = [task EXCEPT ![p].want = Latest, ![p].pc = "fetch"]
  <2> USE DEF Goto, Exit, Die, Steps
  <2>1. CASE Begin(p)
    <3> DEFINE cur == IF binary = Missing THEN 0 ELSE installed
    <3>1. cur \in 0..Latest
      BY RouterAssumption DEF RouterTypeOK
    <3>2. task' = [task EXCEPT ![p].pc = "query", ![p].cur = cur]
      BY <2>1 DEF Begin
    <3> QED
      BY <3>1, <3>2
  <2>2. CASE Query(p) \/ Lookup(p) \/ Decide(p)
    BY <2>2 DEF Query, Lookup, Decide
  <2>3. CASE Fetch(p) \/ Unpack(p) \/ StopForInstall(p)
    BY <2>3 DEF Fetch, Unpack, StopForInstall
  <2>4. CASE Copy(p) \/ StartAfterInstall(p) \/ Record(p) \/ Luci(p)
    BY <2>4 DEF Copy, StartAfterInstall, Record, Luci
  <2> QED
    BY <2>1, <2>2, <2>3, <2>4 DEF ScriptStep
<1>4. task' \in [Proc -> {Idle} \cup Job]
  BY <1>1, <1>2, <1>3, RouterAssumption DEF Job, Steps
<1>5. \A r \in Proc \ {p} : task'[r] = task[r]
  BY <1>1, <1>3
<1> QED
  BY <1>2, <1>4, <1>5

-----------------------------------------------------------------------------
(* Type correctness, for every value of the constants.                     *)

\* The commands of the update script write what the files and settings can hold.
LEMMA RouterTypeScript ==
    ASSUME RouterTypeOK, WireInv, NEW p \in Proc, ScriptStep(p)
    PROVE  RouterTypeOK'
<1>0. task' \in [Proc -> {Idle} \cup Job] /\ task[p] \in Job
  BY ScriptTask
<1>a. /\ task[p].want \in 0..Latest
      /\ task[p].pc \in {"fetch"} \cup installing => task[p].want \in Versions
  BY <1>0 DEF Job, WireInv
<1>b. Latest \in Nat /\ MaxFaults \in Nat
  BY RouterAssumption
<1> DEFINE Settings ==
             /\ enabled \in BOOLEAN /\ conf \in [Keys -> Vals] /\ installed \in 0..Latest
             /\ binary \in 0..Torn
             /\ svc \in {"stopped", "running"} /\ loaded \in [RestartKeys -> Vals]
             /\ jobs \subseteq {"start", "stop", "restart"}
           Files ==
             /\ status \in [code : Codes, at : Nat]
             /\ releases \subseteq Versions /\ files \subseteq Versions
             /\ extract \in 0..Latest /\ backups \subseteq 0..Latest
           Counts ==
             /\ launches \in Nat /\ faults \in 0..MaxFaults /\ events \in 0..MaxEvents
             /\ overlap \in BOOLEAN /\ clash \in BOOLEAN /\ cleared \in BOOLEAN
             /\ late \in BOOLEAN /\ broke \in BOOLEAN
<1>c. Settings /\ Files /\ Counts
  BY DEF RouterTypeOK
<1> SUFFICES Settings' /\ Files' /\ Counts'
  BY <1>0 DEF RouterTypeOK, Job
<1>d. ASSUME NEW c \in Codes, WriteStatus(c)
      PROVE  status' \in [code : Codes, at : Nat]
  BY <1>c, <1>d DEF WriteStatus
<1>e. Die(p) => status' \in [code : Codes, at : Nat]
  BY <1>d DEF Die, Codes
<1>f. Fault => faults' \in 0..MaxFaults
  BY <1>b, <1>c DEF Fault
<1> USE <1>a, <1>b, <1>c, <1>d, <1>e, <1>f DEF Codes, Versions, Torn, Missing, taskRest, calm,
        downVars, installing
<1>1. CASE Begin(p)
  BY <1>1 DEF Begin
<1>2. CASE Query(p)
  <2>1. Settings'
    BY <1>2 DEF Query
  <2>2. Files'
    BY <1>2 DEF Query
  <2>3. Counts'
    BY <1>2 DEF Query
  <2> QED
    BY <2>1, <2>2, <2>3
<1>3. CASE Decide(p)
  BY <1>3 DEF Decide
<1>4. CASE Lookup(p)
  BY <1>4 DEF Lookup
<1>5. CASE Fetch(p)
  <2>1. Settings'
    BY <1>5 DEF Fetch
  <2>2. Files'
    <3>1. task[p].want \in Versions
      BY <1>5 DEF Fetch, At
    <3>2. files' \in {files, files \cup {task[p].want}} /\ extract' \in {0, extract}
      BY <1>5 DEF Fetch
    <3>3. status' \in [code : Codes, at : Nat] /\ UNCHANGED <<releases, backups>>
      BY <1>5 DEF Fetch
    <3> QED
      BY <3>1, <3>2, <3>3
  <2>3. Counts'
    BY <1>5 DEF Fetch
  <2> QED
    BY <2>1, <2>2, <2>3
<1>6. CASE Unpack(p)
  BY <1>6 DEF Unpack
<1>7. CASE StopForInstall(p)
  <2>1. Settings'
    BY <1>7 DEF StopForInstall
  <2>2. Files'
    BY <1>7 DEF StopForInstall
  <2>3. Counts'
    BY <1>7 DEF StopForInstall
  <2> QED
    BY <2>1, <2>2, <2>3
<1>8. CASE Copy(p)
  <2>1. Settings'
    BY <1>8 DEF Copy
  <2>2. Files'
    BY <1>8 DEF Copy
  <2>3. Counts'
    BY <1>8 DEF Copy
  <2> QED
    BY <2>1, <2>2, <2>3
<1>9. CASE StartAfterInstall(p)
  <2>1. Settings'
    BY <1>9, RouterAssumption DEF StartAfterInstall, StartDaemon, LoadedConf
  <2>2. Files'
    <3>1. files' \subseteq files /\ extract' = 0 /\ UNCHANGED <<status, releases, backups>>
      BY <1>9 DEF StartAfterInstall
    <3> QED
      BY <3>1
  <2>3. Counts'
    BY <1>9 DEF StartAfterInstall, StartDaemon
  <2> QED
    BY <2>1, <2>2, <2>3
<1>10. CASE Record(p)
  BY <1>10 DEF Record
<1>11. CASE Luci(p)
  BY <1>11 DEF Luci
<1> QED
  BY <1>1, <1>2, <1>3, <1>4, <1>5, <1>6, <1>7, <1>8, <1>9, <1>10, <1>11 DEF ScriptStep

\* cron and the init script keep the types.
LEMMA RouterTypeInit ==
    ASSUME RouterTypeOK, Cron \/ \E j \in jobs : RunJob(j)
    PROVE  RouterTypeOK'
<1> USE RouterAssumption
<1>1. CASE Cron
  <2>1. Spawn("auto", 0)
    BY <1>1 DEF Cron
  <2>2. task' \in [Proc -> {Idle} \cup Job] /\ launches' \in Nat /\ overlap' \in BOOLEAN
        /\ UNCHANGED <<faults, clash, cleared>>
    BY <2>1, SpawnType
  <2>3. events' \in 0..MaxEvents
    BY <1>1 DEF Cron, RouterTypeOK
  <2> QED
    BY <1>1, <2>2, <2>3 DEF Cron, RouterTypeOK, Job, uciVars, svcVars, dirVars, downVars
<1>2. ASSUME NEW j \in jobs, RunJob(j)
      PROVE  RouterTypeOK'
  <2>0. j \in {"start", "stop", "restart"}
    BY DEF RouterTypeOK
  <2>1. ASSUME NEW st, StartDaemon(st)
        PROVE  svc' \in {"stopped", "running"} /\ loaded' \in [RestartKeys -> Vals]
               /\ late' \in BOOLEAN /\ broke' \in BOOLEAN
    BY <2>1 DEF StartDaemon, LoadedConf, RouterTypeOK
  <2>2. ASSUME NEW st, StartService(st)
        PROVE  /\ svc' \in {"stopped", "running"} /\ loaded' \in [RestartKeys -> Vals]
               /\ late' \in BOOLEAN /\ broke' \in BOOLEAN /\ installed' \in 0..Latest
               /\ task' \in [Proc -> {Idle} \cup Job]
               /\ launches' \in Nat /\ overlap' \in BOOLEAN
               /\ UNCHANGED <<faults, clash, cleared>>
    <3>1. StartDaemon(st)
      BY <2>2 DEF StartService
    <3>2. CASE binary = Missing
      <4>1. Spawn("auto", 0) /\ installed' = 0
        BY <2>2, <3>2 DEF StartService
      <4> QED
        BY <2>1, <3>1, <4>1, SpawnType
    <3>3. CASE binary # Missing
      BY <2>1, <2>2, <3>1, <3>3 DEF StartService, RouterTypeOK, Job, histVars
    <3> QED
      BY <3>1, <3>2, <3>3
  <2>3. CASE StopService
    BY <1>2, <2>3 DEF RunJob, StopService, RouterTypeOK, dirVars, histVars
  <2>4. ASSUME NEW st, StartService(st)
        PROVE  RouterTypeOK'
    BY <1>2, <2>2, <2>4 DEF RunJob, RouterTypeOK, Job, dirVars
  <2> QED
    BY <1>2, <2>0, <2>3, <2>4 DEF RunJob
<1> QED
  BY <1>1, <1>2

\* The calls on their way are well formed and finitely many.
CallsOK == calls \subseteq Calls /\ IsFiniteSet(calls) /\ RpcTypeOK

\* The calls of the restart button are finitely many.
LEMMA RestartsFinite ==
    ASSUME IsFiniteSet(calls)
    PROVE  IsFiniteSet(Restarts) /\ Cardinality(Restarts) \in Nat
BY FS_Subset, FS_CardinalityType DEF Restarts

\* A call that only moves on, answered or lost, adds no restart.
LEMMA CallMoves ==
    ASSUME CallsOK, NEW c \in calls, NEW st \in {"sent", "answered"}, NEW a \in Answers,
           calls' = (calls \ {c}) \cup {[c EXCEPT !.state = st, !.ans = a]},
           UNCHANGED <<issued, hasty>>
    PROVE  CallsOK' /\ Cardinality(Restarts') <= Cardinality(Restarts)
<1> DEFINE d == [c EXCEPT !.state = st, !.ans = a]
<1>1. d \in Calls /\ d.n = c.n /\ d.op = c.op
  BY DEF CallsOK, Calls
<1>2. IsFiniteSet(calls')
  BY FS_AddElement, FS_RemoveElement DEF CallsOK
<1>3. CallsOK'
  BY <1>1, <1>2 DEF CallsOK, RpcTypeOK, Calls
<1>4. IsFiniteSet(Restarts) /\ Cardinality(Restarts) \in Nat
  BY RestartsFinite DEF CallsOK
<1>5. CASE c.op = "restart"
  <2>1. Restarts' = (Restarts \ {c}) \cup {d} /\ c \in Restarts
    BY <1>1, <1>5 DEF Restarts
  <2>2. Cardinality(Restarts \ {c}) = Cardinality(Restarts) - 1 /\ IsFiniteSet(Restarts \ {c})
    BY <1>4, <2>1, FS_RemoveElement
  <2>3. \A S, e : IsFiniteSet(S) => Cardinality(S \cup {e}) \in {Cardinality(S), Cardinality(S) + 1}
    BY FS_AddElement
  <2>4. Cardinality((Restarts \ {c}) \cup {d})
          \in {Cardinality(Restarts \ {c}), Cardinality(Restarts \ {c}) + 1}
    BY <2>2, <2>3
  <2> HIDE DEF d
  <2> QED
    BY <1>3, <1>4, <2>1, <2>2, <2>4
<1>6. CASE c.op # "restart"
  <2>1. Restarts' = Restarts
    BY <1>1, <1>6 DEF Restarts
  <2> QED
    BY <1>3, <1>4, <2>1
<1> QED
  BY <1>5, <1>6

\* A call that is consumed leaves the others.
LEMMA CallConsumed ==
    ASSUME CallsOK, NEW c \in calls, Consume(c)
    PROVE  /\ CallsOK'
           /\ Cardinality(Restarts') = Cardinality(Restarts) - (IF c.op = "restart" THEN 1 ELSE 0)
<1>1. calls' = calls \ {c} /\ UNCHANGED <<issued, hasty>>
  BY DEF Consume
<1>2. CallsOK'
  BY <1>1, FS_RemoveElement DEF CallsOK, RpcTypeOK
<1>3. IsFiniteSet(Restarts) /\ Cardinality(Restarts) \in Nat
  BY RestartsFinite DEF CallsOK
<1>4. Restarts' = Restarts \ {c}
  BY <1>1 DEF Restarts
<1>5. c \in Restarts <=> c.op = "restart"
  BY DEF Restarts
<1>6. Cardinality(Restarts \ {c})
      = IF c \in Restarts THEN Cardinality(Restarts) - 1 ELSE Cardinality(Restarts)
  BY <1>3, FS_RemoveElement
<1> QED
  BY <1>2, <1>3, <1>4, <1>5, <1>6

\* A new call is the only one added.
LEMMA CallMade ==
    ASSUME CallsOK, NEW op \in Ops, NEW want \in 0..Latest, NEW f \in [Keys -> Vals],
           NEW old \in SUBSET calls, calls' = old \cup {CallOf(op, want, f)},
           issued' = issued + 1, hasty' \in BOOLEAN
    PROVE  /\ CallsOK'
           /\ Cardinality(Restarts') <= Cardinality(Restarts) + (IF op = "restart" THEN 1 ELSE 0)
<1> DEFINE d == CallOf(op, want, f)
<1>0. issued \in Nat
  BY DEF CallsOK, RpcTypeOK
<1>1. d \in Calls /\ d.n = issued + 1 /\ d.op = op
  BY <1>0, RouterAssumption DEF CallOf, Calls, Blank, Answers
<1>2. IsFiniteSet(old)
  BY FS_Subset DEF CallsOK
<1>3. IsFiniteSet(calls')
  BY <1>2, FS_AddElement
<1>4. CallsOK'
  BY <1>0, <1>1, <1>3 DEF CallsOK, RpcTypeOK, Calls
<1>5. IsFiniteSet(Restarts) /\ Cardinality(Restarts) \in Nat
  BY RestartsFinite DEF CallsOK
<1> DEFINE R == {e \in old : e.op = "restart"}
<1>6. IsFiniteSet(R) /\ Cardinality(R) <= Cardinality(Restarts) /\ Cardinality(R) \in Nat
  <2>1. R \in SUBSET Restarts
    BY DEF Restarts
  <2> QED
    BY <1>5, <2>1, FS_Subset, FS_CardinalityType
<1>7. CASE op = "restart"
  <2>1. Restarts' = R \cup {d}
    BY <1>1, <1>7 DEF Restarts
  <2>2. \A S, e : IsFiniteSet(S) =>
           Cardinality(S \cup {e}) = IF e \in S THEN Cardinality(S) ELSE Cardinality(S) + 1
    BY FS_AddElement
  <2>3. Cardinality(R \cup {d}) \in {Cardinality(R), Cardinality(R) + 1}
    BY <1>6, <2>2
  <2> QED
    BY <1>4, <1>5, <1>6, <1>7, <2>1, <2>3
<1>8. CASE op # "restart"
  <2>1. Restarts' = R
    BY <1>1, <1>8 DEF Restarts
  <2> QED
    BY <1>4, <1>5, <1>6, <1>8, <2>1
<1> QED
  BY <1>7, <1>8

\* The plugin answers the call it serves, and keeps the types of what it writes.
LEMMA RouterTypeServe ==
    ASSUME RouterTypeOK, CallsOK, NEW c \in calls, Serve(c)
    PROVE  RouterTypeOK' /\ \E a \in Answers : Answer(c, a)
<1>0. c \in Calls
  BY DEF CallsOK
<1>a. /\ c.op \in Ops /\ c.want \in 0..Latest /\ c.form \in [Keys -> Vals]
      /\ Latest \in Nat /\ launches \in Nat
  BY <1>0, RouterAssumption DEF Calls, RouterTypeOK
<1>b. \A ok \in BOOLEAN : [Blank EXCEPT !.ok = ok] \in Answers
  BY DEF Blank, Answers
<1>1. ASSUME toggle_service(c), c.op \in {"enable", "disable", "restart"}
      PROVE  RouterTypeOK' /\ \E a \in Answers : Answer(c, a)
  <2>1. \E ok \in BOOLEAN : Say(c, ok)
    BY <1>1 DEF toggle_service, RouterTypeOK
  <2>2. enabled' \in BOOLEAN /\ jobs' \subseteq {"start", "stop", "restart"}
    BY <1>1 DEF toggle_service, RouterTypeOK
  <2>3. RouterTypeOK'
    BY <1>1, <2>2 DEF toggle_service, RouterTypeOK, noTask, dirVars, histVars, downVars
  <2> QED
    BY <1>b, <2>1, <2>3 DEF Say
<1>2. ASSUME get_settings(c) \/ list_backups(c)
      PROVE  RouterTypeOK' /\ \E a \in Answers : Answer(c, a)
  <2>1. RouterTypeOK'
    BY <1>2 DEF get_settings, list_backups, routerVars, scriptVars, uciVars, svcVars, dirVars,
       histVars, downVars, RouterTypeOK
  <2>2. /\ [Blank EXCEPT !.ok = TRUE, !.on = enabled] \in Answers
        /\ [Blank EXCEPT !.ok = TRUE, !.names = backups] \in Answers
    BY <1>a DEF Blank, Answers, RouterTypeOK
  <2> QED
    BY <1>2, <2>1, <2>2 DEF get_settings, list_backups
<1>3. ASSUME save_settings(c)
      PROVE  RouterTypeOK' /\ \E a \in Answers : Answer(c, a)
  <2>1. RouterTypeOK'
    BY <1>a, <1>3 DEF save_settings, dirVars, noTask, histVars, downVars, RouterTypeOK
  <2> QED
    BY <1>3, <1>b, <2>1 DEF save_settings, Say
<1>4. ASSUME NEW code \in Codes, NEW kind \in {"check", "download", "auto"},
             runTask(c, code, kind), UNCHANGED <<uciVars, binary, svcVars, downVars>>
      PROVE  RouterTypeOK' /\ \E a \in Answers : Answer(c, a)
  <2>1. Spawn(kind, c.want)
    BY <1>4 DEF runTask
  <2>2. /\ task' \in [Proc -> {Idle} \cup Job] /\ launches' \in Nat /\ overlap' \in BOOLEAN
        /\ UNCHANGED <<faults, clash, cleared>>
    BY <1>a, <2>1, SpawnType
  <2>3. status' \in [code : Codes, at : Nat]
    BY <1>4, <1>a DEF runTask
  <2>4. RouterTypeOK'
    BY <1>4, <2>2, <2>3 DEF runTask, RouterTypeOK, Job, uciVars, svcVars, downVars
  <2> DEFINE n == launches + 1
  <2>5. n \in Nat
    BY <1>a
  <2>6. Answer(c, [Blank EXCEPT !.ok = TRUE, !.run = n])
    BY <1>4 DEF runTask
  <2> HIDE DEF n
  <2>7. [Blank EXCEPT !.ok = TRUE, !.run = n] \in Answers
    BY <2>5 DEF Blank, Answers
  <2> QED
    BY <2>4, <2>6, <2>7
<1>5. ASSUME clean_update(c), UNCHANGED <<uciVars, binary, svcVars, downVars>>
      PROVE  RouterTypeOK' /\ \E a \in Answers : Answer(c, a)
  <2>1. RouterTypeOK'
    BY <1>a, <1>5 DEF clean_update, uciVars, svcVars, downVars, RouterTypeOK, Codes
  <2> QED
    BY <1>5, <1>b, <2>1 DEF clean_update, Say
<1>6. ASSUME restore_backup(c) \/ reset_user(c)
      PROVE  RouterTypeOK' /\ \E a \in Answers : Answer(c, a)
  <2>1. RouterTypeOK'
    BY <1>6 DEF restore_backup, reset_user, uciVars, dirVars, noTask, histVars, downVars,
       RouterTypeOK
  <2> DEFINE there == c.want \in backups
             some == binary # Missing
  <2>2. there \in BOOLEAN /\ some \in BOOLEAN
    OBVIOUS
  <2>3. Say(c, there) \/ Say(c, some)
    BY <1>6 DEF restore_backup, reset_user
  <2> HIDE DEF there, some
  <2> QED
    BY <1>b, <2>1, <2>2, <2>3 DEF Say
<1>7. "checking" \in Codes /\ "downloading" \in Codes /\ "idle" \in Codes
  BY DEF Codes
<1> QED
  BY <1>1, <1>2, <1>3, <1>4, <1>5, <1>6, <1>7
     DEF Serve, get_upstream_version, do_update, run_update

\* The types of everything on the router and on its way.
BothOK == RouterTypeOK /\ CallsOK

\* A step of the plugin keeps the types of both sides and adds no restart.
LEMMA PluginType ==
    ASSUME BothOK, NEW c \in calls, Serve(c) \/ Lose(c)
    PROVE  BothOK' /\ Cardinality(Restarts') <= Cardinality(Restarts)
<1>1. CASE Serve(c)
  <2>1. RouterTypeOK' /\ \E a \in Answers : Answer(c, a)
    BY <1>1, RouterTypeServe DEF BothOK
  <2> QED
    BY <2>1, CallMoves DEF BothOK, Answer
<1>2. CASE Lose(c)
  <2>1. Blank \in Answers
    BY RouterAssumption DEF Blank, Answers
  <2>2. CallsOK' /\ Cardinality(Restarts') <= Cardinality(Restarts)
    BY <1>2, <2>1, CallMoves DEF Lose, BothOK
  <2>3. RouterTypeOK'
    BY <1>2, RouterAssumption DEF Lose, Fault, notFaults, scriptVars, uciVars, svcVars, dirVars, histVars,
       downVars, BothOK, RouterTypeOK
  <2> QED
    BY <2>2, <2>3 DEF BothOK
<1> QED
  BY <1>1, <1>2

\* The requests of the pollers are well formed.
PollsOK ==
    /\ polls \subseteq Polls
    /\ poller \in [Poller -> [active : BOOLEAN, generation : Nat, inFlight : BOOLEAN, run : Nat]]

\* What the type invariant says of requests follows from their form.
LEMMA PollsTyped ==
    PollsOK => PollTypeOK
BY DEF PollsOK, PollTypeOK, Polls

\* A poller that starts, or stops at its last word, keeps the requests well formed.
LEMMA PollsStart ==
    ASSUME PollsOK, NEW w \in Poller, NEW run \in Nat, start(w, run)
    PROVE  PollsOK'
<1> DEFINE g == poller[w].generation + 1
<1>1. g \in Nat
  BY DEF PollsOK
<1>2. Request(w, g) \in Polls
  BY <1>1 DEF Request, Polls, Codes
<1>3. /\ poller' = [poller EXCEPT ![w] = [active |-> TRUE, generation |-> g,
                                         inFlight |-> TRUE, run |-> run]]
      /\ polls' = polls \cup {Request(w, g)}
  BY DEF start
<1> HIDE DEF g
<1> QED
  BY <1>1, <1>2, <1>3 DEF PollsOK

LEMMA PollsLast ==
    ASSUME PollsOK, NEW q \in polls, Last(q)
    PROVE  PollsOK'
<1>1. q.who \in Poller
  BY DEF PollsOK, Polls
<1>2. poller' = [poller EXCEPT ![q.who] = stopped(q.who)] /\ polls' = polls \ {q}
  BY DEF Last
<1>3. stopped(q.who) \in [active : BOOLEAN, generation : Nat, inFlight : BOOLEAN, run : Nat]
  <2> DEFINE r == poller[q.who]
  <2>1. r \in [active : BOOLEAN, generation : Nat, inFlight : BOOLEAN, run : Nat]
    BY <1>1 DEF PollsOK
  <2> DEFINE g == r.generation + 1
  <2>2. stopped(q.who) = [r EXCEPT !.active = FALSE, !.generation = g, !.inFlight = FALSE]
    BY DEF stopped
  <2> HIDE DEF r
  <2>3. g \in Nat
    BY <2>1
  <2> HIDE DEF g
  <2> QED
    BY <2>1, <2>2, <2>3
<1> QED
  BY <1>1, <1>2, <1>3 DEF PollsOK

\* So does everything else that happens between a poller and rpcd.
LEMMA PollsMove ==
    ASSUME RouterTypeOK, PollsOK, Polling
    PROVE  PollsOK' /\ RouterTypeOK' /\ UNCHANGED <<rpcVars, notFaults, pages>>
<1>0. UNCHANGED pages
  BY DEF Polling
<1>1. ASSUME NEW w \in Poller, Tick(w)
      PROVE  PollsOK' /\ RouterTypeOK' /\ UNCHANGED <<rpcVars, notFaults>>
  <2> DEFINE g == poller[w].generation
  <2>1. g \in Nat
    BY DEF PollsOK
  <2>2. Request(w, g) \in Polls
    BY <2>1 DEF Request, Polls, Codes
  <2>3. polls' = polls \cup {Request(w, g)} /\ poller' = [poller EXCEPT ![w].inFlight = TRUE]
        /\ UNCHANGED <<routerVars, rpcVars>>
    BY <1>1 DEF Tick
  <2> HIDE DEF g
  <2>4. PollsOK'
    BY <2>2, <2>3 DEF PollsOK
  <2>5. RouterTypeOK'
    BY <2>3 DEF routerVars, scriptVars, uciVars, svcVars, dirVars, histVars, downVars, RouterTypeOK
  <2> QED
    BY <2>3, <2>4, <2>5 DEF routerVars, notFaults
<1>2. ASSUME NEW q \in polls, getTaskStatus(q)
      PROVE  PollsOK' /\ RouterTypeOK' /\ UNCHANGED <<rpcVars, notFaults>>
  <2> DEFINE rel == IF status.code = "ready" THEN releases ELSE {}
  <2>1. q \in Polls /\ status \in [code : Codes, at : Nat] /\ rel \in SUBSET Versions
    BY DEF PollsOK, RouterTypeOK
  <2>2. polls' = (polls \ {q}) \cup {[q EXCEPT !.state = "answered", !.said = status, !.rel = rel]}
        /\ UNCHANGED <<routerVars, rpcVars, poller>>
    BY <1>2 DEF getTaskStatus
  <2> HIDE DEF rel
  <2>3. [q EXCEPT !.state = "answered", !.said = status, !.rel = rel] \in Polls
    BY <2>1 DEF Polls
  <2>4. PollsOK'
    BY <2>2, <2>3 DEF PollsOK
  <2>5. RouterTypeOK'
    BY <2>2 DEF routerVars, scriptVars, uciVars, svcVars, dirVars, histVars, downVars, RouterTypeOK
  <2> QED
    BY <2>2, <2>4, <2>5 DEF routerVars, notFaults
<1>3. ASSUME NEW q \in polls, PollLost(q)
      PROVE  PollsOK' /\ RouterTypeOK' /\ UNCHANGED <<rpcVars, notFaults>>
  <2>a. polls' \subseteq polls
    BY <1>3 DEF PollLost
  <2>b. poller' \in {poller, [poller EXCEPT ![q.who].inFlight = FALSE]}
    BY <1>3 DEF PollLost
  <2>1. PollsOK'
    BY <2>a, <2>b DEF PollsOK
  <2>2. RouterTypeOK'
    BY <1>3, RouterAssumption DEF PollLost, Fault, notFaults, scriptVars, uciVars, svcVars, dirVars,
       histVars, downVars, RouterTypeOK
  <2> QED
    BY <1>3, <2>1, <2>2 DEF PollLost
<1>4. ASSUME NEW q \in polls, Deaf(q) \/ Hear(q)
      PROVE  PollsOK' /\ RouterTypeOK' /\ UNCHANGED <<rpcVars, notFaults>>
  <2>a. polls' \subseteq polls
    BY <1>4 DEF Deaf, Hear
  <2>b. poller' \in {poller, [poller EXCEPT ![q.who].inFlight = FALSE]}
    BY <1>4 DEF Deaf, Hear
  <2>1. PollsOK'
    BY <2>a, <2>b DEF PollsOK
  <2>2. UNCHANGED <<routerVars, rpcVars>>
    BY <1>4 DEF Deaf, Hear
  <2>3. RouterTypeOK'
    BY <2>2 DEF routerVars, scriptVars, uciVars, svcVars, dirVars, histVars, downVars, RouterTypeOK
  <2> QED
    BY <2>1, <2>2, <2>3 DEF routerVars, notFaults
<1> QED
  BY <1>0, <1>1, <1>2, <1>3, <1>4 DEF Polling

\* A process downloads and installs a version, never "unknown".
WantOK == \A p \in Proc : task[p].pc \in {"fetch"} \cup installing => task[p].want \in Versions

LEMMA WantSpawn ==
    ASSUME RouterTypeOK, WantOK, NEW kind \in {"check", "download", "auto"},
           NEW want \in 0..Latest, Spawn(kind, want)
    PROVE  WantOK'
<1>1. PICK p \in Free :
         task' = [task EXCEPT ![p] =
            [kind |-> kind, pc |-> IF kind = "download" THEN "lookup" ELSE "begin",
             want |-> want, cur |-> 0]]
  BY SpawnJob
<1>2. task'[p].pc \in {"lookup", "begin"}
  BY <1>1 DEF RouterTypeOK, Free
<1>3. \A r \in Proc \ {p} : task'[r] = task[r]
  BY <1>1
<1> QED
  BY <1>2, <1>3 DEF WantOK, installing

LEMMA WantScript ==
    ASSUME RouterTypeOK, WantOK, NEW p \in Proc, ScriptStep(p)
    PROVE  WantOK'
<1>1. task[p] \in Job /\ task' \in [Proc -> {Idle} \cup Job]
      /\ \A r \in Proc \ {p} : task'[r] = task[r]
  BY ScriptTask
<1> DEFINE w == task[p].want
<1>a. task \in [Proc -> {Idle} \cup Job]
  BY DEF RouterTypeOK, Job
<1>b. ASSUME NEW pc, Goto(p, pc)
      PROVE  task'[p].pc = pc /\ task'[p].want = w
  BY <1>1, <1>a, <1>b DEF Goto, Job
<1>c. Exit(p) => task'[p].pc = "idle"
  BY <1>a DEF Exit, Idle
<1>d. task[p].pc \in {"fetch"} \cup installing => w \in Versions
  BY DEF WantOK
<1> HIDE DEF w
<1>2. task'[p].pc \in {"fetch"} \cup installing => task'[p].want \in Versions
  <2>1. CASE Begin(p)
    BY <1>a, <2>1 DEF Begin, installing
  <2>2. CASE Query(p)
    BY <1>b, <1>c, <2>2 DEF Query, Die, installing
  <2>3. CASE Lookup(p)
    <3>1. w \in releases => w \in Versions
      BY DEF RouterTypeOK
    <3> QED
      BY <1>b, <1>c, <2>3, <3>1 DEF Lookup, Die, installing, w
  <2>4. CASE Decide(p)
    <3>1. Latest \in Versions
      BY RouterAssumption DEF Versions
    <3>2. CASE task' = [task EXCEPT ![p].want = Latest, ![p].pc = "fetch"]
      BY <1>1, <1>a, <3>1, <3>2 DEF Job
    <3> QED
      BY <1>b, <1>c, <2>4, <3>2 DEF Decide, Die, installing
  <2>5. CASE Fetch(p) \/ Unpack(p) \/ StopForInstall(p) \/ Copy(p) \/ StartAfterInstall(p) \/ Record(p)
    <3>1. w \in Versions
      BY <1>d, <2>5 DEF Fetch, Unpack, StopForInstall, Copy, StartAfterInstall, Record, At, installing
    <3>2. Exit(p) \/ \E pc \in Steps : Goto(p, pc)
      BY <2>5 DEF Fetch, Unpack, StopForInstall, Copy, StartAfterInstall, Record, Die, Steps
    <3> QED
      BY <1>b, <1>c, <3>1, <3>2 DEF installing
  <2>6. CASE Luci(p)
    BY <1>c, <2>6 DEF Luci, installing
  <2> QED
    BY <2>1, <2>2, <2>3, <2>4, <2>5, <2>6 DEF ScriptStep
<1> QED
  BY <1>1, <1>2 DEF WantOK

\* The timers and the calls of the restart button come from clicks.
SpinsOK == sw.spins + Cardinality(Restarts) <= events

\* The parts of the type invariant, as the steps below keep them.
WayOK == BothOK /\ PollsOK /\ WantOK
ShownOK == UpdTypeOK /\ StatusTypeOK /\ ConfigTypeOK /\ page \in {"update", "status", "config"}

LEMMA TypeParts ==
    LuckyTypeInv <=> WayOK /\ ShownOK /\ SpinsOK
BY PollsTyped DEF LuckyTypeInv, LuckyTypeOK, WireInv, WayOK, ShownOK, SpinsOK, BothOK, CallsOK, PollsOK,
   PollTypeOK, WantOK

LEMMA RouterStill ==
    ASSUME RouterTypeOK, UNCHANGED routerVars
    PROVE  RouterTypeOK'
BY DEF routerVars, scriptVars, uciVars, svcVars, dirVars, histVars, downVars, RouterTypeOK

LEMMA CallsStill ==
    ASSUME UNCHANGED rpcVars
    PROVE  (CallsOK => CallsOK') /\ Restarts' = Restarts
BY DEF rpcVars, CallsOK, RpcTypeOK, Restarts

LEMMA PollsStill ==
    ASSUME UNCHANGED pollVars
    PROVE  PollsOK => PollsOK'
BY DEF pollVars, PollsOK

LEMMA WantStill ==
    ASSUME UNCHANGED task
    PROVE  WantOK => WantOK'
BY DEF WantOK

\* The settings fill a form.
LEMMA NoFormType ==
    RouterTypeOK => NoForm \in [Keys -> Vals]
BY DEF RouterTypeOK, NoForm

\* A click counts as an event and makes one call.
LEMMA ClickType ==
    ASSUME WayOK, NEW op \in Ops, NEW want \in 0..Latest, NEW f \in [Keys -> Vals],
           Click(op, want, f), UNCHANGED <<notEvents, pollVars>>
    PROVE  /\ WayOK' /\ events' = events + 1 /\ events' \in Nat
           /\ Cardinality(Restarts') <= Cardinality(Restarts) + (IF op = "restart" THEN 1 ELSE 0)
<1>1. CallsOK' /\ Cardinality(Restarts') <= Cardinality(Restarts) + (IF op = "restart" THEN 1 ELSE 0)
  <2>1. calls' = calls \cup {CallOf(op, want, f)} /\ issued' = issued + 1 /\ hasty' \in BOOLEAN
    BY DEF Click, WayOK, BothOK, CallsOK, RpcTypeOK
  <2>2. CallsOK
    BY DEF WayOK, BothOK
  <2> QED
    BY <2>1, <2>2, CallMade
<1>2. events' = events + 1 /\ events' \in 0..MaxEvents
  BY RouterAssumption DEF Click, WayOK, BothOK, RouterTypeOK
<1>3. RouterTypeOK'
  BY <1>2 DEF WayOK, BothOK, RouterTypeOK, notEvents, scriptVars, uciVars, svcVars, dirVars, histVars,
     downVars
<1> QED
  BY <1>1, <1>2, <1>3, PollsStill, WantStill DEF WayOK, BothOK, notEvents, scriptVars

\* A reply is consumed, and the router does not notice.
LEMMA ConsumeType ==
    ASSUME WayOK, NEW c \in calls, Consume(c), UNCHANGED routerVars
    PROVE  /\ BothOK' /\ WantOK' /\ UNCHANGED events
           /\ Cardinality(Restarts') = Cardinality(Restarts) - (IF c.op = "restart" THEN 1 ELSE 0)
<1>1. UNCHANGED <<events, task>>
  BY DEF routerVars, scriptVars
<1> QED
  BY <1>1, CallConsumed, RouterStill, WantStill DEF WayOK, BothOK

\* The number of restarts in both states.
LEMMA RestartsNat ==
    BothOK => Cardinality(Restarts) \in Nat /\ events \in Nat /\ events <= MaxEvents /\ MaxEvents \in Nat
BY RestartsFinite, RouterAssumption DEF BothOK, CallsOK, RouterTypeOK

\* The update page.
LEMMA TypeUpdate ==
    ASSUME LuckyTypeInv, UpdatePage
    PROVE  LuckyTypeInv'
<1>0. WayOK /\ ShownOK /\ SpinsOK
  BY TypeParts
<1>a. page' \in {"update", "status", "config"} /\ StatusTypeOK' /\ ConfigTypeOK' /\ sw' = sw
  BY <1>0 DEF UpdatePage, ShownOK, StatusTypeOK, ConfigTypeOK, statusVars, configVars
<1>b. sw.spins \in Nat
  BY <1>0 DEF ShownOK, StatusTypeOK
<1>c. NoForm \in [Keys -> Vals]
  BY <1>0, NoFormType DEF WayOK, BothOK
<1>d. Cardinality(Restarts) \in Nat /\ events \in Nat
  BY <1>0, RestartsNat DEF WayOK
<1>e. WayOK' => Cardinality(Restarts)' \in Nat
  <2>2. BothOK' => (Cardinality(Restarts) \in Nat)'
    BY RestartsNat, PTL
  <2> QED
    BY <2>2 DEF WayOK
<1>f. SUFFICES WayOK' /\ UpdTypeOK' /\ SpinsOK'
  <2>1. WayOK' /\ ShownOK' /\ SpinsOK' => LuckyTypeInv'
    BY TypeParts, PTL
  <2> QED
    BY <1>a, <1>f, <2>1 DEF ShownOK
<1>g. UpdTypeOK /\ Latest \in Nat \ {0}
  BY <1>0, RouterAssumption DEF ShownOK
<1>1. ASSUME _chk \/ _do \/ Clear
      PROVE  WayOK' /\ UpdTypeOK' /\ SpinsOK'
  <2>1. /\ WayOK' /\ events' = events + 1
        /\ Cardinality(Restarts') <= Cardinality(Restarts)
    <3>1. PICK op \in {"check", "do", "clean"}, want \in 0..Latest : Click(op, want, NoForm)
      BY <1>1, <1>g DEF _chk, _do, Clear, UpdTypeOK
    <3>2. UNCHANGED <<notEvents, pollVars>>
      BY <1>1 DEF _chk, _do, Clear
    <3>3. op \in Ops /\ op # "restart"
      BY DEF Ops
    <3> QED
      BY <1>0, <1>c, <1>d, <3>1, <3>2, <3>3, ClickType
  <2>2. UpdTypeOK'
    BY <1>1, <1>g DEF _chk, _do, Clear, UpdTypeOK
  <2>3. SpinsOK'
    BY <1>0, <1>a, <1>b, <1>d, <1>e, <2>1 DEF SpinsOK
  <2> QED
    BY <2>1, <2>2, <2>3
<1>2. ASSUME NEW tag \in Versions, Choose(tag)
      PROVE  WayOK' /\ UpdTypeOK' /\ SpinsOK'
  <2>1. UNCHANGED <<routerVars, rpcVars, pollVars>>
    BY <1>2 DEF Choose
  <2>2. WayOK' /\ Restarts' = Restarts /\ UNCHANGED events
    BY <1>0, <2>1, RouterStill, CallsStill, PollsStill, WantStill DEF WayOK, BothOK, routerVars, scriptVars
  <2>3. UpdTypeOK'
    <3>1. tag \in 0..Latest
      BY <1>g DEF Versions
    <3>2. upd' = [upd EXCEPT !.tag = tag, !.do = TRUE]
      BY <1>2 DEF Choose, _sel
    <3> QED
      BY <1>g, <3>1, <3>2 DEF UpdTypeOK
  <2> QED
    BY <1>0, <1>a, <2>2, <2>3 DEF SpinsOK
<1>3. ASSUME NEW c \in calls, ChkAnswer(c) \/ DoAnswer(c) \/ ClearAnswer(c)
      PROVE  WayOK' /\ UpdTypeOK' /\ SpinsOK'
  <2>1. Consume(c) /\ UNCHANGED routerVars /\ c.op # "restart"
    BY <1>3 DEF ChkAnswer, DoAnswer, ClearAnswer, Delivered
  <2>2. BothOK' /\ WantOK' /\ UNCHANGED events /\ Cardinality(Restarts') = Cardinality(Restarts)
    BY <1>0, <1>d, <2>1, ConsumeType
  <2>3. PollsOK'
    <3>1. c.ans.run \in Nat
      BY <1>0 DEF WayOK, BothOK, CallsOK, Calls, Answers
    <3>2. start("chk", c.ans.run) \/ start("do", c.ans.run) \/ UNCHANGED pollVars
      BY <1>3 DEF ChkAnswer, DoAnswer, ClearAnswer
    <3> QED
      BY <1>0, <3>1, <3>2, PollsStart, PollsStill, PollerAssumption DEF WayOK
  <2>4. UpdTypeOK'
    <3>1. \/ upd' = upd
          \/ upd' = [upd EXCEPT !.chk = TRUE, !.retry = TRUE]
          \/ upd' = [upd EXCEPT !.do = TRUE]
      BY <1>3 DEF ChkAnswer, DoAnswer, ClearAnswer
    <3> QED
      BY <1>g, <3>1 DEF UpdTypeOK
  <2> QED
    BY <1>0, <1>a, <1>b, <1>d, <2>2, <2>3, <2>4 DEF WayOK, SpinsOK
<1>4. ASSUME NEW q \in polls, onDone(q)
      PROVE  WayOK' /\ UpdTypeOK' /\ SpinsOK'
  <2>1. Last(q) /\ UNCHANGED <<routerVars, rpcVars>>
    BY <1>4 DEF onDone
  <2>2. WayOK' /\ Restarts' = Restarts /\ UNCHANGED events
    BY <1>0, <2>1, RouterStill, CallsStill, PollsLast, WantStill DEF WayOK, BothOK, routerVars, scriptVars
  <2>3. UpdTypeOK'
    <3>1. q.rel \in SUBSET Versions
      BY <1>0 DEF WayOK, PollsOK, Polls
    <3> DEFINE u == [upd EXCEPT !.chk = TRUE, !.do = TRUE]
    <3>3. \/ \E fits \in BOOLEAN :
                upd' = [[u EXCEPT !.tag = IF fits THEN Latest ELSE 0, !.do = fits]
                           EXCEPT !.rels = q.rel, !.sels = TRUE]
          \/ upd' = [u EXCEPT !.retry = TRUE]
          \/ upd' = u
      BY <1>4 DEF onDone, _sel
    <3>4. u \in [chk : BOOLEAN, do : BOOLEAN, sels : BOOLEAN, retry : BOOLEAN,
                  rels : SUBSET Versions, tag : 0..Latest]
      BY <1>g DEF UpdTypeOK
    <3> HIDE DEF u
    <3>5. ASSUME NEW fits \in BOOLEAN, NEW t \in 0..Latest
          PROVE  [[u EXCEPT !.tag = t, !.do = fits] EXCEPT !.rels = q.rel, !.sels = TRUE]
                    \in [chk : BOOLEAN, do : BOOLEAN, sels : BOOLEAN, retry : BOOLEAN,
                         rels : SUBSET Versions, tag : 0..Latest]
      BY <3>1, <3>4
    <3>6. [u EXCEPT !.retry = TRUE] \in [chk : BOOLEAN, do : BOOLEAN, sels : BOOLEAN,
                 retry : BOOLEAN, rels : SUBSET Versions, tag : 0..Latest]
      BY <3>4
    <3>7. \A fits \in BOOLEAN : (IF fits THEN Latest ELSE 0) \in 0..Latest
      BY <1>g
    <3>8. CASE upd' = u \/ upd' = [u EXCEPT !.retry = TRUE]
      BY <3>4, <3>6, <3>8 DEF UpdTypeOK
    <3>9. ASSUME NEW fits \in BOOLEAN, NEW t, t = (IF fits THEN Latest ELSE 0),
                 upd' = [[u EXCEPT !.tag = t, !.do = fits] EXCEPT !.rels = q.rel, !.sels = TRUE]
          PROVE  UpdTypeOK'
      BY <3>5, <3>7, <3>9 DEF UpdTypeOK
    <3> QED
      BY <3>3, <3>8, <3>9
  <2> QED
    BY <1>0, <1>a, <2>2, <2>3 DEF SpinsOK
<1> QED
  BY <1>1, <1>2, <1>3, <1>4 DEF UpdatePage, UpdateNext

\* The switch, its buttons and the card of the status page.
LEMMA TypeStatus ==
    ASSUME LuckyTypeInv, StatusPage
    PROVE  LuckyTypeInv'
<1>0. WayOK /\ ShownOK /\ SpinsOK
  BY TypeParts
<1>a. page' \in {"update", "status", "config"} /\ UpdTypeOK' /\ ConfigTypeOK'
  BY <1>0 DEF StatusPage, ShownOK, UpdTypeOK, ConfigTypeOK, configVars
<1>c. NoForm \in [Keys -> Vals]
  BY <1>0, NoFormType DEF WayOK, BothOK
<1>d. /\ Cardinality(Restarts) \in Nat /\ events \in Nat
      /\ MaxEvents \in Nat /\ sw.spins \in Nat
  BY <1>0, RestartsNat DEF WayOK, ShownOK, StatusTypeOK
<1>e. WayOK' => (Cardinality(Restarts) \in Nat /\ events \in Nat /\ events <= MaxEvents)'
  <2>1. (BothOK => Cardinality(Restarts) \in Nat /\ events \in Nat /\ events <= MaxEvents)'
    BY RestartsNat, PTL
  <2> QED
    BY <2>1 DEF WayOK
<1>f. SUFFICES WayOK' /\ StatusTypeOK' /\ SpinsOK'
  <2>1. WayOK' /\ ShownOK' /\ SpinsOK' => LuckyTypeInv'
    BY TypeParts, PTL
  <2> QED
    BY <1>a, <1>f, <2>1 DEF ShownOK
<1> DEFINE Sw == [checked : BOOLEAN, enabledState : BOOLEAN, restartOff : BOOLEAN, spins : Nat]
<1>g. sw \in Sw /\ miss \in {"none", "offered", "busy"}
  BY <1>0 DEF ShownOK, StatusTypeOK
<1>h. ASSUME WayOK', SpinsOK', sw' \in Sw, miss' \in {"none", "offered", "busy"}
      PROVE  StatusTypeOK'
  <2>1. sw'.spins + Cardinality(Restarts') <= events'
    BY <1>h DEF SpinsOK
  <2>2. sw'.spins \in 0..MaxEvents
    BY <1>d, <1>e, <1>h, <2>1
  <2> QED
    BY <1>h, <2>2 DEF StatusTypeOK
<1>i. SUFFICES WayOK' /\ SpinsOK' /\ sw' \in Sw /\ miss' \in {"none", "offered", "busy"}
  BY <1>h, <1>i
<1>1. ASSUME Toggle \/ Restart \/ Download
      PROVE  WayOK' /\ SpinsOK' /\ sw' \in Sw /\ miss' \in {"none", "offered", "busy"}
  <2>1. PICK op \in {"enable", "disable", "restart", "run_update"} : Click(op, 0, NoForm)
    BY <1>1 DEF Toggle, Restart, Download
  <2>2. UNCHANGED <<notEvents, pollVars>>
    BY <1>1 DEF Toggle, Restart, Download
  <2>3. op \in Ops /\ 0 \in 0..Latest
    BY RouterAssumption DEF Ops
  <2>4. /\ WayOK' /\ events' = events + 1
        /\ Cardinality(Restarts') <= Cardinality(Restarts) + 1
    BY <1>0, <1>c, <1>d, <1>e, <2>1, <2>2, <2>3, ClickType
  <2>5. sw' \in Sw /\ sw'.spins = sw.spins
    <3>1. sw' \in {sw, [sw EXCEPT !.restartOff = TRUE],
                   [sw EXCEPT !.checked = ~sw.checked, !.enabledState = ~sw.checked,
                              !.restartOff = sw.checked]}
      BY <1>1, <1>g DEF Toggle, Restart, Download
    <3> QED
      BY <1>g, <3>1
  <2>6. miss' \in {"none", "offered", "busy"}
    BY <1>1, <1>g DEF Toggle, Restart, Download
  <2>7. SpinsOK'
    BY <1>0, <1>d, <1>e, <2>4, <2>5 DEF SpinsOK
  <2> QED
    BY <2>4, <2>5, <2>6, <2>7
<1>2. ASSUME GiveBack
      PROVE  WayOK' /\ SpinsOK' /\ sw' \in Sw /\ miss' \in {"none", "offered", "busy"}
  <2>1. UNCHANGED <<routerVars, pollVars, rpcVars, miss>>
    BY <1>2 DEF GiveBack
  <2>2. WayOK' /\ Restarts' = Restarts /\ UNCHANGED events
    BY <1>0, <2>1, RouterStill, CallsStill, PollsStill, WantStill DEF WayOK, BothOK, routerVars, scriptVars
  <2> DEFINE n == sw.spins - 1
             off == ~sw.enabledState
  <2>a. n \in Nat /\ off \in BOOLEAN /\ sw' = [sw EXCEPT !.spins = n, !.restartOff = off]
    BY <1>2, <1>d, <1>g DEF GiveBack
  <2>b. n = sw.spins - 1
    OBVIOUS
  <2> HIDE DEF n, off
  <2>3. sw' \in Sw /\ sw'.spins = sw.spins - 1
    BY <1>g, <2>a, <2>b
  <2> QED
    BY <1>0, <1>d, <1>g, <2>1, <2>2, <2>3 DEF SpinsOK
<1>3. ASSUME NEW c \in calls, ToggleAnswer(c)
      PROVE  WayOK' /\ SpinsOK' /\ sw' \in Sw /\ miss' \in {"none", "offered", "busy"}
  <2>1. UNCHANGED <<routerVars, pollVars, sw, miss>> /\ c.op # "restart"
    BY <1>3 DEF ToggleAnswer, Delivered
  <2>2. PollsOK' /\ UNCHANGED <<events, task>>
    BY <1>0, <2>1, PollsStill DEF WayOK, routerVars, scriptVars
  <2>3. CASE Consume(c)
    <3>1. BothOK' /\ WantOK' /\ Cardinality(Restarts') = Cardinality(Restarts)
      BY <1>0, <1>d, <2>1, <2>3, ConsumeType
    <3> QED
      BY <1>0, <1>g, <2>1, <2>2, <3>1 DEF SpinsOK, WayOK
  <2>4. CASE FollowUp(c, "settings")
    <3>1. /\ CallsOK /\ c.form \in [Keys -> Vals] /\ "settings" \in Ops /\ 0 \in 0..Latest
          /\ hasty \in BOOLEAN
      BY <1>0, RouterAssumption DEF WayOK, BothOK, CallsOK, Calls, Ops, RpcTypeOK
    <3>2. /\ calls' = (calls \ {c}) \cup {CallOf("settings", 0, c.form)}
          /\ issued' = issued + 1 /\ hasty' \in BOOLEAN
      BY <2>4, <3>1 DEF FollowUp
    <3>3. CallsOK' /\ Cardinality(Restarts') <= Cardinality(Restarts)
      <4> DEFINE old == calls \ {c}
                 f == c.form
      <4>1. /\ old \in SUBSET calls /\ f \in [Keys -> Vals]
            /\ calls' = old \cup {CallOf("settings", 0, f)}
        BY <3>1, <3>2
      <4> HIDE DEF old, f
      <4>2. CallsOK' /\ Cardinality(Restarts') <= Cardinality(Restarts) + 0
        BY <3>1, <3>2, <4>1, CallMade
      <4> QED
        BY <1>d, <4>2
    <3>4. RouterTypeOK' /\ WantOK'
      BY <1>0, <2>1, <2>2, RouterStill, WantStill DEF WayOK, BothOK
    <3>5. WayOK'
      BY <2>2, <3>3, <3>4 DEF WayOK, BothOK
    <3> QED
      BY <1>0, <1>d, <1>e, <1>g, <2>1, <2>2, <3>3, <3>5 DEF SpinsOK
  <2> QED
    BY <1>3, <2>3, <2>4 DEF ToggleAnswer
<1>4. ASSUME NEW c \in calls, SyncAnswer(c) \/ RestartAnswer(c)
      PROVE  WayOK' /\ SpinsOK' /\ sw' \in Sw /\ miss' \in {"none", "offered", "busy"}
  <2>1. Consume(c) /\ UNCHANGED <<routerVars, pollVars, miss>>
    BY <1>4 DEF SyncAnswer, RestartAnswer
  <2>2. /\ BothOK' /\ WantOK' /\ UNCHANGED events
        /\ Cardinality(Restarts') = Cardinality(Restarts) - (IF c.op = "restart" THEN 1 ELSE 0)
    BY <1>0, <2>1, ConsumeType
  <2>3. WayOK'
    BY <1>0, <2>1, <2>2, PollsStill DEF WayOK
  <2>4. c.ans.on \in BOOLEAN
    BY <1>0 DEF WayOK, BothOK, CallsOK, Calls, Answers
  <2>5. sw' \in Sw /\ sw'.spins = sw.spins + (IF c.op = "restart" THEN 1 ELSE 0)
    <3>1. CASE SyncAnswer(c)
      <4> DEFINE on == c.ans.on
                 off == ~c.ans.on
      <4>1. /\ on \in BOOLEAN /\ off \in BOOLEAN /\ c.op # "restart"
            /\ sw' = [sw EXCEPT !.checked = on, !.enabledState = on, !.restartOff = off]
        BY <2>4, <3>1 DEF SyncAnswer, Delivered
      <4> HIDE DEF on, off
      <4>2. sw' \in Sw
        BY <1>g, <4>1
      <4>3. sw'.spins = sw.spins /\ sw.spins + 0 = sw.spins
        BY <1>d, <1>g, <4>1
      <4> HIDE DEF Sw
      <4> QED
        BY <4>1, <4>2, <4>3
    <3>2. CASE RestartAnswer(c)
      <4> DEFINE n == sw.spins + 1
      <4>1. n \in Nat /\ c.op = "restart" /\ sw' = [sw EXCEPT !.spins = n]
        BY <1>d, <3>2 DEF RestartAnswer, Delivered
      <4>2. n = sw.spins + 1
        OBVIOUS
      <4> HIDE DEF n
      <4>3. sw' \in Sw
        BY <1>g, <4>1
      <4>4. sw'.spins = sw.spins + 1
        BY <1>g, <4>1, <4>2
      <4> HIDE DEF Sw
      <4> QED
        BY <4>1, <4>3, <4>4
    <3> QED
      BY <1>4, <3>1, <3>2
  <2>6. SpinsOK'
    BY <1>0, <1>d, <1>e, <2>2, <2>3, <2>5 DEF SpinsOK
  <2> QED
    BY <1>g, <2>1, <2>3, <2>5, <2>6
<1>5. ASSUME NEW c \in calls, DownloadAnswer(c)
      PROVE  WayOK' /\ SpinsOK' /\ sw' \in Sw /\ miss' \in {"none", "offered", "busy"}
  <2>1. Consume(c) /\ UNCHANGED <<routerVars, sw>> /\ c.op # "restart"
    BY <1>5 DEF DownloadAnswer, Delivered
  <2>2. BothOK' /\ WantOK' /\ UNCHANGED events /\ Cardinality(Restarts') = Cardinality(Restarts)
    BY <1>0, <1>d, <2>1, ConsumeType
  <2>3. PollsOK'
    <3>1. c.ans.run \in Nat
      BY <1>0 DEF WayOK, BothOK, CallsOK, Calls, Answers
    <3>2. start("miss", c.ans.run) \/ UNCHANGED pollVars
      BY <1>5 DEF DownloadAnswer
    <3> QED
      BY <1>0, <3>1, <3>2, PollsStart, PollsStill, PollerAssumption DEF WayOK
  <2> QED
    BY <1>0, <1>5, <1>g, <2>1, <2>2, <2>3 DEF WayOK, SpinsOK, DownloadAnswer
<1>6. ASSUME NEW q \in polls, DownloadDone(q)
      PROVE  WayOK' /\ SpinsOK' /\ sw' \in Sw /\ miss' \in {"none", "offered", "busy"}
  <2>1. Last(q) /\ UNCHANGED <<routerVars, rpcVars, sw>> /\ miss' \in {"none", "offered"}
    BY <1>6 DEF DownloadDone
  <2>2. WayOK' /\ Restarts' = Restarts /\ UNCHANGED events
    BY <1>0, <2>1, RouterStill, CallsStill, PollsLast, WantStill DEF WayOK, BothOK, routerVars, scriptVars
  <2> QED
    BY <1>0, <1>g, <2>1, <2>2 DEF SpinsOK
<1> QED
  BY <1>1, <1>2, <1>3, <1>4, <1>5, <1>6 DEF StatusPage, StatusNext

\* The settings page.
LEMMA TypeConfig ==
    ASSUME LuckyTypeInv, ConfigPage
    PROVE  LuckyTypeInv'
<1>0. WayOK /\ ShownOK /\ SpinsOK
  BY TypeParts
<1>a. page' \in {"update", "status", "config"} /\ UpdTypeOK' /\ StatusTypeOK' /\ sw' = sw
      /\ UNCHANGED pollVars
  BY <1>0 DEF ConfigPage, ShownOK, UpdTypeOK, StatusTypeOK, statusVars
<1>d. Cardinality(Restarts) \in Nat /\ events \in Nat /\ sw.spins \in Nat
  BY <1>0, RestartsNat DEF WayOK, ShownOK, StatusTypeOK
<1>e. WayOK' => (Cardinality(Restarts) \in Nat)'
  <2>1. (BothOK => Cardinality(Restarts) \in Nat)'
    BY RestartsNat, PTL
  <2> QED
    BY <2>1 DEF WayOK
<1>f. SUFFICES WayOK' /\ ConfigTypeOK' /\ SpinsOK'
  <2>1. WayOK' /\ ShownOK' /\ SpinsOK' => LuckyTypeInv'
    BY TypeParts, PTL
  <2> QED
    BY <1>a, <1>f, <2>1 DEF ShownOK
<1>g. ConfigTypeOK
  BY <1>0 DEF ShownOK
<1>1. ASSUME _save \/ ListBackups \/ Reset \/ \E b \in listed : Pick(b)
      PROVE  WayOK' /\ ConfigTypeOK' /\ SpinsOK'
  <2>1. PICK op \in {"save", "list", "reset", "restore"}, want \in 0..Latest : Click(op, want, form)
    <3>1. 0 \in 0..Latest
      BY RouterAssumption
    <3>2. CASE _save \/ ListBackups \/ Reset
      BY <3>1, <3>2 DEF _save, ListBackups, Reset
    <3>3. ASSUME NEW b \in listed, Pick(b)
          PROVE  \E want \in 0..Latest : Click("restore", want, form)
      BY <1>g, <3>3 DEF Pick, ConfigTypeOK
    <3> QED
      BY <1>1, <3>2, <3>3
  <2>2. UNCHANGED notEvents
    BY <1>1 DEF _save, ListBackups, Reset, Pick
  <2>3. op \in Ops /\ op # "restart" /\ form \in [Keys -> Vals]
    BY <1>g DEF Ops, ConfigTypeOK
  <2>4. WayOK' /\ events' = events + 1 /\ Cardinality(Restarts') <= Cardinality(Restarts)
    BY <1>0, <1>a, <1>d, <1>e, <2>1, <2>2, <2>3, ClickType
  <2>5. ConfigTypeOK'
    BY <1>1, <1>g DEF _save, ListBackups, Reset, Pick, ConfigTypeOK, configVars
  <2> QED
    BY <1>0, <1>a, <1>d, <1>e, <2>4, <2>5 DEF SpinsOK
<1>2. ASSUME ClosePanel \/ \E k \in Keys, v \in Vals : Edit(k, v)
      PROVE  WayOK' /\ ConfigTypeOK' /\ SpinsOK'
  <2>1. UNCHANGED <<routerVars, rpcVars>>
    BY <1>2 DEF ClosePanel, Edit
  <2>2. WayOK' /\ Restarts' = Restarts /\ UNCHANGED events
    BY <1>0, <1>a, <2>1, RouterStill, CallsStill, PollsStill, WantStill
       DEF WayOK, BothOK, routerVars, scriptVars
  <2>3. ConfigTypeOK'
    BY <1>2, <1>g DEF ClosePanel, Edit, ConfigTypeOK
  <2> QED
    BY <1>0, <1>a, <2>2, <2>3 DEF SpinsOK
<1>3. ASSUME NEW c \in calls, SaveAnswer(c) \/ ListAnswer(c) \/ RestoreAnswer(c) \/ ResetAnswer(c)
      PROVE  WayOK' /\ ConfigTypeOK' /\ SpinsOK'
  <2>1. Consume(c) /\ UNCHANGED routerVars /\ c.op # "restart"
    BY <1>3 DEF SaveAnswer, ListAnswer, RestoreAnswer, ResetAnswer, Delivered
  <2>2. BothOK' /\ WantOK' /\ UNCHANGED events /\ Cardinality(Restarts') = Cardinality(Restarts)
    BY <1>0, <1>d, <2>1, ConsumeType
  <2>3. c.ans.names \subseteq 0..Latest
    BY <1>0 DEF WayOK, BothOK, CallsOK, Calls, Answers
  <2>4. ConfigTypeOK'
    BY <1>3, <1>g, <2>3 DEF SaveAnswer, ListAnswer, RestoreAnswer, ResetAnswer, ConfigTypeOK
  <2> QED
    BY <1>0, <1>a, <1>d, <2>2, <2>4, PollsStill DEF WayOK, SpinsOK
<1> QED
  BY <1>1, <1>2, <1>3 DEF ConfigPage, ConfigNext

\* cron, the init script and the update script; the plugin; the timers of the pollers.
LEMMA TypeBehind ==
    ASSUME LuckyTypeInv, Router \/ Plugin \/ Polling
    PROVE  LuckyTypeInv'
<1>0. WayOK /\ ShownOK /\ SpinsOK
  BY TypeParts
<1>a. UNCHANGED pages
  BY DEF Router, Plugin, Polling
<1>b. ShownOK' /\ sw' = sw
  BY <1>0, <1>a DEF pages, ShownOK, UpdTypeOK, StatusTypeOK, ConfigTypeOK, statusVars, configVars
<1>c. /\ Cardinality(Restarts) \in Nat /\ events \in Nat /\ sw.spins \in Nat
      /\ RouterTypeOK /\ CallsOK /\ WireInv
  BY <1>0, RestartsNat DEF WayOK, ShownOK, StatusTypeOK, BothOK, LuckyTypeInv
<1>d. WayOK' => (Cardinality(Restarts) \in Nat)'
  <2>1. (BothOK => Cardinality(Restarts) \in Nat)'
    BY RestartsNat, PTL
  <2> QED
    BY <2>1 DEF WayOK
<1>e. WayOK' => events' \in Nat
  BY RouterAssumption DEF WayOK, BothOK, RouterTypeOK
<1>f. SUFFICES WayOK' /\ Cardinality(Restarts') <= Cardinality(Restarts) /\ events <= events'
  <2>1. SpinsOK'
    BY <1>0, <1>b, <1>c, <1>d, <1>e, <1>f DEF SpinsOK
  <2>2. WayOK' /\ ShownOK' /\ SpinsOK' => LuckyTypeInv'
    BY TypeParts, PTL
  <2> QED
    BY <1>b, <1>f, <2>1, <2>2
<1>1. CASE Router
  <2>1. UNCHANGED <<rpcVars, pollVars>>
    BY <1>1 DEF Router
  <2>2. CallsOK' /\ Restarts' = Restarts /\ PollsOK'
    BY <1>0, <1>c, <2>1, CallsStill, PollsStill DEF WayOK
  <2>3. CASE Cron
    <3>1. events' = events + 1 /\ Spawn("auto", 0) /\ 0 \in 0..Latest
      BY <2>3, RouterAssumption DEF Cron
    <3>2. RouterTypeOK' /\ WantOK'
      BY <1>0, <1>c, <2>3, <3>1, RouterTypeInit, WantSpawn DEF WayOK
    <3> QED
      BY <1>c, <2>2, <3>1, <3>2 DEF WayOK, BothOK
  <2>4. ASSUME NEW j \in jobs, RunJob(j)
        PROVE  WayOK' /\ Cardinality(Restarts') <= Cardinality(Restarts) /\ events <= events'
    <3>1. RouterTypeOK' /\ events' = events
      BY <1>c, <2>4, RouterTypeInit DEF RunJob
    <3>2. (UNCHANGED task) \/ Spawn("auto", 0)
      <4>1. j \in {"start", "stop", "restart"}
        BY <1>c DEF RouterTypeOK
      <4> QED
        BY <2>4, <4>1 DEF RunJob, StartService, StopService
    <3>3. WantOK' /\ 0 \in 0..Latest
      BY <1>0, <1>c, <3>2, WantStill, WantSpawn, RouterAssumption DEF WayOK
    <3> QED
      BY <1>c, <2>2, <3>1, <3>3 DEF WayOK, BothOK
  <2>5. ASSUME NEW p \in Proc, ScriptStep(p)
        PROVE  WayOK' /\ Cardinality(Restarts') <= Cardinality(Restarts) /\ events <= events'
    <3>1. RouterTypeOK' /\ WantOK'
      BY <1>0, <1>c, <2>5, RouterTypeScript, WantScript DEF WayOK
    <3>2. events' = events
      BY <2>5 DEF ScriptStep, Begin, Query, Decide, Lookup, Fetch, Unpack, StopForInstall, Copy,
         StartAfterInstall, Record, Luci, taskRest
    <3> QED
      BY <1>c, <2>2, <3>1, <3>2 DEF WayOK, BothOK
  <2> QED
    BY <1>1, <2>3, <2>4, <2>5 DEF Router, RouterNext
<1>2. CASE Plugin
  <2>1. PICK c \in calls : Serve(c) \/ Lose(c)
    BY <1>2 DEF Plugin
  <2>2. BothOK' /\ Cardinality(Restarts') <= Cardinality(Restarts) /\ PollsOK'
    BY <1>0, <1>2, <2>1, PluginType, PollsStill DEF WayOK, Plugin
  <2>3. events' = events
    BY <2>1 DEF Serve, Lose, toggle_service, get_settings, save_settings, get_upstream_version,
       do_update, run_update, runTask, clean_update, list_backups, restore_backup, reset_user,
       noTask, routerVars, notFaults
  <2>4. c.want \in 0..Latest
    BY <1>c DEF CallsOK, Calls
  <2>5. \/ UNCHANGED task
        \/ \E kind \in {"check", "download", "auto"} : Spawn(kind, c.want)
    BY <2>1 DEF Serve, Lose, toggle_service, get_settings, save_settings, get_upstream_version,
       do_update, run_update, runTask, clean_update, list_backups, restore_backup, reset_user,
       noTask, routerVars, notFaults, scriptVars
  <2>6. WantOK'
    BY <1>0, <1>c, <2>4, <2>5, WantStill, WantSpawn DEF WayOK
  <2> QED
    BY <1>c, <2>2, <2>3, <2>6 DEF WayOK
<1>3. CASE Polling
  <2>1. PollsOK' /\ RouterTypeOK' /\ UNCHANGED <<rpcVars, notFaults>>
    BY <1>0, <1>3, PollsMove DEF WayOK, BothOK
  <2>2. CallsOK' /\ Restarts' = Restarts /\ WantOK' /\ UNCHANGED events
    BY <1>0, <1>c, <2>1, CallsStill, WantStill DEF WayOK, notFaults, scriptVars
  <2> QED
    BY <1>c, <2>1, <2>2 DEF WayOK, BothOK
<1> QED
  BY <1>1, <1>2, <1>3

\* Every page starts in a state of the right types.
LEMMA LuckyTypeInit ==
    Init => LuckyTypeInv
<1> SUFFICES ASSUME Init PROVE LuckyTypeInv
  OBVIOUS
<1> USE RouterAssumption, ConfigAssumption
<1>0. (CHOOSE v \in Vals : TRUE) \in Vals
  OBVIOUS
<1>1. RouterTypeOK
  <2>1. Idle \in {Idle} \cup [kind : {"check", "download", "auto"}, pc : Steps, want : 0..Latest,
                              cur : 0..Latest]
    OBVIOUS
  <2>2. binary \in 0..Torn /\ installed \in 0..Latest
    BY DEF Init, RouterInit, Missing, Torn
  <2>3. /\ conf \in [Keys -> Vals] /\ loaded \in [RestartKeys -> Vals]
        /\ status \in [code : Codes, at : Nat]
    BY <1>0 DEF Init, RouterInit, Codes
  <2>4. task \in [Proc -> {Idle} \cup [kind : {"check", "download", "auto"}, pc : Steps,
                                     want : 0..Latest, cur : 0..Latest]]
    BY <2>1 DEF Init, RouterInit
  <2>5. /\ releases \subseteq Versions /\ files \subseteq Versions
        /\ extract \in 0..Latest /\ backups \subseteq 0..Latest
    BY DEF Init, RouterInit
  <2>6. /\ enabled \in BOOLEAN /\ svc \in {"stopped", "running"}
        /\ jobs \subseteq {"start", "stop", "restart"}
    BY DEF Init, RouterInit
  <2>7. /\ launches \in Nat /\ faults \in 0..MaxFaults /\ events \in 0..MaxEvents
        /\ {overlap, clash, cleared, late, broke} \subseteq BOOLEAN
    <3>1. /\ launches = 0 /\ faults = 0 /\ events = 0
          /\ overlap = FALSE /\ clash = FALSE /\ cleared = FALSE /\ late = FALSE /\ broke = FALSE
      BY DEF Init, RouterInit
    <3>2. {overlap, clash, cleared, late, broke} \subseteq BOOLEAN
      BY <3>1
    <3> QED
      BY <3>1, <3>2
  <2> QED
    BY <2>2, <2>3, <2>4, <2>5, <2>6, <2>7 DEF RouterTypeOK
<1>2. CallsOK /\ Restarts = {} /\ Cardinality({}) = 0
  BY FS_EmptySet DEF Init, RpcInit, CallsOK, RpcTypeOK, Restarts
<1>3. PollsOK
  BY DEF Init, PollInit, PollsOK
<1>4. WantOK
  BY DEF Init, RouterInit, WantOK, Idle, installing
<1>5. UpdTypeOK
  <2>1. {} \in SUBSET Versions /\ 0 \in 0..Latest
    OBVIOUS
  <2>2. upd = [chk |-> TRUE, do |-> TRUE, sels |-> FALSE, retry |-> FALSE, rels |-> {}, tag |-> 0]
    BY DEF Init, UpdInit, Blind
  <2> QED
    BY <2>1, <2>2 DEF UpdTypeOK
<1>6. StatusTypeOK /\ sw.spins = 0
  BY <1>1 DEF Init, StatusInit, StatusTypeOK, RouterTypeOK
<1>7. ConfigTypeOK
  BY <1>1 DEF Init, ConfigInit, ConfigTypeOK, RouterTypeOK
<1>8. SpinsOK
  BY <1>2, <1>6 DEF Init, RouterInit, SpinsOK
<1> QED
  BY <1>1, <1>2, <1>3, <1>4, <1>5, <1>6, <1>7, <1>8, TypeParts DEF WayOK, BothOK, ShownOK, Init

\* A step that changes nothing keeps them.
LEMMA LuckyTypeStutter ==
    ASSUME LuckyTypeInv, UNCHANGED luckyVars
    PROVE  LuckyTypeInv'
<1>0. WayOK /\ ShownOK /\ SpinsOK
  BY TypeParts
<1>1. WayOK'
  BY <1>0, RouterStill, CallsStill, PollsStill, WantStill
     DEF luckyVars, WayOK, BothOK, routerVars, scriptVars
<1>2. ShownOK'
  BY <1>0 DEF luckyVars, ShownOK, UpdTypeOK, StatusTypeOK, ConfigTypeOK, statusVars, configVars
<1>3. SpinsOK'
  BY <1>0, CallsStill DEF luckyVars, SpinsOK, statusVars, routerVars
<1> QED
  <2>1. WayOK' /\ ShownOK' /\ SpinsOK' => LuckyTypeInv'
    BY TypeParts, PTL
  <2> QED
    BY <1>1, <1>2, <1>3, <2>1

LEMMA LuckyTypeNext ==
    LuckyTypeInv /\ [Next]_luckyVars => LuckyTypeInv'
BY TypeUpdate, TypeStatus, TypeConfig, TypeBehind, LuckyTypeStutter DEF Next

LEMMA LuckyTypes ==
    Spec => []LuckyTypeInv
BY LuckyTypeInit, LuckyTypeNext, PTL DEF Spec

\* Settings, files, processes, calls, requests and pages keep their types, whatever the
\* number of processes, versions, keys, clicks and faults.
THEOREM LuckyTypeCorrect ==
    Spec => []LuckyTypeOK
<1>1. LuckyTypeInv => LuckyTypeOK
  BY DEF LuckyTypeInv
<1> QED
  BY <1>1, LuckyTypes, PTL

-----------------------------------------------------------------------------
(* What the steps leave alone.                                             *)

\* Pages and pollers never touch the router, they only count clicks and lost polls.
LEMMA PagesOutside ==
    ASSUME UpdatePage \/ StatusPage \/ ConfigPage
    PROVE  UNCHANGED notEvents
BY DEF UpdatePage, StatusPage, ConfigPage, UpdateNext, StatusNext, ConfigNext,
   _chk, _do, Clear, Choose, ChkAnswer, DoAnswer, ClearAnswer, onDone,
   Toggle, Restart, Download, GiveBack, ToggleAnswer, SyncAnswer, RestartAnswer, DownloadAnswer,
   DownloadDone, _save, ListBackups, ClosePanel, Reset, Edit, Pick, SaveAnswer, ListAnswer,
   RestoreAnswer, ResetAnswer, routerVars, notEvents

LEMMA PollingOutside ==
    ASSUME Polling
    PROVE  UNCHANGED <<notFaults, rpcVars, pages>> /\ (UNCHANGED faults \/ Fault)
BY DEF Polling, Tick, getTaskStatus, PollLost, Deaf, Hear, routerVars, notFaults

\* A step of the router's processes, of the plugin, or one that leaves the router alone.
LEMMA Sides ==
    ASSUME [Next]_luckyVars
    PROVE  \/ RouterNext
           \/ \E c \in calls : Serve(c)
           \/ UNCHANGED scriptVars
<1>1. CASE UpdatePage \/ StatusPage \/ ConfigPage
  BY <1>1, PagesOutside DEF notEvents
<1>2. CASE Polling
  BY <1>2, PollingOutside DEF notFaults
<1>3. CASE Router \/ Plugin
  BY <1>3 DEF Router, Plugin, Lose, notFaults
<1>4. CASE UNCHANGED luckyVars
  BY <1>4 DEF luckyVars, routerVars
<1> QED
  BY <1>1, <1>2, <1>3, <1>4 DEF Next

-----------------------------------------------------------------------------
(* The installed program.                                                  *)

\* A process that does not move, or moves outside an installation.
Aside(p) ==
    \/ task'[p] = task[p]
    \/ task'[p].pc \notin installing /\ task[p].pc \notin {"start", "record"}

\* A step that only moves processes outside the installation.
LEMMA InstallStill ==
    ASSUME RouterTypeOK, InstallInv, UNCHANGED <<clash, binary>>, extract' \in {extract, 0},
           installed' = installed \/ binary \notin Versions,
           \A p \in Proc : Aside(p)
    PROVE  InstallInv'
<1> SUFFICES ASSUME ~clash PROVE InstallInv'
  BY DEF InstallInv
<1>1. \A p, r \in Proc : task'[p].pc \in installing /\ task'[r].pc \in installing => p = r
  BY DEF InstallInv, Aside
<1>2. ASSUME NEW p \in Proc
      PROVE  /\ task'[p].pc \in {"stop", "copy"} => extract' \in {0, task'[p].want}
             /\ task'[p].pc \in {"start", "record"} => binary' = task'[p].want
  <2>1. CASE task'[p] = task[p]
    BY <2>1 DEF InstallInv
  <2>2. CASE task'[p].pc \notin installing
    BY <2>2 DEF installing
  <2> QED
    BY <2>1, <2>2 DEF Aside
<1>3. binary' \in Versions /\ (\A p \in Proc : task'[p].pc \notin {"start", "record"})
         => installed' = binary'
  BY DEF InstallInv, Aside
<1> QED
  BY <1>1, <1>2, <1>3 DEF InstallInv

\* A new process is outside.
LEMMA InstallSpawn ==
    ASSUME RouterTypeOK, NEW kind \in {"check", "download", "auto"}, NEW want \in 0..Latest,
           Spawn(kind, want), NEW p \in Proc
    PROVE  \/ task'[p] = task[p]
           \/ task[p] = Idle /\ task'[p].pc \in {"begin", "lookup"}
<1>1. PICK r \in Free :
         task' = [task EXCEPT ![r] =
            [kind |-> kind, pc |-> IF kind = "download" THEN "lookup" ELSE "begin",
             want |-> want, cur |-> 0]]
  BY SpawnJob
<1> QED
  BY <1>1 DEF Free, RouterTypeOK

\* The script: one process at a time has the directory and the program to itself.
LEMMA InstallScript ==
    ASSUME RouterTypeOK, WantOK, InstallInv, NEW p \in Proc, ScriptStep(p)
    PROVE  InstallInv'
<1>1. task[p] \in Job /\ task' \in [Proc -> {Idle} \cup Job]
      /\ \A r \in Proc \ {p} : task'[r] = task[r]
  BY ScriptTask
<1>a. task \in [Proc -> {Idle} \cup Job]
  BY DEF RouterTypeOK, Job
<1>b. ASSUME NEW pc, Goto(p, pc)
      PROVE  task'[p].pc = pc /\ task'[p].want = task[p].want
  BY <1>1, <1>a, <1>b DEF Goto, Job
<1>c. Exit(p) => task'[p].pc = "idle"
  BY <1>a DEF Exit, Idle
<1>i. "fetch" \notin {"start", "record"}
  OBVIOUS
<1>d. Torn \notin Versions
  BY RouterAssumption DEF Torn, Versions
<1>2. CASE Begin(p) \/ Query(p) \/ Decide(p) \/ Lookup(p) \/ Luci(p)
  <2>1. UNCHANGED <<clash, binary, extract, installed>>
    BY <1>2 DEF Begin, Query, Decide, Lookup, Luci, calm
  <2>2. task'[p].pc \notin installing
    <3>1. CASE Begin(p)
      BY <1>1, <1>a, <3>1 DEF Begin, installing
    <3>2. CASE Query(p) \/ Lookup(p) \/ Luci(p)
      BY <1>b, <1>c, <3>2 DEF Query, Lookup, Luci, Die, installing
    <3>3. CASE Decide(p)
      <4>1. task' = [task EXCEPT ![p].want = Latest, ![p].pc = "fetch"] => task'[p].pc = "fetch"
        BY <1>1, <1>a DEF Job
      <4> QED
        BY <1>b, <1>c, <3>3, <4>1 DEF Decide, Die, installing
    <3> QED
      BY <1>2, <3>1, <3>2, <3>3
  <2>3. task[p].pc \notin {"start", "record"}
    BY <1>2 DEF Begin, Query, Decide, Lookup, Luci, At
  <2>4. \A r \in Proc : Aside(r)
    BY <1>1, <2>2, <2>3 DEF Aside
  <2> QED
    BY <2>1, <2>4, InstallStill
<1> SUFFICES ASSUME ~clash' PROVE InstallInv'
  BY DEF InstallInv
<1>3. CASE Fetch(p)
  <2>1. CASE Die(p) /\ UNCHANGED <<extract, clash>>
    <3>1. task'[p].pc \notin installing /\ task[p].pc = "fetch"
          /\ UNCHANGED <<clash, binary, extract, installed>>
      BY <1>3, <1>c, <2>1 DEF Fetch, Die, At, installing
    <3>2. \A r \in Proc : Aside(r)
      BY <1>1, <1>i, <3>1 DEF Aside
    <3> QED
      BY <3>1, <3>2, InstallStill
  <2>2. CASE Goto(p, "unpack") /\ clash' = (clash \/ \E r \in Proc \ {p} : task[r].pc \in installing)
    <3>1. ~clash /\ \A r \in Proc \ {p} : task'[r].pc \notin installing
      BY <1>1, <2>2
    <3>2. task'[p].pc = "unpack" /\ task[p].pc = "fetch" /\ UNCHANGED <<binary, installed>>
      BY <1>3, <1>b, <2>2 DEF Fetch, At
    <3>3. \A r \in Proc : task[r].pc \notin {"start", "record"}
      BY <1>1, <3>1, <3>2 DEF installing
    <3> QED
      BY <3>1, <3>2, <3>3 DEF InstallInv, installing
  <2> QED
    BY <1>3, <2>1, <2>2 DEF Fetch
<1>4. ASSUME Unpack(p) \/ StopForInstall(p) \/ Copy(p) \/ StartAfterInstall(p) \/ Record(p)
      PROVE  InstallInv'
  <2>1. task[p].pc \in installing /\ ~clash
    BY <1>4 DEF Unpack, StopForInstall, Copy, StartAfterInstall, Record, At, installing, calm
  <2>2. \A r \in Proc \ {p} : task[r].pc \notin installing /\ task'[r].pc \notin installing
    BY <1>1, <2>1 DEF InstallInv
  <2>3. SUFFICES /\ task'[p].pc \in {"stop", "copy"} => extract' \in {0, task'[p].want}
                 /\ task'[p].pc \in {"start", "record"} => binary' = task'[p].want
                 /\ binary' \in Versions /\ task'[p].pc \notin {"start", "record"}
                       => installed' = binary'
    <3>1. \A r, t \in Proc : task'[r].pc \in installing /\ task'[t].pc \in installing => r = t
      BY <2>2
    <3>2. \A r \in Proc \ {p} : task'[r].pc \notin {"stop", "copy", "start", "record"}
      BY <2>2 DEF installing
    <3> QED
      BY <2>3, <3>1, <3>2 DEF InstallInv
  <2>4. /\ task[p].pc \in {"stop", "copy"} => extract \in {0, task[p].want}
        /\ task[p].pc \in {"start", "record"} => binary = task[p].want
        /\ binary \in Versions /\ task[p].pc \notin {"start", "record"} => installed = binary
    BY <2>1, <2>2 DEF InstallInv, installing
  <2>5. CASE Unpack(p)
    BY <1>b, <1>c, <2>4, <2>5 DEF Unpack, Die, At
  <2>6. CASE StopForInstall(p)
    BY <1>b, <1>c, <2>4, <2>6 DEF StopForInstall, Die, At
  <2>7. CASE Copy(p)
    BY <1>b, <1>c, <1>d, <2>4, <2>7 DEF Copy, Die, At
  <2>8. CASE StartAfterInstall(p)
    BY <1>b, <2>4, <2>8 DEF StartAfterInstall, At
  <2>9. CASE Record(p)
    BY <1>b, <1>c, <2>4, <2>9 DEF Record, At
  <2> QED
    BY <1>4, <2>5, <2>6, <2>7, <2>8, <2>9
<1> QED
  BY <1>2, <1>3, <1>4 DEF ScriptStep

LEMMA InstallInit ==
    Init => InstallInv
BY DEF Init, RouterInit, InstallInv, Idle, installing

\* Whatever else happens leaves a started installation alone, or takes its files.
LEMMA InstallNext ==
    ASSUME LuckyTypeInv, InstallInv, [Next]_luckyVars
    PROVE  InstallInv'
<1>0. RouterTypeOK /\ WantOK /\ CallsOK
  BY TypeParts DEF WayOK, BothOK
<1>a. ASSUME UNCHANGED <<clash, binary, installed, task>>, extract' \in {extract, 0}
      PROVE  InstallInv'
  <2>1. \A p \in Proc : Aside(p)
    BY <1>a DEF Aside
  <2> QED
    BY <1>0, <1>a, <2>1, InstallStill
<1>1. CASE UNCHANGED scriptVars
  BY <1>1, <1>a DEF scriptVars, uciVars, dirVars, histVars
<1>2. ASSUME NEW p \in Proc, ScriptStep(p)
      PROVE  InstallInv'
  BY <1>0, <1>2, InstallScript
<1>i. Idle.pc \notin {"start", "record"} /\ {"begin", "lookup"} \cap installing = {}
  BY DEF Idle, installing
<1>3. ASSUME NEW kind \in {"check", "download", "auto"}, NEW want \in 0..Latest, Spawn(kind, want),
             UNCHANGED <<clash, binary, extract>>, installed' = installed \/ binary \notin Versions
      PROVE  InstallInv'
  <2>1. \A p \in Proc : Aside(p)
    BY <1>0, <1>3, <1>i, InstallSpawn DEF Aside
  <2> QED
    BY <1>0, <1>3, <2>1, InstallStill
<1>4. CASE Cron
  BY <1>3, <1>4, RouterAssumption DEF Cron, Spawn, uciVars, dirVars
<1>5. ASSUME NEW j \in jobs, RunJob(j)
      PROVE  InstallInv'
  <2>0. j \in {"start", "stop", "restart"} /\ 0 \in 0..Latest /\ Missing \notin Versions
    BY <1>0, RouterAssumption DEF RouterTypeOK, Missing, Versions
  <2>1. CASE UNCHANGED <<installed, task, histVars>>
    BY <1>5, <1>a, <2>1 DEF RunJob, dirVars, histVars
  <2>2. CASE Spawn("auto", 0) /\ binary = Missing
    BY <1>3, <1>5, <2>0, <2>2 DEF RunJob, Spawn, dirVars
  <2> QED
    BY <1>5, <2>0, <2>1, <2>2 DEF RunJob, StartService, StopService
<1>6. ASSUME NEW c \in calls, Serve(c)
      PROVE  InstallInv'
  <2>0. c.want \in 0..Latest
    BY <1>0 DEF CallsOK, Calls
  <2>1. ASSUME NEW code, NEW kind \in {"check", "download", "auto"}, runTask(c, code, kind),
               UNCHANGED <<uciVars, binary>>
        PROVE  InstallInv'
    BY <1>3, <2>0, <2>1 DEF runTask, Spawn, uciVars
  <2>2. CASE UNCHANGED <<clash, binary, installed, task>> /\ extract' \in {extract, 0}
    BY <1>a, <2>2
  <2>3. CASE c.op \in {"check", "do", "run_update"}
    BY <1>6, <2>1, <2>3 DEF Serve, get_upstream_version, do_update, run_update
  <2>4. CASE c.op \notin {"check", "do", "run_update"}
    <3>1. \/ toggle_service(c) \/ get_settings(c) \/ save_settings(c) \/ list_backups(c)
          \/ restore_backup(c) \/ reset_user(c)
          \/ clean_update(c) /\ UNCHANGED <<uciVars, binary>>
      BY <1>6, <2>4 DEF Serve
    <3> QED
      BY <2>2, <3>1 DEF toggle_service, get_settings, save_settings, list_backups,
         restore_backup, reset_user, clean_update, noTask, uciVars, dirVars, histVars, routerVars,
         scriptVars
  <2> QED
    BY <2>3, <2>4
<1> QED
  BY <1>1, <1>2, <1>4, <1>5, <1>6, Sides DEF RouterNext

\* installed_version names the program on disk, as long as no two installations met.
THEOREM Installed ==
    Spec => []InstalledMatches
<1>1. LuckyTypeInv /\ InstallInv /\ [Next]_luckyVars => InstallInv'
  BY InstallNext
<1>2. InstallInv => InstalledMatches
  BY DEF InstallInv, InstalledMatches
<1> QED
  BY <1>1, <1>2, InstallInit, LuckyTypes, PTL DEF Spec

-----------------------------------------------------------------------------
(* The daemon.                                                             *)

\* A process between "stop" and "start" of the service stays there.
Held(p) == task[p].pc \in {"copy", "start"} => task'[p] = task[p]

\* A step that adds jobs at most, and starts or ends no installation.
LEMMA DaemonStill ==
    ASSUME DownInv, RunsSaved, UNCHANGED <<enabled, svc, binary, late, broke, loaded>>,
           jobs \subseteq jobs', LoadedConf' = LoadedConf \/ "restart" \in jobs',
           \A p \in Proc : Held(p)
    PROVE  DownInv' /\ RunsSaved'
<1>1. DownInv'
  BY DEF DownInv, Held
<1>2. RunsSaved'
  BY DEF RunsSaved
<1> QED
  BY <1>1, <1>2

\* The daemon starts with the saved settings, or runs on with those it has.
LEMMA DaemonStarts ==
    ASSUME RouterTypeOK, NEW st, StartDaemon(st), UNCHANGED <<enabled, binary, conf>>,
           st = "stopped" \/ (st = svc /\ RunsSaved /\ ("restart" \in jobs => "restart" \in jobs'))
    PROVE  DownInv' /\ RunsSaved'
<1>1. svc' = IF enabled /\ binary \in Versions THEN "running" ELSE "stopped"
  BY DEF StartDaemon
<1>2. DownInv'
  BY <1>1 DEF DownInv
<1>3. LoadedConf' = LoadedConf
  BY DEF LoadedConf
<1>4. ASSUME svc' = "running", "restart" \notin jobs'
      PROVE  loaded' = LoadedConf'
  <2>1. CASE st = "stopped"
    BY <1>3, <1>4, <2>1 DEF StartDaemon
  <2>2. CASE st # "stopped"
    <3>1. svc = "running" /\ loaded' = loaded
      BY <1>4, <2>2 DEF StartDaemon, RouterTypeOK
    <3> QED
      BY <1>3, <1>4, <2>2, <3>1 DEF RunsSaved
  <2> QED
    BY <2>1, <2>2
<1> QED
  BY <1>2, <1>4 DEF RunsSaved

\* A stop is remembered if it comes to an enabled daemon.
LEMMA DaemonStops ==
    ASSUME StopService, UNCHANGED <<enabled, binary>>
    PROVE  DownInv' /\ RunsSaved'
BY DEF StopService, DownInv, RunsSaved

\* The script stops the daemon to start it again, or leaves a mark.
LEMMA DaemonScript ==
    ASSUME RouterTypeOK, WantOK, DownInv, RunsSaved, NEW p \in Proc, ScriptStep(p)
    PROVE  DownInv' /\ RunsSaved'
<1>1. task[p] \in Job /\ task' \in [Proc -> {Idle} \cup Job]
      /\ \A r \in Proc \ {p} : task'[r] = task[r]
  BY ScriptTask
<1>a. task \in [Proc -> {Idle} \cup Job]
  BY DEF RouterTypeOK, Job
<1>b. ASSUME NEW pc, Goto(p, pc)
      PROVE  task'[p].pc = pc
  BY <1>1, <1>a, <1>b DEF Goto, Job
<1>c. UNCHANGED <<enabled, conf, jobs>> /\ LoadedConf' = LoadedConf
  BY DEF ScriptStep, Begin, Query, Decide, Lookup, Fetch, Unpack, StopForInstall, Copy,
     StartAfterInstall, Record, Luci, taskRest, LoadedConf
<1>d. Torn \notin Versions
  BY RouterAssumption DEF Torn, Versions
<1>2. ASSUME UNCHANGED <<svc, binary, late, broke, loaded>>, task[p].pc \notin {"copy", "start"}
      PROVE  DownInv' /\ RunsSaved'
  <2>1. \A r \in Proc : Held(r)
    BY <1>1, <1>2 DEF Held
  <2> QED
    BY <1>2, <1>c, <2>1, DaemonStill
<1>3. CASE Begin(p) \/ Query(p) \/ Decide(p) \/ Lookup(p) \/ Fetch(p) \/ Unpack(p) \/ Record(p) \/ Luci(p)
  <2>1. UNCHANGED <<svc, binary, late, broke, loaded>>
    BY <1>3 DEF Begin, Query, Decide, Lookup, Fetch, Unpack, Record, Luci, calm, downVars
  <2>2. task[p].pc \notin {"copy", "start"}
    BY <1>3 DEF Begin, Query, Decide, Lookup, Fetch, Unpack, Record, Luci, At
  <2> QED
    BY <1>2, <2>1, <2>2
<1>4. CASE StopForInstall(p)
  <2>1. CASE extract = 0
    BY <1>2, <1>4, <2>1 DEF StopForInstall, downVars, At
  <2>2. CASE extract # 0
    <3>1. task'[p].pc = "copy" /\ svc' = "stopped"
      BY <1>4, <1>b, <2>2 DEF StopForInstall
    <3> QED
      BY <3>1 DEF DownInv, RunsSaved
  <2> QED
    BY <2>1, <2>2
<1>5. CASE Copy(p)
  <2>1. UNCHANGED <<svc, loaded, late>>
    BY <1>5 DEF Copy
  <2>2. RunsSaved'
    BY <1>c, <2>1 DEF RunsSaved
  <2>3. DownInv'
    <3>1. CASE Goto(p, "start")
      BY <1>b, <3>1 DEF DownInv
    <3>2. CASE binary' = Torn
      BY <1>d, <3>2 DEF DownInv, Versions
    <3>3. CASE broke' = (broke \/ svc = "stopped")
      BY <2>1, <3>3 DEF DownInv
    <3> QED
      BY <1>5, <3>1, <3>2, <3>3 DEF Copy
  <2> QED
    BY <2>2, <2>3
<1>6. CASE StartAfterInstall(p)
  BY <1>6, <1>c, DaemonStarts DEF StartAfterInstall
<1> QED
  BY <1>3, <1>4, <1>5, <1>6 DEF ScriptStep

LEMMA DaemonInit ==
    Init => DownInv /\ RunsSaved
<1> SUFFICES ASSUME Init PROVE DownInv /\ RunsSaved
  OBVIOUS
<1>1. Missing \notin Versions
  BY DEF Missing, Versions
<1> QED
  BY <1>1 DEF Init, RouterInit, DownInv, RunsSaved, LoadedConf

\* Init jobs, the plugin's commands and the script, in any order.
LEMMA DaemonNext ==
    ASSUME LuckyTypeInv, DownInv, RunsSaved, [Next]_luckyVars
    PROVE  DownInv' /\ RunsSaved'
<1>0. RouterTypeOK /\ WantOK /\ CallsOK
  BY TypeParts DEF WayOK, BothOK
<1>a. Idle.pc \notin {"copy", "start"}
  BY DEF Idle
<1>b. ASSUME NEW kind \in {"check", "download", "auto"}, NEW want \in 0..Latest, Spawn(kind, want)
      PROVE  \A p \in Proc : Held(p)
  BY <1>0, <1>a, <1>b, InstallSpawn DEF Held
<1>c. UNCHANGED task => \A p \in Proc : Held(p)
  BY DEF Held
<1>d. UNCHANGED conf => LoadedConf' = LoadedConf
  BY DEF LoadedConf
<1>1. CASE UNCHANGED scriptVars
  BY <1>1, <1>c, <1>d, DaemonStill DEF scriptVars, uciVars, svcVars, downVars
<1>2. ASSUME NEW p \in Proc, ScriptStep(p)
      PROVE  DownInv' /\ RunsSaved'
  BY <1>0, <1>2, DaemonScript
<1>3. CASE Cron
  BY <1>3, <1>b, <1>d, DaemonStill, RouterAssumption DEF Cron, uciVars, svcVars, downVars
<1>4. ASSUME NEW j \in jobs, RunJob(j)
      PROVE  DownInv' /\ RunsSaved'
  <2>0. j \in {"start", "stop", "restart"} /\ jobs' = jobs \ {j} /\ UNCHANGED <<enabled, conf, binary>>
    BY <1>0, <1>4 DEF RouterTypeOK, RunJob
  <2>1. CASE StopService
    BY <2>0, <2>1, DaemonStops
  <2>2. CASE StartDaemon("stopped")
    BY <1>0, <2>0, <2>2, DaemonStarts
  <2>3. CASE StartDaemon(svc) /\ j = "start"
    BY <1>0, <2>0, <2>3, DaemonStarts
  <2> QED
    BY <1>4, <2>0, <2>1, <2>2, <2>3 DEF RunJob, StartService
<1>5. ASSUME NEW c \in calls, Serve(c)
      PROVE  DownInv' /\ RunsSaved'
  <2>0. c.want \in 0..Latest
    BY <1>0 DEF CallsOK, Calls
  <2>1. ASSUME NEW code, NEW kind \in {"check", "download", "auto"}, runTask(c, code, kind),
               UNCHANGED <<uciVars, binary, svcVars, downVars>>
        PROVE  DownInv' /\ RunsSaved'
    BY <1>b, <1>d, <2>0, <2>1, DaemonStill DEF runTask, uciVars, svcVars, downVars
  <2>2. CASE c.op \in {"check", "do", "run_update"}
    BY <1>5, <2>1, <2>2 DEF Serve, get_upstream_version, do_update, run_update
  <2>3. CASE toggle_service(c) /\ c.op \in {"enable", "disable", "restart"}
    <3>1. UNCHANGED <<conf, task, binary, svc, loaded, late, broke>> /\ jobs \subseteq jobs'
      BY <2>3 DEF toggle_service, noTask, downVars
    <3>2. CASE c.op = "enable"
      <4>1. "start" \in jobs'
        BY <2>3, <3>2 DEF toggle_service
      <4> QED
        BY <1>d, <3>1, <4>1 DEF DownInv, RunsSaved
    <3>3. CASE c.op = "disable"
      <4>1. enabled' = FALSE
        BY <2>3, <3>3 DEF toggle_service
      <4> QED
        BY <1>d, <3>1, <4>1 DEF DownInv, RunsSaved
    <3>4. CASE c.op = "restart"
      <4>1. UNCHANGED enabled
        BY <2>3, <3>4 DEF toggle_service
      <4> QED
        BY <1>c, <1>d, <3>1, <4>1, DaemonStill
    <3> QED
      BY <2>3, <3>2, <3>3, <3>4
  <2>4. CASE save_settings(c)
    <3>1. UNCHANGED <<task, enabled, binary, svc, loaded, late, broke>> /\ jobs \subseteq jobs'
      BY <2>4 DEF save_settings, noTask, downVars
    <3>2. "restart" \in jobs' \/ \A k \in RestartKeys : conf'[k] = conf[k]
      BY <2>4 DEF save_settings
    <3>3. "restart" \in jobs' \/ LoadedConf' = LoadedConf
      BY <3>2 DEF LoadedConf
    <3> QED
      BY <1>c, <3>1, <3>3, DaemonStill
  <2>5. CASE \/ get_settings(c) \/ list_backups(c) \/ restore_backup(c) \/ reset_user(c)
             \/ clean_update(c) /\ UNCHANGED <<uciVars, binary, svcVars, downVars>>
    <3>1. UNCHANGED <<task, conf, enabled, binary, svc, loaded, late, broke>> /\ jobs \subseteq jobs'
      BY <2>5 DEF get_settings, list_backups, restore_backup, reset_user, clean_update, noTask,
         uciVars, svcVars, downVars, routerVars, scriptVars
    <3> QED
      BY <1>c, <1>d, <3>1, DaemonStill
  <2>6. CASE c.op \notin {"check", "do", "run_update"}
    BY <1>5, <2>3, <2>4, <2>5, <2>6 DEF Serve
  <2> QED
    BY <2>2, <2>6
<1> QED
  BY <1>1, <1>2, <1>3, <1>4, <1>5, Sides DEF RouterNext

\* However clicks, init jobs and installations interleave, an enabled daemon is down only
\* for a reason, and one that runs has the saved settings or a restart coming.
THEOREM DaemonObeys ==
    Spec => []DaemonAsAsked
<1> DEFINE I == DownInv /\ RunsSaved
<1>1. LuckyTypeInv /\ I /\ [Next]_luckyVars => I'
  BY DaemonNext
<1>2. Init => I
  BY DaemonInit
<1>3. I => DaemonAsAsked
  BY DEF DownInv, DaemonAsAsked, DownForAReason
<1> HIDE DEF I
<1> QED
  BY <1>1, <1>2, <1>3, LuckyTypes, PTL DEF Spec

-----------------------------------------------------------------------------
(* The status page.                                                        *)

\* The plugin, or a loss, turns a call into an answered one of the same kind.
LEMMA CallTurned ==
    ASSUME RouterTypeOK, CallsOK, NEW c \in calls, Serve(c) \/ Lose(c)
    PROVE  \E a \in Answers :
              /\ calls' = (calls \ {c}) \cup {[c EXCEPT !.state = "answered", !.ans = a]}
              /\ UNCHANGED <<issued, hasty>>
<1>1. Blank \in Answers
  BY RouterAssumption DEF Blank, Answers
<1>2. CASE Serve(c)
  BY <1>2, RouterTypeServe DEF Answer
<1>3. CASE Lose(c)
  BY <1>1, <1>3 DEF Lose
<1> QED
  BY <1>2, <1>3

\* The other pages do not consume an answer of the restart button.
LEMMA RestartsKept ==
    ASSUME UpdatePage \/ ConfigPage
    PROVE  Restarts \subseteq Restarts'
<1>1. \/ calls \subseteq calls'
      \/ \E c \in calls : c.op # "restart" /\ calls' = calls \ {c}
  BY DEF UpdatePage, ConfigPage, UpdateNext, ConfigNext, _chk, _do, Clear, Choose, ChkAnswer, DoAnswer,
     ClearAnswer, onDone, _save, ListBackups, ClosePanel, Reset, Edit, Pick, SaveAnswer, ListAnswer,
     RestoreAnswer, ResetAnswer, Click, Consume, Delivered, rpcVars
<1> QED
  BY <1>1 DEF Restarts

LEMMA ButtonInit ==
    Init => ButtonInv
BY DEF Init, StatusInit, ButtonInv

\* The switch, its copy, and the restart button.
LEMMA ButtonNext ==
    ASSUME LuckyTypeInv, ButtonInv, [Next]_luckyVars
    PROVE  ButtonInv'
<1>0. RouterTypeOK /\ CallsOK /\ StatusTypeOK
  BY TypeParts DEF WayOK, BothOK, ShownOK
<1>a. ASSUME UNCHANGED sw, Restarts # {} => Restarts' # {}
      PROVE  ButtonInv'
  BY <1>a DEF ButtonInv
<1>b. sw \in [checked : BOOLEAN, enabledState : BOOLEAN, restartOff : BOOLEAN, spins : Nat]
  BY <1>0 DEF StatusTypeOK
<1>1. CASE UpdatePage \/ ConfigPage
  <2>1. UNCHANGED sw
    BY <1>1 DEF UpdatePage, ConfigPage, statusVars
  <2> QED
    BY <1>1, <1>a, <2>1, RestartsKept
<1>2. CASE Router \/ Polling \/ UNCHANGED luckyVars
  <2>1. UNCHANGED <<calls, sw>>
    BY <1>2, PollingOutside DEF Router, luckyVars, rpcVars, pages, statusVars
  <2> QED
    BY <1>a, <2>1 DEF Restarts
<1>3. ASSUME NEW c \in calls, Serve(c) \/ Lose(c), UNCHANGED pages
      PROVE  ButtonInv'
  <2>1. PICK a \in Answers : calls' = (calls \ {c}) \cup {[c EXCEPT !.state = "answered", !.ans = a]}
    BY <1>0, <1>3, CallTurned
  <2> DEFINE d == [c EXCEPT !.state = "answered", !.ans = a]
  <2>2. d.op = c.op
    BY <1>0 DEF CallsOK, Calls
  <2>3. calls' = (calls \ {c}) \cup {d}
    BY <2>1
  <2> HIDE DEF d
  <2>4. Restarts # {} => Restarts' # {}
    BY <2>2, <2>3 DEF Restarts
  <2> QED
    BY <1>3, <1>a, <2>4 DEF pages, statusVars
<1>4. CASE StatusPage
  <2>1. CASE Toggle
    BY <1>b, <2>1 DEF Toggle, ButtonInv
  <2>2. CASE Restart
    <3>1. CallOf("restart", 0, NoForm) \in calls' /\ sw' = [sw EXCEPT !.restartOff = TRUE]
      BY <2>2 DEF Restart, Click
    <3>2. CallOf("restart", 0, NoForm).op = "restart"
      BY DEF CallOf
    <3>3. Restarts' # {}
      BY <3>1, <3>2 DEF Restarts
    <3> QED
      BY <1>b, <3>1, <3>3 DEF ButtonInv
  <2>3. CASE Download
    BY <1>a, <2>3 DEF Download, Click, Restarts
  <2>4. CASE GiveBack
    BY <1>b, <2>4 DEF GiveBack, ButtonInv
  <2>5. ASSUME NEW c \in calls, ToggleAnswer(c) \/ DownloadAnswer(c)
        PROVE  ButtonInv'
    <3>1. c.op # "restart" /\ calls \ {c} \subseteq calls' /\ UNCHANGED sw
      BY <2>5 DEF ToggleAnswer, DownloadAnswer, Delivered, Consume, FollowUp
    <3> QED
      BY <1>a, <3>1 DEF Restarts
  <2>6. ASSUME NEW c \in calls, SyncAnswer(c)
        PROVE  ButtonInv'
    BY <1>b, <2>6 DEF SyncAnswer, ButtonInv
  <2>7. ASSUME NEW c \in calls, RestartAnswer(c)
        PROVE  ButtonInv'
    BY <1>b, <2>7 DEF RestartAnswer, ButtonInv
  <2>8. ASSUME NEW q \in polls, DownloadDone(q)
        PROVE  ButtonInv'
    BY <1>a, <2>8 DEF DownloadDone, rpcVars, Restarts
  <2> QED
    BY <1>4, <2>1, <2>2, <2>3, <2>4, <2>5, <2>6, <2>7, <2>8 DEF StatusPage, StatusNext
<1> QED
  BY <1>1, <1>2, <1>3, <1>4 DEF Next, Plugin

\* A step that makes and consumes no call, and leaves switch and uci alone.
LEMMA SwitchStill ==
    ASSUME SwitchInv, RouterTypeOK, UNCHANGED <<page, calls, hasty, enabled>>, sw'.checked = sw.checked,
           faults' = faults \/ faults' = faults + 1
    PROVE  SwitchInv'
<1>1. faults \in Nat /\ faults <= faults' /\ faults' \in Nat
  BY RouterAssumption DEF RouterTypeOK
<1>2. ASSUME NEW c \in calls, Told(c)
      PROVE  Told(c)'
  BY <1>1, <1>2 DEF Told
<1> QED
  BY <1>1, <1>2 DEF SwitchInv, OneCall, Agreed

\* Nobody but the plugin changes uci's word about the daemon.
LEMMA EnabledKept ==
    ASSUME RouterTypeOK, RouterNext
    PROVE  UNCHANGED enabled /\ (faults' = faults \/ faults' = faults + 1)
<1>1. CASE Cron
  BY <1>1 DEF Cron, Spawn, uciVars
<1>2. ASSUME NEW j \in jobs, RunJob(j)
      PROVE  UNCHANGED enabled /\ faults' = faults
  <2>1. j \in {"start", "stop", "restart"}
    BY DEF RouterTypeOK
  <2> QED
    BY <1>2, <2>1 DEF RunJob, StartService, StopService, Spawn
<1>3. ASSUME NEW p \in Proc, ScriptStep(p)
      PROVE  UNCHANGED enabled /\ (faults' = faults \/ faults' = faults + 1)
  BY <1>3 DEF ScriptStep, Begin, Query, Decide, Lookup, Fetch, Unpack, StopForInstall, Copy,
     StartAfterInstall, Record, Luci, taskRest, Fault
<1> QED
  BY <1>1, <1>2, <1>3 DEF RouterNext

LEMMA SwitchInit ==
    Init => SwitchInv
BY DEF Init, RpcInit, StatusInit, SwitchInv, OneCall, Agreed

\* What the plugin does to the call of a user who waits.
LEMMA SwitchPlugin ==
    ASSUME RouterTypeOK, CallsOK, SwitchInv, NEW c \in calls, Serve(c) \/ Lose(c),
           UNCHANGED <<page, sw>>, page = "status", ~hasty, faults' <= 1
    PROVE  SwitchInv'
<1>a. faults \in Nat /\ c \in Calls
  BY RouterAssumption DEF RouterTypeOK, CallsOK
<1>b. PICK a \in Answers :
         /\ calls' = (calls \ {c}) \cup {[c EXCEPT !.state = "answered", !.ans = a]}
         /\ UNCHANGED <<issued, hasty>>
  BY CallTurned
<1> DEFINE d == [c EXCEPT !.state = "answered", !.ans = a]
<1>c. d.op = c.op /\ d.state = "answered" /\ d.ans = a
  BY <1>a DEF Calls
<1>d. calls' = (calls \ {c}) \cup {d}
  BY <1>b
<1>e. ASSUME NEW b \in Answers, calls' = (calls \ {c}) \cup {[c EXCEPT !.state = "answered", !.ans = b]},
             faults <= 1
      PROVE  d.ans = b
  <2>1. OneCall
    BY <1>e DEF SwitchInv
  <2>2. calls = {c}
    BY <2>1 DEF OneCall
  <2>3. [c EXCEPT !.state = "answered", !.ans = b] = d
    BY <1>d, <1>e, <2>2
  <2>4. [c EXCEPT !.state = "answered", !.ans = b].ans = b
    BY <1>a DEF Calls
  <2> QED
    BY <2>3, <2>4
<1> HIDE DEF d
<1>f. ASSUME faults <= 1, Agreed', Told(d)'
      PROVE  SwitchInv'
  <2>1. OneCall
    BY <1>f DEF SwitchInv
  <2>2. calls' = {d}
    BY <1>d, <2>1 DEF OneCall
  <2>3. OneCall' /\ \A e \in calls' : Told(e)'
    BY <1>f, <2>2 DEF OneCall
  <2> QED
    BY <1>f, <2>3 DEF SwitchInv
<1>g. d \in calls'
  BY <1>d
<1>1. CASE Serve(c)
  <2>1. faults' = faults
    BY <1>1 DEF Serve, toggle_service, get_settings, save_settings, get_upstream_version,
       do_update, run_update, runTask, Spawn, clean_update, list_backups, restore_backup, reset_user,
       noTask, routerVars
  <2>2. faults <= 1 /\ Agreed /\ Told(c)
    BY <2>1 DEF SwitchInv
  <2>3. CASE c.op \in Toggles
    <3>1. toggle_service(c)
      BY <1>1, <2>3 DEF Serve, Toggles
    <3>2. enabled' = (c.op = "enable") /\ Say(c, TRUE)
      BY <2>3, <3>1 DEF toggle_service, Toggles
    <3>3. [Blank EXCEPT !.ok = TRUE] \in Answers
      BY RouterAssumption DEF Blank, Answers
    <3>4. d.ans = [Blank EXCEPT !.ok = TRUE]
      BY <1>e, <2>2, <3>2, <3>3 DEF Say, Answer
    <3>5. d.ans.ok = TRUE
      BY <3>4 DEF Blank
    <3>6. Told(d)'
      BY <1>c, <2>2, <2>3, <3>2, <3>5 DEF Told, Toggles
    <3>7. Agreed'
      BY <1>c, <1>g, <2>3 DEF Agreed
    <3> QED
      BY <1>f, <2>2, <3>6, <3>7
  <2>4. CASE c.op \notin Toggles
    <3>1. enabled' = enabled
      BY <1>1, <2>4 DEF Toggles, Serve, toggle_service, get_settings, save_settings,
         list_backups, restore_backup, reset_user, routerVars, scriptVars, uciVars
    <3>2. c.op = "settings" => d.ans.on = enabled
      <4>1. SUFFICES ASSUME c.op = "settings" PROVE d.ans.on = enabled
        OBVIOUS
      <4>2. Answer(c, [Blank EXCEPT !.ok = TRUE, !.on = enabled])
        BY <1>1, <4>1 DEF Serve, get_settings
      <4>3. [Blank EXCEPT !.ok = TRUE, !.on = enabled] \in Answers
        BY RouterAssumption DEF Blank, Answers, RouterTypeOK
      <4>4. d.ans = [Blank EXCEPT !.ok = TRUE, !.on = enabled]
        BY <1>e, <2>2, <4>2, <4>3 DEF Answer
      <4> QED
        BY <4>4 DEF Blank
    <3>3. Told(d)'
      BY <1>c, <2>1, <2>2, <2>4, <3>1, <3>2 DEF Told
    <3>4. Agreed'
      <4>1. OneCall
        BY <2>2 DEF SwitchInv
      <4>2. calls = {c}
        BY <4>1 DEF OneCall
      <4> QED
        BY <1>c, <1>g, <2>2, <3>1, <4>2 DEF Agreed
    <3> QED
      BY <1>f, <2>2, <3>3, <3>4
  <2> QED
    BY <2>3, <2>4
<1>2. CASE Lose(c)
  <2>1. faults' = faults + 1 /\ faults = 0 /\ enabled' = enabled
    BY <1>2, <1>a DEF Lose, Fault, notFaults, scriptVars, uciVars
  <2>2. OneCall /\ Agreed /\ Told(c)
    BY <2>1 DEF SwitchInv
  <2>3. calls = {c}
    BY <2>2 DEF OneCall
  <2>4. Blank \in Answers /\ Blank.ok = FALSE
    BY RouterAssumption DEF Blank, Answers
  <2>5. d.ans = Blank
    <3>1. calls' = (calls \ {c}) \cup {[c EXCEPT !.state = "answered", !.ans = Blank]}
      BY <1>2 DEF Lose
    <3>2. faults <= 1
      BY <2>1
    <3> QED
      BY <1>e, <2>4, <3>1, <3>2
  <2>6. Told(d)'
    BY <1>c, <2>1, <2>2, <2>4, <2>5 DEF Told
  <2>7. Agreed'
    BY <1>c, <1>g, <2>1, <2>2, <2>3 DEF Agreed
  <2> QED
    BY <1>f, <2>1, <2>6, <2>7
<1> QED
  BY <1>1, <1>2

\* What the status page does, click by click and answer by answer.
LEMMA SwitchPage ==
    ASSUME RouterTypeOK, CallsOK, StatusTypeOK, SwitchInv, StatusPage
    PROVE  SwitchInv'
<1>0. page = "status" /\ page' = "status" /\ UNCHANGED <<enabled, faults>>
  BY PagesOutside DEF StatusPage, notEvents, scriptVars, uciVars
<1>a. sw \in [checked : BOOLEAN, enabledState : BOOLEAN, restartOff : BOOLEAN, spins : Nat]
  BY DEF StatusTypeOK
<1> SUFFICES ASSUME ~hasty', faults <= 1
             PROVE  OneCall' /\ Agreed' /\ \A c \in calls' : Told(c)'
  BY <1>0 DEF SwitchInv
<1>b. ASSUME ~hasty
      PROVE  OneCall /\ Agreed /\ \A c \in calls : Told(c)
  BY <1>0, <1>b DEF SwitchInv
<1>c. ASSUME NEW op, Click(op, 0, NoForm)
      PROVE  ~hasty /\ calls = {} /\ calls' = {CallOf(op, 0, NoForm)}
  BY <1>c DEF Click
<1>d. \A op : /\ CallOf(op, 0, NoForm).op = op /\ CallOf(op, 0, NoForm).state = "sent"
  BY DEF CallOf
<1>1. CASE Toggle
  <2> DEFINE on == ~sw.checked
  <2>1. on \in BOOLEAN /\ sw'.checked = on /\ Click(IF on THEN "enable" ELSE "disable", 0, NoForm)
    BY <1>1, <1>a DEF Toggle
  <2> HIDE DEF on
  <2>2. PICK op \in Toggles : Click(op, 0, NoForm) /\ sw'.checked = (op = "enable")
    BY <2>1 DEF Toggles
  <2>3. PICK d : calls' = {d} /\ d.op = op /\ d.state = "sent"
    BY <1>c, <1>d, <2>2
  <2>4. Told(d)'
    BY <2>2, <2>3 DEF Told, Toggles
  <2> QED
    BY <2>2, <2>3, <2>4 DEF OneCall, Agreed
<1>2. CASE Restart \/ Download
  <2>1. PICK op \in {"restart", "run_update"} : Click(op, 0, NoForm)
    BY <1>2 DEF Restart, Download
  <2>2. sw'.checked = sw.checked
    BY <1>2, <1>a DEF Restart, Download
  <2>3. PICK d : calls' = {d} /\ d.op = op /\ ~hasty /\ calls = {}
    BY <1>c, <1>d, <2>1
  <2>4. op \notin Toggles \cup {"settings"}
    BY DEF Toggles
  <2>5. Told(d)'
    BY <2>3, <2>4 DEF Told
  <2>6. sw.checked = enabled
    BY <1>b, <2>3 DEF Agreed
  <2> QED
    BY <1>0, <2>2, <2>3, <2>5, <2>6 DEF OneCall, Agreed
<1>e. ASSUME NEW c \in calls, UNCHANGED hasty
      PROVE  calls = {c} /\ Agreed /\ Told(c)
  BY <1>b, <1>e DEF OneCall
<1>f. ASSUME calls' = {}, sw'.checked = enabled'
      PROVE  OneCall' /\ Agreed' /\ \A c \in calls' : Told(c)'
  BY <1>f DEF OneCall, Agreed
<1>3. ASSUME NEW c \in calls, ToggleAnswer(c)
      PROVE  OneCall' /\ Agreed' /\ \A e \in calls' : Told(e)'
  <2>1. UNCHANGED <<hasty, sw>> /\ c.op \in Toggles /\ c.state = "answered"
    BY <1>3 DEF ToggleAnswer, Consume, FollowUp, Delivered, Toggles
  <2>2. calls = {c} /\ Told(c)
    BY <1>e, <2>1
  <2>3. CASE c.ans.ok
    <3>1. calls' = {}
      BY <1>3, <2>2, <2>3 DEF ToggleAnswer, Consume
    <3>2. sw.checked = enabled
      BY <2>1, <2>2, <2>3 DEF Told
    <3> QED
      BY <1>0, <1>f, <2>1, <3>1, <3>2
  <2>4. CASE ~c.ans.ok
    <3>a. calls' = {CallOf("settings", 0, c.form)}
      BY <1>3, <2>2, <2>4 DEF ToggleAnswer, FollowUp
    <3>b. CallOf("settings", 0, c.form).op = "settings" /\ CallOf("settings", 0, c.form).state = "sent"
      BY DEF CallOf
    <3>1. PICK d : calls' = {d} /\ d.op = "settings" /\ d.state = "sent"
      BY <3>a, <3>b
    <3>2. faults >= 1
      BY <2>1, <2>2, <2>4 DEF Told
    <3>3. Told(d)'
      BY <1>0, <3>1, <3>2 DEF Told, Toggles
    <3> QED
      BY <3>1, <3>3 DEF OneCall, Agreed
  <2> QED
    BY <2>3, <2>4
<1>4. ASSUME NEW c \in calls, SyncAnswer(c)
      PROVE  OneCall' /\ Agreed' /\ \A e \in calls' : Told(e)'
  <2>1. calls' = calls \ {c} /\ UNCHANGED hasty /\ c.op = "settings" /\ c.state = "answered"
    BY <1>4 DEF SyncAnswer, Consume, Delivered
  <2>2. sw'.checked = c.ans.on
    BY <1>4, <1>a DEF SyncAnswer
  <2>3. c.ans.on = enabled /\ calls' = {}
    BY <1>e, <2>1 DEF Told
  <2> QED
    BY <1>0, <1>f, <2>2, <2>3
<1>5. ASSUME NEW c \in calls, RestartAnswer(c) \/ DownloadAnswer(c)
      PROVE  OneCall' /\ Agreed' /\ \A e \in calls' : Told(e)'
  <2>1. calls' = calls \ {c} /\ UNCHANGED hasty /\ c.op \notin Toggles \cup {"settings"}
    BY <1>5 DEF RestartAnswer, DownloadAnswer, Consume, Delivered, Toggles
  <2>2. sw'.checked = sw.checked
    BY <1>5, <1>a DEF RestartAnswer, DownloadAnswer
  <2>3. calls = {c} /\ Agreed
    BY <1>e, <2>1
  <2>4. sw.checked = enabled
    BY <2>1, <2>3 DEF Agreed
  <2> QED
    BY <1>0, <1>f, <2>1, <2>2, <2>3, <2>4
<1>6. CASE GiveBack \/ \E q \in polls : DownloadDone(q)
  <2>1. UNCHANGED <<calls, hasty>> /\ sw'.checked = sw.checked
    BY <1>6, <1>a DEF GiveBack, DownloadDone, rpcVars
  <2>2. SwitchInv'
    BY <1>0, <2>1, SwitchStill
  <2> QED
    BY <1>0, <2>2 DEF SwitchInv
<1> QED
  BY <1>1, <1>2, <1>3, <1>4, <1>5, <1>6 DEF StatusPage, StatusNext

LEMMA SwitchNext ==
    ASSUME LuckyTypeInv, SwitchInv, [Next]_luckyVars
    PROVE  SwitchInv'
<1>0. RouterTypeOK /\ CallsOK /\ StatusTypeOK
  BY TypeParts DEF WayOK, BothOK, ShownOK
<1>1. CASE UpdatePage \/ ConfigPage
  <2>1. page' # "status"
    BY <1>1 DEF UpdatePage, ConfigPage
  <2> QED
    BY <2>1 DEF SwitchInv
<1>2. CASE StatusPage
  BY <1>0, <1>2, SwitchPage
<1>3. CASE Router
  BY <1>0, <1>3, EnabledKept, SwitchStill DEF Router, rpcVars, pages, statusVars
<1>4. CASE Polling
  BY <1>0, <1>4, PollingOutside, SwitchStill DEF notFaults, scriptVars, uciVars, rpcVars, pages,
     statusVars, Fault
<1>5. CASE UNCHANGED luckyVars
  BY <1>0, <1>5, SwitchStill DEF luckyVars, routerVars, scriptVars, uciVars, rpcVars, statusVars
<1>6. CASE Plugin
  <2>1. PICK c \in calls : Serve(c) \/ Lose(c)
    BY <1>6 DEF Plugin
  <2>2. UNCHANGED <<page, sw, hasty>>
    BY <1>0, <1>6, <2>1, CallTurned DEF Plugin, pages, statusVars
  <2>3. CASE page = "status" /\ ~hasty /\ faults' <= 1
    BY <1>0, <2>1, <2>2, <2>3, SwitchPlugin
  <2> QED
    BY <2>2, <2>3 DEF SwitchInv
<1> QED
  BY <1>1, <1>2, <1>3, <1>4, <1>5, <1>6 DEF Next

\* The controls of the status page agree with each other, and with uci for a user who
\* waits for answers, one of which may be lost.
THEOREM SwitchTruthful ==
    Spec => []SwitchTells
<1> DEFINE I == ButtonInv /\ SwitchInv
<1>1. LuckyTypeInv /\ I /\ [Next]_luckyVars => I'
  BY ButtonNext, SwitchNext
<1>2. Init => I
  BY ButtonInit, SwitchInit
<1>3. I => SwitchTells
  <2>1. ButtonInv => ControlsAgree
    BY DEF ButtonInv, ControlsAgree, Restarts
  <2>2. SwitchInv => SwitchTrue
    BY DEF SwitchInv, SwitchTrue, Agreed
  <2> QED
    BY <2>1, <2>2 DEF SwitchTells
<1> HIDE DEF I
<1> QED
  BY <1>1, <1>2, <1>3, LuckyTypes, PTL DEF Spec

-----------------------------------------------------------------------------
(* The pollers.                                                            *)

\* Of a page's step the pollers see a start, a last word, or nothing; its new calls
\* have no answer yet.
LEMMA PageKinds ==
    ASSUME UpdatePage \/ StatusPage \/ ConfigPage
    PROVE  /\ \/ UNCHANGED pollVars
              \/ \E w \in {"chk", "do", "miss"}, c \in calls : start(w, c.ans.run)
              \/ \E q \in polls : Last(q)
           /\ \A e \in calls' : e \in calls \/ e.ans = Blank
<1>1. \/ UNCHANGED pollVars
      \/ \E w \in {"chk", "do", "miss"}, c \in calls : start(w, c.ans.run)
      \/ \E q \in polls : Last(q)
  <2>1. CASE UpdatePage
    BY <2>1 DEF UpdatePage, UpdateNext, _chk, _do, Clear, Choose, ChkAnswer, DoAnswer, ClearAnswer, onDone
  <2>2. CASE StatusPage
    BY <2>2 DEF StatusPage, StatusNext, Toggle, Restart, Download, GiveBack, ToggleAnswer, SyncAnswer,
       RestartAnswer, DownloadAnswer, DownloadDone
  <2>3. CASE ConfigPage
    BY <2>3 DEF ConfigPage
  <2> QED
    BY <2>1, <2>2, <2>3
<1>2. \/ calls' \subseteq calls
      \/ \E op, want, f : calls' \subseteq calls \cup {CallOf(op, want, f)}
  <2>1. ASSUME NEW op, NEW want, NEW f, Click(op, want, f)
        PROVE  \E o, n, g : calls' \subseteq calls \cup {CallOf(o, n, g)}
    BY <2>1 DEF Click
  <2>2. ASSUME NEW c, NEW op, FollowUp(c, op)
        PROVE  \E o, n, g : calls' \subseteq calls \cup {CallOf(o, n, g)}
    BY <2>2 DEF FollowUp
  <2>3. ASSUME NEW c, Consume(c)
        PROVE  calls' \subseteq calls
    BY <2>3 DEF Consume
  <2>4. UNCHANGED rpcVars => calls' \subseteq calls
    BY DEF rpcVars
  <2>5. CASE UpdatePage
    BY <2>1, <2>3, <2>4, <2>5 DEF UpdatePage, UpdateNext, _chk, _do, Clear, Choose, ChkAnswer,
       DoAnswer, ClearAnswer, onDone
  <2>6. CASE StatusPage
    BY <2>1, <2>2, <2>3, <2>4, <2>6 DEF StatusPage, StatusNext, Toggle, Restart, Download, GiveBack,
       ToggleAnswer, SyncAnswer, RestartAnswer, DownloadAnswer, DownloadDone
  <2>7. CASE ConfigPage
    BY <2>1, <2>3, <2>4, <2>7 DEF ConfigPage, ConfigNext, _save, ListBackups, ClosePanel, Reset,
       Edit, Pick, SaveAnswer, ListAnswer, RestoreAnswer, ResetAnswer
  <2> QED
    BY <2>5, <2>6, <2>7
<1>3. \A op, want, f : CallOf(op, want, f).ans = Blank
  BY DEF CallOf
<1> QED
  BY <1>1, <1>2, <1>3

\* The parts of FreshInv.
RunsFresh == \A w \in Poller : poller[w].run <= status.at
CallsFresh == \A c \in calls : c.ans.run <= status.at
PollsFresh ==
    \A q \in polls :
        /\ q.gen <= poller[q.who].generation
        /\ q.gen = poller[q.who].generation /\ q.state = "answered" => q.said.at >= poller[q.who].run

LEMMA FreshParts ==
    FreshInv <=> status.at <= launches /\ RunsFresh /\ CallsFresh /\ PollsFresh
BY DEF FreshInv, RunsFresh, CallsFresh, PollsFresh

\* The status never gets older, and a task that is begun makes it new.
LEMMA StatusScript ==
    ASSUME RouterTypeOK, RouterNext
    PROVE  \/ UNCHANGED status /\ launches' \in {launches, launches + 1}
           \/ status'.at = launches /\ launches' = launches
<1>1. CASE Cron
  BY <1>1 DEF Cron, Spawn, dirVars
<1>2. ASSUME NEW j \in jobs, RunJob(j)
      PROVE  UNCHANGED status /\ launches' \in {launches, launches + 1}
  <2>1. j \in {"start", "stop", "restart"}
    BY DEF RouterTypeOK
  <2> QED
    BY <1>2, <2>1 DEF RunJob, StartService, StopService, Spawn, dirVars
<1>3. ASSUME NEW p \in Proc, ScriptStep(p)
      PROVE  (UNCHANGED status \/ status'.at = launches) /\ launches' = launches
  <2>1. ASSUME NEW code, WriteStatus(code)
        PROVE  status'.at = launches
    BY <2>1 DEF WriteStatus
  <2>2. Die(p) => status'.at = launches
    BY <2>1 DEF Die
  <2> QED
    BY <1>3, <2>1, <2>2 DEF ScriptStep, Begin, Query, Decide, Lookup, Fetch, Unpack, StopForInstall,
       Copy, StartAfterInstall, Record, Luci, taskRest
<1> QED
  BY <1>1, <1>2, <1>3 DEF RouterNext

LEMMA StatusServe ==
    ASSUME RouterTypeOK, CallsOK, NEW c \in calls, Serve(c)
    PROVE  \E a \in Answers :
              /\ Answer(c, a)
              /\ \/ a.run = 0 /\ UNCHANGED launches /\ (UNCHANGED status \/ status'.at = launches)
                 \/ a.run = launches + 1 /\ launches' = launches + 1 /\ status'.at = launches + 1
<1>0. c \in Calls /\ launches \in Nat
  BY DEF CallsOK, RouterTypeOK
<1>a. \A ok \in BOOLEAN : [Blank EXCEPT !.ok = ok] \in Answers /\ [Blank EXCEPT !.ok = ok].run = 0
  BY RouterAssumption DEF Blank, Answers
<1>b. ASSUME NEW ok \in BOOLEAN, Say(c, ok), UNCHANGED launches, UNCHANGED status \/ status'.at = launches
      PROVE  \E a \in Answers :
                /\ Answer(c, a)
                /\ a.run = 0 /\ UNCHANGED launches /\ (UNCHANGED status \/ status'.at = launches)
  BY <1>a, <1>b DEF Say
<1>1. CASE toggle_service(c) /\ c.op \in {"enable", "disable", "restart"}
  <2>1. UNCHANGED <<launches, status>>
    BY <1>1 DEF toggle_service, noTask, dirVars
  <2>2. \E ok \in BOOLEAN : Say(c, ok)
    BY <1>1 DEF toggle_service, RouterTypeOK
  <2> QED
    BY <1>b, <2>1, <2>2
<1>2. CASE get_settings(c) \/ list_backups(c)
  <2>1. UNCHANGED <<launches, status>>
    BY <1>2 DEF get_settings, list_backups, routerVars, scriptVars, dirVars
  <2>2. /\ [Blank EXCEPT !.ok = TRUE, !.on = enabled] \in Answers
        /\ [Blank EXCEPT !.ok = TRUE, !.names = backups] \in Answers
        /\ [Blank EXCEPT !.ok = TRUE, !.on = enabled].run = 0
        /\ [Blank EXCEPT !.ok = TRUE, !.names = backups].run = 0
    BY DEF Blank, Answers, RouterTypeOK
  <2> QED
    BY <1>2, <2>1, <2>2 DEF get_settings, list_backups
<1>3. CASE save_settings(c)
  BY <1>3, <1>b DEF save_settings, noTask, dirVars
<1>4. ASSUME NEW code, NEW kind, runTask(c, code, kind)
      PROVE  \E a \in Answers :
                /\ Answer(c, a)
                /\ a.run = launches + 1 /\ launches' = launches + 1 /\ status'.at = launches + 1
  <2> DEFINE n == launches + 1
  <2>1. n \in Nat
    BY <1>0
  <2>2. Answer(c, [Blank EXCEPT !.ok = TRUE, !.run = n]) /\ launches' = n /\ status'.at = n
    BY <1>4 DEF runTask, Spawn
  <2>3. n = launches + 1
    OBVIOUS
  <2> HIDE DEF n
  <2>4. [Blank EXCEPT !.ok = TRUE, !.run = n] \in Answers /\ [Blank EXCEPT !.ok = TRUE, !.run = n].run = n
    BY <2>1 DEF Blank, Answers
  <2> QED
    BY <2>2, <2>3, <2>4
<1>5. CASE clean_update(c)
  <2>1. Say(c, TRUE) /\ UNCHANGED launches /\ status'.at = launches
    BY <1>5 DEF clean_update
  <2> QED
    BY <1>b, <2>1
<1>6. CASE restore_backup(c) \/ reset_user(c)
  <2>1. UNCHANGED <<launches, status>>
    BY <1>6 DEF restore_backup, reset_user, noTask, dirVars
  <2>2. Say(c, c.want \in backups) \/ Say(c, binary # Missing)
    BY <1>6 DEF restore_backup, reset_user
  <2>3. (c.want \in backups) \in BOOLEAN /\ (binary # Missing) \in BOOLEAN
    OBVIOUS
  <2>4. \E ok \in BOOLEAN : Say(c, ok)
    <3> DEFINE there == c.want \in backups
               some == binary # Missing
    <3>1. there \in BOOLEAN /\ some \in BOOLEAN /\ (Say(c, there) \/ Say(c, some))
      BY <2>2, <2>3
    <3> HIDE DEF there, some
    <3> QED
      BY <3>1
  <2> QED
    BY <1>b, <2>1, <2>4
<1> QED
  BY <1>1, <1>2, <1>3, <1>4, <1>5, <1>6 DEF Serve, get_upstream_version, do_update, run_update

\* The answers a page waits for, and the pollers it has, stay behind the status.
LEMMA FreshInit ==
    Init => FreshInv
BY DEF Init, RouterInit, RpcInit, PollInit, FreshInv

LEMMA FreshNext ==
    ASSUME LuckyTypeInv, FreshInv, [Next]_luckyVars
    PROVE  FreshInv'
<1>0. RouterTypeOK /\ CallsOK /\ PollsOK /\ WayOK
  BY TypeParts DEF WayOK, BothOK
<1>a. /\ launches \in Nat /\ status.at \in Nat
      /\ \A w \in Poller : poller[w].run \in Nat /\ poller[w].generation \in Nat
      /\ \A c \in calls : c.ans.run \in Nat
      /\ \A q \in polls : q.who \in Poller /\ q.gen \in Nat /\ q.said.at \in Nat
  BY <1>0 DEF RouterTypeOK, PollsOK, CallsOK, Calls, Answers, Polls
<1>b. status.at <= launches /\ RunsFresh /\ CallsFresh /\ PollsFresh
  BY FreshParts
<1>c. SUFFICES (status.at <= launches)' /\ RunsFresh' /\ CallsFresh' /\ PollsFresh'
  <2>1. status'.at <= launches' /\ RunsFresh' /\ CallsFresh' /\ PollsFresh' => FreshInv'
    BY DEF FreshInv, RunsFresh, CallsFresh, PollsFresh
  <2> QED
    BY <1>c, <2>1
<1>d. ASSUME UNCHANGED <<poller, polls>>, status.at <= status'.at, status'.at \in Nat
      PROVE  RunsFresh' /\ PollsFresh'
  BY <1>a, <1>b, <1>d DEF RunsFresh, PollsFresh
<1>e. ASSUME calls' \subseteq calls, status.at <= status'.at, status'.at \in Nat
      PROVE  CallsFresh'
  BY <1>a, <1>b, <1>e DEF CallsFresh
<1>1. CASE UpdatePage \/ StatusPage \/ ConfigPage
  <2>1. UNCHANGED <<status, launches>>
    BY <1>1, PagesOutside DEF notEvents, scriptVars, dirVars
  <2>2. \A e \in calls' : e \in calls \/ e.ans = Blank
    BY <1>1, PageKinds
  <2>3. CallsFresh'
    <3>1. Blank.run = 0
      BY DEF Blank
    <3> QED
      BY <1>a, <1>b, <2>1, <2>2, <3>1 DEF CallsFresh
  <2>4. CASE UNCHANGED pollVars
    BY <1>a, <1>b, <1>d, <2>1, <2>3, <2>4 DEF pollVars
  <2>5. ASSUME NEW w \in {"chk", "do", "miss"}, NEW c \in calls, start(w, c.ans.run)
        PROVE  RunsFresh' /\ PollsFresh'
    <3> DEFINE g == poller[w].generation + 1
               n == c.ans.run
    <3>0. w \in Poller
      BY PollerAssumption
    <3>1. n \in Nat /\ n <= status.at /\ g \in Nat /\ g > poller[w].generation
      BY <1>a, <1>b, <3>0 DEF CallsFresh
    <3>2. /\ poller' = [poller EXCEPT ![w] = [active |-> TRUE, generation |-> g,
                                             inFlight |-> TRUE, run |-> n]]
          /\ polls' = polls \cup {Request(w, g)}
      BY <2>5 DEF start
    <3> HIDE DEF g, n
    <3>3. /\ poller'[w].generation = g /\ poller'[w].run = n
          /\ \A v \in Poller \ {w} : poller'[v] = poller[v]
      BY <1>0, <3>0, <3>2 DEF PollsOK
    <3>4. RunsFresh'
      BY <1>b, <2>1, <3>1, <3>3 DEF RunsFresh
    <3>5. Request(w, g).who = w /\ Request(w, g).gen = g /\ Request(w, g).state = "sent"
      BY DEF Request
    <3>6. ASSUME NEW q \in polls
          PROVE  /\ q.gen <= poller'[q.who].generation
                 /\ q.gen = poller'[q.who].generation /\ q.state = "answered"
                       => q.said.at >= poller'[q.who].run
      <4>1. CASE q.who = w
        <5>1. q.gen <= poller[w].generation /\ q.gen \in Nat /\ poller[w].generation \in Nat
          BY <1>a, <1>b, <3>0, <4>1 DEF PollsFresh
        <5> QED
          BY <3>1, <3>3, <4>1, <5>1
      <4>2. CASE q.who # w
        BY <1>a, <1>b, <3>3, <4>2 DEF PollsFresh
      <4> QED
        BY <4>1, <4>2
    <3>7. PollsFresh'
      BY <3>1, <3>2, <3>3, <3>5, <3>6 DEF PollsFresh
    <3> QED
      BY <3>4, <3>7
  <2>6. ASSUME NEW q \in polls, Last(q)
        PROVE  RunsFresh' /\ PollsFresh'
    <3> DEFINE w == q.who
    <3>0. w \in Poller
      BY <1>a
    <3>1. poller' = [poller EXCEPT ![w] = stopped(w)] /\ polls' = polls \ {q}
      BY <2>6 DEF Last
    <3>2. stopped(w).run = poller[w].run /\ stopped(w).generation = poller[w].generation + 1
      BY <1>0, <3>0 DEF stopped, PollsOK
    <3> HIDE DEF w
    <3>3. /\ poller'[w].run = poller[w].run
          /\ poller'[w].generation = poller[w].generation + 1
          /\ \A v \in Poller \ {w} : poller'[v] = poller[v]
      BY <1>0, <3>0, <3>1, <3>2 DEF PollsOK
    <3>4. RunsFresh'
      BY <1>b, <2>1, <3>0, <3>3 DEF RunsFresh
    <3>5. ASSUME NEW r \in polls
          PROVE  /\ r.gen <= poller'[r.who].generation
                 /\ r.gen = poller'[r.who].generation /\ r.state = "answered"
                       => r.said.at >= poller'[r.who].run
      <4>1. CASE r.who = w
        <5>1. r.gen <= poller[w].generation /\ r.gen \in Nat /\ poller[w].generation \in Nat
          BY <1>a, <1>b, <3>0, <4>1 DEF PollsFresh
        <5> QED
          BY <3>3, <4>1, <5>1
      <4>2. CASE r.who # w
        BY <1>a, <1>b, <3>3, <4>2 DEF PollsFresh
      <4> QED
        BY <4>1, <4>2
    <3>6. PollsFresh'
      BY <3>1, <3>5 DEF PollsFresh
    <3> QED
      BY <3>4, <3>6
  <2>7. RunsFresh' /\ PollsFresh'
    BY <1>1, <1>a, <1>d, <2>1, <2>4, <2>5, <2>6, PageKinds DEF pollVars
  <2> QED
    BY <1>b, <2>1, <2>3, <2>7
<1>2. CASE Router
  <2>1. UNCHANGED <<poller, polls, calls>>
    BY <1>2 DEF Router, pollVars, rpcVars
  <2>2. \/ UNCHANGED status /\ launches' \in {launches, launches + 1}
        \/ status'.at = launches /\ launches' = launches
    BY <1>0, <1>2, StatusScript DEF Router
  <2>3. status.at <= status'.at /\ status'.at \in Nat /\ status'.at <= launches'
    BY <1>a, <1>b, <2>2
  <2> QED
    BY <1>d, <1>e, <2>1, <2>3
<1>3. ASSUME NEW c \in calls, Serve(c), UNCHANGED pollVars
      PROVE  (status.at <= launches)' /\ RunsFresh' /\ CallsFresh' /\ PollsFresh'
  <2>1. PICK a \in Answers :
           /\ Answer(c, a)
           /\ \/ a.run = 0 /\ UNCHANGED launches /\ (UNCHANGED status \/ status'.at = launches)
              \/ a.run = launches + 1 /\ launches' = launches + 1 /\ status'.at = launches + 1
    BY <1>0, <1>3, StatusServe
  <2>2. /\ status.at <= status'.at /\ status'.at \in Nat /\ status'.at <= launches'
        /\ a.run <= status'.at
    BY <1>a, <1>b, <2>1
  <2>3. calls' = (calls \ {c}) \cup {[c EXCEPT !.state = "answered", !.ans = a]}
    BY <2>1 DEF Answer
  <2>4. [c EXCEPT !.state = "answered", !.ans = a].ans = a
    BY <1>0 DEF CallsOK, Calls
  <2>5. CallsFresh'
    <3>1. ASSUME NEW e \in calls'
          PROVE  e.ans.run <= status'.at
      <4>1. CASE e \in calls
        BY <1>a, <1>b, <2>2, <4>1 DEF CallsFresh
      <4>2. CASE e.ans = a
        BY <2>2, <4>2
      <4> QED
        BY <2>3, <2>4, <4>1, <4>2
    <3> QED
      BY <3>1 DEF CallsFresh
  <2> QED
    BY <1>3, <1>d, <2>2, <2>5 DEF pollVars
<1>4. ASSUME NEW c \in calls, Lose(c), UNCHANGED pollVars
      PROVE  (status.at <= launches)' /\ RunsFresh' /\ CallsFresh' /\ PollsFresh'
  <2>1. UNCHANGED <<status, launches>>
    BY <1>4 DEF Lose, notFaults, scriptVars, dirVars
  <2>2. calls' = (calls \ {c}) \cup {[c EXCEPT !.state = "answered", !.ans = Blank]}
    BY <1>4 DEF Lose
  <2>3. [c EXCEPT !.state = "answered", !.ans = Blank].ans = Blank /\ Blank.run = 0
    BY <1>0 DEF CallsOK, Calls, Blank
  <2>4. CallsFresh'
    <3>1. ASSUME NEW e \in calls'
          PROVE  e.ans.run <= status'.at
      <4>1. CASE e \in calls
        BY <1>b, <2>1, <4>1 DEF CallsFresh
      <4>2. CASE e.ans = Blank
        BY <1>a, <2>1, <2>3, <4>2
      <4> QED
        BY <2>2, <2>3, <4>1, <4>2
    <3> QED
      BY <3>1 DEF CallsFresh
  <2> QED
    BY <1>4, <1>a, <1>b, <1>d, <2>1, <2>4 DEF pollVars
<1>5. CASE Polling
  <2>1. UNCHANGED <<status, launches, calls>>
    BY <1>5, PollingOutside DEF notFaults, scriptVars, dirVars, rpcVars
  <2>2. CallsFresh' /\ (status.at <= launches)'
    BY <1>a, <1>b, <1>e, <2>1
  <2>a. ASSUME NEW w \in Poller, poller' = [poller EXCEPT ![w].inFlight = TRUE]
                              \/ poller' = [poller EXCEPT ![w].inFlight = FALSE]
        PROVE  \A v \in Poller : /\ poller'[v].run = poller[v].run
                                 /\ poller'[v].generation = poller[v].generation
    BY <1>0, <2>a DEF PollsOK
  <2>b. ASSUME \A v \in Poller : /\ poller'[v].run = poller[v].run
                                 /\ poller'[v].generation = poller[v].generation,
               \A q \in polls' : \/ q \in polls
                                 \/ /\ q.who \in Poller /\ q.gen <= poller[q.who].generation
                                    /\ q.state = "answered" => q.said.at = status.at
        PROVE  RunsFresh' /\ PollsFresh'
    <3>1. RunsFresh'
      BY <1>b, <2>1, <2>b DEF RunsFresh
    <3>2. PollsFresh'
      BY <1>a, <1>b, <2>b DEF RunsFresh, PollsFresh
    <3> QED
      BY <3>1, <3>2
  <2>3. ASSUME NEW w \in Poller, Tick(w)
        PROVE  RunsFresh' /\ PollsFresh'
    <3> DEFINE g == poller[w].generation
    <3>1. g \in Nat /\ g <= poller[w].generation
      BY <1>a
    <3>2. polls' = polls \cup {Request(w, g)} /\ poller' = [poller EXCEPT ![w].inFlight = TRUE]
      BY <2>3 DEF Tick
    <3> HIDE DEF g
    <3>3. Request(w, g).who = w /\ Request(w, g).gen = g /\ Request(w, g).state # "answered"
      BY DEF Request
    <3> QED
      BY <2>a, <2>b, <3>1, <3>2, <3>3
  <2>4. ASSUME NEW q \in polls, getTaskStatus(q)
        PROVE  RunsFresh' /\ PollsFresh'
    <3> DEFINE rel == IF status.code = "ready" THEN releases ELSE {}
               r == [q EXCEPT !.state = "answered", !.said = status, !.rel = rel]
    <3>1. polls' = (polls \ {q}) \cup {r} /\ poller' = poller
      BY <2>4 DEF getTaskStatus
    <3>2. r.who = q.who /\ r.gen = q.gen /\ r.said = status
      BY <1>0 DEF PollsOK, Polls
    <3> HIDE DEF r
    <3>3. r.who \in Poller /\ r.gen <= poller[r.who].generation /\ r.said.at = status.at
      BY <1>a, <1>b, <3>2 DEF PollsFresh
    <3> QED
      BY <2>b, <3>1, <3>3
  <2>5. ASSUME NEW q \in polls, PollLost(q) \/ Deaf(q) \/ Hear(q)
        PROVE  RunsFresh' /\ PollsFresh'
    <3>1. polls' = polls \ {q} /\ q.who \in Poller
      BY <1>a, <2>5 DEF PollLost, Deaf, Hear
    <3>2. poller' = poller \/ poller' = [poller EXCEPT ![q.who].inFlight = FALSE]
      BY <2>5 DEF PollLost, Deaf, Hear
    <3>3. \A v \in Poller : /\ poller'[v].run = poller[v].run
                            /\ poller'[v].generation = poller[v].generation
      BY <2>a, <3>1, <3>2
    <3> QED
      BY <2>b, <3>1, <3>3
  <2> QED
    BY <1>5, <2>2, <2>3, <2>4, <2>5 DEF Polling
<1>6. CASE UNCHANGED luckyVars
  BY <1>6, <1>a, <1>b, <1>d, <1>e DEF luckyVars, routerVars, scriptVars, dirVars, rpcVars, pollVars
<1> QED
  BY <1>1, <1>2, <1>3, <1>4, <1>5, <1>6 DEF Next, Plugin

\* A poller ends only with the last word of an answer that is its own.
LEMMA FreshEnd ==
    ASSUME LuckyTypeInv, FreshInv, [Next]_luckyVars, NEW w \in Poller,
           poller[w].active, ~poller'[w].active
    PROVE  \E q \in polls \ polls' : q.who = w /\ q.said.at >= poller[w].run
<1>0. PollsOK /\ PollsFresh
  BY TypeParts, FreshParts DEF WayOK
<1>1. ASSUME NEW v, poller' = [poller EXCEPT ![v].inFlight = TRUE]
                    \/ poller' = [poller EXCEPT ![v].inFlight = FALSE] \/ poller' = poller
      PROVE  FALSE
  BY <1>0, <1>1 DEF PollsOK
<1>2. ASSUME NEW v, NEW n, start(v, n)
      PROVE  FALSE
  <2> DEFINE g == poller[v].generation + 1
  <2>1. poller' = [poller EXCEPT ![v] = [active |-> TRUE, generation |-> g, inFlight |-> TRUE, run |-> n]]
    BY <1>2 DEF start
  <2> HIDE DEF g
  <2> QED
    BY <1>0, <2>1 DEF PollsOK
<1>3. ASSUME NEW q \in polls, Last(q)
      PROVE  \E r \in polls \ polls' : r.who = w /\ r.said.at >= poller[w].run
  <2>1. q \in polls \ polls' /\ poller' = [poller EXCEPT ![q.who] = stopped(q.who)]
    BY <1>3 DEF Last
  <2>2. q.who = w
    BY <1>0, <2>1 DEF PollsOK
  <2>3. q.state = "answered" /\ q.gen = poller[q.who].generation
    BY <1>3 DEF Last, Current
  <2>4. q.said.at >= poller[w].run
    BY <1>0, <2>2, <2>3 DEF PollsFresh
  <2> QED
    BY <2>1, <2>2, <2>4
<1>4. CASE UpdatePage \/ StatusPage \/ ConfigPage
  BY <1>1, <1>2, <1>3, <1>4, PageKinds DEF pollVars
<1>5. CASE Router \/ Plugin \/ UNCHANGED luckyVars
  BY <1>1, <1>5 DEF Router, Plugin, luckyVars, pollVars
<1>6. CASE Polling
  BY <1>1, <1>6 DEF Polling, Tick, getTaskStatus, PollLost, Deaf, Hear
<1> QED
  BY <1>4, <1>5, <1>6 DEF Next

\* No poller that knows its run ends with a word that is older than that run, however
\* many calls and polls are lost.
THEOREM PollsEndFresh ==
    Spec => EndsFresh
<1> DEFINE Ends == \A w \in Poller :
                      poller[w].active /\ ~Blindly(w) /\ ~poller'[w].active
                      => \E q \in polls \ polls' : q.who = w /\ q.said.at >= poller[w].run
<1>1. LuckyTypeInv /\ FreshInv /\ [Next]_luckyVars => FreshInv'
  BY FreshNext
<1>2. LuckyTypeInv /\ FreshInv /\ [Next]_luckyVars => [Ends]_luckyVars
  BY FreshEnd
<1> QED
  BY <1>1, <1>2, FreshInit, LuckyTypes, PTL DEF Spec, EndsFresh

-----------------------------------------------------------------------------
(* The settings page.                                                      *)

\* The router's processes never write the settings.
LEMMA ConfRouter ==
    RouterNext => UNCHANGED conf
<1>1. ASSUME NEW p \in Proc, ScriptStep(p)
      PROVE  UNCHANGED conf
  BY <1>1 DEF ScriptStep, Begin, Query, Decide, Lookup, Fetch, Unpack, StopForInstall, Copy,
     StartAfterInstall, Record, Luci, taskRest
<1> QED
  BY <1>1 DEF RouterNext, Cron, RunJob, uciVars

\* Only a save writes them, and it writes what its call carries.
LEMMA ConfServe ==
    ASSUME NEW c \in calls, Serve(c) \/ Lose(c)
    PROVE  UNCHANGED conf \/ (c.op = "save" /\ conf' = c.form)
<1>1. Lose(c) => UNCHANGED conf
  BY DEF Lose, notFaults, scriptVars, uciVars
<1>2. Serve(c) => UNCHANGED conf \/ (c.op = "save" /\ conf' = c.form)
  BY DEF Serve, toggle_service, get_settings, save_settings, list_backups, restore_backup,
     reset_user, routerVars, scriptVars, uciVars
<1> QED
  BY <1>1, <1>2

LEMMA FormInit ==
    Init => FormInv
BY DEF Init, RpcInit, ConfigInit, FormInv

LEMMA FormNext ==
    ASSUME LuckyTypeInv, FormInv, [Next]_luckyVars
    PROVE  FormInv'
<1>0. RouterTypeOK /\ CallsOK /\ ConfigTypeOK
  BY TypeParts DEF WayOK, BothOK, ShownOK
<1>1. CASE UpdatePage \/ StatusPage
  <2>1. page' # "config"
    BY <1>1 DEF UpdatePage, StatusPage
  <2> QED
    BY <2>1 DEF FormInv
<1>2. CASE ConfigPage
  <2>0. UNCHANGED <<page, conf>>
    BY <1>2, PagesOutside DEF ConfigPage, notEvents, scriptVars, uciVars
  <2>1. CASE _save
    <3>1. calls' = calls \cup {CallOf("save", 0, form)} /\ UNCHANGED <<form, loaded_ok, touched>>
      BY <2>1 DEF _save, Click
    <3>2. CallOf("save", 0, form).form = form
      BY DEF CallOf
    <3> QED
      BY <2>0, <3>1, <3>2 DEF FormInv
  <2>2. CASE ListBackups \/ Reset \/ \E b \in listed : Pick(b)
    <3>1. PICK op \in {"list", "reset", "restore"}, want \in {0} \cup listed :
             calls' = calls \cup {CallOf(op, want, form)}
      BY <2>2 DEF ListBackups, Reset, Pick, Click
    <3>2. CallOf(op, want, form).op = op /\ op # "save"
      BY DEF CallOf
    <3>3. UNCHANGED <<form, loaded_ok, touched>>
      BY <2>2 DEF ListBackups, Reset, Pick, configVars
    <3> QED
      BY <2>0, <3>1, <3>2, <3>3 DEF FormInv
  <2>3. ASSUME NEW k \in Keys, NEW v \in Vals, Edit(k, v)
        PROVE  FormInv'
    <3>1. /\ form' = [form EXCEPT ![k] = v] /\ touched' = touched \cup {k}
          /\ UNCHANGED <<calls, loaded_ok>>
      BY <2>3 DEF Edit, rpcVars
    <3>2. \A i \in Keys \ {k} : form'[i] = form[i]
      BY <1>0, <3>1 DEF ConfigTypeOK
    <3> QED
      BY <2>0, <3>1, <3>2 DEF FormInv
  <2>4. CASE ClosePanel \/ \E c \in calls : SaveAnswer(c) \/ ListAnswer(c) \/ RestoreAnswer(c) \/ ResetAnswer(c)
    <3>1. calls' \subseteq calls /\ UNCHANGED <<form, loaded_ok, touched>>
      BY <2>4 DEF ClosePanel, SaveAnswer, ListAnswer, RestoreAnswer, ResetAnswer, Consume, rpcVars
    <3> QED
      BY <2>0, <3>1 DEF FormInv
  <2> QED
    BY <1>2, <2>1, <2>2, <2>3, <2>4 DEF ConfigPage, ConfigNext
<1>3. CASE Router \/ Polling \/ UNCHANGED luckyVars
  <2>1. UNCHANGED <<calls, page, form, loaded_ok, touched>>
    BY <1>3, PollingOutside DEF Router, luckyVars, rpcVars, pages, configVars
  <2>2. UNCHANGED conf
    BY <1>3, ConfRouter, PollingOutside DEF Router, luckyVars, routerVars, notFaults, scriptVars, uciVars
  <2> QED
    BY <2>1, <2>2 DEF FormInv
<1>4. CASE Plugin
  <2>1. PICK c \in calls : Serve(c) \/ Lose(c)
    BY <1>4 DEF Plugin
  <2>2. UNCHANGED <<page, form, loaded_ok, touched>>
    BY <1>4 DEF Plugin, pages, configVars
  <2>3. PICK a \in Answers : calls' = (calls \ {c}) \cup {[c EXCEPT !.state = "answered", !.ans = a]}
    BY <1>0, <2>1, CallTurned
  <2> DEFINE d == [c EXCEPT !.state = "answered", !.ans = a]
  <2>4. d.op = c.op /\ d.form = c.form
    BY <1>0 DEF CallsOK, Calls
  <2>5. calls' = (calls \ {c}) \cup {d}
    BY <2>3
  <2> HIDE DEF d
  <2>6. UNCHANGED conf \/ (c.op = "save" /\ conf' = c.form)
    BY <2>1, ConfServe
  <2>7. ASSUME page = "config", loaded_ok, NEW k \in Keys \ touched
        PROVE  conf'[k] = conf[k]
    BY <2>6, <2>7 DEF FormInv
  <2>8. ASSUME page = "config", loaded_ok, NEW k \in Keys \ touched, NEW e \in calls', e.op = "save"
        PROVE  e.form[k] = conf[k]
    BY <2>4, <2>5, <2>8 DEF FormInv
  <2>9. ASSUME page = "config", loaded_ok, NEW k \in Keys \ touched
        PROVE  form[k] = conf[k]
    BY <2>9 DEF FormInv
  <2> QED
    BY <2>2, <2>7, <2>8, <2>9 DEF FormInv
<1> QED
  BY <1>1, <1>2, <1>3, <1>4 DEF Next

\* Saving a form that loaded changes only the settings the user touched, although the
\* page sends them all.
THEOREM SavesOnlyTouched ==
    Spec => SaveKeepsOthers
<1> DEFINE Keeps == page = "config" /\ loaded_ok
                      => \A k \in Keys : conf'[k] # conf[k] => k \in touched
<1>1. LuckyTypeInv /\ FormInv /\ [Next]_luckyVars => FormInv'
  BY FormNext
<1>2. LuckyTypeInv /\ FormInv /\ [Next]_luckyVars => [Keeps]_luckyVars
  <2> SUFFICES ASSUME LuckyTypeInv, FormInv, [Next]_luckyVars PROVE Keeps
    OBVIOUS
  <2>1. UNCHANGED conf \/ \E c \in calls : Serve(c) /\ c.op = "save" /\ conf' = c.form
    BY Sides, ConfRouter, ConfServe DEF scriptVars, uciVars
  <2> QED
    BY <2>1 DEF FormInv
<1> QED
  BY <1>1, <1>2, FormInit, LuckyTypes, PTL DEF Spec, SaveKeepsOthers
=============================================================================

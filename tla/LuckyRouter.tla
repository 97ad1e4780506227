----------------------------- MODULE LuckyRouter -----------------------------
(***************************************************************************)
(* The router's side of luci-app-lucky: uci settings, the init script and  *)
(* the update script lucky-update.sh, any number of whose processes share  *)
(* one status file, one list of releases and one extraction directory.     *)
(* Init actions wait for procd's lock, so each is one step, in any order.  *)
(* The LuCI half of the script has its own files and is one step, "luci".  *)
(***************************************************************************)
EXTENDS Naturals, FiniteSets

CONSTANTS
    Proc,         \* processes of the update script that fit in a behaviour
    Latest,       \* versions are 1..Latest; 0 is none or unknown
    Keys,         \* settings of the page, besides "enabled"
    RestartKeys,  \* those whose change restarts the daemon
    Vals,         \* their values
    MaxFaults,    \* bound: failing steps of the script, lost calls and polls
    MaxEvents     \* bound: automatic updates by cron and calls by the user's clicks

ASSUME RouterAssumption ==
    /\ IsFiniteSet(Proc) /\ Proc # {}
    /\ Latest \in Nat \ {0}
    /\ RestartKeys \subseteq Keys
    /\ MaxFaults \in Nat /\ MaxEvents \in Nat

Versions == 1..Latest
Missing == 0
Torn == Latest + 1          \* a file that cp did not finish

VARIABLES
    enabled, conf,      \* uci: lucky.enabled and the other settings
    installed,          \* uci: lucky.installed_version
    binary,             \* the file at binpath: Missing, Torn or a version
    svc, loaded,        \* is the daemon running, and with which settings
    jobs,               \* init actions started in the background
    status,             \* the word in the status file, and after how many launches
    releases,           \* releases.json
    files, extract,     \* downloaded archives, the extraction directory
    backups,            \* versions whose configuration was backed up
    task,               \* the processes of the script
    launches,           \* processes of the script so far
    faults, events,     \* what the bounds count
    overlap, clash,     \* history: two runs at once; two of them installing
    cleared,            \* history: the cache was cleared
    late, broke         \* history: why an enabled daemon is down

uciVars == <<enabled, conf, installed>>
svcVars == <<svc, loaded, jobs>>
dirVars == <<status, releases, files, extract, backups>>
histVars == <<overlap, clash, cleared>>
downVars == <<late, broke>>
scriptVars == <<uciVars, binary, svcVars, dirVars, task, launches, histVars, downVars>>
notFaults == <<scriptVars, events>>
notEvents == <<scriptVars, faults>>
routerVars == <<scriptVars, faults, events>>

Codes == {"idle", "checking", "ready", "downloading", "installing", "done", "error"}
Idle == [kind |-> "none", pc |-> "idle", want |-> 0, cur |-> 0]
Steps == {"begin", "query", "decide", "lookup", "fetch", "unpack", "stop", "copy",
          "start", "record", "luci"}

RouterTypeOK ==
    /\ enabled \in BOOLEAN /\ conf \in [Keys -> Vals] /\ installed \in 0..Latest
    /\ binary \in 0..Torn
    /\ svc \in {"stopped", "running"} /\ loaded \in [RestartKeys -> Vals]
    /\ jobs \subseteq {"start", "stop", "restart"}
    /\ status \in [code : Codes, at : Nat]
    /\ releases \subseteq Versions /\ files \subseteq Versions
    /\ extract \in 0..Latest
    /\ backups \subseteq 0..Latest
    /\ task \in [Proc -> {Idle} \cup
          [kind : {"check", "download", "auto"}, pc : Steps, want : 0..Latest,
           cur : 0..Latest]]
    /\ launches \in Nat /\ faults \in 0..MaxFaults /\ events \in 0..MaxEvents
    /\ {overlap, clash, cleared, late, broke} \subseteq BOOLEAN

\* A router in rest: an enabled daemon runs if it can, the cache is as an update
\* left it (clean_update empties it, as a reboot does).
RouterInit ==
    /\ enabled \in BOOLEAN
    /\ conf = [k \in Keys |-> CHOOSE v \in Vals : TRUE]
    /\ binary \in {Missing, 1}
    /\ installed = binary
    /\ svc = IF enabled /\ binary # Missing THEN "running" ELSE "stopped"
    /\ loaded = [k \in RestartKeys |-> conf[k]]
    /\ jobs = {}
    /\ status = [code |-> "done", at |-> 0] /\ releases = Versions
    /\ files = {} /\ extract = 0 /\ backups = {0}
    /\ task = [p \in Proc |-> Idle]
    /\ launches = 0 /\ faults = 0 /\ events = 0
    /\ overlap = FALSE /\ clash = FALSE /\ cleared = FALSE /\ late = FALSE /\ broke = FALSE

-----------------------------------------------------------------------------
(* Starting the script                                                     *)

Free == {p \in Proc : task[p] = Idle}
Running == Proc \ Free

\* setsid lucky-update.sh ... &: a process of its own; nothing looks for others.
Spawn(kind, want) ==
    /\ Free # {}
    /\ task' = [task EXCEPT ![CHOOSE p \in Free : TRUE] =
          [kind |-> kind, pc |-> IF kind = "download" THEN "lookup" ELSE "begin",
           want |-> want, cur |-> 0]]
    /\ launches' = launches + 1
    /\ overlap' = (overlap \/ Running # {})
    /\ UNCHANGED <<faults, clash, cleared>>

Cron ==
    /\ events < MaxEvents
    /\ events' = events + 1
    /\ Spawn("auto", 0)
    /\ UNCHANGED <<uciVars, binary, svcVars, dirVars, downVars>>

-----------------------------------------------------------------------------
(* The init script                                                         *)

LoadedConf == [k \in RestartKeys |-> conf[k]]

\* init start with the daemon in state s.  Where start_service opens no instance
\* procd stops the one there is; a torn program exits at once.
StartDaemon(s) ==
    /\ svc' = IF enabled /\ binary \in Versions THEN "running" ELSE "stopped"
    /\ loaded' = IF s = "stopped" /\ svc' = "running" THEN LoadedConf ELSE loaded
    /\ late' = (late /\ svc' = "stopped")
    /\ broke' = (broke /\ svc' = "stopped")

\* start_service: without a program it also forgets the version and starts an update.
StartService(s) ==
    /\ StartDaemon(s)
    /\ IF binary = Missing
         THEN Spawn("auto", 0) /\ installed' = 0
         ELSE UNCHANGED <<installed, task, launches, faults, histVars>>

StopService ==
    /\ svc' = "stopped"
    /\ late' = enabled
    /\ UNCHANGED broke
    /\ UNCHANGED <<installed, loaded, task, launches, faults, histVars>>

RunJob(j) ==
    /\ j \in jobs
    /\ jobs' = jobs \ {j}
    /\ CASE j = "start" -> StartService(svc)
         [] j = "stop" -> StopService
         [] j = "restart" -> IF enabled THEN StartService("stopped") ELSE StopService
    /\ UNCHANGED <<enabled, conf, binary, dirVars, events>>

-----------------------------------------------------------------------------
(* lucky-update.sh, command by command                                     *)

At(p, pc) == task[p].pc = pc
Goto(p, pc) == task' = [task EXCEPT ![p].pc = pc]
Exit(p) == task' = [task EXCEPT ![p] = Idle]
WriteStatus(code) == status' = [code |-> code, at |-> launches]

Fault == faults < MaxFaults /\ faults' = faults + 1

\* die: write the error and end the process.
Die(p) == WriteStatus("error") /\ Exit(p)

installing == {"unpack", "stop", "copy", "start", "record"}

taskRest == <<enabled, conf, jobs, launches, events, overlap, cleared>>
calm == <<svc, loaded, clash, downVars>>

\* The first words of cmd_check and cmd_auto.
Begin(p) ==
    /\ At(p, "begin")
    /\ WriteStatus("checking")
    /\ task' = [task EXCEPT ![p].pc = "query",
                 ![p].cur = IF binary = Missing THEN 0 ELSE installed]
    /\ UNCHANGED <<taskRest, installed, binary, calm, releases, files, extract, backups, faults>>

\* cmd_check asks upstream, writes the list of releases and "ready".
Query(p) ==
    /\ At(p, "query")
    /\ \/ /\ releases' = Versions
          /\ WriteStatus("ready")
          /\ IF task[p].kind = "auto" THEN Goto(p, "decide") ELSE Exit(p)
          /\ UNCHANGED faults
       \/ Fault /\ Die(p) /\ UNCHANGED releases
    /\ UNCHANGED <<taskRest, installed, binary, calm, files, extract, backups>>

\* do_download finds the address of the file in the list, or dies.
Lookup(p) ==
    /\ At(p, "lookup")
    /\ IF task[p].want \in releases
         THEN WriteStatus("downloading") /\ Goto(p, "fetch")
         ELSE Die(p)
    /\ UNCHANGED <<taskRest, installed, binary, calm, releases, files, extract, backups, faults>>

\* cmd_auto takes the newest release of the list as it is now, and looks it up.
Decide(p) ==
    /\ At(p, "decide")
    /\ IF releases = {} THEN Die(p)
         ELSE IF task[p].cur = Latest THEN Goto(p, "luci") /\ UNCHANGED status
         ELSE /\ WriteStatus("downloading")
              /\ task' = [task EXCEPT ![p].want = Latest, ![p].pc = "fetch"]
    /\ UNCHANGED <<taskRest, installed, binary, calm, releases, files, extract, backups, faults>>

\* The archive arrives and is verified; the extraction directory is made anew.
Fetch(p) ==
    /\ At(p, "fetch")
    /\ \/ /\ files' = files \cup {task[p].want}
          /\ WriteStatus("installing")
          /\ extract' = 0
          /\ clash' = (clash \/ \E r \in Proc \ {p} : task[r].pc \in installing)
          /\ Goto(p, "unpack")
          /\ UNCHANGED faults
       \/ Fault /\ Die(p) /\ UNCHANGED <<files, extract, clash>>
    /\ UNCHANGED <<taskRest, installed, binary, svc, loaded, downVars, releases, backups>>

Unpack(p) ==
    /\ At(p, "unpack")
    /\ IF task[p].want \in files
         THEN extract' = task[p].want /\ Goto(p, "stop") /\ UNCHANGED status
         ELSE Die(p) /\ UNCHANGED extract
    /\ UNCHANGED <<taskRest, installed, binary, calm, releases, files, backups, faults>>

\* Mutant: the version is saved before the program is replaced.
StopAfterRecord(p) ==
    /\ At(p, "stop")
    /\ extract # 0 /\ installed' = task[p].want /\ svc' = "stopped"
    /\ Goto(p, "copy")
    /\ UNCHANGED <<taskRest, binary, loaded, clash, downVars, dirVars, faults>>

\* find, backup_config and init stop.
StopForInstall(p) ==
    /\ At(p, "stop")
    /\ IF extract = 0 THEN Die(p) /\ UNCHANGED <<svc, backups>>
         ELSE /\ backups' = backups \cup {installed}
              /\ svc' = "stopped"
              /\ Goto(p, "copy")
              /\ UNCHANGED status
    /\ UNCHANGED <<taskRest, installed, binary, loaded, clash, downVars, releases, files, extract, faults>>

\* cp over the program: it fails if the source has gone or the program runs, and
\* breaks off in the middle when the flash is full.
Copy(p) ==
    /\ At(p, "copy")
    /\ \/ /\ extract # 0 /\ svc = "stopped"
          /\ binary' = extract
          /\ Goto(p, "start")
          /\ UNCHANGED <<status, faults, broke>>
       \/ extract # 0 /\ svc = "stopped" /\ Fault /\ binary' = Torn /\ Die(p) /\ broke' = TRUE
       \/ /\ extract = 0 \/ svc = "running"
          /\ Die(p)
          /\ broke' = (broke \/ svc = "stopped")
          /\ UNCHANGED <<binary, faults>>
    /\ UNCHANGED <<taskRest, installed, svc, loaded, clash, late, releases, files, extract, backups>>

\* Mutant: the service is not started again.
StartForgotten(p) ==
    /\ At(p, "start")
    /\ files' = files \ {task[p].want}
    /\ extract' = 0
    /\ Goto(p, "record")
    /\ UNCHANGED <<taskRest, calm, installed, binary, status, releases, backups, faults>>

\* Clean up and init start.
StartAfterInstall(p) ==
    /\ At(p, "start")
    /\ files' = files \ {task[p].want}
    /\ extract' = 0
    /\ StartDaemon(svc)
    /\ Goto(p, "record")
    /\ UNCHANGED <<taskRest, installed, binary, clash, status, releases, backups, faults>>

\* save_installed_version and the word "done".
Record(p) ==
    /\ At(p, "record")
    /\ installed' = task[p].want
    /\ WriteStatus("done")
    /\ IF task[p].kind = "auto" THEN Goto(p, "luci") ELSE Exit(p)
    /\ UNCHANGED <<taskRest, binary, calm, releases, files, extract, backups, faults>>

\* The LuCI half: it ends with the final word, or dies without one in this file.
Luci(p) ==
    /\ At(p, "luci")
    /\ \/ WriteStatus("done") /\ UNCHANGED faults
       \/ Fault /\ UNCHANGED status
    /\ Exit(p)
    /\ UNCHANGED <<taskRest, installed, binary, calm, releases, files, extract, backups>>

ScriptStep(p) ==
    \/ Begin(p) \/ Query(p) \/ Decide(p) \/ Lookup(p) \/ Fetch(p) \/ Unpack(p)
    \/ StopForInstall(p) \/ Copy(p) \/ StartAfterInstall(p) \/ Record(p) \/ Luci(p)

RouterNext == Cron \/ (\E j \in jobs : RunJob(j)) \/ (\E p \in Proc : ScriptStep(p))
=============================================================================

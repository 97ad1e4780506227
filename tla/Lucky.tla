-------------------------------- MODULE Lucky --------------------------------
(***************************************************************************)
(* luci-app-lucky as a whole: one open page, the rpcd plugin, the init     *)
(* script, cron, and the processes of the update script.                   *)
(***************************************************************************)
EXTENDS LuckyUpdate, LuckyStatus, LuckyConfig

VARIABLE page     \* the page that is open

luckyVars == <<routerVars, rpcVars, pollVars, upd, statusVars, configVars, page>>

LuckyTypeOK ==
    /\ RouterTypeOK /\ RpcTypeOK /\ PollTypeOK /\ UpdTypeOK /\ StatusTypeOK /\ ConfigTypeOK
    /\ page \in {"update", "status", "config"}

\* Every page starts as render leaves it; only the open one acts.
Init ==
    /\ RouterInit /\ RpcInit /\ PollInit /\ UpdInit /\ StatusInit
    /\ page \in {"update", "status", "config"}
    /\ ConfigInit /\ (page # "config" => loaded_ok)

pages == <<upd, statusVars, configVars, page>>

UpdatePage == page = "update" /\ UpdateNext /\ UNCHANGED <<statusVars, configVars, page>>
StatusPage == page = "status" /\ StatusNext /\ UNCHANGED <<upd, configVars, page>>
ConfigPage == page = "config" /\ ConfigNext /\ UNCHANGED <<upd, pollVars, statusVars, page>>

Router == RouterNext /\ UNCHANGED <<rpcVars, pollVars, pages>>

Plugin == (\E c \in calls : Serve(c) \/ Lose(c)) /\ UNCHANGED <<pollVars, pages>>

Polling ==
    /\ \/ \E w \in Poller : Tick(w)
       \/ \E q \in polls : getTaskStatus(q) \/ PollLost(q) \/ Deaf(q) \/ Hear(q)
    /\ UNCHANGED pages

Next == UpdatePage \/ StatusPage \/ ConfigPage \/ Router \/ Plugin \/ Polling

\* What is begun goes on: scripts, init jobs, calls, and the page that hears of them.
Progress ==
    \/ /\ (\E p \in Proc : ScriptStep(p)) \/ (\E j \in jobs : RunJob(j))
       /\ UNCHANGED <<rpcVars, pollVars, pages>>
    \/ (\E c \in calls : Serve(c)) /\ UNCHANGED <<pollVars, pages>>
    \/ /\ page = "update" /\ \E c \in calls : ChkAnswer(c) \/ DoAnswer(c)
       /\ UNCHANGED <<statusVars, configVars, page>>
    \/ /\ page = "status" /\ \E c \in calls : DownloadAnswer(c)
       /\ UNCHANGED <<upd, configVars, page>>

\* The timer of one poller, rpcd that answers it, and the page that hears.
PollStep(w) ==
    \/ /\ Tick(w) \/ \E q \in polls : q.who = w /\ (getTaskStatus(q) \/ Deaf(q) \/ Hear(q))
       /\ UNCHANGED pages
    \/ /\ page = "update" /\ \E q \in polls : q.who = w /\ onDone(q)
       /\ UNCHANGED <<statusVars, configVars, page>>
    \/ /\ page = "status" /\ \E q \in polls : q.who = w /\ DownloadDone(q)
       /\ UNCHANGED <<upd, configVars, page>>

\* The user, cron and the loss of a call are never sure to act.
Fairness == WF_luckyVars(Progress) /\ \A w \in Poller : WF_luckyVars(PollStep(w))

Spec == Init /\ [][Next]_luckyVars /\ Fairness

-----------------------------------------------------------------------------
(* The installed program and the daemon                                    *)

\* lucky-update.sh writes installed_version only after it has replaced the program
\* and started it: whenever no process is between the two, the version the page
\* shows is that of the program on disk, however checks, automatic updates, the
\* init script and cleared caches interleave, unless two installations overlapped.
InstalledMatches ==
    /\ ~clash /\ binary \in Versions
    /\ \A p \in Proc : task[p].pc \notin {"start", "record"}
    => installed = binary

\* The init script, the plugin and the update script all start and stop the
\* daemon.  Once no job and no installation is pending, an enabled daemon that does
\* not run has no program it could run, was stopped by an old background "stop" that
\* came after the "start" of a later click, or was left stopped by an installation
\* that died after stopping it (lucky-update.sh:508).
DownForAReason ==
    /\ enabled /\ svc = "stopped" /\ jobs = {}
    /\ \A p \in Proc : task[p].pc \notin {"copy", "start"}
    => binary \notin Versions \/ late \/ broke

\* save_settings restarts the daemon if a key it reads has changed; whatever restarts,
\* installations and switches come in between, a daemon that runs with no restart
\* pending runs with the saved settings.
RunsSaved == svc = "running" /\ "restart" \notin jobs => loaded = LoadedConf

-----------------------------------------------------------------------------
(* The pages                                                               *)

\* status.js keeps the state of the switch in three places, written by the click, by
\* the failed call, by the restart timers.  Once nothing is on its way they agree.
ControlsAgree ==
    page = "status" /\ calls = {} /\ sw.spins = 0
    => sw.checked = sw.enabledState /\ sw.restartOff = ~sw.enabledState

\* toggleLuckyService repairs the switch when a call fails: a user who waits for
\* every answer, a lost one included, sees what uci says.  (Clicks that overtake each
\* other break it: nothing orders the calls and only a failure is repaired.  So does a
\* second loss: syncToggleState takes an empty answer for a daemon that is disabled.)
SwitchTrue ==
    page = "status" /\ calls = {} /\ ~hasty /\ faults <= 1 => sw.checked = enabled

\* A poller that update.js started after a lost check call, knowing of no run.
Blindly(w) == poller[w].active /\ poller[w].run = 0

\* LogPoller drops the answers of an earlier generation and runTask has removed the
\* old status before it answers: a poller never ends with a word that was written
\* before its own task was started, however late the requests come.  Excepted is the
\* poller that update.js:209 starts although its check call was lost: it takes the
\* word it finds, of an earlier run as well.
EndsFresh ==
    [][\A w \in Poller :
          poller[w].active /\ ~Blindly(w) /\ ~poller'[w].active
          => \E q \in polls \ polls' : q.who = w /\ q.said.at >= poller[w].run]_luckyVars

\* save_settings stores the whole form.  A form that loaded its settings changes
\* only what the user changed, since nothing else writes those settings.
SaveKeepsOthers ==
    [][page = "config" /\ loaded_ok
       => \A k \in Keys : conf'[k] # conf[k] => k \in touched]_luckyVars

\* What may keep a poller from its word: a cleared cache, a run that overlapped
\* another, or a later run of the script that wrote over it.
Disturbed(w) ==
    cleared \/ overlap \/ (poller[w].active /\ ~Blindly(w) /\ launches > poller[w].run)

\* What a check whose call was lost may wait for in vain: no process is at work and
\* the status file holds no last word of a check.
Unstarted == Blindly("chk") /\ Running = {} /\ status.code \notin terminal("chk")

\* update.js disables the check button until the poller hears a last word.  It comes
\* back however many polls fail, unless the run was disturbed.  After a lost check
\* call it comes back with the word of whatever run there is or was, and when there is
\* none the page polls for ever (update.js:208-215), which Unstarted names.
ButtonsFreed == page = "update" /\ ~upd.chk ~> upd.chk \/ Disturbed("chk") \/ Unstarted

\* An automatic update that died while installing the LuCI half leaves "ready", or
\* "done" of the core: a poller that misses the second waits for ever on the first.
Mute == Running = {} /\ status.code = "ready"

\* The download card is busy until its poller hears "done" or "error".
MissEnds == page = "status" /\ miss = "busy" ~> miss # "busy" \/ Mute \/ Disturbed("miss")

\* The daemon is as it was asked to be: up or down for a reason, with saved settings.
DaemonAsAsked == DownForAReason /\ RunsSaved

\* The status page tells the truth: of itself at once, of the router when answered.
SwitchTells == ControlsAgree /\ SwitchTrue

\* No wait of a page is for ever.
WaitsEnd == ButtonsFreed /\ MissEnds
=============================================================================

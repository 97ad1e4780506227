------------------------------ MODULE LuckyRpcd ------------------------------
(***************************************************************************)
(* Calls of the Lucky pages to the rpcd plugin luci.lucky.  A call is sent,*)
(* answered and delivered in three steps; rpcd runs the plugin once per    *)
(* call, so calls overtake each other.  A lost call gives the page {}, and *)
(* the plugin may or may not have done its work.                           *)
(***************************************************************************)
EXTENDS LuckyRouter

VARIABLES
    calls,        \* calls on their way
    issued,       \* their number so far
    hasty         \* history: a click while an earlier call was on its way

rpcVars == <<calls, issued, hasty>>

Ops == {"enable", "disable", "restart", "settings", "run_update", "check", "do", "clean",
        "save", "list", "restore", "reset"}
Blank == [ok |-> FALSE, on |-> FALSE, run |-> 0, names |-> {}]

RpcTypeOK ==
    /\ \A c \in calls :
          /\ c.op \in Ops /\ c.n \in 1..issued /\ c.want \in 0..Latest
          /\ c.form \in [Keys -> Vals]
          /\ c.state \in {"sent", "answered"}
    /\ issued \in Nat /\ hasty \in BOOLEAN

RpcInit == calls = {} /\ issued = 0 /\ hasty = FALSE

CallOf(op, want, form) == [n |-> issued + 1, op |-> op, want |-> want, form |-> form,
                           state |-> "sent", ans |-> Blank]

\* A click that makes a call.
Click(op, want, form) ==
    /\ events < MaxEvents
    /\ events' = events + 1
    /\ calls' = calls \cup {CallOf(op, want, form)}
    /\ issued' = issued + 1
    /\ hasty' = (hasty \/ calls # {})

\* A call that a reply of call c makes.
FollowUp(c, op) ==
    /\ calls' = (calls \ {c}) \cup {CallOf(op, 0, c.form)}
    /\ issued' = issued + 1
    /\ UNCHANGED hasty

Consume(c) == calls' = calls \ {c} /\ UNCHANGED <<issued, hasty>>

-----------------------------------------------------------------------------
(* The plugin                                                              *)

Answer(c, a) ==
    /\ calls' = (calls \ {c}) \cup {[c EXCEPT !.state = "answered", !.ans = a]}
    /\ UNCHANGED <<issued, hasty>>
Say(c, ok) == Answer(c, [Blank EXCEPT !.ok = ok])

noTask == <<task, launches, faults, events, histVars, downVars>>

\* toggle_service commits first and leaves the init script in the background.
toggle_service(c) ==
    /\ CASE c.op = "enable" -> enabled' = TRUE /\ jobs' = jobs \cup {"start"} /\ Say(c, TRUE)
         [] c.op = "disable" -> enabled' = FALSE /\ jobs' = jobs \cup {"stop"} /\ Say(c, TRUE)
         [] c.op = "restart" ->
              /\ jobs' = IF enabled THEN jobs \cup {"restart"} ELSE jobs
              /\ Say(c, enabled)
              /\ UNCHANGED enabled
    /\ UNCHANGED <<conf, installed, binary, svc, loaded, dirVars, noTask>>

get_settings(c) ==
    /\ Answer(c, [Blank EXCEPT !.ok = TRUE, !.on = enabled])
    /\ UNCHANGED routerVars

\* Mutant: the daemon is not restarted.
save_settingsQuietly(c) ==
    /\ conf' = c.form
    /\ Say(c, TRUE)
    /\ UNCHANGED <<enabled, installed, binary, svcVars, dirVars, noTask>>

\* save_settings: one changed restart key among all of them restarts the daemon.
save_settings(c) ==
    /\ conf' = c.form
    /\ jobs' = IF \E k \in RestartKeys : conf[k] # c.form[k] THEN jobs \cup {"restart"} ELSE jobs
    /\ Say(c, TRUE)
    /\ UNCHANGED <<enabled, installed, binary, svc, loaded, dirVars, noTask>>

\* Mutant: the first word is left to the script.
runTaskSilent(c, code, kind) ==
    /\ Spawn(kind, c.want)
    /\ Answer(c, [Blank EXCEPT !.ok = TRUE, !.run = launches + 1])
    /\ UNCHANGED <<status, releases, files, extract, backups, events>>

\* runTask: remove the status, write the first word and start the script.
runTask(c, code, kind) ==
    /\ Spawn(kind, c.want)
    /\ status' = [code |-> code, at |-> launches + 1]
    /\ Answer(c, [Blank EXCEPT !.ok = TRUE, !.run = launches + 1])
    /\ UNCHANGED <<releases, files, extract, backups, events>>

get_upstream_version(c) == runTask(c, "checking", "check")
do_update(c) == runTask(c, "downloading", "download")
run_update(c) == runTask(c, "idle", "auto")

\* clean_update removes the directory under whatever is at work in it.
clean_update(c) ==
    /\ status' = [code |-> "idle", at |-> launches]
    /\ releases' = {} /\ files' = {} /\ extract' = 0 /\ backups' = {}
    /\ cleared' = TRUE
    /\ Say(c, TRUE)
    /\ UNCHANGED <<task, launches, faults, events, overlap, clash>>

list_backups(c) ==
    /\ Answer(c, [Blank EXCEPT !.ok = TRUE, !.names = backups])
    /\ UNCHANGED routerVars

\* restore_backup: the archive may have gone since it was listed.
restore_backup(c) ==
    /\ jobs' = IF c.want \in backups THEN jobs \cup {"restart"} ELSE jobs
    /\ Say(c, c.want \in backups)
    /\ UNCHANGED <<uciVars, binary, svc, loaded, dirVars, noTask>>

\* reset_user runs the program and then init restart, in the background.
reset_user(c) ==
    /\ jobs' = IF binary # Missing THEN jobs \cup {"restart"} ELSE jobs
    /\ Say(c, binary # Missing)
    /\ UNCHANGED <<uciVars, binary, svc, loaded, dirVars, noTask>>

Serve(c) ==
    /\ c.state = "sent"
    /\ \/ c.op \in {"enable", "disable", "restart"} /\ toggle_service(c)
       \/ c.op = "settings" /\ get_settings(c)
       \/ c.op = "save" /\ save_settings(c)
       \/ /\ \/ c.op = "check" /\ get_upstream_version(c)
             \/ c.op = "do" /\ do_update(c)
             \/ c.op = "run_update" /\ run_update(c)
             \/ c.op = "clean" /\ clean_update(c)
          /\ UNCHANGED <<uciVars, binary, svcVars, downVars>>
       \/ c.op = "list" /\ list_backups(c)
       \/ c.op = "restore" /\ restore_backup(c)
       \/ c.op = "reset" /\ reset_user(c)

\* The call, or its answer, is lost: the page sees {}.
Lose(c) ==
    /\ Fault
    /\ c.ans # Blank \/ c.state = "sent"
    /\ calls' = (calls \ {c}) \cup {[c EXCEPT !.state = "answered", !.ans = Blank]}
    /\ UNCHANGED <<issued, hasty, notFaults>>

Delivered(c, op) == c \in calls /\ c.state = "answered" /\ c.op = op
=============================================================================

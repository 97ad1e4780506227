------------------------------ MODULE LuckyInv -------------------------------
(***************************************************************************)
(* Why luci-app-lucky is correct: the inductive invariant behind the       *)
(* safety properties of Lucky, one part for each thing that page, plugin,  *)
(* init script and update script must agree on.                            *)
(***************************************************************************)
EXTENDS Lucky

Answers == [ok : BOOLEAN, on : BOOLEAN, run : Nat, names : SUBSET (0..Latest)]

Calls == [n : Nat, op : Ops, want : 0..Latest, form : [Keys -> Vals],
          state : {"sent", "answered"}, ans : Answers]

Polls == [who : Poller, gen : Nat, state : {"sent", "answered"},
          said : [code : Codes, at : Nat], rel : SUBSET Versions]

Restarts == {c \in calls : c.op = "restart"}

\* What is on its way is well formed, what a process downloads is a version, and a
\* timer of the restart button comes from a click.
WireInv ==
    /\ calls \subseteq Calls /\ polls \subseteq Polls
    /\ IsFiniteSet(calls)
    /\ sw.spins + Cardinality(Restarts) <= events
    /\ \A p \in Proc : task[p].pc \in {"fetch"} \cup installing => task[p].want \in Versions

LuckyTypeInv == LuckyTypeOK /\ WireInv

\* As long as no two installations meet, one process at a time has the extraction
\* directory and the program to itself.
InstallInv ==
    ~clash =>
        /\ \A p, r \in Proc :
              task[p].pc \in installing /\ task[r].pc \in installing => p = r
        /\ \A p \in Proc :
              /\ task[p].pc \in {"stop", "copy"} => extract \in {0, task[p].want}
              /\ task[p].pc \in {"start", "record"} => binary = task[p].want
        /\ binary \in Versions /\ (\A p \in Proc : task[p].pc \notin {"start", "record"})
              => installed = binary

\* An enabled daemon that is down has its start coming, or a reason.
DownInv ==
    /\ enabled /\ svc = "stopped" /\ "start" \notin jobs
    /\ \A p \in Proc : task[p].pc \notin {"copy", "start"}
    => binary \notin Versions \/ late \/ broke

\* The restart button is off with the switch, or for a restart that is under way.
ButtonInv ==
    /\ sw.checked = sw.enabledState
    /\ (sw.restartOff = ~sw.enabledState) \/ sw.spins > 0 \/ Restarts # {}

Toggles == {"enable", "disable"}

OneCall == \A c, d \in calls : c = d

\* Without a toggle or its repair on the way the switch shows what uci says.
Agreed == (\A c \in calls : c.op \notin Toggles \cup {"settings"}) => sw.checked = enabled

\* What a toggle, or the repair of one that failed, has told the switch.
Told(c) ==
    /\ c.op \in Toggles => sw.checked = (c.op = "enable")
    /\ c.op \in Toggles /\ c.state = "answered" =>
          IF c.ans.ok THEN sw.checked = enabled ELSE faults >= 1
    /\ c.op = "settings" => faults >= 1
    /\ c.op = "settings" /\ c.state = "answered" => c.ans.on = enabled

\* A user who waits has one call under way; a toggle that failed is repaired.
SwitchInv ==
    page = "status" /\ ~hasty /\ faults <= 1 =>
        OneCall /\ Agreed /\ \A c \in calls : Told(c)

\* The word in the status file is never older than a run somebody waits for.
FreshInv ==
    /\ status.at <= launches
    /\ \A w \in Poller : poller[w].run <= status.at
    /\ \A c \in calls : c.ans.run <= status.at
    /\ \A q \in polls :
          /\ q.gen <= poller[q.who].generation
          /\ q.gen = poller[q.who].generation /\ q.state = "answered"
                => q.said.at >= poller[q.who].run

\* A form that loaded its settings, and a save it has sent, differ from the settings
\* only where the user touched them.
FormInv ==
    page = "config" /\ loaded_ok =>
        \A k \in Keys \ touched :
            /\ form[k] = conf[k]
            /\ \A c \in calls : c.op = "save" => c.form[k] = conf[k]

LuckyInvariant ==
    /\ LuckyTypeInv
    /\ InstallInv /\ DownInv /\ RunsSaved
    /\ ButtonInv /\ SwitchInv
    /\ FreshInv /\ FormInv
=============================================================================

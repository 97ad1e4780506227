------------------------------ MODULE LuckyDot ------------------------------
(***************************************************************************)
(* The dot of "Running Status" (view/lucky/status.js): RUNNING, STARTING  *)
(* or NOT RUNNING, from a poll every three seconds and a "start pending"   *)
(* mark that the clicks set and that no timer removes.                     *)
(***************************************************************************)
EXTENDS Integers

CONSTANT MaxClicks      \* clicks, flips of the daemon and lost polls: a bound of the model

ASSUME DotAssumption == MaxClicks \in Nat

VARIABLES
    up,         \* the daemon runs (external)
    st,         \* the page: dot, and pending: "no", "young" (below five seconds) or "old"
    ask,        \* the poll of status and stats: "no", "sent", "up" or "down"
    clicks

dotVars == <<up, st, ask, clicks>>

DotTypeOK ==
    /\ up \in BOOLEAN
    /\ st \in [dot : {"run", "starting", "stop"}, pending : {"no", "young", "old"}]
    /\ ask \in {"no", "sent", "up", "down"} /\ clicks \in 0..MaxClicks

DotInit ==
    /\ up \in BOOLEAN
    /\ st = [dot |-> IF up THEN "run" ELSE "stop", pending |-> "no"]
    /\ ask = "no" /\ clicks = 0

Use == clicks < MaxClicks /\ clicks' = clicks + 1

showStarting == st' = [dot |-> "starting", pending |-> "young"]
clearStarting == st' = [st EXCEPT !.pending = "no"]

\* Switched on or restarted; switched off, or the call failed.
TurnOn == Use /\ showStarting /\ UNCHANGED <<up, ask>>
TurnOff == Use /\ clearStarting /\ UNCHANGED <<up, ask>>

Age ==
    /\ st.pending = "young"
    /\ st' = [st EXCEPT !.pending = "old"]
    /\ UNCHANGED <<up, ask, clicks>>

DaemonFlips == Use /\ up' = ~up /\ UNCHANGED <<st, ask>>

\* LuCI polls again only after the last answer; resolveDefault makes a lost one "not running".
PollStatus == ask = "no" /\ ask' = "sent" /\ UNCHANGED <<up, st, clicks>>
StatusAnswer == ask = "sent" /\ ask' = (IF up THEN "up" ELSE "down") /\ UNCHANGED <<up, st, clicks>>
StatusLost == Use /\ ask = "sent" /\ ask' = "down" /\ UNCHANGED <<up, st>>

\* Mutant: the five seconds forgotten, a start stays pending for ever.
ShowForever(run) ==
    st' = [st EXCEPT !.dot = IF run THEN "run" ELSE IF st.pending # "no" THEN "starting" ELSE "stop"]

\* Within five seconds of the click "running" may still be the old process.
Show(run) ==
    LET starting == st.pending # "no" /\ (~run \/ st.pending = "young") IN
    st' = [dot |-> IF run THEN "run" ELSE IF starting THEN "starting" ELSE "stop",
           pending |-> IF run /\ ~starting THEN "no" ELSE st.pending]

StatusHeard == ask \in {"up", "down"} /\ Show(ask = "up") /\ ask' = "no" /\ UNCHANGED <<up, clicks>>

DotNext ==
    \/ TurnOn \/ TurnOff \/ Age \/ DaemonFlips
    \/ PollStatus \/ StatusAnswer \/ StatusLost \/ StatusHeard

DotProgress == PollStatus \/ StatusAnswer \/ StatusHeard

\* A daemon that stays up is shown as running and the mark of the click is gone, so
\* that a later stop is shown as one; a daemon that stays down without the mark is
\* shown as not running.  (While the mark stays and the daemon never comes, the page
\* says STARTING for ever.)
DotFollows ==
    /\ <>[]up => <>[](st = [dot |-> "run", pending |-> "no"])
    /\ <>[](~up /\ st.pending = "no") => <>[](st.dot = "stop")
=============================================================================

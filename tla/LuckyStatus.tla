----------------------------- MODULE LuckyStatus -----------------------------
(***************************************************************************)
(* The page "Running Status" (view/lucky/status.js): the switch, the       *)
(* restart button and the card that downloads a missing program.  What it  *)
(* shows of the daemon is in LuckyDot.                                     *)
(***************************************************************************)
EXTENDS LuckyPoller

VARIABLES
    sw,         \* the switch, enabledState, the restart button and its timers
    miss        \* the card: "none", "offered" or "busy"

statusVars == <<sw, miss>>

StatusTypeOK ==
    /\ sw \in [checked : BOOLEAN, enabledState : BOOLEAN, restartOff : BOOLEAN, spins : 0..MaxEvents]
    /\ miss \in {"none", "offered", "busy"}

StatusInit ==
    /\ sw = [checked |-> enabled, enabledState |-> enabled, restartOff |-> ~enabled, spins |-> 0]
    /\ miss = IF binary = Missing THEN "offered" ELSE "none"

\* The switch: shown at once, told to the router without waiting for an answer.
Toggle ==
    /\ LET on == ~sw.checked IN
       /\ sw' = [sw EXCEPT !.checked = on, !.enabledState = on, !.restartOff = ~on]
       /\ Click(IF on THEN "enable" ELSE "disable", 0, NoForm)
    /\ UNCHANGED <<notEvents, pollVars, miss>>

\* Mutant: no syncToggleState.
ToggleAnswerUnsynced(c) ==
    /\ Delivered(c, "enable") \/ Delivered(c, "disable")
    /\ Consume(c)
    /\ UNCHANGED <<routerVars, pollVars, sw, miss>>

\* A failed call: syncToggleState asks the router.
ToggleAnswer(c) ==
    /\ Delivered(c, "enable") \/ Delivered(c, "disable")
    /\ IF c.ans.ok THEN Consume(c) ELSE FollowUp(c, "settings")
    /\ UNCHANGED <<routerVars, pollVars, sw, miss>>

SyncAnswer(c) ==
    /\ Delivered(c, "settings")
    /\ Consume(c)
    /\ sw' = [sw EXCEPT !.checked = c.ans.on, !.enabledState = c.ans.on, !.restartOff = ~c.ans.on]
    /\ UNCHANGED <<routerVars, pollVars, miss>>

Restart ==
    /\ ~sw.restartOff /\ sw.enabledState
    /\ sw' = [sw EXCEPT !.restartOff = TRUE]
    /\ Click("restart", 0, NoForm)
    /\ UNCHANGED <<notEvents, pollVars, miss>>

\* The answer starts the three seconds after which the button is given back.
RestartAnswer(c) ==
    /\ Delivered(c, "restart")
    /\ Consume(c)
    /\ sw' = [sw EXCEPT !.spins = @ + 1]
    /\ UNCHANGED <<routerVars, pollVars, miss>>

\* Mutants: the button is always given back, the timers are not counted right.
GiveBackAlways ==
    /\ sw.spins > 0
    /\ sw' = [sw EXCEPT !.spins = @ - 1, !.restartOff = FALSE]
    /\ UNCHANGED <<routerVars, pollVars, rpcVars, miss>>
GiveBackAgain ==
    /\ sw' = [sw EXCEPT !.spins = @ - 1, !.restartOff = ~sw.enabledState]
    /\ UNCHANGED <<routerVars, pollVars, rpcVars, miss>>

GiveBack ==
    /\ sw.spins > 0
    /\ sw' = [sw EXCEPT !.spins = @ - 1, !.restartOff = ~sw.enabledState]
    /\ UNCHANGED <<routerVars, pollVars, rpcVars, miss>>

-----------------------------------------------------------------------------
(* The card of a missing program                                           *)

Download ==
    /\ miss = "offered"
    /\ miss' = "busy"
    /\ Click("run_update", 0, NoForm)
    /\ UNCHANGED <<notEvents, pollVars, sw>>

DownloadAnswer(c) ==
    /\ Delivered(c, "run_update")
    /\ Consume(c)
    /\ IF c.ans.ok THEN start("miss", c.ans.run) /\ UNCHANGED miss
         ELSE miss' = "offered" /\ UNCHANGED pollVars
    /\ UNCHANGED <<routerVars, sw>>

\* Mutant: an error leaves the card busy.
DownloadDoneOnly(q) ==
    /\ q.who = "miss"
    /\ Last(q)
    /\ miss' = IF q.said.code = "done" THEN "none" ELSE miss
    /\ UNCHANGED <<routerVars, rpcVars, sw>>

DownloadDone(q) ==
    /\ q.who = "miss"
    /\ Last(q)
    /\ miss' = IF q.said.code = "done" THEN "none" ELSE "offered"
    /\ UNCHANGED <<routerVars, rpcVars, sw>>

StatusNext ==
    \/ Toggle \/ Restart \/ Download \/ GiveBack
    \/ \E c \in calls : ToggleAnswer(c) \/ SyncAnswer(c) \/ RestartAnswer(c) \/ DownloadAnswer(c)
    \/ \E q \in polls : DownloadDone(q)
=============================================================================

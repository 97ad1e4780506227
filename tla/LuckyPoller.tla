----------------------------- MODULE LuckyPoller -----------------------------
(***************************************************************************)
(* LogPoller of lucky/common.js: read the status file every second or so   *)
(* until a last word, one request at a time, deaf to the answers of a      *)
(* poller that was stopped.                                                *)
(***************************************************************************)
EXTENDS LuckyRpcd

CONSTANT Poller     \* the places that poll: "chk", "do", "miss"

ASSUME PollerAssumption == {"chk", "do", "miss"} \subseteq Poller

VARIABLES
    poller,         \* per place: active, generation, inFlight, and the run it was started for
    polls           \* requests on their way, with the generation that sent them

pollVars == <<poller, polls>>

PollTypeOK ==
    /\ poller \in [Poller -> [active : BOOLEAN, generation : Nat, inFlight : BOOLEAN, run : Nat]]
    /\ \A q \in polls :
          /\ q.who \in Poller /\ q.gen \in Nat
          /\ q.state \in {"sent", "answered"} /\ q.said.code \in Codes
          /\ q.rel \subseteq Versions /\ q.said.at \in Nat

PollInit ==
    /\ poller = [w \in Poller |-> [active |-> FALSE, generation |-> 0, inFlight |-> FALSE, run |-> 0]]
    /\ polls = {}

NoForm == [k \in Keys |-> conf[k]]      \* a call that sends no form

Request(w, gen) == [who |-> w, gen |-> gen, state |-> "sent",
                    said |-> [code |-> "idle", at |-> 0], rel |-> {}]

\* start: stop what ran, a new generation, and the first tick at once.
start(w, run) ==
    LET g == poller[w].generation + 1 IN
    /\ poller' = [poller EXCEPT ![w] = [active |-> TRUE, generation |-> g,
                                        inFlight |-> TRUE, run |-> run]]
    /\ polls' = polls \cup {Request(w, g)}

stopped(w) == [poller[w] EXCEPT !.active = FALSE, !.generation = @ + 1, !.inFlight = FALSE]

\* The interval timer: nothing while a request is on its way.
Tick(w) ==
    /\ poller[w].active /\ ~poller[w].inFlight
    /\ poller' = [poller EXCEPT ![w].inFlight = TRUE]
    /\ polls' = polls \cup {Request(w, poller[w].generation)}
    /\ UNCHANGED <<routerVars, rpcVars>>

\* get_update_status: the word, and the releases with the word "ready".
getTaskStatus(q) ==
    /\ q.state = "sent"
    /\ polls' = (polls \ {q}) \cup
         {[q EXCEPT !.state = "answered", !.said = status,
                   !.rel = IF status.code = "ready" THEN releases ELSE {}]}
    /\ UNCHANGED <<routerVars, rpcVars, poller>>

Current(q) == poller[q.who].active /\ q.gen = poller[q.who].generation

\* A request that fails: the error is swallowed and the next tick asks again.
PollLost(q) ==
    /\ Fault
    /\ polls' = polls \ {q}
    /\ poller' = IF q.gen = poller[q.who].generation
                   THEN [poller EXCEPT ![q.who].inFlight = FALSE] ELSE poller
    /\ UNCHANGED <<notFaults, rpcVars>>

terminal(w) == IF w = "chk" THEN {"ready", "error"} ELSE {"done", "error"}

\* An answer nobody waits for any more.
Deaf(q) ==
    /\ q.state = "answered" /\ ~Current(q)
    /\ polls' = polls \ {q}
    /\ UNCHANGED <<routerVars, rpcVars, poller>>

Hear(q) ==
    /\ q.state = "answered" /\ Current(q)
    /\ q.said.code \notin terminal(q.who)
    /\ polls' = polls \ {q}
    /\ poller' = [poller EXCEPT ![q.who].inFlight = FALSE]
    /\ UNCHANGED <<routerVars, rpcVars>>

\* The last word: stop first, then onDone of the page.
Last(q) ==
    /\ q.state = "answered" /\ Current(q)
    /\ q.said.code \in terminal(q.who)
    /\ polls' = polls \ {q}
    /\ poller' = [poller EXCEPT ![q.who] = stopped(q.who)]
=============================================================================

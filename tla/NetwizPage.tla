------------------------------ MODULE NetwizPage -----------------------------
(***************************************************************************)
(* The browser side of a guarded LAN change: the page that knocks on the   *)
(* new address and calls confirm, and the user who opens and leaves the    *)
(* router's pages.  The confirm call goes to the page's own origin, which  *)
(* is the OLD address.                                                     *)
(***************************************************************************)
EXTENDS NetwizRpc

CONSTANT OldReachable   \* can a call to the old address still reach the router?

ASSUME PageAssumption == OldReachable \in BOOLEAN

VARIABLES
    page,       \* "idle", "knocking" on the new address, or "confirming"
    host,       \* the address the page was loaded from
    goal        \* the address it knocks on

pageVars == <<page, host, goal>>

PageTypeOK ==
    /\ page \in {"idle", "knocking", "confirming"}
    /\ host \in Addr \cup {None}
    /\ goal \in Addr \cup {None}
    /\ page # "idle" => host # None /\ goal # None

PageInit == page = "idle" /\ host = None /\ goal = None

\* The page waits for a new address only when the safety toggle is on.
Knocks(r) == r.mode = "lan" /\ r.safe /\ r.ip # LanOf(live)

\* Apply: send the request and, for a new address, start to knock on it.
Apply(r) ==
    /\ LanOf(live) # None
    /\ Receive(r)
    /\ IF Knocks(r)
         THEN page' = "knocking" /\ host' = LanOf(live) /\ goal' = r.ip
         ELSE page' = "idle" /\ UNCHANGED <<host, goal>>

\* A probe of the new address answers within the 120 seconds.
KnockAnswered ==
    /\ Up /\ page = "knocking" /\ rpc = "idle"
    /\ LanOf(live) = goal
    /\ page' = "confirming"
    /\ reached' = reached \cup {goal}
    /\ UNCHANGED <<flash, timer, lock, boot, live, browser, rpcVars, host, goal>>

\* confirm arrives where the page came from.
Confirm ==
    /\ page = "confirming"
    /\ OldReachable \/ LanOf(live) = host
    /\ ConfirmFiles
    /\ UNCHANGED <<rpcVars, pageVars>>

\* The page moves to the new address when confirm answers, fails, or after a
\* second in any case.
Jump ==
    /\ page = "confirming"
    /\ page' = "idle"
    /\ IF Up /\ LanOf(live) = goal
         THEN browser' = goal /\ reached' = reached \cup {goal}
         ELSE UNCHANGED <<browser, reached>>
    /\ UNCHANGED <<flash, timer, lock, boot, live, rpcVars, host, goal>>

\* 120 seconds of knocking without an answer.
GiveUp ==
    /\ page = "knocking" /\ rpc = "idle"
    /\ page' = "idle"
    /\ UNCHANGED <<flash, timer, lock, boot, running, rpcVars, host, goal>>

\* The user opens the router's pages at the address it has now, or leaves.
Browse ==
    /\ Up /\ LanOf(live) # None
    /\ \/ browser' = LanOf(live) /\ reached' = reached \cup {LanOf(live)}
       \/ browser' = None /\ UNCHANGED reached
    /\ UNCHANGED <<flash, timer, lock, boot, live, rpcVars, pageVars>>

\* The page outlives a power loss, its pending call does not.
PageDies ==
    /\ page' = IF page = "confirming" THEN "idle" ELSE page
    /\ UNCHANGED <<host, goal>>
=============================================================================

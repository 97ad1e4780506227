----------------------------- MODULE NetwizTrial -----------------------------
(***************************************************************************)
(* What the fail-safe promises, without files, timers or processes: a      *)
(* configuration on trial becomes the durable one only after a client has  *)
(* reached it, and every trial ends.                                       *)
(***************************************************************************)
CONSTANT Config         \* complete configurations

VARIABLES
    durable,    \* the configuration the router comes back with
    disk,       \* what the configuration files hold, torn or not
    open,       \* is a configuration on trial?
    proven      \* has a client reached the configuration on disk?

trialVars == <<durable, disk, open, proven>>

TrialInit == durable \in Config /\ disk = durable /\ open = FALSE /\ proven = FALSE

\* A trial begins by keeping the durable configuration.
Begin == ~open /\ open' = TRUE /\ UNCHANGED <<durable, disk>>

\* While a trial is open its files are written piece by piece.
Write == open /\ UNCHANGED <<durable, open>>

Accept ==
    /\ open /\ proven
    /\ disk \in Config
    /\ durable' = disk /\ disk' = disk /\ open' = FALSE

Abandon ==
    /\ open /\ disk = durable
    /\ open' = FALSE
    /\ UNCHANGED <<durable, disk>>

\* A change made without the safety timer.
SetDirectly ==
    /\ ~open
    /\ durable' \in Config /\ disk' = durable'
    /\ UNCHANGED open

\* Whether the disk's address is proven changes with the disk and the clients.
TrialNext ==
    /\ Begin \/ Write \/ Accept \/ Abandon \/ SetDirectly
    /\ proven' \in BOOLEAN

TrialSafety == TrialInit /\ [][TrialNext]_trialVars

TrialSpec == TrialSafety /\ (open ~> ~open)
=============================================================================

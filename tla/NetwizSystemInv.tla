--------------------------- MODULE NetwizSystemInv ---------------------------
(***************************************************************************)
(* Why the LAN fail-safe and the WAN detection may share their files: what *)
(* each leaves to the other.  The detection never touches a LAN backup or  *)
(* a timer, and no LAN request touches the lock or starts the script, so   *)
(* the lock and the debounce keep the promises they make on their own.     *)
(* The LAN's own order of work is kept with weaker means than in           *)
(* NetwizLanInv: a confirm may come late, a copy be torn, and the script   *)
(* may replace network at any command.                                     *)
(***************************************************************************)
EXTENDS NetwizSystem, NetwizLanInv, NetwizWanInv

SysTypeInv == TypeInv /\ WanTypeInv

\* The handler's commands from the backup to the timer that needs it.
Copied == {"fillNet", "bakDhcp", "fillDhcp", "armTarget", "armTime"}

\* A request is served while nothing of an earlier one is at work: no job, no late
\* confirm, no timer but its own.
HandlerInv ==
    /\ rpc # "idle" => Up /\ job = "none" /\ page # "confirming"
    /\ rpc \in {"plan", "bakNet"} \cup Copied => deadline = None /\ mon = "scan"
    /\ rpc \in Copied => netBak # None
    /\ rpc \in Committing =>
          /\ mon \in {"scan", "defuse", "clock"}
          /\ deadline = None \/ (deadline = "running" /\ req.mode = "lan" /\ req.safe)

\* The rollback and its job begin when the timer has gone, and nothing is served.
LoopInv ==
    /\ mon \in {"expire"} \cup Restoring => rpc = "idle"
    /\ mon \in Restoring => deadline = None
    /\ job # "none" => mon = "scan" /\ deadline = None
    /\ ~Up => rpc = "idle" /\ mon = "scan" /\ job = "none" /\ deadline = None

\* Who may take a backup away, and when.
PairInv == HandlerInv /\ LoopInv /\ TimerBacked /\ BackupsPaired

\* The inductive invariant of the whole system, part by part with what it needs.
SysInv ==
    /\ SysTypeInv
    /\ ~Overlap => PairInv
    /\ Unsignalled => EngineInv
    /\ CountInv
=============================================================================

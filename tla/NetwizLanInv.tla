---------------------------- MODULE NetwizLanInv ----------------------------
(***************************************************************************)
(* Why the LAN fail-safe is correct: the inductive invariant behind        *)
(* AlwaysRecoverable and DurableByConsent, for one page at a time          *)
(* (~Overlap), a confirm call that goes to the old address (~OldReachable) *)
(* and backups that are copied whole (~TornBackup).                        *)
(***************************************************************************)
EXTENDS NetwizLan

\* The stages of a guarded change before its timer runs.
Preparing == {"bakNet", "bakDhcp", "armTarget", "armTime"}
Committing == {"commitNet", "commitDhcp"}
Restoring == {"restore", "fillNet", "dhcp", "fillDhcp"}

Whole == network # Empty /\ dhcp # Empty

\* What is missing in a file is in its backup.
FilesInv ==
    /\ wanBak = None /\ netBak # Empty /\ dhcpBak # Empty
    /\ netBak = None => network # Empty
    /\ netBak = None \/ dhcpBak = None => dhcp # Empty

\* What the handler knows of its request.
RequestInv ==
    /\ rpc # "idle" => req \in Request
    /\ rpc \in Preparing \cup {"fillNet", "fillDhcp"} => req.mode = "lan" /\ req.safe
    /\ rpc \in Committing => req.mode \in {"lan", "wan", "wizard"}

\* While a request is at work nothing of an earlier one is.
RpcInv ==
    /\ rpc \notin {"fillNet", "fillDhcp"}
    /\ applies \in {0, 1}
    /\ rpc # "idle" => Up /\ applies = 0 /\ job = "none" /\ page # "confirming"
    /\ rpc \in {"plan"} \cup Preparing => deadline = None /\ mon = "scan"
    /\ rpc \in {"plan", "bakNet"} => netBak = None
    /\ rpc = "bakNet" => req.ip # LanOf(network)
    /\ rpc \in Preparing \ {"bakNet"} => netBak # None /\ Whole
    /\ rpc \in {"plan", "bakNet", "bakDhcp"} => dhcpBak = None
    /\ rpc \in {"plan"} \cup Preparing /\ page = "knocking" => req.ip = goal

\* The timer runs only over whole files with a backup.
TimerInv ==
    /\ deadline # None =>
         /\ Up /\ netBak # None /\ Whole /\ job = "none"
         /\ rpc = "idle" \/ (rpc \in Committing /\ req.mode = "lan" /\ req.safe)
    /\ deadline = "due" => rpc = "idle"
    /\ mon \in {"defuse", "clock", "expire"} => deadline # None
    /\ mon = "expire" => deadline = "due"

\* A rollback works alone and ends with the files of the backup.
RollbackInv ==
    /\ mon \in Restoring =>
         Up /\ deadline = None /\ rpc = "idle" /\ job = "none" /\ netBak # None
    /\ mon \in {"dhcp", "fillDhcp"} => network = netBak
    /\ mon = "fillDhcp" => dhcpBak # None
    /\ job # "none" =>
         Up /\ mon = "scan" /\ deadline = None /\ rpc = "idle" /\ Whole
    /\ job = "restart" => network = netBak

\* The boot script works alone and ends with whole files.
BootInv ==
    /\ boot \notin {"fillWan", "cleanWan"}
    /\ ~Up => rpc = "idle" /\ applies = 0 /\ mon = "scan" /\ job = "none" /\ deadline = None
              /\ page # "confirming"
    /\ boot \in {"fillNet", "dhcp", "fillDhcp", "clean"} => netBak # None
    /\ boot \in {"dhcp", "fillDhcp", "clean", "wan", "start"} => network # Empty
    /\ boot = "fillDhcp" => dhcpBak # None
    /\ boot \in {"clean", "wan", "start"} => dhcp # Empty

\* The page confirms from an address that the router no longer has, unless the
\* rollback is over.
PageInv ==
    /\ page = "knocking" =>
         /\ goal # host
         /\ rpc # "idle" \/ applies > 0 => LanOf(live) # goal
         /\ netBak # None => LanOf(netBak) # goal
    /\ page = "confirming" =>
         /\ Up /\ applies = 0 /\ rpc = "idle"
         /\ netBak = None \/ job = "cleanup" \/ LanOf(live) # host

TypeInv == LanTypeOK /\ RequestInv
StepInv == FilesInv /\ RpcInv /\ TimerInv /\ RollbackInv /\ BootInv /\ PageInv
SafeInv == TypeInv /\ StepInv

-----------------------------------------------------------------------------
\* The LAN address that runs is the one on disk.
Agree == LanOf(live) = LanOf(network)

\* When nothing is pending, or a rollback has restarted the network.
AgreeInv ==
    /\ Up /\ netBak = None /\ applies = 0 /\ rpc # "commitDhcp" => Agree
    /\ deadline # None /\ applies = 0 /\ rpc = "idle" => Agree
    /\ job = "cleanup" => Agree
    /\ rpc \in Committing /\ req.mode # "lan" => netBak = None
    /\ rpc = "commitDhcp" /\ req.mode # "lan" => Agree

\* The timer's target is the address on disk, and the request's until then.
TargetInv ==
    /\ target # None => deadline # None \/ rpc = "armTime"
    /\ rpc \in Preparing => LanOf(live) # req.ip
    /\ rpc = "armTime" => target = req.ip
    /\ deadline # None =>
         /\ target # None
         /\ IF rpc = "commitNet" THEN target = req.ip ELSE target = LanOf(network)
         /\ rpc \in Committing => LanOf(live) # target

\* Connections go to the address that runs; to the target, only once reached.
ClientInv ==
    /\ browser \in {None, LanOf(live)}
    /\ deadline # None /\ browser = target => target \in reached
    /\ mon = "defuse" => rpc = "idle" /\ target \in reached

\* A backup that is about to go equals the files it would replace.
BackupInv ==
    /\ rpc \in {"armTarget", "armTime"} => dhcpBak # None
    /\ rpc \in Committing /\ netBak # None => dhcpBak # None
    /\ job # "none" /\ netBak # None => network = netBak /\ dhcpBak \in {None, dhcp}
    /\ boot \in {"dhcp", "fillDhcp", "clean"} => network = netBak
    /\ boot = "clean" => dhcpBak \in {None, dhcp}

\* Without respawns a backup is always somebody's business.
WatchInv ==
    /\ rpc \in Preparing \ {"bakNet"} => netBak = network /\ dhcpBak \in {None, dhcp}
    /\ boot \in {"wan", "start"} => netBak = None
    /\ Up /\ netBak # None /\ rpc \notin Preparing =>
         deadline # None \/ mon \in Restoring \/ job # "none"

ConsentInv == AgreeInv /\ TargetInv /\ ClientInv /\ BackupInv

\* The inductive invariant of set_network, confirm, the page, the radar, the
\* rollback and the boot script together.
LanInv == SafeInv /\ ConsentInv

\* The setting in which the fail-safe is right.
PlainUse == ~Overlap /\ ~OldReachable /\ ~TornBackup
=============================================================================

------------------------------ MODULE NetwizRpc ------------------------------
(***************************************************************************)
(* The rpcd plugin: the methods set_network and confirm, one shell command *)
(* with a lasting effect per action, and the job set_network leaves behind *)
(* that restarts the network.  Staged `uci set` changes and their commit   *)
(* are one action: `uci commit` rewrites the file from its present         *)
(* contents, so only the section the request names changes.                *)
(***************************************************************************)
EXTENDS NetwizRouter

CONSTANTS
    MaxCalls,       \* bound on the set_network calls of a behaviour
    TornBackup,     \* may power fail between creating a backup and filling it?
    HasRadio        \* is there a wifi-device section in /etc/config/wireless?

ASSUME RpcAssumption ==
    MaxCalls \in Nat /\ TornBackup \in BOOLEAN /\ HasRadio \in BOOLEAN

VARIABLES
    rpc,        \* the command the set_network handler is at
    req,        \* the request it serves
    applies,    \* restart jobs that are still asleep
    calls       \* calls made so far

rpcVars == <<rpc, req, applies, calls>>

LanRequest == [mode : {"lan"}, ip : Addr, wan : {None}, dhcp : Dhcp,
               safe : BOOLEAN, valid : BOOLEAN]

\* wan_dhcp, wan_static and pppoe ("wan"), and wizard, whose addresses are not
\* validated; cleanup_lan_for_wan_modes turns the DHCP server back on.
WanRequest == [mode : {"wan"}, ip : {None}, wan : Wan, dhcp : {"server"},
               safe : {FALSE}, valid : BOOLEAN]
WizardRequest == [mode : {"wizard"}, ip : {None}, wan : Wan, dhcp : {"server"},
                  safe : {FALSE}, valid : {TRUE}]

\* wifi touches neither setting kept here, set_wizard only its own file.
OtherRequest == [mode : {"wifi", "set_wizard"}, ip : {None}, wan : {None},
                 dhcp : {"server"}, safe : {FALSE}, valid : {TRUE}]

Request == LanRequest \cup WanRequest \cup WizardRequest \cup OtherRequest

\* The modes that end in the wifi job, which gives up without a radio; the
\* other two that write restart the network unconditionally.
Restarts(r) ==
    \/ r.mode \in {"lan", "wan"}
    \/ r.mode \in {"wizard", "wifi"} /\ HasRadio

RpcStates == {"idle", "plan", "bakNet", "fillNet", "bakDhcp", "fillDhcp",
              "armTarget", "armTime", "commitNet", "commitDhcp"}

RpcTypeOK ==
    /\ rpc \in RpcStates
    /\ req \in Request \cup {None}
    /\ applies \in Nat
    /\ calls \in Nat

RpcInit == rpc = "idle" /\ req = None /\ applies = 0 /\ calls = 0

\* A LAN request that changes the address and asks for the safety timer.
Guarded(r) == r.mode = "lan" /\ r.ip # LanOf(network) /\ r.safe

\* The files after `uci commit`: nothing can be set in a file without contents.
EditedNetwork ==
    IF network = Empty THEN Empty
    ELSE IF req.mode = "lan" THEN [network EXCEPT !.lan = req.ip]
    ELSE [network EXCEPT !.wan = req.wan]

EditedDhcp == IF dhcp = Empty THEN Empty ELSE req.dhcp

\* set_network begins by deleting every backup there is.
Receive(r) ==
    /\ Up /\ rpc = "idle" /\ calls < MaxCalls
    /\ netBak' = None /\ dhcpBak' = None /\ wanBak' = None
    /\ rpc' = "plan" /\ req' = r /\ calls' = calls + 1
    /\ reached' = {}
    /\ UNCHANGED <<network, dhcp, timer, lock, boot, live, browser, applies>>

\* validate_strict_ip refuses the call, after the backups have gone.
Reject ==
    /\ Up /\ rpc = "plan" /\ ~req.valid
    /\ rpc' = "idle"
    /\ UNCHANGED <<flash, timer, lock, boot, running, req, applies, calls>>

PlanGuarded ==
    /\ Up /\ rpc = "plan" /\ req.valid /\ Guarded(req)
    /\ rpc' = IF netBak = None THEN "bakNet" ELSE "armTarget"
    /\ UNCHANGED <<flash, timer, lock, boot, running, req, applies, calls>>

PlanDirect ==
    /\ Up /\ rpc = "plan" /\ req.valid /\ ~Guarded(req)
    /\ req.mode \in {"lan", "wan", "wizard"}
    /\ rpc' = "commitNet"
    /\ UNCHANGED <<flash, timer, lock, boot, running, req, applies, calls>>

\* wifi answers and leaves its job, which ends in a restart; set_wizard returns.
PlanOther ==
    /\ Up /\ rpc = "plan" /\ req.valid /\ req.mode \in {"wifi", "set_wizard"}
    /\ rpc' = "idle"
    /\ applies' = IF Restarts(req) THEN applies + 1 ELSE applies
    /\ UNCHANGED <<flash, timer, lock, boot, running, req, calls>>

\* cp network netBak, whole or (TornBackup) created first and filled later.
CreateNetBak ==
    /\ Up /\ rpc = "bakNet" /\ TornBackup
    /\ netBak' = Empty
    /\ rpc' = "fillNet"
    /\ UNCHANGED <<network, dhcp, dhcpBak, wanBak, timer, lock, boot, running,
                   req, applies, calls>>

BackupNet ==
    /\ Up /\ rpc = IF TornBackup THEN "fillNet" ELSE "bakNet"
    /\ netBak' = network
    /\ rpc' = "bakDhcp"
    /\ UNCHANGED <<network, dhcp, dhcpBak, wanBak, timer, lock, boot, running,
                   req, applies, calls>>

CreateDhcpBak ==
    /\ Up /\ rpc = "bakDhcp" /\ TornBackup
    /\ dhcpBak' = Empty
    /\ rpc' = "fillDhcp"
    /\ UNCHANGED <<network, dhcp, netBak, wanBak, timer, lock, boot, running,
                   req, applies, calls>>

BackupDhcp ==
    /\ Up /\ rpc = IF TornBackup THEN "fillDhcp" ELSE "bakDhcp"
    /\ dhcpBak' = dhcp
    /\ rpc' = "armTarget"
    /\ UNCHANGED <<network, dhcp, netBak, wanBak, timer, lock, boot, running,
                   req, applies, calls>>

ArmTarget ==
    /\ Up /\ rpc = "armTarget"
    /\ target' = req.ip
    /\ rpc' = "armTime"
    /\ UNCHANGED <<flash, deadline, lock, boot, running, req, applies, calls>>

\* Mutant: the deadline is never written.
ArmTimeForgotten ==
    /\ Up /\ rpc = "armTime"
    /\ rpc' = "commitNet"
    /\ UNCHANGED <<flash, timer, lock, boot, running, req, applies, calls>>

ArmTime ==
    /\ Up /\ rpc = "armTime"
    /\ deadline' = "running"
    /\ rpc' = "commitNet"
    /\ UNCHANGED <<flash, target, lock, boot, running, req, applies, calls>>

CommitNet ==
    /\ Up /\ rpc = "commitNet"
    /\ network' = EditedNetwork
    /\ rpc' = "commitDhcp"
    /\ UNCHANGED <<dhcp, netBak, dhcpBak, wanBak, timer, lock, boot, running,
                   req, applies, calls>>

\* The second commit, the answer and the restart job it leaves asleep.
CommitDhcp ==
    /\ Up /\ rpc = "commitDhcp"
    /\ dhcp' = EditedDhcp
    /\ rpc' = "idle"
    /\ applies' = IF Restarts(req) THEN applies + 1 ELSE applies
    /\ UNCHANGED <<network, netBak, dhcpBak, wanBak, timer, lock, boot, running,
                   req, calls>>

\* Mutant: a restart job that nobody left behind.
ApplyUnasked ==
    /\ Up
    /\ LoadNetwork
    /\ applies' = applies - 1
    /\ UNCHANGED <<flash, timer, lock, boot, rpc, req, calls>>

\* `sleep 3; network restart; dnsmasq restart; uhttpd restart`.
ApplyJob ==
    /\ Up /\ applies > 0
    /\ LoadNetwork
    /\ applies' = applies - 1
    /\ UNCHANGED <<flash, timer, lock, boot, rpc, req, calls>>

\* Mutant: the rm leaves out the DHCP backup.
ConfirmKeepsDhcpBak ==
    /\ Up
    /\ target' = None /\ deadline' = None
    /\ netBak' = None /\ wanBak' = None
    /\ UNCHANGED <<network, dhcp, dhcpBak, lock, boot, running>>

\* The method confirm looks for every file but the DHCP backup, and if one is
\* there removes both timers and all three backups with one rm.
Pending == deadline # None \/ target # None \/ netBak # None \/ wanBak # None

ConfirmFiles ==
    /\ Up
    /\ target' = None /\ deadline' = None
    /\ netBak' = None /\ wanBak' = None
    /\ dhcpBak' = IF Pending THEN None ELSE dhcpBak
    /\ UNCHANGED <<network, dhcp, lock, boot, running>>

RpcStep ==
    \/ Reject \/ PlanGuarded \/ PlanDirect \/ PlanOther
    \/ CreateNetBak \/ BackupNet \/ CreateDhcpBak \/ BackupDhcp
    \/ ArmTarget \/ ArmTime \/ CommitNet \/ CommitDhcp

\* Power loss ends the handler and forgets the sleeping jobs.
RpcDies == rpc' = "idle" /\ req' = None /\ applies' = 0 /\ UNCHANGED calls
=============================================================================

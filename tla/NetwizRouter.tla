----------------------------- MODULE NetwizRouter -----------------------------
(***************************************************************************)
(* What the processes of NetWiz share on the router: the configuration     *)
(* files on flash, the marker files on the RAM disk, and the network that  *)
(* is actually running.                                                    *)
(*                                                                         *)
(* A file is None when it is absent, Empty when it exists without its      *)
(* contents (a redirection or a cp has truncated it and not yet written    *)
(* it), and otherwise its contents.  Of /etc/config/network only the LAN   *)
(* address and the WAN protocol are kept, of /etc/config/dhcp only whether *)
(* the LAN DHCP server answers or is ignored (bypass router).              *)
(***************************************************************************)
EXTENDS Naturals

CONSTANTS
    Addr,       \* LAN addresses the router may be given
    Wan,        \* WAN settings (protocol, and mask for the static one)
    None,       \* no such file
    Empty       \* a file whose contents are not written yet

Dhcp == {"server", "bypass"}

NetCfg == [lan : Addr, wan : Wan]

\* The markers are told apart from every value a file can hold.
ASSUME MarkerAssumption ==
    /\ None # Empty
    /\ \A marker \in {None, Empty} :
          /\ marker \notin NetCfg /\ marker \notin Dhcp
          /\ marker \notin Addr /\ marker \notin Wan
    /\ None \notin {"running", "due"}

VARIABLES
    \* flash
    network,    \* /etc/config/network
    dhcp,       \* /etc/config/dhcp
    netBak,     \* /etc/config/network.netwiz_bak
    dhcpBak,    \* /etc/config/dhcp.netwiz_bak
    wanBak,     \* /etc/config/network.netwiz_wan_bak
    \* RAM disk
    target,     \* /tmp/netwiz_target_ip
    deadline,   \* /tmp/netwiz_rollback_time: "running", then "due"
    lock,       \* TRUE when /var/run/netwiz_autodetect.lock exists
    \* the running system
    boot,       \* where the boot script is, "up" once it has finished
    live,       \* the configuration the network service last loaded
    browser,    \* the LAN address a browser holds two connections to, or None
    reached     \* history: addresses a client reached since the last request

flash   == <<network, dhcp, netBak, dhcpBak, wanBak>>
timer   == <<target, deadline>>
running == <<live, browser, reached>>

Up == boot = "up"

\* The pair of configuration files the network service would load now.
Disk == <<network, dhcp>>

\* What the boot script makes of the flash if power fails now: the LAN backup
\* replaces the files, and the WAN backup then replaces network again.
Durable ==
    << IF wanBak # None THEN wanBak
       ELSE IF netBak # None THEN netBak ELSE network,
       IF netBak # None /\ dhcpBak # None THEN dhcpBak ELSE dhcp >>

LanOf(cfg) == IF cfg \in NetCfg THEN cfg.lan ELSE None

\* /etc/init.d/network restart (or reload): connections to an address that is
\* gone die with it.
LoadNetwork ==
    /\ live' = network
    /\ browser' = IF LanOf(network) = LanOf(live) THEN browser ELSE None
    /\ UNCHANGED reached

\* The contents a redirection `cat bak > file` leaves in file: the shell
\* truncates first, so a backup that has gone meanwhile leaves nothing.
CatOf(bak) == IF bak = None THEN Empty ELSE bak

RouterTypeOK ==
    /\ network \in NetCfg \cup {Empty}
    /\ dhcp \in Dhcp \cup {Empty}
    /\ netBak \in NetCfg \cup {None, Empty}
    /\ dhcpBak \in Dhcp \cup {None, Empty}
    /\ wanBak \in NetCfg \cup {None, Empty}
    /\ target \in Addr \cup {None}
    /\ deadline \in {None, "running", "due"}
    /\ lock \in BOOLEAN
    /\ live \in NetCfg \cup {None, Empty}
    /\ browser \in Addr \cup {None}
    /\ reached \subseteq Addr

RouterInit ==
    /\ network \in NetCfg
    /\ dhcp = "server"
    /\ netBak = None /\ dhcpBak = None /\ wanBak = None
    /\ target = None /\ deadline = None /\ lock = FALSE
    /\ boot = "up"
    /\ live = network
    /\ browser = None
    /\ reached = {}
=============================================================================

---------------------------- MODULE NetwizMonitor ----------------------------
(***************************************************************************)
(* Part 2 of the monitor loop: the radar that disarms the rollback timer   *)
(* when a browser uses the new LAN address, the rollback when the timer    *)
(* runs out, and the background job that ends a rollback.                  *)
(***************************************************************************)
EXTENDS NetwizRouter

CONSTANT MaxKills       \* bound on the times procd has to respawn the loop

ASSUME MonitorAssumption == MaxKills \in Nat

VARIABLES
    mon,        \* the command the loop is at
    job,        \* the rollback job: "none", "restart", then "cleanup"
    kills       \* respawns so far

monVars == <<mon, job, kills>>

MonStates == {"scan", "defuse", "clock", "expire", "restore", "fillNet",
              "dhcp", "fillDhcp"}

MonTypeOK ==
    /\ mon \in MonStates
    /\ job \in {"none", "restart", "cleanup"}
    /\ kills \in Nat

MonInit == mon = "scan" /\ job = "none" /\ kills = 0

\* The 120 seconds run out.  They are longer than the few seconds a rollback
\* job needs, so no timer runs out while one is at work.
TimerDue ==
    /\ Up /\ deadline = "running" /\ job = "none"
    /\ deadline' = "due"
    /\ UNCHANGED <<flash, target, lock, boot, running, monVars>>

\* Mutant: connections to any address count, not only those to the target.
ScanAnyBrowser ==
    /\ Up /\ mon = "scan"
    /\ target # None /\ deadline # None
    /\ mon' = IF browser # None THEN "defuse" ELSE "clock"
    /\ UNCHANGED <<flash, timer, lock, boot, running, job, kills>>

\* Both timer files exist: read the address and count the connections to it.
Scan ==
    /\ Up /\ mon = "scan"
    /\ target # None /\ deadline # None
    /\ mon' = IF browser = target THEN "defuse" ELSE "clock"
    /\ UNCHANGED <<flash, timer, lock, boot, running, job, kills>>

\* Mutant: the rm leaves out the deadline.
DefuseKeepsTime ==
    /\ Up /\ mon = "defuse"
    /\ target' = None
    /\ netBak' = None /\ dhcpBak' = None
    /\ mon' = "scan"
    /\ UNCHANGED <<network, dhcp, wanBak, deadline, lock, boot, running, job,
                   kills>>

\* Mutant: the rm leaves out the DHCP backup.
DefuseKeepsDhcpBak ==
    /\ Up /\ mon = "defuse"
    /\ target' = None /\ deadline' = None
    /\ netBak' = None
    /\ mon' = "scan"
    /\ UNCHANGED <<network, dhcp, dhcpBak, wanBak, lock, boot, running, job,
                   kills>>

\* Two connections from the subnet: remove the timer and the LAN backups.
Defuse ==
    /\ Up /\ mon = "defuse"
    /\ target' = None /\ deadline' = None
    /\ netBak' = None /\ dhcpBak' = None
    /\ mon' = "scan"
    /\ UNCHANGED <<network, dhcp, wanBak, lock, boot, running, job, kills>>

\* Too few: read the deadline (it may have gone since) and compare.
Clock ==
    /\ Up /\ mon = "clock"
    /\ mon' = IF deadline = "due" THEN "expire" ELSE "scan"
    /\ UNCHANGED <<flash, timer, lock, boot, running, job, kills>>

\* Mutant: the rm of the timer takes the backups along, as the radar's does.
ExpireDropsBackups ==
    /\ Up /\ mon = "expire"
    /\ target' = None /\ deadline' = None
    /\ netBak' = None /\ dhcpBak' = None
    /\ mon' = "restore"
    /\ UNCHANGED <<network, dhcp, wanBak, lock, boot, running, job, kills>>

Expire ==
    /\ Up /\ mon = "expire"
    /\ target' = None /\ deadline' = None
    /\ mon' = "restore"
    /\ UNCHANGED <<flash, lock, boot, running, job, kills>>

\* Mutant: the backup is moved instead of copied.
RestoreByMove ==
    /\ Up /\ mon = "restore"
    /\ IF netBak = None THEN mon' = "scan" /\ UNCHANGED <<network, netBak>>
       ELSE mon' = "fillNet" /\ network' = Empty /\ netBak' = None
    /\ UNCHANGED <<dhcp, dhcpBak, wanBak, timer, lock, boot, running, job, kills>>

\* `cat bak > network` begins by truncating network, if the backup is there.
Restore ==
    /\ Up /\ mon = "restore"
    /\ IF netBak = None THEN mon' = "scan" /\ UNCHANGED network
                        ELSE mon' = "fillNet" /\ network' = Empty
    /\ UNCHANGED <<dhcp, netBak, dhcpBak, wanBak, timer, lock, boot, running,
                   job, kills>>

FillNet ==
    /\ Up /\ mon = "fillNet"
    /\ network' = CatOf(netBak)
    /\ mon' = "dhcp"
    /\ UNCHANGED <<dhcp, netBak, dhcpBak, wanBak, timer, lock, boot, running,
                   job, kills>>

\* Mutant: the DHCP backup is moved instead of copied.
RestoreDhcpByMove ==
    /\ Up /\ mon = "dhcp" /\ dhcpBak # None
    /\ dhcp' = Empty /\ dhcpBak' = None
    /\ mon' = "fillDhcp"
    /\ UNCHANGED <<network, netBak, wanBak, timer, lock, boot, running, job, kills>>

RestoreDhcp ==
    /\ Up /\ mon = "dhcp" /\ dhcpBak # None
    /\ dhcp' = Empty
    /\ mon' = "fillDhcp"
    /\ UNCHANGED <<network, netBak, dhcpBak, wanBak, timer, lock, boot, running,
                   job, kills>>

\* Mutant: the files are restored but no job restarts the network.
FinishWithoutJob ==
    /\ Up
    /\ \/ mon = "dhcp" /\ dhcpBak = None /\ UNCHANGED dhcp
       \/ mon = "fillDhcp" /\ dhcp' = CatOf(dhcpBak)
    /\ mon' = "scan"
    /\ UNCHANGED <<network, netBak, dhcpBak, wanBak, timer, lock, boot, running,
                   job, kills>>

\* The last write of the rollback, and the job it leaves in the background.
FinishRestore ==
    /\ Up
    /\ \/ mon = "dhcp" /\ dhcpBak = None /\ UNCHANGED dhcp
       \/ mon = "fillDhcp" /\ dhcp' = CatOf(dhcpBak)
    /\ job' = "restart"
    /\ mon' = "scan"
    /\ UNCHANGED <<network, netBak, dhcpBak, wanBak, timer, lock, boot, running,
                   kills>>

\* The job restarts the network, sleeps 3 seconds and removes the backups.
JobRestart ==
    /\ Up /\ job = "restart"
    /\ LoadNetwork
    /\ job' = "cleanup"
    /\ UNCHANGED <<flash, timer, lock, boot, mon, kills>>

JobCleanup ==
    /\ Up /\ job = "cleanup"
    /\ netBak' = None /\ dhcpBak' = None
    /\ job' = "none"
    /\ UNCHANGED <<network, dhcp, wanBak, timer, lock, boot, running, mon, kills>>

\* The loop dies at any command and procd starts it again from the top.
Respawn ==
    /\ Up /\ kills < MaxKills
    /\ mon' = "scan"
    /\ kills' = kills + 1
    /\ UNCHANGED <<flash, timer, lock, boot, running, job>>

MonStep == Scan \/ Defuse \/ Clock \/ Expire \/ Restore \/ FillNet
           \/ RestoreDhcp \/ FinishRestore
JobStep == JobRestart \/ JobCleanup

MonDies == mon' = "scan" /\ job' = "none" /\ UNCHANGED kills
=============================================================================

--------------------------- MODULE NetwizAutodetect --------------------------
(***************************************************************************)
(* The WAN detection script.  Every instance runs the same commands over   *)
(* one lock file, one backup and one network file; the trap it installs    *)
(* before it looks at the lock runs at every way out of the script.        *)
(*                                                                         *)
(* The saved credentials are constants: StaticTries lists the masks        *)
(* test_static_ip is called with ("static" the saved mask, "calc" the one  *)
(* calc_netmask infers), SavedPppoe says whether a PPPoE user is saved.    *)
(***************************************************************************)
EXTENDS NetwizRouter, Sequences

CONSTANTS
    Inst,           \* instances of the script that may run at once
    StaticTries,    \* the static settings worth trying, in order
    SavedPppoe,     \* is there a PPPoE user name?
    Lines,          \* the kinds of line there may be: sets of WAN settings
    TornCopy,       \* may power fail between creating wanBak and filling it?
    MaxTerms,       \* bound on the SIGTERMs of a behaviour
    MaxKills9       \* bound on the SIGKILLs of a behaviour

ASSUME AutodetectAssumption ==
    /\ Lines \subseteq SUBSET Wan
    /\ SavedPppoe \in BOOLEAN /\ TornCopy \in BOOLEAN
    /\ MaxTerms \in Nat /\ MaxKills9 \in Nat
    /\ StaticTries \in {<<>>, <<"static">>, <<"calc">>, <<"static", "calc">>}
    /\ {"dhcp"} \cup {StaticTries[k] : k \in DOMAIN StaticTries}
         \cup (IF SavedPppoe THEN {"pppoe"} ELSE {}) \subseteq Wan

VARIABLES
    pc,         \* pc[i]: the command instance i is at, "off" when not running
    tries,      \* tries[i]: the settings it has still to try
    resume,     \* resume[i]: where it goes on after the trap
    carrier,    \* is there a cable in the WAN port?
    works,      \* the WAN settings that lead to the internet here
    signals     \* SIGTERMs and SIGKILLs so far

autoVars == <<pc, tries, resume, carrier, works, signals>>

Starting == {"orphan", "check", "touch"}
Probing == {"wait", "backup", "fill", "read", "next", "copy", "set", "reload",
            "probe", "win", "lose", "loseRm", "loseReload"}
Trapping == {"trap", "trapBak", "trapRm", "trapReload"}

AutoTypeOK ==
    /\ pc \in [Inst -> {"off"} \cup Starting \cup Probing \cup Trapping]
    /\ \A i \in Inst : tries[i] \in Seq({"dhcp", "static", "calc", "pppoe"})
    /\ resume \in [Inst -> {"off"} \cup Starting \cup Probing]
    /\ carrier \in BOOLEAN
    /\ works \in Lines
    /\ signals \in [term : Nat, kill : Nat]

AutoInit ==
    /\ pc = [i \in Inst |-> "off"]
    /\ tries = [i \in Inst |-> <<>>]
    /\ resume = [i \in Inst |-> "off"]
    /\ carrier \in BOOLEAN
    /\ works \in Lines
    /\ signals = [term |-> 0, kill |-> 0]

WanOf(cfg) == IF cfg \in NetCfg THEN cfg.wan ELSE None
Proto(w) == IF w = "calc" THEN "static" ELSE w

Online == carrier /\ WanOf(live) \in works

\* What is tried, in order, when the setting in the file does not work.
Candidates(w) ==
    (IF Proto(w) # "dhcp" THEN <<"dhcp">> ELSE <<>>)
    \o (IF Proto(w) # "static" THEN StaticTries ELSE <<>>)
    \o (IF Proto(w) # "pppoe" /\ SavedPppoe THEN <<"pppoe">> ELSE <<>>)

Goto(i, at) == pc' = [pc EXCEPT ![i] = at]

\* A step of instance i that only moves it on.
Move(i, from, to) ==
    /\ Up /\ pc[i] = from
    /\ Goto(i, to)

\* Mutant: the copy does not look whether there is a backup.
CopyBackUnchecked == network' = wanBak

\* `cp "$BAK_FILE" network`: without a backup cp fails and leaves network.
CopyBack == network' = IF wanBak = None THEN network ELSE wanBak

Launch(i) == pc[i] = "off" /\ Goto(i, "orphan")

\* A backup nobody holds the lock for: restore it before anything else.
Orphan(i) ==
    /\ Move(i, "orphan", "check")
    /\ IF wanBak # None /\ ~lock
         THEN CopyBack /\ wanBak' = None
         ELSE UNCHANGED <<network, wanBak>>
    /\ UNCHANGED <<dhcp, netBak, dhcpBak, timer, lock, boot, running, tries,
                   resume, carrier, works, signals>>

\* `[ -f LOCK ] && exit 0`: the way out leads through the trap.
Check(i) ==
    /\ Move(i, "check", IF lock THEN "trap" ELSE "touch")
    /\ UNCHANGED <<flash, timer, lock, boot, running, tries, resume, carrier,
                   works, signals>>

\* Mutant: the lock is looked for but never taken.
TouchForgotten(i) ==
    /\ Move(i, "touch", "wait")
    /\ UNCHANGED <<flash, timer, lock, boot, running, tries, resume, carrier,
                   works, signals>>

Touch(i) ==
    /\ Move(i, "touch", "wait")
    /\ lock' = TRUE
    /\ UNCHANGED <<flash, timer, boot, running, tries, resume, carrier, works,
                   signals>>

\* The first wait_for_internet: nothing to do when the line works.
Wait(i) ==
    /\ Move(i, "wait", IF Online THEN "trap" ELSE "backup")
    /\ UNCHANGED <<flash, timer, lock, boot, running, tries, resume, carrier,
                   works, signals>>

CreateBackup(i) ==
    /\ TornCopy /\ Move(i, "backup", "fill")
    /\ wanBak' = Empty
    /\ UNCHANGED <<network, dhcp, netBak, dhcpBak, timer, lock, boot, running,
                   tries, resume, carrier, works, signals>>

Backup(i) ==
    /\ Move(i, IF TornCopy THEN "fill" ELSE "backup", "read")
    /\ wanBak' = network
    /\ UNCHANGED <<network, dhcp, netBak, dhcpBak, timer, lock, boot, running,
                   tries, resume, carrier, works, signals>>

ReadSaved(i) ==
    /\ Move(i, "read", "next")
    /\ tries' = [tries EXCEPT ![i] = Candidates(WanOf(network))]
    /\ UNCHANGED <<flash, timer, lock, boot, running, resume, carrier, works,
                   signals>>

\* The next setting; every one but DHCP starts from the backup.
NextTry(i) ==
    /\ Move(i, "next", IF tries[i] = <<>> THEN "lose"
                       ELSE IF Head(tries[i]) = "dhcp" THEN "set" ELSE "copy")
    /\ UNCHANGED <<flash, timer, lock, boot, running, tries, resume, carrier,
                   works, signals>>

Copy(i) ==
    /\ Move(i, "copy", "set")
    /\ CopyBack
    /\ UNCHANGED <<dhcp, netBak, dhcpBak, wanBak, timer, lock, boot, running,
                   tries, resume, carrier, works, signals>>

SetProto(i) ==
    /\ Move(i, "set", "reload")
    /\ network' = IF network = Empty THEN Empty
                  ELSE [network EXCEPT !.wan = Head(tries[i])]
    /\ UNCHANGED <<dhcp, netBak, dhcpBak, wanBak, timer, lock, boot, running,
                   tries, resume, carrier, works, signals>>

\* Mutant: the setting is written but the network does not load it.
ReloadForgotten(i) ==
    /\ Move(i, "reload", "probe")
    /\ UNCHANGED <<flash, timer, lock, boot, running, tries, resume, carrier,
                   works, signals>>

Reload(i) ==
    /\ Move(i, "reload", "probe")
    /\ LoadNetwork
    /\ UNCHANGED <<flash, timer, lock, boot, tries, resume, carrier, works,
                   signals>>

Probe(i) ==
    /\ Move(i, "probe", IF Online THEN "win" ELSE "next")
    /\ tries' = [tries EXCEPT ![i] = IF Online THEN @ ELSE Tail(@)]
    /\ UNCHANGED <<flash, timer, lock, boot, running, resume, carrier, works,
                   signals>>

\* Mutant: the script ends with its backup in place.
WinKeepsBackup(i) ==
    /\ Move(i, "win", "trap")
    /\ UNCHANGED <<flash, timer, lock, boot, running, tries, resume, carrier,
                   works, signals>>

Win(i) ==
    /\ Move(i, "win", "trap")
    /\ wanBak' = None
    /\ UNCHANGED <<network, dhcp, netBak, dhcpBak, timer, lock, boot, running,
                   tries, resume, carrier, works, signals>>

\* Mutant: the backup is removed without having been copied back.
LoseWithoutCopy(i) ==
    /\ Move(i, "lose", "loseRm")
    /\ UNCHANGED <<flash, timer, lock, boot, running, tries, resume, carrier,
                   works, signals>>

\* Nothing worked: the backup goes back, is removed, and the network reloads.
Lose(i) ==
    /\ Move(i, "lose", "loseRm")
    /\ CopyBack
    /\ UNCHANGED <<dhcp, netBak, dhcpBak, wanBak, timer, lock, boot, running,
                   tries, resume, carrier, works, signals>>

LoseRm(i) ==
    /\ Move(i, "loseRm", "loseReload")
    /\ wanBak' = None
    /\ UNCHANGED <<network, dhcp, netBak, dhcpBak, timer, lock, boot, running,
                   tries, resume, carrier, works, signals>>

LoseReload(i) ==
    /\ Move(i, "loseReload", "trap")
    /\ LoadNetwork
    /\ UNCHANGED <<flash, timer, lock, boot, tries, resume, carrier, works,
                   signals>>

\* Mutant: the trap forgets the lock.
TrapKeepsLock(i) ==
    /\ Move(i, "trap", "trapBak")
    /\ UNCHANGED <<flash, timer, lock, boot, running, tries, resume, carrier,
                   works, signals>>

\* cleanup(): remove the lock, and restore a backup that is still there.
TrapLock(i) ==
    /\ Move(i, "trap", "trapBak")
    /\ lock' = FALSE
    /\ UNCHANGED <<flash, timer, boot, running, tries, resume, carrier, works,
                   signals>>

AfterTrap(i) == pc' = [pc EXCEPT ![i] = resume[i]] /\ resume' = [resume EXCEPT ![i] = "off"]

TrapBak(i) ==
    /\ Up /\ pc[i] = "trapBak"
    /\ IF wanBak = None THEN AfterTrap(i) ELSE Goto(i, "trapRm") /\ UNCHANGED resume
    /\ CopyBack
    /\ UNCHANGED <<dhcp, netBak, dhcpBak, wanBak, timer, lock, boot, running,
                   tries, carrier, works, signals>>

TrapRm(i) ==
    /\ Move(i, "trapRm", "trapReload")
    /\ wanBak' = None
    /\ UNCHANGED <<network, dhcp, netBak, dhcpBak, timer, lock, boot, running,
                   tries, resume, carrier, works, signals>>

TrapReload(i) ==
    /\ Up /\ pc[i] = "trapReload"
    /\ AfterTrap(i)
    /\ LoadNetwork
    /\ UNCHANGED <<flash, timer, lock, boot, tries, carrier, works, signals>>

EngineStep(i) ==
    \/ Orphan(i) \/ Check(i) \/ Touch(i) \/ Wait(i)
    \/ CreateBackup(i) \/ Backup(i) \/ ReadSaved(i)
    \/ NextTry(i) \/ Copy(i) \/ SetProto(i) \/ Reload(i) \/ Probe(i)
    \/ Win(i) \/ Lose(i) \/ LoseRm(i) \/ LoseReload(i)
    \/ TrapLock(i) \/ TrapBak(i) \/ TrapRm(i) \/ TrapReload(i)

\* SIGTERM: the shell runs the trap between two commands and then goes on with
\* the script, because the trap does not exit.
Term(i) ==
    /\ Up /\ signals.term < MaxTerms
    /\ pc[i] \in Starting \cup Probing
    /\ Goto(i, "trap")
    /\ resume' = [resume EXCEPT ![i] = pc[i]]
    /\ signals' = [signals EXCEPT !.term = @ + 1]
    /\ UNCHANGED <<flash, timer, lock, boot, running, tries, carrier, works>>

\* SIGKILL: no trap runs.
Kill9(i) ==
    /\ Up /\ signals.kill < MaxKills9
    /\ pc[i] # "off"
    /\ Goto(i, "off")
    /\ resume' = [resume EXCEPT ![i] = "off"]
    /\ signals' = [signals EXCEPT !.kill = @ + 1]
    /\ UNCHANGED <<flash, timer, lock, boot, running, tries, carrier, works>>

AutoDies ==
    /\ pc' = [i \in Inst |-> "off"]
    /\ tries' = [i \in Inst |-> <<>>]
    /\ resume' = [i \in Inst |-> "off"]
    /\ UNCHANGED <<carrier, works, signals>>
=============================================================================

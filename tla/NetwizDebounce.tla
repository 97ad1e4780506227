--------------------------- MODULE NetwizDebounce ----------------------------
(***************************************************************************)
(* Part 1 of the monitor loop: it watches the carrier of the WAN port,     *)
(* pauses while the detection script holds its lock, and starts the script *)
(* when a cable comes back after three readings without one.               *)
(***************************************************************************)
EXTENDS NetwizAutodetect

CONSTANT MaxFlips       \* bound on the times the cable is pulled or plugged in

ASSUME DebounceAssumption == MaxFlips \in Nat

VARIABLES
    last,       \* LAST_WAN_STATE = "up"?
    downs,      \* DOWN_COUNT, up to the 3 it is compared with
    streak,     \* history: readings without a carrier since the last with one
    flips       \* changes of the carrier so far

debVars == <<last, downs, streak, flips>>

Threshold == 3
Saturated(n) == IF n > Threshold THEN Threshold ELSE n

DebTypeOK ==
    /\ last \in BOOLEAN
    /\ downs \in 0..Threshold
    /\ streak \in 0..Threshold
    /\ flips \in Nat

DebInit == last = carrier /\ downs = 0 /\ streak = 0 /\ flips = 0

\* The commands before the lock is there, also when a signal comes among them,
\* and the one after it is gone, take milliseconds, and the loop sleeps 3 seconds:
\* no cycle falls among them.
Brief(i) == pc[i] \in Starting \cup {"trapBak"} \/ resume[i] \in Starting

\* Mutant: a reading with a carrier does not reset the count.
CycleWithoutReset ==
    /\ Up /\ \A i \in Inst : ~Brief(i)
    /\ streak' = IF carrier THEN 0 ELSE Saturated(streak + 1)
    /\ IF lock THEN UNCHANGED <<last, downs, pc>>
       ELSE /\ last' = carrier
            /\ downs' = IF carrier THEN downs ELSE Saturated(downs + 1)
            /\ IF carrier /\ ~last /\ downs >= Threshold
                 THEN \E i \in Inst : Launch(i)
                 ELSE UNCHANGED pc
    /\ UNCHANGED <<flash, timer, lock, boot, running, tries, resume, carrier,
                   works, signals, flips>>

\* A cycle of the loop.
Cycle ==
    /\ Up /\ \A i \in Inst : ~Brief(i)
    /\ streak' = IF carrier THEN 0 ELSE Saturated(streak + 1)
    /\ IF lock THEN UNCHANGED <<last, downs, pc>>
       ELSE /\ last' = carrier
            /\ downs' = IF carrier THEN 0 ELSE Saturated(downs + 1)
            /\ IF carrier /\ ~last /\ downs >= Threshold
                 THEN \E i \in Inst : Launch(i)
                 ELSE UNCHANGED pc
    /\ UNCHANGED <<flash, timer, lock, boot, running, tries, resume, carrier,
                   works, signals, flips>>

\* The loop begins anew: after boot, or when procd respawns it.
LoopStarts == last' = carrier /\ downs' = 0 /\ UNCHANGED <<streak, flips>>

\* The cable is pulled out or plugged in.
Flip ==
    /\ flips < MaxFlips
    /\ carrier' = ~carrier
    /\ flips' = flips + 1
    /\ UNCHANGED <<flash, timer, lock, boot, running, pc, tries, resume, works,
                   signals, last, downs, streak>>
=============================================================================

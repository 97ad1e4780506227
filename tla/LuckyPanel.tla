----------------------------- MODULE LuckyPanel -----------------------------
(***************************************************************************)
(* The colour panel (lucky/common.js, initColorPanel): one element that    *)
(* the button, "Close" and a click elsewhere open and close, through       *)
(* animation frames and close timers that nothing cancels.                 *)
(***************************************************************************)
EXTENDS Integers

CONSTANT MaxTaps        \* clicks: a bound of the model

ASSUME PanelAssumption == MaxTaps \in Nat

VARIABLES
    panel,      \* built, display, height
    frames,     \* animation frames and close timers on their way
    want,       \* history: the last click opened the panel
    doubled,    \* history: the panel was closed again while a close timer ran
    taps

panelVars == <<panel, frames, want, doubled, taps>>

PanelTypeOK ==
    /\ panel \in [built : BOOLEAN, display : BOOLEAN, height : {"0", "full"}]
    /\ frames \in [raf : 0..MaxTaps, close : 0..MaxTaps]
    /\ want \in BOOLEAN /\ doubled \in BOOLEAN /\ taps \in 0..MaxTaps

PanelInit ==
    /\ panel = [built |-> FALSE, display |-> FALSE, height |-> "0"]
    /\ frames = [raf |-> 0, close |-> 0]
    /\ want = FALSE /\ doubled = FALSE /\ taps = 0

Tap == taps < MaxTaps /\ taps' = taps + 1

closeColorPanel ==
    /\ panel' = [panel EXCEPT !.height = "0"]
    /\ frames' = [frames EXCEPT !.close = @ + 1]
    /\ want' = FALSE
    /\ doubled' = (doubled \/ frames.close > 0)

Build ==
    /\ Tap /\ ~panel.built
    /\ panel' = [built |-> TRUE, display |-> TRUE, height |-> "0"]
    /\ frames' = [frames EXCEPT !.raf = @ + 1]
    /\ want' = TRUE /\ UNCHANGED doubled

\* Mutant: shown again without a height.
ReopenFlat ==
    /\ Tap /\ panel.built /\ ~panel.display
    /\ panel' = [panel EXCEPT !.display = TRUE]
    /\ want' = TRUE /\ UNCHANGED <<frames, doubled>>

Reopen ==
    /\ Tap /\ panel.built /\ ~panel.display
    /\ panel' = [panel EXCEPT !.display = TRUE]
    /\ frames' = [frames EXCEPT !.raf = @ + 1]
    /\ want' = TRUE /\ UNCHANGED doubled

\* The button of a panel that is displayed, and its own "Close".
Shut == Tap /\ panel.built /\ panel.display /\ closeColorPanel

\* A click elsewhere: not while it closes already.
onDocClick == Tap /\ panel.built /\ panel.display /\ panel.height # "0" /\ closeColorPanel

Frame ==
    /\ frames.raf > 0
    /\ panel' = [panel EXCEPT !.height = "full"]
    /\ frames' = [frames EXCEPT !.raf = @ - 1]
    /\ UNCHANGED <<want, doubled, taps>>

Closed ==
    /\ frames.close > 0
    /\ panel' = [panel EXCEPT !.display = FALSE]
    /\ frames' = [frames EXCEPT !.close = @ - 1]
    /\ UNCHANGED <<want, doubled, taps>>

PanelNext == Build \/ Reopen \/ Shut \/ onDocClick \/ Frame \/ Closed

\* Nothing cancels a frame or a timer.  Once they have all fired the panel is as the
\* last click left it: open to its height, or hidden; a panel that was closed twice
\* is left out: its second timer hides it even when it was opened in between.
PanelObeys == frames.raf = 0 /\ frames.close = 0 /\ ~doubled
    => want = (panel.display /\ panel.height = "full")
=============================================================================

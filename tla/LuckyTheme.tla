----------------------------- MODULE LuckyTheme -----------------------------
(***************************************************************************)
(* The theme and the background switch of the Lucky pages (lucky/common.js,*)
(* theme, bg, showCurtain): the page, localStorage and the router each     *)
(* keep a copy; saves are fired and forgotten, the page loads once.        *)
(***************************************************************************)
EXTENDS Integers

CONSTANT MaxSets        \* clicks and reloads: a bound of the model

ASSUME ThemeAssumption == MaxSets \in Nat

VARIABLES
    kind,       \* "theme" or "bg"
    themeNow,   \* themeState, bgState
    local,      \* localStorage, "" before the first write
    server,     \* the uci option; get_settings gives an unset one its default
    curtains,   \* values that a curtain will set after 800 ms
    saves,      \* save_settings calls on their way
    load,       \* get_settings of the page: "done", "sent" or the answer, as val
    crossed,    \* history: a save was on its way with a load or with another value
    themeLost,  \* history: a load or a save was lost, and no click or load came after it
    sets

themeVars == <<kind, themeNow, local, server, curtains, saves, load, crossed, themeLost, sets>>

Values == IF kind = "theme" THEN {"light", "dark"} ELSE {"on", "off"}
First == IF kind = "theme" THEN "light" ELSE "on"
toggled == CHOOSE v \in Values : v # themeNow

\* Mutant: bg saved as it is named.
SavedPlain(v) == v

\* The option as uci keeps it, and what load makes of it.
Saved(v) == IF v = "on" THEN "1" ELSE IF v = "off" THEN "0" ELSE v

Read(s, v) ==
    IF kind = "bg" THEN IF s = "0" THEN "off" ELSE "on"
    ELSE IF s \in Values THEN s ELSE v

ThemeTypeOK ==
    /\ kind \in {"theme", "bg"} /\ themeNow \in Values /\ local \in Values \cup {""}
    /\ curtains \subseteq Values /\ sets \in 0..MaxSets /\ crossed \in BOOLEAN /\ themeLost \in BOOLEAN
    /\ load \in [state : {"done", "sent", "got"}, val : {""} \cup {Saved(v) : v \in Values}]
    /\ server \in {Saved(v) : v \in Values} /\ saves \subseteq {Saved(v) : v \in Values}

\* What a page starts with: the stored value or the first one.
Stored == IF local = "" THEN First ELSE local

ThemeInit ==
    /\ kind \in {"theme", "bg"}
    /\ local \in Values \cup {""}
    /\ server \in {Saved(v) : v \in Values}
    /\ themeNow = Stored
    /\ load = [state |-> "sent", val |-> ""]
    /\ curtains = {} /\ saves = {} /\ crossed = FALSE /\ themeLost = FALSE /\ sets = 0

\* set: the page, localStorage, and a save that nobody waits for.
set(v) ==
    /\ themeNow' = v /\ local' = v
    /\ saves' = saves \cup {Saved(v)}
    /\ crossed' = (crossed \/ load.state # "done" \/ saves \ {Saved(v)} # {})
    /\ themeLost' = FALSE
    /\ UNCHANGED <<kind, server, load>>

\* toggle takes the next value at the click and sets it behind the curtain,
\* or at once when the browser asks for reduced motion.
ToggleBehind ==
    /\ sets < MaxSets /\ sets' = sets + 1
    /\ curtains' = curtains \cup {toggled}
    /\ UNCHANGED <<kind, themeNow, local, server, saves, load, crossed, themeLost>>

ToggleAtOnce ==
    /\ sets < MaxSets /\ sets' = sets + 1
    /\ set(toggled) /\ UNCHANGED curtains

CurtainFalls(v) ==
    /\ v \in curtains /\ curtains' = curtains \ {v}
    /\ set(v) /\ UNCHANGED sets

SaveSettings(s) ==
    /\ s \in saves
    /\ server' = s /\ saves' = saves \ {s}
    /\ UNCHANGED <<kind, themeNow, local, curtains, load, crossed, themeLost, sets>>

\* Nobody hears that a save failed.
LoseSave(s) ==
    /\ s \in saves
    /\ saves' = saves \ {s} /\ themeLost' = TRUE
    /\ UNCHANGED <<kind, themeNow, local, server, curtains, load, crossed, sets>>

GetSettings ==
    /\ load.state = "sent" /\ load' = [state |-> "got", val |-> server]
    /\ UNCHANGED <<kind, themeNow, local, server, curtains, saves, crossed, themeLost, sets>>

\* A load that fails is answered by {}, which holds neither option.
LoseLoad ==
    /\ load.state = "sent" /\ load' = [state |-> "got", val |-> ""]
    /\ themeLost' = TRUE
    /\ UNCHANGED <<kind, themeNow, local, server, curtains, saves, crossed, sets>>

\* Nothing to do when the answer is what the page shows.  The {} of a lost load leaves
\* the theme alone, but switches the background on, for the next page too.
Loaded ==
    /\ load.state = "got"
    /\ LET v == Read(load.val, themeNow) IN
       /\ themeNow' = v /\ local' = IF v = themeNow THEN local ELSE v
    /\ load' = [state |-> "done", val |-> ""]
    /\ themeLost' = (load.val = "")
    /\ UNCHANGED <<kind, server, curtains, saves, crossed, sets>>

ReloadPage ==
    /\ sets < MaxSets /\ sets' = sets + 1
    /\ themeNow' = Stored /\ load' = [state |-> "sent", val |-> ""]
    /\ curtains' = {} /\ crossed' = (crossed \/ saves # {})
    /\ UNCHANGED <<kind, local, server, saves, themeLost>>

ThemeNext ==
    \/ ToggleBehind \/ ToggleAtOnce \/ GetSettings \/ LoseLoad \/ Loaded \/ ReloadPage
    \/ \E v \in Values : CurtainFalls(v)
    \/ \E s \in saves : SaveSettings(s) \/ LoseSave(s)

\* Three copies of one setting, two of them written without waiting.  Once nothing is
\* on its way, a new page would end with what this one shows, whatever clicks came
\* during curtains and reloads; a click before the first answer may be undone by it,
\* and a save overtaken by a load or another save (crossed) may be too.  A lost save
\* leaves the router behind, a lost load shows a background the router has switched
\* off (common.js:172-178), until the next click or the next page sets it right
\* (themeLost).
SettingKept == load.state = "done" /\ saves = {} /\ ~crossed /\ ~themeLost
    => themeNow = Read(server, Stored)
=============================================================================

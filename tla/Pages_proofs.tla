----------------------------- MODULE Pages_proofs -----------------------------
(***************************************************************************)
(* Lucky's looks and the log pages, and what all pages have in common,     *)
(* proved for any number of clicks, lines, submenus, keys and hues.        *)
(***************************************************************************)
EXTENDS NetwizForms_proofs, ArgonMenu_proofs, LuckyColors_proofs

-----------------------------------------------------------------------------
(* The dot                                                                 *)

LEMMA DotStart == DotInit => DotInv
<1> SUFFICES ASSUME DotInit PROVE DotInv
  OBVIOUS
<1>1. up \in BOOLEAN /\ ask = "no" /\ clicks \in 0..MaxClicks
  BY DotAssumption DEF DotInit
<1>2. st \in [dot : {"run", "starting", "stop"}, pending : {"no", "young", "old"}]
  BY DEF DotInit
<1> QED
  BY <1>1, <1>2 DEF DotInv, DotTypeOK

LEMMA DotStep == DotInv /\ [DotNext]_dotVars => DotInv'
<1> SUFFICES ASSUME DotInv, [DotNext]_dotVars PROVE DotInv'
  OBVIOUS
<1> DEFINE Looks == [dot : {"run", "starting", "stop"}, pending : {"no", "young", "old"}]
<1>0. /\ up \in BOOLEAN /\ st \in Looks /\ ask \in {"no", "sent", "up", "down"} /\ clicks \in 0..MaxClicks
  BY DEF DotInv, DotTypeOK
<1>1. ASSUME up' \in BOOLEAN, st' \in Looks, ask' \in {"no", "sent", "up", "down"},
             clicks' = clicks \/ Use
      PROVE  DotInv'
  <2>1. clicks' \in 0..MaxClicks
    BY <1>0, <1>1, DotAssumption DEF Use
  <2> QED
    BY <1>1, <2>1 DEF DotInv, DotTypeOK
<1>2. CASE TurnOn \/ TurnOff
  <2>1. st' \in Looks
    BY <1>0, <1>2 DEF TurnOn, TurnOff, showStarting, clearStarting
  <2> QED
    BY <1>0, <1>1, <1>2, <2>1 DEF TurnOn, TurnOff
<1>3. CASE Age
  BY <1>0, <1>1, <1>3 DEF Age
<1>4. CASE DaemonFlips
  <2>1. (~up) \in BOOLEAN
    OBVIOUS
  <2> QED
    BY <1>0, <1>1, <1>4, <2>1 DEF DaemonFlips
<1>5. CASE PollStatus \/ StatusAnswer \/ StatusLost
  <2>1. UNCHANGED <<up, st>> /\ ask' \in {"no", "sent", "up", "down"} /\ (clicks' = clicks \/ Use)
    BY <1>5 DEF PollStatus, StatusAnswer, StatusLost
  <2> QED
    BY <1>0, <1>1, <2>1
<1>6. CASE StatusHeard
  <2>1. st' \in Looks
    BY <1>0, <1>6 DEF StatusHeard, Show
  <2> QED
    BY <1>0, <1>1, <1>6, <2>1 DEF StatusHeard
<1>7. CASE UNCHANGED dotVars
  BY <1>0, <1>1, <1>7 DEF dotVars
<1> QED
  BY <1>2, <1>3, <1>4, <1>5, <1>6, <1>7 DEF DotNext

-----------------------------------------------------------------------------
(* The panel                                                               *)

PanelSet == [built : BOOLEAN, display : BOOLEAN, height : {"0", "full"}]

LEMMA PanelStart == PanelInit => PanelInv
<1> SUFFICES ASSUME PanelInit PROVE PanelInv
  OBVIOUS
<1>1. FALSE \in BOOLEAN
  OBVIOUS
<1>2. panel \in PanelSet
  BY <1>1 DEF PanelInit, PanelSet
<1>3. frames \in [raf : 0..MaxTaps, close : 0..MaxTaps] /\ taps \in 0..MaxTaps
  BY PanelAssumption DEF PanelInit
<1>4. /\ frames.raf = 0 /\ frames.close = 0 /\ taps = 0 /\ want = FALSE /\ doubled = FALSE
      /\ panel.built = FALSE /\ panel.display = FALSE
  BY DEF PanelInit
<1>5. PanelTypeOK
  BY <1>1, <1>2, <1>3, <1>4 DEF PanelTypeOK, PanelSet
<1> QED
  BY <1>4, <1>5 DEF PanelInv

\* What a click that opens or shuts the panel leaves.
LEMMA PanelShut == ASSUME PanelInv, Tap, closeColorPanel, panel.built, panel.display PROVE PanelInv'
<1>0. panel \in PanelSet /\ frames.raf \in Nat /\ frames.close \in Nat /\ taps \in Nat
      /\ frames \in [raf : 0..MaxTaps, close : 0..MaxTaps] /\ doubled \in BOOLEAN
  BY PanelAssumption DEF PanelInv, PanelTypeOK, PanelSet
<1>1. /\ panel' = [panel EXCEPT !.height = "0"] /\ frames' = [frames EXCEPT !.close = frames.close + 1]
      /\ want' = FALSE /\ doubled' = (doubled \/ frames.close > 0) /\ taps < MaxTaps /\ taps' = taps + 1
  BY DEF closeColorPanel, Tap
<1>2. panel' \in PanelSet /\ panel'.built = panel.built /\ panel'.display = panel.display
  BY <1>0, <1>1 DEF PanelSet
<1>3. frames.raf + frames.close <= taps
  BY DEF PanelInv
<1> DEFINE k == frames.close + 1
<1>4. k \in 0..MaxTaps /\ taps' \in 0..MaxTaps
  BY <1>0, <1>1, <1>3, PanelAssumption
<1>5. /\ frames' \in [raf : 0..MaxTaps, close : 0..MaxTaps]
      /\ frames'.raf = frames.raf /\ frames'.close = k
  <2>1. frames' = [frames EXCEPT !.close = k]
    BY <1>1
  <2> HIDE DEF k
  <2> QED
    BY <1>0, <1>4, <2>1
<1>6. want' \in BOOLEAN /\ doubled' \in BOOLEAN
  BY <1>1
<1>7. PanelTypeOK'
  BY <1>2, <1>4, <1>5, <1>6 DEF PanelTypeOK, PanelSet
<1>8. ~doubled' => frames'.close = 1
  <2>1. ~doubled' => ~(frames.close > 0)
    BY <1>1
  <2> QED
    BY <1>0, <1>5, <2>1
<1>9. frames'.raf + frames'.close <= taps' /\ frames'.close > 0
  BY <1>0, <1>1, <1>3, <1>5
<1> QED
  BY <1>1, <1>2, <1>7, <1>8, <1>9 DEF PanelInv

LEMMA PanelOpened ==
    ASSUME PanelInv, Tap, ~panel.display, panel' \in PanelSet, panel'.built, panel'.display,
           frames' = [frames EXCEPT !.raf = frames.raf + 1], want' = TRUE, UNCHANGED doubled
    PROVE  PanelInv'
<1>0. /\ frames.raf \in Nat /\ frames.close \in Nat /\ taps \in Nat
      /\ frames \in [raf : 0..MaxTaps, close : 0..MaxTaps] /\ doubled \in BOOLEAN
      /\ frames.raf + frames.close <= taps /\ taps < MaxTaps /\ taps' = taps + 1
      /\ ~doubled => (frames.close > 0 => panel.display)
  BY PanelAssumption DEF PanelInv, PanelTypeOK, Tap
<1> DEFINE k == frames.raf + 1
<1>1. k \in 0..MaxTaps /\ taps' \in 0..MaxTaps
  BY <1>0, PanelAssumption
<1>2. /\ frames' \in [raf : 0..MaxTaps, close : 0..MaxTaps]
      /\ frames'.raf = k /\ frames'.close = frames.close
  <2>1. frames' = [frames EXCEPT !.raf = k]
    OBVIOUS
  <2> HIDE DEF k
  <2> QED
    BY <1>0, <1>1, <2>1
<1>3. want' \in BOOLEAN
  OBVIOUS
<1>4. PanelTypeOK'
  BY <1>0, <1>1, <1>2, <1>3 DEF PanelTypeOK, PanelSet
<1>5. ~doubled' => frames'.close = 0
  BY <1>0, <1>2
<1> QED
  BY <1>0, <1>2, <1>4, <1>5 DEF PanelInv

LEMMA PanelStep == PanelInv /\ [PanelNext]_panelVars => PanelInv'
<1> SUFFICES ASSUME PanelInv, [PanelNext]_panelVars PROVE PanelInv'
  OBVIOUS
<1>0. /\ panel \in PanelSet /\ frames.raf \in Nat /\ frames.close \in Nat /\ taps \in Nat
      /\ frames \in [raf : 0..MaxTaps, close : 0..MaxTaps] /\ doubled \in BOOLEAN /\ want \in BOOLEAN
      /\ taps \in 0..MaxTaps /\ frames.raf + frames.close <= taps
  BY PanelAssumption DEF PanelInv, PanelTypeOK, PanelSet
<1>t. TRUE \in BOOLEAN /\ FALSE \in BOOLEAN
  OBVIOUS
<1>1. CASE Build
  <2>1. panel' \in PanelSet /\ panel'.built /\ panel'.display
    BY <1>1, <1>t DEF Build, PanelSet
  <2>2. ~panel.display
    BY <1>1 DEF Build, PanelInv
  <2> QED
    BY <1>1, <2>1, <2>2, PanelOpened DEF Build
<1>2. CASE Reopen
  <2>1. panel' \in PanelSet /\ panel'.built = panel.built /\ panel'.display = TRUE
    BY <1>0, <1>2, <1>t DEF Reopen, PanelSet
  <2> QED
    BY <1>2, <2>1, PanelOpened DEF Reopen
<1>3. CASE Shut \/ onDocClick
  BY <1>3, PanelShut DEF Shut, onDocClick
<1>4. CASE Frame
  <2>1. /\ frames.raf > 0 /\ panel' = [panel EXCEPT !.height = "full"]
        /\ frames' = [frames EXCEPT !.raf = frames.raf - 1] /\ UNCHANGED <<want, doubled, taps>>
    BY <1>4 DEF Frame
  <2>2. panel' \in PanelSet /\ panel'.built = panel.built /\ panel'.display = panel.display /\ panel'.height = "full"
    BY <1>0, <2>1 DEF PanelSet
  <2>3. /\ frames' \in [raf : 0..MaxTaps, close : 0..MaxTaps]
        /\ frames'.raf = frames.raf - 1 /\ frames'.close = frames.close
    <3>1. frames.raf - 1 \in 0..MaxTaps
      BY <1>0, <2>1, PanelAssumption
    <3> QED
      BY <1>0, <2>1, <3>1
  <2>4. PanelTypeOK'
    BY <1>0, <2>1, <2>2, <2>3 DEF PanelTypeOK, PanelSet
  <2> QED
    BY <1>0, <2>1, <2>2, <2>3, <2>4 DEF PanelInv
<1>5. CASE Closed
  <2>1. /\ frames.close > 0 /\ panel' = [panel EXCEPT !.display = FALSE]
        /\ frames' = [frames EXCEPT !.close = frames.close - 1] /\ UNCHANGED <<want, doubled, taps>>
    BY <1>5 DEF Closed
  <2>2. panel' \in PanelSet /\ panel'.built = panel.built /\ panel'.display = FALSE /\ panel'.height = panel.height
    BY <1>0, <1>t, <2>1 DEF PanelSet
  <2>3. /\ frames' \in [raf : 0..MaxTaps, close : 0..MaxTaps]
        /\ frames'.raf = frames.raf /\ frames'.close = frames.close - 1
    <3>1. frames.close - 1 \in 0..MaxTaps
      BY <1>0, <2>1, PanelAssumption
    <3> QED
      BY <1>0, <2>1, <3>1
  <2>4. PanelTypeOK'
    BY <1>0, <2>1, <2>2, <2>3 DEF PanelTypeOK, PanelSet
  <2>5. ~doubled => frames'.close = 0 /\ ~want
    BY <1>0, <2>1, <2>3 DEF PanelInv
  <2> QED
    BY <1>0, <2>1, <2>2, <2>3, <2>4, <2>5 DEF PanelInv
<1>6. CASE UNCHANGED panelVars
  BY <1>6 DEF panelVars, PanelInv, PanelTypeOK
<1> QED
  BY <1>1, <1>2, <1>3, <1>4, <1>5, <1>6 DEF PanelNext

LEMMA PanelImplies == PanelInv => PanelObeys
BY DEF PanelInv, PanelTypeOK, PanelObeys

-----------------------------------------------------------------------------
(* Theme and background                                                    *)

OptionValues == {Saved(v) : v \in Values}
LoadSet == [state : {"done", "sent", "got"}, val : {""} \cup OptionValues]

\* What is saved is read back, whatever the page showed.
LEMMA SavedRead ==
    ASSUME kind \in {"theme", "bg"}
    PROVE  /\ \A v \in Values : \A w : Saved(v) \in OptionValues /\ Read(Saved(v), w) = v
           /\ \A s \in OptionValues : \A w : Read(s, w) \in Values /\ Saved(Read(s, w)) = s
<1>1. CASE kind = "theme"
  <2>1. Values = {"light", "dark"} /\ \A v \in Values : Saved(v) = v
    BY <1>1 DEF Values, Saved
  <2>2. OptionValues = Values
    BY <2>1 DEF OptionValues
  <2>3. \A s \in Values : \A w : Read(s, w) = s
    BY <1>1 DEF Read
  <2> QED
    BY <2>1, <2>2, <2>3
<1>2. CASE kind = "bg"
  <2>1. Values = {"on", "off"} /\ Saved("on") = "1" /\ Saved("off") = "0"
    BY <1>2 DEF Values, Saved
  <2>2. OptionValues = {"1", "0"}
    BY <2>1 DEF OptionValues
  <2>3. \A w : Read("1", w) = "on" /\ Read("0", w) = "off"
    BY <1>2 DEF Read
  <2> QED
    BY <2>1, <2>2, <2>3
<1> QED
  BY <1>1, <1>2

LEMMA ValuesThere ==
    ASSUME kind \in {"theme", "bg"}
    PROVE  First \in Values /\ (themeNow \in Values => toggled \in Values)
<1>1. First \in Values
  BY DEF First, Values
<1>2. ASSUME themeNow \in Values PROVE \E v \in Values : v # themeNow
  BY <1>2 DEF Values
<1> QED
  BY <1>1, <1>2 DEF toggled

LEMMA ThemeStart == ThemeInit => ThemeInv
<1> SUFFICES ASSUME ThemeInit PROVE ThemeInv
  OBVIOUS
<1>1. /\ kind \in {"theme", "bg"} /\ local \in Values \cup {""} /\ server \in OptionValues /\ themeNow = Stored
      /\ load.state = "sent" /\ load \in LoadSet /\ curtains = {} /\ saves = {} /\ crossed = FALSE /\ sets = 0
      /\ themeLost = FALSE
  BY DEF ThemeInit, OptionValues, LoadSet
<1>2. themeNow \in Values
  BY <1>1, ValuesThere DEF Stored
<1>4. sets \in 0..MaxSets /\ crossed \in BOOLEAN /\ themeLost \in BOOLEAN
  <2>1. sets = 0 /\ crossed = FALSE /\ themeLost = FALSE
    BY <1>1
  <2>2. 0 \in 0..MaxSets /\ FALSE \in BOOLEAN
    BY ThemeAssumption
  <2> QED
    BY <2>1, <2>2, Zenon
<1>3. ThemeTypeOK
  BY <1>1, <1>2, <1>4 DEF ThemeTypeOK, OptionValues, LoadSet
<1> QED
  BY <1>1, <1>3 DEF ThemeInv

\* A value that is set is the page's and is on its way, alone unless it crosses.
LEMMA SetKeeps ==
    ASSUME ThemeInv, NEW v \in Values, set(v), curtains' \subseteq Values, sets' \in 0..MaxSets
    PROVE  ThemeInv'
<1>0. ThemeTypeOK /\ kind \in {"theme", "bg"} /\ Saved(v) \in OptionValues
  BY SavedRead DEF ThemeInv, ThemeTypeOK
<1>1. /\ themeNow' = v /\ local' = v /\ saves' = saves \cup {Saved(v)} /\ UNCHANGED <<kind, server, load>>
      /\ themeLost' = FALSE
      /\ crossed' = (crossed \/ load.state # "done" \/ saves \ {Saved(v)} # {})
  BY DEF set
<1>2. Values' = Values /\ OptionValues' = OptionValues
  BY <1>1 DEF Values, OptionValues, Saved
<1>3. crossed' \in BOOLEAN /\ themeLost' \in BOOLEAN
  BY <1>1
<1>4. ThemeTypeOK'
  <2>1. saves' \subseteq OptionValues /\ server' \in OptionValues /\ load' \in LoadSet
    BY <1>0, <1>1 DEF ThemeTypeOK, OptionValues, LoadSet
  <2> QED
    BY <1>0, <1>1, <1>2, <1>3, <2>1 DEF ThemeTypeOK, OptionValues, LoadSet
<1>5. ~crossed' => load.state = "done" /\ saves' = {Saved(v)}
  <2>1. ~crossed' => load.state = "done" /\ saves \ {Saved(v)} = {}
    BY <1>1
  <2> QED
    BY <1>1, <2>1
<1>6. Saved(themeNow)' = Saved(v)
  BY <1>1 DEF Saved
<1> QED
  BY <1>1, <1>4, <1>5, <1>6 DEF ThemeInv

LEMMA ThemeStep == ThemeInv /\ [ThemeNext]_themeVars => ThemeInv'
<1> SUFFICES ASSUME ThemeInv, [ThemeNext]_themeVars PROVE ThemeInv'
  OBVIOUS
<1>0. /\ ThemeTypeOK /\ kind \in {"theme", "bg"} /\ themeNow \in Values /\ local \in Values \cup {""}
      /\ server \in OptionValues /\ saves \subseteq OptionValues /\ load \in LoadSet /\ curtains \subseteq Values
      /\ sets \in 0..MaxSets /\ crossed \in BOOLEAN /\ themeLost \in BOOLEAN /\ toggled \in Values
  BY ValuesThere DEF ThemeInv, ThemeTypeOK, OptionValues, LoadSet
<1>k. ASSUME kind' = kind
      PROVE  /\ Values' = Values /\ OptionValues' = OptionValues /\ LoadSet' = LoadSet
             /\ (themeNow' = themeNow => Saved(themeNow)' = Saved(themeNow))
  BY <1>k DEF Values, OptionValues, LoadSet, Saved
<1>n. sets \in 0..MaxSets
  BY <1>0
<1>s. sets < MaxSets /\ sets' = sets + 1 => sets' \in 0..MaxSets
  BY <1>n, ThemeAssumption
<1>t. ASSUME kind' = kind, themeNow' \in Values, local' \in Values \cup {""}, server' \in OptionValues,
             saves' \subseteq OptionValues, load' \in LoadSet, curtains' \subseteq Values, sets' \in 0..MaxSets,
             crossed' \in BOOLEAN, themeLost' \in BOOLEAN
      PROVE  ThemeTypeOK'
  BY <1>0, <1>t, <1>k DEF ThemeTypeOK, OptionValues, LoadSet
<1>1. CASE ToggleBehind
  <2>1. /\ curtains' = curtains \cup {toggled} /\ sets' \in 0..MaxSets
        /\ UNCHANGED <<kind, themeNow, local, server, saves, load, crossed, themeLost>>
    BY <1>1, <1>s DEF ToggleBehind
  <2>2. ThemeTypeOK'
    BY <1>0, <1>t, <2>1
  <2> QED
    BY <1>k, <2>1, <2>2 DEF ThemeInv
<1>2. CASE ToggleAtOnce
  BY <1>0, <1>2, <1>s, SetKeeps DEF ToggleAtOnce
<1>3. ASSUME NEW v \in Values, CurtainFalls(v) PROVE ThemeInv'
  BY <1>0, <1>3, SetKeeps DEF CurtainFalls
<1>4. ASSUME NEW s \in saves, SaveSettings(s) PROVE ThemeInv'
  <2>1. /\ server' = s /\ saves' = saves \ {s}
        /\ UNCHANGED <<kind, themeNow, local, curtains, load, crossed, themeLost, sets>>
    BY <1>4 DEF SaveSettings
  <2>2. ThemeTypeOK'
    BY <1>0, <1>t, <2>1
  <2>3. ~crossed => load.state = "done" /\ s = Saved(themeNow) /\ saves' = {}
    BY <2>1 DEF ThemeInv
  <2> QED
    BY <1>k, <2>1, <2>2, <2>3 DEF ThemeInv
<1>5. CASE GetSettings
  <2>1. /\ load.state = "sent" /\ load' = [state |-> "got", val |-> server]
        /\ UNCHANGED <<kind, themeNow, local, server, curtains, saves, crossed, themeLost, sets>>
    BY <1>5 DEF GetSettings
  <2>2. load' \in LoadSet
    BY <1>0, <2>1 DEF LoadSet
  <2>3. ThemeTypeOK'
    BY <1>0, <1>t, <2>1, <2>2
  <2> QED
    BY <1>k, <2>1, <2>3 DEF ThemeInv
<1>6. CASE Loaded
  <2> DEFINE v == Read(load.val, themeNow)
  <2>1. /\ load.state = "got" /\ themeNow' = v /\ local' \in {local, v}
        /\ load' = [state |-> "done", val |-> ""] /\ themeLost' = (load.val = "")
        /\ UNCHANGED <<kind, server, curtains, saves, crossed, sets>>
    BY <1>6 DEF Loaded
  <2>2. load' \in LoadSet
    BY <2>1 DEF LoadSet
  <2>3. load.val = "" \/ load.val \in OptionValues
    BY <1>0 DEF LoadSet
  <2>4. v \in Values
    <3>1. "" \notin Values
      BY DEF Values
    <3>2. load.val = "" => v \in {themeNow, "on"} /\ (kind = "theme" => v = themeNow)
      BY <3>1 DEF Read
    <3>3. kind = "bg" => "on" \in Values
      BY DEF Values
    <3> QED
      BY <1>0, <2>3, <3>2, <3>3, SavedRead
  <2>5. ThemeTypeOK'
    BY <1>0, <1>t, <2>1, <2>2, <2>4
  <2>6. ~crossed => load.val \in {server, ""} /\ saves = {}
    BY <2>1 DEF ThemeInv
  <2>7. ~crossed /\ ~themeLost' => Saved(v) = server
    BY <1>0, <2>1, <2>6, SavedRead
  <2>8. Saved(themeNow)' = Saved(v)
    BY <2>1 DEF Saved
  <2> QED
    BY <2>1, <2>5, <2>6, <2>7, <2>8 DEF ThemeInv
<1>7. CASE ReloadPage
  <2>1. /\ sets' \in 0..MaxSets /\ themeNow' = Stored /\ load' = [state |-> "sent", val |-> ""]
        /\ curtains' = {} /\ crossed' = (crossed \/ saves # {}) /\ UNCHANGED <<kind, local, server, saves, themeLost>>
    BY <1>7, <1>s DEF ReloadPage
  <2>2. load' \in LoadSet
    BY <2>1 DEF LoadSet
  <2>3. Stored \in Values /\ crossed' \in BOOLEAN
    BY <1>0, <2>1, ValuesThere DEF Stored
  <2>4. ThemeTypeOK'
    BY <1>0, <1>t, <2>1, <2>2, <2>3
  <2>5. ~crossed' => saves = {}
    BY <2>1
  <2> QED
    BY <2>1, <2>4, <2>5 DEF ThemeInv
<1>8. ASSUME NEW s \in saves, LoseSave(s) PROVE ThemeInv'
  <2>1. /\ saves' = saves \ {s} /\ themeLost' = TRUE
        /\ UNCHANGED <<kind, themeNow, local, server, curtains, load, crossed, sets>>
    BY <1>8 DEF LoseSave
  <2>2. ThemeTypeOK'
    BY <1>0, <1>t, <2>1
  <2> QED
    BY <1>k, <2>1, <2>2 DEF ThemeInv
<1>9. CASE LoseLoad
  <2>1. /\ load.state = "sent" /\ load' = [state |-> "got", val |-> ""] /\ themeLost' = TRUE
        /\ UNCHANGED <<kind, themeNow, local, server, curtains, saves, crossed, sets>>
    BY <1>9 DEF LoseLoad
  <2>2. load' \in LoadSet
    BY <1>0, <2>1 DEF LoadSet
  <2>3. ThemeTypeOK'
    BY <1>0, <1>t, <2>1, <2>2
  <2> QED
    BY <1>k, <2>1, <2>3 DEF ThemeInv
<1>10. CASE UNCHANGED themeVars
  <2>1. UNCHANGED <<kind, themeNow, local, server, curtains, saves, load, crossed, themeLost, sets>>
    BY <1>10 DEF themeVars
  <2>2. ThemeTypeOK'
    BY <1>0, <1>t, <2>1
  <2> QED
    BY <1>k, <2>1, <2>2 DEF ThemeInv
<1> QED
  BY <1>1, <1>2, <1>3, <1>4, <1>5, <1>6, <1>7, <1>8, <1>9, <1>10 DEF ThemeNext

LEMMA ThemeImplies == ThemeInv => SettingKept
<1> SUFFICES ASSUME ThemeInv, load.state = "done", saves = {}, ~crossed, ~themeLost
             PROVE themeNow = Read(server, Stored)
  BY DEF SettingKept
<1>1. server = Saved(themeNow) /\ kind \in {"theme", "bg"} /\ themeNow \in Values
  BY DEF ThemeInv, ThemeTypeOK
<1> QED
  BY <1>1, SavedRead

-----------------------------------------------------------------------------
(* The logs                                                                *)

LEMMA WiderSeq == ASSUME NEW S, NEW T, S \subseteq T, NEW s \in Seq(S) PROVE s \in Seq(T)
<1>1. s \in [1..Len(s) -> S] /\ Len(s) \in Nat
  OBVIOUS
<1>2. s \in [1..Len(s) -> T]
  BY <1>1
<1> QED
  BY <1>1, <1>2

LEMMA LastOnes ==
    ASSUME NEW S, NEW s \in Seq(S), NEW n \in Nat
    PROVE  /\ LastN(s, n) \in Seq(S) /\ Len(LastN(s, n)) <= n
           /\ Len(s) <= n => LastN(s, n) = s
<1>1. Len(s) \in Nat
  OBVIOUS
<1>2. CASE Len(s) > n
  <2>1. LastN(s, n) = SubSeq(s, Len(s) - n + 1, Len(s))
    BY <1>2 DEF LastN
  <2> QED
    BY <1>1, <1>2, <2>1
<1>3. CASE ~(Len(s) > n)
  <2>1. LastN(s, n) = SubSeq(s, 1, Len(s))
    BY <1>3 DEF LastN
  <2>2. SubSeq(s, 1, Len(s)) = s
    OBVIOUS
  <2> QED
    BY <1>1, <1>3, <2>1, <2>2
<1> QED
  BY <1>2, <1>3

\* What get_log serves are lines of the log.
LEMMA ContentTyped == RingInv => Content \in Seq(Int)
<1> SUFFICES ASSUME RingInv PROVE Content \in Seq(Int)
  OBVIOUS
<1>1. log \in Seq(Int) /\ mark \in Nat
  <2>1. log \in Seq(1..logged) /\ 1..logged \subseteq Int /\ mark \in Nat
    BY DEF RingInv
  <2> QED
    BY <2>1, WiderSeq
<1>2. Skip \in Nat /\ Skip <= Len(log)
  BY <1>1 DEF Skip
<1>3. SubSeq(log, Skip + 1, Len(log)) \in Seq(Int)
  BY <1>1, <1>2
<1>4. Tailed \in Seq(Int)
  <2>1. LastN(log, Window) \in Seq(Int)
    BY <1>1, LastOnes, LogAssumption
  <2>2. <<Torn>> \in Seq(Int)
    BY DEF Torn
  <2>3. <<Torn>> \o LastN(log, Window) \in Seq(Int)
    BY <2>1, <2>2
  <2> QED
    BY <1>1, <2>3 DEF Tailed
<1> QED
  BY <1>1, <1>3, <1>4 DEF Content

\* A clear covers the lines that are there, and covers them all.
LEMMA ClearedKeeps == ASSUME RingInv, Cleared, UNCHANGED app PROVE RingInv'
<1>0. /\ log \in Seq(1..logged) /\ logged \in Nat /\ mark \in Nat
      /\ app # "kiwi" => mark = 0
      /\ app = "kiwi" => Len(log) <= Ring
  BY DEF RingInv
<1>1. cleared' = logged /\ rotated' = FALSE /\ logged' = logged
  BY DEF Cleared
<1>2. CASE app = "kiwi"
  <2>1. mark' = Len(log) /\ log' = log
    BY <1>2 DEF Cleared
  <2>2. \A i \in 1..Len(log) : log[i] <= logged
    BY <1>0
  <2> QED
    BY <1>0, <1>1, <1>2, <2>1, <2>2 DEF RingInv
<1>3. CASE app # "kiwi"
  <2>1. log' = <<>> /\ mark' = 0
    BY <1>0, <1>3 DEF Cleared
  <2> QED
    BY <1>0, <1>1, <1>3, <2>1 DEF RingInv
<1> QED
  BY <1>2, <1>3

\* As long as the ring has not turned, a new line is added behind the others.
LEMMA LogLineKeeps == ASSUME RingInv, LogLine PROVE RingInv'
<1>0. /\ log \in Seq(1..logged) /\ logged \in Nat /\ mark \in Nat /\ cleared \in 0..logged
      /\ app # "kiwi" => mark = 0
      /\ app = "kiwi" => Len(log) <= Ring
      /\ ~rotated => mark <= Len(log) /\ \A i \in 1..Len(log) : i <= mark => log[i] <= cleared
  BY DEF RingInv
<1>1. /\ logged' = logged + 1 /\ UNCHANGED <<app, mark, cleared>>
      /\ log' = IF app = "kiwi" THEN LastN(Append(log, logged'), Ring) ELSE Append(log, logged')
      /\ rotated' = (rotated \/ (app = "kiwi" /\ Len(log) = Ring))
  BY DEF LogLine
<1> DEFINE s == Append(log, logged')
<1>2. s \in Seq(1..logged') /\ Len(s) = Len(log) + 1 /\ \A i \in 1..Len(log) : s[i] = log[i]
  <2>1. log \in Seq(1..logged')
    <3>1. 1..logged \subseteq 1..logged'
      BY <1>0, <1>1
    <3> QED
      BY <1>0, <3>1, WiderSeq
  <2>2. logged' \in 1..logged'
    BY <1>0, <1>1
  <2> QED
    BY <1>0, <2>1, <2>2
<1> HIDE DEF s
<1>3. Ring \in Nat
  BY LogAssumption
<1>4. LastN(s, Ring) \in Seq(1..logged') /\ Len(LastN(s, Ring)) <= Ring /\ (Len(s) <= Ring => LastN(s, Ring) = s)
  BY <1>2, <1>3, LastOnes
<1>5. log' \in Seq(1..logged') /\ (app = "kiwi" => Len(log') <= Ring)
  BY <1>1, <1>2, <1>4 DEF s
<1>6. ~rotated' => ~rotated /\ log' = s
  <2>1. ~rotated' => ~rotated /\ ~(app = "kiwi" /\ Len(log) = Ring)
    BY <1>1
  <2>2. CASE app = "kiwi"
    <3>1. Len(log) # Ring => Len(s) <= Ring
      BY <1>0, <1>2, <1>3, <2>2
    <3>2. log' = LastN(s, Ring)
      BY <1>1, <2>2 DEF s
    <3> QED
      BY <1>4, <2>1, <2>2, <3>1, <3>2
  <2>3. CASE app # "kiwi"
    BY <1>1, <2>1, <2>3 DEF s
  <2> QED
    BY <2>2, <2>3
<1>7. ~rotated' => mark' <= Len(log') /\ \A i \in 1..Len(log') : i <= mark' => log'[i] <= cleared'
  <2> SUFFICES ASSUME ~rotated' PROVE mark <= Len(s) /\ \A i \in 1..Len(s) : i <= mark => s[i] <= cleared
    BY <1>1, <1>6
  <2>1. mark <= Len(log) /\ \A i \in 1..Len(log) : i <= mark => log[i] <= cleared
    BY <1>0, <1>6
  <2>2. mark <= Len(s)
    BY <1>0, <1>2, <2>1
  <2>3. ASSUME NEW i \in 1..Len(s), i <= mark PROVE s[i] <= cleared
    <3>1. i \in 1..Len(log)
      BY <1>0, <1>2, <2>1, <2>3
    <3>2. s[i] = log[i] /\ log[i] <= cleared
      BY <1>2, <2>1, <2>3, <3>1
    <3> QED
      BY <3>2
  <2> QED
    BY <2>2, <2>3
<1>8. logged' \in Nat /\ mark' \in Nat /\ cleared' \in 0..logged' /\ (app' # "kiwi" => mark' = 0)
  BY <1>0, <1>1
<1> QED
  BY <1>1, <1>5, <1>7, <1>8 DEF RingInv

LEMMA OtherLinesKeep == ASSUME RingInv, OtherLines PROVE RingInv'
<1>1. /\ app = "kiwi" /\ log # <<>> /\ log' = Tail(log) /\ rotated' = TRUE
      /\ UNCHANGED <<app, logged, mark, cleared>>
  BY DEF OtherLines
<1>2. log \in Seq(1..logged) /\ Len(log) <= Ring /\ Ring \in Nat
  BY <1>1, LogAssumption DEF RingInv
<1>3. log' \in Seq(1..logged) /\ Len(log') <= Ring
  BY <1>1, <1>2
<1> QED
  BY <1>1, <1>3 DEF RingInv

\* A new line is in what the plugin serves.
LEMMA RingServes == RingInv => NewLinesServed
<1> SUFFICES ASSUME RingInv, ~rotated, NEW i \in DOMAIN log, log[i] > cleared,
                    app = "sheep" => i + Window > Len(log)
             PROVE  \E j \in DOMAIN Content : Content[j] = log[i]
  BY DEF NewLinesServed
<1>0. /\ log \in Seq(1..logged) /\ logged \in Nat /\ mark \in Nat /\ mark <= Len(log) /\ cleared \in 0..logged
      /\ \A k \in 1..Len(log) : k <= mark => log[k] <= cleared
      /\ i \in 1..Len(log) /\ Len(log) \in Nat /\ log[i] \in 1..logged
  BY DEF RingInv
<1>1. i > mark
  BY <1>0
<1>2. Skip \in Nat /\ Skip <= mark
  BY <1>0 DEF Skip
<1>3. CASE app = "kiwi"
  <2>1. Content = SubSeq(log, Skip + 1, Len(log))
    BY <1>3 DEF Content
  <2> DEFINE k == Skip
  <2> HIDE DEF k
  <2>2. k \in Nat /\ k < i /\ Content = SubSeq(log, k + 1, Len(log))
    BY <1>0, <1>1, <1>2, <2>1 DEF k
  <2>3. Len(Content) = Len(log) - k /\ DOMAIN Content = 1..Len(log) - k
    BY <1>0, <2>2
  <2>4. i - k \in 1..Len(log) - k
    BY <1>0, <2>2
  <2>5. Content[i - k] = log[i]
    <3>1. \A m \in 1..Len(log) - k : Content[m] = log[m + k]
      BY <1>0, <2>2
    <3>2. i - k + k = i
      BY <1>0, <2>2
    <3> QED
      BY <2>4, <3>1, <3>2
  <2> QED
    BY <2>3, <2>4, <2>5
<1>4. CASE app \notin {"kiwi", "sheep"} \/ (app = "sheep" /\ ~(Len(log) > Window))
  <2>1. Content = log
    BY <1>0, <1>4, LogAssumption DEF Content, Tailed
  <2> QED
    BY <2>1
<1>5. CASE app = "sheep" /\ Len(log) > Window
  <2>1. Content = <<Torn>> \o LastN(log, Window)
    BY <1>5 DEF Content, Tailed
  <2> DEFINE k == Len(log) - Window
             t == SubSeq(log, k + 1, Len(log))
  <2>2. LastN(log, Window) = t
    BY <1>5 DEF LastN
  <2>3. k \in Nat /\ k < i /\ i <= Len(log) /\ Window \in Nat /\ Len(log) - k = Window
    BY <1>0, <1>5, LogAssumption
  <2> HIDE DEF k
  <2>4. t \in Seq(Nat) /\ Len(t) = Window /\ \A m \in 1..Window : t[m] = log[m + k]
    BY <1>0, <2>3
  <2>5. i - k \in 1..Window /\ i - k + k = i
    BY <1>0, <2>3
  <2>6. t[i - k] = log[i]
    BY <2>4, <2>5
  <2> HIDE DEF t
  <2>7. Content = <<Torn>> \o t
    BY <2>1, <2>2
  <2>8. /\ DOMAIN Content = 1..1 + Window
        /\ \A m \in 1..Window : Content[1 + m] = t[m]
    BY <2>3, <2>4, <2>7
  <2>9. 1 + (i - k) \in DOMAIN Content
    BY ONLY <2>3, <2>5, <2>8, LogAssumption
  <2> QED
    BY <2>5, <2>6, <2>8, <2>9
<1> QED
  BY <1>3, <1>4, <1>5

LEMMA LogTyped == LogInv => LogTypeOK
BY DEF LogInv, LogTypeOK, PageTyped, AskedSet

LEMMA LogStart == LogInit => LogInv
<1> SUFFICES ASSUME LogInit PROVE PageTyped /\ RingInv /\ ShownIsView
  BY DEF LogInv
<1>1. FALSE \in BOOLEAN /\ TRUE \in BOOLEAN /\ <<>> \in Seq(Int) /\ Len(<<>>) = 0
  OBVIOUS
<1>2. [state |-> "no", text |-> <<>>] \in AskedSet /\ [state |-> "sent", text |-> <<>>] \in AskedSet
  BY <1>1 DEF AskedSet
<1>3. asked \in [Slots -> AskedSet]
  BY <1>2 DEF LogInit, Nothing
<1>4. bar \in [paused : BOOLEAN, reverse : BOOLEAN, search : BOOLEAN]
  BY <1>1 DEF LogInit
<1>5. Len(lines) <= MaxLines /\ acts \in 0..MaxActs /\ lines \in Seq(Int) /\ clear = "no"
  BY <1>1, LogAssumption DEF LogInit
<1>6. PageTyped
  BY <1>3, <1>4, <1>5 DEF PageTyped
<1>7. RingInv
  <2>1. log = <<1, 2>> /\ logged = 2 /\ mark = 0 /\ cleared = 0 /\ rotated = FALSE /\ Ring >= 2 /\ Ring \in Nat
    BY LogAssumption DEF LogInit
  <2>2. log \in Seq(1..logged) /\ Len(log) = 2
    BY <2>1
  <2> QED
    BY <2>1, <2>2 DEF RingInv
<1>8. ShownIsView
  BY DEF LogInit, ShownIsView
<1> QED
  BY <1>6, <1>7, <1>8

\* The renderers of the three pages show the same.
LEMMA RenderIs == render => shown' = View(lines', bar')
BY DEF render, KiwiRender, PandaRender, SheepRender

LEMMA PiecesTyped == ASSUME NEW t \in Seq(Int) PROVE Pieces(t) \in Seq(Int) /\ Len(Pieces(t)) <= MaxLines
<1>1. Append(t, Blank) \in Seq(Int) /\ MaxLines \in Nat
  BY LogAssumption DEF Blank
<1> QED
  BY <1>1, LastOnes DEF Pieces

LEMMA PressKeeps ==
    ASSUME LogInv, UNCHANGED lines, NEW b \in [paused : BOOLEAN, reverse : BOOLEAN, search : BOOLEAN], Press(b)
    PROVE  LogInv'
<1>1. /\ Act /\ bar' = b /\ (IF b.paused /\ ~bar.paused THEN UNCHANGED shown ELSE render)
      /\ UNCHANGED <<app, log, logged, mark, cleared, rotated, asked, clear>>
  BY DEF Press, routerLog
<1>2. PageTyped /\ RingInv
  BY DEF LogInv
<1>3. acts' \in 0..MaxActs
  BY <1>1, <1>2, LogAssumption DEF Act, PageTyped
<1>4. PageTyped' /\ RingInv'
  BY <1>1, <1>2, <1>3 DEF PageTyped, RingInv
<1>5. ShownIsView'
  BY <1>1, RenderIs DEF ShownIsView
<1> QED
  BY <1>4, <1>5 DEF LogInv

LEMMA ToolbarKeeps == ASSUME LogInv, Toolbar PROVE LogInv'
<1> DEFINE Bars == [paused : BOOLEAN, reverse : BOOLEAN, search : BOOLEAN]
<1>1. bar \in Bars
  BY DEF LogInv, PageTyped
<1>2. (~bar.search) \in BOOLEAN /\ (~bar.reverse) \in BOOLEAN /\ (~bar.paused) \in BOOLEAN
  OBVIOUS
<1>3. \A c \in Bars, x \in BOOLEAN :
         [c EXCEPT !.search = x] \in Bars /\ [c EXCEPT !.reverse = x] \in Bars /\ [c EXCEPT !.paused = x] \in Bars
  OBVIOUS
<1>4. /\ [bar EXCEPT !.search = ~bar.search] \in Bars /\ [bar EXCEPT !.reverse = ~bar.reverse] \in Bars
      /\ [bar EXCEPT !.paused = ~bar.paused] \in Bars
  <2> HIDE DEF Bars
  <2> QED
    BY <1>1, <1>2, <1>3, Zenon
<1>5. /\ UNCHANGED lines
      /\ \/ Press([bar EXCEPT !.search = ~bar.search]) \/ Press([bar EXCEPT !.reverse = ~bar.reverse])
         \/ Press([bar EXCEPT !.paused = ~bar.paused])
  BY DEF Toolbar
<1> HIDE DEF Bars
<1>6. ASSUME NEW b \in Bars, Press(b) PROVE LogInv'
  BY <1>5, <1>6, PressKeeps DEF Bars
<1> QED
  BY <1>4, <1>5, <1>6, Zenon

LEMMA HandledKeeps == ASSUME LogInv, NEW s \in Slots, Handled(s) PROVE LogInv'
<1>1. /\ UNCHANGED <<app, log, logged, mark, cleared, rotated, bar, clear, acts>>
      /\ asked' = [asked EXCEPT ![s] = Nothing]
  BY DEF Handled, routerLog
<1>2. PageTyped /\ RingInv /\ ShownIsView
  BY DEF LogInv
<1>3. asked' \in [Slots -> AskedSet]
  <2>1. Nothing \in AskedSet
    BY DEF Nothing, AskedSet
  <2> QED
    BY <1>1, <1>2, <2>1 DEF PageTyped
<1>4. lines' \in Seq(Int) /\ Len(lines') <= MaxLines
  <2>1. CASE asked[s].state = "got" /\ lines' = Pieces(asked[s].text)
    <3>1. asked[s].text \in Seq(Int)
      BY <1>2 DEF PageTyped, AskedSet
    <3> QED
      BY <2>1, <3>1, PiecesTyped
  <2>2. CASE lines' = <<Note>>
    BY <2>2, LogAssumption DEF Note
  <2> QED
    BY <2>1, <2>2 DEF Handled, Take
<1>5. RingInv'
  BY <1>1, <1>2 DEF RingInv
<1>6. ShownIsView'
  <2>1. bar.paused \/ render
    BY DEF Handled, Take
  <2> QED
    BY <1>1, <2>1, RenderIs DEF ShownIsView
<1>7. PageTyped'
  BY <1>1, <1>2, <1>3, <1>4 DEF PageTyped
<1> QED
  BY <1>5, <1>6, <1>7 DEF LogInv

LEMMA AskingKeeps ==
    ASSUME LogInv, UNCHANGED <<app, log, logged, mark, cleared, rotated, lines, shown, bar>>,
           asked' \in [Slots -> AskedSet], clear' \in {"no", "sent", "ok", "refused", "exec", "failed"},
           acts' = acts \/ Act
    PROVE  LogInv'
<1>1. acts' \in 0..MaxActs
  BY LogAssumption DEF Act, LogInv, PageTyped
<1> QED
  BY <1>1 DEF LogInv, PageTyped, RingInv, ShownIsView

\* The button's answer: the lines of the page go, or a failure is reported.
LEMMA EmptiedKeeps ==
    ASSUME LogInv, NEW ls \in {<<>>, <<Note>>}, Emptied(ls)
    PROVE  LogInv'
<1>1. /\ clear' = "no" /\ lines' = ls /\ bar' = bar /\ render
      /\ UNCHANGED <<app, log, logged, mark, cleared, rotated, asked, acts>>
  BY DEF Emptied, routerLog
<1>2. lines' \in Seq(Int) /\ Len(lines') <= MaxLines
  <2>1. CASE ls = <<>>
    BY <1>1, <2>1, LogAssumption
  <2>2. CASE ls = <<Note>>
    BY <1>1, <2>2, LogAssumption DEF Note
  <2> QED
    BY <2>1, <2>2
<1>3. PageTyped' /\ RingInv'
  BY <1>1, <1>2 DEF LogInv, PageTyped, RingInv
<1>4. ShownIsView'
  BY <1>1, RenderIs DEF ShownIsView
<1> QED
  BY <1>3, <1>4 DEF LogInv

LEMMA ClearingKeeps == ASSUME LogInv, KiwiClear \/ PandaClear \/ SheepClear \/ clearLog \/ ClearFails PROVE LogInv'
<1> DEFINE Clears == {"no", "sent", "ok", "refused", "exec", "failed"}
<1>0. asked \in [Slots -> AskedSet] /\ RingInv /\ ShownIsView
  BY DEF LogInv, PageTyped
<1>1. ASSUME NEW ls \in {<<>>, <<Note>>}, Emptied(ls) PROVE LogInv'
  BY <1>1, EmptiedKeeps
<1>2. ASSUME UNCHANGED <<app, routerLog, lines, shown, bar, asked>>, clear' \in Clears, acts' = acts \/ Act
      PROVE  LogInv'
  BY <1>0, <1>2, AskingKeeps DEF routerLog
<1>3. ASSUME Cleared, UNCHANGED <<app, lines, shown, bar, asked, acts>>, clear' = "ok" PROVE LogInv'
  <2>1. RingInv'
    BY <1>0, <1>3, ClearedKeeps
  <2>2. PageTyped' /\ ShownIsView'
    BY <1>3 DEF LogInv, PageTyped, ShownIsView
  <2> QED
    BY <2>1, <2>2 DEF LogInv
<1>4. CASE KiwiClear
  BY <1>1, <1>2, <1>4 DEF KiwiClear, Reported, routerLog
<1>5. CASE SheepClear
  BY <1>1, <1>2, <1>5 DEF SheepClear, Reported, routerLog
<1>6. CASE PandaClear
  BY <1>1, <1>2, <1>3, <1>6 DEF PandaClear, Reported, routerLog
<1>7. CASE clearLog
  BY <1>3, <1>7 DEF clearLog
<1>8. CASE ClearFails
  BY <1>2, <1>8 DEF ClearFails, routerLog
<1> QED
  BY <1>4, <1>5, <1>6, <1>7, <1>8

LEMMA LogStep == LogInv /\ [LogNext]_logVars => LogInv'
<1> SUFFICES ASSUME LogInv, [LogNext]_logVars PROVE LogInv'
  OBVIOUS
<1>0. /\ asked \in [Slots -> AskedSet] /\ RingInv /\ PageTyped /\ ShownIsView
      /\ clear \in {"no", "sent", "ok", "refused", "exec", "failed"} /\ "poll" \in Slots
  BY DEF LogInv, PageTyped, Slots
<1>1. CASE LogLine
  <2>1. RingInv'
    BY <1>0, <1>1, LogLineKeeps
  <2> QED
    BY <1>0, <1>1, <2>1 DEF LogLine, LogInv, PageTyped, ShownIsView
<1>2. CASE OtherLines
  <2>1. RingInv'
    BY <1>0, <1>2, OtherLinesKeep
  <2>2. acts' \in 0..MaxActs /\ UNCHANGED <<lines, shown, bar, asked, clear>>
    BY <1>0, <1>2, LogAssumption DEF OtherLines, Act, PageTyped
  <2> QED
    BY <1>0, <2>1, <2>2 DEF LogInv, PageTyped, ShownIsView
<1>3. CASE Ask
  <2>1. asked' \in [Slots -> AskedSet]
    <3>1. [asked["poll"] EXCEPT !.state = "sent"] \in AskedSet
      BY <1>0 DEF AskedSet
    <3> QED
      BY <1>0, <1>3, <3>1 DEF Ask
  <2> QED
    BY <1>0, <1>3, <2>1, AskingKeeps DEF Ask, routerLog
<1>4. ASSUME NEW s \in Slots, getLog(s) PROVE LogInv'
  <2>1. asked' \in [Slots -> AskedSet]
    <3>1. [state |-> "got", text |-> Content] \in AskedSet
      BY <1>0, ContentTyped DEF AskedSet
    <3> QED
      BY <1>0, <1>4, <3>1 DEF getLog
  <2> QED
    BY <1>0, <1>4, <2>1, AskingKeeps DEF getLog, routerLog
<1>5. ASSUME NEW s \in Slots, LogFails(s) PROVE LogInv'
  <2>1. asked' \in [Slots -> AskedSet]
    <3>1. [asked[s] EXCEPT !.state = "bad"] \in AskedSet
      BY <1>0 DEF AskedSet
    <3>2. [state |-> "got", text |-> <<>>] \in AskedSet
      <4>1. <<>> \in Seq(Int)
        OBVIOUS
      <4> QED
        BY <4>1 DEF AskedSet
    <3>3. asked' = [asked EXCEPT ![s] = [asked[s] EXCEPT !.state = "bad"]]
          \/ asked' = [asked EXCEPT ![s] = [state |-> "got", text |-> <<>>]]
      BY <1>5 DEF LogFails
    <3> QED
      BY <1>0, <3>1, <3>2, <3>3
  <2> QED
    BY <1>0, <1>5, <2>1, AskingKeeps DEF LogFails, routerLog
<1>6. CASE PressClear
  BY <1>0, <1>6, AskingKeeps DEF PressClear, routerLog
<1>7. CASE KiwiToolbar \/ PandaToolbar \/ SheepToolbar
  BY <1>7, ToolbarKeeps DEF KiwiToolbar, PandaToolbar, SheepToolbar
<1>8. CASE KiwiPoll \/ PandaPoll \/ SheepPoll
  BY <1>0, <1>8, HandledKeeps DEF KiwiPoll, PandaPoll, SheepPoll
<1>9. CASE KiwiClear \/ PandaClear \/ SheepClear \/ clearLog \/ ClearFails
  BY <1>9, ClearingKeeps
<1>10. CASE UNCHANGED logVars
  BY <1>0, <1>10, AskingKeeps DEF logVars
<1> QED
  BY <1>1, <1>2, <1>3, <1>4, <1>5, <1>6, <1>7, <1>8, <1>9, <1>10 DEF LogNext

LEMMA LogImplies == LogInv => ScreenTrue
BY RingServes DEF LogInv, ScreenTrue

\* What a paused page shows changes with a click, with the clear button's answer or with
\* a failure.
LEMMA PausedStep ==
    ASSUME LogInv, [LogNext]_logVars, bar.paused, bar'.paused, shown' # shown
    PROVE  acts' # acts \/ clear' # clear \/ lines' = <<Note>>
<1>1. Act => acts' # acts
  BY DEF LogInv, PageTyped, Act
<1>2. CASE LogLine \/ OtherLines \/ clearLog \/ ClearFails \/ Ask \/ PressClear \/ UNCHANGED logVars
  BY <1>2 DEF LogLine, OtherLines, clearLog, ClearFails, Ask, PressClear, logVars
<1>3. ASSUME NEW s \in Slots, getLog(s) \/ LogFails(s) PROVE FALSE
  BY <1>3 DEF getLog, LogFails
<1>4. CASE KiwiToolbar \/ PandaToolbar \/ SheepToolbar
  BY <1>1, <1>4 DEF KiwiToolbar, PandaToolbar, SheepToolbar, Toolbar, Press
<1>5. CASE KiwiPoll \/ PandaPoll \/ SheepPoll
  BY <1>5 DEF KiwiPoll, PandaPoll, SheepPoll, Handled, Take
<1>6. CASE KiwiClear \/ PandaClear \/ SheepClear
  BY <1>6 DEF KiwiClear, PandaClear, SheepClear, Emptied, Reported
<1> QED
  BY <1>2, <1>3, <1>4, <1>5, <1>6 DEF LogNext

-----------------------------------------------------------------------------
(* The pages together                                                      *)

\* What holds in every state of the pages, whichever is open.
AllInv == PagesInvariant /\ ColorInv /\ MenuInv /\ focus \in Machines

LEMMA AllStart == Init => AllInv
BY MachineInits, DotStart, PanelStart, ThemeStart, LogStart, WifiStart, WispStart, StepStart, WizStart,
   ColorStart, MenuInitInv DEF AllInv, PagesInvariant

LEMMA AllStep == AllInv /\ [Next]_pageMachines => AllInv'
<1> SUFFICES ASSUME AllInv, [Next]_pageMachines PROVE AllInv'
  OBVIOUS
<1>1. focus' = focus
  BY DEF Next, Only, pageMachines
<1>2. PagesInvariant'
  BY MachineSteps, DotStep, PanelStep, ThemeStep, LogStep, WifiStep, WispStep, StepStep, WizStep
  DEF AllInv, PagesInvariant
<1>3. ColorInv' /\ MenuInv'
  BY MachineSteps, ColorStep, MenuStepInv DEF AllInv
<1> QED
  BY <1>1, <1>2, <1>3 DEF AllInv, Machines

LEMMA AlwaysAll == Spec => []AllInv
BY AllStart, AllStep, PTL DEF Spec

\* Every machine of the pages takes only values of its kind, for any bounds.
THEOREM PagesTypeCorrect == Spec => []PagesTypeOK
<1>1. AllInv => PagesTypeOK
  BY LogTyped DEF AllInv, PagesInvariant, PagesTypeOK, DotInv, PanelInv, ThemeInv, ColorInv, MenuInv, WifiInv,
     WifiTypeInv, WispInv, StepInv, StepTypeInv, WizInv
<1> QED
  BY <1>1, AlwaysAll, PTL

\* Once frames, timers, loads and saves are through, the colour panel is as the last click
\* left it, and the next page starts with the theme and the background of this one
\* (lucky/common.js: initColorPanel, theme, bg).
THEOREM AppearanceObeys == Spec => []AppearanceSettles
<1>1. AllInv => AppearanceSettles
  BY PanelImplies, ThemeImplies DEF AllInv, PagesInvariant, AppearanceSettles
<1> QED
  BY <1>1, AlwaysAll, PTL

\* A log page shows what it holds, and the router serves every new line until its ring
\* turns (log.js of kiwi, panda and sheep, and get_log of the plugins).
THEOREM LogsTrue == Spec => []ScreenTrue
<1>1. AllInv => ScreenTrue
  BY LogImplies DEF AllInv, PagesInvariant
<1> QED
  BY <1>1, AlwaysAll, PTL

\* A paused screen stays until its user acts or something fails.
THEOREM PausedStays == Spec => PausedStill
<1>1. AllInv /\ [Next]_pageMachines =>
         [bar.paused /\ bar'.paused /\ shown' # shown
          => acts' # acts \/ clear' # clear \/ lines' = <<Note>>]_logVars
  BY MachineSteps, PausedStep DEF AllInv, PagesInvariant
<1> QED
  BY <1>1, AlwaysAll, PTL DEF Spec, PausedStill

\* The pages implement the machines that were specified alone: what holds of colours and
\* menus there holds of every behaviour here.
THEOREM ColorsAndMenus == Spec => ColorSpec /\ MenuSpec
<1>1. Init => ColorInit /\ MenuInit
  BY MachineInits
<1>2. [Next]_pageMachines => [ColorNext]_colorVars /\ [MenuNext]_menuVars
  BY MachineSteps
<1> QED
  BY <1>1, <1>2, PTL DEF Spec, ColorSpec, MenuSpec
=============================================================================

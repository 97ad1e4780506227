-------------------------- MODULE NetwizForms_proofs --------------------------
(***************************************************************************)
(* The forms of the NetWiz page, proved for any number of clicks: relay,   *)
(* wizard, steps and radio form, each as the only one that moves.          *)
(***************************************************************************)
EXTENDS PagesInv, TLAPS

-----------------------------------------------------------------------------
(* One machine at a time                                                   *)

\* Every step of the pages is a step of each machine, or none: they share no state.
LEMMA MachineSteps ==
    ASSUME [Next]_pageMachines
    PROVE  /\ [DotNext]_dotVars /\ [PanelNext]_panelVars /\ [ThemeNext]_themeVars
           /\ [ColorNext]_colorVars /\ [LogNext]_logVars /\ [MenuNext]_menuVars
           /\ [WifiNext]_wifiVars /\ [WispNext]_wispVars /\ [StepNext]_stepVars /\ [WizNext]_wizVars
BY DEF Next, Only, Rest, pageMachines

\* A behaviour of the pages begins with a first state of every machine.
LEMMA MachineInits ==
    ASSUME Init
    PROVE  /\ DotInit /\ PanelInit /\ ThemeInit /\ ColorInit /\ LogInit /\ MenuInit
           /\ WifiInit /\ WispInit /\ StepInit /\ WizInit /\ focus \in Machines
BY DEF Init

-----------------------------------------------------------------------------
(* The relay                                                               *)

RelaySet == [on : BOOLEAN, net : Networks \cup {NoNet}, enc : {"none", "psk2", "sae-mixed"},
             key : Networks \cup {NoNet}, device : Radios]

\* The fields belong to one network.
OneNetwork(r) ==
    r.net # NoNet =>
        /\ r.net \in Hears(r.device) /\ r.enc = EncOf(r.net)
        /\ r.enc = "none" => r.key = NoNet

LEMMA KeptWhole == \A k \in Kept : k \in RelaySet /\ OneNetwork(k)
<1>1. ASSUME NEW k \in Kept PROVE k \in RelaySet
  <2>1. ASSUME NEW b \in BOOLEAN, NEW n \in Networks \cup {NoNet}
        PROVE  [on |-> b, net |-> n, enc |-> "psk2", key |-> n, device |-> "radio0"] \in RelaySet
    BY DEF RelaySet, Radios
  <2>2. FALSE \in BOOLEAN /\ TRUE \in BOOLEAN /\ {"wpa2", NoNet} \subseteq Networks \cup {NoNet}
    BY DEF Networks
  <2>3. [on |-> FALSE, net |-> NoNet, enc |-> "psk2", key |-> NoNet, device |-> "radio0"] \in RelaySet
    BY <2>1, <2>2, Zenon
  <2>4. [on |-> TRUE, net |-> "wpa2", enc |-> "psk2", key |-> "wpa2", device |-> "radio0"] \in RelaySet
    BY <2>1, <2>2, Zenon
  <2> QED
    BY <2>3, <2>4, Zenon DEF Kept
<1>2. \A k \in Kept : OneNetwork(k)
  BY DEF Kept, OneNetwork, NoNet, Hears, EncOf
<1> QED
  BY <1>1, <1>2

\* The switch of the relay is no part of the network.
LEMMA SwitchWhole ==
    ASSUME NEW r \in RelaySet, NEW b \in BOOLEAN
    PROVE  [r EXCEPT !.on = b] \in RelaySet /\ (OneNetwork(r) => OneNetwork([r EXCEPT !.on = b]))
BY DEF RelaySet, OneNetwork

LEMMA WispParts ==
    ASSUME relay \in RelaySet, OneNetwork(relay), chips \in {1, 2}, band5 \in BOOLEAN,
           picks \in 0..MaxPicks, scan \in [state : {"no", "sent"}, device : Radios],
           found \in [open : BOOLEAN, device : Radios], refresh \in BOOLEAN
    PROVE  WispInv
BY DEF WispInv, WispTypeOK, WispWhole, RelaySet, OneNetwork

LEMMA WispStart == WispInit => WispInv
<1> SUFFICES ASSUME WispInit PROVE WispInv
  OBVIOUS
<1>1. relay \in RelaySet /\ OneNetwork(relay) /\ chips \in {1, 2} /\ picks \in 0..MaxPicks
  BY KeptWhole, WispAssumption DEF WispInit
<1>2. scan \in [state : {"no", "sent"}, device : Radios]
  BY DEF WispInit, Radios
<1>3. found \in [open : BOOLEAN, device : Radios]
  BY DEF WispInit, Radios
<1>4. band5 \in BOOLEAN /\ refresh \in BOOLEAN
  BY DEF WispInit
<1> QED
  BY <1>1, <1>2, <1>3, <1>4, WispParts

\* A click on the list writes name, encryption and radio at once.
LEMMA ChooseKeeps == ASSUME WispInv, NEW n \in Networks, Choose(n) PROVE WispInv'
<1> USE DEF WispInv, WispTypeOK, Choose, RelayAct
<1>1. relay \in RelaySet /\ EncOf(n) \in {"none", "psk2", "sae-mixed"} /\ found.device \in Radios
  BY DEF RelaySet, EncOf
<1>2. /\ relay'.net = n /\ relay'.enc = EncOf(n) /\ relay'.device = found.device
      /\ relay'.key = IF n = "open" THEN NoNet ELSE relay.key
  BY <1>1 DEF RelaySet
<1>3. EncOf(n) = "none" => n = "open"
  BY DEF EncOf
<1>4. WispWhole'
  BY <1>2, <1>3 DEF WispWhole
<1>5. relay' \in RelaySet
  <2> DEFINE k == IF n = "open" THEN NoNet ELSE relay.key
  <2>1. k \in Networks \cup {NoNet}
    BY <1>1 DEF RelaySet
  <2>2. relay' = [relay EXCEPT !.net = n, !.enc = EncOf(n), !.device = found.device, !.key = k]
    OBVIOUS
  <2> HIDE DEF k, WispInv, Choose
  <2> QED
    BY <1>1, <2>1, <2>2 DEF RelaySet
<1>6. picks' \in 0..MaxPicks
  BY WispAssumption
<1>7. found' \in [open : BOOLEAN, device : Radios]
  OBVIOUS
<1> QED
  BY <1>4, <1>5, <1>6, <1>7 DEF RelaySet

LEMMA WispStep == WispInv /\ [WispNext]_wispVars => WispInv'
<1> SUFFICES ASSUME WispInv, [WispNext]_wispVars PROVE WispInv'
  OBVIOUS
<1> USE DEF WispInv, WispTypeOK, WispWhole
<1>1. CASE ToggleRelay
  <2>1. relay \in RelaySet /\ OneNetwork(relay)
    BY DEF RelaySet, OneNetwork
  <2>2. (~relay.on) \in BOOLEAN
    OBVIOUS
  <2>3. relay' \in RelaySet /\ OneNetwork(relay')
    BY <1>1, <2>1, <2>2, SwitchWhole DEF ToggleRelay
  <2>4. picks' \in 0..MaxPicks
    BY <1>1, WispAssumption DEF ToggleRelay, RelayAct
  <2> QED
    BY <1>1, <2>3, <2>4 DEF ToggleRelay, RelaySet, OneNetwork
<1>2. CASE TypeRelayKey
  <2>1. relay.enc = "none" => relay.key = NoNet /\ relay'.key = relay.key
    BY <1>2 DEF TypeRelayKey
  <2>2. WispWhole'
    BY <1>2, <2>1 DEF TypeRelayKey
  <2>3. WispTypeOK'
    BY <1>2, WispAssumption DEF TypeRelayKey, RelayAct
  <2> QED
    BY <2>2, <2>3
<1>3. ASSUME ToggleBand5 \/ Scan \/ ScanEnds \/ ScanFails \/ CloseList \/ GoHome PROVE WispInv'
  <2>1. UNCHANGED <<chips, relay>>
    BY <1>3 DEF ToggleBand5, Scan, ScanEnds, ScanFails, CloseList, GoHome
  <2>2. picks' \in 0..MaxPicks
    BY <1>3, WispAssumption DEF ToggleBand5, Scan, ScanEnds, ScanFails, CloseList, GoHome, RelayAct
  <2>3. scan' \in [state : {"no", "sent"}, device : Radios]
    BY <1>3 DEF ToggleBand5, Scan, ScanEnds, ScanFails, CloseList, GoHome, Radios, scanDevice
  <2>4. found' \in [open : BOOLEAN, device : Radios]
    <3>1. UNCHANGED found \/ \E b \in BOOLEAN, d \in Radios : found' = [open |-> b, device |-> d]
      BY <1>3 DEF ToggleBand5, Scan, ScanEnds, ScanFails, CloseList, GoHome
    <3> QED
      BY <3>1
  <2>5. band5' \in BOOLEAN
    BY <1>3 DEF ToggleBand5, Scan, ScanEnds, ScanFails, CloseList, GoHome
  <2>6. refresh' \in BOOLEAN
    BY <1>3 DEF ToggleBand5, Scan, ScanEnds, ScanFails, CloseList, GoHome
  <2> QED
    BY <2>1, <2>2, <2>3, <2>4, <2>5, <2>6
<1>4. ASSUME NEW n \in Networks, Choose(n) PROVE WispInv'
  BY <1>4, ChooseKeeps
<1>5. ASSUME NEW k \in Kept, RelayRead(k) PROVE WispInv'
  <2>1. relay' = k \/ relay' = [relay EXCEPT !.on = FALSE]
    BY <1>5 DEF RelayRead
  <2>2. CASE relay' = k
    <3>1. relay' \in RelaySet /\ OneNetwork(relay')
      BY <2>2, KeptWhole
    <3> QED
      BY <1>5, <3>1 DEF RelayRead, RelaySet, OneNetwork
  <2>3. CASE relay' = [relay EXCEPT !.on = FALSE]
    BY <1>5, <2>3 DEF RelayRead
  <2> QED
    BY <2>1, <2>2, <2>3
<1>6. CASE UNCHANGED wispVars
  BY <1>6 DEF wispVars
<1> QED
  BY <1>1, <1>2, <1>3, <1>4, <1>5, <1>6 DEF WispNext

\* The relay that Apply sends is one network's: name, encryption and radio, whatever
\* the 5G switch, the scan and the refreshes did meanwhile (netwiz.js, 2167-2284).
THEOREM RelayWhole == Spec => []WispWhole
<1>1. Init => WispInv
  BY MachineInits, WispStart
<1>2. WispInv /\ [Next]_pageMachines => WispInv'
  BY MachineSteps, WispStep
<1>3. WispInv => WispWhole
  BY DEF WispInv
<1> QED
  BY <1>1, <1>2, <1>3, PTL DEF Spec

-----------------------------------------------------------------------------
(* The wizard                                                              *)

WizSet == [shown : BOOLEAN, step : 1..3, hide : BOOLEAN, fields : WizFields]
Bits == {"0", "1"}

LEMMA FirstFields == NoFieldsYet \in WizFields /\ NewWizard \in WizSet
<1>1. FALSE \in BOOLEAN /\ TRUE \in BOOLEAN /\ 1 \in 1..3
  OBVIOUS
<1>2. \A w \in {"dhcp", "pppoe"}, a, s, n \in BOOLEAN, p \in {"none", "short", "good"} :
         [wan |-> w, account |-> a, skip |-> s, named |-> n, pass |-> p] \in WizFields
  BY DEF WizFields
<1>3. NoFieldsYet \in WizFields
  BY <1>1, <1>2, Zenon DEF NoFieldsYet
<1>4. \A b, h \in BOOLEAN, s \in 1..3, f \in WizFields :
         [shown |-> b, step |-> s, hide |-> h, fields |-> f] \in WizSet
  BY DEF WizSet
<1> QED
  BY <1>1, <1>3, <1>4, Zenon DEF NewWizard

\* A wizard differs from a well typed one in parts that are well typed.
LEMMA ShownTyped == \A w \in WizSet, b \in BOOLEAN : [w EXCEPT !.shown = b] \in WizSet
BY DEF WizSet

LEMMA HideTyped == \A w \in WizSet, b \in BOOLEAN : [w EXCEPT !.hide = b] \in WizSet
BY DEF WizSet

LEMMA StepTyped == \A w \in WizSet, s \in 1..3 : [w EXCEPT !.step = s] \in WizSet
BY DEF WizSet

LEMMA FieldsTyped == \A w \in WizSet, f \in WizFields : [w EXCEPT !.fields = f] \in WizSet
BY DEF WizSet

LEMMA WizStart == WizInit => WizInv
<1> SUFFICES ASSUME WizInit PROVE WizInv
  OBVIOUS
<1> USE DEF WizInit
<1>1. WizTypeOK
  BY FirstFields, WizardAssumption DEF WizTypeOK, WizSet, NoJob
<1>2. StepsChecked
  BY DEF StepsChecked, NewWizard, NoJob
<1>3. Ipv6Known
  BY DEF Ipv6Known, NoJob
<1>4. WishOnItsWay
  BY DEF WishOnItsWay
<1> QED
  BY <1>1, <1>2, <1>3, <1>4 DEF WizInv

\* silentSaveWizardState adds its value to the saves at most, and remembers it.
LEMMA SaveAdds ==
    ASSUME NEW v, silentSaveWizardState(v)
    PROVE  /\ current' = v /\ wsaves' \in {wsaves, wsaves \cup {v}}
           /\ current # v => v \in wsaves'
BY DEF silentSaveWizardState

\* The clicks of the wizard that may settle the option, and those that do not.
Settling == closeWizard \/ ReopenWizard \/ WizApply
Clicks == SkipWizard \/ TickHide \/ NextFrom1 \/ NextFrom2 \/ BoxOk \/ BoxCancel \/ Previous
          \/ \E f \in WizFields : WizFill(f)
Loads == ReadOption \/ OptionLost \/ HearOption \/ StatusSent \/ StatusKnown \/ StatusMissed

\* What each kind of step leaves alone.
LEMMA ClicksLeave ==
    ASSUME Clicks
    PROVE  UNCHANGED <<router, known, status, opening, current, wsaves, job, wsent, wish, muddled, missed>>
<1>1. CASE SkipWizard \/ TickHide
  BY <1>1 DEF SkipWizard, TickHide, memory, router
<1>2. CASE NextFrom1 \/ NextFrom2 \/ BoxOk \/ BoxCancel \/ Previous
  BY <1>2 DEF NextFrom1, NextFrom2, BoxOk, BoxCancel, Previous, WizUnchanged, router
<1>3. ASSUME NEW f \in WizFields, WizFill(f)
      PROVE  UNCHANGED <<router, known, status, opening, current, wsaves, job, wsent, memory>>
  BY <1>3 DEF WizFill, memory, router
<1> QED
  BY <1>1, <1>2, <1>3 DEF Clicks, memory

LEMMA LoadsLeave ==
    ASSUME Loads
    PROVE  UNCHANGED <<router, wsaves, box, told, job, wsent, agreed, wish, muddled>>
BY DEF Loads, ReadOption, OptionLost, HearOption, StatusSent, StatusKnown, StatusMissed, memory, router

LEMMA WizTypeNext ==
    ASSUME WizTypeOK, [WizNext]_wizVars
    PROVE  WizTypeOK'
<1>0. wiz \in WizSet /\ wacts \in 0..MaxWizActs
  BY DEF WizTypeOK, WizSet
<1>w. WizAct => wacts' \in 0..MaxWizActs
  BY <1>0, WizardAssumption DEF WizAct
<1>1. CASE Loads
  <2>1. wiz' \in WizSet
    <3>1. CASE HearOption
      <4>1. (wiz.shown \/ opening = "1") \in BOOLEAN
        OBVIOUS
      <4>2. wiz' = [wiz EXCEPT !.shown = (wiz.shown \/ opening = "1")]
        BY <3>1 DEF HearOption
      <4> QED
        BY <1>0, <4>1, <4>2, ShownTyped, Zenon
    <3>2. CASE ~HearOption
      BY <1>0, <1>1, <3>2
         DEF Loads, ReadOption, OptionLost, StatusSent, StatusKnown, StatusMissed
    <3> QED
      BY <3>1, <3>2
  <2>2. wacts' \in 0..MaxWizActs
    BY <1>0, <1>w, <1>1
       DEF Loads, ReadOption, OptionLost, HearOption, StatusSent, StatusKnown, StatusMissed
  <2>3. status' \in BOOLEAN
    BY <1>1 DEF Loads, ReadOption, OptionLost, HearOption, StatusSent, StatusKnown, StatusMissed,
                WizTypeOK
  <2>4. /\ opening' \in {"sent", "0", "1", "done"} /\ current' \in {"unset", "0", "1"}
        /\ known' \in {"unknown", "0", "1"}
    BY <1>1 DEF Loads, ReadOption, OptionLost, HearOption, StatusSent, StatusKnown, StatusMissed,
                WizTypeOK
  <2> QED
    BY <1>1, <2>1, <2>2, <2>3, <2>4, LoadsLeave DEF WizTypeOK, WizSet, router
<1>2. CASE Clicks
  <2>1. wiz' \in WizSet
    <3>1. CASE SkipWizard
      <4>1. wiz' = [wiz EXCEPT !.shown = FALSE] /\ FALSE \in BOOLEAN
        BY <3>1 DEF SkipWizard
      <4> QED
        BY <1>0, <4>1, ShownTyped, Zenon
    <3>2. CASE TickHide
      <4>1. (~wiz.hide) \in BOOLEAN
        OBVIOUS
      <4>2. wiz' = [wiz EXCEPT !.hide = ~wiz.hide]
        BY <3>2 DEF TickHide
      <4> QED
        BY <1>0, <4>1, <4>2, HideTyped, Zenon
    <3>3. CASE NextFrom1 \/ NextFrom2 \/ BoxOk \/ BoxCancel \/ Previous
      <4>1. UNCHANGED wiz \/ \E s \in 1..3 : wiz' = [wiz EXCEPT !.step = s]
        BY <3>3 DEF NextFrom1, NextFrom2, BoxOk, BoxCancel, Previous, Refuse, Onward, proceedToStep3
      <4> QED
        BY <1>0, <4>1, StepTyped, Zenon
    <3>5. ASSUME NEW f \in WizFields, WizFill(f) PROVE wiz' \in WizSet
      <4>1. wiz' = [wiz EXCEPT !.fields = f]
        BY <3>5 DEF WizFill
      <4> QED
        BY <1>0, <4>1, FieldsTyped, Zenon
    <3> QED
      BY <1>2, <3>1, <3>2, <3>3, <3>5 DEF Clicks
  <2>2. wacts' \in 0..MaxWizActs
    <3>1. ASSUME NEW f \in WizFields, WizFill(f) PROVE WizAct
      BY <3>1 DEF WizFill
    <3>2. CASE SkipWizard \/ TickHide \/ Previous
      <4>1. WizAct
        BY <3>2 DEF SkipWizard, TickHide, Previous
      <4> QED
        BY <1>w, <4>1
    <3>3. CASE NextFrom1 \/ NextFrom2 \/ BoxOk \/ BoxCancel
      BY <1>0, <3>3 DEF NextFrom1, NextFrom2, BoxOk, BoxCancel
    <3> QED
      BY <1>w, <1>2, <3>1, <3>2, <3>3 DEF Clicks
  <2>3. box' \in {"none", "refused", "open", "spin"}
    <3>1. ASSUME NEW f \in WizFields, WizFill(f) PROVE UNCHANGED box
      BY <3>1 DEF WizFill
    <3>2. CASE SkipWizard \/ TickHide \/ Previous
      BY <3>2 DEF SkipWizard, TickHide, Previous, WizTypeOK
    <3>3. CASE NextFrom1 \/ NextFrom2 \/ BoxOk \/ BoxCancel
      <4>1. UNCHANGED box \/ box' \in {"refused", "open", "none"}
        <5>1. CASE NextFrom2
          BY <5>1 DEF NextFrom2, Refuse, Onward, proceedToStep3
        <5>2. CASE NextFrom1
          BY <5>2 DEF NextFrom1, Refuse, Onward
        <5>3. CASE BoxOk \/ BoxCancel
          BY <5>3 DEF BoxOk, BoxCancel
        <5> QED
          BY <3>3, <5>1, <5>2, <5>3
      <4> QED
        BY <4>1 DEF WizTypeOK
    <3> QED
      BY <1>2, <3>1, <3>2, <3>3 DEF Clicks, WizTypeOK
  <2> QED
    BY <1>2, <2>1, <2>2, <2>3, ClicksLeave DEF WizTypeOK, WizSet, router
<1>3. CASE Settling
  <2>1. wiz' \in WizSet
    <3>1. FALSE \in BOOLEAN /\ TRUE \in BOOLEAN
      OBVIOUS
    <3>2. CASE closeWizard \/ WizApply
      <4>1. UNCHANGED wiz \/ wiz' = [wiz EXCEPT !.shown = FALSE]
        BY <3>2 DEF closeWizard, WizApply, Refuse
      <4> QED
        BY <1>0, <3>1, <4>1, ShownTyped, Zenon
    <3>3. CASE ReopenWizard
      <4> DEFINE f == [wiz.fields EXCEPT !.skip = FALSE]
      <4>1. f \in WizFields
        BY <1>0, <3>1 DEF WizSet, WizFields
      <4>2. wiz' = [shown |-> TRUE, step |-> 1, hide |-> TRUE, fields |-> f]
        BY <1>0, <3>3 DEF ReopenWizard, WizSet
      <4> HIDE DEF f
      <4>3. \A b, h \in BOOLEAN, g \in WizFields :
               [shown |-> b, step |-> 1, hide |-> h, fields |-> g] \in WizSet
        BY DEF WizSet
      <4> QED
        BY <3>1, <4>1, <4>2, <4>3, Zenon
    <3> QED
      BY <1>3, <3>2, <3>3 DEF Settling
  <2>2. wacts' \in 0..MaxWizActs
    BY <1>0, <1>w, <1>3 DEF Settling, closeWizard, ReopenWizard, WizApply
  <2>3. current' \in {"unset", "0", "1"} /\ wsaves' \subseteq {"0", "1"}
    BY <1>3, SaveAdds DEF Settling, closeWizard, ReopenWizard, WizApply, WizTypeOK
  <2>4. /\ box' \in {"none", "refused", "open", "spin"}
        /\ UNCHANGED job \/ job' = [state |-> "saving", ipv6 |-> known]
    BY <1>3 DEF Settling, closeWizard, ReopenWizard, WizApply, WizTypeOK, Refuse
  <2>5. UNCHANGED <<ipv6, option, known, status, opening>>
    BY <1>3 DEF Settling, closeWizard, ReopenWizard, WizApply, router
  <2> QED
    BY <2>1, <2>2, <2>3, <2>4, <2>5 DEF WizTypeOK, WizSet
<1>4. ASSUME NEW v \in {"0", "1"}, SetWizard(v) \/ SetWizardFails(v) PROVE WizTypeOK'
  <2>1. wacts' \in 0..MaxWizActs
    BY <1>0, <1>w, <1>4 DEF SetWizard, SetWizardFails
  <2>2. /\ wsaves' = wsaves \ {v} /\ option' \in {option, v}
        /\ UNCHANGED <<ipv6, known, status, opening, current, wiz, box, job>>
    BY <1>4 DEF SetWizard, SetWizardFails, router
  <2> QED
    BY <2>1, <2>2 DEF WizTypeOK
<1>5. CASE SendSetup
  BY <1>5 DEF WizTypeOK, SendSetup, router, memory
<1>6. CASE SetupEnds
  <2>1. wacts' \in 0..MaxWizActs
    BY <1>0, <1>w, <1>6 DEF SetupEnds
  <2> QED
    BY <1>6, <2>1 DEF WizTypeOK, SetupEnds, router, memory, NoJob
<1>7. CASE LoadAnew
  <2>1. wacts' \in 0..MaxWizActs /\ wiz' \in WizSet
    BY <1>w, <1>7, FirstFields DEF LoadAnew
  <2>2. status' \in BOOLEAN
    BY <1>7 DEF LoadAnew
  <2> QED
    BY <1>7, <2>1, <2>2 DEF WizTypeOK, WizSet, LoadAnew, router, NoJob
<1>8. CASE UNCHANGED wizVars
  BY <1>8 DEF WizTypeOK, wizVars
<1> QED
  BY <1>1, <1>2, <1>3, <1>4, <1>5, <1>6, <1>7, <1>8 DEF WizNext, Loads, Clicks, Settling

\* What a click on the wizard checked stays checked: fields change only in the steps that
\* check them again, and consents only behind a dialog.
LEMMA ChecksNext ==
    ASSUME WizTypeOK, StepsChecked, [WizNext]_wizVars
    PROVE  StepsChecked'
<1>0. wiz \in WizSet
  BY DEF WizTypeOK, WizSet
<1>1. CASE Loads
  <2>1. /\ UNCHANGED <<box, told, job, wsent, agreed>>
        /\ wiz'.step = wiz.step /\ wiz'.fields = wiz.fields
    <3>1. CASE HearOption
      BY <1>0, <3>1 DEF HearOption, WizSet, memory
    <3>2. CASE ~HearOption
      BY <1>1, <3>2 DEF Loads, ReadOption, OptionLost, StatusSent, StatusKnown, StatusMissed, memory
    <3> QED
      BY <3>1, <3>2
  <2> QED
    BY <2>1 DEF StepsChecked, Confirmed
<1>2. ASSUME SkipWizard \/ TickHide \/ closeWizard PROVE StepsChecked'
  <2>1. /\ UNCHANGED <<box, told, job, wsent, agreed>>
        /\ wiz'.step = wiz.step /\ wiz'.fields = wiz.fields
    BY <1>0, <1>2 DEF SkipWizard, TickHide, closeWizard, WizSet, memory
  <2> QED
    BY <2>1 DEF StepsChecked, Confirmed
<1>3. CASE NextFrom1
  <2>1. CASE wiz.fields.wan = "pppoe" /\ ~wiz.fields.account
    BY <1>3, <2>1 DEF StepsChecked, Confirmed, NextFrom1, Here, Refuse, WizUnchanged
  <2>2. CASE ~(wiz.fields.wan = "pppoe" /\ ~wiz.fields.account)
    <3>1. wiz'.step = 2 /\ wiz'.fields = wiz.fields /\ UNCHANGED <<box, job>> /\ job.state = "no"
      BY <1>0, <1>3, <2>2 DEF NextFrom1, Here, Onward, WizUnchanged, WizSet, StepsChecked
    <3> QED
      BY <2>2, <3>1 DEF StepsChecked
  <2> QED
    BY <2>1, <2>2
<1>4. CASE NextFrom2
  <2>0. job.state = "no" /\ UNCHANGED <<job, wsent, agreed>> /\ wiz.step = 2
    BY <1>4 DEF NextFrom2, Here, StepsChecked, WizUnchanged
  <2>1. CASE UNCHANGED wiz
    BY <1>4, <2>0, <2>1 DEF StepsChecked
  <2>2. CASE proceedToStep3 /\ (wiz.fields.skip \/ wiz.fields.pass # "none")
    <3>1. wiz'.step = 3 /\ wiz'.fields = wiz.fields /\ told' = wiz.fields /\ UNCHANGED box
      BY <1>0, <2>2 DEF proceedToStep3, Onward, WizSet
    <3> QED
      BY <1>4, <2>0, <2>2, <3>1 DEF StepsChecked, Confirmed, NextFrom2, Here
  <2> QED
    BY <1>4, <2>1, <2>2 DEF NextFrom2, Refuse
<1>5. CASE BoxOk
  <2>1. job.state = "no" /\ UNCHANGED <<job, wsent>> /\ box' = "none"
    BY <1>5 DEF BoxOk, StepsChecked, WizUnchanged
  <2>2. CASE box = "open"
    <3>1. wiz'.step = 3 /\ wiz'.fields = wiz.fields /\ told' = wiz.fields /\ agreed' = wiz.fields
      BY <1>0, <1>5, <2>2 DEF BoxOk, WizSet
    <3> QED
      BY <2>1, <2>2, <3>1 DEF StepsChecked, Confirmed
  <2>3. CASE box # "open"
    BY <1>5, <2>1, <2>3 DEF BoxOk, StepsChecked, Confirmed
  <2> QED
    BY <2>2, <2>3
<1>6. CASE BoxCancel
  BY <1>6 DEF BoxCancel, WizUnchanged, StepsChecked, Confirmed
<1>7. CASE Previous
  <2>1. /\ wiz.step \in {2, 3} /\ wiz'.step = wiz.step - 1 /\ wiz'.fields = wiz.fields
        /\ UNCHANGED <<box, job>> /\ box = "none"
    BY <1>0, <1>7 DEF Previous, Here, WizUnchanged, WizSet
  <2> QED
    BY <2>1 DEF StepsChecked
<1>8. ASSUME NEW f \in WizFields, WizFill(f) PROVE StepsChecked'
  <2>1. /\ wiz'.step = wiz.step /\ wiz'.fields = f /\ UNCHANGED <<box, job>>
        /\ box = "none" /\ wiz.step \in {1, 2}
    <3>1. wiz' = [wiz EXCEPT !.fields = f] /\ UNCHANGED <<box, job>> /\ box = "none"
      BY <1>8 DEF WizFill
    <3>2. wiz.step \in {1, 2}
      BY <1>8 DEF WizFill
    <3> QED
      BY <1>0, <3>1, <3>2 DEF WizSet
  <2>2. wiz.step = 2 => f.wan = wiz.fields.wan /\ f.account = wiz.fields.account
    <3>1. wiz.fields \in WizFields
      BY <1>0 DEF WizSet
    <3>2. wiz.step = 2 => f = IF f.skip THEN [wiz.fields EXCEPT !.skip = TRUE]
                              ELSE [f EXCEPT !.wan = wiz.fields.wan, !.account = wiz.fields.account]
      BY <1>8 DEF WizFill
    <3> QED
      BY <3>1, <3>2 DEF WizFields
  <2> QED
    BY <2>1, <2>2 DEF StepsChecked
<1>9. CASE ReopenWizard
  <2>1. wiz'.step = 1 /\ UNCHANGED <<box, job>> /\ box = "none"
    BY <1>0, <1>9 DEF ReopenWizard, WizSet
  <2> QED
    BY <2>1 DEF StepsChecked
<1>10. CASE WizApply
  <2>1. CASE known = "unknown"
    BY <1>10, <2>1 DEF WizApply, Refuse, Here, StepsChecked, Confirmed
  <2>2. CASE known # "unknown"
    <3>1. /\ wiz.step = 3 /\ wiz'.step = 3 /\ wiz'.fields = wiz.fields /\ box' = "spin"
          /\ job'.state = "saving" /\ UNCHANGED <<told, agreed, wsent>>
      BY <1>0, <1>10, <2>2 DEF WizApply, Here, WizSet
    <3> QED
      BY <3>1 DEF StepsChecked, Confirmed
  <2> QED
    BY <2>1, <2>2
<1>11. ASSUME NEW v \in {"0", "1"}, SetWizard(v) \/ SetWizardFails(v) PROVE StepsChecked'
  BY <1>11 DEF SetWizard, SetWizardFails, memory, StepsChecked, Confirmed
<1>12. CASE SendSetup
  <2>1. job'.state = "setup" /\ wsent'.fields = wiz.fields
    BY <1>12 DEF SendSetup, WizTypeOK
  <2> QED
    BY <1>12, <2>1 DEF SendSetup, memory, StepsChecked, Confirmed
<1>13. CASE SetupEnds
  <2>1. CASE job' = [job EXCEPT !.state = "done"] /\ UNCHANGED box
    <3>1. job'.state = "done" /\ job.state = "setup"
      BY <1>13, <2>1 DEF SetupEnds, WizTypeOK
    <3> QED
      BY <1>13, <2>1, <3>1 DEF SetupEnds, memory, StepsChecked, Confirmed
  <2>2. CASE job' = NoJob /\ box' = "refused"
    BY <1>13, <2>2 DEF SetupEnds, memory, StepsChecked, Confirmed, NoJob
  <2> QED
    BY <1>13, <2>1, <2>2 DEF SetupEnds
<1>14. CASE LoadAnew
  BY <1>14 DEF LoadAnew, StepsChecked, NewWizard, NoJob
<1>15. CASE UNCHANGED wizVars
  BY <1>15 DEF wizVars, StepsChecked, Confirmed
<1> QED
  BY <1>1, <1>2, <1>3, <1>4, <1>5, <1>6, <1>7, <1>8, <1>9, <1>10, <1>11, <1>12, <1>13, <1>14, <1>15
  DEF WizNext, Loads

\* Only a lost load makes the page believe another state of IPv6 than the router's.
LEMMA Ipv6Next ==
    ASSUME WizTypeOK, Ipv6Known, [WizNext]_wizVars
    PROVE  Ipv6Known'
<1>1. CASE Loads
  <2>1. UNCHANGED <<ipv6, job, wsent>> /\ (missed => missed')
    BY <1>1, LoadsLeave
       DEF router, Loads, ReadOption, OptionLost, HearOption, StatusSent, StatusKnown, StatusMissed, memory
  <2>2. missed' \/ known' \in {known, ipv6}
    BY <1>1 DEF Loads, ReadOption, OptionLost, HearOption, StatusSent, StatusKnown, StatusMissed
  <2> QED
    BY <2>1, <2>2 DEF Ipv6Known
<1>2. ASSUME Clicks \/ closeWizard \/ ReopenWizard PROVE Ipv6Known'
  <2>1. UNCHANGED <<ipv6, known, job, wsent, missed>>
    BY <1>2, ClicksLeave DEF closeWizard, ReopenWizard, router
  <2> QED
    BY <2>1 DEF Ipv6Known
<1>3. CASE WizApply
  <2>1. UNCHANGED <<ipv6, known, wsent, missed>>
    BY <1>3 DEF WizApply, router
  <2>2. UNCHANGED job \/ (known # "unknown" /\ job' = [state |-> "saving", ipv6 |-> known])
    BY <1>3 DEF WizApply
  <2> QED
    BY <2>1, <2>2 DEF Ipv6Known
<1>4. ASSUME NEW v \in Bits, SetWizard(v) \/ SetWizardFails(v) PROVE Ipv6Known'
  BY <1>4 DEF SetWizard, SetWizardFails, memory, router, Ipv6Known
<1>5. CASE SendSetup
  <2>1. /\ wsent'.ipv6 = job.ipv6 /\ job'.ipv6 = job.ipv6 /\ job.state = "saving"
        /\ UNCHANGED <<ipv6, known, missed>>
    BY <1>5 DEF SendSetup, WizTypeOK, router, memory
  <2> QED
    BY <2>1 DEF Ipv6Known
<1>6. CASE SetupEnds
  <2>1. job' = NoJob \/ (job'.ipv6 = job.ipv6 /\ job.state = "setup")
    BY <1>6 DEF SetupEnds, WizTypeOK
  <2>2. UNCHANGED <<ipv6, known, wsent, missed>>
    BY <1>6 DEF SetupEnds, router, memory
  <2> QED
    BY <2>1, <2>2 DEF Ipv6Known, NoJob
<1>7. CASE LoadAnew
  BY <1>7 DEF LoadAnew, router, Ipv6Known, NoJob
<1>8. CASE UNCHANGED wizVars
  BY <1>8 DEF wizVars, router, Ipv6Known
<1> QED
  BY <1>1, <1>2, <1>3, <1>4, <1>5, <1>6, <1>7, <1>8 DEF WizNext, Loads, Clicks, Bits

\* A click that settles the option sends it, unless the page knows it saved already.
LEMMA SettleKeeps ==
    ASSUME WishOnItsWay, NEW v, silentSaveWizardState(v), Settles(v),
           UNCHANGED <<option, opening, missed>>
    PROVE  WishOnItsWay'
<1> SUFFICES ASSUME ~missed', ~muddled' PROVE WishOnItsWay'
  BY DEF WishOnItsWay
<1>1. ~missed /\ ~muddled /\ opening = "done" /\ wsaves \ {v} = {}
  BY DEF Settles
<1>2. current = wish /\ (wsaves = {} => option = wish)
  BY <1>1 DEF WishOnItsWay
<1>3. wsaves' \subseteq {v} /\ current' = v /\ wish' = v
  BY <1>1, SaveAdds DEF Settles
<1>4. wsaves' = {} => option = v
  <2>1. ASSUME wsaves' = {} PROVE wsaves = {} /\ current = v
    BY <2>1, SaveAdds
  <2> QED
    BY <1>2, <2>1
<1> QED
  BY <1>1, <1>3, <1>4 DEF WishOnItsWay

LEMMA WishNext ==
    ASSUME WizTypeOK, WishOnItsWay, [WizNext]_wizVars
    PROVE  WishOnItsWay'
<1>1. CASE Loads
  <2>1. UNCHANGED <<option, wsaves, wish, muddled>> /\ (missed => missed')
    BY <1>1, LoadsLeave
       DEF router, Loads, ReadOption, OptionLost, HearOption, StatusSent, StatusKnown, StatusMissed, memory
  <2>2. \/ missed'
        \/ UNCHANGED <<opening, current>>
        \/ opening = "sent" /\ opening' = option /\ UNCHANGED current
        \/ opening \in {"0", "1"} /\ opening' = "done" /\ current' = opening
    BY <1>1 DEF Loads, ReadOption, OptionLost, HearOption, StatusSent, StatusKnown, StatusMissed
  <2>3. CASE missed'
    BY <2>3 DEF WishOnItsWay
  <2>4. CASE UNCHANGED <<opening, current>>
    <3> SUFFICES ASSUME ~missed', ~muddled' PROVE WishOnItsWay'
      BY DEF WishOnItsWay
    <3>1. ~missed /\ ~muddled
      BY <2>1
    <3> QED
      BY <2>1, <2>4, <3>1 DEF WishOnItsWay
  <2>5. CASE opening = "sent" /\ opening' = option /\ UNCHANGED current
    <3> SUFFICES ASSUME ~missed', ~muddled' PROVE WishOnItsWay'
      BY DEF WishOnItsWay
    <3>1. ~missed /\ ~muddled /\ wsaves = {} /\ option = wish
      BY <2>1, <2>5 DEF WishOnItsWay
    <3>2. opening' \in {"0", "1"}
      BY <2>5 DEF WizTypeOK
    <3> QED
      BY <2>1, <2>5, <3>1, <3>2 DEF WishOnItsWay
  <2>6. CASE opening \in {"0", "1"} /\ opening' = "done" /\ current' = opening
    <3> SUFFICES ASSUME ~missed', ~muddled' PROVE WishOnItsWay'
      BY DEF WishOnItsWay
    <3>1. ~missed /\ ~muddled /\ wsaves = {} /\ opening = option /\ option = wish
      BY <2>1, <2>6 DEF WishOnItsWay
    <3> QED
      BY <2>1, <2>6, <3>1 DEF WishOnItsWay
  <2> QED
    BY <2>2, <2>3, <2>4, <2>5, <2>6
<1>2. CASE Clicks
  <2>1. UNCHANGED <<option, opening, current, wsaves, wish, muddled, missed>>
    BY <1>2, ClicksLeave DEF router
  <2> QED
    BY <2>1 DEF WishOnItsWay
<1>3. CASE closeWizard
  <2>1. UNCHANGED <<option, opening, missed>>
    BY <1>3 DEF closeWizard, router
  <2>2. \/ silentSaveWizardState("0") /\ Settles("0")
        \/ UNCHANGED <<current, wsaves, wish, muddled>>
    BY <1>3 DEF closeWizard
  <2> QED
    BY <2>1, <2>2, SettleKeeps DEF WishOnItsWay
<1>4. CASE ReopenWizard
  BY <1>4, SettleKeeps DEF ReopenWizard, router
<1>5. CASE WizApply
  <2>1. UNCHANGED <<option, opening, missed>>
    BY <1>5 DEF WizApply, router
  <2>2. \/ silentSaveWizardState("0") /\ Settles("0")
        \/ UNCHANGED <<current, wsaves, wish, muddled>>
    BY <1>5 DEF WizApply
  <2> QED
    BY <2>1, <2>2, SettleKeeps DEF WishOnItsWay
<1>6. ASSUME NEW v \in Bits, SetWizard(v) PROVE WishOnItsWay'
  <2>1. /\ v \in wsaves /\ wsaves' = wsaves \ {v} /\ option' = v
        /\ UNCHANGED <<opening, current, wish, muddled, missed>>
    BY <1>6 DEF SetWizard, memory
  <2> QED
    BY <2>1 DEF WishOnItsWay
<1>7. ASSUME NEW v \in Bits, SetWizardFails(v) PROVE WishOnItsWay'
  BY <1>7 DEF SetWizardFails, WishOnItsWay
<1>8. CASE SendSetup \/ SetupEnds
  <2>1. UNCHANGED <<option, opening, current, wsaves, wish, muddled, missed>>
    <3>1. CASE SendSetup
      BY <3>1 DEF SendSetup, router, memory
    <3>2. CASE SetupEnds
      BY <3>2 DEF SetupEnds, router, memory
    <3> QED
      BY <1>8, <3>1, <3>2
  <2> QED
    BY <2>1 DEF WishOnItsWay
<1>9. CASE LoadAnew
  <2>1. /\ opening' = "sent" /\ UNCHANGED <<option, wsaves, wish, missed>>
        /\ muddled' = (muddled \/ wsaves # {})
    BY <1>9 DEF LoadAnew, router
  <2> QED
    BY <2>1 DEF WishOnItsWay
<1>10. CASE UNCHANGED wizVars
  BY <1>10 DEF wizVars, router, memory, WishOnItsWay
<1> QED
  BY <1>1, <1>2, <1>3, <1>4, <1>5, <1>6, <1>7, <1>8, <1>9, <1>10 DEF WizNext, Loads, Clicks, Bits

LEMMA WizStep == WizInv /\ [WizNext]_wizVars => WizInv'
BY WizTypeNext, ChecksNext, Ipv6Next, WishNext DEF WizInv

LEMMA WizImplies == WizInv => WizardHonest
BY DEF WizInv, WizTypeOK, StepsChecked, Confirmed, Ipv6Known, WishOnItsWay, WizardHonest, WizardConfirmed,
       WizardKeepsIpv6, WishKept

\* The wizard submits what its user saw, told and was warned of; it keeps the router's
\* state of IPv6 and what the user wished for the next visit, wherever an answer was
\* late (netwiz.js, initWizard and its handlers).
THEOREM WizardConfirms == Spec => []WizardHonest
<1>1. Init => WizInv
  BY MachineInits, WizStart
<1>2. WizInv /\ [Next]_pageMachines => WizInv'
  BY MachineSteps, WizStep
<1> QED
  BY <1>1, <1>2, WizImplies, PTL DEF Spec

-----------------------------------------------------------------------------
(* The steps                                                               *)

Ask1 == [mode : Modes, form : Forms]

LEMMA SameSubnetBothWays == \A x, y : isSameSubnet(x, y) <=> isSameSubnet(y, x)
BY DEF isSameSubnet

\* What is left when an answer has come was asked before.
LEMMA FewerAsks ==
    ASSUME NEW S, NEW s \in Seq(S), NEW i \in DOMAIN s
    PROVE  /\ RemoveAt(s, i) \in Seq(S) /\ Len(RemoveAt(s, i)) = Len(s) - 1
           /\ \A k \in DOMAIN RemoveAt(s, i) : \E j \in DOMAIN s : RemoveAt(s, i)[k] = s[j]
<1> DEFINE a == SubSeq(s, 1, i - 1)
           b == SubSeq(s, i + 1, Len(s))
<1>1. i \in 1..Len(s) /\ Len(s) \in Nat
  OBVIOUS
<1>2. a \in Seq(S) /\ Len(a) = i - 1 /\ \A k \in 1..i - 1 : a[k] = s[k]
  BY <1>1
<1>3. b \in Seq(S) /\ Len(b) = Len(s) - i /\ \A k \in 1..Len(s) - i : b[k] = s[k + i]
  BY <1>1
<1> HIDE DEF a, b
<1>4. a \o b \in Seq(S) /\ Len(a \o b) = Len(s) - 1
  BY <1>1, <1>2, <1>3
<1>5. \A k \in 1..Len(s) - 1 : \E j \in 1..Len(s) : (a \o b)[k] = s[j]
  <2> SUFFICES ASSUME NEW k \in 1..Len(s) - 1 PROVE \E j \in 1..Len(s) : (a \o b)[k] = s[j]
    OBVIOUS
  <2>1. CASE k < i
    <3>1. (a \o b)[k] = s[k]
      BY <1>1, <1>2, <1>3, <2>1
    <3> QED
      BY <1>1, <3>1
  <2>2. CASE k >= i
    <3>1. (a \o b)[k] = s[k + 1]
      <4>1. k \in 1..Len(a) + Len(b) /\ k > Len(a) /\ k - Len(a) = k - (i - 1)
        BY <1>1, <1>2, <1>3, <2>2
      <4>2. (a \o b)[k] = b[k - Len(a)]
        <5>1. a \in Seq(S) /\ b \in Seq(S) /\ Len(a) \in Nat /\ Len(b) \in Nat
          BY <1>1, <1>2, <1>3
        <5> QED
          BY <5>1, <4>1
      <4>3. k - (i - 1) \in 1..Len(s) - i /\ k - (i - 1) + i = k + 1
        BY <1>1, <2>2
      <4>4. b[k - (i - 1)] = s[k - (i - 1) + i]
        BY <1>3, <4>3
      <4> QED
        BY <4>1, <4>2, <4>3, <4>4
    <3> QED
      BY <1>1, <3>1
  <2>3. k < i \/ k >= i
    BY <1>1
  <2> QED
    BY <2>1, <2>2, <2>3
<1>6. RemoveAt(s, i) = a \o b
  BY DEF RemoveAt, a, b
<1>7. DOMAIN s = 1..Len(s) /\ DOMAIN (a \o b) = 1..Len(s) - 1
  BY <1>1, <1>4
<1> QED
  BY <1>4, <1>5, <1>6, <1>7

\* The settings that the router may have fit the form.
LEMMA ConfsTyped == \A c \in Confs : c.lan \in FieldSet /\ c.router \in FieldSet
<1>1. \A x \in Addresses \cup {Empty, "bad"}, y \in Addresses \cup {Empty}, b \in BOOLEAN :
         Fields(x, y, b) \in FieldSet
  BY DEF Fields, FieldSet
<1>2. /\ Fields("a1", Empty, FALSE) \in FieldSet /\ Fields("a1", "a2", TRUE) \in FieldSet
      /\ Fields("b1", "b2", TRUE) \in FieldSet /\ Fields(Empty, Empty, FALSE) \in FieldSet
  <2>1. /\ {"a1", "b1", Empty} \subseteq Addresses \cup {Empty, "bad"}
        /\ {"a2", "b2", Empty} \subseteq Addresses \cup {Empty}
        /\ FALSE \in BOOLEAN /\ TRUE \in BOOLEAN
    BY DEF Addresses
  <2> QED
    BY <1>1, <2>1, Zenon
<1>3. ASSUME NEW c \in Confs
      PROVE  /\ c.lan \in {Fields("a1", Empty, FALSE), Fields("a1", "a2", TRUE)}
             /\ c.router \in {Fields("b1", "b2", TRUE), Fields(Empty, Empty, FALSE)}
  BY DEF Confs
<1> QED
  BY <1>2, <1>3, Zenon

LEMMA StepStart == StepInit => StepInv
<1> SUFFICES ASSUME StepInit PROVE StepInv
  OBVIOUS
<1>1. FALSE \in BOOLEAN /\ TRUE \in BOOLEAN
  OBVIOUS
<1>4. form \in Forms
  <2>1. NoFields \in FieldSet
    BY <1>1 DEF NoFields, Fields, FieldSet
  <2> QED
    BY <2>1 DEF StepInit, Forms
<1>5. StepTypeInv
  <2>1. asks \in Seq(Ask1) /\ Len(asks) = 0 /\ moves = 0 /\ moves \in 0..MaxMoves
    BY StepAssumption DEF StepInit
  <2>2. form.wifi \in {"kept", "new", "open", "short"} /\ form.pppoe \in {"none", "kept", "new"}
    BY <1>4 DEF Forms
  <2>3. fresh \in BOOLEAN /\ overtaken \in BOOLEAN /\ unchecked \in BOOLEAN
    BY <1>1, Zenon DEF StepInit
  <2>6. read \in ReadSet
    BY <1>1 DEF StepInit, Unread, ReadSet
  <2>4. settings \in Confs /\ view = {1} /\ mode = "none" /\ dialog = "none" /\ asks = <<>>
    BY DEF StepInit
  <2>5. StepTypeOK
    BY <2>1, <2>2, <2>3, <2>4, <2>6, StepAssumption DEF StepTypeOK
  <2> QED
    BY <1>4, <2>1, <2>4, <2>5 DEF StepTypeInv, Ask1
<1> QED
  BY <1>5 DEF StepInv, AsksAccepted, StepsHold, Vouched, StepInit

\* What the user types keeps the form a form.
LEMMA ChangesTyped ==
    ASSUME form \in Forms, mode \in Modes, NEW f \in Changes(mode)
    PROVE  f \in Forms
<1>1. form.lan \in FieldSet /\ form.router \in FieldSet
  BY DEF Forms
<1>2. \A g \in FieldSet, x \in Addresses \cup {Empty, "bad"} : [g EXCEPT !.ip = x] \in FieldSet
  BY DEF FieldSet
<1>3. \A g \in FieldSet, x \in Addresses \cup {Empty} : [g EXCEPT !.gw = x] \in FieldSet
  BY DEF FieldSet
<1>4. \A g \in FieldSet, b \in BOOLEAN : [g EXCEPT !.flag = b] \in FieldSet
  BY DEF FieldSet
<1>5. \A g \in FieldSet : [form EXCEPT !.lan = g] \in Forms /\ [form EXCEPT !.router = g] \in Forms
  BY DEF Forms
<1>6. CASE mode = "lan"
  <2>1. \/ \E x \in {"bad", "a2", "b2"} : f = [form EXCEPT !.lan = [form.lan EXCEPT !.ip = x]]
        \/ \E x \in {Empty, "a1", "b1"} : f = [form EXCEPT !.lan = [form.lan EXCEPT !.gw = x]]
        \/ f = [form EXCEPT !.lan = [form.lan EXCEPT !.flag = ~form.lan.flag]]
    BY <1>6 DEF Changes
  <2>2. ASSUME NEW x \in {"bad", "a2", "b2"} PROVE [form.lan EXCEPT !.ip = x] \in FieldSet
    BY <1>1, <1>2 DEF Addresses
  <2>3. ASSUME NEW x \in {Empty, "a1", "b1"} PROVE [form.lan EXCEPT !.gw = x] \in FieldSet
    BY <1>1, <1>3 DEF Addresses
  <2>4. [form.lan EXCEPT !.flag = ~form.lan.flag] \in FieldSet
    <3>1. (~form.lan.flag) \in BOOLEAN
      OBVIOUS
    <3> QED
      BY <1>1, <1>4, <3>1, Zenon
  <2> QED
    BY <1>5, <2>1, <2>2, <2>3, <2>4, Zenon
<1>7. CASE mode = "router"
  <2>1. \/ \E x \in {"a2", "b1"} : f = [form EXCEPT !.router = [form.router EXCEPT !.ip = x]]
        \/ \E x \in {"a1", "b2"} : f = [form EXCEPT !.router = [form.router EXCEPT !.gw = x]]
        \/ f = [form EXCEPT !.router = [form.router EXCEPT !.flag = ~form.router.flag]]
    BY <1>7 DEF Changes
  <2>2. ASSUME NEW x \in {"a2", "b1"} PROVE [form.router EXCEPT !.ip = x] \in FieldSet
    BY <1>1, <1>2 DEF Addresses
  <2>3. ASSUME NEW x \in {"a1", "b2"} PROVE [form.router EXCEPT !.gw = x] \in FieldSet
    BY <1>1, <1>3 DEF Addresses
  <2>4. [form.router EXCEPT !.flag = ~form.router.flag] \in FieldSet
    <3>1. (~form.router.flag) \in BOOLEAN
      OBVIOUS
    <3> QED
      BY <1>1, <1>4, <3>1, Zenon
  <2> QED
    BY <1>5, <2>1, <2>2, <2>3, <2>4, Zenon
<1>8. CASE mode \in {"pppoe", "wifi"}
  BY <1>8 DEF Changes, Forms
<1> QED
  BY <1>6, <1>7, <1>8 DEF Modes

\* The refresh writes fields that fit the form, whatever it read of the router.
LEMMA FilledInTyped ==
    ASSUME form \in Forms, settings \in Confs, NEW r \in ReadSet, NEW air \in BOOLEAN
    PROVE  FilledIn(form, r, air) \in Forms
<1> DEFINE lan == Fields(LanNow(r), LanGwNow(r), BypassNow(r))
           x == IF r.net THEN settings.router.ip ELSE Empty
           y == WanGwNow(r)
           wan == [form.router EXCEPT !.ip = x, !.gw = y]
           word == IF r.net THEN "kept" ELSE "none"
           wifi == AirFilled(form.wifi, air)
<1>1. /\ settings.lan \in FieldSet /\ settings.router \in FieldSet /\ form.router \in FieldSet
      /\ form.wifi \in {"kept", "new", "open", "short"}
  BY ConfsTyped DEF Forms
<1>2. LanNow(r) \in Addresses \cup {Empty, "bad"} /\ x \in Addresses \cup {Empty, "bad"}
  BY <1>1 DEF LanNow, hostname, FieldSet
<1>3. LanGwNow(r) \in Addresses \cup {Empty} /\ y \in Addresses \cup {Empty}
  BY <1>1 DEF LanGwNow, WanGwNow, FieldSet
<1>4. BypassNow(r) \in BOOLEAN
  BY DEF BypassNow
<1>5. lan \in FieldSet
  BY <1>2, <1>3, <1>4 DEF Fields, FieldSet
<1>6. word \in {"none", "kept", "new"} /\ wifi \in {"kept", "new", "open", "short"}
  BY <1>1 DEF AirFilled
<1>7. FilledIn(form, r, air) = [form EXCEPT !.lan = lan, !.router = wan, !.pppoe = word, !.wifi = wifi]
  BY Zenon DEF FilledIn
<1> HIDE DEF lan, x, y, word, wifi
<1>8. wan \in FieldSet
  BY <1>1, <1>2, <1>3 DEF FieldSet
<1> HIDE DEF wan
<1> QED
  BY <1>5, <1>6, <1>7, <1>8 DEF Forms

\* The clicks that go from step to step.
Walks == GotoRoam \/ BackHome \/ BackToForm \/ \E m \in Modes : ChooseCard(m)

LEMMA WalksLeave ==
    ASSUME Walks
    PROVE  /\ UNCHANGED <<settings, form, asks, dialog, confirm, fresh, read, sent, warned, overtaken, unchecked>>
           /\ dialog = "none" /\ Move
<1>1. CASE GotoRoam \/ BackHome \/ BackToForm
  BY <1>1 DEF GotoRoam, BackHome, BackToForm, quiet, Clear
<1>2. ASSUME NEW m \in Modes, ChooseCard(m)
      PROVE  /\ UNCHANGED <<settings, form, asks, dialog, confirm, fresh, read, sent, warned, overtaken, unchecked>>
             /\ dialog = "none" /\ Move
  BY <1>2 DEF ChooseCard, quiet, Clear
<1> QED
  BY <1>1, <1>2 DEF Walks

\* A switch of steps displays the step it switches to.
LEMMA SwitchShows ==
    ASSUME NEW V, V \subseteq 1..3, NEW a \in 1..3, NEW b \in 1..3
    PROVE  (V \ {a}) \cup {b} \subseteq 1..3 /\ (V \ {a}) \cup {b} # {}
<1>1. b \in (V \ {a}) \cup {b}
  OBVIOUS
<1> QED
  BY <1>1

LEMMA StepTypeNext ==
    ASSUME StepTypeInv, [StepNext]_stepVars
    PROVE  StepTypeInv'
<1>0. /\ view \subseteq 1..3 /\ view # {} /\ mode \in Modes \cup {"none"} /\ form \in Forms
      /\ asks \in Seq(Ask1) /\ Len(asks) <= moves /\ moves \in 0..MaxMoves /\ settings \in Confs
      /\ dialog \in {"none", "refused", "nomod", "warn", "spin"}
      /\ mode = "none" => view = {1} /\ asks = <<>> /\ dialog = "none"
  BY DEF StepTypeInv, StepTypeOK, Ask1
<1>b. fresh \in BOOLEAN /\ overtaken \in BOOLEAN /\ unchecked \in BOOLEAN /\ read \in ReadSet
  BY DEF StepTypeInv, StepTypeOK
<1>s. ASSUME NEW a \in 1..3, NEW b \in 1..3, view' = (view \ {a}) \cup {b}
      PROVE  view' \subseteq 1..3 /\ view' # {}
  BY <1>0, <1>s, SwitchShows
<1>d. 1 \in 1..3 /\ 2 \in 1..3 /\ 3 \in 1..3
  OBVIOUS
<1> DEFINE Rest1 == /\ view' \subseteq 1..3 /\ view' # {} /\ mode' \in Modes \cup {"none"}
                    /\ dialog' \in {"none", "refused", "nomod", "warn", "spin"}
                    /\ mode' = "none" => view' = {1} /\ asks' = <<>> /\ dialog' = "none"
           Rest2 == /\ asks' \in Seq(Ask1) /\ Len(asks') <= moves' /\ moves' \in 0..MaxMoves
                    /\ form' \in Forms /\ settings' = settings
           Rest3 == /\ fresh' \in BOOLEAN /\ overtaken' \in BOOLEAN /\ unchecked' \in BOOLEAN
                    /\ read' \in ReadSet
<1>p. ASSUME Rest1, Rest2, Rest3 PROVE StepTypeInv'
  <2>1. form'.wifi \in {"kept", "new", "open", "short"} /\ form'.pppoe \in {"none", "kept", "new"}
    BY <1>p DEF Forms
  <2>2. Len(asks') <= MaxMoves
    BY <1>p, StepAssumption
  <2> QED
    BY <1>0, <1>p, <2>1, <2>2 DEF StepTypeInv, StepTypeOK, Ask1
<1>m. Move => moves' \in 0..MaxMoves /\ moves' = moves + 1 /\ Len(asks) <= moves'
  BY <1>0, StepAssumption DEF Move
<1>1. CASE Walks
  <2>1. UNCHANGED <<settings, form, asks, dialog, fresh, read, overtaken, unchecked>> /\ Move
    BY <1>1, WalksLeave
  <2>2. Rest1
    <3>1. CASE GotoRoam
      BY <1>0, <2>1, <3>1 DEF GotoRoam, Modes
    <3>2. CASE BackHome \/ BackToForm
      <4>1. /\ view' = (view \ {2}) \cup {1} \/ view' = (view \ {3}) \cup {2}
            /\ mode' = mode /\ (2 \in view \/ 3 \in view)
        BY <3>2 DEF BackHome, BackToForm, Clear, switchStep
      <4>2. view' \subseteq 1..3 /\ view' # {}
        BY <1>s, <1>d, <4>1
      <4>3. mode # "none"
        BY <1>0, <4>1
      <4> QED
        BY <1>0, <2>1, <4>1, <4>2, <4>3
    <3>3. ASSUME NEW m \in Modes, ChooseCard(m) PROVE Rest1
      BY <1>0, <2>1, <3>3 DEF ChooseCard, switchStep, Modes
    <3> QED
      BY <1>1, <3>1, <3>2, <3>3 DEF Walks
  <2> QED
    BY <1>0, <1>b, <1>m, <1>p, <2>1, <2>2
<1>2. CASE Fill
  <2>1. /\ UNCHANGED <<settings, view, mode, asks, dialog, fresh, read, overtaken, unchecked>> /\ Move
        /\ 2 \in view /\ form' \in Changes(mode)
    BY <1>2 DEF Fill, quiet, Clear
  <2>2. form' \in Forms
    BY <1>0, <2>1, ChangesTyped
  <2> QED
    BY <1>0, <1>b, <1>m, <1>p, <2>1, <2>2
<1>3. CASE Next2
  <2>1. /\ UNCHANGED <<settings, view, mode, form, fresh, read, overtaken, unchecked>> /\ Move /\ mode # "none"
        /\ \/ asks' = Append(asks, [mode |-> mode, form |-> form]) /\ UNCHANGED dialog
           \/ dialog' = "refused" /\ UNCHANGED asks
    BY <1>0, <1>3 DEF Next2, Clear
  <2>2. [mode |-> mode, form |-> form] \in Ask1
    BY <1>0, <2>1 DEF Ask1
  <2>3. asks' \in Seq(Ask1) /\ Len(asks') <= moves'
    BY <1>0, <1>m, <2>1, <2>2
  <2> QED
    BY <1>0, <1>b, <1>m, <1>p, <2>1, <2>3
<1>4. CASE Answer
  <2>1. PICK i \in DOMAIN asks, r \in Readings :
           /\ Answered(asks[i], r) /\ asks' = RemoveAt(asks, i)
           /\ read' = r /\ unchecked' = Unchecked(asks[i], r)
           /\ UNCHANGED <<settings, mode, form, fresh, moves>>
           /\ overtaken' = (overtaken \/ view # {2} \/ dialog # "none"
                            \/ asks[i] # [mode |-> mode, form |-> form])
    BY <1>4 DEF Answer
  <2>2. asks' \in Seq(Ask1) /\ Len(asks') <= moves' /\ mode # "none"
    BY <1>0, <2>1, FewerAsks
  <2>3. overtaken' \in BOOLEAN /\ unchecked' \in BOOLEAN /\ read' \in ReadSet
    BY <2>1 DEF Unchecked, Readings
  <2>5. /\ view' = view \/ view' = (view \ {2}) \cup {3}
        /\ dialog' = dialog \/ dialog' \in {"refused", "nomod", "warn"}
    BY <2>1 DEF Answered, switchStep
  <2>4. view' \subseteq 1..3 /\ view' # {} /\ dialog' \in {"none", "refused", "nomod", "warn", "spin"}
    BY <1>0, <1>s, <1>d, <2>5
  <2> QED
    BY <1>0, <1>b, <1>p, <2>1, <2>2, <2>3, <2>4
<1>5. CASE LoadFails
  <2>1. PICK i \in DOMAIN asks :
           /\ dialog' = "refused" /\ asks' = RemoveAt(asks, i)
           /\ UNCHANGED <<settings, view, mode, form, fresh, read, unchecked, moves>>
           /\ overtaken' = (overtaken \/ dialog # "none")
    BY <1>5 DEF LoadFails
  <2>2. asks' \in Seq(Ask1) /\ Len(asks') <= moves' /\ mode # "none"
    BY <1>0, <2>1, FewerAsks
  <2>3. overtaken' \in BOOLEAN
    BY <2>1
  <2> QED
    BY <1>0, <1>b, <1>p, <2>1, <2>2, <2>3
<1>6. CASE DialogOk \/ DialogCancel \/ Apply
  <2>1. UNCHANGED <<settings, mode, form, asks, fresh, read, overtaken, unchecked, moves>> /\ mode # "none"
    BY <1>0, <1>6 DEF DialogOk, DialogCancel, Apply, Clear
  <2>2. dialog' \in {"none", "spin"}
    BY <1>6 DEF DialogOk, DialogCancel, Apply
  <2>3. view' = view \/ view' = {1} \/ view' = (view \ {2}) \cup {3}
    BY <1>6 DEF DialogOk, DialogCancel, Apply, switchStep
  <2>4. view' \subseteq 1..3 /\ view' # {}
    BY <1>0, <1>s, <1>d, <2>3
  <2> QED
    BY <1>0, <1>b, <1>p, <2>1, <2>2, <2>4
<1>7. CASE RefreshStarts
  <2>1. fresh' \in BOOLEAN /\ read' \in ReadSet
    BY <1>b, <1>7 DEF RefreshStarts, ReadSet
  <2>2. UNCHANGED <<settings, view, mode, form, asks, dialog, overtaken, unchecked>> /\ Move
    BY <1>7 DEF RefreshStarts, quiet
  <2> QED
    BY <1>0, <1>b, <1>m, <1>p, <2>1, <2>2
<1>8. CASE RefreshFills
  <2>1. fresh' \in BOOLEAN
    BY <1>8 DEF RefreshFills
  <2>4. PICK r \in Refreshed, air \in BOOLEAN : read' = r /\ form' = FilledIn(form, r, air)
    BY <1>8 DEF RefreshFills
  <2>5. read' \in ReadSet
    BY <2>4 DEF Refreshed
  <2>2. form' \in Forms /\ UNCHANGED <<settings, view, mode, asks, dialog, unchecked, moves>>
    BY <1>0, <1>8, <2>4, <2>5, FilledInTyped DEF RefreshFills
  <2>3. overtaken' \in BOOLEAN
    BY <1>8 DEF RefreshFills
  <2> QED
    BY <1>0, <1>b, <1>p, <2>1, <2>2, <2>3, <2>5
<1>9. CASE UNCHANGED stepVars
  BY <1>0, <1>b, <1>p, <1>9 DEF stepVars
<1> QED
  BY <1>1, <1>2, <1>3, <1>4, <1>5, <1>6, <1>7, <1>8, <1>9 DEF StepNext, Walks

LEMMA AsksNext ==
    ASSUME StepTypeInv, AsksAccepted, [StepNext]_stepVars
    PROVE  AsksAccepted'
<1>0. asks \in Seq(Ask1) /\ \A i \in DOMAIN asks : Accepted(asks[i].mode, asks[i].form)
  BY DEF StepTypeInv, AsksAccepted, Ask1
<1>1. CASE UNCHANGED asks
  BY <1>0, <1>1 DEF AsksAccepted
<1>2. CASE Next2
  <2>1. CASE Accepted(mode, form)
    <3> DEFINE a == [mode |-> mode, form |-> form]
    <3>1. asks' = Append(asks, a) /\ a.mode = mode /\ a.form = form
      BY <1>2, <2>1 DEF Next2
    <3> HIDE DEF a
    <3>2. ASSUME NEW k \in DOMAIN asks' PROVE asks'[k] = a \/ \E j \in DOMAIN asks : asks'[k] = asks[j]
      BY <1>0, <3>1, <3>2
    <3> QED
      BY <1>0, <2>1, <3>1, <3>2 DEF AsksAccepted
  <2> QED
    BY <1>1, <1>2, <2>1 DEF Next2
<1>3. CASE Answer \/ LoadFails
  <2>1. PICK i \in DOMAIN asks : asks' = RemoveAt(asks, i)
    BY <1>3 DEF Answer, LoadFails
  <2>2. \A k \in DOMAIN asks' : \E j \in DOMAIN asks : asks'[k] = asks[j]
    BY <1>0, <2>1, FewerAsks
  <2> QED
    BY <1>0, <2>2 DEF AsksAccepted
<1>4. CASE Walks
  BY <1>1, <1>4, WalksLeave
<1>5. CASE Fill \/ RefreshStarts
  BY <1>1, <1>5 DEF Fill, RefreshStarts, quiet
<1>6. CASE DialogOk \/ DialogCancel \/ Apply \/ RefreshFills \/ UNCHANGED stepVars
  BY <1>1, <1>6 DEF DialogOk, DialogCancel, Apply, RefreshFills, stepVars
<1> QED
  BY <1>2, <1>3, <1>4, <1>5, <1>6 DEF StepNext, Walks

LEMMA ContentFields ==
    ASSUME NEW m, NEW f
    PROVE  /\ ContentOf(m, f).mode = m
           /\ m = "lan" => ContentOf(m, f).fields = f.lan
           /\ m = "router" /\ f.router.flag => ContentOf(m, f).fields = f.router
           /\ m = "wifi" => ContentOf(m, f).word = f.wifi
           /\ m \in {"lan", "router"} => ContentOf(m, f).word = Empty
           /\ m = "pppoe" => ContentOf(m, f).word = f.pppoe
BY DEF ContentOf

\* The page knows the WAN's address, or none.
LEMMA WanKnown ==
    ASSUME settings \in Confs, NEW r \in ReadSet, WanNow(r) \in Addresses
    PROVE  WanNow(r) = LiveWan
<1>1. settings.router.ip \in {"b1", Empty} /\ r.wan \in {LiveWan, Empty}
  BY DEF Confs, Fields, ReadSet
<1> QED
  BY <1>1 DEF WanNow, LiveWan, Empty, Addresses

\* An answer to the form as it is: what was checked is what the third step shows.
LEMMA AnswerToForm ==
    ASSUME form \in Forms, mode \in Modes, settings \in Confs, Accepted(mode, form),
           NEW a, a = [mode |-> mode, form |-> form], NEW r \in ReadSet, ~ConflictAt(a, r)
    PROVE  /\ ConfirmText(a) = ContentOf(mode, form)
           /\ ~Unchecked(a, r) =>
                 /\ mode = "lan" => ~isSameSubnet(form.lan.ip, LiveWan)
                 /\ mode = "router" /\ form.router.flag => ~isSameSubnet(form.router.ip, settings.lan.ip)
           /\ NeedsWarning(ContentOf(mode, form)) => Warns(a)
<1> DEFINE c == ContentOf(mode, form)
<1>1. a.mode = mode /\ a.form = form
  OBVIOUS
<1>2. c.mode = mode /\ Target(a) = IF mode \in {"lan", "router"} THEN c.fields ELSE NoFields
  BY <1>1, ContentFields DEF Target
<1>3. mode \notin {"lan", "router"} => c.fields = NoFields
  BY DEF ContentOf
<1>4. c = [mode |-> c.mode, fields |-> c.fields, word |-> c.word]
  BY DEF ContentOf
<1> HIDE DEF c
<1>5. ConfirmText(a) = c
  <2>1. ConfirmText(a) = [mode |-> mode, fields |-> IF mode \in {"lan", "router"} THEN Target(a) ELSE NoFields,
                          word |-> c.word]
    BY DEF ConfirmText, c
  <2>2. (IF mode \in {"lan", "router"} THEN Target(a) ELSE NoFields) = c.fields
    BY <1>2, <1>3
  <2> QED
    BY <1>2, <1>4, <2>1, <2>2
<1>6. ~Unchecked(a, r) /\ mode = "lan" => ~isSameSubnet(form.lan.ip, LiveWan)
  <2>1. mode = "lan" => checkLanIp(a, r) = form.lan.ip /\ checkWanIp(a, r) = WanNow(r)
    BY <1>2, ContentFields DEF c, checkLanIp, checkWanIp
  <2>2. WanNow(r) \in Addresses => WanNow(r) = LiveWan
    BY WanKnown
  <2> QED
    BY <2>1, <2>2, SameSubnetBothWays DEF ConflictAt, Unchecked
<1>7. ~Unchecked(a, r) /\ mode = "router" /\ form.router.flag => ~isSameSubnet(form.router.ip, settings.lan.ip)
  <2>1. mode = "router" /\ form.router.flag => checkWanIp(a, r) = form.router.ip /\ checkLanIp(a, r) = LanNow(r)
    BY <1>1, <1>2, ContentFields DEF c, Static, checkLanIp, checkWanIp
  <2>2. LanNow(r) \in Addresses => LanNow(r) = settings.lan.ip
    BY DEF LanNow, hostname, Addresses
  <2> QED
    BY <2>1, <2>2 DEF ConflictAt, Unchecked
<1>8. NeedsWarning(c) => Warns(a)
  <2>1. mode = "lan" => Target(a) = c.fields
    BY <1>2
  <2>2. c.word = "open" => mode = "wifi" /\ form.wifi = "open"
    <3>1. form.pppoe # "open" /\ Empty # "open"
      BY DEF Forms, Empty
    <3> QED
      BY <3>1, ContentFields DEF c, Modes
  <2> QED
    BY <1>2, <2>1, <2>2 DEF NeedsWarning, Warns
<1> QED
  BY <1>5, <1>6, <1>7, <1>8 DEF c

\* Where no settings, mode, form or consent changes, what is vouched for stays.
LEMMA StillVouched ==
    ASSUME Vouched, UNCHANGED <<settings, mode, form, confirm, sent, warned, unchecked>>,
           view' = view, dialog' = dialog \/ (dialog' \in {"none", "refused"} /\ sent = NoContent)
    PROVE  Vouched'
<1>1. Sendable' <=> Sendable
  BY DEF Sendable, Accepted, isValidIP, GatewayFits, isSameSubnet, LiveWan
<1>2. ContentOf(mode, form)' = ContentOf(mode, form) /\ (NeedsWarning(confirm)' <=> NeedsWarning(confirm))
  BY DEF ContentOf, NeedsWarning
<1> QED
  BY <1>1, <1>2 DEF Vouched

\* A page without dialog, outside of the third step, vouches for nothing.
LEMMA NothingToVouch ==
    ASSUME view' \in {{1}, {2}}, dialog' \in {"none", "refused"}, sent' = NoContent
    PROVE  Vouched'
BY DEF Vouched

LEMMA StepsHoldNext ==
    ASSUME StepInv, [StepNext]_stepVars
    PROVE  StepsHold'
<1> SUFFICES ASSUME ~overtaken' PROVE Vouched'
  BY DEF StepsHold
<1>0. ~overtaken => Vouched
  BY DEF StepInv, StepsHold
<1>n. Vouched /\ dialog # "spin" => sent = NoContent
  BY DEF Vouched
<1>v. Vouched => /\ 1 \in view => view = {1}
                 /\ 2 \in view => view = {2}
                 /\ 3 \in view => view = {3}
  BY DEF Vouched
<1>1. CASE Walks
  <2>1. UNCHANGED <<sent, dialog, overtaken>> /\ dialog = "none"
    BY <1>1, WalksLeave
  <2>2. Vouched /\ sent' = NoContent /\ dialog' = "none"
    BY <1>0, <1>n, <2>1
  <2>3. view' \in {{1}, {2}}
    <3>1. CASE GotoRoam
      BY <3>1 DEF GotoRoam
    <3>2. CASE BackHome
      <4>1. view = {2} /\ view' = (view \ {2}) \cup {1}
        BY <1>v, <2>2, <3>2 DEF BackHome, Clear, switchStep
      <4> QED
        BY <4>1
    <3>3. CASE BackToForm
      <4>1. view = {3} /\ view' = (view \ {3}) \cup {2}
        BY <1>v, <2>2, <3>3 DEF BackToForm, Clear, switchStep
      <4> QED
        BY <4>1
    <3>4. ASSUME NEW m \in Modes, ChooseCard(m) PROVE view' = {2}
      <4>1. view = {1} /\ view' = (view \ {1}) \cup {2}
        BY <1>v, <2>2, <3>4 DEF ChooseCard, Clear, switchStep
      <4> QED
        BY <4>1
    <3> QED
      BY <1>1, <3>1, <3>2, <3>3, <3>4 DEF Walks
  <2> QED
    BY <2>2, <2>3, NothingToVouch
<1>2. CASE Fill \/ Next2
  <2>1. /\ UNCHANGED <<view, sent, overtaken>> /\ dialog = "none" /\ 2 \in view
        /\ dialog' \in {"none", "refused"}
    BY <1>2 DEF Fill, Next2, quiet, Clear
  <2>2. view' = {2} /\ sent' = NoContent
    BY <1>0, <1>n, <1>v, <2>1
  <2> QED
    BY <2>1, <2>2, NothingToVouch
<1>3. CASE Answer
  <2>1. PICK i \in DOMAIN asks, r \in Readings :
           /\ Answered(asks[i], r) /\ unchecked' = Unchecked(asks[i], r)
           /\ UNCHANGED <<settings, mode, form, sent, warned>>
           /\ overtaken' = (overtaken \/ view # {2} \/ dialog # "none"
                            \/ asks[i] # [mode |-> mode, form |-> form])
    BY <1>3 DEF Answer
  <2> DEFINE a == asks[i]
  <2>2. ~overtaken /\ view = {2} /\ dialog = "none" /\ a = [mode |-> mode, form |-> form]
    BY <2>1
  <2>3. Vouched /\ sent' = NoContent /\ mode # "none" /\ form \in Forms /\ mode \in Modes
        /\ settings \in Confs /\ r \in ReadSet
    BY <1>0, <1>n, <2>1, <2>2 DEF StepInv, StepTypeInv, StepTypeOK, Readings
  <2>4. Accepted(mode, form)
    BY <2>2 DEF StepInv, AsksAccepted
  <2>5. Answered(a, r) /\ unchecked' = Unchecked(a, r)
    BY <2>1
  <2> HIDE DEF a
  <2>6. CASE ConflictAt(a, r)
    BY <2>2, <2>3, <2>5, <2>6, NothingToVouch DEF Answered
  <2>7. CASE ~ConflictAt(a, r) /\ SameAsRouter(a, r)
    BY <2>2, <2>3, <2>5, <2>7 DEF Answered, Vouched
  <2>8. CASE ~ConflictAt(a, r) /\ ~SameAsRouter(a, r)
    <3>1. /\ ConfirmText(a) = ContentOf(mode, form)
          /\ NeedsWarning(ContentOf(mode, form)) => Warns(a)
          /\ ~Unchecked(a, r) =>
                /\ mode = "lan" => ~isSameSubnet(form.lan.ip, LiveWan)
                /\ mode = "router" /\ form.router.flag => ~isSameSubnet(form.router.ip, settings.lan.ip)
      BY <2>2, <2>3, <2>4, <2>8, AnswerToForm
    <3>2. Sendable' /\ ContentOf(mode, form)' = ContentOf(mode, form)
      BY <2>1, <2>4, <2>5, <3>1 DEF Sendable, Accepted, isValidIP, GatewayFits, isSameSubnet, LiveWan, ContentOf
    <3>3. confirm' = ContentOf(mode, form)'
      BY <2>5, <2>8, <3>1, <3>2 DEF Answered
    <3>4. CASE Warns(a)
      BY <2>2, <2>3, <2>5, <2>8, <3>2, <3>3, <3>4 DEF Answered, Vouched
    <3>5. CASE ~Warns(a)
      <4>1. ~NeedsWarning(confirm)'
        BY <3>1, <3>2, <3>3, <3>5 DEF NeedsWarning
      <4>2. view' = (view \ {2}) \cup {3} /\ dialog' = "none"
        BY <2>2, <2>5, <2>8, <3>5 DEF Answered, switchStep
      <4>3. view' = {3}
        BY <2>2, <4>2
      <4> QED
        BY <2>3, <3>2, <3>3, <4>1, <4>2, <4>3 DEF Vouched
    <3> QED
      BY <3>4, <3>5
  <2> QED
    BY <2>6, <2>7, <2>8
<1>4. CASE LoadFails
  <2>1. /\ UNCHANGED <<settings, view, mode, form, confirm, sent, warned, unchecked>> /\ dialog' = "refused"
        /\ overtaken' = (overtaken \/ dialog # "none")
    BY <1>4 DEF LoadFails
  <2>2. ~overtaken /\ dialog = "none"
    BY <2>1
  <2> QED
    BY <1>0, <1>n, <2>1, <2>2, StillVouched
<1>5. CASE DialogOk
  <2>1. /\ UNCHANGED <<settings, mode, form, confirm, sent, overtaken, unchecked>> /\ dialog' = "none"
        /\ dialog \in {"refused", "nomod", "warn"}
    BY <1>5 DEF DialogOk
  <2>2. Vouched /\ sent = NoContent
    BY <1>0, <1>n, <2>1
  <2>3. CASE dialog = "refused"
    <3>1. UNCHANGED <<view, warned>>
      BY <1>5, <2>3 DEF DialogOk
    <3> QED
      BY <2>1, <2>2, <3>1, StillVouched
  <2>4. CASE dialog = "nomod"
    <3>1. view' = {1}
      BY <1>5, <2>4 DEF DialogOk
    <3> QED
      BY <2>1, <2>2, <3>1, NothingToVouch
  <2>5. CASE dialog = "warn"
    <3>1. view' = (view \ {2}) \cup {3} /\ warned' = ContentOf(mode, form)
      BY <1>5, <2>5 DEF DialogOk, switchStep
    <3>2. view = {2} /\ Sendable /\ confirm = ContentOf(mode, form)
      BY <2>2, <2>5 DEF Vouched
    <3>3. view' = {3}
      BY <3>1, <3>2
    <3>4. Sendable' /\ ContentOf(mode, form)' = ContentOf(mode, form)
      BY <2>1, <3>2 DEF Sendable, Accepted, isValidIP, GatewayFits, isSameSubnet, LiveWan, ContentOf
    <3> QED
      BY <2>1, <2>2, <3>1, <3>2, <3>3, <3>4 DEF Vouched
  <2> QED
    BY <2>1, <2>3, <2>4, <2>5
<1>6. CASE DialogCancel
  <2>1. /\ UNCHANGED <<settings, view, mode, form, confirm, sent, warned, overtaken, unchecked>>
        /\ dialog = "warn" /\ dialog' = "none"
    BY <1>6 DEF DialogCancel
  <2> QED
    BY <1>0, <1>n, <2>1, StillVouched
<1>7. CASE Apply
  <2>1. /\ UNCHANGED <<settings, view, mode, form, confirm, warned, overtaken, unchecked>>
        /\ dialog' = "spin" /\ sent' = ContentOf(mode, form) /\ 3 \in view
    BY <1>7 DEF Apply, Clear
  <2>2. view = {3} /\ Sendable /\ confirm = ContentOf(mode, form)
    BY <1>0, <1>v, <2>1 DEF Vouched
  <2>3. Sendable' /\ ContentOf(mode, form)' = ContentOf(mode, form)
    BY <2>1, <2>2 DEF Sendable, Accepted, isValidIP, GatewayFits, isSameSubnet, LiveWan, ContentOf
  <2>4. NeedsWarning(confirm)' => (warned = confirm)'
    BY <1>0, <2>1, <2>2 DEF Vouched, NeedsWarning
  <2> QED
    BY <2>1, <2>2, <2>3, <2>4 DEF Vouched
<1>8. CASE RefreshStarts
  <2>1. UNCHANGED <<settings, view, mode, form, dialog, confirm, sent, warned, overtaken, unchecked>>
    BY <1>8 DEF RefreshStarts, quiet
  <2> QED
    BY <1>0, <2>1, StillVouched
<1>9. CASE RefreshFills
  <2>1. /\ UNCHANGED <<settings, view, mode, dialog, confirm, sent, warned, unchecked>>
        /\ overtaken' = (overtaken \/ (form' # form /\ (3 \in view \/ asks # <<>> \/ dialog # "none")))
    BY <1>9 DEF RefreshFills
  <2>2. CASE form' = form
    BY <1>0, <2>1, <2>2, StillVouched
  <2>3. CASE form' # form
    <3>1. ~overtaken /\ 3 \notin view /\ dialog = "none"
      BY <2>1, <2>3
    <3>2. view' \in {{1}, {2}} /\ sent' = NoContent
      BY <1>0, <1>n, <2>1, <3>1 DEF Vouched
    <3> QED
      BY <2>1, <3>1, <3>2, NothingToVouch
  <2> QED
    BY <2>2, <2>3
<1>10. CASE UNCHANGED stepVars
  BY <1>0, <1>10, StillVouched DEF stepVars
<1> QED
  BY <1>1, <1>2, <1>3, <1>4, <1>5, <1>6, <1>7, <1>8, <1>9, <1>10 DEF StepNext, Walks

LEMMA StepStep == StepInv /\ [StepNext]_stepVars => StepInv'
BY StepTypeNext, AsksNext, StepsHoldNext DEF StepInv

LEMMA StepImplies == StepInv => StepsSound
<1> SUFFICES ASSUME StepInv PROVE StepsSound
  OBVIOUS
<1>1. ~overtaken => Vouched
  BY DEF StepInv, StepsHold
<1>2. OneView
  BY <1>1 DEF OneView, Vouched
<1>3. ConfirmTrue
  BY <1>1 DEF ConfirmTrue, Vouched
<1>4. SubmittedSound
  <2> SUFFICES ASSUME sent # NoContent, ~overtaken PROVE SubmittedSound
    BY DEF SubmittedSound
  <2>1. /\ sent = ContentOf(mode, form) /\ Sendable
        /\ NeedsWarning(sent) => warned = sent
    BY <1>1 DEF Vouched
  <2>2. /\ sent.mode = mode
        /\ mode = "lan" => sent.fields = form.lan
        /\ mode = "router" /\ form.router.flag => sent.fields = form.router
    BY <2>1, ContentFields
  <2> QED
    BY <2>1, <2>2 DEF SubmittedSound, SubnetsApart, NetworksApart, SameNetwork, isSameSubnet, Sendable, NeedsWarning
<1> QED
  BY <1>2, <1>3, <1>4 DEF StepsSound

\* What Apply sends was displayed alone, accepted at a click on "Next", keeps LAN and
\* WAN out of one /24 subnet if the answer knew their addresses, and had its own warning
\* accepted, whatever loads, dialogs and refreshes came between, or were lost
\* (netwiz.js, the handlers of the three steps).
THEOREM AppliedSound == Spec => []StepsSound
<1>1. Init => StepInv
  BY MachineInits, StepStart
<1>2. StepInv /\ [Next]_pageMachines => StepInv'
  BY MachineSteps, StepStep
<1> QED
  BY <1>1, <1>2, StepImplies, PTL DEF Spec

-----------------------------------------------------------------------------
(* The Wi-Fi form                                                          *)

\* An encryption, or no password.
KeyFits(n) == n.enc = "none" => n.key = "none"

\* The select shows one of its options.
Chosen(n) == n.enc # ""

LEMMA BandsArePanels == \A b \in Bands : b \in Panels /\ Other(b) \in Bands /\ Other(b) # b /\ b # "smart"
BY DEF Bands, Panels, Other

LEMMA NamesTyped ==
    /\ NoName \in Names
    /\ \A n \in Names : cleanSsidSuffix(n) \in Names
    /\ \A n \in Names, b \in Bands : smartConvertSsid(n, b) \in Names
<1>1. NoName \in Names
  BY DEF NoName, Names
<1>2. ASSUME NEW n \in Names PROVE cleanSsidSuffix(n) \in Names
  BY DEF cleanSsidSuffix, Names
<1>3. ASSUME NEW n \in Names, NEW b \in Bands PROVE smartConvertSsid(n, b) \in Names
  <2>1. (IF n.base = "none" THEN "OpenWrt" ELSE n.base) \in {"none", "home", "OpenWrt"}
    BY DEF Names
  <2> QED
    BY <2>1 DEF smartConvertSsid, Names
<1> QED
  BY <1>1, <1>2, <1>3

\* The handlers write some fields of a network and keep the others.
LEMMA NetOn ==
    \A n \in NetRecords, x \in BOOLEAN :
        /\ [n EXCEPT !.on = x] \in NetRecords
        /\ [n EXCEPT !.on = x].on = x /\ [n EXCEPT !.on = x].key = n.key /\ [n EXCEPT !.on = x].enc = n.enc
        /\ [n EXCEPT !.on = x].name = n.name
BY DEF NetRecords

LEMMA NetName ==
    \A n \in NetRecords, x \in Names :
        /\ [n EXCEPT !.name = x] \in NetRecords
        /\ [n EXCEPT !.name = x].on = n.on /\ [n EXCEPT !.name = x].key = n.key
        /\ [n EXCEPT !.name = x].enc = n.enc /\ [n EXCEPT !.name = x].name = x
BY DEF NetRecords

LEMMA NetRoaming ==
    \A n \in NetRecords, x \in BOOLEAN :
        LET m == Roaming(n, x) IN
        /\ m \in NetRecords /\ m.on = n.on /\ m.key = n.key /\ m.name = n.name
        /\ m.enc = IF x THEN "psk2+sae" ELSE n.enc
<1>1. \A n \in NetRecords, x \in BOOLEAN, e \in Encs :
         LET m == [n EXCEPT !.roam = x, !.enc = e] IN
         m \in NetRecords /\ m.on = n.on /\ m.key = n.key /\ m.name = n.name /\ m.enc = e
  BY DEF NetRecords
<1> SUFFICES ASSUME NEW n \in NetRecords, NEW x \in BOOLEAN
             PROVE  LET m == Roaming(n, x) IN
                    /\ m \in NetRecords /\ m.on = n.on /\ m.key = n.key /\ m.name = n.name
                    /\ m.enc = IF x THEN "psk2+sae" ELSE n.enc
  OBVIOUS
<1> DEFINE e == IF x THEN "psk2+sae" ELSE n.enc
<1>2. e \in Encs
  BY DEF NetRecords, Encs, Options
<1>3. Roaming(n, x) = [n EXCEPT !.roam = x, !.enc = e]
  BY DEF Roaming
<1> HIDE DEF e
<1>4. LET m == [n EXCEPT !.roam = x, !.enc = e] IN
      m \in NetRecords /\ m.on = n.on /\ m.key = n.key /\ m.name = n.name /\ m.enc = e
  BY <1>1, <1>2
<1> QED
  BY <1>3, <1>4 DEF e

LEMMA NetFields ==
    \A n \in NetRecords :
        n.on \in BOOLEAN /\ n.name \in Names /\ n.key \in Keys /\ n.enc \in Encs /\ n.roam \in BOOLEAN
BY DEF NetRecords

\* One network of the form is written.
LEMMA OneWritten ==
    ASSUME nets \in [Panels -> NetRecords], NEW p \in Panels, NEW n \in NetRecords,
           nets' = [nets EXCEPT ![p] = n]
    PROVE  /\ nets' \in [Panels -> NetRecords] /\ nets'[p] = n
           /\ \A q \in Panels : q # p => nets'[q] = nets[q]
OBVIOUS

\* What one written network must keep for the form to keep its invariant.
LEMMA WifiWrites ==
    ASSUME WifiInv, FormEdit, UNCHANGED <<conf, single, smart, backup, orig, primed>>, tab' \in Bands,
           nets' \in [Panels -> NetRecords],
           copied' \in BOOLEAN, switched' \in BOOLEAN, copied => copied', switched => switched',
           force' \in BOOLEAN, dirty' \subseteq Panels,
           ~force' => ~force /\ dirty' = dirty,
           ~copied' => \A p \in Panels : KeyFits(nets[p]) => KeyFits(nets'[p]),
           (\A p \in Panels : Chosen(nets[p])) => \A p \in Panels : Chosen(nets'[p]),
           ~switched' => \A p \in Panels : nets'[p].on = nets[p].on
    PROVE  WifiInv'
<1>1. WifiTypeInv'
  BY WifiAssumption DEF WifiInv, WifiTypeInv, WifiTypeOK, FormEdit
<1>2. NoIdleKey' /\ NoIdleFields'
  BY DEF WifiInv, NoIdleKey, NoIdleFields, KeyFits
<1>3. MarksKept'
  BY DEF WifiInv, MarksKept
<1>4. StaysOn'
  BY BandsArePanels DEF WifiInv, StaysOn, OneBandOff, LoadedSmart, FormEnc, Panels
<1>5. NoBlank'
  BY DEF WifiInv, NoBlank, Chosen, Blanked, Assigned, FormEnc
<1> QED
  BY <1>1, <1>2, <1>3, <1>4, <1>5 DEF WifiInv

\* Typing and roaming: one network that is displayed.
LEMMA TypingKeeps ==
    ASSUME WifiInv, NEW p \in Panels,
           \/ \E n \in {NoName, [base |-> "home", tail |-> "plain"]} : TypeName(p, n)
           \/ \E k \in Keys : TypeKey(p, k)
           \/ \E e \in {"none", "psk2"} : ChooseEnc(p, e)
           \/ ToggleRoaming(p)
    PROVE  WifiInv'
<1>0. /\ nets \in [Panels -> NetRecords] /\ nets[p] \in NetRecords
      /\ copied \in BOOLEAN /\ switched \in BOOLEAN /\ force \in BOOLEAN /\ dirty \subseteq Panels /\ tab \in Bands
  BY DEF WifiInv, WifiTypeInv, WifiTypeOK
<1>1. ASSUME NEW n \in NetRecords, Write(p, n), n.on = nets[p].on, KeyFits(nets[p]) => KeyFits(n),
             Chosen(nets[p]) => Chosen(n),
             UNCHANGED <<bookkeeping, smart, tab, copied, switched>>,
             force' \in BOOLEAN, dirty' \subseteq Panels, ~force' => ~force /\ dirty' = dirty
      PROVE  WifiInv'
  <2>1. /\ nets' \in [Panels -> NetRecords] /\ nets'[p] = n
        /\ \A q \in Panels : q # p => nets'[q] = nets[q]
    BY <1>0, <1>1, OneWritten DEF Write
  <2>2. FormEdit /\ UNCHANGED <<conf, single, smart, backup, orig, primed, tab, copied, switched>>
    BY <1>1 DEF Write, bookkeeping
  <2>3. \A q \in Panels : nets'[q].on = nets[q].on /\ (KeyFits(nets[q]) => KeyFits(nets'[q]))
    BY <1>1, <2>1
  <2>4. (\A q \in Panels : Chosen(nets[q])) => \A q \in Panels : Chosen(nets'[q])
    BY <1>1, <2>1
  <2> QED
    BY <1>0, <1>1, <2>1, <2>2, <2>3, <2>4, WifiWrites
<1>2. ASSUME NEW n \in {NoName, [base |-> "home", tail |-> "plain"]}, TypeName(p, n) PROVE WifiInv'
  <2>1. n \in Names
    BY NamesTyped DEF Names
  <2> DEFINE m == [nets[p] EXCEPT !.name = n]
  <2>2. m \in NetRecords /\ m.on = nets[p].on /\ m.key = nets[p].key /\ m.enc = nets[p].enc
    BY <1>0, <2>1, NetName
  <2>3. Write(p, m) /\ UNCHANGED <<bookkeeping, smart, tab, dirty, force, copied, switched>>
    BY <1>2 DEF TypeName
  <2> HIDE DEF m
  <2>4. UNCHANGED <<bookkeeping, smart, tab, copied, switched>> /\ force' = force /\ dirty' = dirty
    BY <2>3
  <2>5. (KeyFits(nets[p]) => KeyFits(m)) /\ (Chosen(nets[p]) => Chosen(m))
    BY <2>2 DEF KeyFits, Chosen
  <2> QED
    BY <1>0, <1>1, <2>2, <2>3, <2>4, <2>5
<1>3. ASSUME NEW k \in Keys, TypeKey(p, k) PROVE WifiInv'
  <2> DEFINE e == IF k = "none" THEN "none" ELSE IF nets[p].enc = "none" THEN "psk2+sae" ELSE nets[p].enc
  <2> DEFINE m == [nets[p] EXCEPT !.key = k, !.enc = e]
  <2>1. e \in Encs /\ (e = "none" => k = "none") /\ (nets[p].enc # "" => e # "")
    BY <1>0, NetFields DEF Encs, Options
  <2>3. Write(p, m) /\ UNCHANGED <<bookkeeping, smart, tab, dirty, force, copied, switched>>
    BY <1>3 DEF TypeKey
  <2> HIDE DEF e
  <2>2. m \in NetRecords /\ m.on = nets[p].on /\ m.key = k /\ m.enc = e
    BY <1>0, <2>1 DEF NetRecords
  <2> HIDE DEF m
  <2>4. UNCHANGED <<bookkeeping, smart, tab, copied, switched>> /\ force' = force /\ dirty' = dirty
    BY <2>3
  <2>5. (KeyFits(nets[p]) => KeyFits(m)) /\ (Chosen(nets[p]) => Chosen(m))
    BY <2>1, <2>2 DEF KeyFits, Chosen
  <2> QED
    BY <1>0, <1>1, <2>2, <2>3, <2>4, <2>5
<1>4. ASSUME NEW e \in {"none", "psk2"}, ChooseEnc(p, e) PROVE WifiInv'
  <2> DEFINE k == IF e = "none" THEN "none" ELSE nets[p].key
  <2> DEFINE m == [nets[p] EXCEPT !.enc = e, !.key = k]
  <2>1. e \in Encs /\ k \in Keys /\ (e = "none" => k = "none")
    BY <1>0, NetFields DEF Encs, Options, Keys
  <2>3. Write(p, m) /\ UNCHANGED <<bookkeeping, smart, tab, dirty, force, copied, switched>>
    BY <1>4 DEF ChooseEnc
  <2> HIDE DEF k
  <2>2. m \in NetRecords /\ m.on = nets[p].on /\ m.key = k /\ m.enc = e
    BY <1>0, <2>1 DEF NetRecords
  <2> HIDE DEF m
  <2>4. UNCHANGED <<bookkeeping, smart, tab, copied, switched>> /\ force' = force /\ dirty' = dirty
    BY <2>3
  <2>5. (KeyFits(nets[p]) => KeyFits(m)) /\ (Chosen(nets[p]) => Chosen(m))
    BY <2>1, <2>2 DEF KeyFits, Chosen
  <2> QED
    BY <1>0, <1>1, <2>2, <2>3, <2>4, <2>5
<1>5. CASE ToggleRoaming(p)
  <2> DEFINE m == Roaming(nets[p], ~nets[p].roam)
  <2>1. (~nets[p].roam) \in BOOLEAN
    OBVIOUS
  <2>2. /\ m \in NetRecords /\ m.on = nets[p].on /\ m.key = nets[p].key
        /\ m.enc = nets[p].enc \/ m.enc = "psk2+sae"
    BY <1>0, <2>1, NetRoaming
  <2>3. Write(p, m) /\ Clean({p}) /\ UNCHANGED <<bookkeeping, smart, tab, copied, switched>>
    BY <1>5 DEF ToggleRoaming
  <2> HIDE DEF m
  <2>4. force' \in BOOLEAN /\ dirty' \subseteq Panels /\ (~force' => ~force /\ dirty' = dirty)
    BY <1>0, <2>3 DEF Clean
  <2> QED
    BY <1>1, <2>2, <2>3, <2>4 DEF KeyFits, Chosen
<1> QED
  BY <1>2, <1>3, <1>4, <1>5

\* The tab of a band fills its empty fields from the other band.
LEMMA TabbedKeeps ==
    ASSUME WifiInv, NEW b \in Bands
    PROVE  /\ Tabbed(b) \in NetRecords /\ Tabbed(b).on = nets[b].on /\ Tabbed(b).enc = nets[b].enc
           /\ ~(Copies(b) /\ nets[b].enc = "none") => (KeyFits(nets[b]) => KeyFits(Tabbed(b)))
<1>0. b \in Panels /\ Other(b) \in Panels /\ nets[b] \in NetRecords /\ nets[Other(b)] \in NetRecords
  BY BandsArePanels DEF WifiInv, WifiTypeInv, WifiTypeOK
<1> DEFINE n == IF NeedsName(b) THEN Renamed(b) ELSE nets[b].name
           k == IF Copies(b) THEN nets[Other(b)].key ELSE nets[b].key
<1>1. n \in Names /\ k \in Keys
  BY <1>0, NetFields, NamesTyped DEF Renamed
<1>2. Tabbed(b) = [nets[b] EXCEPT !.name = n, !.key = k]
  BY DEF Tabbed
<1>3. ~Copies(b) => k = nets[b].key
  OBVIOUS
<1> HIDE DEF n, k
<1>4. /\ Tabbed(b) \in NetRecords /\ Tabbed(b).on = nets[b].on /\ Tabbed(b).key = k
      /\ Tabbed(b).enc = nets[b].enc
  BY <1>0, <1>1, <1>2 DEF NetRecords
<1> QED
  BY <1>3, <1>4 DEF KeyFits

LEMMA ClickTabKeeps == ASSUME WifiInv, NEW b \in Bands, ClickTab(b) PROVE WifiInv'
<1>0. /\ nets \in [Panels -> NetRecords] /\ b \in Panels
      /\ copied \in BOOLEAN /\ switched \in BOOLEAN /\ force \in BOOLEAN /\ dirty \subseteq Panels
  BY BandsArePanels DEF WifiInv, WifiTypeInv, WifiTypeOK
<1>1. /\ FormEdit /\ tab' = b /\ nets' = [nets EXCEPT ![b] = Tabbed(b)]
      /\ copied' = (copied \/ (Copies(b) /\ nets[b].enc = "none"))
      /\ UNCHANGED <<conf, single, primed, backup, orig, smart, dirty, force, switched>>
  BY DEF ClickTab, bookkeeping
<1>2. /\ nets' \in [Panels -> NetRecords] /\ nets'[b] = Tabbed(b)
      /\ \A q \in Panels : q # b => nets'[q] = nets[q]
  BY <1>0, <1>1, TabbedKeeps, OneWritten
<1>3. \A q \in Panels : nets'[q].on = nets[q].on
  BY <1>2, TabbedKeeps
<1>4. ~copied' => \A q \in Panels : KeyFits(nets[q]) => KeyFits(nets'[q])
  BY <1>1, <1>2, TabbedKeeps
<1>5. copied' \in BOOLEAN /\ (copied => copied')
  BY <1>1
<1>6. \A q \in Panels : Chosen(nets[q]) => Chosen(nets'[q])
  BY <1>2, TabbedKeeps DEF Chosen
<1> QED
  BY <1>0, <1>1, <1>2, <1>3, <1>4, <1>5, <1>6, WifiWrites

LEMMA ToggleBandKeeps == ASSUME WifiInv, NEW b \in Bands, ToggleBand(b) PROVE WifiInv'
<1> DEFINE on == ~nets[b].on
           t == Tabbed(b)
           o == nets[Other(b)]
           same == on /\ single /\ o.name # NoName /\ t.name = o.name
           k == IF same /\ t.key = "none" THEN o.key ELSE t.key
           e == IF same THEN o.enc ELSE t.enc
           m == [t EXCEPT !.on = on, !.key = k, !.enc = e]
           m2 == IF on /\ single THEN Off(o) ELSE o
<1>0. /\ nets \in [Panels -> NetRecords] /\ b \in Panels /\ Other(b) \in Panels /\ Other(b) # b
      /\ copied \in BOOLEAN /\ switched \in BOOLEAN /\ force \in BOOLEAN /\ dirty \subseteq Panels
  BY BandsArePanels DEF WifiInv, WifiTypeInv, WifiTypeOK
<1>1. /\ FormEdit /\ tab' = b /\ switched' = TRUE
      /\ UNCHANGED <<conf, single, primed, backup, orig, smart, dirty, force>>
  BY DEF ToggleBand, bookkeeping
<1>2. nets' = [nets EXCEPT ![b] = m, ![Other(b)] = m2]
  BY Zenon DEF ToggleBand
<1>3. copied' = (copied \/ same \/ (Copies(b) /\ nets[b].enc = "none"))
  BY Zenon DEF ToggleBand
<1>4. t \in NetRecords /\ o \in NetRecords /\ t.enc = nets[b].enc
  BY <1>0, TabbedKeeps
<1>5. /\ on \in BOOLEAN /\ k \in Keys /\ e \in Encs
  BY <1>4, NetFields
<1>6. m2 \in NetRecords /\ m2.key = o.key /\ m2.enc = o.enc
  <2>1. FALSE \in BOOLEAN
    OBVIOUS
  <2>2. Off(o) \in NetRecords /\ Off(o).key = o.key /\ Off(o).enc = o.enc
    BY <1>4, <2>1, NetOn, Zenon DEF Off
  <2> QED
    BY <1>4, <2>2
<1>7. m \in NetRecords /\ m.key = k /\ m.enc = e
  <2> HIDE DEF t, k, e, on
  <2> QED
    BY <1>4, <1>5 DEF NetRecords
<1>8. ~copied' => (KeyFits(nets[b]) => KeyFits(m))
  BY <1>3, <1>7, TabbedKeeps DEF KeyFits
<1>9. KeyFits(nets[Other(b)]) => KeyFits(m2)
  BY <1>6 DEF KeyFits
<1>10. copied' \in BOOLEAN /\ (copied => copied')
  BY <1>3
<1>13. Chosen(nets[b]) /\ Chosen(nets[Other(b)]) => Chosen(m) /\ Chosen(m2)
  BY <1>4, <1>6, <1>7 DEF Chosen
<1> HIDE DEF m, m2
<1>11. /\ nets' \in [Panels -> NetRecords] /\ nets'[b] = m /\ nets'[Other(b)] = m2
       /\ \A q \in Panels : q # b /\ q # Other(b) => nets'[q] = nets[q]
  BY <1>0, <1>2, <1>6, <1>7
<1>12. ~copied' => \A q \in Panels : KeyFits(nets[q]) => KeyFits(nets'[q])
  BY <1>8, <1>9, <1>11
<1>14. (\A q \in Panels : Chosen(nets[q])) => \A q \in Panels : Chosen(nets'[q])
  BY <1>0, <1>11, <1>13
<1> QED
  BY <1>0, <1>1, <1>10, <1>11, <1>12, <1>14, WifiWrites

LEMMA ToggleMergedKeeps == ASSUME WifiInv, ToggleMerged PROVE WifiInv'
<1> DEFINE m == [nets["smart"] EXCEPT !.on = ~nets["smart"].on]
<1>0. /\ nets \in [Panels -> NetRecords] /\ "smart" \in Panels /\ tab \in Bands
      /\ copied \in BOOLEAN /\ switched \in BOOLEAN /\ force \in BOOLEAN /\ dirty \subseteq Panels
  BY DEF WifiInv, WifiTypeInv, WifiTypeOK, Panels
<1>1. /\ FormEdit /\ nets' = [nets EXCEPT !["smart"] = m] /\ switched' = TRUE
      /\ UNCHANGED <<conf, single, primed, backup, orig, smart, tab, dirty, force, copied>>
  BY DEF ToggleMerged, Write, bookkeeping
<1>2. (~nets["smart"].on) \in BOOLEAN
  OBVIOUS
<1>3. m \in NetRecords /\ m.key = nets["smart"].key /\ m.enc = nets["smart"].enc
  BY <1>0, <1>2, NetOn
<1> HIDE DEF m
<1>4. /\ nets' \in [Panels -> NetRecords] /\ nets'["smart"] = m
      /\ \A q \in Panels : q # "smart" => nets'[q] = nets[q]
  BY <1>0, <1>1, <1>3, OneWritten
<1>5. \A q \in Panels : (KeyFits(nets[q]) => KeyFits(nets'[q])) /\ (Chosen(nets[q]) => Chosen(nets'[q]))
  BY <1>3, <1>4 DEF KeyFits, Chosen
<1> QED
  BY <1>0, <1>1, <1>4, <1>5, WifiWrites

LEMMA SmartOnKeeps == ASSUME WifiInv, SmartOn PROVE WifiInv'
<1> DEFINE pick == IF nets["5g"].on \/ ~nets["2g"].on THEN "5g" ELSE "2g"
           first == nets[pick].name # NoName /\ ~primed
           x == cleanSsidSuffix(nets[pick].name)
           filled == [nets["smart"] EXCEPT !.name = x, !.key = nets[pick].key, !.enc = nets[pick].enc]
           merged == IF first THEN filled ELSE nets["smart"]
           bands == [b \in Bands |-> nets[b]]
           m == Roaming(merged, TRUE)
<1>0. /\ nets \in [Panels -> NetRecords] /\ "smart" \in Panels /\ pick \in Panels /\ tab \in Bands
      /\ copied \in BOOLEAN /\ switched \in BOOLEAN /\ force \in BOOLEAN /\ dirty \subseteq Panels
      /\ primed \in BOOLEAN /\ orig \in LoadedSet /\ single \in BOOLEAN
  BY DEF WifiInv, WifiTypeInv, WifiTypeOK, Panels, Bands
<1>1. /\ FormEdit /\ ~single /\ smart' = TRUE /\ nets' = [nets EXCEPT !["smart"] = m]
      /\ UNCHANGED <<conf, single, tab, copied, switched>>
  BY Zenon DEF SmartOn
<1>2. backup' = [made |-> TRUE, split |-> bands] /\ orig' = [orig EXCEPT !.left = bands]
  BY DEF SmartOn
<1>3. primed' = (primed \/ first) /\ Clean({"smart"})
  BY Zenon DEF SmartOn
<1>4. primed' \in BOOLEAN
  BY <1>3
<1>5. /\ m \in NetRecords /\ m.on = nets["smart"].on /\ m.key = merged.key /\ m.enc = "psk2+sae"
  <2>1. x \in Names /\ nets[pick] \in NetRecords /\ nets["smart"] \in NetRecords
    BY <1>0, NamesTyped, NetFields
  <2>2. nets[pick].key \in Keys /\ nets[pick].enc \in Encs
    BY <2>1, NetFields
  <2> DEFINE k == nets[pick].key
             e == nets[pick].enc
  <2> HIDE DEF x, k, e
  <2>3. [nets["smart"] EXCEPT !.name = x, !.key = k, !.enc = e] \in NetRecords
        /\ [nets["smart"] EXCEPT !.name = x, !.key = k, !.enc = e].on = nets["smart"].on
    BY <2>1, <2>2 DEF NetRecords, k, e
  <2>4. filled \in NetRecords /\ filled.on = nets["smart"].on
    BY <2>3 DEF k, e
  <2> HIDE DEF filled, first
  <2>5. merged \in NetRecords /\ merged.on = nets["smart"].on
    BY <2>1, <2>4
  <2> HIDE DEF merged
  <2> QED
    BY <2>5, NetRoaming
<1> HIDE DEF m
<1>6. /\ nets' \in [Panels -> NetRecords] /\ nets'["smart"] = m
      /\ \A q \in Panels : q # "smart" => nets'[q] = nets[q]
  BY <1>0, <1>1, <1>5, OneWritten
<1>7. bands \in [Bands -> NetRecords] /\ \A b \in Bands : bands[b] = nets[b]
  BY <1>0, BandsArePanels
<1> HIDE DEF bands
<1>8. /\ orig' \in LoadedSet /\ orig'.left = bands /\ orig'.dirty = orig.dirty
  BY <1>0, <1>2, <1>7 DEF LoadedSet
<1>9. /\ backup' \in [made : BOOLEAN, split : [Bands -> NetRecords]] /\ backup'.split = bands
  BY <1>2, <1>7
<1>10. force' \in BOOLEAN /\ dirty' \subseteq Panels /\ (~force' => ~force /\ dirty' = dirty)
  BY <1>0, <1>3 DEF Clean
<1>11. WifiTypeInv'
  <2>1. formEdits' \in 0..MaxFormEdits
    BY <1>1, WifiAssumption DEF FormEdit, WifiInv, WifiTypeInv, WifiTypeOK
  <2>2. WifiTypeOK'
    BY <1>0, <1>1, <1>6, <1>9, <1>10, <2>1 DEF WifiTypeOK
  <2> QED
    BY <1>0, <1>1, <1>4, <1>8, <1>9, <1>10, <2>2 DEF WifiTypeInv
<1>12. NoIdleKey' /\ NoIdleFields'
  <2> SUFFICES ASSUME ~copied PROVE /\ \A p \in Panels : nets'[p].enc = "none" => nets'[p].key = "none"
                                    /\ \A b \in Bands : bands[b].enc = "none" => bands[b].key = "none"
    BY <1>1, <1>9 DEF NoIdleKey, NoIdleFields
  <2>1. \A p \in Panels : nets[p].enc = "none" => nets[p].key = "none"
    BY DEF WifiInv, NoIdleKey
  <2> QED
    BY <1>5, <1>6, <1>7, <2>1, BandsArePanels
<1>13. MarksKept'
  BY <1>8, <1>10 DEF WifiInv, MarksKept
<1>14. StaysOn'
  <2>1. \A q \in Panels : nets'[q].on = nets[q].on
    BY <1>5, <1>6
  <2> QED
    BY <1>0, <1>1, <2>1, BandsArePanels DEF WifiInv, StaysOn, OneBandOff, LoadedSmart, FormEnc
<1>15. NoBlank'
  <2> SUFFICES ASSUME ~Blanked PROVE /\ \A p \in Panels : nets'[p].enc # ""
                                     /\ \A b \in Bands : bands[b].enc # ""
    BY <1>1, <1>9 DEF NoBlank, Blanked, Assigned, FormEnc
  <2>1. \A p \in Panels : nets[p].enc # ""
    BY DEF WifiInv, NoBlank
  <2> QED
    BY <1>5, <1>6, <1>7, <2>1, BandsArePanels
<1> QED
  BY <1>8, <1>9, <1>11, <1>12, <1>13, <1>14, <1>15 DEF WifiInv

\* What the bands are when the smart switch goes off.
LEMMA SplitIs ==
    ASSUME WifiInv, NEW b \in Bands
    PROVE  /\ Split[b] \in NetRecords /\ Split[b].on = nets[b].on
           /\ (~copied => KeyFits(Split[b])) /\ (~Blanked => Chosen(Split[b]))
           /\ backup.made /\ (\E c \in Bands : orig.left[c].name # NoName) =>
                 /\ Split[b].name = orig.left[b].name /\ Split[b].key = orig.left[b].key
                 /\ Split[b].enc = orig.left[b].enc
<1> DEFINE old == backup.made /\ \E c \in Bands : backup.split[c].name # NoName
           s == backup.split[b]
           g == nets["smart"]
           x == smartConvertSsid(g.name, b)
<1>0. /\ s \in NetRecords /\ g \in NetRecords /\ nets[b] \in NetRecords
      /\ ~copied => (s.enc = "none" => s.key = "none") /\ (g.enc = "none" => g.key = "none")
  BY BandsArePanels DEF WifiInv, WifiTypeInv, WifiTypeOK, NoIdleKey, NoIdleFields, Panels
<1>8. ~Blanked => s.enc # "" /\ g.enc # ""
  BY DEF WifiInv, NoBlank, Panels
<1>1. x \in Names
  BY <1>0, NetFields, NamesTyped
<1>2. s.name \in Names /\ s.key \in Keys /\ s.enc \in Encs /\ g.key \in Keys /\ g.enc \in Encs
  BY <1>0, NetFields
<1>3. Split[b] = IF old THEN [nets[b] EXCEPT !.name = s.name, !.key = s.key, !.enc = s.enc]
                 ELSE [nets[b] EXCEPT !.name = x, !.key = g.key, !.enc = g.enc]
  BY DEF Split
<1>4. backup.split = orig.left
  BY DEF WifiInv
<1>5. s = orig.left[b] /\ (old <=> backup.made /\ \E c \in Bands : orig.left[c].name # NoName)
  BY <1>4
<1> HIDE DEF s, g, x, old
<1>6. CASE old
  <2>1. /\ Split[b] \in NetRecords /\ Split[b].on = nets[b].on /\ Split[b].name = s.name
        /\ Split[b].key = s.key /\ Split[b].enc = s.enc
    BY <1>0, <1>2, <1>3, <1>6 DEF NetRecords
  <2> QED
    BY <1>0, <1>5, <1>8, <2>1 DEF KeyFits, Chosen
<1>7. CASE ~old
  <2>1. /\ Split[b] \in NetRecords /\ Split[b].on = nets[b].on
        /\ Split[b].key = g.key /\ Split[b].enc = g.enc
    BY <1>0, <1>1, <1>2, <1>3, <1>7 DEF NetRecords
  <2> QED
    BY <1>0, <1>5, <1>7, <1>8, <2>1 DEF KeyFits, Chosen
<1> QED
  BY <1>6, <1>7

\* The same after the roaming switches are set as the code sets them.
LEMMA BandsComeBack ==
    ASSUME WifiInv, SmartOff, NEW b \in Bands
    PROVE  /\ nets'[b] = Roaming(Split[b], b = "5g") /\ nets'[b] \in NetRecords
           /\ nets'[b].on = nets[b].on /\ nets'[b].name = Split[b].name /\ nets'[b].key = Split[b].key
           /\ nets'[b].enc = IF b = "5g" THEN "psk2+sae" ELSE Split[b].enc
<1>0. b \in Panels /\ b # "smart"
  BY BandsArePanels
<1>1. nets'[b] = Roaming(Split[b], b = "5g")
  <2>1. nets' = [p \in Panels |-> IF p = "smart" THEN nets[p] ELSE Roaming(Split[p], p = "5g")]
    BY DEF SmartOff
  <2> QED
    BY <1>0, <2>1
<1>2. Split[b] \in NetRecords /\ (b = "5g") \in BOOLEAN /\ Split[b].on = nets[b].on
  BY SplitIs
<1> DEFINE n == Split[b]
           x == b = "5g"
           m == Roaming(n, x)
<1>3. n \in NetRecords /\ x \in BOOLEAN /\ nets'[b] = m
  BY <1>1, <1>2
<1> HIDE DEF n, x
<1>4. /\ m \in NetRecords /\ m.on = n.on /\ m.key = n.key /\ m.name = n.name
      /\ m.enc = IF x THEN "psk2+sae" ELSE n.enc
  BY <1>3, NetRoaming
<1> HIDE DEF m
<1>5. /\ nets'[b] \in NetRecords /\ nets'[b].on = n.on /\ nets'[b].name = n.name /\ nets'[b].key = n.key
      /\ nets'[b].enc = IF x THEN "psk2+sae" ELSE n.enc
  BY <1>3, <1>4
<1> QED
  BY <1>1, <1>2, <1>5 DEF n, x

LEMMA SmartOffKeeps == ASSUME WifiInv, SmartOff PROVE WifiInv'
<1>0. /\ nets \in [Panels -> NetRecords] /\ "smart" \in Panels /\ tab \in Bands
      /\ copied \in BOOLEAN /\ switched \in BOOLEAN /\ force \in BOOLEAN /\ dirty \subseteq Panels
      /\ primed \in BOOLEAN /\ single \in BOOLEAN
  BY DEF WifiInv, WifiTypeInv, WifiTypeOK, Panels
<1>1. /\ FormEdit /\ smart' = FALSE /\ Clean(Bands)
      /\ UNCHANGED <<conf, single, primed, backup, orig, tab, copied, switched>>
      /\ nets' = [p \in Panels |-> IF p = "smart" THEN nets[p] ELSE Roaming(Split[p], p = "5g")]
  BY DEF SmartOff, bookkeeping
<1>2. nets'["smart"] = nets["smart"]
  BY <1>0, <1>1
<1>3. nets' \in [Panels -> NetRecords]
  <2>1. \A p \in Panels : nets'[p] \in NetRecords
    BY <1>0, <1>2, BandsComeBack DEF Panels
  <2> QED
    BY <1>1, <2>1
<1>4. force' \in BOOLEAN /\ dirty' \subseteq Panels /\ (~force' => ~force /\ dirty' = dirty)
  BY <1>0, <1>1 DEF Clean
<1>5. WifiTypeInv'
  <2>1. formEdits' \in 0..MaxFormEdits
    BY <1>1, WifiAssumption DEF FormEdit, WifiInv, WifiTypeInv, WifiTypeOK
  <2>2. WifiTypeOK'
    BY <1>0, <1>1, <1>3, <1>4, <2>1 DEF WifiInv, WifiTypeInv, WifiTypeOK
  <2> QED
    BY <1>0, <1>1, <1>4, <2>2 DEF WifiInv, WifiTypeInv
<1>6. NoIdleKey' /\ NoIdleFields'
  <2> SUFFICES ASSUME ~copied PROVE \A p \in Panels : nets'[p].enc = "none" => nets'[p].key = "none"
    BY <1>1 DEF WifiInv, NoIdleKey, NoIdleFields
  <2>1. nets["smart"].enc = "none" => nets["smart"].key = "none"
    BY <1>0 DEF WifiInv, NoIdleKey
  <2>2. \A b \in Bands : nets'[b].enc = "none" => nets'[b].key = "none"
    BY BandsComeBack, SplitIs DEF KeyFits
  <2> QED
    BY <1>2, <2>1, <2>2 DEF Panels
<1>7. MarksKept'
  BY <1>1, <1>4 DEF WifiInv, MarksKept
<1>8. StaysOn'
  <2>1. \A b \in Bands : nets'[b].on = nets[b].on
    BY BandsComeBack
  <2> QED
    BY <1>1, <1>2, <2>1 DEF WifiInv, StaysOn, OneBandOff, LoadedSmart, FormEnc
<1>9. NoBlank'
  <2> SUFFICES ASSUME ~Blanked PROVE \A p \in Panels : nets'[p].enc # ""
    BY <1>1 DEF WifiInv, NoBlank, Blanked, Assigned, FormEnc
  <2>1. nets["smart"].enc # ""
    BY <1>0 DEF WifiInv, NoBlank
  <2>2. \A b \in Bands : nets'[b].enc # ""
    BY BandsComeBack, SplitIs DEF Chosen
  <2> QED
    BY <1>2, <2>1, <2>2 DEF Panels
<1> QED
  BY <1>1, <1>5, <1>6, <1>7, <1>8, <1>9 DEF WifiInv

LEMMA WifiStep == WifiInv /\ [WifiNext]_wifiVars => WifiInv'
<1> SUFFICES ASSUME WifiInv, [WifiNext]_wifiVars PROVE WifiInv'
  OBVIOUS
<1>1. CASE UNCHANGED wifiVars
  BY <1>1 DEF wifiVars, WifiInv, WifiTypeInv, WifiTypeOK, NoIdleKey, NoIdleFields, NoBlank, MarksKept, StaysOn,
              OneBandOff, LoadedSmart, Blanked, Assigned, FormEnc
<1> QED
  BY <1>1, TypingKeeps, ClickTabKeeps, ToggleBandKeeps, ToggleMergedKeeps, SmartOnKeeps, SmartOffKeeps DEF WifiNext

-----------------------------------------------------------------------------
(* The Wi-Fi form as it is filled                                          *)

RouterEncs == {"none", "psk2", "sae-mixed", "psk2+ccmp"}
ConfSet == [on : BOOLEAN, name : Names, key : Keys, enc : RouterEncs, r : BOOLEAN, ours : BOOLEAN]

LEMMA RouterTyped ==
    ASSUME NEW b \in Bands, NEW c \in RouterBands(b) \cup {NoIface}
    PROVE  c \in ConfSet /\ Off(c) \in ConfSet /\ ~Off(c).on /\ KeyFits(c) /\ KeyFits(Off(c))
<1>1. FALSE \in BOOLEAN /\ TRUE \in BOOLEAN
  OBVIOUS
<1>2. ASSUME NEW on \in BOOLEAN, NEW t \in {"plain"} \cup Bands, NEW k \in Keys,
             NEW e \in RouterEncs, NEW r \in BOOLEAN, NEW o \in BOOLEAN
      PROVE  Config(on, t, k, e, r, o) \in ConfSet
  <2>1. [base |-> "home", tail |-> t] \in Names
    BY DEF Names
  <2> QED
    BY <2>1 DEF Config, ConfSet
<1>3. NoIface \in ConfSet
  <2> DEFINE i == Config(FALSE, "plain", "none", "none", FALSE, FALSE)
  <2>1. i \in ConfSet
    BY <1>1, <1>2 DEF Keys, RouterEncs
  <2> HIDE DEF i
  <2>2. [i EXCEPT !.name = NoName] \in ConfSet
    BY <2>1, NamesTyped DEF ConfSet
  <2> QED
    BY <2>2 DEF NoIface, i
<1>4. c \in ConfSet
  <2>1. \A x \in RouterBands(b) : x \in ConfSet
    <3>1. /\ {"plain", b} \subseteq {"plain"} \cup Bands /\ {"good", "none"} \subseteq Keys
          /\ {"none", "psk2", "sae-mixed", "psk2+ccmp"} \subseteq RouterEncs
      BY DEF Keys, RouterEncs
    <3>2. /\ Config(TRUE, "plain", "good", "sae-mixed", FALSE, FALSE) \in ConfSet
          /\ Config(TRUE, b, "good", "psk2", TRUE, FALSE) \in ConfSet
          /\ Config(TRUE, "plain", "none", "none", FALSE, FALSE) \in ConfSet
      BY <1>1, <1>2, <3>1
    <3>3. /\ Config(FALSE, b, "good", "psk2", TRUE, TRUE) \in ConfSet
          /\ Config(TRUE, "plain", "good", "psk2+ccmp", FALSE, FALSE) \in ConfSet
      BY <1>1, <1>2, <3>1
    <3> QED
      BY <3>2, <3>3, Zenon DEF RouterBands
  <2> QED
    BY <1>3, <2>1
<1>5. KeyFits(c)
  BY DEF RouterBands, NoIface, Config, KeyFits
<1>6. Off(c) \in ConfSet /\ Off(c).on = FALSE /\ Off(c).key = c.key /\ Off(c).enc = c.enc
  BY <1>1, <1>4 DEF Off, ConfSet
<1> QED
  BY <1>4, <1>5, <1>6 DEF KeyFits

\* A band of the router is a network of the form, with an encryption that its select has.
LEMMA FilledTyped ==
    ASSUME NEW c \in ConfSet, KeyFits(c), NEW e \in Encs, e = "none" => c.enc = "none"
    PROVE  /\ Filled(c, e) \in NetRecords /\ Filled(c, e).on = c.on /\ KeyFits(Filled(c, e))
           /\ Filled(c, e).name = c.name /\ Filled(c, e).enc = e
<1>2. c.on \in BOOLEAN /\ c.name \in Names /\ c.key \in Keys /\ c.r \in BOOLEAN
  BY DEF ConfSet
<1>3. Filled(c, e) = [on |-> c.on, name |-> c.name, key |-> c.key, enc |-> e, roam |-> c.r]
  BY DEF Filled
<1>4. Filled(c, e) \in NetRecords
  BY <1>2, <1>3 DEF NetRecords
<1> QED
  BY <1>3, <1>4 DEF KeyFits

\* Two chips: the select is blank when it does not have the value.
LEMMA MultiFilled ==
    ASSUME NEW c \in ConfSet, KeyFits(c)
    PROVE  /\ FilledMulti(c) \in NetRecords /\ FilledMulti(c).on = c.on /\ KeyFits(FilledMulti(c))
           /\ FilledMulti(c).enc = Assigned(FormEnc(c.enc))
<1>1. Assigned(FormEnc(c.enc)) \in Encs /\ (Assigned(FormEnc(c.enc)) = "none" => c.enc = "none")
  BY DEF Assigned, FormEnc, Encs, Options
<1> QED
  BY <1>1, FilledTyped DEF FilledMulti

\* One chip: it keeps the option that it had.
LEMMA SingleFilled ==
    ASSUME NEW c \in ConfSet, KeyFits(c)
    PROVE  /\ FilledSingle(c) \in NetRecords /\ FilledSingle(c).on = c.on /\ KeyFits(FilledSingle(c))
           /\ Chosen(FilledSingle(c))
<1>1. /\ Guarded(FormEnc(c.enc)) \in Encs /\ (Guarded(FormEnc(c.enc)) = "none" => c.enc = "none")
      /\ Guarded(FormEnc(c.enc)) # ""
  BY DEF Guarded, FormEnc, Encs, Options, BlankNet
<1> QED
  BY <1>1, FilledTyped DEF FilledSingle, Chosen

LEMMA BlankTyped == BlankNet \in NetRecords /\ BlankNet.on /\ KeyFits(BlankNet) /\ Chosen(BlankNet)
<1>1. TRUE \in BOOLEAN /\ FALSE \in BOOLEAN /\ "none" \in Keys /\ "psk2+sae" \in Encs
  BY DEF Keys, Encs, Options
<1>2. \A a, r \in BOOLEAN, x \in Names, k \in Keys, e \in Encs :
         [on |-> a, name |-> x, key |-> k, enc |-> e, roam |-> r] \in NetRecords
  BY DEF NetRecords
<1>3. BlankNet \in NetRecords
  BY <1>1, <1>2, NamesTyped, Zenon DEF BlankNet
<1> QED
  BY <1>3 DEF BlankNet, KeyFits, Chosen

LEMMA OffTyped ==
    ASSUME NEW n \in NetRecords, NEW x \in Names, KeyFits(n)
    PROVE  /\ Off(n) \in NetRecords /\ KeyFits(Off(n)) /\ Off(n).enc = n.enc
           /\ [n EXCEPT !.name = x] \in NetRecords /\ KeyFits([n EXCEPT !.name = x])
           /\ [n EXCEPT !.name = x].enc = n.enc
<1>1. FALSE \in BOOLEAN
  OBVIOUS
<1>2. Off(n) \in NetRecords /\ KeyFits(Off(n)) /\ Off(n).enc = n.enc
  BY <1>1 DEF Off, NetRecords, KeyFits
<1>3. /\ [n EXCEPT !.name = x] \in NetRecords /\ KeyFits([n EXCEPT !.name = x])
      /\ [n EXCEPT !.name = x].enc = n.enc
  BY DEF NetRecords, KeyFits
<1> QED
  BY <1>2, <1>3

\* The networks of a device with one chip: its band as it is, the other one off.
LEMMA SingleTyped ==
    ASSUME NEW main \in Bands, NEW c \in [Bands -> ConfSet], \A b \in Bands : KeyFits(c[b])
    PROVE  /\ LoadSingle(c, main) \in [Panels -> NetRecords]
           /\ \A p \in Panels : KeyFits(LoadSingle(c, main)[p]) /\ Chosen(LoadSingle(c, main)[p])
           /\ LoadSingle(c, main)["smart"].on /\ LoadSingle(c, main)[main].on = c[main].on
<1> DEFINE act == FilledSingle(c[main])
           inact == FilledSingle(c[Other(main)])
           renamed == smartConvertSsid(act.name, Other(main))
           idle == IF inact.name = NoName THEN [act EXCEPT !.name = renamed]
                   ELSE IF inact.name = act.name THEN [inact EXCEPT !.name = renamed] ELSE inact
           f == LoadSingle(c, main)
<1>1. /\ act \in NetRecords /\ KeyFits(act) /\ act.on = c[main].on /\ inact \in NetRecords /\ KeyFits(inact)
      /\ renamed \in Names /\ Chosen(act) /\ Chosen(inact)
  <2>1. Other(main) \in Bands
    BY BandsArePanels
  <2>2. /\ act \in NetRecords /\ KeyFits(act) /\ act.on = c[main].on /\ inact \in NetRecords /\ KeyFits(inact)
        /\ Chosen(act) /\ Chosen(inact)
    BY <2>1, SingleFilled
  <2> QED
    BY <2>1, <2>2, NetFields, NamesTyped
<1>2. f = [p \in Panels |-> IF p = main THEN act ELSE IF p = "smart" THEN BlankNet ELSE Off(idle)]
  BY DEF LoadSingle
<1> HIDE DEF act, inact, renamed, f
<1>3. idle \in NetRecords /\ KeyFits(idle) /\ Chosen(idle)
  BY <1>1, OffTyped DEF Chosen
<1>8. Off(idle) \in NetRecords /\ KeyFits(Off(idle)) /\ Chosen(Off(idle))
  BY <1>1, <1>3, OffTyped DEF Chosen
<1> HIDE DEF idle
<1>9. main \in Panels /\ main # "smart" /\ "smart" \in Panels
  BY BandsArePanels DEF Panels
<1>4. f[main] = act /\ f["smart"] = BlankNet /\ \A p \in Panels : f[p] \in {act, BlankNet, Off(idle)}
  BY <1>2, <1>9
<1>6. \A p \in Panels : f[p] \in NetRecords /\ KeyFits(f[p]) /\ Chosen(f[p])
  BY <1>1, <1>4, <1>8, BlankTyped
<1>7. f \in [Panels -> NetRecords]
  BY <1>2, <1>6
<1> QED
  BY <1>1, <1>4, <1>6, <1>7, BlankTyped DEF f

\* The networks of a device with two: merged, or each as it is.
LEMMA MultiTyped ==
    ASSUME NEW c \in [Bands -> ConfSet], \A b \in Bands : KeyFits(c[b])
    PROVE  /\ LoadMulti(c) \in [Panels -> NetRecords]
           /\ \A p \in Panels : KeyFits(LoadMulti(c)[p])
           /\ (\A b \in Bands : Assigned(FormEnc(c[b].enc)) # "") => \A p \in Panels : Chosen(LoadMulti(c)[p])
           /\ (LoadedSmart(c) => \A b \in Bands : c[b].on) =>
                 LoadMulti(c)["smart"].on /\ \A b \in Bands : c[b].on => LoadMulti(c)[b].on
<1> DEFINE f == LoadMulti(c)
           both == c["2g"].on /\ c["5g"].on
           g == [FilledMulti(c["2g"]) EXCEPT !.on = both]
           taken == \A b \in Bands : Assigned(FormEnc(c[b].enc)) # ""
<1>1. "2g" \in Bands /\ "5g" \in Bands /\ "smart" \in Panels
  BY DEF Bands, Panels
<1>2. \A b \in Bands : /\ FilledMulti(c[b]) \in NetRecords /\ KeyFits(FilledMulti(c[b]))
                       /\ FilledMulti(c[b]).on = c[b].on /\ (taken => Chosen(FilledMulti(c[b])))
  BY MultiFilled DEF Chosen
<1> HIDE DEF taken
<1>3. g \in NetRecords /\ KeyFits(g) /\ g.on = both /\ (taken => Chosen(g))
  <2>1. both \in BOOLEAN
    OBVIOUS
  <2> HIDE DEF both
  <2>2. FilledMulti(c["2g"]) \in NetRecords /\ KeyFits(FilledMulti(c["2g"])) /\ (taken => Chosen(FilledMulti(c["2g"])))
    BY <1>1, <1>2
  <2> QED
    BY <2>1, <2>2, NetOn DEF KeyFits, Chosen
<1>4. f = [p \in Panels |->
             IF LoadedSmart(c) THEN IF p = "smart" THEN g ELSE BlankNet
                               ELSE IF p = "smart" THEN BlankNet ELSE FilledMulti(c[p])]
  BY Zenon DEF LoadMulti
<1> HIDE DEF f, g
<1>5. CASE LoadedSmart(c)
  <2>1. f = [p \in Panels |-> IF p = "smart" THEN g ELSE BlankNet]
    BY <1>4, <1>5
  <2>2. f["smart"] = g /\ \A b \in Bands : f[b] = BlankNet
    BY <1>1, <2>1, BandsArePanels
  <2>3. f \in [Panels -> NetRecords] /\ \A p \in Panels : KeyFits(f[p]) /\ (taken => Chosen(f[p]))
    BY <1>3, <2>1, BlankTyped
  <2> QED
    BY <1>1, <1>3, <1>5, <2>2, <2>3, BlankTyped DEF f, taken
<1>6. CASE ~LoadedSmart(c)
  <2>1. f = [p \in Panels |-> IF p = "smart" THEN BlankNet ELSE FilledMulti(c[p])]
    BY <1>4, <1>6
  <2>2. f["smart"] = BlankNet /\ \A b \in Bands : f[b] = FilledMulti(c[b])
    BY <1>1, <2>1, BandsArePanels
  <2>3. \A p \in Panels : f[p] \in NetRecords /\ KeyFits(f[p]) /\ (taken => Chosen(f[p]))
    BY <1>2, <2>2, BlankTyped DEF Panels
  <2>4. f \in [Panels -> NetRecords]
    BY <2>1, <2>3
  <2> QED
    BY <1>2, <2>2, <2>3, <2>4, BlankTyped DEF f, taken
<1> QED
  BY <1>5, <1>6

LEMMA WifiStart == WifiInit => WifiInv
<1> SUFFICES ASSUME WifiInit PROVE WifiInv
  OBVIOUS
<1> DEFINE C(one, main, mine, second) ==
               [b \in Bands |-> IF b = main THEN mine ELSE IF one THEN Off(second) ELSE second]
           AsLoaded(one, main, mine, second) ==
               LET k == C(one, main, mine, second) IN
               /\ one \/ (main = "2g" /\ second # NoIface)
               /\ conf = k /\ single = one /\ tab = (IF one THEN main ELSE "2g")
               /\ smart = (~one /\ LoadedSmart(k))
               /\ nets = SyncRoam(k, main, IF one THEN LoadSingle(k, main) ELSE LoadMulti(k))
               /\ dirty = Dirty(k, main)
               /\ backup = [made |-> FALSE, split |-> [b \in Bands |-> nets[b]]]
               /\ orig = [packed |-> Payload, dirty |-> dirty, left |-> [b \in Bands |-> nets[b]]]
               /\ primed = FALSE /\ force = FALSE /\ copied = FALSE /\ switched = FALSE /\ formEdits = 0
<1>1. \E one \in BOOLEAN, main \in Bands :
      \E mine \in RouterBands(main), second \in RouterBands(Other(main)) \cup {NoIface} :
         AsLoaded(one, main, mine, second)
  BY DEF WifiInit
<1>2. PICK one \in BOOLEAN, main \in Bands :
      \E mine \in RouterBands(main), second \in RouterBands(Other(main)) \cup {NoIface} :
         AsLoaded(one, main, mine, second)
  BY <1>1
<1>17. PICK mine \in RouterBands(main), second \in RouterBands(Other(main)) \cup {NoIface} :
         AsLoaded(one, main, mine, second)
  BY <1>2
<1> DEFINE c == C(one, main, mine, second)
           f == IF one THEN LoadSingle(c, main) ELSE LoadMulti(c)
<1>3. /\ mine \in ConfSet /\ KeyFits(mine) /\ second \in ConfSet /\ KeyFits(second)
      /\ Off(second) \in ConfSet /\ KeyFits(Off(second)) /\ ~Off(second).on
  BY RouterTyped, BandsArePanels
<1>4. c \in [Bands -> ConfSet] /\ (\A b \in Bands : KeyFits(c[b]))
  BY <1>3
<1>5. one => \A b \in Bands : c[b].on => b = main
  BY <1>3
<1>6. /\ conf = c /\ single = one /\ tab = (IF one THEN main ELSE "2g") /\ smart = (~one /\ LoadedSmart(c))
      /\ nets = SyncRoam(c, main, f) /\ dirty = Dirty(c, main)
      /\ backup = [made |-> FALSE, split |-> [b \in Bands |-> nets[b]]]
      /\ orig = [packed |-> Payload, dirty |-> dirty, left |-> [b \in Bands |-> nets[b]]]
      /\ primed = FALSE /\ force = FALSE /\ copied = FALSE /\ switched = FALSE /\ formEdits = 0
  BY <1>17
<1> HIDE DEF c
<1>7. /\ f \in [Panels -> NetRecords] /\ \A p \in Panels : KeyFits(f[p])
      /\ ~(LoadedSmart(c) /\ \E b \in Bands : ~c[b].on) =>
            f["smart"].on /\ \A b \in Bands : c[b].on => f[b].on
      /\ one \/ (\A b \in Bands : Assigned(FormEnc(c[b].enc)) # "") => \A p \in Panels : Chosen(f[p])
  <2>1. CASE one
    BY <1>4, <1>5, <2>1, SingleTyped
  <2>2. CASE ~one
    BY <1>4, <2>2, MultiTyped
  <2> QED
    BY <2>1, <2>2
<1> HIDE DEF f
<1>8. /\ nets \in [Panels -> NetRecords]
      /\ \A p \in Panels : nets[p].on = f[p].on /\ nets[p].key = f[p].key /\ nets[p].enc = f[p].enc
  <2> DEFINE roam(p) == (p \in Bands \/ ~single) /\ RoamIface(c, main, p).r
  <2>1. nets = [p \in Panels |-> [f[p] EXCEPT !.roam = roam(p)]]
    BY <1>6 DEF SyncRoam
  <2>2. \A p \in Panels : roam(p) \in BOOLEAN
    OBVIOUS
  <2> HIDE DEF roam
  <2>3. ASSUME NEW p \in Panels
        PROVE  /\ nets[p] \in NetRecords
               /\ nets[p].on = f[p].on /\ nets[p].key = f[p].key /\ nets[p].enc = f[p].enc
    <3>1. nets[p] = [f[p] EXCEPT !.roam = roam(p)] /\ f[p] \in NetRecords /\ roam(p) \in BOOLEAN
      BY <1>7, <2>1, <2>2
    <3> QED
      BY <3>1 DEF NetRecords
  <2> QED
    BY <2>1, <2>3
<1>9. dirty \subseteq Panels /\ [b \in Bands |-> nets[b]] \in [Bands -> NetRecords]
  BY <1>6, <1>8, BandsArePanels DEF Dirty
<1>10. smart \in BOOLEAN /\ single \in BOOLEAN /\ tab \in Bands /\ (single => ~smart)
  <2>1. (~one /\ LoadedSmart(c)) \in BOOLEAN
    OBVIOUS
  <2> QED
    BY <1>6, <2>1 DEF Bands
<1>11. Payload \in [{"smart"} -> NetRecords] \cup [Bands -> NetRecords]
  <2>1. CASE smart
    BY <1>8, <2>1 DEF Payload, Panels
  <2>2. CASE ~smart
    BY <1>8, <2>2, BandsArePanels DEF Payload
  <2> QED
    BY <2>1, <2>2
<1>12. WifiTypeInv
  <2>1. orig \in LoadedSet
    BY <1>6, <1>9, <1>11 DEF LoadedSet
  <2>2. /\ backup \in [made : BOOLEAN, split : [Bands -> NetRecords]]
        /\ primed \in BOOLEAN /\ force \in BOOLEAN /\ copied \in BOOLEAN /\ switched \in BOOLEAN
    BY <1>6, <1>9
  <2>3. formEdits \in 0..MaxFormEdits
    BY <1>6, WifiAssumption
  <2> QED
    BY <1>8, <1>9, <1>10, <2>1, <2>2, <2>3 DEF WifiTypeInv, WifiTypeOK
<1>13. NoIdleKey
  BY <1>7, <1>8 DEF NoIdleKey, KeyFits
<1>14. backup.split = orig.left /\ backup.split = [b \in Bands |-> nets[b]] /\ dirty = orig.dirty
  BY <1>6
<1>15. NoIdleFields /\ MarksKept
  BY <1>13, <1>14, <1>6, BandsArePanels DEF NoIdleFields, NoIdleKey, MarksKept
<1>16. StaysOn
  BY <1>6, <1>7, <1>8, BandsArePanels DEF StaysOn, OneBandOff, Panels
<1>18. NoBlank
  <2>1. ~Blanked => \A p \in Panels : nets[p].enc # ""
    BY <1>6, <1>7, <1>8 DEF Blanked, Chosen
  <2> QED
    BY <1>14, <2>1, BandsArePanels DEF NoBlank
<1> QED
  BY <1>12, <1>13, <1>14, <1>15, <1>16, <1>18 DEF WifiInv

\* What the plugin makes of a network whose select shows an option and whose password is set.
LEMMA WrittenClosed ==
    \A n \in NetRecords : Chosen(n) /\ n.key # "none" => Written(n) \notin {"none", ""}
BY DEF NetRecords, Encs, Options, Chosen, Written

\* No row of clicks in the Wi-Fi form declares a network with a password open, takes a
\* change for none or turns a band off by itself; and where the selects took the router's
\* values, the plugin sets no such network up open (netwiz.js, the handlers of the Wi-Fi
\* form; rpcd/netwiz, configure_physical_radio).
THEOREM WifiHonest == Spec => []WifiFormHonest
<1>1. Init => WifiInv
  BY MachineInits, WifiStart
<1>2. WifiInv /\ [Next]_pageMachines => WifiInv'
  BY MachineSteps, WifiStep
<1>3. WifiInv => WifiFormHonest
  <2>1. WifiInv => KnownStaysClosed
    <3> SUFFICES ASSUME WifiInv, ~Blanked, NEW p \in DOMAIN Payload, Payload[p].key # "none"
                 PROVE  Written(Payload[p]) \notin {"none", ""}
      BY DEF KnownStaysClosed, KeyMeansClosed
    <3>1. p \in Panels /\ Payload[p] = nets[p]
      BY BandsArePanels DEF Payload, Panels
    <3>2. nets[p] \in NetRecords /\ Chosen(nets[p])
      BY <3>1 DEF WifiInv, WifiTypeInv, WifiTypeOK, NoBlank, Chosen
    <3> QED
      BY <3>1, <3>2, WrittenClosed
  <2> QED
    BY <2>1 DEF WifiInv, WifiFormHonest, NoModHonest, MarksKept, NothingOffUnasked, StaysOn, OneBandOff
<1> QED
  BY <1>1, <1>2, <1>3, PTL DEF Spec

\* Only the smart switch ends the merged network, and it brings the bands back.
LEMMA OnlySmartOff == ASSUME WifiInv, [WifiNext]_wifiVars, smart, ~smart' PROVE SmartOff
<1>1. ~(UNCHANGED smart)
  OBVIOUS
<1> QED
  BY <1>1 DEF WifiNext, wifiVars, TypeName, TypeKey, ChooseEnc, ToggleRoaming, ClickTab, ToggleBand, ToggleMerged,
              SmartOn

\* Switched on and off again, the smart switch gives the bands back their names and
\* passwords, and 2.4G its encryption, whatever was typed meanwhile.
THEOREM SplitRestores == Spec => SplitComesBack
<1>1. Init => WifiInv
  BY MachineInits, WifiStart
<1>2. WifiInv /\ [Next]_pageMachines => WifiInv'
  BY MachineSteps, WifiStep
<1>3. ASSUME WifiInv, [Next]_pageMachines
      PROVE  [smart /\ ~smart' /\ backup.made /\ (\E b \in Bands : orig.left[b].name # NoName)
              => /\ \A b \in Bands : nets'[b].name = orig.left[b].name /\ nets'[b].key = orig.left[b].key
                 /\ nets'["2g"].enc = orig.left["2g"].enc]_wifiVars
  <2> SUFFICES ASSUME smart, ~smart', backup.made, \E b \in Bands : orig.left[b].name # NoName
               PROVE  /\ \A b \in Bands : nets'[b].name = orig.left[b].name /\ nets'[b].key = orig.left[b].key
                      /\ nets'["2g"].enc = orig.left["2g"].enc
    OBVIOUS
  <2>1. SmartOff
    BY <1>3, MachineSteps, OnlySmartOff
  <2>2. "2g" \in Bands /\ "2g" # "5g"
    BY DEF Bands
  <2> QED
    BY <1>3, <2>1, <2>2, BandsComeBack, SplitIs
<1>4. WifiInv /\ [Next]_pageMachines =>
         [smart /\ ~smart' /\ backup.made /\ (\E b \in Bands : orig.left[b].name # NoName)
          => /\ \A b \in Bands : nets'[b].name = orig.left[b].name /\ nets'[b].key = orig.left[b].key
             /\ nets'["2g"].enc = orig.left["2g"].enc]_wifiVars
  BY <1>3
<1> QED
  BY <1>1, <1>2, <1>4, PTL DEF Spec, SplitComesBack
=============================================================================

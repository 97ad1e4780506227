---------------------------- MODULE NetwizWizard ----------------------------
(***************************************************************************)
(* The first-start wizard of the NetWiz page (netwiz.js): its three steps, *)
(* the option wizard_enable that the page writes behind the user's back,   *)
(* and the submission, which keeps the router's IPv6 state as the status   *)
(* refresh learned it.                                                     *)
(***************************************************************************)
EXTENDS Integers

CONSTANT MaxWizActs     \* clicks, lost calls and reloads: a bound of the model

ASSUME WizardAssumption == MaxWizActs \in Nat

VARIABLES
    ipv6, option,   \* the router: IPv6 of the LAN, wizard_enable (external)
    known,          \* _trueIpv6State, "unknown" before the first refresh
    status,         \* a status refresh is on its way
    opening,        \* the first load: "sent", "done" or the option it read
    current,        \* _currentWizState
    wsaves,         \* set_wizard calls on their way
    wiz,            \* the wizard: shown, step, hide, and its fields
    box,            \* nw-global-modal: "none", "refused", "open" or "spin"
    told,           \* what the third step shows
    job,            \* the submission: state, ipv6
    wsent,          \* what was submitted
    agreed,         \* history: the fields whose open network was accepted last
    wish,           \* history: the wizard at the next start, by the last click that settled it
    muddled,        \* history: a save met the first load, a reload or another save
    missed,         \* history: a load or a save was lost
    wacts

wizVars == <<ipv6, option, known, status, opening, current, wsaves, wiz, box, told, job, wsent,
             agreed, wish, muddled, missed, wacts>>
router == <<ipv6, option>>
memory == <<agreed, wish, muddled, missed>>

WizFields == [wan : {"dhcp", "pppoe"}, account : BOOLEAN, skip : BOOLEAN, named : BOOLEAN,
              pass : {"none", "short", "good"}]
NoFieldsYet == [wan |-> "pppoe", account |-> FALSE, skip |-> FALSE, named |-> FALSE, pass |-> "none"]
NotSent == [fields |-> NoFieldsYet, ipv6 |-> "unknown"]

WizTypeOK ==
    /\ ipv6 \in {"0", "1"} /\ option \in {"0", "1"} /\ known \in {"unknown", "0", "1"}
    /\ opening \in {"sent", "0", "1", "done"} /\ current \in {"unset", "0", "1"}
    /\ wsaves \subseteq {"0", "1"} /\ status \in BOOLEAN
    /\ wiz \in [shown : BOOLEAN, step : 1..3, hide : BOOLEAN, fields : WizFields]
    /\ box \in {"none", "refused", "open", "spin"}
    /\ job \in [state : {"no", "saving", "setup", "done"}, ipv6 : {"unknown", "0", "1"}]
    /\ wacts \in 0..MaxWizActs

NewWizard == [shown |-> FALSE, step |-> 1, hide |-> TRUE, fields |-> NoFieldsYet]
NoJob == [state |-> "no", ipv6 |-> "unknown"]

WizInit ==
    /\ ipv6 \in {"0", "1"} /\ option \in {"0", "1"}
    /\ known = "unknown" /\ status = TRUE /\ opening = "sent" /\ current = "unset" /\ wsaves = {}
    /\ wiz = NewWizard /\ box = "none" /\ told = NoFieldsYet /\ job = NoJob /\ wsent = NotSent
    /\ agreed = NoFieldsYet /\ wish = option /\ muddled = FALSE /\ missed = FALSE /\ wacts = 0

WizAct == wacts < MaxWizActs /\ wacts' = wacts + 1

-----------------------------------------------------------------------------
(* What the page learns                                                    *)

ReadOption ==
    /\ opening = "sent" /\ opening' = option
    /\ UNCHANGED <<router, known, status, current, wsaves, wiz, box, told, job, wsent, memory, wacts>>

\* A load that is lost counts as "1".
OptionLost ==
    /\ WizAct /\ opening = "sent" /\ opening' = "1" /\ missed' = TRUE
    /\ UNCHANGED <<router, known, status, current, wsaves, wiz, box, told, job, wsent,
                   agreed, wish, muddled>>

HearOption ==
    /\ opening \in {"0", "1"} /\ opening' = "done"
    /\ current' = opening
    /\ wiz' = [wiz EXCEPT !.shown = @ \/ opening = "1"]
    /\ UNCHANGED <<router, known, status, wsaves, box, told, job, wsent, memory, wacts>>

\* Every five seconds while no dialog is open.
StatusSent ==
    /\ ~status /\ box = "none" /\ status' = TRUE
    /\ UNCHANGED <<router, known, opening, current, wsaves, wiz, box, told, job, wsent, memory, wacts>>

StatusKnown ==
    /\ status /\ status' = FALSE /\ known' = ipv6
    /\ UNCHANGED <<router, opening, current, wsaves, wiz, box, told, job, wsent, memory, wacts>>

\* Settings that did not come within three seconds read as an IPv6 that is off.
StatusMissed ==
    /\ WizAct /\ status /\ status' = FALSE /\ known' = "0" /\ missed' = TRUE
    /\ UNCHANGED <<router, opening, current, wsaves, wiz, box, told, job, wsent, agreed, wish, muddled>>

-----------------------------------------------------------------------------
(* The option                                                              *)

\* Mutant: compared, never remembered.
saveForgotten(v) ==
    /\ UNCHANGED current
    /\ wsaves' = IF current = v THEN wsaves ELSE wsaves \cup {v}

\* silentSaveWizardState: only what differs from the last one is sent.
silentSaveWizardState(v) ==
    /\ current' = v
    /\ wsaves' = IF current = v THEN wsaves ELSE wsaves \cup {v}

Settles(v) ==
    /\ wish' = v
    /\ muddled' = (muddled \/ opening # "done" \/ wsaves \ {v} # {})

SetWizard(v) ==
    /\ v \in wsaves /\ wsaves' = wsaves \ {v} /\ option' = v
    /\ UNCHANGED <<ipv6, known, status, opening, current, wiz, box, told, job, wsent, memory, wacts>>

\* The page swallows the error.
SetWizardFails(v) ==
    /\ WizAct /\ v \in wsaves /\ wsaves' = wsaves \ {v} /\ missed' = TRUE
    /\ UNCHANGED <<router, known, status, opening, current, wiz, box, told, job, wsent,
                   agreed, wish, muddled>>

-----------------------------------------------------------------------------
(* The wizard                                                              *)

Here(step) == wiz.shown /\ wiz.step = step /\ box = "none"

\* X: with the tick of "do not show again" the option goes with it.
closeWizard ==
    /\ WizAct /\ wiz.shown /\ box = "none"
    /\ wiz' = [wiz EXCEPT !.shown = FALSE]
    /\ IF wiz.hide THEN silentSaveWizardState("0") /\ Settles("0")
       ELSE UNCHANGED <<current, wsaves, wish, muddled>>
    /\ UNCHANGED <<router, known, status, opening, box, told, job, wsent, agreed, missed>>

SkipWizard ==
    /\ WizAct /\ wiz.shown /\ box = "none"
    /\ wiz' = [wiz EXCEPT !.shown = FALSE]
    /\ UNCHANGED <<router, known, status, opening, current, wsaves, box, told, job, wsent, memory>>

\* Mutant: reopened at the step where it was left.
ReopenThere ==
    /\ WizAct /\ ~wiz.shown /\ box = "none"
    /\ silentSaveWizardState("1") /\ Settles("1")
    /\ wiz' = [wiz EXCEPT !.shown = TRUE, !.hide = TRUE, !.fields.skip = FALSE]
    /\ UNCHANGED <<router, known, status, opening, box, told, job, wsent, agreed, missed>>

\* The button of the first page: from the first step, with the Wi-Fi not skipped.
ReopenWizard ==
    /\ WizAct /\ ~wiz.shown /\ box = "none"
    /\ silentSaveWizardState("1") /\ Settles("1")
    /\ wiz' = [wiz EXCEPT !.shown = TRUE, !.step = 1, !.hide = TRUE, !.fields.skip = FALSE]
    /\ UNCHANGED <<router, known, status, opening, box, told, job, wsent, agreed, missed>>

\* The fields of the step that is shown, and the tick.
WizFill(f) ==
    /\ WizAct /\ wiz.shown /\ box = "none"
    /\ \/ wiz.step = 1 /\ f = [wiz.fields EXCEPT !.wan = f.wan, !.account = f.account]
       \/ wiz.step = 2 /\ f = IF f.skip THEN [wiz.fields EXCEPT !.skip = TRUE]
                              ELSE [f EXCEPT !.wan = wiz.fields.wan, !.account = wiz.fields.account]
    /\ wiz' = [wiz EXCEPT !.fields = f]
    /\ UNCHANGED <<router, known, status, opening, current, wsaves, box, told, job, wsent, memory>>

TickHide ==
    /\ WizAct /\ wiz.shown /\ box = "none"
    /\ wiz' = [wiz EXCEPT !.hide = ~@]
    /\ UNCHANGED <<router, known, status, opening, current, wsaves, box, told, job, wsent, memory>>

WizUnchanged == <<router, known, status, opening, current, wsaves, job, wsent, wish, muddled, missed>>

Refuse == box' = "refused" /\ UNCHANGED <<wiz, told>>
Onward(step) == wiz' = [wiz EXCEPT !.step = step] /\ UNCHANGED box

NextFrom1 ==
    /\ Here(1)
    /\ IF wiz.fields.wan = "pppoe" /\ ~wiz.fields.account THEN Refuse ELSE Onward(2) /\ UNCHANGED told
    /\ UNCHANGED <<WizUnchanged, agreed, wacts>>

proceedToStep3 == Onward(3) /\ told' = wiz.fields

NextFrom2 ==
    /\ Here(2)
    /\ CASE wiz.fields.skip -> proceedToStep3
         [] ~wiz.fields.skip /\ (~wiz.fields.named \/ wiz.fields.pass = "short") -> Refuse
         [] ~wiz.fields.skip /\ wiz.fields.named /\ wiz.fields.pass = "none" ->
                box' = "open" /\ UNCHANGED <<wiz, told>>
         [] OTHER -> proceedToStep3
    /\ UNCHANGED <<WizUnchanged, agreed, wacts>>

BoxOk ==
    /\ box \in {"refused", "open"} /\ box' = "none"
    /\ IF box = "open"
         THEN /\ wiz' = [wiz EXCEPT !.step = 3] /\ told' = wiz.fields /\ agreed' = wiz.fields
         ELSE UNCHANGED <<wiz, told, agreed>>
    /\ UNCHANGED <<WizUnchanged, wacts>>

BoxCancel == box = "open" /\ box' = "none" /\ UNCHANGED <<WizUnchanged, wiz, told, agreed, wacts>>

Previous ==
    /\ WizAct /\ \E s \in {2, 3} : Here(s) /\ wiz' = [wiz EXCEPT !.step = s - 1]
    /\ UNCHANGED <<WizUnchanged, box, told, agreed>>

-----------------------------------------------------------------------------
(* The submission                                                          *)

\* Mutant: no wait for the status.
WizApplyEarly ==
    /\ Here(3)
    /\ box' = "spin" /\ wiz' = [wiz EXCEPT !.shown = FALSE]
    /\ job' = [state |-> "saving", ipv6 |-> known]
    /\ silentSaveWizardState("0") /\ Settles("0")
    /\ UNCHANGED <<router, known, status, opening, told, wsent, agreed, missed, wacts>>

\* Refused until the IPv6 state is known; then the option is saved before the setup.
WizApply ==
    /\ Here(3)
    /\ IF known = "unknown"
         THEN Refuse /\ UNCHANGED <<job, current, wsaves, wish, muddled>>
         ELSE /\ box' = "spin" /\ wiz' = [wiz EXCEPT !.shown = FALSE]
              /\ job' = [state |-> "saving", ipv6 |-> known]
              /\ silentSaveWizardState("0") /\ Settles("0")
              /\ UNCHANGED told
    /\ UNCHANGED <<router, known, status, opening, wsent, agreed, missed, wacts>>

\* The fields are read once more when the save has ended, or failed.
SendSetup ==
    /\ job.state = "saving" /\ "0" \notin wsaves
    /\ job' = [job EXCEPT !.state = "setup"]
    /\ wsent' = [fields |-> wiz.fields, ipv6 |-> job.ipv6]
    /\ UNCHANGED <<router, known, status, opening, current, wsaves, wiz, box, told, memory, wacts>>

\* Done, the page waits for the router; failed, a dialog says so.
SetupEnds ==
    /\ job.state = "setup"
    /\ \/ job' = [job EXCEPT !.state = "done"] /\ UNCHANGED <<box, wacts>>
       \/ WizAct /\ job' = NoJob /\ box' = "refused"
    /\ UNCHANGED <<router, known, status, opening, current, wsaves, wiz, told, wsent, memory>>

\* The router answers again, or the user loads the page anew.
LoadAnew ==
    /\ WizAct /\ job.state \in {"no", "done"}
    /\ known' = "unknown" /\ status' = TRUE /\ opening' = "sent" /\ current' = "unset"
    /\ wiz' = NewWizard /\ box' = "none" /\ told' = NoFieldsYet /\ job' = NoJob /\ wsent' = NotSent
    /\ muddled' = (muddled \/ wsaves # {})
    /\ UNCHANGED <<router, wsaves, agreed, wish, missed>>

WizNext ==
    \/ ReadOption \/ OptionLost \/ HearOption \/ StatusSent \/ StatusKnown \/ StatusMissed
    \/ \E v \in {"0", "1"} : SetWizard(v) \/ SetWizardFails(v)
    \/ closeWizard \/ SkipWizard \/ ReopenWizard \/ TickHide \/ NextFrom1 \/ NextFrom2 \/ BoxOk \/ BoxCancel
    \/ \E f \in WizFields : WizFill(f)
    \/ Previous \/ WizApply \/ SendSetup \/ SetupEnds \/ LoadAnew

-----------------------------------------------------------------------------
\* What is submitted is what the third step showed, though the fields are read again
\* after a save; PPPoE comes with an account, and an open network only after its
\* warning was accepted for these very fields.
WizardConfirmed ==
    job.state \in {"setup", "done"} =>
        /\ wsent.fields = told
        /\ wsent.fields.wan = "pppoe" => wsent.fields.account
        /\ ~wsent.fields.skip /\ wsent.fields.pass = "none" => agreed = wsent.fields

\* What the wizard sends for IPv6 (keepIpv6) is what the router has.  Left out: a refresh
\* that got no settings; the page takes it for an IPv6 that is off, and its own check
\* passes.  The plugin reads this argument in mode lan only.
WizardKeepsIpv6 == job.state \in {"setup", "done"} /\ ~missed => wsent.ipv6 = ipv6

\* Once no save is on its way the router has the option as the last click settled it.
\* Left out: calls that were lost, and saves that met the first load (its old answer
\* makes the page believe that the option is saved), a reload or each other.
WishKept == wsaves = {} /\ opening = "done" /\ ~missed /\ ~muddled => option = wish

\* The wizard sends what was agreed to, with the router's own IPv6 state, and the wish
\* for its return is kept.
WizardHonest == WizardConfirmed /\ WizardKeepsIpv6 /\ WishKept
=============================================================================

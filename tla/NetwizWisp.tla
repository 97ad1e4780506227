----------------------------- MODULE NetwizWisp -----------------------------
(***************************************************************************)
(* The relay (WISP) part of the NetWiz Wi-Fi form (netwiz.js): a scan by   *)
(* one radio, the list it leaves, the fields a click on the list fills,    *)
(* and the status refresh that fills them from the router.                 *)
(***************************************************************************)
EXTENDS Integers

CONSTANT MaxPicks       \* clicks: a bound of the model

ASSUME WispAssumption == MaxPicks \in Nat

VARIABLES
    chips,          \* 1 or 2 radios
    band5,          \* the 5G switch of the form
    relay,          \* the fields: on, net, enc, device, and key: whose password it is
    scan,           \* the scan on its way: "no", or "sent" with its radio
    found,          \* the list on the screen, with the radio that its items carry
    refresh,        \* the refresh on its way
    picks

wispVars == <<chips, band5, relay, scan, found, refresh, picks>>

Networks == {"open", "wpa2", "wpa3"}
NoNet == "unset"
Radios == {"radio0", "radio1"}

\* iwinfo: what a radio hears (external).
Hears(r) == IF r = "radio0" THEN {"open", "wpa2"} ELSE {"open", "wpa3"}

EncOf(n) == CASE n = "open" -> "none" [] n = "wpa3" -> "sae-mixed" [] OTHER -> "psk2"

\* The relay that the router has, if any.
Kept == {[on |-> FALSE, net |-> NoNet, enc |-> "psk2", key |-> NoNet, device |-> "radio0"],
         [on |-> TRUE, net |-> "wpa2", enc |-> "psk2", key |-> "wpa2", device |-> "radio0"]}

WispTypeOK ==
    /\ chips \in {1, 2} /\ band5 \in BOOLEAN /\ picks \in 0..MaxPicks
    /\ relay \in [on : BOOLEAN, net : Networks \cup {NoNet}, enc : {"none", "psk2", "sae-mixed"},
                  key : Networks \cup {NoNet}, device : Radios]
    /\ scan \in [state : {"no", "sent"}, device : Radios]
    /\ found \in [open : BOOLEAN, device : Radios] /\ refresh \in BOOLEAN

WispInit ==
    /\ chips \in {1, 2} /\ band5 \in BOOLEAN
    /\ relay \in Kept
    /\ scan = [state |-> "no", device |-> "radio0"]
    /\ found = [open |-> FALSE, device |-> "radio0"]
    /\ refresh \in BOOLEAN /\ picks = 0

RelayAct == picks < MaxPicks /\ picks' = picks + 1

\* The list covers the page.
Free == ~found.open

ToggleRelay ==
    /\ RelayAct /\ Free
    /\ relay' = [relay EXCEPT !.on = ~@]
    /\ UNCHANGED <<chips, band5, scan, found, refresh>>

ToggleBand5 ==
    /\ RelayAct /\ Free
    /\ band5' = ~band5
    /\ UNCHANGED <<chips, relay, scan, found, refresh>>

\* One chip scans with radio0; several with radio1 when 5G is on.
scanDevice == IF chips = 2 /\ band5 THEN "radio1" ELSE "radio0"

\* The button is disabled until the scan ends.
Scan ==
    /\ RelayAct /\ Free /\ relay.on /\ scan.state = "no"
    /\ scan' = [state |-> "sent", device |-> scanDevice]
    /\ UNCHANGED <<chips, band5, relay, found, refresh>>

ScanEnds ==
    /\ scan.state = "sent"
    /\ scan' = [scan EXCEPT !.state = "no"]
    /\ found' = [open |-> TRUE, device |-> scan.device]
    /\ UNCHANGED <<chips, band5, relay, refresh, picks>>

ScanFails ==
    /\ RelayAct /\ scan.state = "sent"
    /\ scan' = [scan EXCEPT !.state = "no"]
    /\ UNCHANGED <<chips, band5, relay, found, refresh>>

\* Mutant: the radio of the form at the click.
ChooseNow(n) ==
    /\ RelayAct /\ found.open /\ n \in Hears(found.device)
    /\ relay' = [relay EXCEPT !.net = n, !.enc = EncOf(n), !.device = scanDevice,
                              !.key = IF n = "open" THEN NoNet ELSE @]
    /\ found' = [found EXCEPT !.open = FALSE]
    /\ UNCHANGED <<chips, band5, scan, refresh>>

\* An item carries the radio of its scan; only an open network empties the password.
Choose(n) ==
    /\ RelayAct /\ found.open /\ n \in Hears(found.device)
    /\ relay' = [relay EXCEPT !.net = n, !.enc = EncOf(n), !.device = found.device,
                              !.key = IF n = "open" THEN NoNet ELSE @]
    /\ found' = [found EXCEPT !.open = FALSE]
    /\ UNCHANGED <<chips, band5, scan, refresh>>

CloseList ==
    /\ RelayAct /\ found.open
    /\ found' = [found EXCEPT !.open = FALSE]
    /\ UNCHANGED <<chips, band5, relay, scan, refresh>>

\* The row of the password is hidden for an open network.
TypeRelayKey ==
    /\ RelayAct /\ Free /\ relay.on /\ relay.net # NoNet /\ relay.enc # "none"
    /\ relay' = [relay EXCEPT !.key = relay.net]
    /\ UNCHANGED <<chips, band5, scan, found, refresh>>

\* Home, and with it the refresh of every five seconds.
GoHome ==
    /\ RelayAct /\ Free /\ ~refresh /\ refresh' = TRUE
    /\ UNCHANGED <<chips, band5, relay, scan, found>>

\* updateStatusDisplay: the relay of the router, or only the switch when there is none.
RelayRead(kept) ==
    /\ refresh /\ refresh' = FALSE
    /\ relay' = IF kept.on THEN kept ELSE [relay EXCEPT !.on = FALSE]
    /\ UNCHANGED <<chips, band5, scan, found, picks>>

WispNext ==
    \/ ToggleRelay \/ ToggleBand5 \/ Scan \/ ScanEnds \/ ScanFails \/ CloseList
    \/ TypeRelayKey \/ GoHome
    \/ \E n \in Networks : Choose(n)
    \/ \E kept \in Kept : RelayRead(kept)

\* The name, the encryption and the radio that Apply sends belong to one network, that
\* this radio hears, although the 5G switch that chose the radio may turn during the
\* scan and a refresh may write the fields at any time; an open one has no password.
\* (The password may be another network's: choosing one leaves it.)
WispWhole ==
    relay.net # NoNet =>
        /\ relay.net \in Hears(relay.device) /\ relay.enc = EncOf(relay.net)
        /\ relay.enc = "none" => relay.key = NoNet
=============================================================================

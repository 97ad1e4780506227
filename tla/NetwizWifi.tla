----------------------------- MODULE NetwizWifi -----------------------------
(***************************************************************************)
(* The Wi-Fi form of the NetWiz page (netwiz.js): one panel for a merged   *)
(* network ("smart") and one per band, filled once from the router's       *)
(* configuration, and the handlers that copy names, passwords and          *)
(* encryptions between them.                                               *)
(***************************************************************************)
EXTENDS Integers, FiniteSets

CONSTANT MaxFormEdits       \* clicks and typed fields: a bound of the model

ASSUME WifiAssumption == MaxFormEdits \in Nat

Bands == {"2g", "5g"}
Panels == {"smart"} \cup Bands
Other(b) == IF b = "2g" THEN "5g" ELSE "2g"

VARIABLES
    conf,           \* history: the router's bands when the form was filled
    single,         \* _isSingleChip
    smart,          \* the smart switch
    tab,            \* the band whose panel is shown
    nets,           \* per panel: on, name, key, enc, roam
    dirty,          \* panels whose roaming switch is of class is-dirty
    primed,         \* dataset.initialized of the smart name
    backup,         \* _backupSplit, with made = FALSE before the first one
    force,          \* _forceWifiSubmit
    orig,           \* history: form, payload and dirty switches when loaded
    copied,         \* history: a password or an encryption was copied without the other
    switched,       \* history: the user touched a switch of a network
    formEdits

wifiVars == <<conf, single, smart, tab, nets, dirty, primed, backup, force, orig, copied, switched, formEdits>>

NoName == [base |-> "none", tail |-> "plain"]
BlankNet == [on |-> TRUE, name |-> NoName, key |-> "none", enc |-> "psk2+sae", roam |-> FALSE]
Keys == {"none", "short", "good"}

\* The options of an encryption select; "" when the router's value is none of them.
Options == {"none", "psk2", "psk2+sae"}
Encs == Options \cup {""}
Names == [base : {"none", "home", "OpenWrt"}, tail : {"plain"} \cup Bands]
NetRecords == [on : BOOLEAN, name : Names, key : Keys, enc : Encs, roam : BOOLEAN]

WifiTypeOK ==
    /\ single \in BOOLEAN /\ smart \in BOOLEAN /\ tab \in Bands
    /\ nets \in [Panels -> NetRecords] /\ dirty \subseteq Panels
    /\ backup.made \in BOOLEAN /\ formEdits \in 0..MaxFormEdits
    /\ single => ~smart

-----------------------------------------------------------------------------
(* Names                                                                   *)

cleanSsidSuffix(n) == [n EXCEPT !.tail = "plain"]

smartConvertSsid(n, b) == [base |-> IF n.base = "none" THEN "OpenWrt" ELSE n.base, tail |-> b]

\* A band without a name, or with the name of the other, is given one of its own.
NeedsName(b) == nets[Other(b)].name # NoName /\ nets[b].name \in {NoName, nets[Other(b)].name}
Renamed(b) == smartConvertSsid(nets[Other(b)].name, b)

-----------------------------------------------------------------------------
(* The router, as far as the form reads it: a few configurations of a band *)
(* that differ in every respect; r is 802.11r, ours the domain of NetWiz.  *)

Config(on, tail, key, enc, r, ours) ==
    [on |-> on, name |-> [base |-> "home", tail |-> tail], key |-> key, enc |-> enc, r |-> r, ours |-> ours]

RouterBands(b) ==
    {Config(TRUE, "plain", "good", "sae-mixed", FALSE, FALSE), Config(TRUE, b, "good", "psk2", TRUE, FALSE),
     Config(TRUE, "plain", "none", "none", FALSE, FALSE), Config(FALSE, b, "good", "psk2", TRUE, TRUE),
     Config(TRUE, "plain", "good", "psk2+ccmp", FALSE, FALSE)}

NoIface == [Config(FALSE, "plain", "none", "none", FALSE, FALSE) EXCEPT !.name = NoName]

-----------------------------------------------------------------------------
(* Filling the form                                                        *)

FormEnc(e) == IF e = "sae-mixed" THEN "psk2+sae" ELSE e

\* On two chips the value is assigned as it is; on one only an option of the select is.
Assigned(e) == IF e \in Options THEN e ELSE ""
Guarded(e) == IF e \in Options THEN e ELSE BlankNet.enc

Filled(c, e) == [on |-> c.on, name |-> c.name, key |-> c.key, enc |-> e, roam |-> c.r]
FilledMulti(c) == Filled(c, Assigned(FormEnc(c.enc)))
FilledSingle(c) == Filled(c, Guarded(FormEnc(c.enc)))

Off(n) == [n EXCEPT !.on = FALSE]

\* Two bands of one name, password and encryption are shown as one network.
LoadedSmart(c) ==
    /\ c["2g"].name = c["5g"].name /\ c["2g"].key = c["5g"].key
    /\ FormEnc(c["2g"].enc) = FormEnc(c["5g"].enc)

LoadMulti(c) ==
    [p \in Panels |->
        IF LoadedSmart(c)
          THEN IF p = "smart" THEN [FilledMulti(c["2g"]) EXCEPT !.on = c["2g"].on /\ c["5g"].on] ELSE BlankNet
          ELSE IF p = "smart" THEN BlankNet ELSE FilledMulti(c[p])]

\* Mutant: the interface that is on taken for the other band.
LoadSingleSwapped(c, main) ==
    [p \in Panels |->
        CASE p = Other(main) -> FilledSingle(c[main])
          [] p = main -> Off(FilledSingle(c[main]))
          [] OTHER -> BlankNet]

\* One chip: the interface in use fills the panel of its band; the other panel is off
\* and filled from the second interface or, with another name, from the first.
LoadSingle(c, main) ==
    LET act == FilledSingle(c[main])
        inact == FilledSingle(c[Other(main)])
        renamed == smartConvertSsid(act.name, Other(main))
        idle == IF inact.name = NoName THEN [act EXCEPT !.name = renamed]
                ELSE IF inact.name = act.name THEN [inact EXCEPT !.name = renamed] ELSE inact
    IN  [p \in Panels |-> IF p = main THEN act ELSE IF p = "smart" THEN BlankNet ELSE Off(idle)]

\* syncRoamUI: the interface that the roaming switch of a panel reads.
RoamIface(c, main, p) ==
    LET b == IF p = "smart" THEN "5g" ELSE p IN IF c[b].name = NoName THEN c[main] ELSE c[b]

SyncRoam(c, main, ns) ==
    [p \in Panels |-> [ns[p] EXCEPT !.roam = (p \in Bands \/ ~single) /\ RoamIface(c, main, p).r]]

\* Roaming that NetWiz did not set up as it would.
Dirty(c, main) ==
    {p \in Panels : nets[p].roam /\ (~RoamIface(c, main, p).ours \/ nets[p].enc # "psk2+sae")}

\* getWifiSnapshot, and what Apply packs: the panels of the mode.
Payload == [p \in (IF smart THEN {"smart"} ELSE Bands) |-> nets[p]]

\* One chip serves one band; the interface of the other is off, or missing.
WifiInit ==
    \E one \in BOOLEAN, main \in Bands :
    \E mine \in RouterBands(main), second \in RouterBands(Other(main)) \cup {NoIface} :
    LET c == [b \in Bands |-> IF b = main THEN mine ELSE IF one THEN Off(second) ELSE second] IN
    /\ one \/ (main = "2g" /\ second # NoIface)
    /\ conf = c /\ single = one /\ tab = (IF one THEN main ELSE "2g")
    /\ smart = (~one /\ LoadedSmart(c))
    /\ nets = SyncRoam(c, main, IF one THEN LoadSingle(c, main) ELSE LoadMulti(c))
    /\ dirty = Dirty(c, main)
    /\ backup = [made |-> FALSE, split |-> [b \in Bands |-> nets[b]]]
    /\ orig = [packed |-> Payload, dirty |-> dirty, left |-> [b \in Bands |-> nets[b]]]
    /\ primed = FALSE /\ force = FALSE /\ copied = FALSE /\ switched = FALSE /\ formEdits = 0

-----------------------------------------------------------------------------
(* Typing                                                                  *)

FormEdit == formEdits < MaxFormEdits /\ formEdits' = formEdits + 1
Shown(p) == IF smart THEN p = "smart" ELSE p = tab
bookkeeping == <<conf, single, primed, backup, orig>>

Write(p, n) == FormEdit /\ Shown(p) /\ nets' = [nets EXCEPT ![p] = n]

TypeName(p, n) ==
    /\ Write(p, [nets[p] EXCEPT !.name = n])
    /\ UNCHANGED <<bookkeeping, smart, tab, dirty, force, copied, switched>>

\* syncEncryption: a first letter brings an encryption, the last one takes it away.
TypeKey(p, k) ==
    /\ k # nets[p].key
    /\ Write(p, [nets[p] EXCEPT !.key = k,
                                !.enc = IF k = "none" THEN "none" ELSE IF @ = "none" THEN "psk2+sae" ELSE @])
    /\ UNCHANGED <<bookkeeping, smart, tab, dirty, force, copied, switched>>

\* Mutant: the password stays in its field.
ChooseEncKeeping(p, e) ==
    /\ Write(p, [nets[p] EXCEPT !.enc = e])
    /\ UNCHANGED <<bookkeeping, smart, tab, dirty, force, copied, switched>>

ChooseEnc(p, e) ==
    /\ Write(p, [nets[p] EXCEPT !.enc = e, !.key = IF e = "none" THEN "none" ELSE @])
    /\ UNCHANGED <<bookkeeping, smart, tab, dirty, force, copied, switched>>

\* The change handler of a roaming switch: what it does to its network.
Roaming(n, on) == [n EXCEPT !.roam = on, !.enc = IF on THEN "psk2+sae" ELSE @]

\* Mutant: the mark goes without a word to the check for modifications.
CleanQuietly(ps) == dirty' = dirty \ ps /\ UNCHANGED force

Clean(ps) == dirty' = dirty \ ps /\ force' = (force \/ ps \cap dirty # {})

ToggleRoaming(p) ==
    /\ Write(p, Roaming(nets[p], ~nets[p].roam))
    /\ Clean({p})
    /\ UNCHANGED <<bookkeeping, smart, tab, copied, switched>>

-----------------------------------------------------------------------------
(* Tabs and switches                                                       *)

\* A click on the tab of a band: its panel, and a name of its own; the password of
\* the other band is copied into an empty field, its encryption is not.
Copies(b) == NeedsName(b) /\ nets[b].key = "none" /\ nets[Other(b)].key # "none"

Tabbed(b) ==
    [nets[b] EXCEPT !.name = IF NeedsName(b) THEN Renamed(b) ELSE @,
                    !.key = IF Copies(b) THEN nets[Other(b)].key ELSE @]

ClickTab(b) ==
    /\ FormEdit /\ ~smart
    /\ tab' = b
    /\ nets' = [nets EXCEPT ![b] = Tabbed(b)]
    /\ copied' = (copied \/ (Copies(b) /\ nets[b].enc = "none"))
    /\ UNCHANGED <<bookkeeping, smart, dirty, force, switched>>

\* en2g, en5g: a click on the tab; then one chip serves one band, and a band that
\* still has the other's name takes its encryption too.
ToggleBand(b) ==
    /\ FormEdit /\ ~smart
    /\ LET on == ~nets[b].on
           t == Tabbed(b)
           o == nets[Other(b)]
           same == on /\ single /\ o.name # NoName /\ t.name = o.name
       IN  /\ nets' = [nets EXCEPT
                  ![b] = [t EXCEPT !.on = on,
                                   !.key = IF same /\ @ = "none" THEN o.key ELSE @,
                                   !.enc = IF same THEN o.enc ELSE @],
                  ![Other(b)] = IF on /\ single THEN Off(o) ELSE o]
           /\ copied' = (copied \/ same \/ (Copies(b) /\ nets[b].enc = "none"))
    /\ tab' = b /\ switched' = TRUE
    /\ UNCHANGED <<bookkeeping, smart, dirty, force>>

ToggleMerged ==
    /\ Write("smart", [nets["smart"] EXCEPT !.on = ~@])
    /\ switched' = TRUE
    /\ UNCHANGED <<bookkeeping, smart, tab, dirty, force, copied>>

\* The smart switch: on, it remembers the bands, takes the first name for the merged
\* network and turns its roaming on.
SmartOn ==
    LET pick == IF nets["5g"].on \/ ~nets["2g"].on THEN "5g" ELSE "2g"
        first == nets[pick].name # NoName /\ ~primed
        merged == IF first THEN [nets["smart"] EXCEPT !.name = cleanSsidSuffix(nets[pick].name),
                                                      !.key = nets[pick].key, !.enc = nets[pick].enc]
                  ELSE nets["smart"]
    IN  /\ FormEdit /\ ~smart /\ ~single /\ smart' = TRUE
        /\ backup' = [made |-> TRUE, split |-> [b \in Bands |-> nets[b]]]
        /\ orig' = [orig EXCEPT !.left = [b \in Bands |-> nets[b]]]
        /\ nets' = [nets EXCEPT !["smart"] = Roaming(merged, TRUE)]
        /\ primed' = (primed \/ first)
        /\ Clean({"smart"})
        /\ UNCHANGED <<conf, single, tab, copied, switched>>

\* Mutant: the bands always named after the merged network.
SplitAnew ==
    [b \in Bands |-> [nets[b] EXCEPT !.name = smartConvertSsid(nets["smart"].name, b),
                                     !.key = nets["smart"].key, !.enc = nets["smart"].enc]]

\* Off, the bands come back, or are named after the merged network.
Split ==
    IF backup.made /\ \E b \in Bands : backup.split[b].name # NoName
      THEN [b \in Bands |-> [nets[b] EXCEPT !.name = backup.split[b].name, !.key = backup.split[b].key,
                                            !.enc = backup.split[b].enc]]
      ELSE [b \in Bands |-> [nets[b] EXCEPT !.name = smartConvertSsid(nets["smart"].name, b),
                                            !.key = nets["smart"].key, !.enc = nets["smart"].enc]]

SmartOff ==
    /\ FormEdit /\ smart /\ ~single /\ smart' = FALSE
    /\ nets' = [p \in Panels |-> IF p = "smart" THEN nets[p] ELSE Roaming(Split[p], p = "5g")]
    /\ Clean(Bands)
    /\ UNCHANGED <<bookkeeping, tab, copied, switched>>

WifiNext ==
    \/ \E p \in Panels :
          \/ \E n \in {NoName, [base |-> "home", tail |-> "plain"]} : TypeName(p, n)
          \/ \E k \in Keys : TypeKey(p, k)
          \/ \E e \in {"none", "psk2"} : ChooseEnc(p, e)
          \/ ToggleRoaming(p)
    \/ \E b \in Bands : ClickTab(b) \/ ToggleBand(b)
    \/ ToggleMerged \/ SmartOn \/ SmartOff

-----------------------------------------------------------------------------
(* What becomes of the form                                                *)

\* "Next" takes the networks that are on when each has a name, and one that is not
\* declared open a password of eight letters; it warns of the ones that are.
NextWifi ==
    \A p \in DOMAIN Payload :
        Payload[p].on => Payload[p].name # NoName /\ (Payload[p].enc # "none" => Payload[p].key = "good")

\* The check for modifications.
Modified == force \/ Payload # orig.packed

\* configure_physical_radio: the encryption of the new interface, "" when none is set.
Written(n) ==
    IF n.enc = "psk2+sae" \/ (n.enc = "none" /\ n.key # "none") THEN "sae-mixed" ELSE n.enc

\* A select of the form was left blank.
Blanked == ~single /\ \E b \in Bands : Assigned(FormEnc(conf[b].enc)) = ""

-----------------------------------------------------------------------------
\* No network is set up open while its password stands in the form ("as long as there
\* is a password, none is not allowed", says the plugin).  It is: a blank select passes
\* "Next" without a warning, and the plugin sets no encryption then.
KeyMeansClosed ==
    NextWifi /\ Modified =>
        \A p \in DOMAIN Payload :
            Payload[p].on /\ Payload[p].key # "none" => Written(Payload[p]) \notin {"none", ""}

\* Where every select took the router's value, that holds, whatever the user did.
KnownStaysClosed == ~Blanked => KeyMeansClosed

\* A network declared open has no password in its field: the form never shows one as
\* protected and warns of it as open.  Left out: the tabs and switches copy a password
\* beside an encryption that may be "none" (copied).
NoIdleKey == ~copied => \A p \in Panels : nets[p].enc = "none" => nets[p].key = "none"

\* When the check before the confirmation finds nothing modified, the form would send
\* what it was loaded with, and no roaming set up by others was taken over on the way.
NoModHonest == ~force /\ Payload = orig.packed => dirty = orig.dirty

\* Nothing the form does by itself turns a band of the router off: only the switches
\* of the networks do.  Left out: two bands of one network of which one is off, which
\* the form shows as one network that is off.
NothingOffUnasked ==
    ~switched /\ ~(LoadedSmart(conf) /\ \E b \in Bands : ~conf[b].on)
    => \A b \in Bands : conf[b].on => nets[IF smart THEN "smart" ELSE b].on

\* Smart switched on and off again leaves the bands with their names and passwords,
\* and 2.4G with its encryption, whatever was typed for the merged network meanwhile.
SplitComesBack ==
    [][smart /\ ~smart' /\ backup.made /\ (\E b \in Bands : orig.left[b].name # NoName)
       => /\ \A b \in Bands : nets'[b].name = orig.left[b].name /\ nets'[b].key = orig.left[b].key
          /\ nets'["2g"].enc = orig.left["2g"].enc]_wifiVars

\* No row of clicks makes the form say one thing and send another: no network with a
\* password declared open, or set up open where the selects know the router's value, no
\* change taken for none, no band turned off by the form itself.
WifiFormHonest == NoIdleKey /\ KnownStaysClosed /\ NoModHonest /\ NothingOffUnasked
=============================================================================

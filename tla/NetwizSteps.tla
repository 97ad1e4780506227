---------------------------- MODULE NetwizSteps ----------------------------
(***************************************************************************)
(* The three steps of the NetWiz page (netwiz.js): cards, forms and the    *)
(* confirmation.  "Next" checks the form at the click and loads the        *)
(* network settings; the answer does the rest with what the click kept and *)
(* with what the page holds by then; "Apply" reads the form once more.     *)
(* Meanwhile the status refresh of the first step fills the forms; each of *)
(* its parts may be lost, and defaults stand for what it did not bring.    *)
(***************************************************************************)
EXTENDS Integers, Sequences, SequencesExt

CONSTANTS
    MaxMoves,           \* clicks, changes of the forms and refreshes: a bound of the model
    OneClass            \* whether the two /24 subnets lie in one network of their class

ASSUME StepAssumption == MaxMoves \in Nat /\ OneClass \in BOOLEAN

VARIABLES
    settings,       \* the router's settings (external)
    view,           \* the steps that are displayed
    mode,           \* selectedMode
    form,           \* the fields of every mode
    asks,           \* loads of "Next" on their way, with what the click kept
    dialog,         \* nw-global-modal: "none", "refused", "nomod", "warn" or "spin"
    confirm,        \* what the third step shows
    fresh,          \* a status refresh is on its way
    read,           \* what the page has of the router: uci's cache, _liveWanIp, _wifiLoaded
    sent,           \* what Apply sent
    warned,         \* history: the form whose warning was accepted last
    overtaken,      \* history: the page had changed before an answer came
    unchecked,      \* history: the last answer lacked an address to compare with
    moves

stepVars == <<settings, view, mode, form, asks, dialog, confirm, fresh, read, sent, warned, overtaken, unchecked, moves>>

Modes == {"lan", "router", "pppoe", "wifi"}
Empty == "unset"
Addresses == {"a1", "a2", "b1", "b2"}
Subnet(x) == IF x \in {"a1", "a2"} THEN "a" ELSE "b"
isSameSubnet(x, y) == x \in Addresses /\ y \in Addresses /\ Subnet(x) = Subnet(y)

\* calculateNetmask: the mask that Apply sends is that of the address's class.
SameNetwork(x, y) == x \in Addresses /\ y \in Addresses /\ (Subnet(x) = Subnet(y) \/ OneClass)

\* A LAN or a WAN address, a gateway, and a flag: bypass, or static.
Fields(ip, gw, flag) == [ip |-> ip, gw |-> gw, flag |-> flag]
NoFields == Fields(Empty, Empty, FALSE)

\* The WAN has the address b1, set or given to it.  The page is opened at the LAN's
\* address, or at a name.
Confs == [lan : {Fields("a1", Empty, FALSE), Fields("a1", "a2", TRUE)},
          router : {Fields("b1", "b2", TRUE), Fields(Empty, Empty, FALSE)},
          proto : {"static", "dhcp", "pppoe"}, named : BOOLEAN]
LiveWan == "b1"

hostname == IF settings.named THEN "bad" ELSE settings.lan.ip

\* The network and DHCP settings, whether the Wi-Fi form was filled, and the WAN's address.
ReadSet == [net : BOOLEAN, dhcp : BOOLEAN, air : BOOLEAN, wan : {LiveWan, Empty}]
Unread == [net |-> FALSE, dhcp |-> FALSE, air |-> FALSE, wan |-> Empty]

\* safeUciGet: the addresses as far as they were read, with the defaults of the code.
LanNow(r) == IF r.net THEN settings.lan.ip ELSE hostname
LanGwNow(r) == IF r.net THEN settings.lan.gw ELSE Empty
WanNow(r) == IF r.net /\ settings.proto = "static" THEN settings.router.ip ELSE r.wan
WanGwNow(r) == IF r.net THEN settings.router.gw ELSE Empty
BypassNow(r) == r.dhcp /\ settings.lan.flag

\* The Wi-Fi form is filled once: without its settings, what it holds is taken for theirs.
AirFilled(w, air) == IF read.air THEN w ELSE IF air \/ w \in {"new", "open"} THEN "kept" ELSE w

\* What a refresh that read r writes into the fields.
FilledIn(f, r, air) ==
    [f EXCEPT !.lan = Fields(LanNow(r), LanGwNow(r), BypassNow(r)),
              !.router = [@ EXCEPT !.ip = IF r.net THEN settings.router.ip ELSE Empty, !.gw = WanGwNow(r)],
              !.pppoe = IF r.net THEN "kept" ELSE "none",
              !.wifi = AirFilled(@, air)]

NoContent == [mode |-> "none", fields |-> NoFields, word |-> Empty]

\* What a mode would send now; mode and fields of the answer's own reading.
ContentOf(m, f) == [mode |-> m,
                  fields |-> IF m = "lan" THEN f.lan
                             ELSE IF m = "router" /\ f.router.flag THEN f.router ELSE NoFields,
                  word |-> IF m = "pppoe" THEN f.pppoe ELSE IF m = "wifi" THEN f.wifi ELSE Empty]

StepTypeOK ==
    /\ view \subseteq 1..3 /\ view # {} /\ mode \in Modes \cup {"none"}
    /\ Len(asks) <= MaxMoves /\ dialog \in {"none", "refused", "nomod", "warn", "spin"}
    /\ form.wifi \in {"kept", "new", "open", "short"} /\ form.pppoe \in {"none", "kept", "new"}
    /\ read \in ReadSet
    /\ fresh \in BOOLEAN /\ overtaken \in BOOLEAN /\ unchecked \in BOOLEAN /\ moves \in 0..MaxMoves

\* The page as it is rendered: empty fields, the first refresh on its way.  Of the
\* router's settings, six in which every two of them meet in every way.
StepInit ==
    /\ settings \in Confs /\ (settings.proto = "static" <=> settings.router.flag)
    /\ settings.named <=> (settings.lan.flag <=> settings.proto = "dhcp")
    /\ view = {1} /\ mode = "none" /\ asks = <<>> /\ dialog = "none"
    /\ form = [lan |-> NoFields, router |-> NoFields, pppoe |-> "none", wifi |-> "short"]
    /\ confirm = NoContent /\ sent = NoContent /\ warned = NoContent
    /\ fresh = TRUE /\ read = Unread /\ overtaken = FALSE /\ unchecked = FALSE /\ moves = 0

\* The dialog covers the page.
Clear(steps) == dialog = "none" /\ steps \subseteq view
Move == moves < MaxMoves /\ moves' = moves + 1

quiet == <<settings, asks, dialog, confirm, sent, warned, overtaken, unchecked>>

switchStep(hide, show) == view' = (view \ {hide}) \cup {show}

ChooseCard(m) ==
    /\ Move /\ Clear({1}) /\ mode' = m /\ switchStep(1, 2)
    /\ UNCHANGED <<quiet, form, fresh, read>>

\* Mutant: the cards stay.
GotoRoamOver ==
    /\ Move /\ Clear({1}) /\ read.air /\ mode' = "wifi" /\ view' = view \cup {2}
    /\ UNCHANGED <<quiet, form, fresh, read>>

\* _gotoRoam: the badge of the status goes to the Wi-Fi form.
GotoRoam ==
    /\ Move /\ Clear({1}) /\ read.air /\ mode' = "wifi" /\ view' = {2}
    /\ UNCHANGED <<quiet, form, fresh, read>>

BackHome == Move /\ Clear({2}) /\ switchStep(2, 1) /\ UNCHANGED <<quiet, mode, form, fresh, read>>

\* Mutant: the confirmation stays on the page.
BackToFormBoth == Move /\ Clear({3}) /\ view' = view \cup {2} /\ UNCHANGED <<quiet, mode, form, fresh, read>>

BackToForm == Move /\ Clear({3}) /\ switchStep(3, 2) /\ UNCHANGED <<quiet, mode, form, fresh, read>>

\* One field of the form of the mode.
Changes(m) ==
    CASE m = "lan" -> {[form EXCEPT !.lan.ip = x] : x \in {"bad", "a2", "b2"}}
                      \cup {[form EXCEPT !.lan.gw = x] : x \in {Empty, "a1", "b1"}}
                      \cup {[form EXCEPT !.lan.flag = ~@]}
      [] m = "router" -> {[form EXCEPT !.router.ip = x] : x \in {"a2", "b1"}}
                         \cup {[form EXCEPT !.router.gw = x] : x \in {"a1", "b2"}}
                         \cup {[form EXCEPT !.router.flag = ~@]}
      [] m = "pppoe" -> {[form EXCEPT !.pppoe = x] : x \in {"none", "new"}}
      [] OTHER -> {[form EXCEPT !.wifi = x] : x \in {"new", "open", "short"}}

Fill ==
    /\ Move /\ Clear({2})
    /\ form' \in Changes(mode)
    /\ UNCHANGED <<quiet, view, mode, fresh, read>>

-----------------------------------------------------------------------------
(* Next: at the click                                                      *)

isValidIP(x) == x \in Addresses

GatewayFits(f) == isValidIP(f.gw) /\ f.gw # f.ip /\ isSameSubnet(f.ip, f.gw)

\* What the click accepts.
Accepted(m, f) ==
    CASE m = "lan" -> isValidIP(f.lan.ip) /\ (f.lan.flag => GatewayFits(f.lan))
      [] m = "router" -> f.router.flag => isValidIP(f.router.ip) /\ GatewayFits(f.router)
      [] m = "pppoe" -> f.pppoe # "none"
      [] OTHER -> f.wifi # "short"

Next2 ==
    /\ Move /\ Clear({2})
    /\ IF Accepted(mode, form)
         THEN /\ asks' = Append(asks, [mode |-> mode, form |-> form])
              /\ UNCHANGED dialog
         ELSE dialog' = "refused" /\ UNCHANGED asks
    /\ UNCHANGED <<settings, view, mode, form, confirm, fresh, read, sent, warned, overtaken, unchecked>>

-----------------------------------------------------------------------------
(* Next: the answer.  targetIp, targetGw, isBypass and rType are those of  *)
(* the click, the mode and the words of the other forms are read again;    *)
(* r is what the page has of the router by then.                           *)

Target(a) == IF a.mode \in {"lan", "router"} THEN ContentOf(a.mode, a.form).fields ELSE NoFields

Static(a) == a.form.router.flag

\* The click's own load, and the refresh's that came late, may have brought more.
Brings(r) == (read.net => r.net) /\ (read.dhcp => r.dhcp)
Readings == {r \in ReadSet : Brings(r) /\ r.air = read.air /\ r.wan = read.wan}

checkWanIp(a, r) == IF mode = "router" /\ Static(a) THEN Target(a).ip ELSE WanNow(r)
checkLanIp(a, r) == IF mode = "lan" THEN Target(a).ip ELSE LanNow(r)

\* An address that is not known is no conflict.
ConflictAt(a, r) == isSameSubnet(checkWanIp(a, r), checkLanIp(a, r))
Unchecked(a, r) == ~({checkWanIp(a, r), checkLanIp(a, r)} \subseteq Addresses)

SameAsRouter(a, r) ==
    CASE mode = "lan" -> /\ Target(a).ip = LanNow(r) /\ Target(a).gw = LanGwNow(r)
                         /\ form.lan.flag = BypassNow(r)
      [] mode = "router" -> IF Static(a) THEN Target(a).ip = WanNow(r) /\ Target(a).gw = WanGwNow(r)
                            ELSE r.net /\ settings.proto = "dhcp"
      [] mode = "pppoe" -> r.net /\ form.pppoe = "kept"
      [] OTHER -> form.wifi = "kept"

\* What the third step is told to show.
ConfirmText(a) ==
    [mode |-> mode, fields |-> IF mode \in {"lan", "router"} THEN Target(a) ELSE NoFields,
     word |-> ContentOf(mode, form).word]

\* Mutant: only the gateway is warned of.
WarnsGateway(a) == mode = "lan" /\ ~Target(a).flag /\ Target(a).gw # Empty

\* A gateway without bypass, or an open network.
Warns(a) ==
    \/ mode = "lan" /\ ~Target(a).flag /\ Target(a).gw # Empty
    \/ mode = "wifi" /\ form.wifi = "open"

Answered(a, r) ==
    IF ConflictAt(a, r) THEN dialog' = "refused" /\ UNCHANGED <<confirm, view>>
    ELSE IF SameAsRouter(a, r) THEN dialog' = "nomod" /\ UNCHANGED <<confirm, view>>
    ELSE /\ confirm' = ConfirmText(a)
         /\ IF Warns(a) THEN dialog' = "warn" /\ UNCHANGED view
                        ELSE switchStep(2, 3) /\ UNCHANGED dialog

Answer ==
    \E i \in DOMAIN asks, r \in Readings :
        /\ Answered(asks[i], r)
        /\ asks' = RemoveAt(asks, i) /\ read' = r /\ unchecked' = Unchecked(asks[i], r)
        /\ overtaken' = (overtaken \/ view # {2} \/ dialog # "none"
                         \/ asks[i] # [mode |-> mode, form |-> form])
        /\ UNCHANGED <<settings, mode, form, fresh, sent, warned, moves>>

\* The load fails: only a message.
LoadFails ==
    \E i \in DOMAIN asks :
        /\ dialog' = "refused" /\ asks' = RemoveAt(asks, i)
        /\ overtaken' = (overtaken \/ dialog # "none")
        /\ UNCHANGED <<settings, view, mode, form, confirm, fresh, read, sent, warned, unchecked, moves>>

-----------------------------------------------------------------------------
(* Dialogs, Apply, refresh                                                 *)

DialogOk ==
    /\ dialog \in {"refused", "nomod", "warn"} /\ dialog' = "none"
    /\ CASE dialog = "nomod" -> view' = {1} /\ UNCHANGED warned
         [] dialog = "warn" -> switchStep(2, 3) /\ warned' = ContentOf(mode, form)
         [] OTHER -> UNCHANGED <<view, warned>>
    /\ UNCHANGED <<settings, mode, form, asks, confirm, fresh, read, sent, overtaken, unchecked, moves>>

DialogCancel ==
    /\ dialog = "warn" /\ dialog' = "none"
    /\ UNCHANGED <<settings, view, mode, form, asks, confirm, fresh, read, sent, warned, overtaken, unchecked, moves>>

\* Apply reads everything again; the dialog stays until the page is loaded anew.
Apply ==
    /\ Clear({3}) /\ dialog' = "spin"
    /\ sent' = ContentOf(mode, form)
    /\ UNCHANGED <<settings, view, mode, form, asks, confirm, fresh, read, warned, overtaken, unchecked, moves>>

\* Every five seconds while the first step is displayed; it empties uci's cache first.
RefreshStarts ==
    /\ Move /\ Clear({1}) /\ ~fresh /\ fresh' = TRUE
    /\ read' = [read EXCEPT !.net = FALSE, !.dhcp = FALSE]
    /\ UNCHANGED <<quiet, view, mode, form>>

\* Each of the loads, and the status of the WAN, comes within three seconds or is lost.
Refreshed == {r \in ReadSet : Brings(r) /\ r.air}

\* Then it fills the forms, whatever step is displayed by then.
RefreshFills ==
    /\ fresh /\ fresh' = FALSE
    /\ \E r \in Refreshed, air \in BOOLEAN : read' = r /\ form' = FilledIn(form, r, air)
    /\ overtaken' = (overtaken \/ (form' # form /\ (3 \in view \/ asks # <<>> \/ dialog # "none")))
    /\ UNCHANGED <<settings, view, mode, asks, dialog, confirm, sent, warned, unchecked, moves>>

StepNext ==
    \/ \E m \in Modes : ChooseCard(m)
    \/ GotoRoam \/ BackHome \/ BackToForm \/ Fill \/ Next2 \/ Answer \/ LoadFails
    \/ DialogOk \/ DialogCancel \/ Apply \/ RefreshStarts \/ RefreshFills

-----------------------------------------------------------------------------
\* One step is displayed at a time.  Here and below, a page that changed between the
\* click on "Next" and its answer is left out, and a form that the refresh filled after
\* the click: then a second step is displayed and nothing is checked again.
OneView == ~overtaken => \E s \in 1..3 : view = {s}

\* What Apply sends never puts the LAN and the WAN into one /24 subnet.  It does when
\* the WAN's status, or the LAN's address, was lost: the comparison is skipped then.
SubnetsApart ==
    sent # NoContent /\ ~overtaken =>
        /\ sent.mode = "lan" => ~isSameSubnet(sent.fields.ip, LiveWan)
        /\ sent.mode = "router" /\ form.router.flag => ~isSameSubnet(sent.fields.ip, settings.lan.ip)

\* Nor into one network under the mask that it sends.  It does, with both addresses
\* known, where that mask is wider than /24 (OneClass).
NetworksApart ==
    sent # NoContent /\ ~overtaken =>
        /\ sent.mode = "lan" => ~SameNetwork(sent.fields.ip, LiveWan)
        /\ sent.mode = "router" /\ form.router.flag => ~SameNetwork(sent.fields.ip, settings.lan.ip)

\* Whatever way leads to Apply, what it sends was accepted at a click on "Next", does
\* not put the LAN and the WAN into one subnet ("actively stops users from putting WAN
\* and LAN in the same subnet", the README), and if it opens the Wi-Fi or sets a
\* gateway without bypass, the warning of just that was accepted.  Left out: the answer
\* that did not know the address to compare with (unchecked), and two /24 subnets under
\* one mask of their class.
SubmittedSound ==
    sent # NoContent /\ ~overtaken =>
        /\ Accepted(sent.mode, form)
        /\ ~unchecked => SubnetsApart /\ (~OneClass => NetworksApart)
        /\ \/ sent.word = "open"
           \/ sent.mode = "lan" /\ ~sent.fields.flag /\ sent.fields.gw # Empty
           => warned = sent

\* Apply sends what the third step shows, though it reads the form and not the text.
ConfirmTrue == sent # NoContent /\ ~overtaken => sent = confirm

\* What Apply sends was displayed alone, checked, warned about and confirmed.
StepsSound == OneView /\ SubmittedSound /\ ConfirmTrue
=============================================================================

------------------------------- MODULE PagesInv -------------------------------
(***************************************************************************)
(* The inductive invariants of the page machines: what each must hold back *)
(* or remember for its property to survive the next click, answer or timer.*)
(***************************************************************************)
EXTENDS Pages

-----------------------------------------------------------------------------
(* The NetWiz forms                                                        *)

WispInv == WispTypeOK /\ WispWhole

\* The fields are whole, in the form and in what the smart switch remembers, as long
\* as no key was copied alone.
NoIdleFields == ~copied => \A b \in Bands : backup.split[b].enc = "none" => backup.split[b].key = "none"

\* A select that took the router's value is never blank, nor is what was remembered.
NoBlank ==
    ~Blanked => (\A p \in Panels : nets[p].enc # "") /\ \A b \in Bands : backup.split[b].enc # ""

\* Nothing was marked clean without a word.
MarksKept == ~force => dirty = orig.dirty

OneBandOff == LoadedSmart(conf) /\ \E b \in Bands : ~conf[b].on

\* The panels that are not displayed keep their switches, too.
StaysOn ==
    ~switched /\ ~OneBandOff =>
        nets["smart"].on /\ \A b \in Bands : conf[b].on => nets[b].on

\* What the form was loaded with, and what the bands were when the smart switch went on.
LoadedSet ==
    [packed : [{"smart"} -> NetRecords] \cup [Bands -> NetRecords], dirty : SUBSET Panels,
     left : [Bands -> NetRecords]]

WifiTypeInv ==
    /\ WifiTypeOK /\ backup \in [made : BOOLEAN, split : [Bands -> NetRecords]] /\ orig \in LoadedSet
    /\ primed \in BOOLEAN /\ force \in BOOLEAN /\ copied \in BOOLEAN /\ switched \in BOOLEAN

WifiInv ==
    /\ WifiTypeInv /\ backup.split = orig.left
    /\ NoIdleKey /\ NoIdleFields /\ NoBlank /\ MarksKept /\ StaysOn

-----------------------------------------------------------------------------
(* The steps                                                               *)

FieldSet == [ip : Addresses \cup {Empty, "bad"}, gw : Addresses \cup {Empty}, flag : BOOLEAN]
Forms == [lan : FieldSet, router : FieldSet, pppoe : {"none", "kept", "new"},
          wifi : {"kept", "new", "open", "short"}]

StepTypeInv ==
    /\ StepTypeOK /\ settings \in Confs /\ form \in Forms
    /\ asks \in Seq([mode : Modes, form : Forms]) /\ Len(asks) <= moves
    /\ mode = "none" => view = {1} /\ asks = <<>> /\ dialog = "none"

\* Only what was accepted is asked about.
AsksAccepted == \A i \in DOMAIN asks : Accepted(asks[i].mode, asks[i].form)

\* What the form would send may be sent: it was accepted, and keeps LAN and WAN apart
\* if the addresses were known.
Sendable ==
    /\ Accepted(mode, form)
    /\ ~unchecked =>
          /\ mode = "lan" => ~isSameSubnet(form.lan.ip, LiveWan)
          /\ mode = "router" /\ form.router.flag => ~isSameSubnet(form.router.ip, settings.lan.ip)

NeedsWarning(c) == c.word = "open" \/ (c.mode = "lan" /\ ~c.fields.flag /\ c.fields.gw # Empty)

\* What each step and each dialog vouches for.
Vouched ==
    /\ view \in {{1}, {2}, {3}}
    /\ dialog = "nomod" => view = {2}
    /\ dialog = "warn" => view = {2} /\ Sendable /\ confirm = ContentOf(mode, form)
    /\ view = {3} =>
          /\ Sendable /\ confirm = ContentOf(mode, form)
          /\ NeedsWarning(confirm) => warned = confirm
    /\ sent # NoContent => view = {3} /\ dialog = "spin" /\ sent = confirm

\* They vouch for it as long as the page changed under no answer.
StepsHold == ~overtaken => Vouched

StepInv == StepTypeInv /\ AsksAccepted /\ StepsHold

-----------------------------------------------------------------------------
(* The wizard                                                              *)

\* What may be submitted: the fields shown in the third step, with their consents.
Confirmed(f) ==
    /\ f = told
    /\ f.wan = "pppoe" => f.account
    /\ ~f.skip /\ f.pass = "none" => agreed = f

\* What each step of the wizard has checked, and what a submission still stands on.
StepsChecked ==
    /\ wiz.step # 1 => (wiz.fields.wan = "pppoe" => wiz.fields.account)
    /\ wiz.step = 3 => Confirmed(wiz.fields)
    /\ box = "open" => wiz.step = 2
    /\ job.state # "no" => box = "spin"
    /\ job.state = "saving" => wiz.step = 3
    /\ job.state \in {"setup", "done"} => Confirmed(wsent.fields)

\* The state of IPv6 is the router's wherever it is kept.
Ipv6Known ==
    ~missed =>
        /\ known \in {"unknown", ipv6}
        /\ job.state # "no" => job.ipv6 = ipv6
        /\ job.state \in {"setup", "done"} => wsent.ipv6 = ipv6

\* Until the first load is heard nothing is sent; then what is sent is the wish.
WishOnItsWay ==
    ~missed /\ ~muddled =>
        /\ opening # "done" => wsaves = {}
        /\ opening \in {"0", "1"} => opening = option
        /\ opening = "done" => current = wish /\ wsaves \subseteq {wish}
        /\ wsaves = {} => option = wish

WizInv == WizTypeOK /\ StepsChecked /\ Ipv6Known /\ WishOnItsWay

-----------------------------------------------------------------------------
(* Lucky's looks, and the logs                                             *)

DotInv == DotTypeOK

\* A close timer runs in a displayed panel; a panel that is wanted has its height, or a
\* frame that gives it.
PanelInv ==
    /\ PanelTypeOK /\ frames.raf + frames.close <= taps
    /\ ~panel.built => ~panel.display
    /\ ~doubled =>
          /\ frames.close <= 1 /\ (frames.close > 0 => panel.display /\ ~want)
          /\ want => panel.display /\ (panel.height = "0" => frames.raf > 0)
          /\ ~want /\ panel.display => frames.close > 0

\* With no crossing, one value at most is on its way, and it is the page's; an answer
\* on its way is what the router still has, or the {} of a lost load.
ThemeInv ==
    /\ ThemeTypeOK
    /\ ~crossed =>
          /\ load.state = "done" => saves \subseteq {Saved(themeNow)}
          /\ load.state = "done" /\ saves = {} /\ ~themeLost => server = Saved(themeNow)
          /\ load.state # "done" => saves = {}
          /\ load.state = "got" => load.val \in {server, ""}

\* The numbers of the lines grow, and those that kiwi's mark covers are cleared ones.
RingInv ==
    /\ log \in Seq(1..logged) /\ logged \in Nat /\ mark \in Nat /\ cleared \in 0..logged
    /\ app # "kiwi" => mark = 0
    /\ app = "kiwi" => Len(log) <= Ring
    /\ ~rotated => mark <= Len(log) /\ \A i \in 1..Len(log) : i <= mark => log[i] <= cleared

AskedSet == [state : {"no", "sent", "got", "bad"}, text : Seq(Int)]

\* The page's own state, apart from what is on the screen.
PageTyped ==
    /\ asked \in [Slots -> AskedSet] /\ clear \in {"no", "sent", "ok", "refused", "exec", "failed"}
    /\ lines \in Seq(Int) /\ Len(lines) <= MaxLines /\ acts \in 0..MaxActs
    /\ bar \in [paused : BOOLEAN, reverse : BOOLEAN, search : BOOLEAN]

LogInv == PageTyped /\ RingInv /\ ShownIsView

\* Together, with what ColorInv and MenuInv say of theirs.
PagesInvariant ==
    /\ DotInv /\ PanelInv /\ ThemeInv /\ LogInv /\ WifiInv /\ WispInv /\ StepInv /\ WizInv
=============================================================================

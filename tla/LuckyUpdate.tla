----------------------------- MODULE LuckyUpdate -----------------------------
(***************************************************************************)
(* The page "Download & Update" (view/lucky/update.js), its section for    *)
(* the core: two buttons, a retry row, a choice of version and file, and   *)
(* one poller for checks and one for installations.                        *)
(***************************************************************************)
EXTENDS LuckyPoller

VARIABLE upd    \* what the section shows

Blind == [chk |-> TRUE, do |-> FALSE, sels |-> FALSE, retry |-> FALSE, rels |-> {}, tag |-> 0]

UpdTypeOK ==
    /\ upd \in [chk : BOOLEAN, do : BOOLEAN, sels : BOOLEAN, retry : BOOLEAN,
                rels : SUBSET Versions, tag : 0..Latest]

\* Both buttons can be pressed; nothing is offered yet.
UpdInit == upd = [Blind EXCEPT !.do = TRUE]

\* _chk, from its button or from the retry row: everything older is hidden.
_chk ==
    /\ upd.chk \/ upd.retry
    /\ upd' = [upd EXCEPT !.chk = FALSE, !.retry = FALSE, !.sels = FALSE]
    /\ Click("check", 0, NoForm)
    /\ UNCHANGED <<notEvents, pollVars>>

\* The poller of a check starts on any answer but the word "error", which the plugin
\* never gives, so also on the {} of a lost call: then for no known run (0), with the
\* button still disabled.
ChkAnswer(c) ==
    /\ Delivered(c, "check")
    /\ Consume(c)
    /\ start("chk", c.ans.run)
    /\ UNCHANGED <<routerVars, upd>>

\* _do: only its own button is disabled.
_do ==
    /\ upd.sels /\ upd.do /\ upd.tag # 0
    /\ upd' = [upd EXCEPT !.do = FALSE]
    /\ Click("do", upd.tag, NoForm)
    /\ UNCHANGED <<notEvents, pollVars>>

DoAnswer(c) ==
    /\ Delivered(c, "do")
    /\ Consume(c)
    /\ IF c.ans.ok
         THEN start("do", c.ans.run) /\ UNCHANGED upd
         ELSE upd' = [upd EXCEPT !.do = TRUE] /\ UNCHANGED pollVars
    /\ UNCHANGED routerVars

\* _sel: the files of the chosen version; with none of the variant no install.
_sel(u, tag, fits) == [u EXCEPT !.tag = IF fits THEN tag ELSE 0, !.do = fits]

\* Another version is chosen in the list.
Choose(tag) ==
    /\ upd.sels /\ tag \in upd.rels
    /\ upd' = _sel(upd, tag, TRUE)
    /\ upd' # upd
    /\ UNCHANGED <<routerVars, rpcVars, pollVars>>

\* Mutant: an error offers a retry without giving the buttons back.
onDoneKeeps(q) ==
    /\ Last(q)
    /\ \/ /\ q.who = "chk" /\ q.said.code = "ready" /\ q.rel # {}
          /\ upd' = [_sel([upd EXCEPT !.chk = TRUE], Latest, TRUE) EXCEPT !.rels = q.rel, !.sels = TRUE]
       \/ q.said.code = "error" /\ upd' = [upd EXCEPT !.retry = TRUE]
    /\ UNCHANGED <<routerVars, rpcVars>>

\* onDone of a check or an installation enables both buttons.
onDone(q) ==
    /\ Last(q)
    /\ LET u == [upd EXCEPT !.chk = TRUE, !.do = TRUE] IN
       \/ /\ q.who = "chk" /\ q.said.code = "ready" /\ q.rel # {}
          /\ \E fits \in BOOLEAN :
                upd' = [_sel(u, Latest, fits) EXCEPT !.rels = q.rel, !.sels = TRUE]
       \/ q.said.code = "error" /\ upd' = [u EXCEPT !.retry = TRUE]
       \/ ~(q.who = "chk" /\ q.rel # {}) /\ q.said.code # "error" /\ upd' = u
    /\ UNCHANGED <<routerVars, rpcVars>>

\* "Clear Cache", at any time.
Clear ==
    /\ Click("clean", 0, NoForm)
    /\ UNCHANGED <<notEvents, pollVars, upd>>

ClearAnswer(c) ==
    /\ Delivered(c, "clean")
    /\ Consume(c)
    /\ UNCHANGED <<routerVars, pollVars, upd>>

UpdateNext ==
    \/ _chk \/ _do \/ Clear
    \/ \E tag \in Versions : Choose(tag)
    \/ \E c \in calls : ChkAnswer(c) \/ DoAnswer(c) \/ ClearAnswer(c)
    \/ \E q \in polls : q.who \in {"chk", "do"} /\ onDone(q)
=============================================================================

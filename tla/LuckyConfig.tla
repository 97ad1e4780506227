----------------------------- MODULE LuckyConfig -----------------------------
(***************************************************************************)
(* The page "Basic Settings" (view/lucky/config.js): a form filled once,   *)
(* saved as a whole; restoring a backup from a list; resetting the user.   *)
(* A form whose settings did not load shows the defaults.                  *)
(***************************************************************************)
EXTENDS LuckyRpcd

CONSTANT Default    \* the value the form shows for an empty setting

ASSUME ConfigAssumption == Default \in Vals

VARIABLES
    form,       \* what the fields show
    loaded_ok,  \* did get_settings answer when the page was opened?
    saving,     \* the Save button is busy
    touched,    \* history: the fields the user changed
    restore,    \* "idle", "busy" (button disabled) or "panel"
    listed      \* the backups of the panel

configVars == <<form, loaded_ok, saving, touched, restore, listed>>

ConfigTypeOK ==
    /\ form \in [Keys -> Vals] /\ loaded_ok \in BOOLEAN /\ saving \in BOOLEAN
    /\ touched \subseteq Keys
    /\ restore \in {"idle", "busy", "panel"} /\ listed \subseteq 0..Latest

\* Mutant: the form is built before the settings arrive.
ConfigInitEarly ==
    /\ loaded_ok \in BOOLEAN
    /\ form = [k \in Keys |-> Default]
    /\ saving = FALSE /\ touched = {} /\ restore = "idle" /\ listed = {}

\* render: the stored value of every field, or its default.
ConfigInit ==
    /\ loaded_ok \in BOOLEAN
    /\ form = IF loaded_ok THEN conf ELSE [k \in Keys |-> Default]
    /\ saving = FALSE /\ touched = {} /\ restore = "idle" /\ listed = {}

\* A field is changed (once each is enough: the form is sent whole).
Edit(k, v) ==
    /\ restore # "panel" /\ k \notin touched /\ form[k] # v
    /\ form' = [form EXCEPT ![k] = v]
    /\ touched' = touched \cup {k}
    /\ UNCHANGED <<routerVars, rpcVars, loaded_ok, saving, restore, listed>>

\* _save sends every field; the button is busy until the promise settles, which
\* a call that fails does without a message of the page.
_save ==
    /\ ~saving /\ restore # "panel"
    /\ saving' = TRUE
    /\ Click("save", 0, form)
    /\ UNCHANGED <<notEvents, form, loaded_ok, touched, restore, listed>>

SaveAnswer(c) ==
    /\ Delivered(c, "save")
    /\ Consume(c)
    /\ saving' = FALSE
    /\ UNCHANGED <<routerVars, form, loaded_ok, touched, restore, listed>>

ListBackups ==
    /\ restore = "idle"
    /\ restore' = "busy"
    /\ Click("list", 0, form)
    /\ UNCHANGED <<notEvents, form, loaded_ok, saving, touched, listed>>

ListAnswer(c) ==
    /\ Delivered(c, "list")
    /\ Consume(c)
    /\ listed' = c.ans.names
    /\ IF c.ans.names = {} THEN restore' = "idle"
         ELSE restore' = "panel"
    /\ UNCHANGED <<routerVars, form, loaded_ok, saving, touched>>

\* A file is clicked and confirmed; or the panel is left.
Pick(b) ==
    /\ restore = "panel" /\ b \in listed
    /\ restore' = "idle"
    /\ Click("restore", b, form)
    /\ UNCHANGED <<notEvents, form, loaded_ok, saving, touched, listed>>

ClosePanel ==
    /\ restore = "panel"
    /\ restore' = "idle"
    /\ UNCHANGED <<routerVars, rpcVars, form, loaded_ok, saving, touched, listed>>

RestoreAnswer(c) ==
    /\ Delivered(c, "restore")
    /\ Consume(c)
    /\ UNCHANGED <<routerVars, form, loaded_ok, saving, touched, restore, listed>>

\* "Reset password", confirmed.
Reset ==
    /\ restore # "panel"
    /\ Click("reset", 0, form)
    /\ UNCHANGED <<notEvents, configVars>>

ResetAnswer(c) ==
    /\ Delivered(c, "reset")
    /\ Consume(c)
    /\ UNCHANGED <<routerVars, form, loaded_ok, saving, touched, restore, listed>>

ConfigNext ==
    \/ _save \/ ListBackups \/ ClosePanel \/ Reset
    \/ \E k \in Keys, v \in Vals : Edit(k, v)
    \/ \E b \in listed : Pick(b)
    \/ \E c \in calls : SaveAnswer(c) \/ ListAnswer(c) \/ RestoreAnswer(c) \/ ResetAnswer(c)
=============================================================================

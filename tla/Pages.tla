------------------------------- MODULE Pages -------------------------------
(***************************************************************************)
(* The machines of the browser pages, side by side.  They share no state:  *)
(* a behaviour opens one of them (focus) and leaves the others as a fixed  *)
(* first state has them.                                                   *)
(***************************************************************************)
EXTENDS LuckyDot, LuckyPanel, LuckyTheme, LuckyColors, LogPages, ArgonMenu,
        NetwizWifi, NetwizWisp, NetwizSteps, NetwizWizard

VARIABLE focus

Machines == {"dot", "panel", "theme", "colors", "logs", "menu", "wifi", "wisp", "steps", "wizard"}

pageMachines == <<focus, dotVars, panelVars, themeVars, colorVars, logVars, menuVars,
                  wifiVars, wispVars, stepVars, wizVars>>

\* The first state of a machine that is not opened.
Fixed(m) ==
    CASE m = "dot" -> up = FALSE
      [] m = "theme" -> kind = "theme" /\ local = "" /\ server = "light"
      [] m = "colors" -> kept = NoColors
      [] m = "logs" -> app = "kiwi"
      [] m = "menu" -> active = {}
      [] m = "wifi" -> single = FALSE /\ conf = [b \in Bands |-> Config(TRUE, b, "good", "psk2", TRUE, FALSE)]
      [] m = "wisp" -> chips = 1 /\ band5 = FALSE /\ relay \in {k \in Kept : ~k.on} /\ refresh = FALSE
      [] m = "steps" -> settings = [lan |-> Fields("a1", Empty, FALSE), router |-> NoFields, proto |-> "dhcp", named |-> FALSE]
      [] m = "wizard" -> ipv6 = "0" /\ option = "0"
      [] OTHER -> TRUE

Begin(m) == IF focus = m THEN TRUE ELSE Fixed(m)

Init ==
    /\ focus \in Machines
    /\ Begin("dot") /\ DotInit /\ PanelInit
    /\ Begin("theme") /\ ThemeInit
    /\ Begin("colors") /\ ColorInit
    /\ Begin("logs") /\ LogInit
    /\ Begin("menu") /\ MenuInit
    /\ Begin("wifi") /\ WifiInit
    /\ Begin("wisp") /\ WispInit
    /\ Begin("steps") /\ StepInit
    /\ Begin("wizard") /\ WizInit

Rest(m, vars) == IF focus = m THEN TRUE ELSE UNCHANGED vars

Only(m) ==
    /\ focus = m /\ UNCHANGED focus
    /\ Rest("dot", dotVars) /\ Rest("panel", panelVars) /\ Rest("theme", themeVars)
    /\ Rest("colors", colorVars) /\ Rest("logs", logVars) /\ Rest("menu", menuVars)
    /\ Rest("wifi", wifiVars) /\ Rest("wisp", wispVars)
    /\ Rest("steps", stepVars) /\ Rest("wizard", wizVars)

Next ==
    \/ focus = "dot" /\ DotNext /\ Only("dot")
    \/ focus = "panel" /\ PanelNext /\ Only("panel")
    \/ focus = "theme" /\ ThemeNext /\ Only("theme")
    \/ focus = "colors" /\ ColorNext /\ Only("colors")
    \/ focus = "logs" /\ LogNext /\ Only("logs")
    \/ focus = "menu" /\ MenuNext /\ Only("menu")
    \/ focus = "wifi" /\ WifiNext /\ Only("wifi")
    \/ focus = "wisp" /\ WispNext /\ Only("wisp")
    \/ focus = "steps" /\ StepNext /\ Only("steps")
    \/ focus = "wizard" /\ WizNext /\ Only("wizard")

\* The polls of a page go on, its timer fires and the router answers.
Fairness ==
    /\ WF_pageMachines(focus = "dot" /\ DotProgress /\ Only("dot"))
    /\ WF_pageMachines(focus = "dot" /\ Age /\ Only("dot"))
    /\ WF_pageMachines(focus = "logs" /\ PollRound /\ Only("logs"))
    /\ WF_pageMachines(focus = "logs" /\ FirstFetch /\ Only("logs"))

Spec == Init /\ [][Next]_pageMachines /\ Fairness

\* The machines take only values of their kind.
PagesTypeOK ==
    /\ DotTypeOK /\ PanelTypeOK /\ ThemeTypeOK /\ ColorTypeOK /\ LogTypeOK /\ MenuTypeOK
    /\ WifiTypeOK /\ WispTypeOK /\ StepTypeOK /\ WizTypeOK /\ focus \in Machines

\* Lucky's looks come to rest as the last click left them: the colour panel open or hidden
\* on this page, theme and background the same on this page and on the next.
AppearanceSettles == PanelObeys /\ SettingKept
=============================================================================

------------------------------ MODULE ArgonMenu ------------------------------
(***************************************************************************)
(* The sidebar of luci-theme-argon (theme21, menu-argon.js): submenus that *)
(* slide open and shut.  An animation writes inline styles, remembers the  *)
(* ones it found, and gives them back when its timer fires or when         *)
(* another animation stops it.                                             *)
(***************************************************************************)
EXTENDS FiniteSets

CONSTANT Menus      \* the menu items that have a submenu

VARIABLES
    active,         \* submenus (and their links) of class "active"
    style,          \* inline display, height and overflow of each submenu
    anim,           \* its running animation and the styles to give back
    sidebar         \* per element: of class "active"

menuVars == <<active, style, anim, sidebar>>

Css == "css"        \* no inline value: the style sheet decides
Elements == {"showSide", "mainmenu", "darkMask", "main-right"}
Plain == [display |-> Css, height |-> Css, overflow |-> Css]
NoAnim == [kind |-> "none", height |-> Css, overflow |-> Css]

Styles == [display : {Css, "block", "none"}, height : {Css, "0px", "full"}, overflow : {Css, "hidden"}]
Anims == [kind : {"none", "down", "up"}, height : {Css, "0px", "full"}, overflow : {Css, "hidden"}]

MenuTypeOK ==
    /\ active \subseteq Menus /\ style \in [Menus -> Styles] /\ anim \in [Menus -> Anims]
    /\ sidebar \in [Elements -> BOOLEAN]

\* renderMainMenu: at most the submenu of the open page is active.
MenuInit ==
    /\ active \in {{}} \cup {{m} : m \in Menus}
    /\ style = [m \in Menus |-> Plain]
    /\ anim = [m \in Menus |-> NoAnim]
    /\ sidebar = [e \in Elements |-> FALSE]

\* The cleanup of an animation.
cleanup(s, a) ==
    [display |-> IF a.kind = "up" THEN "none" ELSE s.display, height |-> a.height, overflow |-> a.overflow]

\* Mutant: a running animation is left alone.
notStopped(m) == style[m]

\* stop: clean up at once what runs.
stop(m) == IF anim[m].kind = "none" THEN style[m] ELSE cleanup(style[m], anim[m])

Remember(kind, s) == [kind |-> kind, height |-> s.height, overflow |-> s.overflow]

slideUp(m) == [stop(m) EXCEPT !.height = "0px", !.overflow = "hidden"]

slideDown(m) == [stop(m) EXCEPT !.display = "block", !.height = "full", !.overflow = "hidden"]

\* Mutant: the other submenus stay open.
handleMenuExpandOnly(m) ==
    /\ m \notin active /\ active' = active \cup {m}
    /\ style' = [style EXCEPT ![m] = slideDown(m)]
    /\ anim' = [anim EXCEPT ![m] = Remember("down", stop(m))]
    /\ UNCHANGED sidebar

\* Every active submenu slides up; then the clicked one slides down unless it was open.
handleMenuExpand(m) ==
    LET open == {m} \ active IN
    /\ active' = open
    /\ style' = [n \in Menus |-> IF n \in active THEN slideUp(n)
                                 ELSE IF n \in open THEN slideDown(n) ELSE style[n]]
    /\ anim' = [n \in Menus |-> IF n \in active THEN Remember("up", stop(n))
                                ELSE IF n \in open THEN Remember("down", stop(n)) ELSE anim[n]]
    /\ UNCHANGED sidebar

\* An item without a submenu closes them and follows its link.
ExpandLeaf ==
    /\ active' = {}
    /\ style' = [n \in Menus |-> IF n \in active THEN slideUp(n) ELSE style[n]]
    /\ anim' = [n \in Menus |-> IF n \in active THEN Remember("up", stop(n)) ELSE anim[n]]
    /\ UNCHANGED sidebar

\* The timer of the animation.
Elapsed(m) ==
    /\ anim[m].kind # "none"
    /\ style' = [style EXCEPT ![m] = cleanup(style[m], anim[m])]
    /\ anim' = [anim EXCEPT ![m] = NoAnim]
    /\ UNCHANGED <<active, sidebar>>

\* The button and the dark mask turn all four elements together.
handleSidebarToggle ==
    /\ sidebar' = [e \in Elements |-> ~sidebar["showSide"]]
    /\ UNCHANGED <<active, style, anim>>

MenuNext ==
    \/ \E m \in Menus : handleMenuExpand(m) \/ Elapsed(m)
    \/ ExpandLeaf \/ handleSidebarToggle

MenuSpec == MenuInit /\ [][MenuNext]_menuVars

-----------------------------------------------------------------------------
Visible(m) == style[m].display = "block" \/ (style[m].display = Css /\ m \in active)

\* However fast the clicks come, a submenu whose animation is over has no height or
\* overflow left of it and is visible exactly when it is active: the styles that an
\* animation gives back are never those of another one it interrupted.
MenusSettle ==
    \A m \in Menus : anim[m].kind = "none" =>
        /\ style[m].height = Css /\ style[m].overflow = Css
        /\ Visible(m) <=> m \in active

\* At most one submenu is open, or on its way to be.
OneOpen == \A m, n \in Menus : Visible(m) /\ Visible(n) /\ m # n => "up" \in {anim[m].kind, anim[n].kind}

\* What is remembered is always the plain style; what slides down is active, what
\* slides up is not.
MenuInv ==
    /\ MenuTypeOK
    /\ \A m, n \in active : m = n
    /\ \A m \in Menus :
          /\ anim[m].height = Css /\ anim[m].overflow = Css
          /\ anim[m].kind = "down" => m \in active /\ style[m].display = "block"
          /\ anim[m].kind = "up" => m \notin active
    /\ MenusSettle

\* However clicks and timers interleave, the menu ends whole, one submenu open.
MenuSound == MenusSettle /\ OneOpen
=============================================================================

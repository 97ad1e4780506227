--------------------------- MODULE ArgonMenu_proofs ---------------------------
(***************************************************************************)
(* MenusSettle and OneOpen for every set of menus.                         *)
(***************************************************************************)
EXTENDS ArgonMenu, TLAPS

USE DEF Css

\* Before the first click nothing is animated and at most one submenu is active.
LEMMA MenuInitInv == MenuInit => MenuInv
<1> SUFFICES ASSUME MenuInit PROVE MenuInv
  OBVIOUS
<1>1. \A m \in Menus : style[m] = Plain /\ anim[m] = NoAnim
  BY DEF MenuInit
<1>2. active \subseteq Menus /\ \A m, n \in active : m = n
  BY DEF MenuInit
<1>3. MenuTypeOK
  <2>1. Plain \in Styles /\ NoAnim \in Anims
    BY DEF Plain, NoAnim, Styles, Anims
  <2>2. sidebar \in [Elements -> BOOLEAN]
    BY DEF MenuInit
  <2> QED BY <1>2, <2>1, <2>2 DEF MenuInit, MenuTypeOK
<1>4. MenusSettle
  BY <1>1 DEF MenusSettle, Visible, Plain
<1>5. \A m \in Menus : anim[m].kind = "none" /\ anim[m].height = Css /\ anim[m].overflow = Css
  BY <1>1 DEF NoAnim
<1> QED BY <1>2, <1>3, <1>4, <1>5 DEF MenuInv

\* stop gives back the plain style, whatever runs; only a slide up also hides.
LEMMA StopPlain ==
    ASSUME MenuInv, NEW m \in Menus
    PROVE  /\ stop(m) \in Styles
           /\ stop(m).height = Css /\ stop(m).overflow = Css
BY DEF MenuInv, MenuTypeOK, MenusSettle, stop, cleanup, Styles, Anims

\* One case per action: the clicked and the closed submenus start from the plain style
\* that stop gives back, the others keep theirs.
LEMMA MenuStepInv == MenuInv /\ [MenuNext]_menuVars => MenuInv'
<1> SUFFICES ASSUME MenuInv, [MenuNext]_menuVars PROVE MenuInv'
  OBVIOUS
<1>1. ASSUME NEW m \in Menus, handleMenuExpand(m) PROVE MenuInv'
  <2> DEFINE open == {m} \ active
  <2>1. \A n \in Menus : /\ stop(n) \in Styles
                         /\ stop(n).height = Css /\ stop(n).overflow = Css
    BY StopPlain
  <2>2. active' = open /\ sidebar' = sidebar
    BY <1>1 DEF handleMenuExpand
  <2>3. \A n \in Menus : /\ n \in active => /\ style'[n] = slideUp(n)
                                            /\ anim'[n] = Remember("up", stop(n))
                         /\ n \notin active /\ n = m => /\ style'[n] = slideDown(n)
                                                        /\ anim'[n] = Remember("down", stop(n))
                         /\ n \notin active /\ n # m => style'[n] = style[n] /\ anim'[n] = anim[n]
    BY <1>1 DEF handleMenuExpand
  <2>4. MenuTypeOK'
    <3>1. \A n \in Menus : /\ slideUp(n) \in Styles /\ slideDown(n) \in Styles
                           /\ Remember("up", stop(n)) \in Anims /\ Remember("down", stop(n)) \in Anims
      BY <2>1 DEF slideUp, slideDown, Remember, Styles, Anims
    <3> QED BY <3>1, <1>1 DEF handleMenuExpand, MenuInv, MenuTypeOK
  <2>5. \A a, b \in active' : a = b
    BY <2>2
  <2>6. ASSUME NEW n \in Menus
        PROVE  /\ anim'[n].height = Css /\ anim'[n].overflow = Css
               /\ anim'[n].kind = "down" => n \in active' /\ style'[n].display = "block"
               /\ anim'[n].kind = "up" => n \notin active'
               /\ anim'[n].kind = "none" => /\ style'[n].height = Css /\ style'[n].overflow = Css
                                            /\ Visible(n)' <=> n \in active'
    <3>1. CASE n \in active
      <4>1. anim'[n] = [kind |-> "up", height |-> Css, overflow |-> Css]
        BY <3>1, <2>1, <2>3 DEF Remember
      <4> QED BY <4>1, <3>1, <2>2 DEF Visible
    <3>2. CASE n \notin active /\ n = m
      <4>1. anim'[n] = [kind |-> "down", height |-> Css, overflow |-> Css]
        BY <3>2, <2>1, <2>3 DEF Remember
      <4>2. style'[n].display = "block"
        BY <3>2, <2>1, <2>3 DEF slideDown, Styles
      <4> QED BY <4>1, <4>2, <3>2, <2>2 DEF Visible
    <3>3. CASE n \notin active /\ n # m
      BY <3>3, <2>2, <2>3 DEF MenuInv, MenusSettle, Visible
    <3> QED BY <3>1, <3>2, <3>3
  <2> QED BY <2>4, <2>5, <2>6 DEF MenuInv, MenusSettle
<1>2. ASSUME ExpandLeaf PROVE MenuInv'
  <2>1. \A n \in Menus : /\ stop(n) \in Styles
                         /\ stop(n).height = Css /\ stop(n).overflow = Css
    BY StopPlain
  <2>2. MenuTypeOK'
    <3>1. \A n \in Menus : slideUp(n) \in Styles /\ Remember("up", stop(n)) \in Anims
      BY <2>1 DEF slideUp, Remember, Styles, Anims
    <3> QED BY <3>1, <1>2 DEF ExpandLeaf, MenuInv, MenuTypeOK
  <2>3. ASSUME NEW n \in Menus
        PROVE  /\ anim'[n].height = Css /\ anim'[n].overflow = Css
               /\ anim'[n].kind = "down" => n \in active' /\ style'[n].display = "block"
               /\ anim'[n].kind = "up" => n \notin active'
               /\ anim'[n].kind = "none" => /\ style'[n].height = Css /\ style'[n].overflow = Css
                                            /\ Visible(n)' <=> n \in active'
    <3>1. CASE n \in active
      <4>1. anim'[n] = [kind |-> "up", height |-> Css, overflow |-> Css]
        BY <3>1, <1>2, <2>1 DEF ExpandLeaf, Remember
      <4> QED BY <4>1, <3>1, <1>2 DEF ExpandLeaf, Visible
    <3>2. CASE n \notin active
      BY <3>2, <1>2 DEF ExpandLeaf, MenuInv, MenusSettle, Visible
    <3> QED BY <3>1, <3>2
  <2>4. \A a, b \in active' : a = b
    BY <1>2 DEF ExpandLeaf
  <2> QED BY <2>2, <2>3, <2>4 DEF MenuInv, MenusSettle
<1>3. ASSUME NEW m \in Menus, Elapsed(m) PROVE MenuInv'
  <2>1. MenuTypeOK' /\ active' = active
    BY <1>3 DEF Elapsed, MenuInv, MenuTypeOK, cleanup, NoAnim, Styles, Anims
  <2>2. ASSUME NEW n \in Menus
        PROVE  /\ anim'[n].height = Css /\ anim'[n].overflow = Css
               /\ anim'[n].kind = "down" => n \in active' /\ style'[n].display = "block"
               /\ anim'[n].kind = "up" => n \notin active'
               /\ anim'[n].kind = "none" => /\ style'[n].height = Css /\ style'[n].overflow = Css
                                            /\ Visible(n)' <=> n \in active'
    <3>1. CASE n = m
      BY <3>1, <1>3 DEF Elapsed, cleanup, NoAnim, MenuInv, MenuTypeOK, Visible, Styles, Anims
    <3>2. CASE n # m
      BY <3>2, <1>3 DEF Elapsed, MenuInv, MenuTypeOK, MenusSettle, Visible
    <3> QED BY <3>1, <3>2
  <2> QED BY <2>1, <2>2 DEF MenuInv, MenusSettle
<1>4. ASSUME handleSidebarToggle PROVE MenuInv'
  BY <1>4 DEF handleSidebarToggle, MenuInv, MenuTypeOK, MenusSettle, Visible, Elements
<1>5. ASSUME UNCHANGED menuVars PROVE MenuInv'
  BY <1>5 DEF menuVars, MenuInv, MenuTypeOK, MenusSettle, Visible
<1> QED BY <1>1, <1>2, <1>3, <1>4, <1>5 DEF MenuNext

\* No menu is ever left with the height of an interrupted animation, hidden while
\* active or visible while not: for every set of menus.
THEOREM MenusSettleAlways == MenuSpec => []MenusSettle
<1>1. MenuInv => MenusSettle
  BY DEF MenuInv
<1> QED BY MenuInitInv, MenuStepInv, <1>1, PTL DEF MenuSpec

\* Two submenus are visible together only while one of them slides shut.
THEOREM OneOpenAlways == MenuSpec => []OneOpen
<1>1. MenuInv => OneOpen
  <2> SUFFICES ASSUME MenuInv, NEW m \in Menus, NEW n \in Menus,
                      Visible(m), Visible(n), m # n
               PROVE  anim[m].kind = "up" \/ anim[n].kind = "up"
    BY DEF OneOpen
  <2>1. anim[m].kind \in {"none", "down", "up"} /\ anim[n].kind \in {"none", "down", "up"}
    BY DEF MenuInv, MenuTypeOK, Anims
  <2>2. m \in active /\ n \in active => m = n
    BY DEF MenuInv
  <2> QED BY <2>1, <2>2 DEF MenuInv, MenusSettle
<1> QED BY MenuInitInv, MenuStepInv, <1>1, PTL DEF MenuSpec

\* Both together: the menu of the theme is whole and shows one submenu at rest.
THEOREM MenuSoundAlways == MenuSpec => []MenuSound
BY MenusSettleAlways, OneOpenAlways, PTL DEF MenuSound
=============================================================================

----------------------------- MODULE LuckyColors -----------------------------
(***************************************************************************)
(* The colours of the Lucky pages (lucky/common.js): the values of the     *)
(* page, what is painted, the sliders of the panel (stateMap) and the      *)
(* settings in the router.  Every change saves all colours, each as a hex  *)
(* number with two more digits when it is translucent.                     *)
(***************************************************************************)
EXTENDS Integers

CONSTANTS
    ColorKeys,      \* COLOR_KEYS
    Deco,           \* the key that is painted without opacity
    Hues,           \* colours the user picks
    Opacities,      \* positions of the opacity slider, of 0..100
    MaxEdits        \* changes of the user: a bound of the model

ASSUME ColorAssumption ==
    /\ Deco \in ColorKeys /\ MaxEdits \in Nat /\ Opacities \subseteq 0..100
    /\ Hues \cap {"unset", "default", "junk"} = {}

VARIABLES
    hex, alpha,     \* colorSettings, colorAlpha
    paint,          \* the style on the page
    slider,         \* stateMap: made when the panel is built
    built,          \* the panel is built
    kept,           \* the options in the router
    csaves,         \* saves on their way
    cload,          \* "sent", "got" with a copy of the options, or "done"
    early,          \* history: the panel was built before the settings came
    thin,           \* history: opacity 0, or a translucent colour reset
    overtook,       \* history: two saves were on their way
    colorsLost,     \* history: the load or a save was lost, and no save was sent after it
    edits

colorVars == <<hex, alpha, paint, slider, built, kept, csaves, cload, early, thin, overtook, colorsLost, edits>>

Unset == "unset"
Standard == "default"       \* COLOR_DEFAULTS of the theme
Junk == "junk"              \* digits without a colour: painted black

-----------------------------------------------------------------------------
(* A colour as the router keeps it                                         *)

\* Math.round(a * 255 / 100) and back; two hex digits hold 0..255.
TailOf(a) == (510 * a + 100) \div 200
AlphaOf(t) == (200 * t + 255) \div 510

Opaque == -1                \* no tail
OrFull(a) == IF a = 0 THEN 100 ELSE a       \* a || 100

hexToHex8(h, a) == [digits |-> h, tail |-> IF a >= 100 THEN Opaque ELSE TailOf(a)]

\* Only "#" and eight digits are split; a tail alone is taken for a colour.
parseHex8(s) ==
    IF s.tail = Opaque THEN [hex |-> s.digits, a |-> 100]
    ELSE IF s.digits \in {Unset, Junk} THEN [hex |-> Junk, a |-> 100]
    ELSE [hex |-> s.digits, a |-> AlphaOf(s.tail)]

Bare == [hex |-> Unset, a |-> 100]

\* applyPrimaryColor and the others: nothing for an unset colour, the deco without opacity.
Painted(k, h, a) == IF h = Unset THEN Bare ELSE [hex |-> h, a |-> IF k = Deco THEN 100 ELSE a]

\* Mutant: the opacity is not saved.
PackedOpaque(h, al) == [k \in ColorKeys |-> hexToHex8(h[k], 100)]

\* saveCustomColors: all keys, after the assignments of the step.
Packed(h, al) == [k \in ColorKeys |-> hexToHex8(h[k], OrFull(al[k]))]

-----------------------------------------------------------------------------
Shades == Hues \cup {Unset, Standard, Junk}

ColorTypeOK ==
    /\ hex \in [ColorKeys -> Shades] /\ alpha \in [ColorKeys -> 0..100]
    /\ paint \in [ColorKeys -> [hex : Shades, a : 0..100]]
    /\ slider \in [ColorKeys -> [hex : Shades, a : 0..100]]
    /\ built \in BOOLEAN /\ colorsLost \in BOOLEAN /\ edits \in 0..MaxEdits

\* The router keeps nothing, or what an earlier page saved.
Opening == {hexToHex8(h, 50) : h \in Hues} \cup {hexToHex8(h, 100) : h \in Hues \cup {Unset}}

ColorInit ==
    /\ kept \in [ColorKeys -> Opening]
    /\ hex = [k \in ColorKeys |-> Unset] /\ alpha = [k \in ColorKeys |-> 100]
    /\ paint = [k \in ColorKeys |-> Bare] /\ slider = [k \in ColorKeys |-> Bare]
    /\ built = FALSE /\ csaves = {} /\ cload = [state |-> "sent", copy |-> kept]
    /\ early = FALSE /\ thin = FALSE /\ overtook = FALSE /\ colorsLost = FALSE /\ edits = 0

Edit == built /\ edits < MaxEdits /\ edits' = edits + 1

\* A save that nobody waits for.
Send(all) ==
    /\ csaves' = csaves \cup {all}
    /\ overtook' = (overtook \/ csaves \ {all} # {})
    /\ colorsLost' = FALSE

applyColor(k, h, a) ==
    /\ hex' = [hex EXCEPT ![k] = h]
    /\ paint' = [paint EXCEPT ![k] = Painted(k, h, a)]

GetColors ==
    /\ cload.state = "sent" /\ cload' = [state |-> "got", copy |-> kept]
    /\ UNCHANGED <<hex, alpha, paint, slider, built, kept, csaves, early, thin, overtook, colorsLost, edits>>

\* What the page makes of a router without settings: no colour, no tail.
NoColors == [k \in ColorKeys |-> hexToHex8(Unset, 100)]

\* A load that fails is answered by {}, in which no colour is set.
LoseColors ==
    /\ cload.state = "sent" /\ cload' = [state |-> "got", copy |-> NoColors]
    /\ colorsLost' = TRUE
    /\ UNCHANGED <<hex, alpha, paint, slider, built, kept, csaves, early, thin, overtook, edits>>

\* Taken as it is, {} too: the next edit saves all colours over the router's.
loadCustomColors ==
    /\ cload.state = "got" /\ cload' = [cload EXCEPT !.state = "done"]
    /\ hex' = [k \in ColorKeys |-> parseHex8(cload.copy[k]).hex]
    /\ alpha' = [k \in ColorKeys |-> parseHex8(cload.copy[k]).a]
    /\ paint' = [k \in ColorKeys |-> IF hex'[k] = Unset THEN paint[k]
                                      ELSE Painted(k, hex'[k], OrFull(alpha'[k]))]
    /\ UNCHANGED <<slider, built, kept, csaves, early, thin, overtook, colorsLost, edits>>

\* The first opening takes the sliders from the values of that moment.
initColorPanel ==
    /\ ~built /\ built' = TRUE
    /\ slider' = [k \in ColorKeys |-> [hex |-> IF hex[k] = Unset THEN Standard ELSE hex[k],
                                       a |-> OrFull(alpha[k])]]
    /\ early' = (cload.state # "done")
    /\ UNCHANGED <<hex, alpha, paint, kept, csaves, cload, thin, overtook, colorsLost, edits>>

\* Mutant: the sliders are not moved along.
PickAlone(k, h) ==
    /\ Edit
    /\ applyColor(k, h, slider[k].a)
    /\ Send(Packed(hex', alpha))
    /\ UNCHANGED <<alpha, slider, built, kept, cload, early, thin>>

\* A swatch or the hue slider.
Pick(k, h) ==
    /\ Edit
    /\ slider' = [slider EXCEPT ![k].hex = h]
    /\ applyColor(k, h, slider[k].a)
    /\ Send(Packed(hex', alpha))
    /\ UNCHANGED <<alpha, built, kept, cload, early, thin>>

Slide(k, a) ==
    /\ Edit
    /\ slider' = [slider EXCEPT ![k].a = a]
    /\ alpha' = [alpha EXCEPT ![k] = a]
    /\ applyColor(k, slider[k].hex, a)
    /\ Send(Packed(hex', alpha'))
    /\ thin' = (thin \/ a = 0)
    /\ UNCHANGED <<built, kept, cload, early>>

\* One key or all: saved before the opacity is given back.
Reset(K) ==
    /\ Edit
    /\ hex' = [k \in ColorKeys |-> IF k \in K THEN Unset ELSE hex[k]]
    /\ paint' = [k \in ColorKeys |-> IF k \in K THEN Bare ELSE paint[k]]
    /\ Send(Packed(hex', alpha))
    /\ slider' = [k \in ColorKeys |-> IF k \in K THEN [hex |-> Standard, a |-> 100] ELSE slider[k]]
    /\ alpha' = [k \in ColorKeys |-> IF k \in K THEN 100 ELSE alpha[k]]
    /\ thin' = (thin \/ \E k \in K : alpha[k] \in 1..99)
    /\ UNCHANGED <<built, kept, cload, early>>

\* theme.set: applyAllColors.
Repaint ==
    /\ paint' = [k \in ColorKeys |-> IF hex[k] = Unset THEN paint[k]
                                      ELSE Painted(k, hex[k], OrFull(alpha[k]))]
    /\ UNCHANGED <<hex, alpha, slider, built, kept, csaves, cload, early, thin, overtook, colorsLost, edits>>

SaveColors(all) ==
    /\ all \in csaves
    /\ kept' = all /\ csaves' = csaves \ {all}
    /\ UNCHANGED <<hex, alpha, paint, slider, built, cload, early, thin, overtook, colorsLost, edits>>

\* Nobody hears that a save failed.
DropColors(all) ==
    /\ all \in csaves
    /\ csaves' = csaves \ {all} /\ colorsLost' = TRUE
    /\ UNCHANGED <<hex, alpha, paint, slider, built, kept, cload, early, thin, overtook, edits>>

ColorNext ==
    \/ GetColors \/ LoseColors \/ loadCustomColors \/ initColorPanel \/ Repaint
    \/ \E k \in ColorKeys : (\E h \in Hues : Pick(k, h)) \/ (\E a \in Opacities : Slide(k, a))
    \/ \E k \in ColorKeys : Reset({k})
    \/ Reset(ColorKeys)
    \/ \E all \in csaves : SaveColors(all) \/ DropColors(all)

ColorSpec == ColorInit /\ [][ColorNext]_colorVars

\* What is painted now is what a new page would paint: every edit saves all colours,
\* so that the last save must hold them all, opacities included.  Left out: a panel
\* built before the settings came (early: its saves wipe the colours not loaded yet),
\* opacity 0 (saved as 100) and a translucent colour reset (saved as a bare tail, read
\* back as black), and saves that overtake each other.  While a load or a save is lost
\* (colorsLost) page and router differ; the next edit makes them agree again, after a
\* lost load by wiping the router's other colours (common.js:349-357).
LooksKept == cload.state = "done" /\ csaves = {} /\ ~early /\ ~thin /\ ~overtook /\ ~colorsLost
    => \A k \in ColorKeys :
          paint[k] = Painted(k, parseHex8(kept[k]).hex, parseHex8(kept[k]).a)

\* The opacity slider paints the colour of stateMap, not of the page: in a panel that
\* was not built before the settings came (early) the two never part, so that a slide
\* leaves the colour as it was.
SlideKeepsColor ==
    [][\A k \in ColorKeys :
          edits' # edits /\ alpha'[k] # alpha[k] /\ Unset \notin {hex[k], hex'[k]} /\ ~early
          => hex'[k] = hex[k]]_colorVars
=============================================================================

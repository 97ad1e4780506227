-------------------------- MODULE LuckyColors_proofs --------------------------
(***************************************************************************)
(* What a saved colour reads back as, for every opacity, and the invariant *)
(* that ties the sliders of the panel to the colours of the page.          *)
(***************************************************************************)
EXTENDS LuckyColors, TLAPS

\* Two hex digits hold the opacity of every position of the slider.
LEMMA TailInRange == \A a \in 0..100 : TailOf(a) \in 0..255
BY DEF TailOf

\* The two roundings undo each other: no opacity creeps by being saved and loaded.
LEMMA TailBack == \A a \in 0..100 : AlphaOf(TailOf(a)) = a
BY DEF TailOf, AlphaOf

\* A colour of the user comes back from the router as it was saved, whatever its
\* opacity: #rrggbb and #rrggbbaa of common.js are inverse to one another.
THEOREM ColorRoundTrip ==
    ASSUME NEW h, h \notin {Unset, Junk}, NEW a \in 0..100
    PROVE  parseHex8(hexToHex8(h, a)) = [hex |-> h, a |-> a]
<1>1. CASE a >= 100
  <2>1. a = 100
    BY <1>1
  <2> QED
    BY <2>1 DEF parseHex8, hexToHex8, Opaque
<1>2. CASE a < 100
  <2>1. hexToHex8(h, a) = [digits |-> h, tail |-> TailOf(a)]
    BY <1>2 DEF hexToHex8
  <2>2. TailOf(a) # Opaque
    <3>1. TailOf(a) \in 0..255
      BY TailInRange
    <3>2. \A t \in 0..255 : t # -1
      OBVIOUS
    <3> QED
      BY <3>1, <3>2 DEF Opaque
  <2>3. parseHex8(hexToHex8(h, a)) = [hex |-> h, a |-> AlphaOf(TailOf(a))]
    BY <2>1, <2>2 DEF parseHex8
  <2> QED
    BY <2>3, TailBack
<1> QED
  BY <1>1, <1>2

-----------------------------------------------------------------------------
(* The inductive invariant                                                 *)

Entries == [digits : Shades, tail : -1..255]
Holdings == [ColorKeys -> Entries]

\* A colour reads back as it is: set with an opacity that counts, or not set at all.
Whole(h, a) == (h = Unset /\ a = 100) \/ (h \notin {Unset, Junk} /\ a \in 1..100)

\* A page that loads all would paint what is painted now.
Repeats(all) == \A k \in ColorKeys : paint[k] = Painted(k, parseHex8(all[k]).hex, parseHex8(all[k]).a)

StoresTyped ==
    /\ cload \in [state : {"sent", "got", "done"}, copy : Holdings]
    /\ kept \in Holdings /\ csaves \subseteq Holdings

\* A panel built in time has the settings, and its sliders the colours of the page.
SlidersFollow ==
    /\ early => built
    /\ built /\ ~early =>
        /\ cload.state = "done"
        /\ \A k \in ColorKeys : slider[k].hex = IF hex[k] = Unset THEN Standard ELSE hex[k]
        /\ ~thin => \A k \in ColorKeys : slider[k].a = alpha[k]

\* What is painted is what the values say, and all of it can be saved.
ValuesWhole ==
    ~early /\ ~thin =>
        \A k \in ColorKeys : Whole(hex[k], alpha[k]) /\ paint[k] = Painted(k, hex[k], alpha[k])

\* Before the settings came, nothing has been changed and the router's are whole.
NotYetLoaded ==
    cload.state # "done" /\ ~early /\ ~thin =>
        /\ csaves = {}
        /\ \A k \in ColorKeys :
              /\ hex[k] = Unset
              /\ Whole(parseHex8(kept[k]).hex, parseHex8(kept[k]).a)
        /\ cload.state = "sent" => ~colorsLost
        /\ cload.state = "got" => cload.copy = IF colorsLost THEN NoColors ELSE kept

\* The router holds, or is being sent, what is painted, if nothing was lost.
LastSaveCounts ==
    cload.state = "done" /\ ~early /\ ~thin /\ ~overtook =>
        /\ \A all \in csaves : Repeats(all) /\ csaves = {all}
        /\ csaves = {} /\ ~colorsLost => Repeats(kept)

ColorInv ==
    /\ ColorTypeOK /\ StoresTyped /\ SlidersFollow /\ ValuesWhole
    /\ NotYetLoaded /\ LastSaveCounts

-----------------------------------------------------------------------------
(* What the operators return                                               *)

LEMMA AlphaInRange == \A t \in 0..255 : AlphaOf(t) \in 0..100
BY DEF AlphaOf

\* hexToHex8 makes an entry of what the page may hold.
LEMMA PackTyped == \A h \in Shades, a \in 0..100 : hexToHex8(h, a) \in Entries
<1> SUFFICES ASSUME NEW h \in Shades, NEW a \in 0..100 PROVE hexToHex8(h, a) \in Entries
  OBVIOUS
<1>1. TailOf(a) \in -1..255
  BY TailInRange
<1>2. Opaque \in -1..255
  BY DEF Opaque
<1>3. (IF a >= 100 THEN Opaque ELSE TailOf(a)) \in -1..255
  BY <1>1, <1>2
<1> QED
  BY <1>3 DEF hexToHex8, Entries

\* parseHex8 makes a colour of any entry.
LEMMA ParseTyped == \A e \in Entries : parseHex8(e).hex \in Shades /\ parseHex8(e).a \in 0..100
<1> SUFFICES ASSUME NEW e \in Entries PROVE parseHex8(e).hex \in Shades /\ parseHex8(e).a \in 0..100
  OBVIOUS
<1>1. e.digits \in Shades /\ e.tail \in -1..255
  BY DEF Entries
<1>2. CASE e.tail = Opaque
  BY <1>1, <1>2 DEF parseHex8
<1>3. CASE e.tail # Opaque /\ e.digits \in {Unset, Junk}
  BY <1>3 DEF parseHex8, Shades
<1>4. CASE e.tail # Opaque /\ e.digits \notin {Unset, Junk}
  <2>1. e.tail \in 0..255
    BY <1>1, <1>4 DEF Opaque
  <2>2. AlphaOf(e.tail) \in 0..100
    BY <2>1, AlphaInRange
  <2> QED
    BY <1>1, <1>4, <2>2 DEF parseHex8
<1> QED
  BY <1>2, <1>3, <1>4

LEMMA PaintedTyped ==
    \A k \in ColorKeys, h \in Shades, a \in 0..100 : Painted(k, h, a) \in [hex : Shades, a : 0..100]
BY DEF Painted, Bare, Shades

\* What is whole comes back from the router.
LEMMA WholeBack ==
    \A h \in Shades, a \in 0..100 :
        Whole(h, a) => /\ parseHex8(hexToHex8(h, OrFull(a))).hex = h
                       /\ parseHex8(hexToHex8(h, OrFull(a))).a = a
<1> SUFFICES ASSUME NEW h \in Shades, NEW a \in 0..100, Whole(h, a)
             PROVE  /\ parseHex8(hexToHex8(h, OrFull(a))).hex = h
                    /\ parseHex8(hexToHex8(h, OrFull(a))).a = a
  OBVIOUS
<1>1. OrFull(a) = a
  BY DEF Whole, OrFull
<1>2. CASE h = Unset /\ a = 100
  BY <1>1, <1>2 DEF hexToHex8, parseHex8, Opaque
<1>3. CASE h \notin {Unset, Junk}
  BY <1>1, <1>3, ColorRoundTrip
<1> QED
  BY <1>2, <1>3 DEF Whole

\* A save of whole colours holds every one of them.
LEMMA PackedBack ==
    ASSUME NEW h \in [ColorKeys -> Shades], NEW al \in [ColorKeys -> 0..100]
    PROVE  /\ Packed(h, al) \in Holdings
           /\ \A k \in ColorKeys : Whole(h[k], al[k]) =>
                 /\ parseHex8(Packed(h, al)[k]).hex = h[k]
                 /\ parseHex8(Packed(h, al)[k]).a = al[k]
<1>1. \A a \in 0..100 : OrFull(a) \in 0..100
  BY DEF OrFull
<1>2. \A k \in ColorKeys : hexToHex8(h[k], OrFull(al[k])) \in Entries
  BY <1>1, PackTyped
<1>3. Packed(h, al) \in Holdings
  BY <1>2 DEF Packed, Holdings
<1>4. \A k \in ColorKeys : Packed(h, al)[k] = hexToHex8(h[k], OrFull(al[k]))
  BY DEF Packed
<1> QED
  BY <1>3, <1>4, WholeBack

-----------------------------------------------------------------------------
(* Every step keeps the invariant                                          *)

LEMMA ColorStart == ColorInit => ColorInv
<1> SUFFICES ASSUME ColorInit PROVE ColorInv
  OBVIOUS
<1> USE DEF ColorInit
<1>1. /\ \A k \in ColorKeys : hex[k] = Unset /\ alpha[k] = 100 /\ paint[k] = Bare
      /\ csaves = {} /\ cload = [state |-> "sent", copy |-> kept] /\ ~built /\ colorsLost = FALSE
  OBVIOUS
<1>2. \A k \in ColorKeys : \/ \E h \in Hues : kept[k] = hexToHex8(h, 50)
                           \/ \E h \in Hues : kept[k] = hexToHex8(h, 100)
                           \/ kept[k] = hexToHex8(Unset, 100)
  <2> SUFFICES ASSUME NEW k \in ColorKeys
               PROVE  \/ \E h \in Hues : kept[k] = hexToHex8(h, 50)
                      \/ \E h \in Hues : kept[k] = hexToHex8(h, 100)
                      \/ kept[k] = hexToHex8(Unset, 100)
    OBVIOUS
  <2>1. kept[k] \in Opening
    OBVIOUS
  <2>2. PICK a \in {50, 100}, h \in Hues \cup {Unset} :
            kept[k] = hexToHex8(h, a) /\ (a = 50 => h \in Hues)
    BY ONLY <2>1 DEF Opening
  <2> QED
    BY ONLY <2>2
<1>3. \A h \in Hues : h \in Shades /\ h \notin {Unset, Junk}
  BY ColorAssumption DEF Shades, Unset, Junk
<1>4. kept \in Holdings
  <2>1. /\ \A h \in Hues : hexToHex8(h, 50) \in Entries /\ hexToHex8(h, 100) \in Entries
        /\ hexToHex8(Unset, 100) \in Entries
    BY <1>3, PackTyped DEF Shades
  <2>2. \A k \in ColorKeys : kept[k] \in Entries
    BY ONLY <1>2, <2>1
  <2>3. kept = [k \in ColorKeys |-> kept[k]]
    OBVIOUS
  <2> QED
    BY ONLY <2>2, <2>3 DEF Holdings
<1>5. \A k \in ColorKeys : Whole(parseHex8(kept[k]).hex, parseHex8(kept[k]).a)
  <2> SUFFICES ASSUME NEW k \in ColorKeys PROVE Whole(parseHex8(kept[k]).hex, parseHex8(kept[k]).a)
    OBVIOUS
  <2>1. ASSUME NEW a \in {50, 100}, \E h \in Hues : kept[k] = hexToHex8(h, a)
        PROVE  Whole(parseHex8(kept[k]).hex, parseHex8(kept[k]).a)
    <3>1. PICK h \in Hues : kept[k] = hexToHex8(h, a)
      BY <2>1
    <3>2. parseHex8(kept[k]) = [hex |-> h, a |-> a]
      BY <3>1, <1>3, ColorRoundTrip
    <3> QED
      BY <3>2, <1>3 DEF Whole
  <2>2. CASE kept[k] = hexToHex8(Unset, 100)
    BY <2>2 DEF hexToHex8, parseHex8, Opaque, Whole
  <2> QED
    BY <1>2, <2>1, <2>2
<1>6. ColorTypeOK
  <2>1. Unset \in Shades /\ Bare \in [hex : Shades, a : 0..100]
    BY DEF Shades, Bare
  <2>2. edits \in 0..MaxEdits
    BY ColorAssumption
  <2>4. colorsLost \in BOOLEAN
    BY <1>1, Zenon
  <2>3. /\ hex \in [ColorKeys -> Shades] /\ alpha \in [ColorKeys -> 0..100]
        /\ paint \in [ColorKeys -> [hex : Shades, a : 0..100]]
        /\ slider \in [ColorKeys -> [hex : Shades, a : 0..100]]
    BY <2>1
  <2> QED
    BY <2>2, <2>3, <2>4 DEF ColorTypeOK
<1>7. StoresTyped
  BY <1>1, <1>4 DEF StoresTyped
<1>8. SlidersFollow /\ NotYetLoaded /\ LastSaveCounts
  BY <1>1, <1>5 DEF SlidersFollow, NotYetLoaded, LastSaveCounts
<1>9. ValuesWhole
  BY <1>1 DEF ValuesWhole, Whole, Painted
<1> QED
  BY <1>6, <1>7, <1>8, <1>9 DEF ColorInv

LEMMA GetColorsKeeps == ColorInv /\ GetColors => ColorInv'
<1> SUFFICES ASSUME ColorInv, GetColors PROVE ColorInv'
  OBVIOUS
<1> USE DEF ColorInv, GetColors
<1>1. ColorTypeOK'
  BY DEF ColorTypeOK
<1>2. StoresTyped'
  BY DEF StoresTyped
<1>3. SlidersFollow' /\ ValuesWhole'
  BY DEF SlidersFollow, ValuesWhole
<1>4. NotYetLoaded' /\ LastSaveCounts'
  BY DEF NotYetLoaded, LastSaveCounts
<1> QED
  BY <1>1, <1>2, <1>3, <1>4

\* The {} of a lost load reads back as no colour at all.
LEMMA NoColorsBack ==
    /\ NoColors \in Holdings
    /\ \A k \in ColorKeys : Whole(parseHex8(NoColors[k]).hex, parseHex8(NoColors[k]).a)
<1>1. Unset \in Shades /\ hexToHex8(Unset, 100) = [digits |-> Unset, tail |-> Opaque]
  BY DEF Shades, hexToHex8
<1>2. hexToHex8(Unset, 100) \in Entries
  BY <1>1, PackTyped
<1>3. parseHex8(hexToHex8(Unset, 100)) = [hex |-> Unset, a |-> 100]
  BY <1>1 DEF parseHex8
<1>4. \A k \in ColorKeys : NoColors[k] = hexToHex8(Unset, 100)
  BY DEF NoColors
<1> QED
  BY <1>2, <1>3, <1>4 DEF NoColors, Holdings, Whole

LEMMA LoseColorsKeeps == ColorInv /\ LoseColors => ColorInv'
<1> SUFFICES ASSUME ColorInv, LoseColors PROVE ColorInv'
  OBVIOUS
<1> USE DEF ColorInv, LoseColors
<1>1. ColorTypeOK'
  BY DEF ColorTypeOK
<1>2. StoresTyped'
  BY NoColorsBack DEF StoresTyped
<1>3. SlidersFollow' /\ ValuesWhole'
  BY DEF SlidersFollow, ValuesWhole
<1>4. NotYetLoaded' /\ LastSaveCounts'
  BY DEF NotYetLoaded, LastSaveCounts, NoColors
<1> QED
  BY <1>1, <1>2, <1>3, <1>4

LEMMA LoadKeeps == ColorInv /\ loadCustomColors => ColorInv'
<1> SUFFICES ASSUME ColorInv, loadCustomColors PROVE ColorInv'
  OBVIOUS
<1> USE DEF ColorInv, loadCustomColors
<1>1. \A k \in ColorKeys : parseHex8(cload.copy[k]).hex \in Shades /\ parseHex8(cload.copy[k]).a \in 0..100
  BY ParseTyped DEF StoresTyped, Holdings
<1>2. /\ hex' \in [ColorKeys -> Shades] /\ alpha' \in [ColorKeys -> 0..100]
      /\ \A k \in ColorKeys : hex'[k] = parseHex8(cload.copy[k]).hex /\ alpha'[k] = parseHex8(cload.copy[k]).a
  BY <1>1
<1>3. \A k \in ColorKeys : OrFull(alpha'[k]) \in 0..100
  BY <1>2 DEF OrFull
<1>4. ColorTypeOK'
  <2>1. paint' \in [ColorKeys -> [hex : Shades, a : 0..100]]
    BY <1>2, <1>3, PaintedTyped DEF ColorTypeOK
  <2> QED
    BY <1>2, <2>1 DEF ColorTypeOK
<1>5. StoresTyped'
  BY DEF StoresTyped
<1>6. SlidersFollow' /\ NotYetLoaded'
  BY DEF SlidersFollow, NotYetLoaded, StoresTyped
<1>7. ASSUME ~early, ~thin
      PROVE  /\ csaves = {} /\ (~colorsLost => cload.copy = kept)
             /\ \A k \in ColorKeys : Whole(hex'[k], alpha'[k]) /\ paint'[k] = Painted(k, hex'[k], alpha'[k])
  <2>a. /\ csaves = {} /\ cload.copy = IF colorsLost THEN NoColors ELSE kept
        /\ \A k \in ColorKeys :
              hex[k] = Unset /\ Whole(parseHex8(kept[k]).hex, parseHex8(kept[k]).a)
    BY <1>7 DEF NotYetLoaded
  <2>1. /\ csaves = {} /\ (~colorsLost => cload.copy = kept)
        /\ \A k \in ColorKeys : hex[k] = Unset /\ Whole(hex'[k], alpha'[k])
    BY <1>2, <2>a, NoColorsBack
  <2>2. \A k \in ColorKeys : paint[k] = Bare
    BY <1>7, <2>1 DEF ValuesWhole, Painted
  <2>3. \A k \in ColorKeys : OrFull(alpha'[k]) = alpha'[k]
    BY <2>1 DEF Whole, OrFull
  <2>4. \A k \in ColorKeys : paint'[k] = Painted(k, hex'[k], alpha'[k])
    BY <2>2, <2>3 DEF Painted
  <2> QED
    BY <2>1, <2>4
<1>8. ValuesWhole'
  BY <1>7 DEF ValuesWhole
<1>9. LastSaveCounts'
  BY <1>2, <1>7 DEF LastSaveCounts, Repeats
<1> QED
  BY <1>4, <1>5, <1>6, <1>8, <1>9

LEMMA BuildKeeps == ColorInv /\ initColorPanel => ColorInv'
<1> SUFFICES ASSUME ColorInv, initColorPanel PROVE ColorInv'
  OBVIOUS
<1> USE DEF ColorInv, initColorPanel
<1>1. \A k \in ColorKeys : OrFull(alpha[k]) \in 0..100
  BY DEF ColorTypeOK, OrFull
<1>2. ColorTypeOK'
  BY <1>1 DEF ColorTypeOK, Shades
<1>3. StoresTyped'
  BY DEF StoresTyped
<1>4. SlidersFollow'
  <2> SUFFICES ASSUME ~early' PROVE SlidersFollow'
    BY DEF SlidersFollow
  <2>1. /\ cload.state = "done"
        /\ \A k \in ColorKeys : /\ slider'[k].hex = IF hex[k] = Unset THEN Standard ELSE hex[k]
                                /\ slider'[k].a = OrFull(alpha[k])
    OBVIOUS
  <2>2. ASSUME ~thin, ~early PROVE \A k \in ColorKeys : OrFull(alpha[k]) = alpha[k]
    BY <2>2 DEF ValuesWhole, Whole, OrFull
  <2>3. ~early
    BY DEF SlidersFollow
  <2> QED
    BY <2>1, <2>2, <2>3 DEF SlidersFollow
<1>5. ~early
  BY DEF SlidersFollow
<1>6. ValuesWhole' /\ NotYetLoaded'
  BY <1>5 DEF ValuesWhole, NotYetLoaded
<1>7. LastSaveCounts'
  BY <1>5 DEF LastSaveCounts, Repeats
<1> QED
  BY <1>2, <1>3, <1>4, <1>6, <1>7

\* An edit that leaves the values whole, the style as the values say and the sliders
\* with them, and sends all of it, keeps the invariant.
LEMMA EditKeeps ==
    ASSUME ColorInv, Edit, NEW al \in [ColorKeys -> 0..100], Send(Packed(hex', al)),
           hex' \in [ColorKeys -> Shades], alpha' \in [ColorKeys -> 0..100],
           paint' \in [ColorKeys -> [hex : Shades, a : 0..100]],
           slider' \in [ColorKeys -> [hex : Shades, a : 0..100]],
           UNCHANGED <<built, kept, cload, early>>, thin => thin',
           ~early => \A k \in ColorKeys : slider'[k].hex = IF hex'[k] = Unset THEN Standard ELSE hex'[k],
           ~early /\ ~thin' => \A k \in ColorKeys :
               /\ slider'[k].a = alpha'[k] /\ al[k] = alpha'[k] /\ Whole(hex'[k], alpha'[k])
               /\ paint'[k] = Painted(k, hex'[k], alpha'[k])
    PROVE  ColorInv'
<1> USE DEF ColorInv
<1>1. /\ Packed(hex', al) \in Holdings
      /\ \A k \in ColorKeys : Whole(hex'[k], al[k]) =>
            /\ parseHex8(Packed(hex', al)[k]).hex = hex'[k]
            /\ parseHex8(Packed(hex', al)[k]).a = al[k]
  BY PackedBack
<1>2. built /\ built'
  BY DEF Edit
<1>3. ~early => cload.state = "done"
  BY <1>2 DEF SlidersFollow
<1>4. ColorTypeOK'
  <2>1. edits' \in 0..MaxEdits
    BY ColorAssumption DEF ColorTypeOK, Edit
  <2>2. colorsLost' \in BOOLEAN
    BY Zenon DEF Send
  <2> QED
    BY <1>2, <2>1, <2>2 DEF ColorTypeOK
<1>5. StoresTyped'
  BY <1>1 DEF StoresTyped, Send
<1>6. SlidersFollow'
  BY <1>2, <1>3 DEF SlidersFollow
<1>7. ValuesWhole'
  BY DEF ValuesWhole
<1>8. NotYetLoaded'
  BY <1>3 DEF NotYetLoaded
<1>9. LastSaveCounts'
  <2> SUFFICES ASSUME ~early, ~thin', ~overtook' PROVE LastSaveCounts'
    BY DEF LastSaveCounts
  <2>1. csaves' = {Packed(hex', al)}
    BY DEF Send
  <2>2. \A k \in ColorKeys : paint'[k] = Painted(k, parseHex8(Packed(hex', al)[k]).hex,
                                                    parseHex8(Packed(hex', al)[k]).a)
    BY <1>1
  <2>3. \A all \in csaves' : Repeats(all)' /\ csaves' = {all}
    BY <2>1, <2>2 DEF Repeats
  <2>4. csaves' # {}
    BY <2>1
  <2> QED
    BY <2>3, <2>4 DEF LastSaveCounts
<1> QED
  BY <1>4, <1>5, <1>6, <1>7, <1>8, <1>9

LEMMA PickKeeps == ASSUME ColorInv, NEW k \in ColorKeys, NEW h \in Hues, Pick(k, h) PROVE ColorInv'
<1> USE DEF ColorInv
<1>1. h \in Shades /\ h \notin {Unset, Junk}
  BY ColorAssumption DEF Shades, Unset, Junk
<1>2. /\ hex \in [ColorKeys -> Shades] /\ alpha \in [ColorKeys -> 0..100]
      /\ paint \in [ColorKeys -> [hex : Shades, a : 0..100]]
      /\ slider \in [ColorKeys -> [hex : Shades, a : 0..100]]
  BY DEF ColorTypeOK
<1>3. /\ Edit /\ Send(Packed(hex', alpha))
      /\ slider' = [slider EXCEPT ![k].hex = h] /\ hex' = [hex EXCEPT ![k] = h]
      /\ paint' = [paint EXCEPT ![k] = Painted(k, h, slider[k].a)]
      /\ UNCHANGED <<alpha, built, kept, cload, early, thin>>
  BY DEF Pick, applyColor
<1>4. Painted(k, h, slider[k].a) \in [hex : Shades, a : 0..100]
  BY <1>1, <1>2, PaintedTyped
<1>5. /\ hex' \in [ColorKeys -> Shades] /\ alpha' \in [ColorKeys -> 0..100]
      /\ paint' \in [ColorKeys -> [hex : Shades, a : 0..100]]
      /\ slider' \in [ColorKeys -> [hex : Shades, a : 0..100]]
  BY <1>1, <1>2, <1>3, <1>4
<1>6. ~early => \A n \in ColorKeys : slider'[n].hex = IF hex'[n] = Unset THEN Standard ELSE hex'[n]
  BY <1>1, <1>2, <1>3 DEF SlidersFollow, Edit
<1>7. ASSUME ~early, ~thin', NEW n \in ColorKeys
      PROVE  /\ slider'[n].a = alpha'[n] /\ alpha[n] = alpha'[n] /\ Whole(hex'[n], alpha'[n])
             /\ paint'[n] = Painted(n, hex'[n], alpha'[n])
  <2>1. slider[n].a = alpha[n] /\ slider[k].a = alpha[k]
    BY <1>3, <1>7 DEF SlidersFollow, Edit
  <2>2. Whole(hex[n], alpha[n]) /\ paint[n] = Painted(n, hex[n], alpha[n])
    BY <1>3, <1>7 DEF ValuesWhole
  <2> QED
    BY <1>1, <1>2, <1>3, <2>1, <2>2 DEF Whole
<1> QED
  BY <1>2, <1>3, <1>5, <1>6, <1>7, EditKeeps

LEMMA SlideKeeps == ASSUME ColorInv, NEW k \in ColorKeys, NEW a \in Opacities, Slide(k, a) PROVE ColorInv'
<1> USE DEF ColorInv
<1>1. a \in 0..100
  BY ColorAssumption
<1>2. /\ hex \in [ColorKeys -> Shades] /\ alpha \in [ColorKeys -> 0..100]
      /\ paint \in [ColorKeys -> [hex : Shades, a : 0..100]]
      /\ slider \in [ColorKeys -> [hex : Shades, a : 0..100]]
  BY DEF ColorTypeOK
<1>3. /\ Edit /\ Send(Packed(hex', alpha'))
      /\ slider' = [slider EXCEPT ![k].a = a] /\ alpha' = [alpha EXCEPT ![k] = a]
      /\ hex' = [hex EXCEPT ![k] = slider[k].hex]
      /\ paint' = [paint EXCEPT ![k] = Painted(k, slider[k].hex, a)]
      /\ thin' = (thin \/ a = 0)
      /\ UNCHANGED <<built, kept, cload, early>>
  BY DEF Slide, applyColor
<1>4. Painted(k, slider[k].hex, a) \in [hex : Shades, a : 0..100]
  BY <1>1, <1>2, PaintedTyped
<1>5. /\ hex' \in [ColorKeys -> Shades] /\ alpha' \in [ColorKeys -> 0..100]
      /\ paint' \in [ColorKeys -> [hex : Shades, a : 0..100]]
      /\ slider' \in [ColorKeys -> [hex : Shades, a : 0..100]]
  BY <1>1, <1>2, <1>3, <1>4
<1>6. ~early => \A n \in ColorKeys : slider[n].hex = IF hex[n] = Unset THEN Standard ELSE hex[n]
  BY <1>3 DEF SlidersFollow, Edit
<1>7. ~early => \A n \in ColorKeys : slider'[n].hex = IF hex'[n] = Unset THEN Standard ELSE hex'[n]
  BY <1>2, <1>3, <1>6 DEF Unset, Standard
<1>8. ASSUME ~early, ~thin', NEW n \in ColorKeys
      PROVE  /\ slider'[n].a = alpha'[n] /\ Whole(hex'[n], alpha'[n])
             /\ paint'[n] = Painted(n, hex'[n], alpha'[n])
  <2>1. ~thin /\ a \in 1..100
    <3>1. ~thin /\ a # 0
      BY ONLY <1>3, <1>8, Zenon
    <3> QED
      BY <1>1, <3>1
  <2>2. slider[n].a = alpha[n]
    BY <1>3, <1>8, <2>1 DEF SlidersFollow, Edit
  <2>3. Whole(hex[n], alpha[n]) /\ paint[n] = Painted(n, hex[n], alpha[n])
    BY <1>8, <2>1 DEF ValuesWhole
  <2>4. slider[n].hex \notin {Unset, Junk}
    BY <1>6, <1>8, <2>3 DEF Whole, Unset, Standard, Junk
  <2> QED
    BY <1>2, <1>3, <2>1, <2>2, <2>3, <2>4 DEF Whole
<1> QED
  BY <1>3, <1>5, <1>7, <1>8, EditKeeps

LEMMA ResetKeeps == ASSUME ColorInv, NEW K \in SUBSET ColorKeys, Reset(K) PROVE ColorInv'
<1> USE DEF ColorInv
<1>1. Unset \in Shades /\ Standard \in Shades /\ Bare \in [hex : Shades, a : 0..100]
  BY DEF Shades, Bare
<1>2. /\ hex \in [ColorKeys -> Shades] /\ alpha \in [ColorKeys -> 0..100]
      /\ paint \in [ColorKeys -> [hex : Shades, a : 0..100]]
      /\ slider \in [ColorKeys -> [hex : Shades, a : 0..100]]
  BY DEF ColorTypeOK
<1>3. /\ Edit /\ Send(Packed(hex', alpha))
      /\ hex' = [k \in ColorKeys |-> IF k \in K THEN Unset ELSE hex[k]]
      /\ paint' = [k \in ColorKeys |-> IF k \in K THEN Bare ELSE paint[k]]
      /\ slider' = [k \in ColorKeys |-> IF k \in K THEN [hex |-> Standard, a |-> 100] ELSE slider[k]]
      /\ alpha' = [k \in ColorKeys |-> IF k \in K THEN 100 ELSE alpha[k]]
      /\ thin' = (thin \/ \E k \in K : alpha[k] \in 1..99)
      /\ UNCHANGED <<built, kept, cload, early>>
  BY DEF Reset
<1>4. hex' \in [ColorKeys -> Shades] /\ alpha' \in [ColorKeys -> 0..100]
  BY <1>1, <1>2, <1>3
<1>5. /\ paint' \in [ColorKeys -> [hex : Shades, a : 0..100]]
      /\ slider' \in [ColorKeys -> [hex : Shades, a : 0..100]]
  BY <1>1, <1>2, <1>3
<1>6. thin => thin'
  BY ONLY <1>3, Zenon
<1>7. ~early => \A n \in ColorKeys : slider'[n].hex = IF hex'[n] = Unset THEN Standard ELSE hex'[n]
  BY <1>2, <1>3 DEF SlidersFollow, Edit
<1>8. ASSUME ~early, ~thin', NEW n \in ColorKeys
      PROVE  /\ slider'[n].a = alpha'[n] /\ alpha[n] = alpha'[n] /\ Whole(hex'[n], alpha'[n])
             /\ paint'[n] = Painted(n, hex'[n], alpha'[n])
  <2>1. ~thin /\ \A k \in K : alpha[k] \notin 1..99
    BY ONLY <1>3, <1>8, Zenon
  <2>2. slider[n].a = alpha[n]
    BY <1>3, <1>8, <2>1 DEF SlidersFollow, Edit
  <2>3. Whole(hex[n], alpha[n]) /\ paint[n] = Painted(n, hex[n], alpha[n])
    BY <1>8, <2>1 DEF ValuesWhole
  <2>4. CASE n \in K
    <3>1. alpha[n] = 100
      BY <2>1, <2>3, <2>4 DEF Whole
    <3> QED
      BY <1>3, <2>4, <3>1 DEF Whole, Painted
  <2>5. CASE n \notin K
    BY <1>3, <2>2, <2>3, <2>5
  <2> QED
    BY <2>4, <2>5
<1> QED
  BY <1>2, <1>3, <1>4, <1>5, <1>6, <1>7, <1>8, EditKeeps

LEMMA RepaintKeeps == ColorInv /\ Repaint => ColorInv'
<1> SUFFICES ASSUME ColorInv, Repaint PROVE ColorInv'
  OBVIOUS
<1> USE DEF ColorInv, Repaint
<1>1. \A k \in ColorKeys : OrFull(alpha[k]) \in 0..100
  BY DEF ColorTypeOK, OrFull
<1>2. ColorTypeOK'
  BY <1>1, PaintedTyped DEF ColorTypeOK
<1>3. StoresTyped' /\ SlidersFollow' /\ NotYetLoaded'
  BY DEF StoresTyped, SlidersFollow, NotYetLoaded
<1>4. ASSUME ~early, ~thin PROVE paint' = paint
  <2>1. \A k \in ColorKeys : Whole(hex[k], alpha[k]) /\ paint[k] = Painted(k, hex[k], alpha[k])
    BY <1>4 DEF ValuesWhole
  <2>2. \A k \in ColorKeys : OrFull(alpha[k]) = alpha[k]
    BY <2>1 DEF Whole, OrFull
  <2>3. paint = [k \in ColorKeys |-> paint[k]]
    BY DEF ColorTypeOK
  <2> QED
    BY <2>1, <2>2, <2>3
<1>5. ValuesWhole'
  BY <1>4 DEF ValuesWhole
<1>6. LastSaveCounts'
  BY <1>4 DEF LastSaveCounts, Repeats
<1> QED
  BY <1>2, <1>3, <1>5, <1>6

LEMMA SaveKeeps == ASSUME ColorInv, NEW all \in csaves, SaveColors(all) PROVE ColorInv'
<1> USE DEF ColorInv, SaveColors
<1>1. ColorTypeOK'
  BY DEF ColorTypeOK
<1>2. StoresTyped'
  BY DEF StoresTyped
<1>3. SlidersFollow' /\ ValuesWhole'
  BY DEF SlidersFollow, ValuesWhole
<1>4. NotYetLoaded'
  BY DEF NotYetLoaded
<1>5. LastSaveCounts'
  <2> SUFFICES ASSUME cload.state = "done", ~early, ~thin, ~overtook PROVE LastSaveCounts'
    BY DEF LastSaveCounts
  <2>1. csaves = {all} /\ Repeats(all)
    BY DEF LastSaveCounts
  <2>2. csaves' = {} /\ kept' = all /\ paint' = paint
    BY <2>1
  <2> QED
    BY <2>1, <2>2 DEF LastSaveCounts, Repeats
<1> QED
  BY <1>1, <1>2, <1>3, <1>4, <1>5

LEMMA DropKeeps == ASSUME ColorInv, NEW all \in csaves, DropColors(all) PROVE ColorInv'
<1> USE DEF ColorInv, DropColors
<1>1. ColorTypeOK'
  BY DEF ColorTypeOK
<1>2. StoresTyped'
  BY DEF StoresTyped
<1>3. SlidersFollow' /\ ValuesWhole'
  BY DEF SlidersFollow, ValuesWhole
<1>4. NotYetLoaded'
  BY DEF NotYetLoaded
<1>5. LastSaveCounts'
  BY DEF LastSaveCounts, Repeats
<1> QED
  BY <1>1, <1>2, <1>3, <1>4, <1>5

LEMMA ColorStep == ColorInv /\ [ColorNext]_colorVars => ColorInv'
<1> SUFFICES ASSUME ColorInv, [ColorNext]_colorVars PROVE ColorInv'
  OBVIOUS
<1>1. CASE GetColors \/ LoseColors \/ loadCustomColors \/ initColorPanel \/ Repaint
  BY <1>1, GetColorsKeeps, LoseColorsKeeps, LoadKeeps, BuildKeeps, RepaintKeeps
<1>2. ASSUME NEW k \in ColorKeys, NEW h \in Hues, Pick(k, h) PROVE ColorInv'
  BY <1>2, PickKeeps
<1>3. ASSUME NEW k \in ColorKeys, NEW a \in Opacities, Slide(k, a) PROVE ColorInv'
  BY <1>3, SlideKeeps
<1>4. ASSUME NEW K \in SUBSET ColorKeys, Reset(K) PROVE ColorInv'
  BY <1>4, ResetKeeps
<1>5. ASSUME NEW all \in csaves, SaveColors(all) PROVE ColorInv'
  BY <1>5, SaveKeeps
<1>8. ASSUME NEW all \in csaves, DropColors(all) PROVE ColorInv'
  BY <1>8, DropKeeps
<1>6. CASE UNCHANGED colorVars
  BY <1>6 DEF colorVars, ColorInv, ColorTypeOK, StoresTyped, SlidersFollow, ValuesWhole,
              NotYetLoaded, LastSaveCounts, Repeats
<1>7. CASE ColorNext
  <2>1. ASSUME NEW k \in ColorKeys, Reset({k}) PROVE ColorInv'
    BY <1>4, <2>1
  <2>2. CASE Reset(ColorKeys)
    BY <1>4, <2>2
  <2> QED
    BY <1>1, <1>2, <1>3, <1>5, <1>7, <1>8, <2>1, <2>2 DEF ColorNext
<1> QED
  BY <1>6, <1>7

-----------------------------------------------------------------------------
(* Theorems                                                                *)

LEMMA ColorsInductive == ColorSpec => []ColorInv
<1> QED
  BY ColorStart, ColorStep, PTL DEF ColorSpec

\* What is painted is what a page opened now would paint: every edit saves all colours
\* in full (saveCustomColors), for any keys, hues and opacities and any number of edits.
\* After a lost load or save the next save brings page and router together again.
THEOREM LooksKeptAlways == ColorSpec => []LooksKept
<1>1. ColorInv => LooksKept
  BY DEF ColorInv, LastSaveCounts, LooksKept, Repeats
<1> QED
  BY <1>1, ColorsInductive, PTL

\* A slide of the opacity never repaints a colour: stateMap and colorSettings stay together.
THEOREM SlideKeepsColorAlways == ColorSpec => SlideKeepsColor
<1> DEFINE Kept(k) == edits' # edits /\ alpha'[k] # alpha[k] /\ Unset \notin {hex[k], hex'[k]} /\ ~early
                      => hex'[k] = hex[k]
<1>1. ASSUME ColorInv, ColorNext, NEW n \in ColorKeys PROVE Kept(n)
  <2> USE <1>1 DEF ColorInv
  <2>1. hex \in [ColorKeys -> Shades] /\ alpha \in [ColorKeys -> 0..100]
    BY DEF ColorTypeOK
  <2>2. CASE GetColors \/ LoseColors \/ loadCustomColors \/ initColorPanel \/ Repaint
    BY <2>2 DEF GetColors, LoseColors, loadCustomColors, initColorPanel, Repaint
  <2>3. ASSUME NEW k \in ColorKeys, NEW h \in Hues, Pick(k, h) PROVE Kept(n)
    BY <2>3 DEF Pick
  <2>4. ASSUME NEW k \in ColorKeys, NEW a \in Opacities, Slide(k, a) PROVE Kept(n)
    <3>1. hex' = [hex EXCEPT ![k] = slider[k].hex] /\ alpha' = [alpha EXCEPT ![k] = a]
      BY <2>4 DEF Slide, applyColor
    <3>2. ~early => slider[k].hex = IF hex[k] = Unset THEN Standard ELSE hex[k]
      BY <2>4 DEF Slide, Edit, SlidersFollow
    <3> QED
      BY <2>1, <3>1, <3>2
  <2>5. ASSUME NEW K \in SUBSET ColorKeys, Reset(K) PROVE Kept(n)
    <3>1. hex' = [k \in ColorKeys |-> IF k \in K THEN Unset ELSE hex[k]]
      BY <2>5 DEF Reset
    <3> QED
      BY <3>1
  <2>6. ASSUME NEW all \in csaves, SaveColors(all) PROVE Kept(n)
    BY <2>6 DEF SaveColors
  <2>9. ASSUME NEW all \in csaves, DropColors(all) PROVE Kept(n)
    BY <2>9 DEF DropColors
  <2>7. ASSUME NEW k \in ColorKeys, Reset({k}) PROVE Kept(n)
    BY <2>5, <2>7
  <2>8. CASE Reset(ColorKeys)
    BY <2>5, <2>8
  <2> QED
    BY <2>2, <2>3, <2>4, <2>6, <2>7, <2>8, <2>9 DEF ColorNext
<1>2. ColorInv /\ [ColorNext]_colorVars => [\A k \in ColorKeys : Kept(k)]_colorVars
  BY <1>1
<1> QED
  BY <1>2, ColorsInductive, PTL DEF ColorSpec, SlideKeepsColor
=============================================================================

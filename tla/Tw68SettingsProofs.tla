-------------------------- MODULE Tw68SettingsProofs --------------------------
(***************************************************************************)
(* For every set of requests, whatever the numbers in them: the standard   *)
(* answers the request, the cropping rectangle and the format stay within  *)
(* the frame, what S_FMT accepts buffer_prepare takes, it is known which   *)
(* of it the scaler can make (Tw68Settings), and every control reads back  *)
(* (Tw68Controls).                                                         *)
(***************************************************************************)
EXTENDS Tw68Settings, Tw68Controls, WellFoundedInduction, TLAPS

-----------------------------------------------------------------------------
(* The table of the standards.                                             *)

LEMMA Table ==
    /\ DOMAIN tvnorms = 1..14
    /\ tvnorms[1] = Norm(PALBG, 1, Lines625)
    /\ tvnorms[2] = Norm({"I"}, 1, Lines625)
    /\ tvnorms[3] = Norm(PALDK, 1, Lines625)
    /\ tvnorms[4] = Norm(PAL, 1, Lines625)
    /\ tvnorms[5] = Norm(NTSC, 0, Lines525)
    /\ tvnorms[6] = Norm(SECAMDK, 2, Lines625)
    /\ tvnorms[7] = Norm({"SL"}, 2, Lines625)
    /\ tvnorms[8] = Norm({"SLC"}, 2, Lines625)
    /\ tvnorms[9] = Norm(SECAM, 2, Lines625)
    /\ tvnorms[10] = Norm({"PAL_M"}, 4, Lines525)
    /\ tvnorms[11] = Norm({"PAL_Nc"}, 5, Lines625)
    /\ tvnorms[12] = Norm({"PAL_60"}, 6, Lines60)
    /\ tvnorms[13] = Norm(STD525, 0, Lines525)
    /\ tvnorms[14] = Norm(STD625, 1, Lines625)
  BY DEF tvnorms

\* Which bits belong to 525 lines.
LEMMA Signals ==
    /\ PALBG \intersect STD525 = {} /\ {"I"} \intersect STD525 = {}
    /\ PALDK \intersect STD525 = {} /\ PAL \intersect STD525 = {}
    /\ SECAMDK \intersect STD525 = {} /\ {"SL"} \intersect STD525 = {}
    /\ {"SLC"} \intersect STD525 = {} /\ SECAM \intersect STD525 = {}
    /\ {"PAL_Nc"} \intersect STD525 = {} /\ STD625 \intersect STD525 = {}
    /\ NTSC \intersect STD525 # {} /\ {"PAL_M"} \intersect STD525 # {}
    /\ {"PAL_60"} \intersect STD525 # {} /\ STD525 \intersect STD525 # {}
<1>1. /\ PAL \intersect STD525 = {} /\ SECAM \intersect STD525 = {}
      /\ {"PAL_Nc", "PAL_N"} \intersect STD525 = {}
  BY DEF PAL, PALBG, PALDK, SECAM, SECAMDK, STD525, NTSC
<1>2. /\ PALBG \subseteq PAL /\ {"I"} \subseteq PAL /\ PALDK \subseteq PAL
      /\ SECAMDK \subseteq SECAM /\ {"SL"} \subseteq SECAM
      /\ {"SLC"} \subseteq SECAM
  BY DEF PAL, SECAM
<1>3. "M" \in NTSC /\ {"M", "PAL_M", "PAL_60"} \subseteq STD525
  BY DEF NTSC, STD525
<1> QED
  BY <1>1, <1>2, <1>3 DEF STD625

\* The three kinds of standards, with the bounds set_tvnorm derives.
IsNorm(n, lines, top, height) ==
    /\ tvnorms[n].lines = lines
    /\ CropBounds(n) = [left |-> 0, width |-> 720, top |-> top, height |-> height]

LEMMA ThreeKinds ==
    ASSUME NEW n \in DOMAIN tvnorms
    PROVE  \/ IsNorm(n, Lines625, 24, 288)
           \/ IsNorm(n, Lines525, 22, 240)
           \/ IsNorm(n, Lines60, 23, 239)
<1>1. \/ tvnorms[n].lines = Lines625 /\ tvnorms[n].id \intersect STD525 = {}
      \/ tvnorms[n].lines \in {Lines525, Lines60}
            /\ tvnorms[n].id \intersect STD525 # {}
  <2>1. \A k \in {1, 2, 3, 4, 6, 7, 8, 9, 11, 14} :
           tvnorms[k].lines = Lines625 /\ tvnorms[k].id \intersect STD525 = {}
    BY Table, Signals DEF Norm
  <2>2. \A k \in {5, 10, 12, 13} :
           /\ tvnorms[k].lines \in {Lines525, Lines60}
           /\ tvnorms[k].id \intersect STD525 # {}
    BY Table, Signals DEF Norm
  <2>3. n \in {1, 2, 3, 4, 6, 7, 8, 9, 11, 14} \union {5, 10, 12, 13}
    BY Table
  <2> QED
    BY <2>1, <2>2, <2>3
<1>2. 624 \div 2 = 312 /\ 524 \div 2 = 262
  OBVIOUS
<1>3. ASSUME tvnorms[n].lines = Lines625, tvnorms[n].id \intersect STD525 = {}
      PROVE  IsNorm(n, Lines625, 24, 288)
  BY <1>2, <1>3 DEF IsNorm, CropBounds, Lines625
<1>4. ASSUME tvnorms[n].lines = Lines525, tvnorms[n].id \intersect STD525 # {}
      PROVE  IsNorm(n, Lines525, 22, 240)
  BY <1>2, <1>4 DEF IsNorm, CropBounds, Lines525
<1>5. ASSUME tvnorms[n].lines = Lines60, tvnorms[n].id \intersect STD525 # {}
      PROVE  IsNorm(n, Lines60, 23, 239)
  BY <1>2, <1>5 DEF IsNorm, CropBounds, Lines60
<1> QED
  BY <1>1, <1>3, <1>4, <1>5

\* The frame of a standard, and the rectangle set_tvnorm starts with.
LEMMA Bounds ==
    ASSUME NEW n \in DOMAIN tvnorms
    PROVE  /\ CropBounds(n).left = 0 /\ CropBounds(n).width = 720
           /\ CropBounds(n).top \in 22..24 /\ CropBounds(n).height \in 239..288
           /\ CropBounds(n).top + CropBounds(n).height <= 312
           /\ tvnorms[n].lines.h_stop - tvnorms[n].lines.h_start + 1 = 720
           /\ tvnorms[n].lines.v_stop - tvnorms[n].lines.v_start + 1
                \in CropBounds(n).height .. 288
           /\ CropDefault(n) \in [left : {0}, width : {720}, top : 22..24,
                                  height : 0..288]
<1>1. CASE IsNorm(n, Lines625, 24, 288)
  BY <1>1 DEF IsNorm, Lines625, CropDefault
<1>2. CASE IsNorm(n, Lines525, 22, 240)
  BY <1>2 DEF IsNorm, Lines525, CropDefault
<1>3. CASE IsNorm(n, Lines60, 23, 239)
  BY <1>3 DEF IsNorm, Lines60, CropDefault
<1> QED
  BY <1>1, <1>2, <1>3, ThreeKinds

-----------------------------------------------------------------------------
(* The search in the table.                                                *)

LEMMA FirstNormFound ==
    ASSUME NEW entries \in SUBSET DOMAIN tvnorms, entries # {}
    PROVE  FirstNorm(entries) \in entries
<1>1. entries \subseteq Nat
  BY Table
<1>2. PICK i \in entries : \A j \in entries : <<j, i>> \notin OpToRel(<, Nat)
  BY <1>1, NatLessThanWellFounded, WFMin
<1>3. \A j \in entries : ~(j < i)
  BY <1>1, <1>2 DEF OpToRel
<1>4. \A j \in entries : i <= j
  <2>1. i \in Nat /\ \A j \in entries : j \in Nat
    BY <1>1
  <2> QED
    BY <1>3, <2>1
<1> QED
  BY <1>4 DEF FirstNorm

\* An entry has signals of 525 lines or of 625 lines, never of both.
LEMMA OneKind ==
    ASSUME NEW i \in DOMAIN tvnorms
    PROVE  \/ tvnorms[i].id \subseteq STD525 /\ tvnorms[i].id \intersect STD625 = {}
           \/ tvnorms[i].id \subseteq STD625 /\ tvnorms[i].id \intersect STD525 = {}
<1>1. STD625 \intersect STD525 = {}
  BY Signals
<1>2. \A k \in {1, 2, 3, 4, 6, 7, 8, 9, 11, 14} : tvnorms[k].id \subseteq STD625
  <2>1. PALBG \subseteq STD625 /\ {"I"} \subseteq STD625 /\ PALDK \subseteq STD625
        /\ PAL \subseteq STD625 /\ {"PAL_Nc"} \subseteq STD625
    BY DEF STD625, PAL
  <2>2. SECAMDK \subseteq STD625 /\ {"SL"} \subseteq STD625
        /\ {"SLC"} \subseteq STD625 /\ SECAM \subseteq STD625
    BY DEF STD625, SECAM
  <2> QED
    BY <2>1, <2>2, Table DEF Norm
<1>3. \A k \in {5, 10, 12, 13} : tvnorms[k].id \subseteq STD525
  <2>1. NTSC \subseteq STD525 /\ {"PAL_M"} \subseteq STD525
        /\ {"PAL_60"} \subseteq STD525
    BY DEF STD525
  <2> QED
    BY <2>1, Table DEF Norm
<1>4. i \in {1, 2, 3, 4, 6, 7, 8, 9, 11, 14} \union {5, 10, 12, 13}
  BY Table
<1>5. tvnorms[i].id \subseteq STD525 \/ tvnorms[i].id \subseteq STD625
  BY <1>2, <1>3, <1>4
<1> QED
  BY <1>1, <1>5

\* A request that some entry shares a bit with gets one of the table, which
\* shares a bit with it, or is it.
LEMMA FindStdAnswers ==
    ASSUME NEW id, SharedBit(id) # {}
    PROVE  /\ FindStd(id) \in DOMAIN tvnorms
           /\ tvnorms[FindStd(id)].id \intersect id # {}
           /\ SameBits(id) # {} => tvnorms[FindStd(id)].id = id
<1>1. SameBits(id) \subseteq DOMAIN tvnorms /\ SharedBit(id) \subseteq DOMAIN tvnorms
  BY DEF SameBits, SharedBit
<1>2. CASE SameBits(id) # {}
  <2>1. FindStd(id) \in SameBits(id)
    BY <1>1, <1>2, FirstNormFound DEF FindStd
  <2>2. id # {}
    BY DEF SharedBit
  <2> QED
    BY <2>1, <2>2 DEF SameBits
<1>3. CASE SameBits(id) = {}
  <2>1. FindStd(id) \in SharedBit(id)
    BY <1>1, <1>3, FirstNormFound DEF FindStd
  <2> QED
    BY <1>3, <2>1 DEF SharedBit
<1> QED
  BY <1>2, <1>3

\* What the secam parameter asks for is in the table.
LEMMA FixupFound == FirstNorm(SameBits(Fixup)) \in DOMAIN tvnorms
<1>1. SameBits(Fixup) \in SUBSET DOMAIN tvnorms
  BY DEF SameBits
<1>2. Fixup \in {{"SL"}, {"SLC"}, SECAMDK, SECAM}
  BY DEF Fixup
<1>3. \E i \in {6, 7, 8, 9} : tvnorms[i].id = Fixup
  BY <1>2, Table DEF Norm
<1>4. SameBits(Fixup) # {}
  BY <1>3, Table DEF SameBits
<1> QED
  BY <1>1, <1>4, FirstNormFound

LEMMA ChosenInTable ==
    ASSUME NEW id, SharedBit(id) # {}
    PROVE  ChosenStd(id) \in DOMAIN tvnorms
  BY FindStdAnswers, FixupFound DEF ChosenStd

-----------------------------------------------------------------------------
(* The helpers.                                                            *)

\* tw68_s_crop leaves nothing outside of the bounds.
LEMMA CropToInside ==
    ASSUME NEW b, b.left \in Nat, b.width \in Nat, b.top \in Nat, b.height \in Nat,
           NEW r \in [left : Int, width : Nat, top : Int, height : Nat]
    PROVE  LET c == CropTo(b, r) IN
           /\ c = [left |-> c.left, width |-> c.width, top |-> c.top,
                   height |-> c.height]
           /\ c.left \in Int /\ c.width \in Nat /\ c.top \in Int /\ c.height \in Nat
           /\ c.left >= b.left /\ c.left + c.width <= b.left + b.width
           /\ c.top >= b.top /\ c.top + c.height <= b.top + b.height
<1> DEFINE top == Clamp(r.top, b.top, b.top + b.height)
           left == Clamp(r.left, b.left, b.left + b.width)
           width == AtMost(r.width, b.left - left + b.width)
           height == AtMost(r.height, b.top - top + b.height)
<1>1. r.left \in Int /\ r.width \in Nat /\ r.top \in Int /\ r.height \in Nat
  OBVIOUS
<1>2. /\ top \in Int /\ top >= b.top /\ top <= b.top + b.height
      /\ left \in Int /\ left >= b.left /\ left <= b.left + b.width
  BY <1>1 DEF Clamp
<1> HIDE DEF top, left
<1>3. /\ width \in Nat /\ left + width <= b.left + b.width
      /\ height \in Nat /\ top + height <= b.top + b.height
  BY <1>1, <1>2 DEF AtMost
<1> HIDE DEF width, height
<1>4. CropTo(b, r) = [left |-> left, width |-> width, top |-> top, height |-> height]
  BY DEF CropTo, top, left, width, height
<1> QED
  BY <1>2, <1>3, <1>4

\* No format is larger than four times the cropping rectangle, or than the
\* frame; of one field it has half the lines.
Fits(f, height) == f.height <= IF HasBoth(f.field) THEN 2 * height ELSE height
Accepted == [width : 0..720, height : Nat, field : {"TOP", "BOTTOM", "INTERLACED"}]

LEMMA TryFmtFits ==
    ASSUME NEW w \in Nat, NEW h \in Nat,
           NEW field \in {"ANY", "TOP", "BOTTOM", "INTERLACED"},
           norm \in DOMAIN tvnorms, crop.width \in Nat, crop.height \in Nat
    PROVE  /\ TryFmt(w, h, field) \in Accepted
           /\ Fits(TryFmt(w, h, field), CropBounds(norm).height)
<1> DEFINE bounds == CropBounds(norm)
           maxw == Minimum(crop.width * 4, bounds.width)
           maxf == Minimum(crop.height * 4, bounds.height)
           chosen == IF field # "ANY" THEN field
                     ELSE IF h > (maxf \div 2) THEN "INTERLACED" ELSE "BOTTOM"
           maxh == IF HasBoth(chosen) THEN 2 * maxf ELSE maxf
           width == AtMost(IF w < 48 THEN 48 ELSE w, maxw)
           height == AtMost(IF h < 32 THEN 32 ELSE h, maxh)
<1>1. bounds.width = 720 /\ bounds.height \in Nat
  BY Bounds
<1> HIDE DEF bounds
<1>2. maxw \in 0..720 /\ maxf \in Nat /\ maxf <= bounds.height
  BY <1>1 DEF Minimum
<1> HIDE DEF maxw, maxf
<1>3. chosen \in {"TOP", "BOTTOM", "INTERLACED"}
  OBVIOUS
<1> HIDE DEF chosen
<1>4. maxh \in Nat /\ maxh <= IF HasBoth(chosen) THEN 2 * bounds.height ELSE bounds.height
  BY <1>1, <1>2
<1> HIDE DEF maxh
<1>5. width \in 0..720 /\ height \in Nat /\ height <= maxh
  BY <1>2, <1>4 DEF AtMost
<1> HIDE DEF width, height
<1>6. width - (width % 4) \in 0..720
  BY <1>5
<1>7. TryFmt(w, h, field) = [width |-> width - (width % 4), height |-> height,
                             field |-> chosen]
  BY DEF TryFmt, bounds, maxw, maxf, chosen, maxh, width, height
<1>8. height <= IF HasBoth(chosen) THEN 2 * bounds.height ELSE bounds.height
  BY <1>1, <1>4, <1>5
<1> QED
  BY <1>3, <1>5, <1>6, <1>7, <1>8 DEF Accepted, Fits, bounds

-----------------------------------------------------------------------------
(* The inductive invariant.                                                *)

\* The answer to the last request, which the secam parameter leaves alone.
AnswerStands ==
    asked # {} /\ (Secam = "none" \/ asked \intersect SECAM = {}) =>
        SharedBit(asked) # {} /\ norm = FindStd(asked)

\* A format that was accepted under this standard fits into its frame.
FreshFits == fresh => Fits(fmt, CropBounds(norm).height)

SettingsInv == SettingsTypeOK /\ AnswerStands /\ CropInBounds /\ FreshFits

LEMMA SettingsInvInit == ASSUME SettingsInit PROVE SettingsInv
<1>1. 1 \in DOMAIN tvnorms /\ tvnorms[1].lines = Lines625
  BY Table DEF Norm
<1>2. crop \in [left : {0}, width : {720}, top : 22..24, height : 0..288]
  BY <1>1, Bounds DEF SettingsInit
<1>3. CropBounds(1).height = 288
  BY <1>1, ThreeKinds DEF IsNorm, Lines625, Lines525, Lines60
<1>4. Fits(fmt, CropBounds(norm).height)
  BY <1>3 DEF SettingsInit, Fits, HasBoth
<1>5. fmt \in Formats
  BY DEF SettingsInit, Formats
<1>6. SettingsTypeOK
  <2>1. busy \in BOOLEAN /\ fresh \in BOOLEAN /\ cropped \in BOOLEAN
    BY DEF SettingsInit
  <2>2. norm \in DOMAIN tvnorms /\ asked \in StdIds \union {{}}
    BY <1>1 DEF SettingsInit
  <2> QED
    BY <1>2, <1>5, <2>1, <2>2 DEF SettingsTypeOK
<1> QED
  BY <1>4, <1>6 DEF SettingsInit, SettingsInv, AnswerStands, CropInBounds, FreshFits

LEMMA SettingsInvStep ==
    ASSUME SettingsAssumption, SettingsInv, [SettingsNext]_settings
    PROVE  SettingsInv'
<1> USE DEF SettingsInv
<1>1. ASSUME NEW id \in StdIds, SStd(id) PROVE SettingsInv'
  <2>1. /\ SharedBit(id) # {} /\ norm' = ChosenStd(id) /\ crop' = CropDefault(norm')
        /\ asked' = id /\ cropped' = FALSE /\ UNCHANGED <<fmt, busy>>
        /\ fresh' = (fresh /\ norm' = norm)
    BY <1>1 DEF SStd
  <2>2. norm' \in DOMAIN tvnorms
    BY <2>1, ChosenInTable
  <2>3. crop' \in [left : {0}, width : {720}, top : 22..24, height : 0..288]
    BY <2>1, <2>2, Bounds
  <2>4. SettingsTypeOK'
    <3>1. fresh' \in BOOLEAN /\ cropped' \in BOOLEAN /\ busy' \in BOOLEAN
      BY ZenonT(60), <2>1 DEF SettingsTypeOK
    <3> QED
      BY <2>1, <2>2, <2>3, <3>1 DEF SettingsTypeOK
  <2>5. AnswerStands'
    BY <2>1 DEF AnswerStands, ChosenStd, SharedBit
  <2>6. CropInBounds' /\ FreshFits'
    BY <2>1 DEF CropInBounds, FreshFits
  <2> QED
    BY <2>4, <2>5, <2>6
<1>2. ASSUME NEW r \in Rects, SCrop(r) PROVE SettingsInv'
  <2> DEFINE b == CropBounds(norm)
  <2>1. /\ crop' = CropTo(b, r) /\ cropped' = TRUE
        /\ UNCHANGED <<norm, fmt, busy, asked, fresh>>
    BY <1>2 DEF SCrop
  <2>2. r \in [left : Int, width : Nat, top : Int, height : Nat]
    BY <1>2 DEF SettingsAssumption, SCrop
  <2>3. /\ b.left = 0 /\ b.width = 720 /\ b.top \in Nat /\ b.height \in Nat
        /\ b.top + b.height <= 312 /\ b.height <= 288
    BY Bounds DEF SettingsTypeOK
  <2> HIDE DEF b
  <2>4. /\ crop' = [left |-> crop'.left, width |-> crop'.width,
                    top |-> crop'.top, height |-> crop'.height]
        /\ crop'.left \in Int /\ crop'.width \in Nat
        /\ crop'.top \in Int /\ crop'.height \in Nat
        /\ crop'.left >= b.left /\ crop'.left + crop'.width <= b.left + b.width
        /\ crop'.top >= b.top /\ crop'.top + crop'.height <= b.top + b.height
    BY <2>1, <2>2, <2>3, CropToInside
  <2>5. crop' \in [left : 0..720, width : 0..720, top : 0..312, height : 0..288]
    <3>1. crop'.left \in 0..720 /\ crop'.width \in 0..720
      <4>1. /\ crop'.left \in Int /\ crop'.width \in Nat
            /\ crop'.left >= 0 /\ crop'.left + crop'.width <= 720
        BY <2>3, <2>4
      <4> DEFINE x == crop'.left
                 y == crop'.width
      <4>2. x \in Int /\ y \in Nat /\ x >= 0 /\ x + y <= 720
        BY <4>1
      <4> HIDE DEF x, y
      <4>3. x \in 0..720 /\ y \in 0..720
        BY <4>2
      <4> QED
        BY <4>3 DEF x, y
    <3>2. crop'.top \in 0..312 /\ crop'.height \in 0..288
      <4>1. /\ crop'.top \in Int /\ crop'.height \in Nat /\ b.top \in Nat
            /\ crop'.top >= b.top /\ crop'.top + crop'.height <= b.top + b.height
            /\ b.top + b.height <= 312 /\ b.height <= 288 /\ b.height \in Nat
        BY <2>3, <2>4
      <4> QED
        BY SMTT(60), <4>1
    <3> QED
      BY <2>4, <3>1, <3>2
  <2>6. SettingsTypeOK'
    BY <2>1, <2>5 DEF SettingsTypeOK
  <2>7. CropInBounds'
    BY <2>1, <2>4 DEF CropInBounds, b
  <2> QED
    BY <2>1, <2>6, <2>7 DEF AnswerStands, FreshFits
<1>3. ASSUME NEW w \in Widths, NEW h \in Heights,
             NEW field \in {"ANY", "TOP", "BOTTOM", "INTERLACED"}, SFmt(w, h, field)
      PROVE  SettingsInv'
  <2>1. fmt' = TryFmt(w, h, field) /\ UNCHANGED <<norm, crop, busy, asked, cropped>>
        /\ fresh' = TRUE
    BY <1>3 DEF SFmt
  <2>2. w \in Nat /\ h \in Nat /\ norm \in DOMAIN tvnorms
        /\ crop.width \in Nat /\ crop.height \in Nat
    BY SMTT(60) DEF SettingsAssumption, SettingsTypeOK
  <2>3. fmt' \in Accepted /\ Fits(fmt', CropBounds(norm).height)
    BY <2>1, <2>2, TryFmtFits
  <2>4. CropBounds(norm).height \in 239..288
    BY <2>2, Bounds
  <2>5. fmt' \in Formats
    BY <2>3, <2>4 DEF Accepted, Fits, HasBoth, Formats
  <2>6. SettingsTypeOK'
    BY <2>1, <2>5 DEF SettingsTypeOK
  <2> QED
    BY <2>1, <2>3, <2>6 DEF AnswerStands, CropInBounds, FreshFits
<1>4. ASSUME Stream PROVE SettingsInv'
  <2>1. busy' \in BOOLEAN /\ UNCHANGED <<norm, crop, fmt, asked, fresh, cropped>>
    BY <1>4 DEF Stream, SettingsTypeOK
  <2> QED
    BY <2>1 DEF SettingsTypeOK, AnswerStands, CropInBounds, FreshFits
<1>5. ASSUME UNCHANGED settings PROVE SettingsInv'
  BY <1>5 DEF settings, SettingsTypeOK, AnswerStands, CropInBounds, FreshFits
<1> QED
  BY <1>1, <1>2, <1>3, <1>4, <1>5 DEF SettingsNext

-----------------------------------------------------------------------------
(* What buffer_prepare and the scaler make of a format.                    *)

\* A quotient by no more than d, of what holds low times d, is no less than low.
LEMMA QuotientAtLeast ==
    ASSUME NEW a \in Nat, NEW d \in Nat \ {0}, NEW low \in Nat, low * d <= a
    PROVE  a \div d >= low
<1> DEFINE q == a \div d
<1>1. q \in Int /\ d * q <= a /\ a < d * (q + 1)
  OBVIOUS
<1> HIDE DEF q
<1>2. ASSUME q + 1 <= low PROVE FALSE
  <2>1. d * (q + 1) <= d * low
    BY <1>1, <1>2
  <2>2. d * low = low * d
    OBVIOUS
  <2> QED
    BY <1>1, <2>1, <2>2
<1>3. q >= low
  BY <1>1, <1>2
<1> QED
  BY <1>3 DEF q

LEMMA QuotientBelow ==
    ASSUME NEW a \in Nat, NEW d \in Nat \ {0}, NEW high \in Nat, a < high * d
    PROVE  a \div d < high /\ a \div d \in Nat
<1> DEFINE q == a \div d
<1>1. q \in Int /\ d * q <= a /\ q >= 0
  OBVIOUS
<1> HIDE DEF q
<1>2. ASSUME high <= q PROVE FALSE
  <2>1. d * high <= d * q
    BY <1>1, <1>2
  <2>2. d * high = high * d
    OBVIOUS
  <2> QED
    BY <1>1, <2>1, <2>2
<1>3. q < high /\ q \in Nat
  BY <1>1, <1>2
<1> QED
  BY <1>3 DEF q

\* The scale for a size of which a smaller one is made.
Scale(size, made) == (size * 256) \div made

\* It shrinks, and fits into 12 bits exactly when it is by less than 16.
LEMMA ScaleOf ==
    ASSUME NEW size \in Nat, NEW made \in Nat \ {0}, made <= size
    PROVE  /\ Scale(size, made) >= 256
           /\ Scale(size, made) % 4096 = Scale(size, made) <=> 16 * made > size
<1> DEFINE scale == (size * 256) \div made
<1>1. 256 * made <= size * 256
  OBVIOUS
<1>2. scale >= 256
  BY <1>1, QuotientAtLeast
<1>3. scale \in Int
  OBVIOUS
<1>4. ASSUME 16 * made > size PROVE scale < 4096
  <2>1. size * 256 < 4096 * made
    BY <1>4
  <2> QED
    BY <2>1, QuotientBelow
<1>5. ASSUME ~(16 * made > size) PROVE scale >= 4096
  <2>1. 4096 * made <= size * 256
    BY <1>5
  <2> QED
    BY <2>1, QuotientAtLeast
<1> HIDE DEF scale
<1>6. scale < 4096 => scale % 4096 = scale
  BY <1>2, <1>3
<1>7. scale >= 4096 => scale % 4096 # scale
  BY <1>3
<1>8. scale % 4096 = scale <=> 16 * made > size
  BY <1>4, <1>5, <1>6, <1>7, <1>3
<1> QED
  BY <1>2, <1>8 DEF scale, Scale

LEMMA AcceptedFits ==
    ASSUME SettingsInv, fresh, fmt.width >= 48, fmt.height >= 16
    PROVE  Preparable(fmt)
<1>1. norm \in DOMAIN tvnorms /\ fmt \in Formats
  BY DEF SettingsInv, SettingsTypeOK
<1>2. Fits(fmt, CropBounds(norm).height)
  BY DEF SettingsInv, FreshFits
<1>3. /\ tvnorms[norm].lines.h_stop - tvnorms[norm].lines.h_start + 1 = 720
      /\ tvnorms[norm].lines.v_stop - tvnorms[norm].lines.v_start + 1
           \in CropBounds(norm).height .. 288
      /\ CropBounds(norm).height \in 239..288
  BY <1>1, Bounds
<1>4. fmt.height <= 2 * CropBounds(norm).height
  <2> DEFINE height == CropBounds(norm).height
  <2>1. height \in Nat /\ fmt.height \in Nat
    BY <1>1, <1>3 DEF Formats
  <2> HIDE DEF height
  <2>2. fmt.height <= IF HasBoth(fmt.field) THEN 2 * height ELSE height
    BY <1>2 DEF Fits, height
  <2>3. fmt.height <= 2 * height
    BY <2>1, <2>2
  <2> QED
    BY <2>3 DEF height
<1> QED
  BY SMTT(60), <1>1, <1>3, <1>4 DEF Preparable, Formats

LEMMA PreparableScales ==
    ASSUME SettingsInv, fresh, Preparable(fmt)
    PROVE  /\ HScale(fmt) >= 256 /\ VScale(fmt) >= 256
           /\ SetScale(fmt).hscale = HScale(fmt)
           /\ SetScale(fmt).vscale = VScale(fmt)
                 <=> ScaleLines(fmt) * 16 > CropBounds(norm).height
<1>1. norm \in DOMAIN tvnorms /\ fmt \in Formats
  BY DEF SettingsInv, SettingsTypeOK
<1>2. CropBounds(norm).width = 720 /\ CropBounds(norm).height \in 239..288
  BY <1>1, Bounds
<1>3. Fits(fmt, CropBounds(norm).height)
  BY DEF SettingsInv, FreshFits
<1>4. fmt.width \in 48..720 /\ fmt.height \in 16..576
  BY <1>1 DEF Preparable, Formats
<1>5. ScaleLines(fmt) \in Nat \ {0} /\ ScaleLines(fmt) <= CropBounds(norm).height
  <2> DEFINE height == CropBounds(norm).height
  <2>1. height \in Nat
    BY <1>2
  <2> HIDE DEF height
  <2>2. fmt.height <= IF HasBoth(fmt.field) THEN 2 * height ELSE height
    BY <1>3 DEF Fits, height
  <2>3. ScaleLines(fmt) \in Nat \ {0} /\ ScaleLines(fmt) <= height
    <3>1. CASE HasBoth(fmt.field)
      BY SMTT(60), <1>4, <2>1, <2>2, <3>1 DEF ScaleLines
    <3>2. CASE ~HasBoth(fmt.field)
      BY SMTT(60), <1>4, <2>1, <2>2, <3>2 DEF ScaleLines
    <3> QED
      BY <3>1, <3>2
  <2> QED
    BY <2>3 DEF height
<1>6. HScale(fmt) >= 256 /\ HScale(fmt) % 4096 = HScale(fmt)
  <2> DEFINE made == fmt.width
  <2>0. made \in 48..720
    BY <1>4
  <2>2. CropBounds(norm).width = 720
    BY <1>2
  <2> HIDE DEF made
  <2>1. made \in Nat \ {0} /\ made <= 720 /\ 16 * made > 720
    BY <2>0
  <2>3. Scale(720, made) >= 256 /\ Scale(720, made) % 4096 = Scale(720, made)
    BY <2>1, ScaleOf
  <2>4. HScale(fmt) = Scale(720, made)
    BY <2>2 DEF HScale, Scale, made
  <2> QED
    BY <2>3, <2>4
<1>7. VScale(fmt) >= 256
      /\ (VScale(fmt) % 4096 = VScale(fmt)
            <=> ScaleLines(fmt) * 16 > CropBounds(norm).height)
  <2> DEFINE size == CropBounds(norm).height
             made == ScaleLines(fmt)
  <2>1. size \in Nat /\ made \in Nat \ {0} /\ made <= size
    BY <1>2, <1>5
  <2>2. VScale(fmt) = Scale(size, made)
    BY DEF VScale, Scale
  <2> HIDE DEF size, made
  <2>3. /\ Scale(size, made) >= 256
        /\ Scale(size, made) % 4096 = Scale(size, made) <=> 16 * made > size
    BY <2>1, ScaleOf
  <2>4. 16 * made = made * 16
    BY <2>1
  <2>5. VScale(fmt) >= 256
        /\ (VScale(fmt) % 4096 = VScale(fmt) <=> made * 16 > size)
    BY <2>2, <2>3, <2>4
  <2> QED
    BY <2>5 DEF size, made
<1> QED
  BY <1>6, <1>7 DEF SetScale

-----------------------------------------------------------------------------
(* The theorems about the settings.                                        *)

\* The inductive invariant.
THEOREM SettingsInvHolds == SettingsSpec => []SettingsInv
<1>1. SettingsInit => SettingsInv
  BY SettingsInvInit
<1>2. SettingsInv /\ [SettingsNext]_settings => SettingsInv'
  BY SettingsAssumption, SettingsInvStep
<1> QED
  BY <1>1, <1>2, PTL DEF SettingsSpec

\* Every variable keeps its type: whatever is asked of VIDIOC_S_FMT, no format
\* is larger than the largest frame there is.
THEOREM SettingsTypesHold == SettingsSpec => []SettingsTypeOK
  BY SettingsInvHolds, PTL DEF SettingsInv

\* For every request, unless the secam parameter decides: the very set of
\* signals is used when the table has it, a single signal is in the standard
\* used, and the lines are those of the request when it does not mix them.
THEOREM StdAnswersHolds == SettingsSpec => []StdAnswersRequest
<1>1. SettingsInv => StdAnswersRequest
  <2> SUFFICES ASSUME SettingsInv, asked # {},
                      Secam = "none" \/ asked \intersect SECAM = {}
               PROVE  LET used == tvnorms[norm].id IN
                      /\ SameBits(asked) # {} => used = asked
                      /\ \A signal \in asked : asked = {signal} => signal \in used
                      /\ asked \subseteq STD525 => used \subseteq STD525
                      /\ asked \subseteq STD625 => used \subseteq STD625
    BY DEF StdAnswersRequest
  <2> DEFINE used == tvnorms[norm].id
  <2>1. /\ norm \in DOMAIN tvnorms /\ used \intersect asked # {}
        /\ SameBits(asked) # {} => used = asked
    BY FindStdAnswers DEF SettingsInv, AnswerStands
  <2>2. \/ used \subseteq STD525 /\ used \intersect STD625 = {}
        \/ used \subseteq STD625 /\ used \intersect STD525 = {}
    BY <2>1, OneKind
  <2> HIDE DEF used
  <2>3. /\ \A signal \in asked : asked = {signal} => signal \in used
        /\ asked \subseteq STD525 => used \subseteq STD525
        /\ asked \subseteq STD625 => used \subseteq STD625
    BY <2>1, <2>2
  <2> QED
    BY <2>1, <2>3 DEF used
<1> QED
  BY <1>1, SettingsInvHolds, PTL

\* The answer to VIDIOC_S_CROP lies within the bounds of the standard.
THEOREM CropInBoundsHolds == SettingsSpec => []CropInBounds
  BY SettingsInvHolds, PTL DEF SettingsInv

\* What VIDIOC_S_FMT has accepted buffer_prepare does not refuse while the
\* standard stays, unless a tiny cropping rectangle left it too small.
THEOREM AcceptedHolds == SettingsSpec => []AcceptedIsPreparable
<1>1. SettingsInv => AcceptedIsPreparable
  BY AcceptedFits DEF AcceptedIsPreparable
<1> QED
  BY <1>1, SettingsInvHolds, PTL

\* The scaler is never asked to make a picture larger for a format that was
\* accepted under this standard.  The horizontal scale fits its register; the
\* vertical one does not for a field with a sixteenth of the lines or less,
\* and for every other it does.
THEOREM ScalerShrinksHolds == SettingsSpec => []ScalerShrinks
<1>1. SettingsInv => ScalerShrinks
  BY PreparableScales DEF ScalerShrinks
<1> QED
  BY <1>1, SettingsInvHolds, PTL

-----------------------------------------------------------------------------
(* The controls.                                                           *)

Registers ==
    [BRIGHT : 0..255, CONTRAST : 0..255, SAT_U : 0..255, SAT_V : 0..255,
     HUE : 0..255, MISC2 : {0, 224}, LOOP : {133, 165}]

\* The values a control takes.
CtrlRange(id) == video_ctrls[id].minimum..video_ctrls[id].maximum

\* The inductive invariant: a register that a control shares with other bits
\* has them unchanged, and every control reads as it was answered.
ControlsInv ==
    /\ reg \in Registers
    /\ reg.SAT_U = reg.SAT_V
    /\ answered \in [DOMAIN video_ctrls -> Int]
    /\ \A id \in DOMAIN video_ctrls : GCtrl(id) = answered[id]

LEMMA CtrlTable ==
    /\ DOMAIN video_ctrls = {"BRIGHTNESS", "CONTRAST", "SATURATION", "HUE",
                             "COLOR_KILLER", "CHROMA_AGC"}
    /\ CtrlRange("BRIGHTNESS") = -128..127
    /\ CtrlRange("HUE") = -128..127
    /\ CtrlRange("CONTRAST") = 0..255
    /\ CtrlRange("SATURATION") = 0..255
    /\ CtrlRange("COLOR_KILLER") = 0..1
    /\ CtrlRange("CHROMA_AGC") = 0..1
    /\ \A id \in DOMAIN video_ctrls :
          /\ video_ctrls[id].minimum \in Int /\ video_ctrls[id].maximum \in Int
          /\ video_ctrls[id].minimum <= video_ctrls[id].maximum
          /\ video_ctrls[id].default \in CtrlRange(id)
  BY SMTT(60) DEF video_ctrls, Ctrl, CtrlRange

\* tw68_s_ctrl_internal brings any value into the range of its control.
LEMMA ClampInRange ==
    ASSUME NEW id \in DOMAIN video_ctrls, NEW val \in Int
    PROVE  ClampCtrl(id, val) \in CtrlRange(id)
<1> DEFINE lo == video_ctrls[id].minimum
           hi == video_ctrls[id].maximum
<1>1. lo \in Int /\ hi \in Int /\ lo <= hi
  BY CtrlTable
<1>2. ClampCtrl(id, val) = CASE val < lo -> lo [] val > hi -> hi [] OTHER -> val
  BY DEF ClampCtrl
<1>3. CtrlRange(id) = lo..hi
  BY DEF CtrlRange
<1> HIDE DEF lo, hi
<1> QED
  BY <1>1, <1>2, <1>3

\* A register keeps a value of either sign.
LEMMA SignedByte ==
    ASSUME NEW val \in -128..127
    PROVE  Byte(val) \in 0..255 /\ Char(Byte(val)) = val
<1>1. CASE val >= 0
  <2>1. val % 256 = val
    BY <1>1
  <2> QED
    BY <1>1, <2>1 DEF Byte, Char
<1>2. CASE val < 0
  <2>1. val % 256 = val + 256
    BY <1>2
  <2> QED
    BY <1>2, <2>1 DEF Byte, Char
<1> QED
  BY <1>1, <1>2

LEMMA PlainByte ==
    ASSUME NEW val \in 0..255
    PROVE  Byte(val) = val
  BY DEF Byte

\* The bits of the killer and of the gain control.
LEMMA Parts ==
    /\ Part(0, 32, 8) = 0 /\ Part(224, 32, 8) = 224
    /\ Part(133, 16, 4) = 0 /\ Part(165, 16, 4) = 32
  BY DEF Part

LEMMA AndOrs ==
    /\ \A byte \in {0, 224}, bits \in {0, 224} : AndOr(byte, 32, 8, bits) = bits
    /\ \A byte \in {133, 165}, bits \in {0, 32} :
          AndOr(byte, 16, 4, bits) = 133 + bits
  BY Parts DEF AndOr

\* G_CTRL, control by control.
LEMMA Reads ==
    /\ GCtrl("BRIGHTNESS") = Char(reg.BRIGHT)
    /\ GCtrl("HUE") = Char(reg.HUE)
    /\ GCtrl("CONTRAST") = reg.CONTRAST
    /\ GCtrl("SATURATION") = reg.SAT_U
    /\ GCtrl("COLOR_KILLER") = IF Part(reg.MISC2, 32, 8) # 0 THEN 1 ELSE 0
    /\ GCtrl("CHROMA_AGC") = IF Part(reg.LOOP, 16, 4) # 0 THEN 1 ELSE 0
  BY DEF GCtrl

LEMMA ControlsInvInit == ControlsInit => ControlsInv
<1> SUFFICES ASSUME ControlsInit PROVE ControlsInv
  OBVIOUS
<1> USE DEF ControlsInit
<1>1. reg \in Registers /\ reg.SAT_U = reg.SAT_V
  BY DEF Registers
<1>2. answered \in [DOMAIN video_ctrls -> Int]
  BY CtrlTable DEF CtrlRange
<1>3. \A id \in DOMAIN video_ctrls : GCtrl(id) = answered[id]
  BY Parts, Reads, CtrlTable DEF Char, video_ctrls, Ctrl
<1> QED
  BY <1>1, <1>2, <1>3 DEF ControlsInv

\* The register file after S_CTRL reads the value for its control, and as
\* before for every other.
LEMMA SCtrlReads ==
    ASSUME ControlsInv, NEW id \in DOMAIN video_ctrls,
           NEW val \in CtrlRange(id), reg' = SCtrlValue(id, val)
    PROVE  /\ reg' \in Registers /\ reg'.SAT_U = reg'.SAT_V
           /\ \A other \in DOMAIN video_ctrls :
                 GCtrl(other)' = IF other = id THEN val ELSE GCtrl(other)
<1>1. reg \in Registers /\ reg.SAT_U = reg.SAT_V
  BY DEF ControlsInv
<1>2. CASE id = "BRIGHTNESS"
  <2>0. val \in -128..127
    BY <1>2, CtrlTable
  <2>1. Byte(val) \in 0..255 /\ Char(Byte(val)) = val
    BY <2>0, SignedByte
  <2>2. reg' = [reg EXCEPT !.BRIGHT = Byte(val)]
    BY <1>2 DEF SCtrlValue
  <2> QED
    BY <1>1, <1>2, <2>1, <2>2, CtrlTable, Reads DEF Registers, GCtrl
<1>3. CASE id = "HUE"
  <2>0. val \in -128..127
    BY <1>3, CtrlTable
  <2>1. Byte(val) \in 0..255 /\ Char(Byte(val)) = val
    BY <2>0, SignedByte
  <2>2. reg' = [reg EXCEPT !.HUE = Byte(val)]
    BY <1>3 DEF SCtrlValue
  <2> QED
    BY <1>1, <1>3, <2>1, <2>2, CtrlTable, Reads DEF Registers, GCtrl
<1>4. CASE id = "CONTRAST"
  <2>1. Byte(val) = val /\ val \in 0..255
    BY <1>4, CtrlTable, PlainByte
  <2>2. reg' = [reg EXCEPT !.CONTRAST = val]
    BY <1>4, <2>1 DEF SCtrlValue
  <2> QED
    BY <1>1, <1>4, <2>1, <2>2, CtrlTable, Reads DEF Registers, GCtrl
<1>5. CASE id = "SATURATION"
  <2>1. Byte(val) = val /\ val \in 0..255
    BY <1>5, CtrlTable, PlainByte
  <2>2. reg' = [reg EXCEPT !.SAT_U = val, !.SAT_V = val]
    BY <1>5, <2>1 DEF SCtrlValue
  <2> DEFINE half == [reg EXCEPT !.SAT_U = val]
  <2>3. half \in Registers
    BY <1>1, <2>1 DEF Registers
  <2>4. reg' = [half EXCEPT !.SAT_V = val]
    BY <2>2
  <2>5. reg' \in Registers
    <3> HIDE DEF half
    <3> QED
      BY <2>1, <2>3, <2>4 DEF Registers
  <2>6. reg'.SAT_U = val /\ reg'.SAT_V = val
    BY <1>1, <2>2 DEF Registers
  <2>7. /\ reg'.BRIGHT = reg.BRIGHT /\ reg'.HUE = reg.HUE
        /\ reg'.CONTRAST = reg.CONTRAST
        /\ reg'.MISC2 = reg.MISC2 /\ reg'.LOOP = reg.LOOP
    BY <1>1, <2>2 DEF Registers
  <2> QED
    BY <1>5, <2>5, <2>6, <2>7, CtrlTable DEF GCtrl
<1>6. CASE id = "COLOR_KILLER"
  <2> DEFINE bits == IF val # 0 THEN 224 ELSE 0
  <2>1. val \in {0, 1}
    BY <1>6, CtrlTable
  <2>2. reg' = [reg EXCEPT !.MISC2 = AndOr(@, 32, 8, bits)]
    BY <1>6 DEF SCtrlValue
  <2>3. AndOr(reg.MISC2, 32, 8, bits) = bits
    BY <1>1, AndOrs DEF Registers
  <2>4. reg' = [reg EXCEPT !.MISC2 = bits]
    BY <2>2, <2>3
  <2> QED
    BY <1>1, <1>6, <2>1, <2>4, CtrlTable, Parts, Reads DEF Registers, GCtrl
<1>7. CASE id = "CHROMA_AGC"
  <2> DEFINE bits == IF val # 0 THEN 32 ELSE 0
  <2>1. val \in {0, 1}
    BY <1>7, CtrlTable
  <2>2. reg' = [reg EXCEPT !.LOOP = AndOr(@, 16, 4, bits)]
    BY <1>7 DEF SCtrlValue
  <2>3. AndOr(reg.LOOP, 16, 4, bits) = 133 + bits
    BY <1>1, AndOrs DEF Registers
  <2>4. reg' = [reg EXCEPT !.LOOP = 133 + bits]
    BY <2>2, <2>3
  <2> QED
    BY <1>1, <1>7, <2>1, <2>4, CtrlTable, Parts, Reads DEF Registers, GCtrl
<1> QED
  BY <1>2, <1>3, <1>4, <1>5, <1>6, <1>7, CtrlTable

LEMMA ControlsInvStep == ControlsInv /\ [ControlsNext]_controls => ControlsInv'
<1> SUFFICES ASSUME ControlsInv, [ControlsNext]_controls
             PROVE  ControlsInv'
  OBVIOUS
<1>1. CASE UNCHANGED controls
  BY <1>1 DEF ControlsInv, controls, GCtrl
<1>2. ASSUME NEW id \in DOMAIN video_ctrls, NEW val \in Values, SCtrl(id, val)
      PROVE  ControlsInv'
  <2> DEFINE used == ClampCtrl(id, val)
  <2>1. used \in CtrlRange(id)
    BY ControlsAssumption, ClampInRange
  <2>2. used \in Int
    BY <2>1, CtrlTable DEF CtrlRange
  <2>3. reg' = SCtrlValue(id, used) /\ answered' = [answered EXCEPT ![id] = used]
    BY <1>2 DEF SCtrl
  <2> HIDE DEF used
  <2>4. /\ reg' \in Registers /\ reg'.SAT_U = reg'.SAT_V
        /\ \A other \in DOMAIN video_ctrls :
              GCtrl(other)' = IF other = id THEN used ELSE GCtrl(other)
    BY <2>1, <2>3, SCtrlReads
  <2>5. answered \in [DOMAIN video_ctrls -> Int]
        /\ \A other \in DOMAIN video_ctrls : GCtrl(other) = answered[other]
    BY DEF ControlsInv
  <2>6. answered' \in [DOMAIN video_ctrls -> Int]
    BY <2>2, <2>3, <2>5
  <2>7. \A other \in DOMAIN video_ctrls : GCtrl(other)' = answered'[other]
    BY <2>3, <2>4, <2>5
  <2> QED
    BY <2>4, <2>6, <2>7 DEF ControlsInv
<1> QED
  BY <1>1, <1>2 DEF ControlsNext

\* Every control reads back the value it was answered, clamped and of either
\* sign, whatever has been set in between, and for every request; and the
\* bits beside its own stay.
THEOREM ControlReadsBackHolds == ControlsSpec => []ControlReadsBack
<1>1. ControlsInit => ControlsInv
  BY ControlsInvInit
<1>2. ControlsInv /\ [ControlsNext]_controls => ControlsInv'
  BY ControlsInvStep
<1>3. ControlsInv => ControlReadsBack
  BY Parts DEF ControlsInv, Registers, ControlReadsBack
<1> QED
  BY <1>1, <1>2, <1>3, PTL DEF ControlsSpec
=============================================================================

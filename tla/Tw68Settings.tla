---------------------------- MODULE Tw68Settings ----------------------------
(***************************************************************************)
(* The settings that decide what a captured frame looks like               *)
(* (tw68-video.c): the television standard, the cropping rectangle, the    *)
(* format of a file handle, and what buffer_prepare and tw68_set_scale     *)
(* make of them.  Ioctls run one at a time.                                *)
(***************************************************************************)
EXTENDS Integers, Sequences

CONSTANTS
    StdIds,     \* the requests for a standard, sets of V4L2_STD_* bits
    Secam,      \* the secam parameter: "none" or the name of a standard
    Rects,      \* the requests for cropping, [left, width, top, height]
    Widths, Heights     \* the sizes in requests for a format

ASSUME SettingsAssumption ==
    /\ \A r \in Rects : r \in [left : Int, width : Int, top : Int, height : Int]
    /\ Widths \subseteq Nat /\ Heights \subseteq Nat

VARIABLES
    norm,       \* dev->tvnorm, an index into tvnorms
    crop,       \* dev->crop_current
    fmt,        \* fh->width, fh->height, fh->cap.field
    busy,       \* somebody holds RESOURCE_VIDEO
    asked,      \* history: the last request for a standard that was met
    fresh,      \* history: fmt was accepted under the present standard
    cropped     \* history: crop is the answer to a VIDIOC_S_CROP

settings == <<norm, crop, fmt, busy, asked, fresh, cropped>>

-----------------------------------------------------------------------------
(* The standards.                                                          *)

PALBG == {"B", "B1", "G"}
PALDK == {"D", "D1", "K"}
PAL == PALBG \union PALDK \union {"H", "I"}
NTSC == {"M", "M_JP", "M_KR"}
SECAMDK == {"SD", "SK", "SK1"}
SECAM == SECAMDK \union {"SB", "SG", "SH", "SL", "SLC"}
STD525 == NTSC \union {"PAL_M", "PAL_60", "NTSC_443"}
STD625 == PAL \union {"PAL_N", "PAL_Nc"} \union SECAM

Lines625 == [h_start |-> 0, h_stop |-> 719, v_delay |-> 24,
             v_start |-> 24, v_stop |-> 311]
Lines525 == [h_start |-> 0, h_stop |-> 719, v_delay |-> 22,
             v_start |-> 22, v_stop |-> 262]
Lines60 == [h_start |-> 0, h_stop |-> 719, v_delay |-> 26,
            v_start |-> 23, v_stop |-> 262]

Norm(id, format, lines) == [id |-> id, format |-> format, lines |-> lines]

tvnorms ==
    << Norm(PALBG, 1, Lines625), Norm({"I"}, 1, Lines625),
       Norm(PALDK, 1, Lines625), Norm(PAL, 1, Lines625),
       Norm(NTSC, 0, Lines525),
       Norm(SECAMDK, 2, Lines625), Norm({"SL"}, 2, Lines625),
       Norm({"SLC"}, 2, Lines625), Norm(SECAM, 2, Lines625),
       Norm({"PAL_M"}, 4, Lines525), Norm({"PAL_Nc"}, 5, Lines625),
       Norm({"PAL_60"}, 6, Lines60),
       Norm(STD525, 0, Lines525), Norm(STD625, 1, Lines625) >>

\* crop_bounds and crop_defrect, which set_tvnorm derives from a standard.
\* The default may be a line taller than the bounds.
CropBounds(n) ==
    LET l == tvnorms[n].lines
        total == IF tvnorms[n].id \intersect STD525 # {} THEN 524 ELSE 624
    IN [left |-> l.h_start, width |-> l.h_stop - l.h_start + 1,
        top |-> l.v_start, height |-> (total \div 2) - l.v_start]

CropDefault(n) ==
    LET l == tvnorms[n].lines
    IN [CropBounds(n) EXCEPT !.height = l.v_stop - l.v_start + 1]

\* The entries with the same bits as id, and those that share one with it.
SameBits(id) == {i \in DOMAIN tvnorms : tvnorms[i].id = id}
SharedBit(id) == {i \in DOMAIN tvnorms : tvnorms[i].id \intersect id # {}}

\* The first of some entries, in the order of the table.
FirstNorm(entries) == CHOOSE i \in entries : \A j \in entries : i <= j

\* A mistake: the table is searched for a shared bit at once.
FindStdShared(id) == FirstNorm(SharedBit(id))

\* The search of tw68_s_std_internal: the same bits, or else a shared one.
FindStd(id) == FirstNorm(IF SameBits(id) # {} THEN SameBits(id) ELSE SharedBit(id))

\* The secam parameter decides what is used for a request with SECAM in it.
Fixup == CASE Secam = "L" -> {"SL"} [] Secam = "LC" -> {"SLC"}
           [] Secam = "DK" -> SECAMDK [] OTHER -> SECAM

ChosenStd(id) ==
    IF id \intersect SECAM # {} /\ Secam # "none"
    THEN FirstNorm(SameBits(Fixup)) ELSE FindStd(id)

-----------------------------------------------------------------------------
(* Formats, cropping and scaling.                                          *)

Minimum(a, b) == IF a < b THEN a ELSE b
Clamp(x, low, high) == IF x < low THEN low ELSE IF x > high THEN high ELSE x
AtMost(x, high) == IF x > high THEN high ELSE x

\* V4L2_FIELD_HAS_BOTH, for the fields a format can have.
HasBoth(field) == field = "INTERLACED"

\* A mistake: only the cropping rectangle limits the height.
TryFmtTall(w, h, field) ==
    [width |-> Clamp(w, 48, CropBounds(norm).width),
     height |-> Clamp(h, 32, 8 * crop.height),
     field |-> IF field = "ANY" THEN "INTERLACED" ELSE field]

\* tw68_try_fmt_vid_cap, for a field it accepts.
TryFmt(w, h, field) ==
    LET bounds == CropBounds(norm)
        maxw == Minimum(crop.width * 4, bounds.width)
        maxf == Minimum(crop.height * 4, bounds.height)
        chosen == IF field # "ANY" THEN field
                  ELSE IF h > (maxf \div 2) THEN "INTERLACED" ELSE "BOTTOM"
        maxh == IF HasBoth(chosen) THEN 2 * maxf ELSE maxf
        width == AtMost(IF w < 48 THEN 48 ELSE w, maxw)
    IN [width |-> width - (width % 4),
        height |-> AtMost(IF h < 32 THEN 32 ELSE h, maxh), field |-> chosen]

\* A mistake: the rectangle may stick out of the bounds.
CropToUnclamped(b, r) == [r EXCEPT !.top = Clamp(@, b.top, b.top + b.height),
                                   !.left = Clamp(@, b.left, b.left + b.width)]

\* What tw68_s_crop makes of a request r within the bounds b.
CropTo(b, r) ==
    LET top == Clamp(r.top, b.top, b.top + b.height)
        left == Clamp(r.left, b.left, b.left + b.width)
    IN [left |-> left, width |-> AtMost(r.width, b.left - left + b.width),
        top |-> top, height |-> AtMost(r.height, b.top - top + b.height)]

\* The checks of buffer_prepare on the format of the handle.
Preparable(f) ==
    LET l == tvnorms[norm].lines
    IN /\ f.width >= 48 /\ f.width <= l.h_stop - l.h_start + 1
       /\ f.height >= 16 /\ f.height <= 2 * (l.v_stop - l.v_start + 1)

\* A mistake: the lines of a frame are not halved.
ScaleLinesWhole(f) == f.height

\* The lines of one field, which is what the scaler produces.
ScaleLines(f) == IF HasBoth(f.field) THEN f.height \div 2 ELSE f.height

\* The scales tw68_set_scale computes, and what it leaves of them in the
\* registers, which have 12 bits.
HScale(f) == (CropBounds(norm).width * 256) \div f.width
VScale(f) == (CropBounds(norm).height * 256) \div ScaleLines(f)
SetScale(f) == [hscale |-> HScale(f) % 4096, vscale |-> VScale(f) % 4096]

-----------------------------------------------------------------------------
\* tw68_video_init2 and hw_init1; the format is that of video_open.
SettingsInit ==
    /\ norm = 1
    /\ crop = CropDefault(1)
    /\ fmt = [width |-> 720, height |-> 576, field |-> "INTERLACED"]
    /\ busy = FALSE
    /\ asked = {} /\ fresh = TRUE /\ cropped = FALSE

\* VIDIOC_S_STD, at any time.  set_tvnorm stores the new standard before it
\* compares it with the old one, so that the call which would write it to the
\* decoder is never made.
SStd(id) ==
    /\ SharedBit(id) # {}
    /\ norm' = ChosenStd(id)
    /\ crop' = CropDefault(norm')
    /\ asked' = id /\ cropped' = FALSE
    /\ fresh' = (fresh /\ norm' = norm)
    /\ UNCHANGED <<fmt, busy>>

\* VIDIOC_S_CROP, while nobody streams.
SCrop(r) ==
    /\ ~busy /\ r.height >= 0 /\ r.width >= 0
    /\ crop' = CropTo(CropBounds(norm), r) /\ cropped' = TRUE
    /\ UNCHANGED <<norm, fmt, busy, asked, fresh>>

\* VIDIOC_S_FMT, at any time.
SFmt(w, h, field) ==
    /\ fmt' = TryFmt(w, h, field)
    /\ fresh' = TRUE
    /\ UNCHANGED <<norm, crop, busy, asked, cropped>>

\* VIDIOC_STREAMON and VIDIOC_STREAMOFF.
Stream ==
    /\ busy' = ~busy
    /\ UNCHANGED <<norm, crop, fmt, asked, fresh, cropped>>

SettingsNext ==
    \/ \E id \in StdIds : SStd(id)
    \/ \E r \in Rects : SCrop(r)
    \/ \E w \in Widths, h \in Heights,
          field \in {"ANY", "TOP", "BOTTOM", "INTERLACED"} : SFmt(w, h, field)
    \/ Stream

SettingsSpec == SettingsInit /\ [][SettingsNext]_settings

-----------------------------------------------------------------------------
(* Properties.                                                             *)

Formats == [width : 0..720, height : 0..576,
            field : {"ANY", "TOP", "BOTTOM", "INTERLACED"}]

\* Every variable has its type: in particular no format is larger than the
\* largest frame there is.
SettingsTypeOK ==
    /\ norm \in DOMAIN tvnorms
    /\ crop \in [left : 0..720, width : 0..720, top : 0..312, height : 0..288]
    /\ fmt \in Formats
    /\ busy \in BOOLEAN /\ fresh \in BOOLEAN /\ cropped \in BOOLEAN
    /\ asked \in StdIds \union {{}}

\* What a request for a standard may count on, unless the secam parameter
\* decides: when the table has the very set of signals, that is what is used;
\* a single signal is in the standard used; and a request for 525 lines, or
\* for 625, gets no standard of the other kind, on which the frame depends.
\* It may not count on more.  The comments at the table and at the second
\* search have it find an entry that contains the request; it finds one that
\* shares a signal with it, and PAL-BG is the answer to PAL-BG and PAL-I.
StdAnswersRequest ==
    asked # {} /\ (Secam = "none" \/ asked \intersect SECAM = {}) =>
        LET used == tvnorms[norm].id IN
        /\ SameBits(asked) # {} => used = asked
        /\ \A signal \in asked : asked = {signal} => signal \in used
        /\ asked \subseteq STD525 => used \subseteq STD525
        /\ asked \subseteq STD625 => used \subseteq STD625

\* The answer to VIDIOC_S_CROP lies within the bounds, whatever was asked.
CropInBounds ==
    LET b == CropBounds(norm) IN
    cropped => /\ crop.left >= b.left /\ crop.left + crop.width <= b.left + b.width
               /\ crop.top >= b.top /\ crop.top + crop.height <= b.top + b.height

\* What VIDIOC_S_FMT has accepted buffer_prepare does not refuse as long as
\* the standard stays, unless a tiny cropping rectangle left it too small:
\* the two functions derive the largest frame from different lines.
AcceptedIsPreparable ==
    fresh /\ fmt.width >= 48 /\ fmt.height >= 16 => Preparable(fmt)

\* The scaler, which can only make a picture smaller, is never asked to make
\* it larger for a buffer whose format was accepted under this standard.  The
\* horizontal scale always reaches its register whole; the vertical one does
\* so exactly when the field has more than a sixteenth of the lines.  S_FMT
\* accepts less, 16 lines out of 288: the register then holds a scale that
\* enlarges.
ScalerShrinks ==
    fresh /\ Preparable(fmt) =>
        /\ HScale(fmt) >= 256 /\ VScale(fmt) >= 256
        /\ SetScale(fmt).hscale = HScale(fmt)
        /\ SetScale(fmt).vscale = VScale(fmt)
              <=> ScaleLines(fmt) * 16 > CropBounds(norm).height
=============================================================================

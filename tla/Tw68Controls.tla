---------------------------- MODULE Tw68Controls ----------------------------
(***************************************************************************)
(* The picture controls (tw68-video.c): VIDIOC_S_CTRL clamps a value and   *)
(* stores it in a register of the decoder, VIDIOC_G_CTRL reads it back.    *)
(* Every register is a byte, and some belong to a control only in part.    *)
(* Left out are the mute control, which stores nothing and reads 0, and    *)
(* the volume, which is refused.                                           *)
(***************************************************************************)
EXTENDS Integers

CONSTANT Values     \* the values in requests

ASSUME ControlsAssumption == Values \subseteq Int

VARIABLES
    reg,        \* the registers the controls are kept in
    answered    \* history: the value each control was last set to, as S_CTRL
                \* gave it back, or its default

controls == <<reg, answered>>

-----------------------------------------------------------------------------
Ctrl(minimum, maximum, default) ==
    [minimum |-> minimum, maximum |-> maximum, default |-> default]

video_ctrls ==
    [BRIGHTNESS |-> Ctrl(-128, 127, 20), CONTRAST |-> Ctrl(0, 255, 100),
     SATURATION |-> Ctrl(0, 255, 128), HUE |-> Ctrl(-128, 127, 0),
     COLOR_KILLER |-> Ctrl(0, 1, 1), CHROMA_AGC |-> Ctrl(0, 1, 1)]

\* A byte register, read as it is, or as a signed char.
Byte(val) == val % 256
Char(byte) == IF byte > 127 THEN byte - 256 ELSE byte

\* The bits of a byte from the bit of value low on, as many as size tells;
\* and tw_andorb, which replaces them.
Part(byte, low, size) == ((byte \div low) % size) * low
AndOr(byte, low, size, bits) == byte - Part(byte, low, size) + bits

\* A mistake: the minimum is not looked at.
ClampBelowOnly(id, val) ==
    IF val > video_ctrls[id].maximum THEN video_ctrls[id].maximum ELSE val

\* What tw68_s_ctrl_internal makes of the value of a request.
ClampCtrl(id, val) ==
    CASE val < video_ctrls[id].minimum -> video_ctrls[id].minimum
      [] val > video_ctrls[id].maximum -> video_ctrls[id].maximum
      [] OTHER -> val

\* tw68_s_ctrl_value.
SCtrlValue(id, val) ==
    CASE id = "BRIGHTNESS" -> [reg EXCEPT !.BRIGHT = Byte(val)]
      [] id = "HUE" -> [reg EXCEPT !.HUE = Byte(val)]
      [] id = "CONTRAST" -> [reg EXCEPT !.CONTRAST = Byte(val)]
      [] id = "SATURATION" -> [reg EXCEPT !.SAT_U = Byte(val), !.SAT_V = Byte(val)]
      [] id = "COLOR_KILLER" ->
            [reg EXCEPT !.MISC2 = AndOr(@, 32, 8, IF val # 0 THEN 224 ELSE 0)]
      [] id = "CHROMA_AGC" ->
            [reg EXCEPT !.LOOP = AndOr(@, 16, 4, IF val # 0 THEN 32 ELSE 0)]

\* tw68_g_ctrl_internal.
GCtrl(id) ==
    CASE id = "BRIGHTNESS" -> Char(reg.BRIGHT)
      [] id = "HUE" -> Char(reg.HUE)
      [] id = "CONTRAST" -> reg.CONTRAST
      [] id = "SATURATION" -> reg.SAT_U
      [] id = "COLOR_KILLER" -> IF Part(reg.MISC2, 32, 8) # 0 THEN 1 ELSE 0
      [] id = "CHROMA_AGC" -> IF Part(reg.LOOP, 16, 4) # 0 THEN 1 ELSE 0

-----------------------------------------------------------------------------
\* tw68_hw_init1, and the defaults tw68_video_init1 sets.
ControlsInit ==
    /\ reg = [BRIGHT |-> 20, CONTRAST |-> 100, SAT_U |-> 128, SAT_V |-> 128,
              HUE |-> 0, MISC2 |-> 224, LOOP |-> 165]
    /\ answered = [id \in DOMAIN video_ctrls |-> video_ctrls[id].default]

\* VIDIOC_S_CTRL, which tells the caller the value it has used.
SCtrl(id, val) ==
    /\ reg' = SCtrlValue(id, ClampCtrl(id, val))
    /\ answered' = [answered EXCEPT ![id] = ClampCtrl(id, val)]

ControlsNext == \E id \in DOMAIN video_ctrls, val \in Values : SCtrl(id, val)

ControlsSpec == ControlsInit /\ [][ControlsNext]_controls

-----------------------------------------------------------------------------
(* Properties.                                                             *)

\* VIDIOC_G_CTRL gives the value VIDIOC_S_CTRL last answered for the control,
\* negative ones too, whatever other controls have been set since, and before
\* that the default QUERYCTRL announces; and no control touches the bits of
\* its register that are not its own.
ControlReadsBack ==
    /\ \A id \in DOMAIN video_ctrls : GCtrl(id) = answered[id]
    /\ reg.SAT_U = reg.SAT_V /\ reg.MISC2 % 32 = 0
    /\ reg.LOOP - Part(reg.LOOP, 16, 4) = 133
=============================================================================

--------------------------- MODULE MCTw68Settings ---------------------------
(***************************************************************************)
(* Tw68Settings and Tw68Controls with a few requests of every kind.  The   *)
(* two have no state in common: a behaviour uses one or the other.         *)
(***************************************************************************)
EXTENDS Tw68Settings, Tw68Controls

MCStdIds == {{"B"}, PAL, PALBG \union {"I"}, NTSC, {"M_JP"}, {"PAL_60"},
             SECAM, STD525, STD625}
Rect(l, w, t, h) == [left |-> l, width |-> w, top |-> t, height |-> h]
MCRects == {Rect(-8, 900, 0, 500), Rect(700, 300, 200, 300),
            Rect(100, 8, 400, 4), Rect(900, 12, 100, 12), Rect(0, -8, 0, 8)}
MCWidths == {16, 2000}
MCHeights == {8, 36, 300, 2000}
MCValues == {-1000, -128, -1, 0, 1, 130, 1000}

MCInit == SettingsInit /\ ControlsInit
MCNext ==
    \/ ControlsInit /\ SettingsNext /\ UNCHANGED controls
    \/ SettingsInit /\ ControlsNext /\ UNCHANGED settings
MCSpec == MCInit /\ [][MCNext]_<<settings, controls>>
=============================================================================

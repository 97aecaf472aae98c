----------------------------- MODULE MCTw68Risc -----------------------------
(* Tw68Risc on small pages: lines of half a page and more, and frames of up  *)
(* to nine lines, which with the longest lines are nine pages.               *)
EXTENDS Tw68Risc

MCBpls == {3, 5, 6, 8}
MCHeights == 2..9
MCOrders == {"TOP", "BOTTOM", "INTERLACED"}
=============================================================================

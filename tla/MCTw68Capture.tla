--------------------------- MODULE MCTw68Capture ---------------------------
(* Model values for Tw68Capture: one handle streams with two buffers, the  *)
(* other, if it is of the video node too, with one.                        *)
EXTENDS Tw68Capture, TLC

CONSTANTS h1, h2

MCMapped == {<<h1, 1>>, <<h1, 2>>, <<h2, 1>>}
=============================================================================

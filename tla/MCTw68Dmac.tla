----------------------------- MODULE MCTw68Dmac -----------------------------
(* Model values for Tw68Dmac. *)
EXTENDS Tw68Dmac
=============================================================================

---------------------------- MODULE MCTw68Queue ----------------------------
(* Model values for Tw68Queue. *)
EXTENDS Tw68Queue, TLC

Symmetry == Permutations(Bufs) \union Permutations(Dims)
=============================================================================

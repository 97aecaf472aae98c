--------------------------- MODULE MCTw68Restart ---------------------------
(* Model values for Tw68Restart. *)
EXTENDS Tw68Restart, TLC

Symmetry == Permutations(Bufs) \union Permutations(Dims)
=============================================================================

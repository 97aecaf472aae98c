---------------------------- MODULE MCTw68Inputs ----------------------------
(* Model values for Tw68Inputs. *)
EXTENDS Tw68Inputs, TLC

Symmetry == Permutations(Bufs) \union Permutations(Dims)
=============================================================================

---------------------------- MODULE MCTw68Device ----------------------------
(* Model values for Tw68Device. *)
EXTENDS Tw68Device, TLC

Symmetry == Permutations(Devs) \union Permutations(Handles)

\* The bound of the run: of the boards, applications start one at most.
OneStarted == Cardinality({d \in Devs : irqmask[d]}) <= 1
=============================================================================

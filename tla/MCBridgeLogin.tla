--------------------------- MODULE MCBridgeLogin ---------------------------
(* BridgeLogin for model checking. *)
EXTENDS BridgeLogin, TLC

Symmetry == Permutations(Handler) \cup Permutations(DID)

=============================================================================

--------------------------- MODULE MCCanvasAgent ---------------------------
(* Symmetry for the model checker. *)
EXTENDS CanvasAgent, TLC

Symmetry == Permutations(Clients) \union Permutations(Calls)
=============================================================================

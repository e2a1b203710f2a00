--------------------------- MODULE MCTaskLifecycle ---------------------------
(***************************************************************************)
(* Instances of TaskLifecycle for TLC.                                     *)
(***************************************************************************)
EXTENDS TaskLifecycle, TLC

\* The processes are interchangeable; used by the runs without liveness.
Symmetry == Permutations(Proc)

=============================================================================

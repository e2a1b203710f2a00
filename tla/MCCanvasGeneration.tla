------------------------ MODULE MCCanvasGeneration ------------------------
(* One node tried up to three times on a canvas with other generations, or *)
(* a batch of two nodes.                                                   *)
EXTENDS CanvasGeneration

MCTwoNodes == {1, 2}
MCTasks == 1 .. 3
=============================================================================

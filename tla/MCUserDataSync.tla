-------------------------- MODULE MCUserDataSync --------------------------
(* Two accounts on one browser; a canvas and an asset of the first. *)
EXTENDS UserDataSync

CONSTANTS u1, u2, canvas, asset

MCUsers == {u1, u2}
MCItems == {canvas, asset}
MCOwner == [i \in MCItems |-> u1]
=============================================================================

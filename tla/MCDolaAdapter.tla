--------------------------- MODULE MCDolaAdapter ---------------------------
(* Small instances of DolaAdapter. *)
EXTENDS DolaAdapter, TLC

CONSTANTS t1, t2, a1, a2

OwnEndpoints  == [a \in Accounts |-> a]
Bound         == {TRUE}
Unbound       == {FALSE}
AllPatches    == {"disable", "enable", "healthy", "needs_login", "rebind"}
NoPatches     == {}
Either        == {TRUE, FALSE}
Symmetry      == Permutations(Tasks) \union Permutations(Accounts)
=============================================================================

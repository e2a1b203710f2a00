--------------------------- MODULE MCCodexTurns ---------------------------
(* Two canvases, two requests and enough threads for two turns that each *)
(* need a new one twice.                                                   *)
EXTENDS CodexTurns

MCRequests == 1 .. 2
MCProcs == 1 .. 2
MCThreads == 1 .. 5
=============================================================================

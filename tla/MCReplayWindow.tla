--------------------------- MODULE MCReplayWindow ---------------------------
(* ReplayWindow on small instances: symmetry of its ids and handlers.        *)
EXTENDS ReplayWindow, TLC

Symmetric == Permutations(Id) \cup Permutations(Handler)
=============================================================================

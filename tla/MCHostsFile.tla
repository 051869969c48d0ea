---------------------------- MODULE MCHostsFile -----------------------------
(* HostsFile for TLC: writers and hosts may be exchanged for one another.   *)
EXTENDS HostsFile, TLC

Symmetry == Permutations(Proc) \cup Permutations(Host)
=============================================================================

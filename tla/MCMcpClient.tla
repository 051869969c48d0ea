---------------------------- MODULE MCMcpClient ----------------------------
(* McpClient for TLC: one command, by either client, and one other tool.   *)
EXTENDS McpClient, TLC

CONSTANTS k1, k2

TwoCalls == [k \in {k1, k2} |->
                IF k = k1 THEN {"execute", "request"} ELSE {"start", "stop", "status"}]

Symmetry == Permutations(Server)
=============================================================================

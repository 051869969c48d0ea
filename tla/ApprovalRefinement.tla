------------------------- MODULE ApprovalRefinement -------------------------
(***************************************************************************)
(* The daemon implements ApprovalContract.  What the human said about a    *)
(* request, and whether it ran, is read off the connections of the current *)
(* daemon that carried it; the daemon's own memory of ids does not appear, *)
(* so the mapping is a function only if that memory does its work.         *)
(***************************************************************************)
EXTENDS ApprovalDaemon

\* The connections of the current daemon that carry request r.
Deliveries(r) == {c \in Conn : born[c] = life /\ req[c] = r}

\* The keys read at a prompt about r: at most one, if the daemon is right.
Keys(r) == {key[c] : c \in Deliveries(r)} \ {"unasked"}

\* What they say: the key, if there is one.
Said(keys) == IF keys = {} THEN "none" ELSE CHOOSE k \in keys : TRUE

Verdicts == [r \in Requests |-> Said(Keys(r))]

Executed == {r \in Requests : \E c \in Deliveries(r) : Ran(c)}

\* The responses that say something about the command, or end the session.
Telling == {"ok", "denied", "timeout"}

Told == {<<req[c], outcome[c]>> :
            c \in {d \in Conn : born[d] = life /\ outcome[d] \in Telling}}

Contract == INSTANCE ApprovalContract WITH
    Policy  <- Config,
    Verdict <- Key,
    open    <- phase # "down",
    policy  <- config[life],
    consent <- grant,
    verdict <- Verdicts,
    ran     <- Executed,
    told    <- Told

\* Every behaviour of the daemon, its restarts included, is one the contract
\* allows.
ImplementsContract == Contract!Spec
=============================================================================

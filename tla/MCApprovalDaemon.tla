-------------------------- MODULE MCApprovalDaemon --------------------------
(* ApprovalDaemon on small instances: the requests of each run.              *)
EXTENDS ApprovalRefinement, TLC

CONSTANTS i1, i2, i3, i4

Ordinary(i, a, t) ==
    [id |-> i, action |-> a, privileged |-> FALSE, stages |-> 1,
     admissible |-> TRUE, time |-> t]

Exec(i, priv, n, t) ==
    [Ordinary(i, "exec", t) EXCEPT !.privileged = priv, !.stages = n]

\* Who holds the terminal: a root command and two unprivileged ones, so that
\* one may run on the session consent given for the other; no time passes.
TerminalRequests ==
    {Exec(i1, TRUE, 1, 0), Exec(i2, FALSE, 1, 0), Exec(i3, FALSE, 1, 0)}

\* Sessions: a root pipeline and two unprivileged commands, over a restart; no
\* time passes.
SessionRequests ==
    {Exec(i1, TRUE, 2, 0), Exec(i2, FALSE, 1, 0), Exec(i3, FALSE, 1, 0)}

\* Retries: a root command and an unprivileged one whose client's clock leads,
\* each delivered once or again, at once or late, until they are forgotten.
RetryRequests ==
    {Exec(i1, TRUE, 1, 0), Exec(i2, FALSE, 1, 1)}

\* Shutdown and progress: a stop, a ping, a root command and an unprivileged
\* one; no time passes.
ShutdownRequests ==
    {Exec(i1, TRUE, 1, 0), Exec(i2, FALSE, 1, 0), Ordinary(i3, "ping", 0),
     Ordinary(i4, "stop", 0)}

\* One stop, captured by whoever saw it, delivered to the daemon it stopped and
\* to the next.
StopRequests == {Ordinary(i4, "stop", 0)}

Symmetric == Permutations(Conn)

\* TerminalRequests and SessionRequests each hold two requests that differ in
\* nothing but their ids.
AlsoSymmetric == Symmetric \cup Permutations({i2, i3})
=============================================================================

----------------------------- MODULE SocketPath -----------------------------
(***************************************************************************)
(* The life of one socket path: the processes that bind it, replace it and *)
(* remove it.  On the daemon's own machine these are daemons               *)
(* (bind_listener, src/server.rs, and main, src/bin/sudo-proxy.rs); on the *)
(* client's side of a remote host they are `sudo-proxy --host` processes   *)
(* that become ssh (run_remote) and forward to the daemon over there.      *)
(*                                                                         *)
(* A path names the listener that bound it, or none.  Removing a path and  *)
(* binding it are single system calls, but every decision to remove one    *)
(* rests on an earlier look at it, or on none.  `look` is whose path a     *)
(* daemon last tried to connect to; `victims` are the live listeners that  *)
(* lost their path to a process that never looked, or looked before it was *)
(* theirs.                                                                 *)
(***************************************************************************)
CONSTANTS
    Server,         \* processes that may come to listen on the path
    Nobody,         \* no listener: the path does not exist
    Stale           \* a listener of another day, whose process crashed

ASSUME ServerConstants == {Nobody, Stale} \cap Server = {}

VARIABLES
    kind,           \* "local": daemons; "tunnel": ssh forwards to a remote host
    path,           \* who bound the path
    server,         \* where each process is
    far,            \* tunnel: the daemon this ssh has started is listening
    look,           \* whose path a daemon last tried to connect to
    victims

pathVars == <<kind, path, server, far, look, victims>>

\* Where the process is in the code:
\*   "off"                 not started
\*   "bind"                before the first UnixListener::bind
\*   "probe", "unlink"     the path is in use: connect, then remove_file
\*   "rebind"              before the second bind
\*   "chmod"               bound and listening, before set_permissions
\*   "serving"             in the accept loop; or ssh, its forward bound
\*   "failed", "returned"  run has returned; main removes the path
\*   "refused"             run has returned AddrInUse; main leaves it
\*   "clear", "exec"       run_remote: before its remove_file, before ssh binds
\*   "dead"
Places == {"off", "bind", "probe", "unlink", "rebind", "chmod", "serving",
           "failed", "returned", "refused", "clear", "exec", "dead"}

\* The kernel completes a connect to it.
Open == {"chmod", "serving"}
Listening(d) == server[d] \in Open

\* The daemon is in its accept loop; its process is there.
Serving(d) == IF kind = "local" THEN server[d] = "serving" ELSE far[d]
Alive(d) == IF kind = "local" THEN server[d] # "dead" ELSE far[d]

Connectable == path \in Server /\ Listening(path)

\* The daemon a connection to d ends at, or Nobody: every forward to one host
\* leads to the one daemon over there, whoever's ssh has started it.
Behind(d) ==
    IF kind = "local" THEN d
    ELSE IF \E e \in Server : far[e] THEN CHOOSE e \in Server : far[e] ELSE Nobody

Goto(d, place) == server' = [server EXCEPT ![d] = place]
Sees(d, what) == look' = [look EXCEPT ![d] = what]

\* remove_file or unlink, whatever is there, by a process that can tell what
\* the listeners in `known` are.
Remove(known) ==
    /\ path' = Nobody
    /\ victims' = victims \cup IF Connectable THEN {path} \ known ELSE {}

PathInit ==
    /\ kind \in {"local", "tunnel"}
    /\ path \in {Nobody, Stale}
    /\ server = [d \in Server |-> "off"]
    /\ far = [d \in Server |-> FALSE]
    /\ look = [d \in Server |-> Nobody]
    /\ victims = {}

----------------------------------------------------------------------------
(* A daemon: main and bind_listener.                                       *)

\* main installs the signal handler before anything else touches the path.
Start(d) ==
    /\ server[d] = "off"
    /\ Goto(d, IF kind = "local" THEN "bind" ELSE "clear")
    /\ UNCHANGED <<kind, path, far, look, victims>>

\* bind creates the path or reports AddrInUse, whoever left it there.
Bind(d) ==
    /\ server[d] = "bind"
    /\ \/ path = Nobody /\ path' = d /\ Goto(d, "chmod")
       \/ path # Nobody /\ Goto(d, "probe") /\ UNCHANGED path
    /\ UNCHANGED <<kind, far, look, victims>>

\* (for mutation) a path in use is taken for stale without a connect
ProbeNothing(d) ==
    /\ server[d] = "probe"
    /\ Sees(d, path) /\ Goto(d, "unlink")
    /\ UNCHANGED <<kind, path, far, victims>>

\* The connect tells a live listener from a stale path.
Probe(d) ==
    /\ server[d] = "probe"
    /\ Sees(d, path)
    /\ Goto(d, IF Connectable THEN "refused" ELSE "unlink")
    /\ UNCHANGED <<kind, path, far, victims>>

\* remove_file of a path that is gone by now is an error of another kind than
\* AddrInUse.
Unlink(d) ==
    /\ server[d] = "unlink"
    /\ Remove({d, look[d]})
    /\ Goto(d, IF path = Nobody THEN "failed" ELSE "rebind")
    /\ UNCHANGED <<kind, far, look>>

\* The second bind's AddrInUse is not looked into.
Rebind(d) ==
    /\ server[d] = "rebind"
    /\ \/ path = Nobody /\ path' = d /\ Goto(d, "chmod")
       \/ path # Nobody /\ Goto(d, "refused") /\ UNCHANGED path
    /\ Sees(d, Nobody)
    /\ UNCHANGED <<kind, far, victims>>

\* set_permissions goes by the path: gone, it is an error and the listener is
\* dropped; another's, that one's mode is set.
Chmod(d) ==
    /\ server[d] = "chmod"
    /\ Goto(d, IF path = Nobody THEN "failed" ELSE "serving")
    /\ UNCHANGED <<kind, path, far, look, victims>>

\* main, after run returned Ok, or an error other than AddrInUse.
Cleanup(d) ==
    /\ server[d] \in {"failed", "returned"}
    /\ Remove({d, look[d]})
    /\ Goto(d, "dead")
    /\ UNCHANGED <<kind, far, look>>

\* (for mutation) the path is removed after AddrInUse too
ExitRemoving(d) ==
    /\ server[d] = "refused"
    /\ Remove({d, look[d]})
    /\ Goto(d, "dead")
    /\ UNCHANGED <<kind, far, look>>

Exit(d) ==
    /\ server[d] = "refused"
    /\ Goto(d, "dead")
    /\ UNCHANGED <<kind, path, far, look, victims>>

----------------------------------------------------------------------------
(* run_remote, and the ssh it becomes.                                     *)

\* `if local_sock.exists() { remove_file }`, on no more than the name.
Clear(d) ==
    /\ server[d] = "clear"
    /\ Remove({})
    /\ Goto(d, "exec")
    /\ UNCHANGED <<kind, far, look>>

\* ssh binds the local end of -L, or gives up (ExitOnForwardFailure).
ForwardBinds(d) ==
    /\ server[d] = "exec"
    /\ \/ path = Nobody /\ path' = d /\ Goto(d, "serving")
       \/ path # Nobody /\ Goto(d, "dead") /\ UNCHANGED path
    /\ UNCHANGED <<kind, far, look, victims>>

\* The daemon ssh has started at the far end begins to listen; where one is
\* there already it does not, and ssh ends with it.
FarBinds(d) ==
    /\ kind = "tunnel" /\ server[d] = "serving" /\ ~far[d]
    /\ IF \E e \in Server : far[e]
       THEN Goto(d, "dead") /\ UNCHANGED far
       ELSE far' = [far EXCEPT ![d] = TRUE] /\ UNCHANGED server
    /\ UNCHANGED <<kind, path, look, victims>>

----------------------------------------------------------------------------
(* The end of a listener.                                                  *)

\* A stop request was served: the accept loop returns and drops the listener;
\* the far daemon's end makes ssh exit.
StopServing(d) ==
    /\ Serving(d)
    /\ IF kind = "local" THEN Goto(d, "returned") ELSE Goto(d, "dead")
    /\ far' = [far EXCEPT ![d] = FALSE]
    /\ UNCHANGED <<kind, path, look, victims>>

\* The handler of SIGINT, SIGTERM and SIGHUP removes the path, its own or not.
\* ssh has no such handler any more; what fails to become ssh removes the path
\* likewise.
Signal(d) ==
    /\ server[d] \in Places \ {"off", "dead", "clear"}
    /\ kind = "tunnel" => server[d] = "exec"
    /\ Remove({d})
    /\ Goto(d, "dead")
    /\ UNCHANGED <<kind, far, look>>

\* SIGKILL, or the end of an ssh: the path stays.  The daemon at the far end
\* may outlive its ssh, until the connection's death is noticed there.
Kill(d) ==
    /\ server[d] \notin {"off", "dead"} \/ far[d]
    /\ Goto(d, "dead")
    /\ \E stays \in {FALSE, far[d]} : far' = [far EXCEPT ![d] = stays]
    /\ UNCHANGED <<kind, path, look, victims>>

\* The steps a process takes by itself once started.
ServerStep(d) ==
    \/ Bind(d) \/ Probe(d) \/ Unlink(d) \/ Rebind(d) \/ Chmod(d)
    \/ Cleanup(d) \/ Exit(d) \/ Clear(d) \/ ForwardBinds(d)

----------------------------------------------------------------------------
PathTypeOK ==
    /\ kind \in {"local", "tunnel"} /\ path \in Server \cup {Nobody, Stale}
    /\ server \in [Server -> Places] /\ far \in [Server -> BOOLEAN]
    /\ look \in [Server -> Server \cup {Nobody, Stale}]
    /\ victims \subseteq Server

\* Every live listener can be reached at the path, unless a process removed it
\* that never tried to connect, was interrupted, or had tried before the
\* listener was there: a daemon that finds the path alive leaves it alone
\* (bind_listener and main's exit).
ReachableUnlessRaced ==
    \A d \in Server : Listening(d) /\ d \notin victims => path = d
=============================================================================

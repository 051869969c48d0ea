----------------------------- MODULE McpClient ------------------------------
(***************************************************************************)
(* The MCP server's tool calls (src/mcp.rs) against the processes of       *)
(* SocketPath: execute, start_server, stop_server and status, with the     *)
(* readiness probe, the retry after an end of file, and every time limit.  *)
(* The daemon's handler is here only what a client can tell of it;         *)
(* ApprovalDaemon has the rest.                                            *)
(*                                                                         *)
(* `sudo-request` (src/bin/sudo-request.rs) is a call of its own kind: it  *)
(* connects at once and asks once.                                         *)
(*                                                                         *)
(* Each call makes one request, under one id, and sends it at most once at *)
(* a time.  What the handler does with it goes on when the client has      *)
(* given up.  A time limit is an action that may be taken at any moment:   *)
(* ConnectFails, ReadTimesOut, LoopEnds (5 s or 30 s of polling) and       *)
(* GiveUp (2 s of retries).                                                *)
(***************************************************************************)
EXTENDS SocketPath, Naturals

CONSTANTS
    Call,           \* tool calls, each of which is also a request id
    Tools           \* which tool each call may be, a function from Call

ASSUME CallConstants ==
    /\ Call \cap Server = {} /\ Nobody \notin Call
    /\ Tools \in [Call -> SUBSET {"execute", "start", "stop", "status", "request"}]

VARIABLES
    tool,           \* the tool of each call
    timed,          \* read_timeout_for gave it a deadline
    at,             \* where each call is
    phase,          \* of start and stop: "first", "loop", "final"
    peer,           \* the listener its last connection was made to
    conn,           \* the daemon that connection ended at
    resent,         \* the request was sent again after an end of file
    task,           \* the handler: "none", "sent", "deciding", "running",
                    \* or what the client will read: "ok", "error", "eof", "reset"
    left,           \* <<call, daemon>>: approvals whose client is cut off
    seen,           \* each daemon's seen_ids
    runs,           \* how often each daemon has run each request
    stopping,       \* daemons that have answered a stop request
    told            \* the CallToolResult, "" before it

callVars == <<tool, timed, at, phase, peer, conn, resent, told>>
taskVars == <<task, left, seen, runs, stopping>>
vars == <<pathVars, callVars, taskVars>>

\* (for mutation) every execute without a limit of its own goes unlimited
EveryExecuteMay(k) == tool[k] = "execute"

\* read_timeout_for: only an unprivileged execute, which execute refuses for the
\* local machine, and none of the control requests.
MayWaitForever(k) == kind = "tunnel" /\ tool[k] = "execute"

Init ==
    /\ PathInit
    /\ tool \in {f \in [Call -> UNION {Tools[k] : k \in Call}] :
                    \A k \in Call : f[k] \in Tools[k]}
    /\ timed \in {f \in [Call -> BOOLEAN] : \A k \in Call : ~f[k] => MayWaitForever(k)}
    /\ at = [k \in Call |-> "idle"] /\ phase = [k \in Call |-> "first"]
    /\ resent = [k \in Call |-> FALSE]
    /\ peer = [k \in Call |-> Nobody] /\ conn = [k \in Call |-> Nobody]
    /\ task = [k \in Call |-> "none"]
    /\ left = {} /\ seen = [d \in Server |-> {}]
    /\ runs = [k \in Call |-> [d \in Server |-> 0]]
    /\ stopping = {}
    /\ told = [k \in Call |-> ""]

----------------------------------------------------------------------------
(* What becomes of a request when the listener, its process or the ssh in  *)
(* between ends: one not yet read is reset, one being handled is cut off,  *)
(* an answer already written is still read.  Through ssh all of it is an   *)
(* end of file, and a daemon that outlives its ssh goes on with the prompt.*)

Cut(k) == IF kind = "local" THEN server'[conn[k]] = "dead"
          ELSE server'[peer[k]] = "dead" \/ ~far'[conn[k]]

Sent == {k \in Call : task[k] = "sent"}

\* A listener that is closed resets what was not accepted; what was not even
\* written breaks on the pipe, which the MCP server takes for an end of file.
FatesOfSent(k) ==
    IF ~Cut(k) /\ server'[peer[k]] \in Open THEN {"sent"}
    ELSE IF kind = "tunnel" THEN {"eof"}
    ELSE {"reset", "eof"} \cup IF Cut(k) THEN {} ELSE {"sent"}

Fates ==
    /\ \E fate \in [Sent -> {"sent", "reset", "eof"}] :
         /\ \A k \in Sent : fate[k] \in FatesOfSent(k)
         /\ task' = [k \in Call |->
                IF k \in Sent THEN fate[k]
                ELSE IF task[k] \in {"deciding", "running"} /\ Cut(k) THEN "eof"
                ELSE task[k]]
    /\ left' = left \cup {<<k, conn[k]>> : k \in
            {k \in Call : task[k] = "deciding" /\ task'[k] = "eof" /\ far'[conn[k]]}}

\* The processes of the path, the human who starts daemons, the signals.
PathMoves ==
    /\ \E d \in Server :
         \/ Start(d) \/ ServerStep(d) \/ FarBinds(d) \/ Signal(d) \/ Kill(d)
         \/ d \in stopping /\ StopServing(d)
    /\ Fates
    /\ UNCHANGED <<callVars, seen, runs, stopping>>

----------------------------------------------------------------------------
(* The handler.                                                            *)

Answer(k, what) == task' = [task EXCEPT ![k] = what]

\* What was accepted is read even when the loop has ended since.
Reaches(k) ==
    /\ task[k] = "sent"
    /\ Serving(conn[k]) \/ server[conn[k]] = "returned"

\* At max_in_flight the accept loop answers without reading.
Busy(k) ==
    /\ task[k] = "sent" /\ Serving(conn[k])
    /\ Answer(k, "error")
    /\ UNCHANGED <<pathVars, callVars, left, seen, runs, stopping>>

\* (for mutation) the replay gate forgets to look
IsNewAlways(k) == TRUE

IsNew(k) == k \notin seen[conn[k]]

Duplicate(k) ==
    /\ Reaches(k)
    /\ ~IsNew(k)
    /\ Answer(k, "error")
    /\ UNCHANGED <<pathVars, callVars, left, seen, runs, stopping>>

\* A stop is answered before the flag is set, a ping at once.
Take(k) ==
    /\ Reaches(k)
    /\ IsNew(k)
    /\ seen' = [seen EXCEPT ![conn[k]] = @ \cup {k}]
    /\ IF tool[k] \in {"execute", "request"}
       THEN Answer(k, "deciding") /\ UNCHANGED stopping
       ELSE /\ Answer(k, "ok")
            /\ stopping' = IF tool[k] = "stop" THEN stopping \cup {conn[k]} ELSE stopping
    /\ UNCHANGED <<pathVars, callVars, left, runs>>

Decide(k) ==
    /\ task[k] = "deciding"
    /\ \/ /\ Answer(k, "running")
          /\ runs' = [runs EXCEPT ![k][conn[k]] = @ + 1]
       \/ Answer(k, "error") /\ UNCHANGED runs
    /\ UNCHANGED <<pathVars, callVars, left, seen, stopping>>

\* The human approves at a daemon that cannot answer any more.
DecideLeft(k, d) ==
    /\ <<k, d>> \in left /\ Alive(d)
    /\ left' = left \ {<<k, d>>}
    /\ runs' = [runs EXCEPT ![k][d] = @ + 1]
    /\ UNCHANGED <<pathVars, callVars, task, seen, stopping>>

Finish(k) ==
    /\ task[k] = "running"
    /\ Answer(k, "ok") \/ Answer(k, "error")
    /\ UNCHANGED <<pathVars, callVars, left, seen, runs, stopping>>

\* The handler panics: its connection is closed without an answer.
Panic(k) ==
    /\ task[k] \in {"deciding", "running"}
    /\ Answer(k, "eof")
    /\ UNCHANGED <<pathVars, callVars, left, seen, runs, stopping>>

----------------------------------------------------------------------------
(* A tool call.                                                            *)

AtPlace(k, place) == at' = [at EXCEPT ![k] = place]
Done(k, what) == AtPlace(k, "done") /\ told' = [told EXCEPT ![k] = what]

Phase(k, which) == phase' = [phase EXCEPT ![k] = which]

Begin(k) ==
    /\ at[k] = "idle"
    /\ AtPlace(k, IF tool[k] = "request" THEN "connect" ELSE "check")
    /\ UNCHANGED <<pathVars, tool, timed, phase, peer, conn, resent, told, taskVars>>

\* `!socket_path.exists()`, wherever it is asked.
Looping(k) == phase[k] = "loop"

Absent(k) ==
    /\ at[k] = "check" /\ path = Nobody
    /\ \/ /\ tool[k] \in {"execute", "status", "stop"} /\ phase[k] = "first"
          /\ Done(k, "not running")
       \/ /\ tool[k] = "start" /\ phase[k] = "first"
          /\ AtPlace(k, "spawn") /\ UNCHANGED told
       \/ /\ tool[k] = "stop" /\ phase[k] = "final"
          /\ Done(k, "stopped")
    /\ UNCHANGED <<pathVars, tool, timed, phase, peer, conn, resent, taskVars>>

\* start_server sleeps and looks again, stop_server looks once more.
AbsentInLoop(k) ==
    /\ at[k] = "check" /\ path = Nobody /\ tool[k] = "stop"
    /\ Looping(k)
    /\ Phase(k, "final")
    /\ UNCHANGED <<pathVars, tool, timed, at, peer, conn, resent, told, taskVars>>

Present(k) ==
    /\ at[k] = "check" /\ path # Nobody
    /\ IF tool[k] = "execute" \/ (tool[k] = "stop" /\ phase[k] = "first")
       THEN AtPlace(k, "connect")
       ELSE AtPlace(k, "probe")
    /\ UNCHANGED <<pathVars, tool, timed, phase, peer, conn, resent, told, taskVars>>

\* The tick count of a polling loop is used up.
LoopEnds(k) ==
    /\ at[k] = "check" /\ Looping(k)
    /\ IF tool[k] = "start"
       THEN Done(k, "not ready") /\ UNCHANGED phase
       ELSE Phase(k, "final") /\ UNCHANGED <<at, told>>
    /\ UNCHANGED <<pathVars, tool, timed, peer, conn, resent, taskVars>>

\* start_local and start_remote open a terminal; what runs in it may fail.
Spawn(k) ==
    /\ at[k] = "spawn"
    /\ \/ \E d \in Server : Start(d)
       \/ UNCHANGED pathVars
    /\ AtPlace(k, "check") /\ Phase(k, "loop")
    /\ UNCHANGED <<tool, timed, peer, conn, resent, told, taskVars>>

\* There is no terminal emulator, or it cannot be run.
NoTerminal(k) ==
    /\ at[k] = "spawn"
    /\ Done(k, "error")
    /\ UNCHANGED <<pathVars, tool, timed, phase, peer, conn, resent, taskVars>>

----------------------------------------------------------------------------
(* remote_socket_ready: connect, then 100 ms of quiet.                     *)

AfterProbe(k, ready) ==
    \/ /\ tool[k] = "status" /\ ready
       /\ AtPlace(k, "connect") /\ UNCHANGED <<phase, told>>
    \/ /\ tool[k] = "status" /\ ~ready
       /\ Done(k, "stale") /\ UNCHANGED phase
    \/ /\ tool[k] = "start" /\ ready
       /\ Done(k, IF Looping(k) THEN "started" ELSE "already") /\ UNCHANGED phase
    \/ /\ tool[k] = "start" /\ ~ready
       /\ AtPlace(k, IF Looping(k) THEN "check"
                     ELSE IF kind = "tunnel" THEN "remove" ELSE "spawn")
       /\ UNCHANGED <<phase, told>>
    \/ /\ tool[k] = "stop" /\ Looping(k)
       /\ AtPlace(k, "check")
       /\ Phase(k, IF ready THEN "loop" ELSE "final")
       /\ UNCHANGED told
    \/ /\ tool[k] = "stop" /\ phase[k] = "final" /\ ready
       /\ Done(k, "stopped") /\ UNCHANGED phase
    \/ /\ tool[k] = "stop" /\ phase[k] = "final" /\ ~ready
       /\ AtPlace(k, "remove") /\ UNCHANGED <<phase, told>>

Probe1(k) ==
    /\ at[k] = "probe"
    /\ IF Connectable
       THEN /\ AtPlace(k, "quiet")
            /\ peer' = [peer EXCEPT ![k] = path]
            /\ UNCHANGED <<phase, told>>
       ELSE AfterProbe(k, FALSE) /\ UNCHANGED peer
    /\ UNCHANGED <<pathVars, tool, timed, conn, resent, taskVars>>

\* (for mutation) an accepted connection is enough
QuietAccepted(k) == TRUE

\* Nothing came and nothing closed: a daemon.  Assumed: a far end without one
\* says so within the probe's 100 ms.
Quiet(k) == Listening(peer[k]) /\ (kind = "tunnel" => Behind(peer[k]) # Nobody)

Probe2(k) ==
    /\ at[k] = "quiet"
    /\ AfterProbe(k, Quiet(k))
    /\ conn' = [conn EXCEPT ![k] = Behind(peer[k])]
    /\ UNCHANGED <<pathVars, tool, timed, peer, resent, taskVars>>

\* A daemon at max_in_flight speaks first, and is taken for something else.
ProbeBusy(k) ==
    /\ at[k] = "quiet" /\ Listening(peer[k]) /\ Behind(peer[k]) # Nobody
    /\ Serving(Behind(peer[k]))
    /\ AfterProbe(k, FALSE)
    /\ UNCHANGED <<pathVars, tool, timed, peer, conn, resent, taskVars>>

\* stop_server after the daemon's answer, start_remote before the terminal.
RemovePath(k) ==
    /\ at[k] = "remove"
    /\ Remove({})
    /\ IF tool[k] = "stop" THEN Done(k, "stopped") ELSE AtPlace(k, "spawn") /\ UNCHANGED told
    /\ UNCHANGED <<kind, server, far, look, tool, timed, phase, peer, conn, resent, taskVars>>

----------------------------------------------------------------------------
(* send_request and send_request_once.                                     *)

\* A forward without a far end closes the channel at once.
Connect(k) ==
    /\ at[k] = "connect" /\ Connectable
    /\ AtPlace(k, "read")
    /\ peer' = [peer EXCEPT ![k] = path]
    /\ conn' = [conn EXCEPT ![k] = Behind(path)]
    /\ Answer(k, IF Behind(path) = Nobody THEN "eof" ELSE "sent")
    /\ UNCHANGED <<pathVars, tool, timed, phase, resent, told, left, seen, runs, stopping>>

\* Nobody listens, or the connect or the write takes more than 5 s.
ConnectFails(k) ==
    /\ at[k] = "connect"
    /\ Done(k, "unreachable")
    /\ UNCHANGED <<pathVars, tool, timed, phase, peer, conn, resent, taskVars>>

ReadAnswer(k) ==
    /\ at[k] = "read" /\ task[k] \in {"ok", "error"}
    /\ IF tool[k] = "stop" /\ task[k] = "ok"
       THEN AtPlace(k, "check") /\ Phase(k, "loop") /\ UNCHANGED told
       ELSE Done(k, task[k]) /\ UNCHANGED phase
    /\ UNCHANGED <<pathVars, tool, timed, peer, conn, resent, taskVars>>

ReadReset(k) ==
    /\ at[k] = "read" /\ task[k] = "reset"
    /\ Done(k, "broken")
    /\ UNCHANGED <<pathVars, tool, timed, phase, peer, conn, resent, taskVars>>

\* (for mutation) the new attempt reads what the old connection left
ResendReading(k) ==
    /\ at[k] = "read" /\ task[k] = "eof" /\ tool[k] # "request"
    /\ AtPlace(k, "connect")
    /\ resent' = [resent EXCEPT ![k] = TRUE]
    /\ UNCHANGED <<pathVars, tool, timed, phase, peer, conn, told, taskVars>>

\* TransientEof: again while the budget lasts, else the caller hears of it.
Resend(k) ==
    /\ at[k] = "read" /\ task[k] = "eof" /\ tool[k] # "request"
    /\ AtPlace(k, "connect")
    /\ resent' = [resent EXCEPT ![k] = TRUE]
    /\ Answer(k, "none")
    /\ UNCHANGED <<pathVars, tool, timed, phase, peer, conn, told, left, seen, runs, stopping>>

GiveUp(k) ==
    /\ at[k] = "read" /\ task[k] = "eof"
    /\ Done(k, "closed")
    /\ UNCHANGED <<pathVars, tool, timed, phase, peer, conn, resent, taskVars>>

\* (for mutation) a read that timed out is retried like an end of file
ReadTimesOutResending(k) ==
    /\ at[k] = "read" /\ timed[k] /\ task[k] \in {"sent", "deciding", "running"}
    /\ AtPlace(k, "connect")
    /\ Answer(k, "none")
    /\ left' = left \cup {<<k, conn[k]>>}
    /\ UNCHANGED <<pathVars, tool, timed, phase, peer, conn, resent, told, seen, runs, stopping>>

\* The client gives up; the handler does not know.
ReadTimesOut(k) ==
    /\ at[k] = "read" /\ timed[k] /\ task[k] \in {"sent", "deciding", "running"}
    /\ Done(k, "timeout")
    /\ UNCHANGED <<pathVars, tool, timed, phase, peer, conn, resent, taskVars>>

----------------------------------------------------------------------------
ClientStep(k) ==
    \/ Absent(k) \/ AbsentInLoop(k) \/ Present(k) \/ LoopEnds(k)
    \/ Spawn(k) \/ NoTerminal(k)
    \/ Probe1(k) \/ Probe2(k) \/ ProbeBusy(k) \/ RemovePath(k)
    \/ Connect(k) \/ ConnectFails(k)
    \/ ReadAnswer(k) \/ ReadReset(k) \/ Resend(k) \/ GiveUp(k) \/ ReadTimesOut(k)

HandlerStep(k) ==
    \/ Busy(k) \/ Duplicate(k) \/ Take(k) \/ Decide(k) \/ Finish(k) \/ Panic(k)
    \/ \E d \in Server : DecideLeft(k, d)

Next ==
    \/ PathMoves
    \/ \E k \in Call : Begin(k) \/ ClientStep(k) \/ HandlerStep(k)

Spec == Init /\ [][Next]_vars

----------------------------------------------------------------------------
(* Properties.                                                             *)

TypeOK ==
    /\ PathTypeOK
    /\ \A k \in Call : tool[k] \in Tools[k]
    /\ timed \in [Call -> BOOLEAN]
    /\ at \in [Call -> {"idle", "check", "probe", "quiet", "remove", "spawn",
                        "connect", "read", "done"}]
    /\ phase \in [Call -> {"first", "loop", "final"}]
    /\ resent \in [Call -> BOOLEAN]
    /\ peer \in [Call -> Server \cup {Nobody}]
    /\ conn \in [Call -> Server \cup {Nobody}]
    /\ task \in [Call -> {"none", "sent", "deciding", "running",
                          "ok", "error", "eof", "reset"}]
    /\ left \subseteq Call \X Server
    /\ seen \in [Server -> SUBSET Call] /\ stopping \subseteq Server
    /\ runs \in [Call -> [Server -> Nat]]
    /\ told \in [Call -> {"", "not running", "stale", "ok", "error", "unreachable",
                          "broken", "closed", "timeout", "started", "already",
                          "not ready", "stopped"}]
    /\ \A k \in Call :
         /\ told[k] # "" <=> at[k] = "done"
         /\ at[k] = "read" => task[k] # "none" /\ peer[k] \in Server
         /\ at[k] = "connect" => task[k] = "none"

Ran(k) == {d \in Server : runs[k][d] > 0}

\* A caller who hears that the request could not be delivered may ask again:
\* it was never run, unless it had been sent before the one that failed.
NotSentNotRun ==
    \A k \in Call :
        told[k] \in {"not running", "stale", "unreachable", "broken"} /\ ~resent[k]
            => Ran(k) = {}

\* However often a request is sent, no daemon runs it twice, and a second one
\* runs it only if one of them has ended or has lost its path to the other: the
\* retry after an end of file may cross a restart, never anything else.
RunsAgainOnlyAcrossRestart ==
    \A k \in Call :
        /\ \A d \in Server : runs[k][d] <= 1
        /\ \A d, e \in Ran(k) :
             d # e => /\ resent[k]
                      /\ \E gone \in {d, e} : ~Alive(gone) \/ ~Listening(gone) \/ gone \in victims

\* Once the caller has the daemon's answer the request is not run any more,
\* whoever still has it.  A request that was sent again may be: what answers
\* may then be the replay gate, while the first attempt is at the prompt.
AnsweredIsFinal ==
    [][\A k \in Call :
          told[k] \in {"ok", "error"} /\ ~resent[k] => Ran(k)' = Ran(k)]_vars

\* start_server reports a daemon only if the next call can reach it: the one
\* that was probed is still behind the path, unless it or the listener has
\* ended or lost the path since.
StartedIsReachable ==
    \A k \in Call :
        told[k] \in {"started", "already"} =>
            \/ peer[k] \in victims \/ ~Listening(peer[k])
            \/ conn[k] \in Server /\ ~Alive(conn[k])
            \/ path = peer[k] /\ conn[k] = Behind(path)

\* A read without a limit never waits on a daemon that has died, nor on one
\* that is not in its accept loop: some handler has the request, or the loop
\* will read it (read_timeout_for's comment).
UnboundedReadOnLiveDaemon ==
    \A k \in Call :
        at[k] = "read" /\ ~timed[k] /\ task[k] \in {"sent", "deciding", "running"} =>
            /\ Listening(peer[k])
            /\ IF task[k] = "sent" THEN Serving(conn[k]) ELSE Alive(conn[k])
=============================================================================

--------------------------- MODULE ApprovalDaemon ---------------------------
(***************************************************************************)
(* The daemon: the accept loop of `run` and one handler thread per         *)
(* accepted connection (`handle_connection`, src/server.rs), with the      *)
(* execution paths of src/executor.rs as far as they touch state shared    *)
(* between handlers: the TTY lock and the terminal's foreground process    *)
(* group.  The daemon process may be stopped by a request, be killed, and  *)
(* be started again; its children survive it.                              *)
(*                                                                         *)
(* One step of a handler is the code between two points where another      *)
(* thread, the human or the child can act: a lock, a read of shared state, *)
(* a prompt, a wait.  `now` counts ticks of MAX_REQUEST_AGE's order.       *)
(***************************************************************************)
EXTENDS SeenIds, FiniteSets

CONSTANTS
    Conn,           \* connections, each used for one delivery of a request
    NoConn,         \* no connection: the lock is free, the daemon has the terminal
    Requests,       \* the requests clients may send
    MaxInFlight,    \* ServerConfig.max_in_flight
    MaxRequestAge,  \* MAX_REQUEST_AGE
    MaxLead,        \* how far a request's time may lead the daemon's clock
    MaxTime,        \* bound on the clock
    MaxLives        \* bound on the number of times the daemon is started

\* A request as the gates of handle_connection see it.  `admissible`: it
\* validates, does not ask for agent forwarding with privileges, and its
\* environment passes sanitize_env.
RequestType ==
    [id : Id, action : {"exec", "ping", "stop"}, privileged : BOOLEAN,
     stages : {1, 2}, admissible : BOOLEAN, time : Nat]

\* What main resolves before `run`: `pkexec` is pkexec_only in Mode::Local,
\* `eligible` is unattended_eligible (CLI flag or hosts.json).
Config == [pkexec : BOOLEAN, eligible : BOOLEAN]

ASSUME DaemonConstants ==
    /\ NoConn \notin Conn
    /\ IsFiniteSet(Conn)
    /\ Requests \subseteq RequestType
    /\ MaxInFlight \in Nat \ {0}
    /\ MaxRequestAge \in Nat /\ MaxLead \in Nat
    /\ MaxTime \in Nat /\ MaxLives \in Nat

NoReq == [id |-> NoConn, action |-> "ping", privileged |-> FALSE,
          stages |-> 1, admissible |-> FALSE, time |-> 0]

VARIABLES
    now,         \* the clock
    life,        \* how many daemons have been started
    phase,       \* "down", "serving", "closing" (one accept raced the stop), "returned"
    config,      \* each daemon's configuration
    shutdown,    \* the AtomicBool a stop request sets
    grant,       \* unattended_grant
    seen,        \* seen_ids
    inFlight,    \* in_flight
    ttyLock,     \* the connection whose handler holds tty_lock
    poisoned,    \* a handler panicked while it held tty_lock
    foreground,  \* whose child is the terminal's foreground group
    saved,       \* ForegroundGuard.prev_pgrp of the current holder
    pc,          \* where each connection's handler is
    req,         \* the request each connection carries
    born,        \* the life of the daemon it connected to
    key,         \* what its prompt read
    outcome,     \* the response its handler has settled on
    child,       \* the process group of its command
    shown        \* the connections whose result was displayed on the terminal

daemonVars == <<life, config>>
loopVars   == <<phase, shutdown, inFlight>>
ttyVars    == <<ttyLock, poisoned, foreground, saved>>
connVars   == <<req, born>>
vars == <<now, daemonVars, loopVars, grant, seen, ttyVars, pc, connVars, key,
          outcome, child, shown>>
-----------------------------------------------------------------------------
\* Handler locations.  A connection is "idle" before connect and "backlog"
\* until accepted; "done" after its thread ended, "dead" if the process did.
AtTerminal == {"wantPrompt", "prompting", "decided"}
Executing  == {"spawn", "wantForeground", "wait", "drain"}
Live == {"reading", "insert", "stopping", "stopped", "dispatch", "display", "exit"}
           \cup AtTerminal \cup Executing
Location == Live \cup {"idle", "backlog", "done", "dead"}

\* What a prompt reads: a key, nothing before the timeout, or an I/O error.
Key == {"y", "a", "other", "silence", "ioerror"}

Outcome == {"none", "busy", "error", "duplicate", "pong", "ok", "denied", "timeout"}

Age(t) == IF t > now THEN 0 ELSE now - t

\* A mutant of Fresh: requests stay fresh for as long as ids are remembered.
FreshTooLong(t) == Age(t) <= 2 * MaxRequestAge

\* check_freshness
Fresh(t) == Age(t) <= MaxRequestAge

Cfg == config[life]

\* tui::classify_key, and the error prompt_tty returns instead of a result.
PromptResult(k, privileged) ==
    CASE k = "ioerror" -> "Error"
      [] k = "silence" -> "Timeout"
      [] k = "y" -> "Approved"
      [] k = "a" /\ ~ privileged -> "ApprovedAlways"
      [] OTHER -> "Denied"

\* `used_pkexec`
UsesPkexec(c) == req[c].privileged /\ Cfg.pkexec

\* run_single_command is given the TTY lock: pkexec always, sudo for one stage.
\* A sudo pipeline (exec_pipeline) and exec_direct are not.
TakesForeground(c) ==
    req[c].privileged /\ (Cfg.pkexec \/ req[c].stages = 1)

Goto(c, l) == pc' = [pc EXCEPT ![c] = l]

\* The handler settles its response and goes to l.
Settle(c, o, l) ==
    /\ outcome' = [outcome EXCEPT ![c] = o]
    /\ Goto(c, l)

\* A mutant of DropGuard: the lock is released and the foreground is not restored.
DropGuardLockOnly(c) ==
    /\ ttyLock' = IF ttyLock = c THEN NoConn ELSE ttyLock
    /\ UNCHANGED foreground

\* Dropping a ForegroundGuard, if c's handler holds one: the foreground goes
\* back to the saved group and the lock is released.
DropGuard(c) ==
    IF ttyLock = c
    THEN /\ ttyLock' = NoConn
         /\ foreground' = saved
    ELSE UNCHANGED <<ttyLock, foreground>>
-----------------------------------------------------------------------------
Init ==
    /\ now = 0
    /\ life = 0
    /\ phase = "down"
    /\ config = [l \in 0..MaxLives |-> [pkexec |-> FALSE, eligible |-> FALSE]]
    /\ shutdown = FALSE
    /\ grant = FALSE
    /\ seen = NewMemory
    /\ inFlight = 0
    /\ ttyLock = NoConn
    /\ poisoned = FALSE
    /\ foreground = NoConn
    /\ saved = NoConn
    /\ pc = [c \in Conn |-> "idle"]
    /\ req = [c \in Conn |-> NoReq]
    /\ born = [c \in Conn |-> 0]
    /\ key = [c \in Conn |-> "unasked"]
    /\ outcome = [c \in Conn |-> "none"]
    /\ child = [c \in Conn |-> "none"]
    /\ shown = {}

(* ----------------------------- the process ----------------------------- *)

\* main: resolve the configuration, bind, enter `run` with fresh state.
Start ==
    /\ phase = "down"
    /\ life < MaxLives
    /\ life' = life + 1
    /\ phase' = "serving"
    /\ \E cf \in Config : config' = [config EXCEPT ![life + 1] = cf]
    /\ UNCHANGED <<now, shutdown, grant, seen, inFlight, ttyVars, pc, connVars,
                   key, outcome, child, shown>>

\* A mutant of ProcessGone: the session grant was persisted.
ProcessGoneKeepsGrant ==
    /\ phase' = "down"
    /\ pc' = [c \in Conn |-> IF pc[c] \in Live \cup {"backlog"} THEN "dead" ELSE pc[c]]
    /\ shutdown' = FALSE
    /\ seen' = NewMemory
    /\ inFlight' = 0
    /\ ttyLock' = NoConn /\ poisoned' = FALSE
    /\ foreground' = NoConn /\ saved' = NoConn
    /\ UNCHANGED <<now, daemonVars, grant, connVars, key, outcome, child, shown>>

\* The process is gone: its threads with it, its memory with it, the sockets
\* closed, the terminal back with the shell.  The children are not killed.
ProcessGone ==
    /\ phase' = "down"
    /\ pc' = [c \in Conn |-> IF pc[c] \in Live \cup {"backlog"} THEN "dead" ELSE pc[c]]
    /\ shutdown' = FALSE
    /\ grant' = FALSE
    /\ seen' = NewMemory
    /\ inFlight' = 0
    /\ ttyLock' = NoConn
    /\ poisoned' = FALSE
    /\ foreground' = NoConn
    /\ saved' = NoConn
    /\ UNCHANGED <<now, daemonVars, connVars, key, outcome, child, shown>>

\* main after `run` returned Ok: exit, whatever the handlers are doing.
Exit ==
    /\ phase = "returned"
    /\ ProcessGone

\* A signal, or the terminal or ssh session going away.
Kill ==
    /\ phase # "down"
    /\ ProcessGone

\* A mutant of LoopReturn: wait for the handlers before returning.
LoopReturnWaits ==
    /\ phase \in {"serving", "closing"}
    /\ shutdown
    /\ inFlight = 0
    /\ phase' = "returned"
    /\ pc' = [c \in Conn |-> IF pc[c] = "backlog" THEN "dead" ELSE pc[c]]
    /\ UNCHANGED <<now, daemonVars, shutdown, inFlight, grant, seen, ttyVars,
                   connVars, key, outcome, child, shown>>

\* The top of the accept loop sees the flag; dropping the listener resets the
\* connections nobody accepted.
LoopReturn ==
    /\ phase \in {"serving", "closing"}
    /\ shutdown
    /\ phase' = "returned"
    /\ pc' = [c \in Conn |-> IF pc[c] = "backlog" THEN "dead" ELSE pc[c]]
    /\ UNCHANGED <<now, daemonVars, shutdown, inFlight, grant, seen, ttyVars,
                   connVars, key, outcome, child, shown>>

\* accept: reject inline at the cap, else count and spawn the handler.  If the
\* flag was set after the top of the loop looked at it, this accept is the last.
Accept(c) ==
    /\ phase = "serving"
    /\ pc[c] = "backlog"
    /\ phase' = IF shutdown THEN "closing" ELSE "serving"
    /\ IF inFlight >= MaxInFlight
       THEN /\ Settle(c, "busy", "done")
            /\ UNCHANGED inFlight
       ELSE /\ inFlight' = inFlight + 1
            /\ Goto(c, "reading")
            /\ UNCHANGED outcome
    /\ UNCHANGED <<now, daemonVars, shutdown, grant, seen, ttyVars, connVars,
                   key, child, shown>>

(* ------------------------- clients and the clock ------------------------ *)

\* A client connects and sends request r, perhaps not for the first time:
\* send_request in mcp.rs resends a request unchanged.
Connect(c, r) ==
    /\ phase \in {"serving", "closing"}
    /\ pc[c] = "idle"
    /\ r.time <= now + MaxLead
    /\ req' = [req EXCEPT ![c] = r]
    /\ born' = [born EXCEPT ![c] = life]
    /\ Goto(c, "backlog")
    /\ UNCHANGED <<now, daemonVars, loopVars, grant, seen, ttyVars, key, outcome,
                   child, shown>>

\* Time passes, but not while a handler is between its freshness check and
\* try_insert (module ReplayWindow lifts this).
Tick ==
    /\ now < MaxTime
    /\ \A c \in Conn : pc[c] # "insert"
    /\ now' = now + 1
    /\ UNCHANGED <<daemonVars, loopVars, grant, seen, ttyVars, pc, connVars, key,
                   outcome, child, shown>>

(* ------------------------------ the handler ----------------------------- *)

\* From handler entry to the replay gate: the peer's uid, the request line
\* with its deadline, the JSON, validate, the forward_agent rule,
\* check_freshness and sanitize_env.  A wrong uid and an empty line close the
\* connection without a response; every other failure answers an error.
Read(c) ==
    /\ pc[c] = "reading"
    /\ \/ /\ Goto(c, "exit")
          /\ UNCHANGED outcome
       \/ Settle(c, "error", "exit")
       \/ /\ req[c].admissible /\ Fresh(req[c].time)
          /\ Goto(c, "insert")
          /\ UNCHANGED outcome
    /\ UNCHANGED <<now, daemonVars, loopVars, grant, seen, ttyVars, connVars, key,
                   child, shown>>

\* A mutant of Insert: check the id and leave remembering it for later.
InsertForgets(c) ==
    /\ pc[c] = "insert"
    /\ seen' = EvictStale(seen, now)
    /\ IF Known(seen, req[c].id, now)
       THEN Settle(c, "duplicate", "exit")
       ELSE Goto(c, "dispatch") /\ UNCHANGED outcome
    /\ UNCHANGED <<now, daemonVars, loopVars, grant, ttyVars, connVars, key, child, shown>>

\* try_insert under the SeenIds mutex, then the dispatch on `action`.
Insert(c) ==
    /\ pc[c] = "insert"
    /\ seen' = TryInsert(seen, req[c].id, now)
    /\ IF Known(seen, req[c].id, now)
       THEN Settle(c, "duplicate", "exit")
       ELSE CASE req[c].action = "ping" -> Settle(c, "pong", "exit")
              [] req[c].action = "stop" -> Goto(c, "stopping") /\ UNCHANGED outcome
              [] req[c].action = "exec" -> Goto(c, "dispatch") /\ UNCHANGED outcome
    /\ UNCHANGED <<now, daemonVars, loopVars, grant, ttyVars, connVars, key, child, shown>>

\* A mutant of StopReply: the flag is raised first, the reply is left to chance.
StopFlagFirst(c) ==
    /\ pc[c] = "stopping"
    /\ shutdown' = TRUE
    /\ Goto(c, "stopped")
    /\ UNCHANGED <<now, daemonVars, phase, inFlight, grant, seen, ttyVars, connVars,
                   key, outcome, child, shown>>

\* Action::Stop replies ok (after a notice on the terminal if it is free) ...
StopReply(c) ==
    /\ pc[c] = "stopping"
    /\ Settle(c, "ok", "stopped")
    /\ UNCHANGED <<now, daemonVars, loopVars, grant, seen, ttyVars, connVars, key,
                   child, shown>>

\* ... and only then raises the flag.
StopFlag(c) ==
    /\ pc[c] = "stopped"
    /\ shutdown' = TRUE
    /\ Goto(c, "exit")
    /\ UNCHANGED <<now, daemonVars, phase, inFlight, grant, seen, ttyVars, connVars,
                   key, outcome, child, shown>>

\* Action::Exec: pkexec and a session grant go straight to execution (the
\* latter with an audit line and, if the terminal is free, a banner).
Dispatch(c) ==
    /\ pc[c] = "dispatch"
    /\ LET prompted == IF req[c].privileged THEN ~ Cfg.pkexec ELSE ~ grant
       IN  Goto(c, IF prompted THEN "wantPrompt" ELSE "spawn")
    /\ UNCHANGED <<now, daemonVars, loopVars, grant, seen, ttyVars, connVars, key,
                   outcome, child, shown>>

BeginPrompt(c) ==
    /\ pc[c] = "wantPrompt"
    /\ ttyLock = NoConn
    /\ ttyLock' = c
    /\ Goto(c, "prompting")
    /\ UNCHANGED <<now, daemonVars, loopVars, grant, seen, poisoned, foreground, saved,
                   connVars, key, outcome, child, shown>>

\* A mutant of EndPrompt: the lock is not released before execution.
EndPromptHolding(c) ==
    /\ pc[c] = "prompting"
    /\ \E k \in Key : key' = [key EXCEPT ![c] = k]
    /\ Goto(c, "decided")
    /\ UNCHANGED <<now, daemonVars, loopVars, grant, seen, ttyVars, connVars, outcome,
                   child, shown>>

\* The prompt reads a key, times out or fails, and the lock is released.  With
\* a child in the foreground the daemon's read of /dev/tty fails with EIO.
EndPrompt(c) ==
    /\ pc[c] = "prompting"
    /\ \E k \in IF foreground = NoConn THEN Key ELSE {"ioerror"} :
          key' = [key EXCEPT ![c] = k]
    /\ ttyLock' = NoConn
    /\ Goto(c, "decided")
    /\ UNCHANGED <<now, daemonVars, loopVars, grant, seen, poisoned, foreground, saved,
                   connVars, outcome, child, shown>>

\* A mutant of Decide: an `a` grants the session whether or not it is eligible.
DecideAnySession(c) ==
    /\ pc[c] = "decided"
    /\ LET p == PromptResult(key[c], req[c].privileged)
       IN  /\ IF p \in {"Approved", "ApprovedAlways"}
              THEN Goto(c, "spawn") /\ UNCHANGED outcome
              ELSE Settle(c, IF p = "Denied" THEN "denied" ELSE "error", "display")
           /\ grant' = (grant \/ p = "ApprovedAlways")
    /\ UNCHANGED <<now, daemonVars, loopVars, seen, ttyVars, connVars, key, child, shown>>

\* The match on the prompt's result, after the lock was released.
Decide(c) ==
    /\ pc[c] = "decided"
    /\ LET p == PromptResult(key[c], req[c].privileged)
       IN  \/ /\ p = "Approved" \/ (p = "ApprovedAlways" /\ ~ req[c].privileged)
              /\ Goto(c, "spawn")
              /\ UNCHANGED outcome
           \/ /\ p = "Denied" \/ (p = "ApprovedAlways" /\ req[c].privileged)
              /\ Settle(c, "denied", "display")
           \/ p = "Timeout" /\ Settle(c, "timeout", "display")
           \/ p = "Error" /\ Settle(c, "error", "display")
    /\ grant' = \/ grant
                \/ /\ PromptResult(key[c], req[c].privileged) = "ApprovedAlways"
                   /\ ~ req[c].privileged
                   /\ Cfg.eligible
    /\ UNCHANGED <<now, daemonVars, loopVars, seen, ttyVars, connVars, key, child, shown>>

\* Command::spawn of the single child, or of every stage of the pipeline: when a
\* stage fails to spawn the earlier ones are killed.
Spawn(c) ==
    /\ pc[c] = "spawn"
    /\ \/ /\ Settle(c, "error", "display")
          /\ \/ UNCHANGED child
             \/ /\ req[c].stages = 2 /\ ~ UsesPkexec(c)
                /\ child' = [child EXCEPT ![c] = "exited"]
       \/ /\ child' = [child EXCEPT ![c] = "running"]
          /\ Goto(c, IF TakesForeground(c) THEN "wantForeground" ELSE "wait")
          /\ UNCHANGED outcome
    /\ UNCHANGED <<now, daemonVars, loopVars, grant, seen, ttyVars, connVars, key, shown>>

\* ForegroundGuard::take: blocks for the lock; with no terminal, or if
\* tcsetpgrp fails, it gives the lock back at once and there is no guard.
TakeForeground(c) ==
    /\ pc[c] = "wantForeground"
    /\ ttyLock = NoConn
    /\ \/ /\ ttyLock' = c
          /\ saved' = foreground
          /\ foreground' = c
       \/ UNCHANGED <<ttyLock, saved, foreground>>
    /\ Goto(c, "wait")
    /\ UNCHANGED <<now, daemonVars, loopVars, grant, seen, poisoned, connVars, key,
                   outcome, child, shown>>

\* The command's processes exit, whether or not a handler still waits for them.
ChildExits(c) ==
    /\ child[c] = "running"
    /\ child' = [child EXCEPT ![c] = "exited"]
    /\ UNCHANGED <<now, daemonVars, loopVars, grant, seen, ttyVars, pc, connVars, key,
                   outcome, shown>>

\* try_wait finds the exit status before the deadline.
Reap(c) ==
    /\ pc[c] = "wait"
    /\ child[c] = "exited"
    /\ Goto(c, "drain")
    /\ UNCHANGED <<now, daemonVars, loopVars, grant, seen, ttyVars, connVars, key,
                   outcome, child, shown>>

\* The execution deadline: the group is killed.  run_single_command then
\* returns its error at once; a pipeline still joins its drains.
ExecTimeout(c) ==
    /\ pc[c] = "wait"
    /\ child[c] = "running"
    /\ child' = [child EXCEPT ![c] = "exited"]
    /\ IF UsesPkexec(c) \/ req[c].stages = 1
       THEN Settle(c, "error", "display") /\ DropGuard(c)
       ELSE Settle(c, "error", "drain") /\ UNCHANGED <<ttyLock, foreground>>
    /\ UNCHANGED <<now, daemonVars, loopVars, grant, seen, poisoned, saved, connVars,
                   key, shown>>

\* Both pipes have reached end of file and the drains are joined.
Drained(c) ==
    /\ pc[c] = "drain"
    /\ Settle(c, IF outcome[c] = "none" THEN "ok" ELSE outcome[c], "display")
    /\ DropGuard(c)
    /\ UNCHANGED <<now, daemonVars, loopVars, grant, seen, poisoned, saved, connVars,
                   key, child, shown>>

\* A mutant of Display: every result waits for the terminal.
DisplayWaits(c) ==
    /\ pc[c] = "display"
    /\ ttyLock = NoConn
    /\ shown' = shown \cup {c}
    /\ Goto(c, "exit")
    /\ UNCHANGED <<now, daemonVars, loopVars, grant, seen, ttyVars, connVars, key,
                   outcome, child>>

\* The result on the terminal, then the response.  A privileged result waits
\* for the lock; an unprivileged one is skipped when try_lock fails, which it
\* does when the lock is held or poisoned; pkexec has its own dialog.
Display(c) ==
    /\ pc[c] = "display"
    /\ \/ UsesPkexec(c) /\ UNCHANGED shown
       \/ /\ req[c].privileged /\ ~ Cfg.pkexec
          /\ ttyLock = NoConn
          /\ shown' = shown \cup {c}
       \/ /\ ~ req[c].privileged
          /\ shown' = IF ttyLock = NoConn /\ ~ poisoned THEN shown \cup {c} ELSE shown
    /\ Goto(c, "exit")
    /\ UNCHANGED <<now, daemonVars, loopVars, grant, seen, ttyVars, connVars, key,
                   outcome, child>>

\* The thread ends: the stream is closed, then InFlightGuard is dropped.
Finish(c) ==
    /\ pc[c] = "exit"
    /\ inFlight' = inFlight - 1
    /\ Goto(c, "done")
    /\ UNCHANGED <<now, daemonVars, phase, shutdown, grant, seen, ttyVars, connVars, key,
                   outcome, child, shown>>

\* Mutants of Panic: in_flight is decremented by the unwinding and again at the
\* end; it is decremented after handle_connection, which unwinding skips.
PanicCountsTwice(c) ==
    /\ pc[c] \in {"prompting", "wait"}
    /\ inFlight' = inFlight - 1
    /\ DropGuard(c)
    /\ Goto(c, "exit")
    /\ UNCHANGED <<now, daemonVars, phase, shutdown, grant, seen, poisoned, saved, connVars,
                   key, outcome, child, shown>>

PanicLeaks(c) ==
    /\ pc[c] \in {"prompting", "wait"}
    /\ DropGuard(c)
    /\ Goto(c, "done")
    /\ UNCHANGED <<now, daemonVars, loopVars, grant, seen, poisoned, saved, connVars, key,
                   outcome, child, shown>>

\* The prompter panics, or a drain thread cannot be spawned while the child
\* runs.  Unwinding releases what the handler holds, leaving the lock
\* poisoned, and answers nothing; the children of a pipeline are killed, a
\* single child is not.
Panic(c) ==
    /\ pc[c] \in {"prompting", "wait"}
    /\ child' = IF child[c] = "running" /\ req[c].stages = 2 /\ ~ UsesPkexec(c)
                THEN [child EXCEPT ![c] = "exited"] ELSE child
    /\ IF pc[c] = "prompting"
       THEN ttyLock' = NoConn /\ UNCHANGED foreground
       ELSE DropGuard(c)
    /\ poisoned' = (poisoned \/ ttyLock = c)
    /\ Goto(c, "exit")
    /\ UNCHANGED <<now, daemonVars, loopVars, grant, seen, saved, connVars, key, outcome,
                   shown>>

\* The steps a handler takes as soon as it is scheduled, or at a deadline.
Handler(c) ==
    \/ Read(c) \/ Insert(c) \/ StopReply(c) \/ StopFlag(c) \/ Dispatch(c)
    \/ BeginPrompt(c) \/ Decide(c)
    \/ Spawn(c) \/ TakeForeground(c) \/ Reap(c) \/ ExecTimeout(c) \/ Drained(c)
    \/ Display(c) \/ Finish(c)

\* The thread of main: the accept loop and what follows it.
Loop == LoopReturn \/ Exit \/ \E c \in Conn : Accept(c)

Next ==
    \/ Start \/ Kill \/ Loop
    \/ Tick
    \/ \E c \in Conn :
         \/ Handler(c) \/ EndPrompt(c) \/ Panic(c) \/ ChildExits(c)
         \/ \E r \in Requests : Connect(c, r)

Spec == Init /\ [][Next]_vars

\* Every thread that can run is run in the end.  A thread waiting for the lock
\* is not promised it while others keep taking it.  For Reap and ExecTimeout it
\* is the execution deadline, for Drained it is an assumption on the command:
\* whatever inherited its pipes closes them.  Nothing is assumed of the human,
\* of clients, of the clock, or of how soon a child exits.
FairSpec ==
    /\ Spec
    /\ WF_vars(Loop)
    /\ \A c \in Conn : WF_vars(Handler(c))

\* PROMPT_TIMEOUT: a prompt ends even if the human does nothing.
PromptsEnd == \A c \in Conn : WF_vars(EndPrompt(c))
-----------------------------------------------------------------------------
TypeOK ==
    /\ now \in Nat
    /\ life \in 0..MaxLives
    /\ phase \in {"down", "serving", "closing", "returned"}
    /\ config \in [0..MaxLives -> Config]
    /\ shutdown \in BOOLEAN /\ grant \in BOOLEAN /\ poisoned \in BOOLEAN
    /\ seen \in Memory
    /\ inFlight \in Nat
    /\ ttyLock \in Conn \cup {NoConn}
    /\ foreground \in Conn \cup {NoConn}
    /\ saved \in Conn \cup {NoConn}
    /\ pc \in [Conn -> Location]
    /\ req \in [Conn -> Requests \cup {NoReq}]
    /\ born \in [Conn -> 0..MaxLives]
    /\ key \in [Conn -> Key \cup {"unasked"}]
    /\ outcome \in [Conn -> Outcome]
    /\ child \in [Conn -> {"none", "running", "exited"}]
    /\ shown \in SUBSET Conn

\* The terminal has one user at a time.  While a prompt is open its handler
\* holds the lock and no child owns the foreground, so the prompt can read
\* /dev/tty; a child owns the foreground only under its own handler's guard;
\* and no thread ends, normally or by panic, still holding the lock.
TerminalExclusive ==
    /\ \A c \in Conn : pc[c] = "prompting" => ttyLock = c /\ foreground = NoConn
    /\ foreground # NoConn => ttyLock = foreground
    /\ ttyLock # NoConn => pc[ttyLock] \in {"prompting", "wait", "drain"}

\* in_flight counts the live handlers exactly, whatever way they end, and so
\* their number never passes the cap.
InFlightExact ==
    /\ inFlight = Cardinality({c \in Conn : pc[c] \in Live})
    /\ inFlight <= MaxInFlight

Ran(c) == child[c] # "none"

\* Consent for the session: an `a` at an unprivileged prompt of an eligible daemon.
SessionConsent(l) ==
    /\ config[l].eligible
    /\ \E d \in Conn : born[d] = l /\ key[d] = "a" /\ ~ req[d].privileged

\* Nothing runs without a decision of this daemon's session: as root only after
\* a `y` at its own prompt (or through pkexec, which asks itself); otherwise
\* after its own `y` or `a`, or unasked after session consent.  The grant never
\* outlives the daemon it was given to.
ConsentRespected ==
    /\ \A c \in Conn : Ran(c) =>
          IF req[c].privileged
          THEN key[c] = "y" \/ (key[c] = "unasked" /\ config[born[c]].pkexec)
          ELSE key[c] \in {"y", "a"} \/ (key[c] = "unasked" /\ SessionConsent(born[c]))
    /\ grant => SessionConsent(life)

\* Of all the deliveries of one request to one daemon at most one is ever put to
\* the human or executed: a retry is neither asked again nor run again, and in
\* particular does not run what was denied or timed out.
OneVerdict ==
    \A c, d \in Conn :
        /\ c # d /\ req[c] = req[d] /\ born[c] = born[d]
        /\ Ran(c) \/ key[c] # "unasked"
        => ~ Ran(d) /\ key[d] = "unasked"

\* The stop request was answered before the flag that ends the process is set.
StopAnsweredFirst ==
    shutdown => \E c \in Conn : /\ born[c] = life /\ req[c].action = "stop"
                                /\ outcome[c] = "ok"

\* Once stop has been answered the process ends, even with a prompt open that
\* nobody answers, a command running, or clients still connecting.
ShutdownCompletes == shutdown ~> phase = "down"

\* An unprivileged command, once approved, runs and is answered even if a
\* prompt opened meanwhile is never answered and never times out.
PromptsDelayNobody ==
    \A c \in Conn :
        pc[c] = "spawn" /\ ~ req[c].privileged ~> pc[c] \in {"done", "dead"}

\* If prompts do end, every client that connects is served or sees its
\* connection closed: handlers that wait for the lock, for a prompt, for their
\* command or for each other all get through, panics included.
EveryConnectionEnds ==
    PromptsEnd => \A c \in Conn : pc[c] = "backlog" ~> pc[c] \in {"done", "dead"}
-----------------------------------------------------------------------------
(* What the comments and the documents say and the code does not do.         *)

\* handle_connection, on control actions: "a captured stop request cannot be
\* replayed later to take the daemon down".
StopNotReplayed ==
    \A c, d \in Conn :
        /\ c # d /\ req[c] = req[d] /\ req[c].action = "stop"
        /\ outcome[c] = "ok"
        => outcome[d] # "ok"

\* lock_recover: "A panicking prompter must not poison the daemon for every
\* subsequent request."  A result that finds the terminal free is shown on it.
ResultShown ==
    [][\A c \in Conn : Display(c) /\ ~ UsesPkexec(c) /\ ttyLock = NoConn
           => c \in shown']_vars
=============================================================================

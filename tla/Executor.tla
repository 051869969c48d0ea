------------------------------ MODULE Executor ------------------------------
(***************************************************************************)
(* One execution of an approved request (src/executor.rs): the handler     *)
(* thread in exec_pkexec, exec_sudo or exec_direct, the children it        *)
(* spawns, what those fork, and the threads that drain their pipes.        *)
(* ApprovalDaemon takes an execution as three steps (start, take the       *)
(* terminal, end); this module is what happens between them.               *)
(*                                                                         *)
(* A stage is its leader (the process the daemon spawned) and at most one  *)
(* descendant that inherited the leader's stdout and stderr.  Data are     *)
(* counted in units, of which a pipe holds PipeSize; what one stage of a   *)
(* pipeline writes to the next is left out, because the daemon never reads *)
(* it.                                                                     *)
(***************************************************************************)
EXTENDS Integers, FiniteSets, FiniteSetsExt

CONSTANTS
    MaxStages,       \* bound on the stages of a request
    PipeSize,        \* units a pipe holds before its writer blocks
    MaxOutput,       \* MAX_OUTPUT_BYTES, in units
    MaxWrites        \* bound on the units all the processes write

ASSUME ExecutorConstants ==
    /\ MaxStages \in Nat \ {0}
    /\ PipeSize \in Nat \ {0} /\ MaxOutput \in Nat /\ MaxWrites \in Nat

Stage  == 1..MaxStages
Stream == 0..MaxStages        \* 0: stdout of the last stage; i: stderr of stage i

VARIABLES
    shape,       \* [via, stages]: how the request is run, and how many argv it has
    autoReap,    \* SIGCHLD is ignored (inherited): an exit status is lost
    pc,          \* "spawn", "tty", "poll", "kill", "reap", "join", "told"
    cause,       \* why the execution failed: "none", "spawn", "timeout", "wait"
    answer,      \* the Response: "none", "ok", or the cause
    tty,         \* tty_lock: "free", "prompt" (another handler's), "child" (ours)
    expired,     \* the deadline has passed
    status,      \* exits[i]: "none", "own", "synthetic" (synthetic_failure_status)
    leader,      \* "unborn", "running", "stopped", "doomed", "zombie", "reaped"
    descendant,  \* "none", "group" (in the leader's group), "left" (of it), "gone"
    signalled,   \* stages whose pid the daemon sent SIGKILL
    refused,     \* those of them whose processes it was not allowed to kill
    pending,     \* units written to a stream and not read
    written,     \* units ever written to it
    drain,       \* spawn_drain's thread: "off", "reading", "done"
    kept,        \* buf.len()
    truncated    \* its flag

handler == <<pc, cause, answer, expired, status>>
process == <<leader, descendant>>
streams == <<pending, written, drain, kept, truncated>>
fixed   == <<shape, autoReap>>
vars    == <<fixed, handler, tty, process, signalled, refused, streams>>

----------------------------------------------------------------------------
\* exec_pkexec wraps any pipeline in one `sh -c`; the others spawn each stage.
Children == IF shape.via = "pkexec" THEN 1 ELSE shape.stages

\* run_single_command, as opposed to exec_pipeline.
Single == Children = 1

\* The fg_lock that is Some: only a single privileged child gets the terminal.
WantsTerminal == Single /\ shape.via # "direct"

Streams == 0..Children
Owner(s) == IF s = 0 THEN Children ELSE s

LeaderLives(i) == leader[i] \in {"running", "stopped", "doomed"}
DescendantLives(i) == descendant[i] \in {"group", "left"}

\* A stream is at its end when nobody holds its write end any more.
Closed(s) == ~LeaderLives(Owner(s)) /\ ~DescendantLives(Owner(s))

\* Child::wait, or the kernel when nobody will wait.
Ended == IF autoReap THEN "reaped" ELSE "zombie"

Init ==
    /\ shape \in [via : {"pkexec", "sudo", "direct"}, stages : Stage]
    /\ autoReap \in BOOLEAN
    /\ pc = "spawn" /\ cause = "none" /\ answer = "none" /\ expired = FALSE
    /\ tty = "free"
    /\ status = [i \in Stage |-> "none"]
    /\ leader = [i \in Stage |-> "unborn"]
    /\ descendant = [i \in Stage |-> "none"]
    /\ signalled = {} /\ refused = {}
    /\ pending = [s \in Stream |-> 0] /\ written = [s \in Stream |-> 0]
    /\ drain = [s \in Stream |-> "off"]
    /\ kept = [s \in Stream |-> 0] /\ truncated = [s \in Stream |-> FALSE]

----------------------------------------------------------------------------
(* The handler thread.                                                     *)

Spawned == {i \in 1..Children : leader[i] # "unborn"}

\* Both paths start the drains only after the last thing they wait for.
StartDrains == drain' = [s \in Stream |-> IF s \in Streams THEN "reading" ELSE "off"]

SpawnStage ==
    /\ pc = "spawn"
    /\ LET i == Cardinality(Spawned) + 1 IN
         /\ leader' = [leader EXCEPT ![i] = "running"]
         /\ IF i < Children
            THEN UNCHANGED <<pc, drain>>
            ELSE IF WantsTerminal
            THEN pc' = "tty" /\ UNCHANGED drain
            ELSE pc' = "poll" /\ StartDrains
    /\ UNCHANGED <<fixed, cause, answer, expired, status, tty, descendant,
                   signalled, refused, pending, written, kept, truncated>>

\* The earlier stages go to KillOnDrop, which runs before the error returns.
SpawnFails ==
    /\ pc = "spawn"
    /\ pc' = "kill" /\ cause' = "spawn"
    /\ UNCHANGED <<fixed, answer, expired, status, tty, process, signalled,
                   refused, streams>>

\* ForegroundGuard::take: wait for tty_lock, then the swap, or no swap (and
\* the lock given back) when there is no controlling terminal.
TakeForeground ==
    /\ pc = "tty" /\ tty = "free"
    /\ tty' \in {"child", "free"}
    /\ pc' = "poll" /\ StartDrains
    /\ UNCHANGED <<fixed, cause, answer, expired, status, process, signalled,
                   refused, pending, written, kept, truncated>>

\* One pass of try_wait over the children not seen to have ended.
TryWait ==
    [i \in Stage |->
        IF i \notin 1..Children \/ status[i] # "none" THEN status[i]
        ELSE IF leader[i] = "zombie" THEN "own"
        ELSE IF leader[i] = "reaped" /\ ~Single THEN "synthetic"
        ELSE "none"]

\* A single child whose status is lost: WaitError::Io.
WaitFails == Single /\ leader[1] = "reaped" /\ status[1] = "none"

Poll ==
    /\ pc = "poll"
    /\ status' = TryWait
    /\ leader' = [i \in Stage |->
                    IF leader[i] = "zombie" THEN "reaped" ELSE leader[i]]
    /\ LET done == \A i \in 1..Children : TryWait[i] # "none" IN
         \/ WaitFails /\ pc' = "kill" /\ cause' = "wait"
         \/ ~WaitFails /\ done /\ pc' = "join" /\ UNCHANGED cause
         \/ ~WaitFails /\ ~done /\ expired /\ pc' = "kill" /\ cause' = "timeout"
         \/ ~WaitFails /\ ~done /\ ~expired /\ UNCHANGED <<pc, cause>>
    /\ UNCHANGED <<fixed, answer, expired, tty, descendant, signalled, refused,
                   streams>>

Expire ==
    /\ pc = "poll" /\ ~expired
    /\ expired' = TRUE
    /\ UNCHANGED <<fixed, pc, cause, answer, status, tty, process, signalled,
                   refused, streams>>

\* (for mutation) every child is killed, those already waited for too
TargetsAll == Spawned

\* The children kill_group is called for: those without an exit status.
Targets == {i \in Spawned : status[i] = "none"}

\* (for mutation) child.kill() instead of killpg
SignalLeader(i) ==
    /\ leader' = [leader EXCEPT ![i] = IF LeaderLives(i) THEN "doomed" ELSE @]
    /\ UNCHANGED descendant

\* killpg(SIGKILL) reaches everyone in the leader's group.
SignalGroup(i) ==
    /\ leader' = [leader EXCEPT ![i] = IF LeaderLives(i) THEN "doomed" ELSE @]
    /\ descendant' = [descendant EXCEPT ![i] = IF @ = "group" THEN "gone" ELSE @]

\* killpg and child.kill() may both be refused when the group runs as another
\* user; neither result is looked at.
KillGroup ==
    /\ pc = "kill" /\ Targets # {}
    /\ LET i == Min(Targets) IN
         /\ signalled' = signalled \cup {i}
         /\ \/ SignalGroup(i) /\ UNCHANGED refused
            \/ /\ shape.via # "direct"
               /\ refused' = refused \cup {i}
               /\ UNCHANGED process
    /\ pc' = "reap"
    /\ UNCHANGED <<fixed, cause, answer, expired, status, tty, streams>>

\* The child.wait() at the end of kill_group.
Reap ==
    /\ pc = "reap"
    /\ LET i == Min(Targets) IN
         /\ leader[i] \in {"zombie", "reaped"}
         /\ leader' = [leader EXCEPT ![i] = "reaped"]
         /\ status' = [status EXCEPT ![i] = "synthetic"]
    /\ pc' = "kill"
    /\ UNCHANGED <<fixed, cause, answer, expired, tty, descendant, signalled,
                   refused, streams>>

\* The answer, and the end of the scope: ForegroundGuard restores and unlocks.
Tell(what) ==
    /\ pc' = "told" /\ answer' = what
    /\ tty' = IF tty = "child" THEN "free" ELSE tty

\* A single command, and a failed spawn, answer without joining the drains; a
\* pipeline that timed out joins them first.
KillsDone ==
    /\ pc = "kill" /\ Targets = {}
    /\ IF Single \/ cause = "spawn"
       THEN Tell(cause)
       ELSE pc' = "join" /\ UNCHANGED <<answer, tty>>
    /\ UNCHANGED <<fixed, cause, expired, status, process, signalled, refused, streams>>

JoinDrains ==
    /\ pc = "join"
    /\ \A s \in Streams : drain[s] = "done"
    /\ Tell(IF cause = "none" THEN "ok" ELSE cause)
    /\ UNCHANGED <<fixed, cause, expired, status, process, signalled, refused, streams>>

----------------------------------------------------------------------------
(* The drains.  Past the cap the thread reads on and keeps nothing.        *)

\* (for mutation) `>=` for `>`; the whole chunk kept; no reading past the cap
OverflowsAtCap(s, n) == kept[s] + n >= MaxOutput
KeptWhole(s, n) == kept[s] + n
DrainReadToCap(s) ==
    /\ drain[s] = "reading" /\ ~truncated[s]
    /\ \E n \in 1..pending[s] :
         /\ pending' = [pending EXCEPT ![s] = @ - n]
         /\ kept' = [kept EXCEPT ![s] = Min({kept[s] + n, MaxOutput})]
         /\ truncated' = [truncated EXCEPT ![s] = kept[s] + n > MaxOutput]
    /\ UNCHANGED <<fixed, handler, tty, process, signalled, refused, written, drain>>

Overflows(s, n) == kept[s] + n > MaxOutput
Kept(s, n) == IF kept[s] + n > MaxOutput THEN MaxOutput ELSE kept[s] + n

DrainRead(s) ==
    /\ drain[s] = "reading"
    /\ \E n \in 1..pending[s] :
         /\ pending' = [pending EXCEPT ![s] = @ - n]
         /\ kept' = [kept EXCEPT ![s] = Kept(s, n)]
         /\ truncated' = [truncated EXCEPT ![s] = @ \/ Overflows(s, n)]
    /\ UNCHANGED <<fixed, handler, tty, process, signalled, refused, written, drain>>

DrainEnds(s) ==
    /\ drain[s] = "reading" /\ pending[s] = 0 /\ Closed(s)
    /\ drain' = [drain EXCEPT ![s] = "done"]
    /\ UNCHANGED <<fixed, handler, tty, process, signalled, refused, pending,
                   written, kept, truncated>>

----------------------------------------------------------------------------
(* The processes, and the other handlers' prompts.                         *)

WrittenInAll == MapThenSumSet(LAMBDA s : written[s], Stream)

Write(s) ==
    /\ s \in Streams /\ WrittenInAll < MaxWrites
    /\ leader[Owner(s)] = "running" \/ DescendantLives(Owner(s))
    /\ pending[s] < PipeSize
    /\ pending' = [pending EXCEPT ![s] = @ + 1]
    /\ written' = [written EXCEPT ![s] = @ + 1]
    /\ UNCHANGED <<fixed, handler, tty, process, signalled, refused, drain,
                   kept, truncated>>

Fork(i) ==
    /\ leader[i] = "running" /\ descendant[i] = "none"
    /\ descendant' = [descendant EXCEPT ![i] = "group"]
    /\ UNCHANGED <<fixed, handler, tty, leader, signalled, refused, streams>>

LeaveGroup(i) ==
    /\ descendant[i] = "group"
    /\ descendant' = [descendant EXCEPT ![i] = "left"]
    /\ UNCHANGED <<fixed, handler, tty, leader, signalled, refused, streams>>

\* It exits, or closes what it inherited.
DescendantEnds(i) ==
    /\ DescendantLives(i)
    /\ descendant' = [descendant EXCEPT ![i] = "gone"]
    /\ UNCHANGED <<fixed, handler, tty, leader, signalled, refused, streams>>

\* The child reads /dev/tty before the terminal is its own: SIGTTIN.
Stops(i) ==
    /\ leader[i] = "running" /\ WantsTerminal /\ tty # "child"
    /\ leader' = [leader EXCEPT ![i] = "stopped"]
    /\ UNCHANGED <<fixed, handler, tty, descendant, signalled, refused, streams>>

Exits(i) ==
    /\ leader[i] = "running"
    /\ leader' = [leader EXCEPT ![i] = Ended]
    /\ UNCHANGED <<fixed, handler, tty, descendant, signalled, refused, streams>>

\* SIGKILL takes effect, late if the process is in uninterruptible sleep.
Dies(i) ==
    /\ leader[i] = "doomed"
    /\ leader' = [leader EXCEPT ![i] = Ended]
    /\ UNCHANGED <<fixed, handler, tty, descendant, signalled, refused, streams>>

\* Another handler's prompt holds tty_lock, until its answer or its timeout.
\* It matters only while this execution may wait for the lock.
PromptBegins ==
    /\ WantsTerminal /\ pc \in {"spawn", "tty"}
    /\ tty = "free" /\ tty' = "prompt"
    /\ UNCHANGED <<fixed, handler, process, signalled, refused, streams>>

PromptEnds ==
    /\ tty = "prompt" /\ tty' = "free"
    /\ UNCHANGED <<fixed, handler, process, signalled, refused, streams>>

----------------------------------------------------------------------------
Handler ==
    \/ SpawnStage \/ SpawnFails \/ TakeForeground \/ Poll \/ KillGroup
    \/ Reap \/ KillsDone \/ JoinDrains

Drains == \E s \in Stream : DrainRead(s) \/ DrainEnds(s)

Environment ==
    \/ Expire \/ PromptBegins \/ PromptEnds
    \/ \E s \in Stream : Write(s)
    \/ \E i \in Stage :
         \/ Fork(i) \/ LeaveGroup(i) \/ DescendantEnds(i)
         \/ Stops(i) \/ Exits(i) \/ Dies(i)

Next == Handler \/ Drains \/ Environment

\* The handler and its threads run, the clock reaches the deadline, a prompt
\* ends, and prompts that come again and again do not keep the lock for ever.  No
\* process has to end, not even one that was sent SIGKILL.
Fairness ==
    /\ WF_vars(SpawnStage \/ SpawnFails) /\ WF_vars(PromptEnds)
    /\ SF_vars(TakeForeground)
    /\ WF_vars(Poll) /\ WF_vars(Expire)
    /\ WF_vars(KillGroup) /\ WF_vars(Reap) /\ WF_vars(KillsDone) /\ WF_vars(JoinDrains)
    /\ \A s \in Stream : WF_vars(DrainRead(s)) /\ WF_vars(DrainEnds(s))

Spec == Init /\ [][Next]_vars /\ Fairness

----------------------------------------------------------------------------
\* The type invariant.
TypeOK ==
    /\ shape \in [via : {"pkexec", "sudo", "direct"}, stages : Stage]
    /\ autoReap \in BOOLEAN /\ expired \in BOOLEAN
    /\ pc \in {"spawn", "tty", "poll", "kill", "reap", "join", "told"}
    /\ cause \in {"none", "spawn", "timeout", "wait"}
    /\ answer \in {"none", "ok", "spawn", "timeout", "wait"}
    /\ tty \in {"free", "prompt", "child"}
    /\ status \in [Stage -> {"none", "own", "synthetic"}]
    /\ leader \in [Stage -> {"unborn", "running", "stopped", "doomed", "zombie", "reaped"}]
    /\ descendant \in [Stage -> {"none", "group", "left", "gone"}]
    /\ refused \subseteq signalled /\ signalled \subseteq Stage
    /\ pending \in [Stream -> 0..PipeSize] /\ written \in [Stream -> Nat]
    /\ drain \in [Stream -> {"off", "reading", "done"}]
    /\ kept \in [Stream -> 0..MaxOutput] /\ truncated \in [Stream -> BOOLEAN]

\* Whatever is answered, every process the daemon spawned has ended and was
\* waited for, the terminal's lock is not kept, and nobody of its process
\* group is left either, unless the kernel refused the kill.  (A descendant
\* that left the group may survive an error.)
NothingLeftBehind ==
    answer # "none" =>
        /\ \A i \in Stage : leader[i] \in {"unborn", "reaped"}
        /\ \A i \in Stage : descendant[i] = "group" => i \in refused
        /\ tty # "child"

\* "ok" is answered only with everything: all that was written to the streams
\* the answer carries, up to the cap; the truncation flag says exactly whether
\* there was more; nobody is left who could still write; and no exit code is
\* made up (unless statuses are lost to an ignored SIGCHLD).
OkIsComplete ==
    answer = "ok" =>
        /\ \A s \in Streams :
             /\ kept[s] = Min({written[s], MaxOutput})
             /\ truncated[s] <=> written[s] > MaxOutput
             /\ Closed(s)
        /\ autoReap \/ \A i \in 1..Children : status[i] = "own"

\* SIGKILL is sent to a pid only while the daemon has not waited for it: after
\* that the number may be another process's.  (With SIGCHLD ignored the kernel
\* waits for it, and this is not so.)
KillsOnlyItsOwn ==
    [][~autoReap => \A i \in signalled' \ signalled :
            leader[i] \notin {"unborn", "reaped"}]_vars

\* Nobody is left who can hold the handler up: no process that survives its
\* SIGKILL, no descendant with a pipe in its hands.
Unheld ==
    \A i \in Stage :
        /\ leader[i] # "doomed"
        /\ i \in refused => ~LeaderLives(i)
        /\ ~DescendantLives(i)

\* The handler always answers, however long the stages themselves run or sleep,
\* and even if they stop on the terminal, once nobody it cannot kill is in its
\* way.  Without the hypothesis it need not: neither the wait after a kill nor
\* the joins have a deadline.
AnswersOnceUnheld == <>[]Unheld => <>(pc = "told")
=============================================================================

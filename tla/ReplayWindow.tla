---------------------------- MODULE ReplayWindow ----------------------------
(***************************************************************************)
(* The replay window of the daemon: the two gates of handle_connection     *)
(* that together keep one request from being accepted twice, and the       *)
(* clocks they read.                                                       *)
(*                                                                         *)
(*   - check_freshness compares the request's own `time` with SystemTime   *)
(*     (the wall clock) and clamps a time in the future to age zero;       *)
(*   - SeenIds::try_insert evicts by Instant (the monotonic clock).        *)
(*                                                                         *)
(* They are two critical sections of one handler thread, not one: any      *)
(* number of handlers may sit between the two, and a handler may be        *)
(* descheduled there.  The same request may be delivered any number of     *)
(* times (mcp.rs send_request resends it unchanged after an EOF).          *)
(*                                                                         *)
(* Three numbers say how far the environment departs from the ideal:       *)
(* MaxLead (a client's clock ahead of the daemon's), MaxStep (the wall     *)
(* clock stepped back) and MaxStall (a handler descheduled).               *)
(***************************************************************************)
EXTENDS SeenIds

CONSTANTS
    NoId,             \* no request
    Handler,          \* handler threads
    MaxRequestAge,    \* MAX_REQUEST_AGE
    MaxLead,          \* how far a request's time may lead the wall clock
    MaxStep,          \* how far the wall clock may be stepped
    MaxStall,         \* how long a handler may sit between the two gates
    MaxTime           \* bound on the monotonic clock

ASSUME WindowConstants ==
    /\ NoId \notin Id
    /\ MaxRequestAge \in Nat
    /\ MaxLead \in Nat /\ MaxStep \in Nat /\ MaxStall \in Nat /\ MaxTime \in Nat

VARIABLES
    mono,      \* Instant::now
    step,      \* wall clock minus monotonic clock
    time,      \* the `time` field of the request with each id
    seen,      \* the shared SeenIds
    passed,    \* the request each handler has found fresh and not yet inserted
    since,     \* when (mono) it found it fresh
    accepted,  \* history: how often each request got past both gates
    acceptedAt \* history: when (mono) it last did

vars == <<mono, step, time, seen, passed, since, accepted, acceptedAt>>

Wall == mono + step

\* parse_age: an age in ticks, zero for a time in the future.
Age(t) == IF t > Wall THEN 0 ELSE Wall - t

\* check_freshness
Fresh(t) == Age(t) <= MaxRequestAge
-----------------------------------------------------------------------------
Init ==
    /\ mono = 0
    /\ step \in 0..MaxStep
    /\ time \in [Id -> 0..(MaxTime + MaxStep + MaxLead)]
    /\ seen = NewMemory
    /\ passed = [h \in Handler |-> NoId]
    /\ since = [h \in Handler |-> 0]
    /\ accepted = [i \in Id |-> 0]
    /\ acceptedAt = [i \in Id |-> 0]

\* A delivery of the request reaches a handler and passes check_freshness.
\* (A delivery that fails it changes nothing: the handler answers and ends.)
CheckFreshness(h, i) ==
    /\ passed[h] = NoId
    /\ time[i] <= Wall + MaxLead
    /\ Fresh(time[i])
    /\ passed' = [passed EXCEPT ![h] = i]
    /\ since' = [since EXCEPT ![h] = mono]
    /\ UNCHANGED <<mono, step, time, seen, accepted, acceptedAt>>

\* A mutant of Insert: the id has been moved out of the request before it is used.
InsertMoved(h) ==
    /\ passed[h] # NoId
    /\ seen' = TryInsert(seen, NoId, mono)
    /\ passed' = [passed EXCEPT ![h] = NoId]
    /\ UNCHANGED <<mono, step, time, since, accepted, acceptedAt>>

\* try_insert under the SeenIds mutex.
Insert(h) ==
    /\ passed[h] # NoId
    /\ LET i == passed[h]
       IN  /\ seen' = TryInsert(seen, i, mono)
           /\ IF Known(seen, i, mono)
              THEN UNCHANGED <<accepted, acceptedAt>>
              ELSE /\ accepted' = [accepted EXCEPT ![i] = @ + 1]
                   /\ acceptedAt' = [acceptedAt EXCEPT ![i] = mono]
    /\ passed' = [passed EXCEPT ![h] = NoId]
    /\ UNCHANGED <<mono, step, time, since>>

Tick ==
    /\ mono < MaxTime
    /\ \A h \in Handler : passed[h] # NoId => mono - since[h] < MaxStall
    /\ mono' = mono + 1
    /\ UNCHANGED <<step, time, seen, passed, since, accepted, acceptedAt>>

\* The wall clock is set (NTP, an operator) while the monotonic one runs on.
StepWallClock ==
    /\ step' \in 0..MaxStep
    /\ UNCHANGED <<mono, time, seen, passed, since, accepted, acceptedAt>>

Next ==
    \/ \E h \in Handler, i \in Id : CheckFreshness(h, i)
    \/ \E h \in Handler : Insert(h)
    \/ Tick
    \/ StepWallClock

Spec == Init /\ [][Next]_vars
-----------------------------------------------------------------------------
TypeOK ==
    /\ mono \in Nat
    /\ step \in 0..MaxStep
    /\ time \in [Id -> Nat]
    /\ seen \in Memory
    /\ passed \in [Handler -> Id \cup {NoId}]
    /\ since \in [Handler -> Nat]
    /\ accepted \in [Id -> Nat]
    /\ acceptedAt \in [Id -> Nat]

\* No request gets past both gates twice, however often and however late it is
\* delivered, and however its deliveries interleave: the purpose of SeenIds.
AcceptedOnce == \A i \in Id : accepted[i] <= 1

\* The comment on REPLAY_RETENTION: any id that could still pass the freshness
\* check is also still in the set.
FreshIsRemembered ==
    \A i \in Id : accepted[i] > 0 /\ Fresh(time[i]) => i \in seen.set

\* The memory is bounded by age: when try_insert returns, every id it holds was
\* remembered at most ReplayRetention ago, and the set and the queue agree.  It
\* relies on the queue being in insertion order: eviction stops at the first
\* entry that is not stale.
NothingStaleAfterInsert ==
    [][\A h \in Handler : Insert(h) =>
          \A i \in seen'.set :
             \E n \in 1..Len(seen'.queue) :
                /\ seen'.queue[n].id = i
                /\ mono - seen'.queue[n].at <= ReplayRetention]_vars
=============================================================================

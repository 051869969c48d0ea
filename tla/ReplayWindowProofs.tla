-------------------------- MODULE ReplayWindowProofs -------------------------
(***************************************************************************)
(* AcceptedOnce and FreshIsRemembered for every number of ids and          *)
(* handlers, every retention and every amount of skew that the retention   *)
(* covers; and what is left of them when it does not.  The daemon's own    *)
(* numbers (src/server.rs: MAX_REQUEST_AGE 60 s, REPLAY_RETENTION 120 s)   *)
(* leave 60 s for MaxLead + MaxStep + MaxStall.                            *)
(***************************************************************************)
EXTENDS ReplayWindow, SeenIdsProofs

\* The retention covers the freshness window and all of the skew.
RetentionCovers == MaxRequestAge + MaxLead + MaxStep + MaxStall <= ReplayRetention

\* Every queued entry is the latest acceptance of its id, and dated in the past.
QueueIsHistory ==
    \A n \in 1..Len(seen.queue) :
        /\ accepted[seen.queue[n].id] > 0
        /\ seen.queue[n].at = acceptedAt[seen.queue[n].id]

\* An accepted request was not dated later than its acceptance plus the skew;
\* once forgotten, more than the retention has passed since.
AcceptedInWindow ==
    \A i \in Id : accepted[i] > 0 =>
        /\ acceptedAt[i] <= mono
        /\ time[i] <= acceptedAt[i] + MaxStep + MaxLead
        /\ i \notin seen.set => mono - acceptedAt[i] > ReplayRetention

\* A handler between the gates holds a request that was fresh at most MaxStall ago.
PassedRecently ==
    \A h \in Handler : passed[h] # NoId =>
        /\ since[h] <= mono /\ mono - since[h] <= MaxStall
        /\ since[h] <= time[passed[h]] + MaxRequestAge
        /\ time[passed[h]] <= since[h] + MaxStep + MaxLead

\* The memory against the history: true whatever the retention is.
MemoryInv ==
    /\ TypeOK
    /\ Coherent(seen)
    /\ QueueIsHistory
    /\ AcceptedInWindow
    /\ PassedRecently

\* A request accepted again is accepted again longer than the retention after
\* it was last, and only if its time is so far ahead of that acceptance that it
\* is fresh for so long: by more than ReplayRetention - MaxRequestAge, less the
\* time a handler may stall between the gates.
ReplayedOnlyAhead ==
    [][\A i \in Id : accepted[i] > 0 /\ accepted'[i] > accepted[i] =>
          /\ mono - acceptedAt[i] > ReplayRetention
          /\ time[i] + MaxRequestAge + MaxStall > acceptedAt[i] + ReplayRetention]_vars

\* The empty memory and an empty history satisfy the invariant.
LEMMA InitMemoryInv == Init => MemoryInv
<1> SUFFICES ASSUME Init PROVE MemoryInv
  OBVIOUS
<1> USE WindowConstants, RetentionIsNat
<1>1. seen = [set |-> {}, queue |-> << >>] /\ Len(seen.queue) = 0
  BY DEF Init, NewMemory
<1>2. seen \in Memory
  BY <1>1, EmptySeq DEF Memory
<1>3. Coherent(seen) /\ QueueIsHistory
  BY <1>1 DEF Coherent, IdsAt, QueueIsHistory
<1>4. TypeOK
  BY <1>2 DEF Init, TypeOK
<1> QED
  BY <1>3, <1>4 DEF Init, MemoryInv, AcceptedInWindow, PassedRecently

\* A step that leaves the memory and the history alone keeps what the
\* invariant says of them, provided the monotonic clock does not go back.
LEMMA ClockStep ==
    ASSUME MemoryInv, mono' \in Nat, mono <= mono',
           UNCHANGED <<time, seen, accepted, acceptedAt>>
    PROVE  (Coherent(seen) /\ QueueIsHistory /\ AcceptedInWindow)'
<1> USE WindowConstants, RetentionIsNat
<1>1. AcceptedInWindow'
  BY DEF MemoryInv, TypeOK, AcceptedInWindow
<1> QED
  BY <1>1 DEF MemoryInv, Coherent, QueueIsHistory

\* A request found fresh now is recent enough to be inserted later.
LEMMA CheckFreshnessStep ==
    ASSUME MemoryInv, NEW h \in Handler, NEW i \in Id, CheckFreshness(h, i)
    PROVE  MemoryInv'
<1> USE WindowConstants, RetentionIsNat
<1>1. TypeOK'
  BY DEF MemoryInv, TypeOK, CheckFreshness
<1>2. (Coherent(seen) /\ QueueIsHistory /\ AcceptedInWindow)'
  BY ClockStep DEF MemoryInv, TypeOK, CheckFreshness
<1>3. /\ mono <= time[i] + MaxRequestAge
      /\ time[i] <= mono + MaxStep + MaxLead
  BY DEF MemoryInv, TypeOK, CheckFreshness, Fresh, Age, Wall
<1>4. PassedRecently'
  BY <1>3 DEF MemoryInv, TypeOK, PassedRecently, CheckFreshness
<1> QED
  BY <1>1, <1>2, <1>4 DEF MemoryInv

\* Time passes only while no handler has stalled too long between the gates.
LEMMA TickStep ==
    ASSUME MemoryInv, Tick
    PROVE  MemoryInv'
<1> USE WindowConstants, RetentionIsNat
<1>1. TypeOK'
  BY DEF MemoryInv, TypeOK, Tick
<1>2. (Coherent(seen) /\ QueueIsHistory /\ AcceptedInWindow)'
  BY ClockStep DEF MemoryInv, TypeOK, Tick
<1>3. PassedRecently'
  BY DEF MemoryInv, TypeOK, PassedRecently, Tick
<1> QED
  BY <1>1, <1>2, <1>3 DEF MemoryInv

\* Setting the wall clock changes what is fresh, and nothing the invariant says.
LEMMA StepWallClockStep ==
    ASSUME MemoryInv, StepWallClock
    PROVE  MemoryInv'
<1> USE WindowConstants, RetentionIsNat
<1>1. TypeOK'
  BY DEF MemoryInv, TypeOK, StepWallClock
<1>2. (Coherent(seen) /\ QueueIsHistory /\ AcceptedInWindow)'
  BY ClockStep DEF MemoryInv, TypeOK, StepWallClock
<1>3. PassedRecently'
  BY DEF MemoryInv, TypeOK, PassedRecently, StepWallClock
<1> QED
  BY <1>1, <1>2, <1>3 DEF MemoryInv

\* The step that matters: a request that was accepted before is new again only
\* if it is forgotten and was fresh a stall ago, both at once.
LEMMA InsertStep ==
    ASSUME MemoryInv, NEW h \in Handler, Insert(h)
    PROVE  /\ MemoryInv'
           /\ \A j \in Id : accepted[j] > 0 /\ accepted'[j] > accepted[j] =>
                 /\ mono - acceptedAt[j] > ReplayRetention
                 /\ time[j] + MaxRequestAge + MaxStall > acceptedAt[j] + ReplayRetention
<1> USE WindowConstants, RetentionIsNat
<1> DEFINE i == passed[h]
           t == TryInsert(seen, i, mono)
<1>1. i \in Id /\ seen' = t /\ mono \in Nat /\ seen \in Memory
  BY DEF MemoryInv, TypeOK, Insert
<1>2. /\ t \in Memory
      /\ Coherent(t)
      /\ i \in t.set
      /\ \A n \in 1..Len(t.queue) :
            \/ \E l \in 1..Len(seen.queue) : t.queue[n] = seen.queue[l]
            \/ ~ Known(seen, i, mono) /\ t.queue[n] = [id |-> i, at |-> mono]
      /\ \A j \in seen.set \ t.set :
            \E l \in 1..Len(seen.queue) :
               seen.queue[l].id = j /\ Stale(seen.queue[l], mono)
      /\ Known(seen, i, mono) => i \in seen.set
      /\ ~ Known(seen, i, mono) /\ i \in seen.set =>
            \E l \in 1..Len(seen.queue) :
               seen.queue[l].id = i /\ Stale(seen.queue[l], mono)
  BY <1>1, TryInsertSpec, SMTT(30) DEF MemoryInv
<1> HIDE DEF t, i
<1>3. \A l \in 1..Len(seen.queue) : seen.queue[l] \in [id : Id, at : Nat]
  BY <1>1, ElementOfSeq DEF Memory, Entry
<1>4. \A j \in Id : accepted[j] > 0 /\ (j \notin seen.set \/ (\E l \in 1..Len(seen.queue) :
               seen.queue[l].id = j /\ Stale(seen.queue[l], mono)))
         => mono - acceptedAt[j] > ReplayRetention
  BY <1>3 DEF MemoryInv, AcceptedInWindow, QueueIsHistory, Stale
<1>5. ~ Known(seen, i, mono) /\ accepted[i] > 0 =>
         /\ mono - acceptedAt[i] > ReplayRetention
         /\ time[i] + MaxRequestAge + MaxStall > acceptedAt[i] + ReplayRetention
  <2> SUFFICES ASSUME ~ Known(seen, i, mono), accepted[i] > 0
               PROVE  /\ mono - acceptedAt[i] > ReplayRetention
                      /\ time[i] + MaxRequestAge + MaxStall > acceptedAt[i] + ReplayRetention
    OBVIOUS
  <2>1. mono - acceptedAt[i] > ReplayRetention
    BY <1>1, <1>2, <1>4
  <2>2. mono - since[h] <= MaxStall /\ since[h] <= time[i] + MaxRequestAge
    BY <1>1 DEF MemoryInv, PassedRecently, Insert, i
  <2>3. since[h] \in Nat /\ time[i] \in Nat /\ acceptedAt[i] \in Nat
    BY <1>1 DEF MemoryInv, TypeOK
  <2> QED
    BY <2>1, <2>2, <2>3, <1>1
<1>6. /\ UNCHANGED <<mono, step, time, since>>
      /\ passed' = [passed EXCEPT ![h] = NoId]
      /\ Known(seen, i, mono) => UNCHANGED <<accepted, acceptedAt>>
      /\ ~ Known(seen, i, mono) =>
            /\ accepted' = [accepted EXCEPT ![i] = @ + 1]
            /\ acceptedAt' = [acceptedAt EXCEPT ![i] = mono]
  BY DEF Insert, i
<1>7. TypeOK'
  <2>1. accepted' \in [Id -> Nat] /\ acceptedAt' \in [Id -> Nat]
    BY <1>1, <1>6 DEF MemoryInv, TypeOK
  <2> QED
    BY <2>1, <1>1, <1>2, <1>6 DEF MemoryInv, TypeOK
<1>8. PassedRecently'
  BY <1>6 DEF MemoryInv, TypeOK, PassedRecently
<1>9. \A j \in Id : accepted'[j] > accepted[j] => j = i /\ ~ Known(seen, i, mono)
  BY <1>1, <1>6 DEF MemoryInv, TypeOK
<1>10. \A j \in Id : j # i => accepted'[j] = accepted[j] /\ acceptedAt'[j] = acceptedAt[j]
  BY <1>6 DEF MemoryInv, TypeOK
<1>11. AcceptedInWindow'
  <2> SUFFICES ASSUME NEW j \in Id, accepted'[j] > 0
               PROVE  /\ acceptedAt'[j] <= mono
                      /\ time[j] <= acceptedAt'[j] + MaxStep + MaxLead
                      /\ j \notin t.set => mono - acceptedAt'[j] > ReplayRetention
    BY <1>1, <1>6 DEF AcceptedInWindow
  <2>1. CASE j = i /\ ~ Known(seen, i, mono)
    <3>1. acceptedAt'[j] = mono
      BY <2>1, <1>1, <1>6 DEF MemoryInv, TypeOK
    <3>2. since[h] <= mono /\ time[j] <= since[h] + MaxStep + MaxLead
      BY <2>1 DEF MemoryInv, PassedRecently, Insert, i
    <3> QED
      BY <3>1, <3>2, <2>1, <1>1, <1>2, SMTT(30) DEF MemoryInv, TypeOK
  <2>2. CASE ~ (j = i /\ ~ Known(seen, i, mono))
    <3>1. accepted'[j] = accepted[j] /\ acceptedAt'[j] = acceptedAt[j]
      BY <2>2, <1>6, <1>10
    <3>2. j \notin t.set => mono - acceptedAt[j] > ReplayRetention
      BY <3>1, <1>2, <1>4
    <3> QED
      BY <3>1, <3>2 DEF MemoryInv, AcceptedInWindow
  <2> QED
    BY <2>1, <2>2
<1>12. QueueIsHistory'
  <2> SUFFICES ASSUME NEW n \in 1..Len(t.queue)
               PROVE  /\ accepted'[t.queue[n].id] > 0
                      /\ t.queue[n].at = acceptedAt'[t.queue[n].id]
    BY <1>1 DEF QueueIsHistory
  <2>1. CASE ~ Known(seen, i, mono) /\ t.queue[n] = [id |-> i, at |-> mono]
    <3>1. t.queue[n].id = i /\ t.queue[n].at = mono
      BY <2>1
    <3>2. accepted'[i] = accepted[i] + 1 /\ acceptedAt'[i] = mono /\ accepted[i] \in Nat
      BY <2>1, <1>1, <1>6 DEF MemoryInv, TypeOK
    <3> QED
      BY <3>1, <3>2
  <2>2. CASE \E l \in 1..Len(seen.queue) : t.queue[n] = seen.queue[l]
    <3>1. PICK l \in 1..Len(seen.queue) : t.queue[n] = seen.queue[l]
      BY <2>2
    <3>2. /\ accepted[seen.queue[l].id] > 0
          /\ seen.queue[l].at = acceptedAt[seen.queue[l].id]
          /\ seen.queue[l].id \in Id
      BY <1>3 DEF MemoryInv, QueueIsHistory
    <3>3. CASE Known(seen, i, mono) \/ seen.queue[l].id # i
      <4>1. /\ accepted'[seen.queue[l].id] = accepted[seen.queue[l].id]
            /\ acceptedAt'[seen.queue[l].id] = acceptedAt[seen.queue[l].id]
        BY <3>2, <3>3, <1>6, <1>10
      <4> QED
        BY <4>1, <3>1, <3>2
    <3>4. CASE ~ Known(seen, i, mono) /\ seen.queue[l].id = i
      <4>1. PICK m \in 1..Len(t.queue) : t.queue[m] = [id |-> i, at |-> mono]
        BY <3>4, <1>1, TryInsertEntries DEF MemoryInv, t
      <4>2. t.queue[m].id = t.queue[n].id
        BY <4>1, <3>1, <3>4
      <4>3. m = n
        BY <4>2, <1>2 DEF Coherent
      <4> QED
        BY <2>1, <3>4, <4>1, <4>3
    <3> QED
      BY <3>3, <3>4
  <2> QED
    BY <2>1, <2>2, <1>2
<1> QED
  BY <1>1, <1>2, <1>5, <1>7, <1>8, <1>9, <1>11, <1>12 DEF MemoryInv

\* The steps put together.
LEMMA MemoryStep ==
    ASSUME MemoryInv, [Next]_vars
    PROVE  /\ MemoryInv'
           /\ \A j \in Id : accepted[j] > 0 /\ accepted'[j] > accepted[j] =>
                 /\ mono - acceptedAt[j] > ReplayRetention
                 /\ time[j] + MaxRequestAge + MaxStall > acceptedAt[j] + ReplayRetention
<1>1. CASE \E h \in Handler : Insert(h)
  BY <1>1, InsertStep
<1>2. CASE ~ \E h \in Handler : Insert(h)
  <2>1. accepted' = accepted
    BY <1>2 DEF Next, CheckFreshness, Tick, StepWallClock, vars
  <2>2. \A j \in Id : ~ (accepted'[j] > accepted[j])
    BY <2>1 DEF MemoryInv, TypeOK
  <2>3. CASE \E h \in Handler, i \in Id : CheckFreshness(h, i)
    BY <2>2, <2>3, CheckFreshnessStep
  <2>4. CASE Tick
    BY <2>2, <2>4, TickStep
  <2>5. CASE StepWallClock
    BY <2>2, <2>5, StepWallClockStep
  <2>6. CASE UNCHANGED vars
    <3>1. TypeOK' /\ PassedRecently'
      BY <2>6 DEF vars, MemoryInv, TypeOK, PassedRecently
    <3>2. (Coherent(seen) /\ QueueIsHistory /\ AcceptedInWindow)'
      BY <2>6 DEF vars, MemoryInv, Coherent, QueueIsHistory, AcceptedInWindow
    <3> QED
      BY <3>1, <3>2, <2>2 DEF MemoryInv
  <2> QED
    BY <1>2, <2>3, <2>4, <2>5, <2>6 DEF Next
<1> QED
  BY <1>1, <1>2

\* The induction.
LEMMA MemoryInvariant == Spec => []MemoryInv
<1>1. MemoryInv /\ [Next]_vars => MemoryInv'
  BY MemoryStep
<1> QED
  BY <1>1, InitMemoryInv, PTL DEF Spec

\* The variables keep their types, with no condition on the clocks: the memory
\* stays a set and a queue of ids, the history a count and a time per id.  The
\* coherence of set and queue is needed for the eviction to stay well typed.
THEOREM TypeCorrect == Spec => [](TypeOK /\ Coherent(seen))
<1>1. MemoryInv => TypeOK /\ Coherent(seen)
  BY DEF MemoryInv
<1> QED
  BY <1>1, MemoryInvariant, PTL

\* What the two gates guarantee with no condition at all: a request gets past
\* both again only after the retention, and only if it was dated far ahead.  With
\* the daemon's own numbers, a clock that nobody sets and handlers that do not
\* stall, only a request dated more than a minute ahead when it is accepted can be
\* accepted again, and then not for two minutes.
THEOREM ReplayNeedsLead == Spec => ReplayedOnlyAhead
<1>1. MemoryInv /\ [Next]_vars =>
        \A i \in Id : accepted[i] > 0 /\ accepted'[i] > accepted[i] =>
          /\ mono - acceptedAt[i] > ReplayRetention
          /\ time[i] + MaxRequestAge + MaxStall > acceptedAt[i] + ReplayRetention
  BY MemoryStep
<1> QED
  BY <1>1, MemoryInvariant, PTL DEF Spec, ReplayedOnlyAhead

\* No request is accepted twice, whatever the number of handlers and
\* deliveries, as long as the retention covers the freshness window, the lead
\* of the client's clock, the steps of the wall clock and the stall of a
\* handler between check_freshness and try_insert.
THEOREM NoReplay == ASSUME RetentionCovers PROVE Spec => []AcceptedOnce
<1>1. Init => AcceptedOnce
  <2> SUFFICES ASSUME Init, NEW i \in Id PROVE accepted[i] <= 1
    BY DEF AcceptedOnce
  <2>1. accepted[i] = 0
    BY DEF Init
  <2> QED
    BY <2>1
<1>2. MemoryInv /\ AcceptedOnce /\ [Next]_vars => AcceptedOnce'
  <2> SUFFICES ASSUME MemoryInv, AcceptedOnce, [Next]_vars PROVE AcceptedOnce'
    OBVIOUS
  <2> SUFFICES ASSUME NEW i \in Id PROVE accepted'[i] <= 1
    BY DEF AcceptedOnce
  <2>1. accepted[i] \in 0..1 /\ accepted'[i] \in Nat
    <3>1. accepted[i] \in Nat /\ accepted[i] <= 1
      BY DEF MemoryInv, TypeOK, AcceptedOnce
    <3>2. TypeOK'
      BY MemoryStep DEF MemoryInv
    <3> QED
      BY <3>1, <3>2 DEF TypeOK
  <2>2. accepted'[i] <= accepted[i] + 1
    <3>1. CASE \E h \in Handler : Insert(h)
      <4>1. PICK h \in Handler : Insert(h)
        BY <3>1
      <4>2. \/ accepted' = accepted
            \/ \E j \in Id : accepted' = [accepted EXCEPT ![j] = @ + 1]
        BY <4>1 DEF Insert, MemoryInv, TypeOK
      <4> QED
        BY <4>2, <2>1 DEF MemoryInv, TypeOK
    <3>2. CASE ~ \E h \in Handler : Insert(h)
      <4>1. accepted' = accepted
        BY <3>2 DEF Next, CheckFreshness, Tick, StepWallClock, vars
      <4> QED
        BY <4>1, <2>1
    <3> QED
      BY <3>1, <3>2
  <2>3. accepted[i] > 0 => time[i] <= acceptedAt[i] + MaxStep + MaxLead
    BY DEF MemoryInv, AcceptedInWindow
  <2>4. accepted[i] > 0 /\ accepted'[i] > accepted[i] =>
          time[i] + MaxRequestAge + MaxStall > acceptedAt[i] + ReplayRetention
    BY MemoryStep
  <2>5. time[i] \in Nat /\ acceptedAt[i] \in Nat
    BY DEF MemoryInv, TypeOK
  <2> QED
    BY <2>1, <2>2, <2>3, <2>4, <2>5, WindowConstants, RetentionIsNat DEF RetentionCovers
<1> QED
  BY <1>1, <1>2, MemoryInvariant, PTL DEF Spec

\* The comment on REPLAY_RETENTION, under the same condition: an accepted id
\* that could still pass the freshness check is still in the set.
THEOREM FreshRemembered == ASSUME RetentionCovers PROVE Spec => []FreshIsRemembered
<1>1. MemoryInv => FreshIsRemembered
  <2> SUFFICES ASSUME MemoryInv, NEW i \in Id, accepted[i] > 0, Fresh(time[i]), i \notin seen.set
               PROVE  FALSE
    BY DEF FreshIsRemembered
  <2>1. /\ acceptedAt[i] <= mono
        /\ time[i] <= acceptedAt[i] + MaxStep + MaxLead
        /\ mono - acceptedAt[i] > ReplayRetention
    BY DEF MemoryInv, AcceptedInWindow
  <2>2. mono <= time[i] + MaxRequestAge
    BY WindowConstants DEF MemoryInv, TypeOK, Fresh, Age, Wall
  <2> QED
    BY <2>1, <2>2, WindowConstants, RetentionIsNat DEF MemoryInv, TypeOK, RetentionCovers
<1> QED
  BY <1>1, MemoryInvariant, PTL

\* try_insert leaves the queue in order and nothing stale in it.
LEMMA InsertInOrder ==
    ASSUME TypeOK, InOrder(seen.queue, mono), NEW h \in Handler, Insert(h)
    PROVE  /\ InOrder(seen'.queue, mono)
           /\ mono' = mono
           /\ \A n \in 1..Len(seen'.queue) : ~ Stale(seen'.queue[n], mono)
<1>1. passed[h] \in Id /\ seen' = TryInsert(seen, passed[h], mono) /\ mono' = mono
  BY WindowConstants DEF TypeOK, Insert
<1> QED
  BY <1>1, TryInsertInOrder DEF TypeOK

\* The queue stays in order, because the monotonic clock does not go back.
LEMMA OrderInvariant == Spec => []InOrder(seen.queue, mono)
<1>1. Init => InOrder(seen.queue, mono)
  BY DEF Init, NewMemory, InOrder
<1>2. TypeOK /\ InOrder(seen.queue, mono) /\ [Next]_vars => InOrder(seen.queue, mono)'
  <2> SUFFICES ASSUME TypeOK, InOrder(seen.queue, mono), [Next]_vars
               PROVE  InOrder(seen.queue, mono)'
    OBVIOUS
  <2>1. CASE \E h \in Handler : Insert(h)
    BY <2>1, InsertInOrder
  <2>2. CASE ~ \E h \in Handler : Insert(h)
    <3>1. seen' = seen /\ mono \in Nat /\ mono' \in Nat /\ mono <= mono'
      BY <2>2 DEF Next, CheckFreshness, Tick, StepWallClock, vars, TypeOK
    <3>2. \A n \in 1..Len(seen.queue) : seen.queue[n] \in Entry
      BY ElementOfSeq DEF TypeOK, Memory
    <3> QED
      BY <3>1, <3>2, SMTT(30) DEF InOrder, Entry
  <2> QED
    BY <2>1, <2>2
<1> QED
  BY <1>1, <1>2, TypeCorrect, PTL DEF Spec

\* The memory is bounded by age, on every path and with no condition on the
\* clocks: eviction stops at the first entry that is not stale, and since the
\* queue is in order nothing stale is behind it.
THEOREM MemoryBoundedByAge == Spec => NothingStaleAfterInsert
<1> DEFINE Fits(h) == Insert(h) =>
              \A i \in seen'.set :
                 \E n \in 1..Len(seen'.queue) :
                    /\ seen'.queue[n].id = i
                    /\ mono - seen'.queue[n].at <= ReplayRetention
<1>1. /\ TypeOK /\ InOrder(seen.queue, mono)
      /\ (TypeOK /\ Coherent(seen))'
      => \A h \in Handler : Fits(h)
  <2> SUFFICES ASSUME TypeOK, InOrder(seen.queue, mono), (TypeOK /\ Coherent(seen))',
                      NEW h \in Handler, Insert(h), NEW i \in seen'.set
               PROVE  \E n \in 1..Len(seen'.queue) :
                         /\ seen'.queue[n].id = i
                         /\ mono - seen'.queue[n].at <= ReplayRetention
    OBVIOUS
  <2>1. PICK n \in 1..Len(seen'.queue) : seen'.queue[n].id = i
    BY DEF Coherent, IdsAt
  <2>2. ~ Stale(seen'.queue[n], mono)
    BY InsertInOrder
  <2>3. seen'.queue \in Seq(Entry)
    BY DEF TypeOK, Memory
  <2>4. seen'.queue[n] \in Entry /\ mono \in Nat
    BY <2>3, ElementOfSeq DEF TypeOK
  <2> QED
    BY <2>1, <2>2, <2>4, RetentionIsNat DEF Stale, Entry
<1>2. TypeOK /\ InOrder(seen.queue, mono) /\ (TypeOK /\ Coherent(seen))'
      => [\A h \in Handler : Fits(h)]_vars
  BY <1>1
<1> QED
  BY <1>2, TypeCorrect, OrderInvariant, PTL DEF NothingStaleAfterInsert
=============================================================================

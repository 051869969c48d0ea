------------------------------ MODULE SeenIds ------------------------------
(***************************************************************************)
(* The replay memory of the daemon: `struct SeenIds` of src/server.rs, a   *)
(* hash set of request ids and a FIFO queue of <id, Instant> pairs that    *)
(* says when each id was remembered.  Pure operators on a record           *)
(* [set, queue]; the modules that own such a memory call them under the    *)
(* mutex that guards it, one call per step.                                *)
(***************************************************************************)
EXTENDS Integers, Sequences

CONSTANTS
    Id,               \* request ids
    ReplayRetention   \* REPLAY_RETENTION, in ticks of the monotonic clock

ASSUME RetentionIsNat == ReplayRetention \in Nat

Entry  == [id : Id, at : Nat]
Memory == [set : SUBSET Id, queue : Seq(Entry)]

\* SeenIds::new
NewMemory == [set |-> {}, queue |-> << >>]

\* The ids queued at the positions in S.
IdsAt(q, S) == {q[i].id : i \in S}

\* The set holds exactly the queued ids, and no id is queued twice: what
\* try_insert keeps true and evict_stale relies on when it drops an id from the
\* set because its entry left the queue.
Coherent(m) ==
    /\ m.set = IdsAt(m.queue, 1..Len(m.queue))
    /\ \A i, j \in 1..Len(m.queue) :
          m.queue[i].id = m.queue[j].id => i = j

\* A mutant of Stale: forget an id one tick early.
StaleEarly(e, now) == now - e.at >= ReplayRetention

\* now.duration_since(t) > REPLAY_RETENTION
Stale(e, now) == now - e.at > ReplayRetention

\* How many entries the `while let` loop of evict_stale pops: it takes the
\* front entry as long as that one is stale and stops at the first that is not.
PopCount(q, now) ==
    CHOOSE k \in 0..Len(q) :
        /\ \A i \in 1..k : Stale(q[i], now)
        /\ k < Len(q) => ~ Stale(q[k + 1], now)

\* Mutants of EvictStale: clear everything as soon as anything is stale; pop at
\* most one entry.
EvictAll(m, now) == IF PopCount(m.queue, now) > 0 THEN NewMemory ELSE m

EvictOne(m, now) ==
    IF PopCount(m.queue, now) > 0
    THEN [set |-> m.set \ {Head(m.queue).id}, queue |-> Tail(m.queue)]
    ELSE m

EvictStale(m, now) ==
    LET k == PopCount(m.queue, now)
    IN  [set   |-> m.set \ IdsAt(m.queue, 1..k),
         queue |-> SubSeq(m.queue, k + 1, Len(m.queue))]

\* try_insert(id) returns false: the id is still remembered after eviction.
Known(m, id, now) == id \in EvictStale(m, now).set

\* What try_insert leaves behind, whichever of the two it returns.
TryInsert(m, id, now) ==
    LET kept == EvictStale(m, now)
    IN  IF id \in kept.set
        THEN kept
        ELSE [set   |-> kept.set \cup {id},
              queue |-> Append(kept.queue, [id |-> id, at |-> now])]
============================================================================

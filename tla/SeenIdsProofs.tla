--------------------------- MODULE SeenIdsProofs ---------------------------
(* What the operators of SeenIds guarantee, for every id set, retention,     *)
(* memory and instant.                                                       *)
EXTENDS SeenIds, SequenceTheorems, WellFoundedInduction, TLAPS

\* Every nonempty set of naturals has a least element.
LEMMA LeastNatural ==
    ASSUME NEW T \in SUBSET Nat, T # {}
    PROVE  \E x \in T : \A y \in T : x <= y
<1>1. \E x \in T : \A y \in T : ~ (<<y, x>> \in OpToRel(<, Nat))
  BY NatLessThanWellFounded, WFMin
<1>2. PICK x \in T : \A y \in T : ~ (<<y, x>> \in OpToRel(<, Nat))
  BY <1>1
<1>3. \A y \in T : ~ (y < x)
  BY <1>2 DEF OpToRel
<1> QED
  BY <1>3

\* The eviction loop always stops: its pop count exists, is within the queue,
\* and separates a stale prefix from an entry that is not stale.
LEMMA PopCountSpec ==
    ASSUME NEW q \in Seq(Entry), NEW now \in Nat
    PROVE  /\ PopCount(q, now) \in 0..Len(q)
           /\ \A i \in 1..PopCount(q, now) : Stale(q[i], now)
           /\ PopCount(q, now) < Len(q) => ~ Stale(q[PopCount(q, now) + 1], now)
<1> DEFINE Fresh == {k \in 0..Len(q) : k < Len(q) => ~ Stale(q[k + 1], now)}
<1>1. Len(q) \in Nat
  BY LenProperties
<1>2. Fresh # {} /\ Fresh \in SUBSET Nat
  BY <1>1
<1>3. PICK k \in Fresh : \A j \in Fresh : k <= j
  BY <1>2, LeastNatural
<1>4. \A i \in 1..k : Stale(q[i], now)
  <2> SUFFICES ASSUME NEW i \in 1..k, ~ Stale(q[i], now) PROVE FALSE
    OBVIOUS
  <2>1. i - 1 \in 0..Len(q) /\ i - 1 < Len(q) /\ (i - 1) + 1 = i
    BY <1>1
  <2>2. i - 1 \in Fresh
    BY <2>1
  <2> QED
    BY <2>2, <1>3, <2>1
<1>5. \E n \in 0..Len(q) : /\ \A i \in 1..n : Stale(q[i], now)
                           /\ n < Len(q) => ~ Stale(q[n + 1], now)
  BY <1>4
<1> QED
  BY <1>5 DEF PopCount

\* Eviction keeps the memory well formed and coherent, adds nothing, and
\* forgets only ids whose entry is stale.
LEMMA EvictStaleSpec ==
    ASSUME NEW m \in Memory, Coherent(m), NEW now \in Nat
    PROVE  LET e == EvictStale(m, now)
           IN  /\ e \in Memory
               /\ Coherent(e)
               /\ e.set \subseteq m.set
               /\ \A n \in 1..Len(e.queue) :
                     \E l \in 1..Len(m.queue) : e.queue[n] = m.queue[l]
               /\ \A i \in m.set \ e.set :
                     \E l \in 1..Len(m.queue) :
                        m.queue[l].id = i /\ Stale(m.queue[l], now)
<1> DEFINE q == m.queue
           k == PopCount(q, now)
           r == SubSeq(q, k + 1, Len(q))
           e == EvictStale(m, now)
<1>1. q \in Seq(Entry) /\ m.set \in SUBSET Id /\ Len(q) \in Nat
  BY LenProperties DEF Memory
<1>2. k \in 0..Len(q) /\ \A i \in 1..k : Stale(q[i], now)
  BY <1>1, PopCountSpec
<1> HIDE DEF k
<1>3. \A i \in 1..Len(q) : q[i] \in Entry
  BY <1>1, ElementOfSeq
<1>4. /\ r \in Seq(Entry)
      /\ Len(r) = Len(q) - k
      /\ \A i \in 1..(Len(q) - k) : r[i] = q[k + i]
  <2>1. \A i \in (k + 1)..Len(q) : q[i] \in Entry
    BY <1>2, <1>3
  <2>2. k + 1 \in Int /\ Len(q) \in Int
    BY <1>1, <1>2
  <2>3. /\ r \in Seq(Entry)
        /\ Len(r) = IF k + 1 <= Len(q) THEN Len(q) - (k + 1) + 1 ELSE 0
        /\ \A i \in 1..(Len(q) - (k + 1) + 1) : r[i] = q[(k + 1) + i - 1]
    BY <2>1, <2>2, SubSeqProperties
  <2> QED
    BY <2>3, <1>1, <1>2
<1>5. e = [set |-> m.set \ IdsAt(q, 1..k), queue |-> r]
  BY DEF EvictStale, k
<1> HIDE DEF e, r
<1>6. e.set = m.set \ IdsAt(q, 1..k) /\ e.queue = r
  BY <1>5
<1>7. e \in Memory
  BY <1>1, <1>4, <1>5 DEF Memory
<1>8. \A n \in 1..Len(r) : k + n \in 1..Len(q) /\ r[n] = q[k + n]
  BY <1>1, <1>2, <1>4
<1>9. Coherent(e)
  <2>1. \A i, j \in 1..Len(r) : r[i].id = r[j].id => i = j
    <3> SUFFICES ASSUME NEW i \in 1..Len(r), NEW j \in 1..Len(r), r[i].id = r[j].id
                 PROVE  i = j
      OBVIOUS
    <3>1. q[k + i].id = q[k + j].id /\ k + i \in 1..Len(q) /\ k + j \in 1..Len(q)
      BY <1>8
    <3>2. k + i = k + j
      BY <3>1 DEF Coherent
    <3> QED
      BY <3>2, <1>1, <1>2, <1>4
  <2>2. e.set \subseteq IdsAt(r, 1..Len(r))
    <3> SUFFICES ASSUME NEW x \in e.set PROVE x \in IdsAt(r, 1..Len(r))
      OBVIOUS
    <3>1. PICK l \in 1..Len(q) : x = q[l].id
      BY <1>6 DEF Coherent, IdsAt
    <3>2. l \notin 1..k
      BY <3>1, <1>6 DEF IdsAt
    <3>3. l - k \in 1..Len(r) /\ k + (l - k) = l
      BY <3>2, <1>1, <1>2, <1>4
    <3>4. r[l - k] = q[l]
      BY <3>3, <1>8
    <3> QED
      BY <3>1, <3>3, <3>4 DEF IdsAt
  <2>3. IdsAt(r, 1..Len(r)) \subseteq e.set
    <3> SUFFICES ASSUME NEW n \in 1..Len(r) PROVE r[n].id \in e.set
      BY DEF IdsAt
    <3>1. k + n \in 1..Len(q) /\ r[n] = q[k + n]
      BY <1>8
    <3>2. q[k + n].id \in m.set
      BY <3>1 DEF Coherent, IdsAt
    <3>3. q[k + n].id \notin IdsAt(q, 1..k)
      <4> SUFFICES ASSUME NEW l \in 1..k, q[l].id = q[k + n].id PROVE FALSE
        BY DEF IdsAt
      <4>1. l \in 1..Len(q) /\ l # k + n
        BY <1>1, <1>2, <1>4
      <4> QED
        BY <4>1, <3>1 DEF Coherent
    <3> QED
      BY <3>1, <3>2, <3>3, <1>6
  <2> QED
    BY <2>1, <2>2, <2>3, <1>6 DEF Coherent
<1>10. \A i \in m.set \ e.set :
          \E l \in 1..Len(q) : q[l].id = i /\ Stale(q[l], now)
  <2> SUFFICES ASSUME NEW i \in m.set \ e.set
               PROVE  \E l \in 1..Len(q) : q[l].id = i /\ Stale(q[l], now)
    OBVIOUS
  <2>1. PICK l \in 1..k : q[l].id = i
    BY <1>6 DEF IdsAt
  <2> QED
    BY <2>1, <1>1, <1>2
<1> QED
  BY <1>6, <1>7, <1>8, <1>9, <1>10 DEF e

\* try_insert keeps the memory well formed and coherent, always leaves the id
\* remembered, forgets only stale ids, queues at most the new id, stamped now,
\* and reports a remembered id as new only when its entry was stale.
LEMMA TryInsertSpec ==
    ASSUME NEW m \in Memory, Coherent(m), NEW now \in Nat, NEW id \in Id
    PROVE  LET t == TryInsert(m, id, now)
           IN  /\ t \in Memory
               /\ Coherent(t)
               /\ id \in t.set
               /\ \A n \in 1..Len(t.queue) :
                     \/ \E l \in 1..Len(m.queue) : t.queue[n] = m.queue[l]
                     \/ ~ Known(m, id, now) /\ t.queue[n] = [id |-> id, at |-> now]
               /\ \A i \in m.set \ t.set :
                     \E l \in 1..Len(m.queue) :
                        m.queue[l].id = i /\ Stale(m.queue[l], now)
               /\ Known(m, id, now) => id \in m.set
               /\ ~ Known(m, id, now) /\ id \in m.set =>
                     \E l \in 1..Len(m.queue) :
                        m.queue[l].id = id /\ Stale(m.queue[l], now)
<1> DEFINE e == EvictStale(m, now)
           t == TryInsert(m, id, now)
           new == [id |-> id, at |-> now]
<1>1. /\ e \in Memory
      /\ Coherent(e)
      /\ e.set \subseteq m.set
      /\ \A n \in 1..Len(e.queue) :
            \E l \in 1..Len(m.queue) : e.queue[n] = m.queue[l]
      /\ \A i \in m.set \ e.set :
            \E l \in 1..Len(m.queue) :
               m.queue[l].id = i /\ Stale(m.queue[l], now)
  BY EvictStaleSpec
<1>2. Known(m, id, now) <=> id \in e.set
  BY DEF Known
<1>3. t = IF id \in e.set THEN e
          ELSE [set |-> e.set \cup {id}, queue |-> Append(e.queue, new)]
  BY DEF TryInsert
<1> HIDE DEF e, t
<1>4. CASE id \in e.set
  <2>1. t = e
    BY <1>3, <1>4
  <2> QED
    BY <2>1, <1>1, <1>2, <1>4 DEF t
<1>5. CASE id \notin e.set
  <2> DEFINE q == e.queue
             r == Append(q, new)
  <2>1. t = [set |-> e.set \cup {id}, queue |-> r]
    BY <1>3, <1>5
  <2>2. q \in Seq(Entry) /\ e.set \in SUBSET Id /\ new \in Entry
    BY <1>1 DEF Memory, Entry
  <2>3. /\ r \in Seq(Entry)
        /\ Len(r) = Len(q) + 1
        /\ \A i \in 1..Len(q) : r[i] = q[i]
        /\ r[Len(q) + 1] = new
        /\ Len(q) \in Nat
    BY <2>2, AppendProperties, LenProperties
  <2> HIDE DEF r, q
  <2>4. t.set = e.set \cup {id} /\ t.queue = r
    BY <2>1
  <2>5. t \in Memory
    BY <2>1, <2>2, <2>3 DEF Memory
  <2>6. \A i \in 1..Len(r) : i \in 1..Len(q) \/ i = Len(q) + 1
    BY <2>3
  <2>7. e.set = IdsAt(q, 1..Len(q)) /\ \A i, j \in 1..Len(q) : q[i].id = q[j].id => i = j
    BY <1>1 DEF Coherent, q
  <2>8. \A i \in 1..Len(q) : q[i].id # id
    BY <2>7, <1>5 DEF IdsAt
  <2>9. Coherent(t)
    <3>1. \A i, j \in 1..Len(r) : r[i].id = r[j].id => i = j
      <4> SUFFICES ASSUME NEW i \in 1..Len(r), NEW j \in 1..Len(r), r[i].id = r[j].id
                   PROVE  i = j
        OBVIOUS
      <4>1. CASE i \in 1..Len(q) /\ j \in 1..Len(q)
        BY <4>1, <2>3, <2>7
      <4>2. CASE i = Len(q) + 1 /\ j = Len(q) + 1
        BY <4>2
      <4>3. CASE i \in 1..Len(q) /\ j = Len(q) + 1
        BY <4>3, <2>3, <2>8
      <4>4. CASE i = Len(q) + 1 /\ j \in 1..Len(q)
        BY <4>4, <2>3, <2>8
      <4> QED
        BY <4>1, <4>2, <4>3, <4>4, <2>6
    <3>2. IdsAt(r, 1..Len(r)) = e.set \cup {id}
      <4>1. Len(q) + 1 \in 1..Len(r) /\ 1..Len(q) \subseteq 1..Len(r)
        BY <2>3
      <4>2. \A x \in e.set : x \in IdsAt(r, 1..Len(r))
        BY <4>1, <2>3, <2>7 DEF IdsAt
      <4>3. id \in IdsAt(r, 1..Len(r))
        BY <4>1, <2>3 DEF IdsAt
      <4>4. \A i \in 1..Len(r) : r[i].id \in e.set \cup {id}
        BY <2>3, <2>6, <2>7 DEF IdsAt
      <4> QED
        BY <4>2, <4>3, <4>4 DEF IdsAt
    <3> QED
      BY <3>1, <3>2, <2>4 DEF Coherent
  <2>10. \A n \in 1..Len(r) : (\E l \in 1..Len(m.queue) : r[n] = m.queue[l]) \/ r[n] = new
    BY <2>3, <2>6, <1>1, SMTT(30) DEF q
  <2> QED
    BY <2>4, <2>5, <2>9, <2>10, <1>1, <1>2, <1>5 DEF t
<1> QED
  BY <1>4, <1>5

\* What try_insert remembers: every entry that is not stale, and a new id, which
\* had no entry but a stale one.
LEMMA TryInsertEntries ==
    ASSUME NEW m \in Memory, Coherent(m), NEW now \in Nat, NEW id \in Id
    PROVE  LET t == TryInsert(m, id, now)
           IN  /\ \A l \in 1..Len(m.queue) :
                     \/ Stale(m.queue[l], now)
                     \/ \E n \in 1..Len(t.queue) : t.queue[n] = m.queue[l]
               /\ ~ Known(m, id, now) =>
                     /\ \E n \in 1..Len(t.queue) : t.queue[n] = [id |-> id, at |-> now]
                     /\ \A l \in 1..Len(m.queue) :
                           m.queue[l].id = id => Stale(m.queue[l], now)
<1> DEFINE t == TryInsert(m, id, now)
           e == EvictStale(m, now)
           new == [id |-> id, at |-> now]
<1>1. /\ t \in Memory
      /\ Coherent(t)
      /\ \A n \in 1..Len(t.queue) :
            \/ \E l \in 1..Len(m.queue) : t.queue[n] = m.queue[l]
            \/ ~ Known(m, id, now) /\ t.queue[n] = new
      /\ \A i \in m.set \ t.set :
            \E l \in 1..Len(m.queue) :
               m.queue[l].id = i /\ Stale(m.queue[l], now)
      /\ ~ Known(m, id, now) /\ id \in m.set =>
            \E l \in 1..Len(m.queue) :
               m.queue[l].id = id /\ Stale(m.queue[l], now)
  BY TryInsertSpec
<1>2. e \in Memory
  BY EvictStaleSpec
<1>3. t = IF id \in e.set THEN e
          ELSE [set |-> e.set \cup {id}, queue |-> Append(e.queue, new)]
  BY DEF TryInsert
<1>4. Known(m, id, now) <=> id \in e.set
  BY DEF Known
<1> HIDE DEF e, t
<1>5. \A l \in 1..Len(m.queue) : m.queue[l].id \in m.set
  BY DEF Coherent, IdsAt
<1>6. ASSUME ~ Known(m, id, now), NEW l \in 1..Len(m.queue), m.queue[l].id = id
      PROVE  Stale(m.queue[l], now)
  <2>1. PICK k \in 1..Len(m.queue) : m.queue[k].id = id /\ Stale(m.queue[k], now)
    BY <1>1, <1>5, <1>6
  <2>2. k = l
    BY <2>1, <1>6 DEF Coherent
  <2> QED
    BY <2>1, <2>2
<1>7. ASSUME NEW l \in 1..Len(m.queue)
      PROVE  \/ Stale(m.queue[l], now)
             \/ \E n \in 1..Len(t.queue) : t.queue[n] = m.queue[l]
  <2>1. CASE m.queue[l].id \in t.set
    <3>1. PICK n \in 1..Len(t.queue) : t.queue[n].id = m.queue[l].id
      BY <2>1, <1>1, SMTT(30) DEF Coherent, IdsAt
    <3>2. CASE \E k \in 1..Len(m.queue) : t.queue[n] = m.queue[k]
      <4>1. PICK k \in 1..Len(m.queue) : t.queue[n] = m.queue[k]
        BY <3>2
      <4>2. k = l
        BY <3>1, <4>1 DEF Coherent
      <4> QED
        BY <4>1, <4>2
    <3>3. CASE ~ Known(m, id, now) /\ t.queue[n] = new
      BY <3>1, <3>3, <1>6
    <3> QED
      BY <3>2, <3>3, <1>1
  <2>2. CASE m.queue[l].id \notin t.set
    <3>1. PICK k \in 1..Len(m.queue) : m.queue[k].id = m.queue[l].id /\ Stale(m.queue[k], now)
      BY <2>2, <1>1, <1>5
    <3>2. k = l
      BY <3>1 DEF Coherent
    <3> QED
      BY <3>1, <3>2
  <2> QED
    BY <2>1, <2>2
<1>8. ASSUME ~ Known(m, id, now)
      PROVE  \E n \in 1..Len(t.queue) : t.queue[n] = new
  <2>1. e.queue \in Seq(Entry) /\ new \in Entry
    BY <1>2 DEF Memory, Entry
  <2>2. t.queue = Append(e.queue, new)
    BY <1>3, <1>4, <1>8
  <2>3. Len(t.queue) = Len(e.queue) + 1 /\ t.queue[Len(e.queue) + 1] = new /\ Len(e.queue) \in Nat
    BY <2>1, <2>2, AppendProperties, LenProperties
  <2> QED
    BY <2>3
<1> QED
  BY <1>6, <1>7, <1>8 DEF t

\* The queue is in the order of insertion, and nothing in it is of the future.
InOrder(q, now) ==
    /\ \A i, j \in 1..Len(q) : i <= j => q[i].at <= q[j].at
    /\ \A i \in 1..Len(q) : q[i].at <= now

\* Eviction stops at the first entry that is not stale; in a queue in order no
\* stale one is behind it.
LEMMA EvictStaleInOrder ==
    ASSUME NEW m \in Memory, NEW now \in Nat, InOrder(m.queue, now)
    PROVE  LET q == EvictStale(m, now).queue
           IN  /\ q \in Seq(Entry)
               /\ InOrder(q, now)
               /\ \A n \in 1..Len(q) : ~ Stale(q[n], now)
<1> DEFINE q == m.queue
           k == PopCount(q, now)
           r == SubSeq(q, k + 1, Len(q))
<1>1. q \in Seq(Entry) /\ Len(q) \in Nat
  BY LenProperties DEF Memory
<1>2. k \in 0..Len(q) /\ (k < Len(q) => ~ Stale(q[k + 1], now))
  BY <1>1, PopCountSpec
<1> HIDE DEF k
<1>3. \A i \in 1..Len(q) : q[i] \in Entry
  BY <1>1, ElementOfSeq
<1>4. /\ r \in Seq(Entry)
      /\ Len(r) = Len(q) - k
      /\ \A i \in 1..(Len(q) - k) : r[i] = q[k + i]
  <2>1. \A i \in (k + 1)..Len(q) : q[i] \in Entry
    BY <1>2, <1>3
  <2>2. k + 1 \in Int /\ Len(q) \in Int
    BY <1>1, <1>2
  <2>3. /\ r \in Seq(Entry)
        /\ Len(r) = IF k + 1 <= Len(q) THEN Len(q) - (k + 1) + 1 ELSE 0
        /\ \A i \in 1..(Len(q) - (k + 1) + 1) : r[i] = q[(k + 1) + i - 1]
    BY <2>1, <2>2, SubSeqProperties, SMTT(30)
  <2> QED
    BY <2>3, <1>1, <1>2
<1>5. EvictStale(m, now).queue = r
  BY DEF EvictStale, k
<1> HIDE DEF r
<1>6. \A n \in 1..Len(r) : k + n \in 1..Len(q) /\ k + 1 <= k + n /\ k < Len(q) /\ r[n] = q[k + n]
  BY <1>1, <1>2, <1>4
<1>7. InOrder(r, now)
  <2>1. \A i, j \in 1..Len(r) : i <= j => k + i <= k + j
    BY <1>2, <1>4, <1>1
  <2> QED
    BY <1>6, <2>1 DEF InOrder
<1>8. ASSUME NEW n \in 1..Len(r) PROVE ~ Stale(r[n], now)
  <2>1. k + 1 \in 1..Len(q) /\ k + n \in 1..Len(q) /\ k + 1 <= k + n /\ ~ Stale(q[k + 1], now)
    BY <1>1, <1>2, <1>6
  <2>2. q[k + 1].at <= q[k + n].at /\ q[k + 1].at \in Nat /\ q[k + n].at \in Nat
    BY <1>3, <2>1 DEF InOrder, Entry
  <2>3. \A a, b \in Nat : a <= b /\ ~ (now - a > ReplayRetention) => ~ (now - b > ReplayRetention)
    BY RetentionIsNat
  <2> QED
    BY <1>6, <2>1, <2>2, <2>3 DEF Stale
<1> QED
  BY <1>4, <1>5, <1>7, <1>8

\* So try_insert keeps the order, and leaves nothing stale in the queue.
LEMMA TryInsertInOrder ==
    ASSUME NEW m \in Memory, NEW now \in Nat, NEW id \in Id, InOrder(m.queue, now)
    PROVE  LET q == TryInsert(m, id, now).queue
           IN  /\ InOrder(q, now)
               /\ \A n \in 1..Len(q) : ~ Stale(q[n], now)
<1> DEFINE e == EvictStale(m, now)
           q == e.queue
           new == [id |-> id, at |-> now]
           r == TryInsert(m, id, now).queue
<1>1. q \in Seq(Entry) /\ InOrder(q, now) /\ \A n \in 1..Len(q) : ~ Stale(q[n], now)
  BY EvictStaleInOrder
<1>2. r = IF id \in e.set THEN q ELSE Append(q, new)
  BY DEF TryInsert
<1> HIDE DEF e, r
<1>3. CASE r = q
  BY <1>1, <1>3 DEF r
<1>4. CASE r = Append(q, new)
  <2>1. new \in Entry /\ Len(q) \in Nat
    BY <1>1, LenProperties DEF Entry
  <2>2. Len(r) = Len(q) + 1 /\ r[Len(q) + 1] = new /\ \A i \in 1..Len(q) : r[i] = q[i]
    BY <1>1, <1>4, <2>1, AppendProperties
  <2>3. \A i \in 1..Len(r) : i \in 1..Len(q) \/ (i = Len(q) + 1 /\ r[i].at = now)
    BY <2>1, <2>2
  <2>4. ASSUME NEW n \in 1..Len(r) PROVE ~ Stale(r[n], now) /\ r[n].at <= now
    <3>1. CASE n \in 1..Len(q)
      BY <1>1, <2>2, <3>1 DEF InOrder
    <3>2. CASE r[n].at = now
      BY <3>2, RetentionIsNat DEF Stale
    <3> QED
      BY <2>3, <3>1, <3>2
  <2>5. \A i, j \in 1..Len(r) : i <= j => r[i].at <= r[j].at
    <3> SUFFICES ASSUME NEW i \in 1..Len(r), NEW j \in 1..Len(r), i <= j
                 PROVE  r[i].at <= r[j].at
      OBVIOUS
    <3>1. CASE j \in 1..Len(q)
      <4>1. i \in 1..Len(q)
        BY <2>1, <3>1
      <4> QED
        BY <1>1, <2>2, <3>1, <4>1 DEF InOrder
    <3>2. CASE r[j].at = now
      BY <2>4, <3>2
    <3> QED
      BY <2>3, <3>1, <3>2
  <2> QED
    BY <2>4, <2>5 DEF InOrder, r
<1> QED
  BY <1>2, <1>3, <1>4
============================================================================

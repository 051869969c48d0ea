--------------------------- MODULE ExecutorProofs ---------------------------
(***************************************************************************)
(* The safety properties of Executor for every number of stages, every     *)
(* size of a pipe, every cap and every amount of output.                   *)
(***************************************************************************)
EXTENDS Executor, NaturalsInduction, WellFoundedInduction, FiniteSetTheorems, TLAPS

\* What a drain keeps of n units.
UpToCap(n) == IF n > MaxOutput THEN MaxOutput ELSE n

\* The children spawned are the first so many, all of them unless a spawn failed.
SpawnInv ==
    /\ \E n \in 0..Children :
          /\ Spawned = 1..n
          /\ pc = "spawn" => n < Children
          /\ pc # "spawn" /\ cause # "spawn" => n = Children
    /\ \A i \in Stage : leader[i] # "unborn" => i \in Spawned
    /\ \A i \in Stage : descendant[i] # "none" => leader[i] # "unborn"

\* An error that is told at once, without joining the drains.
AtOnce == cause # "none" /\ (Single \/ cause = "spawn")

\* Where the handler is shows what it has found out so far.
CourseInv ==
    /\ pc \in {"spawn", "tty", "poll"} => cause = "none"
    /\ pc \in {"kill", "reap"} => cause # "none"
    /\ pc = "join" => ~ AtOnce
    /\ answer = IF pc # "told" THEN "none" ELSE IF cause = "none" THEN "ok" ELSE cause
    /\ pc = "reap" => Targets # {} /\ Min(Targets) \in signalled
    /\ tty = "child" => pc \in {"poll", "kill", "reap", "join"}

\* A child has an exit status once the daemon has waited for it, and only then;
\* with SIGCHLD ignored it may be gone without one.
StatusInv ==
    /\ \A i \in Stage : status[i] # "none" => leader[i] = "reaped"
    /\ \A i \in Stage : leader[i] = "reaped" => status[i] # "none" \/ autoReap
    /\ \A i \in Stage : status[i] = "synthetic" => i \in signalled \/ autoReap
    /\ pc \in {"spawn", "tty"} => \A i \in Stage : status[i] = "none"
    /\ pc \in {"join", "told"} =>
          \A i \in Stage : leader[i] # "unborn" => status[i] # "none"

\* Who was sent SIGKILL, and what is left of its group then.
SignalInv ==
    /\ cause = "none" => signalled = {}
    /\ \A i \in signalled \ refused :
          leader[i] \notin {"unborn", "running", "stopped"} /\ descendant[i] # "group"
    /\ \A i \in Stage : i \in refused => shape.via # "direct"
    /\ AtOnce => \A i \in Stage : status[i] # "none" => i \in signalled

\* What a drain has taken is what was written and is no longer pending; it kept
\* that up to the cap.
CountInv ==
    \A s \in Stream :
        /\ pending[s] <= written[s]
        /\ kept[s] = UpToCap(written[s] - pending[s])
        /\ truncated[s] <=> written[s] - pending[s] > MaxOutput

\* No drain runs before the children do; one ends only when nobody can write to
\* its stream again; and an answer that joins them waits for all.
DrainInv ==
    /\ pc \in {"spawn", "tty"} \/ cause = "spawn" => \A s \in Stream : drain[s] = "off"
    /\ \A s \in Stream : drain[s] # "off" => s \in Streams
    /\ \A s \in Stream : drain[s] = "done" => pending[s] = 0 /\ Closed(s)
    /\ pc = "told" /\ ~ AtOnce => \A s \in Streams : drain[s] = "done"

\* The inductive invariant.
IInv == TypeOK /\ SpawnInv /\ CourseInv /\ StatusInv /\ SignalInv /\ CountInv /\ DrainInv

-----------------------------------------------------------------------------
\* Every nonempty set of naturals has a least element.
LEMMA LeastNatural ==
    ASSUME NEW T \in SUBSET Nat, T # {}
    PROVE  \E x \in T : \A y \in T : x <= y
<1>1. PICK x \in T : \A y \in T : ~ (<<y, x>> \in OpToRel(<, Nat))
  BY NatLessThanWellFounded, WFMin
<1>2. \A y \in T : ~ (y < x)
  BY <1>1 DEF OpToRel
<1> QED
  BY <1>2

\* The least of the children to kill is one of them.
LEMMA MinTarget ==
    ASSUME TypeOK, Targets # {}
    PROVE  Min(Targets) \in Targets /\ Min(Targets) \in Stage
<1>1. Children \in Nat /\ 1..Children \subseteq Stage
  BY ExecutorConstants DEF TypeOK, Children, Stage
<1>2. Targets \subseteq 1..Children /\ Targets \in SUBSET Nat
  BY <1>1 DEF Targets, Spawned
<1>3. \E x \in Targets : \A y \in Targets : x <= y
  BY <1>2, LeastNatural
<1>4. Min(Targets) \in Targets
  BY <1>3 DEF Min
<1> QED
  BY <1>1, <1>2, <1>4

\* The lesser of two numbers.
LEMMA MinPair ==
    ASSUME NEW a \in Nat, NEW b \in Nat
    PROVE  Min({a, b}) = IF a > b THEN b ELSE a
<1> DEFINE m == IF a > b THEN b ELSE a
<1>1. m \in {a, b} /\ \A y \in {a, b} : m <= y
  OBVIOUS
<1>2. \A x \in {a, b} : (\A y \in {a, b} : x <= y) => x = m
  OBVIOUS
<1> QED
  BY <1>1, <1>2 DEF Min

\* How a request is run is settled before it is.
LEMMA FixedShape ==
    ASSUME [Next]_vars
    PROVE  /\ shape' = shape /\ autoReap' = autoReap
           /\ Children' = Children /\ Streams' = Streams
           /\ Single' <=> Single
<1>1. shape' = shape /\ autoReap' = autoReap
  BY DEF Next, vars, fixed, Handler, Drains, Environment, SpawnStage, SpawnFails,
         TakeForeground, Poll, KillGroup, Reap, KillsDone, JoinDrains, Expire, PromptBegins,
         PromptEnds, DrainRead, DrainEnds, Write, Fork, LeaveGroup, DescendantEnds, Stops,
         Exits, Dies
<1> QED
  BY <1>1 DEF Children, Streams, Single

\* What the shape says of the numbers of stages and streams.
LEMMA ShapeFacts ==
    ASSUME TypeOK
    PROVE  /\ Children \in Nat \ {0} /\ 1..Children \subseteq Stage
           /\ Streams \subseteq Stream
           /\ \A s \in Streams : Owner(s) \in 1..Children /\ Owner(s) \in Stage
<1>1. shape.stages \in 1..MaxStages
  BY DEF TypeOK, Stage
<1>2. Children \in Nat \ {0} /\ Children <= MaxStages
  BY <1>1, ExecutorConstants DEF Children
<1> QED
  BY <1>2, ExecutorConstants DEF Stage, Stream, Streams, Owner

\* Only the handler's own steps change where it is and what it knows; the drains
\* and the processes change a drain at most.
LEMMA OnlyHandler ==
    ASSUME [Next]_vars
    PROVE  \/ Handler
           \/ /\ UNCHANGED <<pc, cause, answer, status, signalled, refused>>
              /\ drain' = drain \/ \E s \in Stream : DrainEnds(s)
<1> USE DEF handler, streams
<1>1. ASSUME NEW s \in Stream, DrainRead(s) \/ Write(s)
      PROVE  UNCHANGED <<pc, cause, answer, status, signalled, refused, drain>>
  BY <1>1 DEF DrainRead, Write
<1>2. ASSUME NEW s \in Stream, DrainEnds(s)
      PROVE  UNCHANGED <<pc, cause, answer, status, signalled, refused>>
  BY <1>2 DEF DrainEnds
<1>3. ASSUME NEW i \in Stage, \/ Fork(i) \/ LeaveGroup(i) \/ DescendantEnds(i)
                              \/ Stops(i) \/ Exits(i) \/ Dies(i)
      PROVE  UNCHANGED <<pc, cause, answer, status, signalled, refused, drain>>
  BY <1>3 DEF Fork, LeaveGroup, DescendantEnds, Stops, Exits, Dies
<1>4. ASSUME Expire \/ PromptBegins \/ PromptEnds \/ UNCHANGED vars
      PROVE  UNCHANGED <<pc, cause, answer, status, signalled, refused, drain>>
  BY <1>4 DEF Expire, PromptBegins, PromptEnds, vars
<1> QED
  BY <1>1, <1>2, <1>3, <1>4 DEF Next, Drains, Environment

\* Nothing has happened yet.
LEMMA InitIInv == Init => IInv
<1> SUFFICES ASSUME Init PROVE IInv
  OBVIOUS
<1> USE ExecutorConstants
<1>1. TypeOK
  <2>1. /\ pending \in [Stream -> 0..PipeSize] /\ kept \in [Stream -> 0..MaxOutput]
        /\ written \in [Stream -> Nat] /\ truncated \in [Stream -> BOOLEAN]
    BY DEF Init
  <2>2. /\ status \in [Stage -> {"none", "own", "synthetic"}]
        /\ leader \in [Stage -> {"unborn", "running", "stopped", "doomed", "zombie", "reaped"}]
        /\ descendant \in [Stage -> {"none", "group", "left", "gone"}]
        /\ drain \in [Stream -> {"off", "reading", "done"}]
    BY DEF Init
  <2> QED
    BY <2>1, <2>2 DEF Init, TypeOK
<1>2. SpawnInv
  <2>1. Spawned = 1..0 /\ 0 \in 0..Children /\ 0 < Children
    BY <1>1, ShapeFacts DEF Init, Spawned, Stage
  <2> QED
    BY <2>1 DEF Init, SpawnInv
<1>3. CourseInv /\ StatusInv /\ SignalInv
  BY DEF Init, CourseInv, StatusInv, SignalInv, AtOnce
<1>4. CountInv /\ DrainInv
  BY DEF Init, CountInv, DrainInv, UpToCap
<1> QED
  BY <1>1, <1>2, <1>3, <1>4 DEF IInv

\* Every step keeps the types.
LEMMA TypeStep ==
    ASSUME IInv, [Next]_vars
    PROVE  TypeOK'
<1> USE ExecutorConstants
    DEF IInv, TypeOK, StartDrains, Tell, Ended, handler, process, streams, fixed
<1>1. CASE SpawnStage
  BY <1>1, ZenonT(60) DEF SpawnStage
<1>2. CASE SpawnFails
  BY <1>2 DEF SpawnFails
<1>3. CASE TakeForeground
  BY <1>3 DEF TakeForeground
<1>4. CASE Poll
  BY <1>4 DEF Poll, TryWait
<1>5. CASE KillGroup
  BY <1>5, MinTarget DEF KillGroup, SignalGroup
<1>6. CASE Reap
  BY <1>6, MinTarget, ZenonT(60) DEF Reap
<1>7. CASE KillsDone
  BY <1>7 DEF KillsDone
<1>8. CASE JoinDrains
  BY <1>8 DEF JoinDrains
<1>9. CASE Expire
  BY <1>9 DEF Expire
<1>10. CASE PromptBegins
  BY <1>10 DEF PromptBegins
<1>11. CASE PromptEnds
  BY <1>11 DEF PromptEnds
<1>12. ASSUME NEW s \in Stream, DrainRead(s) PROVE TypeOK'
  BY <1>12 DEF DrainRead, Kept
<1>13. ASSUME NEW s \in Stream, DrainEnds(s) PROVE TypeOK'
  BY <1>13 DEF DrainEnds
<1>14. ASSUME NEW s \in Stream, Write(s) PROVE TypeOK'
  BY <1>14 DEF Write
<1>15. ASSUME NEW i \in Stage, Fork(i) PROVE TypeOK'
  BY <1>15 DEF Fork
<1>16. ASSUME NEW i \in Stage, LeaveGroup(i) PROVE TypeOK'
  BY <1>16 DEF LeaveGroup
<1>17. ASSUME NEW i \in Stage, DescendantEnds(i) PROVE TypeOK'
  BY <1>17 DEF DescendantEnds
<1>18. ASSUME NEW i \in Stage, Stops(i) PROVE TypeOK'
  BY <1>18 DEF Stops
<1>19. ASSUME NEW i \in Stage, Exits(i) PROVE TypeOK'
  BY <1>19 DEF Exits
<1>20. ASSUME NEW i \in Stage, Dies(i) PROVE TypeOK'
  BY <1>20 DEF Dies
<1>21. CASE UNCHANGED vars
  BY <1>21 DEF vars
<1> QED
  BY <1>1, <1>2, <1>3, <1>4, <1>5, <1>6, <1>7, <1>8, <1>9, <1>10, <1>11, <1>12,
     <1>13, <1>14, <1>15, <1>16, <1>17, <1>18, <1>19, <1>20, <1>21
     DEF Next, Handler, Drains, Environment

\* A step that spawns nothing and lets nobody fork leaves SpawnInv as it is.
LEMMA SameSpawned ==
    ASSUME IInv, [Next]_vars,
           \A i \in Stage : leader'[i] = "unborn" <=> leader[i] = "unborn",
           \A i \in Stage : descendant'[i] # "none" =>
              descendant[i] # "none" \/ leader[i] # "unborn",
           pc' = "spawn" => pc = "spawn",
           pc' # "spawn" /\ cause' # "spawn" => pc # "spawn" /\ cause # "spawn"
    PROVE  SpawnInv'
<1>1. Spawned' = Spawned
  BY FixedShape, ShapeFacts DEF Spawned, IInv
<1>2. Children' = Children
  BY FixedShape
<1> QED
  BY <1>1, <1>2 DEF SpawnInv, IInv

\* A spawn gives birth to the next child, of which nothing is known yet.
LEMMA NextChild ==
    ASSUME IInv, SpawnStage
    PROVE  \E i \in 1..Children :
              /\ i \in Stage /\ Spawned = 1..(i - 1)
              /\ leader[i] = "unborn" /\ descendant[i] = "none"
              /\ leader' = [leader EXCEPT ![i] = "running"]
              /\ IF i < Children THEN pc' = "spawn" ELSE pc' \in {"tty", "poll"}
<1> USE DEF IInv
<1>1. PICK n \in 0..Children : Spawned = 1..n /\ n < Children
  BY DEF SpawnStage, SpawnInv
<1>2. Children \in Nat /\ 1..Children \subseteq Stage
  BY ShapeFacts
<1>3. n \in Nat /\ n + 1 \in 1..Children /\ n + 1 \in Stage
  <2>1. n \in Nat /\ n + 1 \in 1..Children
    BY <1>1, <1>2
  <2> QED
    BY <1>2, <2>1
<1>4. Cardinality(Spawned) = n
  BY <1>1, <1>3, FS_Interval
<1>5. /\ leader' = [leader EXCEPT ![n + 1] = "running"]
      /\ IF n + 1 < Children THEN pc' = "spawn" ELSE pc' \in {"tty", "poll"}
  BY <1>4 DEF SpawnStage
<1>6. leader[n + 1] = "unborn"
  <2>1. n + 1 \notin 1..n
    BY <1>3
  <2> QED
    BY <1>1, <1>3, <2>1 DEF Spawned
<1>7. descendant[n + 1] = "none"
  BY <1>3, <1>6 DEF SpawnInv
<1>8. (n + 1) - 1 = n
  BY <1>3
<1> QED
  BY <1>1, <1>3, <1>5, <1>6, <1>7, <1>8

\* Only a spawn changes who has been spawned.
LEMMA SpawnStep ==
    ASSUME IInv, [Next]_vars
    PROVE  SpawnInv'
<1> USE ExecutorConstants DEF IInv, TypeOK, CourseInv, process, handler, fixed
<1>1. CASE SpawnStage
  <2>1. PICK i \in 1..Children :
              /\ i \in Stage /\ Spawned = 1..(i - 1)
              /\ leader[i] = "unborn" /\ descendant[i] = "none"
              /\ leader' = [leader EXCEPT ![i] = "running"]
              /\ IF i < Children THEN pc' = "spawn" ELSE pc' \in {"tty", "poll"}
    BY <1>1, NextChild
  <2>2. Children \in Nat /\ i \in 0..Children /\ i \in Nat
    BY ShapeFacts
  <2>3. Spawned' = Spawned \cup {i}
    <3>1. \A j \in 1..Children : leader'[j] # "unborn" <=> leader[j] # "unborn" \/ j = i
      BY <2>1, ShapeFacts
    <3> QED
      BY <2>1, <3>1, FixedShape DEF Spawned
  <2>4. Spawned' = 1..i
    BY <2>1, <2>2, <2>3
  <2>5. \A j \in Stage : leader'[j] # "unborn" => j \in Spawned'
    BY <2>1, <2>3 DEF SpawnInv
  <2>6. \A j \in Stage : descendant'[j] # "none" => leader'[j] # "unborn"
    BY <1>1, <2>1 DEF SpawnInv, SpawnStage
  <2>7. /\ pc' = "spawn" => i < Children
        /\ pc' # "spawn" /\ cause' # "spawn" => i = Children
    <3>1. ~ (i < Children) => i = Children
      BY <2>1, <2>2
    <3> QED
      BY <2>1, <3>1
  <2> QED
    BY <2>2, <2>4, <2>5, <2>6, <2>7, FixedShape DEF SpawnInv
<1>2. CASE SpawnFails
  BY <1>2, SameSpawned DEF SpawnFails
<1>3. CASE TakeForeground
  BY <1>3, SameSpawned DEF TakeForeground
<1>4. CASE Poll
  BY <1>4, SameSpawned DEF Poll
<1>5. CASE KillGroup
  <2>1. /\ \A i \in Stage : leader'[i] = "unborn" <=> leader[i] = "unborn"
        /\ \A i \in Stage : descendant'[i] # "none" => descendant[i] # "none"
    <3>1. CASE process' = process
      BY <3>1 DEF process
    <3>2. CASE SignalGroup(Min(Targets))
      BY <3>2 DEF SignalGroup, LeaderLives
    <3> QED
      BY <1>5, <3>1, <3>2 DEF KillGroup
  <2> QED
    BY <1>5, <2>1, SameSpawned DEF KillGroup
<1>6. CASE Reap
  BY <1>6, SameSpawned, MinTarget DEF Reap, Targets
<1>7. CASE KillsDone
  BY <1>7, SameSpawned DEF KillsDone, Tell
<1>8. CASE JoinDrains
  BY <1>8, SameSpawned DEF JoinDrains, Tell
<1>9. CASE Expire
  BY <1>9, SameSpawned DEF Expire
<1>10. CASE PromptBegins
  BY <1>10, SameSpawned DEF PromptBegins
<1>11. CASE PromptEnds
  BY <1>11, SameSpawned DEF PromptEnds
<1>12. ASSUME NEW s \in Stream, DrainRead(s) PROVE SpawnInv'
  BY <1>12, SameSpawned DEF DrainRead
<1>13. ASSUME NEW s \in Stream, DrainEnds(s) PROVE SpawnInv'
  BY <1>13, SameSpawned DEF DrainEnds
<1>14. ASSUME NEW s \in Stream, Write(s) PROVE SpawnInv'
  BY <1>14, SameSpawned DEF Write
<1>15. ASSUME NEW i \in Stage, Fork(i) PROVE SpawnInv'
  BY <1>15, SameSpawned DEF Fork
<1>16. ASSUME NEW i \in Stage, LeaveGroup(i) PROVE SpawnInv'
  BY <1>16, SameSpawned DEF LeaveGroup
<1>17. ASSUME NEW i \in Stage, DescendantEnds(i) PROVE SpawnInv'
  BY <1>17, SameSpawned DEF DescendantEnds, DescendantLives
<1>18. ASSUME NEW i \in Stage, Stops(i) PROVE SpawnInv'
  BY <1>18, SameSpawned DEF Stops
<1>19. ASSUME NEW i \in Stage, Exits(i) PROVE SpawnInv'
  BY <1>19, SameSpawned DEF Exits, Ended
<1>20. ASSUME NEW i \in Stage, Dies(i) PROVE SpawnInv'
  BY <1>20, SameSpawned DEF Dies, Ended
<1>21. CASE UNCHANGED vars
  BY <1>21, SameSpawned DEF vars
<1> QED
  BY <1>1, <1>2, <1>3, <1>4, <1>5, <1>6, <1>7, <1>8, <1>9, <1>10, <1>11, <1>12,
     <1>13, <1>14, <1>15, <1>16, <1>17, <1>18, <1>19, <1>20, <1>21
     DEF Next, Handler, Drains, Environment

\* Whom the handler has to kill changes only with who was spawned or waited for.
LEMMA SameTargets ==
    ASSUME IInv, [Next]_vars, status' = status,
           \A i \in Stage : leader'[i] = "unborn" <=> leader[i] = "unborn"
    PROVE  Targets' = Targets
<1>1. Spawned' = Spawned
  BY FixedShape, ShapeFacts DEF Spawned, IInv
<1> QED
  BY <1>1 DEF Targets

\* The handler goes from one place to the next with what it has found out.
LEMMA CourseStep ==
    ASSUME IInv, [Next]_vars
    PROVE  CourseInv'
<1> USE FixedShape, SameTargets
    DEF IInv, TypeOK, CourseInv, AtOnce, process, handler, streams, fixed
<1>1. CASE SpawnStage
  BY <1>1 DEF SpawnStage
<1>2. CASE SpawnFails
  BY <1>2 DEF SpawnFails
<1>3. CASE TakeForeground
  BY <1>3 DEF TakeForeground
<1>4. CASE Poll
  BY <1>4 DEF Poll
<1>5. CASE KillGroup
  BY <1>5, MinTarget DEF KillGroup, SignalGroup, LeaderLives
<1>6. CASE Reap
  BY <1>6, MinTarget DEF Reap
<1>7. CASE KillsDone
  BY <1>7 DEF KillsDone, Tell
<1>8. CASE JoinDrains
  BY <1>8 DEF JoinDrains, Tell
<1>9. CASE Expire
  BY <1>9 DEF Expire
<1>10. CASE PromptBegins
  BY <1>10 DEF PromptBegins
<1>11. CASE PromptEnds
  BY <1>11 DEF PromptEnds
<1>12. ASSUME NEW s \in Stream, DrainRead(s) PROVE CourseInv'
  BY <1>12 DEF DrainRead
<1>13. ASSUME NEW s \in Stream, DrainEnds(s) PROVE CourseInv'
  BY <1>13 DEF DrainEnds
<1>14. ASSUME NEW s \in Stream, Write(s) PROVE CourseInv'
  BY <1>14 DEF Write
<1>15. ASSUME NEW i \in Stage, Fork(i) PROVE CourseInv'
  BY <1>15 DEF Fork
<1>16. ASSUME NEW i \in Stage, LeaveGroup(i) PROVE CourseInv'
  BY <1>16 DEF LeaveGroup
<1>17. ASSUME NEW i \in Stage, DescendantEnds(i) PROVE CourseInv'
  BY <1>17 DEF DescendantEnds, DescendantLives
<1>18. ASSUME NEW i \in Stage, Stops(i) PROVE CourseInv'
  BY <1>18 DEF Stops
<1>19. ASSUME NEW i \in Stage, Exits(i) PROVE CourseInv'
  BY <1>19 DEF Exits, Ended, LeaderLives
<1>20. ASSUME NEW i \in Stage, Dies(i) PROVE CourseInv'
  BY <1>20 DEF Dies, Ended
<1>21. CASE UNCHANGED vars
  BY <1>21 DEF vars
<1> QED
  BY <1>1, <1>2, <1>3, <1>4, <1>5, <1>6, <1>7, <1>8, <1>9, <1>10, <1>11, <1>12,
     <1>13, <1>14, <1>15, <1>16, <1>17, <1>18, <1>19, <1>20, <1>21
     DEF Next, Handler, Drains, Environment

\* While it polls, all the children are there, and they are all there are.
LEMMA AllSpawned ==
    ASSUME IInv, pc \notin {"spawn"}, cause # "spawn"
    PROVE  /\ Spawned = 1..Children
           /\ \A i \in Stage : i \in 1..Children <=> leader[i] # "unborn"
<1>1. Spawned = 1..Children
  BY DEF IInv, SpawnInv
<1> QED
  BY <1>1 DEF Spawned, IInv, SpawnInv

\* One pass of try_wait, child by child.
LEMMA PollFacts ==
    ASSUME IInv, Poll, NEW i \in Stage
    PROVE  /\ leader'[i] = IF leader[i] = "zombie" THEN "reaped" ELSE leader[i]
           /\ status'[i] = TryWait[i]
           /\ status'[i] \in {"none", status[i], "own", "synthetic"}
           /\ status[i] # "none" => status'[i] = status[i]
           /\ leader[i] = "unborn" => status'[i] = "none"
           /\ leader[i] = "zombie" => status'[i] = "own"
           /\ status'[i] = "own" /\ status[i] # "own" => leader[i] = "zombie"
           /\ status'[i] = "synthetic" /\ status[i] # "synthetic" =>
                  leader[i] = "reaped" /\ status[i] = "none" /\ ~ Single
<1> USE DEF IInv, TypeOK
<1>1. pc = "poll" /\ cause = "none" /\ status' = TryWait
  BY DEF Poll, CourseInv
<1>2. i \in 1..Children <=> leader[i] # "unborn"
  BY <1>1, AllSpawned
<1>3. leader'[i] = IF leader[i] = "zombie" THEN "reaped" ELSE leader[i]
  BY DEF Poll
<1>4. status[i] # "none" => leader[i] = "reaped"
  BY DEF StatusInv
<1>5. status'[i] =
        IF i \notin 1..Children \/ status[i] # "none" THEN status[i]
        ELSE IF leader[i] = "zombie" THEN "own"
        ELSE IF leader[i] = "reaped" /\ ~Single THEN "synthetic"
        ELSE "none"
  BY <1>1 DEF TryWait
<1> QED
  BY <1>1, <1>2, <1>3, <1>4, <1>5

\* What a call of kill_group's killpg does to its child.
LEMMA KillFacts ==
    ASSUME IInv, KillGroup
    PROVE  \E i \in Stage :
              /\ i = Min(Targets) /\ i \in Spawned /\ status[i] = "none"
              /\ leader[i] # "unborn"
              /\ signalled' = signalled \cup {i}
              /\ \/ /\ refused' = refused
                    /\ leader'[i] \notin {"unborn", "running", "stopped"}
                    /\ leader'[i] = "reaped" <=> leader[i] = "reaped"
                    /\ descendant'[i] # "group"
                    /\ descendant[i] = "none" => descendant'[i] = "none"
                 \/ /\ shape.via # "direct" /\ refused' = refused \cup {i}
                    /\ leader' = leader /\ descendant' = descendant
              /\ \A j \in Stage \ {i} : leader'[j] = leader[j] /\ descendant'[j] = descendant[j]
<1> USE DEF IInv, TypeOK
<1> DEFINE i == Min(Targets)
<1>1. i \in Targets /\ i \in Stage
  BY MinTarget DEF KillGroup
<1>2. leader[i] # "unborn" /\ status[i] = "none" /\ i \in Spawned
  BY <1>1 DEF Targets, Spawned
<1>3. CASE SignalGroup(i) /\ UNCHANGED refused
  <2>1. /\ leader' = [leader EXCEPT ![i] = IF LeaderLives(i) THEN "doomed" ELSE @]
        /\ descendant' = [descendant EXCEPT ![i] = IF @ = "group" THEN "gone" ELSE @]
        /\ refused' = refused
    BY <1>3 DEF SignalGroup
  <2>2. /\ leader'[i] = IF LeaderLives(i) THEN "doomed" ELSE leader[i]
        /\ descendant'[i] = IF descendant[i] = "group" THEN "gone" ELSE descendant[i]
        /\ \A j \in Stage \ {i} : leader'[j] = leader[j] /\ descendant'[j] = descendant[j]
    BY <1>1, <2>1
  <2>3. /\ leader'[i] \notin {"unborn", "running", "stopped"}
        /\ leader'[i] = "reaped" <=> leader[i] = "reaped"
    BY <1>2, <2>2 DEF LeaderLives
  <2> HIDE DEF i
  <2> QED
    BY <1>1, <1>2, <2>1, <2>2, <2>3 DEF KillGroup, i
<1>4. CASE shape.via # "direct" /\ refused' = refused \cup {i} /\ UNCHANGED process
  <2> HIDE DEF i
  <2> QED
    BY <1>1, <1>2, <1>4 DEF KillGroup, process, i
<1> QED
  BY <1>3, <1>4 DEF KillGroup

\* A status is learnt when the daemon waits for the child, by Poll or by Reap.
LEMMA StatusStep ==
    ASSUME IInv, [Next]_vars
    PROVE  StatusInv'
<1> USE FixedShape
    DEF IInv, TypeOK, StatusInv, process, handler, fixed
<1>1. CASE SpawnStage
  <2>1. PICK i \in Stage :
            leader[i] = "unborn" /\ leader' = [leader EXCEPT ![i] = "running"]
    BY <1>1, NextChild
  <2> QED
    BY <1>1, <2>1 DEF SpawnStage
<1>2. CASE SpawnFails
  BY <1>2 DEF SpawnFails, CourseInv
<1>3. CASE TakeForeground
  BY <1>3 DEF TakeForeground
<1>4. CASE Poll
  <2>1. /\ \A i \in Stage : status'[i] # "none" => leader'[i] = "reaped"
        /\ \A i \in Stage : leader'[i] = "reaped" => status'[i] # "none" \/ autoReap
        /\ \A i \in Stage : status'[i] = "synthetic" => i \in signalled \/ autoReap
    BY <1>4, PollFacts
  <2>2. signalled' = signalled /\ pc' \in {"poll", "kill", "join"}
    BY <1>4 DEF Poll
  <2>3. pc' = "join" => \A i \in Stage : leader'[i] # "unborn" => status'[i] # "none"
    <3>1. pc = "poll" /\ cause = "none"
      BY <1>4 DEF Poll, CourseInv
    <3>2. pc' = "join" => \A i \in 1..Children : TryWait[i] # "none"
      BY <1>4 DEF Poll
    <3>3. \A i \in Stage : leader'[i] # "unborn" => i \in 1..Children
      BY <1>4, <3>1, PollFacts, AllSpawned
    <3> QED
      BY <1>4, <3>2, <3>3, PollFacts
  <2> QED
    BY <2>1, <2>2, <2>3
<1>5. CASE KillGroup
  <2>1. PICK i \in Stage :
            /\ status[i] = "none" /\ signalled' = signalled \cup {i}
            /\ leader'[i] = "reaped" <=> leader[i] = "reaped"
            /\ \A j \in Stage \ {i} : leader'[j] = leader[j]
    BY <1>5, KillFacts
  <2> QED
    BY <1>5, <2>1 DEF KillGroup
<1>6. CASE Reap
  <2>1. PICK i \in Stage : /\ i \in signalled
                          /\ leader' = [leader EXCEPT ![i] = "reaped"]
                          /\ status' = [status EXCEPT ![i] = "synthetic"]
    BY <1>6, MinTarget DEF Reap, CourseInv
  <2> QED
    BY <1>6, <2>1 DEF Reap
<1>7. CASE KillsDone
  BY <1>7 DEF KillsDone, Tell, Targets, SpawnInv
<1>8. CASE JoinDrains
  BY <1>8 DEF JoinDrains, Tell
<1>9. CASE Expire
  BY <1>9 DEF Expire
<1>10. CASE PromptBegins
  BY <1>10 DEF PromptBegins
<1>11. CASE PromptEnds
  BY <1>11 DEF PromptEnds
<1>12. ASSUME NEW s \in Stream, DrainRead(s) PROVE StatusInv'
  BY <1>12 DEF DrainRead
<1>13. ASSUME NEW s \in Stream, DrainEnds(s) PROVE StatusInv'
  BY <1>13 DEF DrainEnds
<1>14. ASSUME NEW s \in Stream, Write(s) PROVE StatusInv'
  BY <1>14 DEF Write
<1>15. ASSUME NEW i \in Stage, Fork(i) PROVE StatusInv'
  BY <1>15 DEF Fork
<1>16. ASSUME NEW i \in Stage, LeaveGroup(i) PROVE StatusInv'
  BY <1>16 DEF LeaveGroup
<1>17. ASSUME NEW i \in Stage, DescendantEnds(i) PROVE StatusInv'
  BY <1>17 DEF DescendantEnds, DescendantLives
<1>18. ASSUME NEW i \in Stage, Stops(i) PROVE StatusInv'
  BY <1>18 DEF Stops
<1>19. ASSUME NEW i \in Stage, Exits(i) PROVE StatusInv'
  BY <1>19 DEF Exits, Ended
<1>20. ASSUME NEW i \in Stage, Dies(i) PROVE StatusInv'
  BY <1>20 DEF Dies, Ended
<1>21. CASE UNCHANGED vars
  BY <1>21 DEF vars
<1> QED
  BY <1>1, <1>2, <1>3, <1>4, <1>5, <1>6, <1>7, <1>8, <1>9, <1>10, <1>11, <1>12,
     <1>13, <1>14, <1>15, <1>16, <1>17, <1>18, <1>19, <1>20, <1>21
     DEF Next, Handler, Drains, Environment

\* SIGKILL reaches the group or is refused.
LEMMA SignalStep ==
    ASSUME IInv, [Next]_vars
    PROVE  SignalInv'
<1> USE FixedShape
    DEF IInv, TypeOK, SignalInv, AtOnce, process, handler, fixed
<1>1. CASE SpawnStage
  <2>1. cause = "none" /\ cause' = "none" /\ signalled' = {} /\ refused' = {}
    BY <1>1 DEF SpawnStage, CourseInv
  <2> QED
    BY <2>1
<1>2. CASE SpawnFails
  <2>1. signalled' = {} /\ refused' = {} /\ cause' = "spawn"
    BY <1>2 DEF SpawnFails, CourseInv
  <2>2. \A i \in Stage : status'[i] = "none"
    BY <1>2 DEF SpawnFails, StatusInv
  <2> QED
    BY <2>1, <2>2
<1>3. CASE TakeForeground
  BY <1>3 DEF TakeForeground
<1>4. CASE Poll
  <2>1. signalled' = {} /\ refused' = {} /\ pc = "poll" /\ cause = "none"
    BY <1>4 DEF Poll, CourseInv
  <2>2. cause' # "none" => WaitFails \/ ~ \A i \in 1..Children : TryWait[i] # "none"
    BY <1>4, <2>1 DEF Poll
  <2>3. cause' \in {"none", "wait", "timeout"}
    BY <1>4, <2>1 DEF Poll
  <2>4. ASSUME AtOnce', NEW i \in Stage
        PROVE  status'[i] = "none"
    <3>1. Single /\ cause' # "none" /\ Children = 1
      BY <2>3, <2>4 DEF Single
    <3>2. 1 \in Stage
      BY <3>1, ShapeFacts
    <3>3. TryWait[1] = "none"
      <4>1. CASE WaitFails
        BY <3>1, <3>2, <4>1 DEF WaitFails, TryWait
      <4>2. CASE ~ \A j \in 1..Children : TryWait[j] # "none"
        BY <3>1, <4>2
      <4> QED
        BY <2>2, <3>1, <4>1, <4>2
    <3>4. i # 1 => leader[i] = "unborn"
      BY <2>1, <3>1, AllSpawned
    <3> QED
      BY <1>4, <3>2, <3>3, <3>4, PollFacts
  <2> QED
    BY <2>1, <2>4
<1>5. CASE KillGroup
  <2>1. PICK i \in Stage :
            /\ status[i] = "none" /\ signalled' = signalled \cup {i}
            /\ \/ /\ refused' = refused
                  /\ leader'[i] \notin {"unborn", "running", "stopped"}
                  /\ descendant'[i] # "group"
               \/ shape.via # "direct" /\ refused' = refused \cup {i}
            /\ \A j \in Stage \ {i} : leader'[j] = leader[j] /\ descendant'[j] = descendant[j]
    BY <1>5, KillFacts
  <2>2. cause' = cause /\ cause # "none" /\ status' = status
    BY <1>5 DEF KillGroup, CourseInv
  <2>3. \A j \in signalled' \ refused' :
            leader'[j] \notin {"unborn", "running", "stopped"} /\ descendant'[j] # "group"
    BY <2>1
  <2>4. \A j \in Stage : j \in refused' => shape'.via # "direct"
    BY <2>1
  <2> QED
    BY <2>1, <2>2, <2>3, <2>4
<1>6. CASE Reap
  <2>1. PICK i \in Stage : /\ i \in signalled
                          /\ leader' = [leader EXCEPT ![i] = "reaped"]
                          /\ status' = [status EXCEPT ![i] = "synthetic"]
    BY <1>6, MinTarget DEF Reap, CourseInv
  <2> QED
    BY <1>6, <2>1 DEF Reap
<1>7. CASE KillsDone
  BY <1>7 DEF KillsDone, Tell
<1>8. CASE JoinDrains
  BY <1>8 DEF JoinDrains, Tell
<1>9. CASE Expire
  BY <1>9 DEF Expire, CourseInv
<1>10. CASE PromptBegins
  BY <1>10 DEF PromptBegins
<1>11. CASE PromptEnds
  BY <1>11 DEF PromptEnds
<1>12. ASSUME NEW s \in Stream, DrainRead(s) PROVE SignalInv'
  BY <1>12 DEF DrainRead
<1>13. ASSUME NEW s \in Stream, DrainEnds(s) PROVE SignalInv'
  BY <1>13 DEF DrainEnds
<1>14. ASSUME NEW s \in Stream, Write(s) PROVE SignalInv'
  BY <1>14 DEF Write
<1>15. ASSUME NEW i \in Stage, Fork(i) PROVE SignalInv'
  BY <1>15 DEF Fork
<1>16. ASSUME NEW i \in Stage, LeaveGroup(i) PROVE SignalInv'
  BY <1>16 DEF LeaveGroup
<1>17. ASSUME NEW i \in Stage, DescendantEnds(i) PROVE SignalInv'
  BY <1>17 DEF DescendantEnds, DescendantLives
<1>18. ASSUME NEW i \in Stage, Stops(i) PROVE SignalInv'
  BY <1>18 DEF Stops
<1>19. ASSUME NEW i \in Stage, Exits(i) PROVE SignalInv'
  BY <1>19 DEF Exits, Ended
<1>20. ASSUME NEW i \in Stage, Dies(i) PROVE SignalInv'
  BY <1>20 DEF Dies, Ended
<1>21. CASE UNCHANGED vars
  BY <1>21 DEF vars
<1> QED
  BY <1>1, <1>2, <1>3, <1>4, <1>5, <1>6, <1>7, <1>8, <1>9, <1>10, <1>11, <1>12,
     <1>13, <1>14, <1>15, <1>16, <1>17, <1>18, <1>19, <1>20, <1>21
     DEF Next, Handler, Drains, Environment

\* What a read takes is kept up to the cap, and the flag says whether all was.
LEMMA ReadCounts ==
    ASSUME TypeOK, CountInv, NEW s \in Stream, DrainRead(s)
    PROVE  CountInv'
<1>1. PICK n \in 1..pending[s] :
          /\ pending' = [pending EXCEPT ![s] = @ - n]
          /\ kept' = [kept EXCEPT ![s] = Kept(s, n)]
          /\ truncated' = [truncated EXCEPT ![s] = @ \/ Overflows(s, n)]
  BY DEF DrainRead
<1>2. written' = written
  BY DEF DrainRead
<1>3. /\ pending \in [Stream -> Nat] /\ kept \in [Stream -> Nat]
      /\ truncated \in [Stream -> BOOLEAN] /\ written \in [Stream -> Nat]
      /\ MaxOutput \in Nat
  BY ExecutorConstants DEF TypeOK
<1>4. n \in Nat \ {0} /\ n <= pending[s]
  BY <1>3
<1>5. /\ pending'[s] = pending[s] - n /\ kept'[s] = Kept(s, n)
      /\ \A r \in Stream \ {s} : pending'[r] = pending[r] /\ kept'[r] = kept[r]
  BY <1>1, <1>3
<1>6. /\ truncated'[s] <=> truncated[s] \/ Overflows(s, n)
      /\ \A r \in Stream \ {s} : truncated'[r] = truncated[r]
  BY <1>1, <1>3, Zenon
<1>7. written[s] - pending'[s] = (written[s] - pending[s]) + n
  BY <1>3, <1>4, <1>5
<1>8. /\ pending[s] <= written[s] /\ kept[s] = UpToCap(written[s] - pending[s])
      /\ truncated[s] <=> written[s] - pending[s] > MaxOutput
  BY DEF CountInv
<1>9. kept'[s] = UpToCap(written[s] - pending'[s])
  BY <1>3, <1>4, <1>5, <1>7, <1>8 DEF Kept, UpToCap
<1>10. truncated'[s] <=> written[s] - pending'[s] > MaxOutput
  <2>1. Overflows(s, n) \/ written[s] - pending[s] > MaxOutput
          <=> (written[s] - pending[s]) + n > MaxOutput
    BY <1>3, <1>4, <1>8 DEF Overflows, UpToCap
  <2> QED
    BY <1>6, <1>7, <1>8, <2>1
<1>11. pending'[s] <= written[s]
  BY <1>3, <1>4, <1>5, <1>8
<1> QED
  BY <1>2, <1>5, <1>6, <1>9, <1>10, <1>11 DEF CountInv

\* What is written is pending.
LEMMA WriteCounts ==
    ASSUME TypeOK, CountInv, NEW s \in Stream, Write(s)
    PROVE  CountInv'
<1>1. /\ pending' = [pending EXCEPT ![s] = @ + 1]
      /\ written' = [written EXCEPT ![s] = @ + 1]
      /\ kept' = kept /\ truncated' = truncated
  BY DEF Write
<1>2. pending \in [Stream -> Nat] /\ written \in [Stream -> Nat]
  BY ExecutorConstants DEF TypeOK
<1>3. /\ pending'[s] = pending[s] + 1 /\ written'[s] = written[s] + 1
      /\ \A r \in Stream \ {s} : pending'[r] = pending[r] /\ written'[r] = written[r]
  BY <1>1, <1>2
<1>4. pending[s] <= written[s]
  BY DEF CountInv
<1>5. written'[s] - pending'[s] = written[s] - pending[s] /\ pending'[s] <= written'[s]
  BY <1>2, <1>3, <1>4
<1> QED
  BY <1>1, <1>3, <1>5 DEF CountInv

\* What is read is kept, up to the cap.
LEMMA CountStep ==
    ASSUME IInv, [Next]_vars
    PROVE  CountInv'
<1> USE DEF CountInv, streams, IInv
<1>1. CASE SpawnStage
  BY <1>1 DEF SpawnStage
<1>2. CASE SpawnFails
  BY <1>2 DEF SpawnFails
<1>3. CASE TakeForeground
  BY <1>3 DEF TakeForeground
<1>4. CASE Poll
  BY <1>4 DEF Poll
<1>5. CASE KillGroup
  BY <1>5 DEF KillGroup
<1>6. CASE Reap
  BY <1>6 DEF Reap
<1>7. CASE KillsDone
  BY <1>7 DEF KillsDone
<1>8. CASE JoinDrains
  BY <1>8 DEF JoinDrains
<1>9. CASE Expire
  BY <1>9 DEF Expire
<1>10. CASE PromptBegins
  BY <1>10 DEF PromptBegins
<1>11. CASE PromptEnds
  BY <1>11 DEF PromptEnds
<1>12. ASSUME NEW s \in Stream, DrainRead(s) PROVE CountInv'
  BY <1>12, ReadCounts
<1>13. ASSUME NEW s \in Stream, DrainEnds(s) PROVE CountInv'
  BY <1>13 DEF DrainEnds
<1>14. ASSUME NEW s \in Stream, Write(s) PROVE CountInv'
  BY <1>14, WriteCounts
<1>15. ASSUME NEW i \in Stage, Fork(i) PROVE CountInv'
  BY <1>15 DEF Fork
<1>16. ASSUME NEW i \in Stage, LeaveGroup(i) PROVE CountInv'
  BY <1>16 DEF LeaveGroup
<1>17. ASSUME NEW i \in Stage, DescendantEnds(i) PROVE CountInv'
  BY <1>17 DEF DescendantEnds
<1>18. ASSUME NEW i \in Stage, Stops(i) PROVE CountInv'
  BY <1>18 DEF Stops
<1>19. ASSUME NEW i \in Stage, Exits(i) PROVE CountInv'
  BY <1>19 DEF Exits
<1>20. ASSUME NEW i \in Stage, Dies(i) PROVE CountInv'
  BY <1>20 DEF Dies
<1>21. CASE UNCHANGED vars
  BY <1>21 DEF vars
<1> QED
  BY <1>1, <1>2, <1>3, <1>4, <1>5, <1>6, <1>7, <1>8, <1>9, <1>10, <1>11, <1>12,
     <1>13, <1>14, <1>15, <1>16, <1>17, <1>18, <1>19, <1>20, <1>21
     DEF Next, Handler, Drains, Environment

\* A child that has ended with all it forked has ended for good.
LEMMA StaysGone ==
    ASSUME IInv, [Next]_vars, NEW j \in Stage, pc # "spawn",
           ~ LeaderLives(j), ~ DescendantLives(j)
    PROVE  ~ LeaderLives(j)' /\ ~ DescendantLives(j)'
<1> USE DEF IInv, TypeOK, LeaderLives, DescendantLives, process
<1>1. CASE SpawnStage
  BY <1>1 DEF SpawnStage
<1>2. CASE SpawnFails
  BY <1>2 DEF SpawnFails
<1>3. CASE TakeForeground
  BY <1>3 DEF TakeForeground
<1>4. CASE Poll
  <2>1. leader'[j] = (IF leader[j] = "zombie" THEN "reaped" ELSE leader[j])
    BY <1>4, PollFacts
  <2> QED
    BY <1>4, <2>1 DEF Poll
<1>5. CASE KillGroup
  <2>1. PICK i \in Stage : SignalGroup(i) \/ UNCHANGED process
    BY <1>5, MinTarget DEF KillGroup, SignalGroup
  <2> QED
    BY <1>5, <2>1 DEF SignalGroup
<1>6. CASE Reap
  BY <1>6 DEF Reap
<1>7. CASE KillsDone
  BY <1>7 DEF KillsDone
<1>8. CASE JoinDrains
  BY <1>8 DEF JoinDrains
<1>9. CASE Expire
  BY <1>9 DEF Expire
<1>10. CASE PromptBegins
  BY <1>10 DEF PromptBegins
<1>11. CASE PromptEnds
  BY <1>11 DEF PromptEnds
<1>12. ASSUME NEW s \in Stream, DrainRead(s) PROVE ~ LeaderLives(j)' /\ ~ DescendantLives(j)'
  BY <1>12 DEF DrainRead
<1>13. ASSUME NEW s \in Stream, DrainEnds(s) PROVE ~ LeaderLives(j)' /\ ~ DescendantLives(j)'
  BY <1>13 DEF DrainEnds
<1>14. ASSUME NEW s \in Stream, Write(s) PROVE ~ LeaderLives(j)' /\ ~ DescendantLives(j)'
  BY <1>14 DEF Write
<1>15. ASSUME NEW i \in Stage, Fork(i) PROVE ~ LeaderLives(j)' /\ ~ DescendantLives(j)'
  BY <1>15 DEF Fork
<1>16. ASSUME NEW i \in Stage, LeaveGroup(i) PROVE ~ LeaderLives(j)' /\ ~ DescendantLives(j)'
  BY <1>16 DEF LeaveGroup
<1>17. ASSUME NEW i \in Stage, DescendantEnds(i) PROVE ~ LeaderLives(j)' /\ ~ DescendantLives(j)'
  BY <1>17 DEF DescendantEnds
<1>18. ASSUME NEW i \in Stage, Stops(i) PROVE ~ LeaderLives(j)' /\ ~ DescendantLives(j)'
  BY <1>18 DEF Stops
<1>19. ASSUME NEW i \in Stage, Exits(i) PROVE ~ LeaderLives(j)' /\ ~ DescendantLives(j)'
  BY <1>19 DEF Exits, Ended
<1>20. ASSUME NEW i \in Stage, Dies(i) PROVE ~ LeaderLives(j)' /\ ~ DescendantLives(j)'
  BY <1>20 DEF Dies, Ended
<1>21. CASE UNCHANGED vars
  BY <1>21 DEF vars
<1> QED
  BY <1>1, <1>2, <1>3, <1>4, <1>5, <1>6, <1>7, <1>8, <1>9, <1>10, <1>11, <1>12,
     <1>13, <1>14, <1>15, <1>16, <1>17, <1>18, <1>19, <1>20, <1>21
     DEF Next, Handler, Drains, Environment

\* The drains start together, before the children are waited for; one ends by
\* reading the end of its stream; and that is all.
LEMMA DrainChange ==
    ASSUME IInv, [Next]_vars, drain' # drain
    PROVE  \/ pc \in {"spawn", "tty"} /\ pc' = "poll" /\ cause' = "none" /\ StartDrains
           \/ \E s \in Stream : DrainEnds(s) /\ UNCHANGED <<pc, cause>>
<1>1. CASE Handler
  BY <1>1 DEF Handler, SpawnStage, SpawnFails, TakeForeground, Poll, KillGroup, Reap,
              KillsDone, JoinDrains, streams, IInv, CourseInv
<1>2. ASSUME NEW s \in Stream, DrainEnds(s)
      PROVE  UNCHANGED <<pc, cause>>
  BY <1>2 DEF DrainEnds, handler
<1> QED
  BY <1>1, <1>2, OnlyHandler

\* Nothing is written to a stream that has ended.
LEMMA StaysEmpty ==
    ASSUME IInv, [Next]_vars, NEW r \in Stream, drain[r] = "done"
    PROVE  pending'[r] = 0
<1>0. r \in Streams /\ pending[r] = 0 /\ Closed(r)
  BY DEF IInv, DrainInv
<1> USE DEF IInv, TypeOK, streams
<1>1. CASE SpawnStage
  BY <1>1, <1>0 DEF SpawnStage
<1>2. CASE SpawnFails
  BY <1>2, <1>0 DEF SpawnFails
<1>3. CASE TakeForeground
  BY <1>3, <1>0 DEF TakeForeground
<1>4. CASE Poll
  BY <1>4, <1>0 DEF Poll
<1>5. CASE KillGroup
  BY <1>5, <1>0 DEF KillGroup
<1>6. CASE Reap
  BY <1>6, <1>0 DEF Reap
<1>7. CASE KillsDone
  BY <1>7, <1>0 DEF KillsDone
<1>8. CASE JoinDrains
  BY <1>8, <1>0 DEF JoinDrains
<1>9. CASE Expire
  BY <1>9, <1>0 DEF Expire
<1>10. CASE PromptBegins
  BY <1>10, <1>0 DEF PromptBegins
<1>11. CASE PromptEnds
  BY <1>11, <1>0 DEF PromptEnds
<1>12. ASSUME NEW s \in Stream, DrainRead(s) PROVE pending'[r] = 0
  BY <1>12, <1>0 DEF DrainRead
<1>13. ASSUME NEW s \in Stream, DrainEnds(s) PROVE pending'[r] = 0
  BY <1>13, <1>0 DEF DrainEnds
<1>14. ASSUME NEW s \in Stream, Write(s) PROVE pending'[r] = 0
  BY <1>14, <1>0 DEF Write, Closed, LeaderLives, DescendantLives
<1>15. ASSUME NEW i \in Stage, Fork(i) PROVE pending'[r] = 0
  BY <1>15, <1>0 DEF Fork
<1>16. ASSUME NEW i \in Stage, LeaveGroup(i) PROVE pending'[r] = 0
  BY <1>16, <1>0 DEF LeaveGroup
<1>17. ASSUME NEW i \in Stage, DescendantEnds(i) PROVE pending'[r] = 0
  BY <1>17, <1>0 DEF DescendantEnds
<1>18. ASSUME NEW i \in Stage, Stops(i) PROVE pending'[r] = 0
  BY <1>18, <1>0 DEF Stops
<1>19. ASSUME NEW i \in Stage, Exits(i) PROVE pending'[r] = 0
  BY <1>19, <1>0 DEF Exits
<1>20. ASSUME NEW i \in Stage, Dies(i) PROVE pending'[r] = 0
  BY <1>20, <1>0 DEF Dies
<1>21. CASE UNCHANGED vars
  BY <1>21, <1>0 DEF vars, streams
<1> QED
  BY <1>1, <1>2, <1>3, <1>4, <1>5, <1>6, <1>7, <1>8, <1>9, <1>10, <1>11, <1>12,
     <1>13, <1>14, <1>15, <1>16, <1>17, <1>18, <1>19, <1>20, <1>21
     DEF Next, Handler, Drains, Environment

\* A drain that has ended stays so, with its stream.
LEMMA StaysDone ==
    ASSUME IInv, [Next]_vars, NEW r \in Stream, drain[r] = "done"
    PROVE  drain'[r] = "done" /\ pending'[r] = 0 /\ Closed(r)'
<1>1. r \in Streams /\ Closed(r) /\ pc \notin {"spawn", "tty"}
  BY DEF IInv, DrainInv
<1>2. drain'[r] = "done"
  BY <1>1, DrainChange DEF DrainEnds, IInv, TypeOK
<1>3. pending'[r] = 0
  BY StaysEmpty
<1>4. Closed(r)'
  <2> DEFINE j == Owner(r)
  <2>1. j \in Stage /\ ~ LeaderLives(j) /\ ~ DescendantLives(j)
    BY <1>1, ShapeFacts DEF IInv, Closed
  <2>2. Owner(r)' = j
    BY FixedShape DEF Owner
  <2>3. \A k \in Stage : ~ LeaderLives(k) /\ ~ DescendantLives(k) =>
            leader'[k] \notin {"running", "stopped", "doomed"}
               /\ descendant'[k] \notin {"group", "left"}
    BY <1>1, StaysGone DEF LeaderLives, DescendantLives
  <2> HIDE DEF j
  <2> QED
    BY <2>1, <2>2, <2>3 DEF Closed, LeaderLives, DescendantLives
<1> QED
  BY <1>2, <1>3, <1>4

\* A drain ends at the end of a stream it was reading.
LEMMA EndsDone ==
    ASSUME IInv, [Next]_vars, NEW s \in Stream, DrainEnds(s)
    PROVE  /\ pending'[s] = 0 /\ Closed(s)'
           /\ \A r \in Stream \ {s} : drain'[r] = drain[r]
<1>1. /\ pending[s] = 0 /\ Closed(s)
      /\ leader' = leader /\ descendant' = descendant /\ pending' = pending
  BY DEF DrainEnds, process
<1>2. Owner(s)' = Owner(s)
  BY FixedShape DEF Owner
<1>3. Closed(s)'
  BY <1>1, <1>2 DEF Closed, LeaderLives, DescendantLives
<1>4. \A r \in Stream \ {s} : drain'[r] = drain[r]
  BY DEF DrainEnds, IInv, TypeOK
<1> QED
  BY <1>1, <1>3, <1>4

\* No drain before the children; none ends early; and all are joined.
LEMMA DrainStep ==
    ASSUME IInv, [Next]_vars
    PROVE  DrainInv'
<1> USE DEF IInv
<1>1. Streams' = Streams /\ Streams \subseteq Stream
  BY FixedShape, ShapeFacts
<1>2. pc' \in {"spawn", "tty"} \/ cause' = "spawn" => \A r \in Stream : drain'[r] = "off"
  <2>1. ASSUME pc' \in {"spawn", "tty"} \/ cause' = "spawn"
        PROVE  pc \in {"spawn", "tty"} \/ cause = "spawn"
    <3>1. CASE Handler
      BY <2>1, <3>1 DEF Handler, SpawnStage, SpawnFails, TakeForeground, Poll, KillGroup,
                        Reap, KillsDone, JoinDrains, Tell, CourseInv
    <3> QED
      BY <2>1, <3>1, OnlyHandler
  <2>2. pc \in {"spawn", "tty"} \/ cause = "spawn" => \A r \in Stream : ~ DrainEnds(r)
    BY DEF DrainInv, DrainEnds
  <2> QED
    BY <2>1, <2>2, DrainChange DEF DrainInv
<1>3. \A r \in Stream : drain'[r] # "off" => r \in Streams'
  <2>1. StartDrains => \A r \in Stream : drain'[r] # "off" => r \in Streams
    BY DEF StartDrains
  <2>2. ASSUME NEW s \in Stream, DrainEnds(s)
        PROVE  \A r \in Stream : drain'[r] # "off" => r \in Streams
    BY <2>2, EndsDone DEF DrainInv, DrainEnds
  <2> QED
    BY <1>1, <2>1, <2>2, DrainChange DEF DrainInv
<1>4. ASSUME NEW r \in Stream, drain'[r] = "done"
      PROVE  pending'[r] = 0 /\ Closed(r)'
  <2>1. CASE drain[r] = "done"
    BY <2>1, StaysDone
  <2>2. CASE drain[r] # "done"
    <3>1. ~ StartDrains
      BY <1>4 DEF StartDrains
    <3>2. DrainEnds(r)
      BY <1>4, <2>2, <3>1, DrainChange, EndsDone
    <3> QED
      BY <3>2, EndsDone
  <2> QED
    BY <2>1, <2>2
<1>5. pc' = "told" /\ ~ AtOnce' => \A r \in Streams : drain'[r] = "done"
  <2>1. pc' = "told" /\ ~ AtOnce' => \A r \in Streams : drain[r] = "done"
    <3>1. CASE Handler
      BY <3>1, FixedShape
         DEF Handler, SpawnStage, SpawnFails, TakeForeground, Poll, KillGroup, Reap,
             KillsDone, JoinDrains, Tell, CourseInv, DrainInv, AtOnce
    <3> QED
      BY <3>1, OnlyHandler, FixedShape DEF DrainInv, AtOnce
  <2> QED
    BY <1>1, <2>1, StaysDone
<1> QED
  BY <1>1, <1>2, <1>3, <1>4, <1>5 DEF DrainInv

\* The invariant is inductive.
LEMMA StepIInv == IInv /\ [Next]_vars => IInv'
<1> SUFFICES ASSUME IInv, [Next]_vars PROVE IInv'
  OBVIOUS
<1> QED
  BY TypeStep, SpawnStep, CourseStep, StatusStep, SignalStep, CountStep, DrainStep DEF IInv

\* The inductive invariant holds.
THEOREM Invariant == Spec => []IInv
<1> QED
  BY InitIInv, StepIInv, PTL DEF Spec

\* The variables of an execution keep their types.
THEOREM TypeCorrect == Spec => []TypeOK
<1>1. IInv => TypeOK
  BY DEF IInv
<1> QED
  BY Invariant, <1>1, PTL

\* Whatever is answered, and however many stages were spawned or killed before it:
\* all of them ended and were waited for, their groups are gone unless the kernel
\* refused the kill, and the terminal is free.
THEOREM NothingLeft == Spec => []NothingLeftBehind
<1>1. IInv => NothingLeftBehind
  <2> SUFFICES ASSUME IInv, answer # "none" PROVE NothingLeftBehind
    BY DEF NothingLeftBehind
  <2> USE DEF IInv, TypeOK
  <2>1. pc = "told"
    BY DEF CourseInv
  <2>2. \A i \in Stage : leader[i] \in {"unborn", "reaped"}
    BY <2>1 DEF StatusInv
  <2>3. ASSUME NEW i \in Stage, descendant[i] = "group" PROVE i \in refused
    <3>1. status[i] # "none" /\ i \in Spawned
      BY <2>1, <2>3 DEF StatusInv, SpawnInv
    <3>2. CASE AtOnce
      BY <2>3, <3>1, <3>2 DEF SignalInv
    <3>3. CASE ~ AtOnce
      <4>1. i \in 1..Children /\ i \in Streams
        BY <3>1, ShapeFacts DEF Spawned, Streams
      <4>2. Owner(i) = i
        BY <4>1, ShapeFacts DEF Owner
      <4>3. Closed(i)
        BY <2>1, <3>3, <4>1, ShapeFacts DEF DrainInv
      <4> QED
        BY <2>3, <4>2, <4>3 DEF Closed, DescendantLives
    <3> QED
      BY <3>2, <3>3
  <2>4. tty # "child"
    BY <2>1 DEF CourseInv
  <2> QED
    BY <2>2, <2>3, <2>4 DEF NothingLeftBehind
<1> QED
  BY Invariant, <1>1, PTL

\* "ok" comes with all the output up to the cap, a flag that says exactly whether
\* there was more, and the children's own exit statuses.
THEOREM OkComplete == Spec => []OkIsComplete
<1>1. IInv => OkIsComplete
  <2> SUFFICES ASSUME IInv, answer = "ok" PROVE OkIsComplete
    BY DEF OkIsComplete
  <2> USE DEF IInv, TypeOK
  <2>1. pc = "told" /\ cause = "none" /\ ~ AtOnce
    BY DEF CourseInv, AtOnce
  <2>2. ASSUME NEW s \in Streams
        PROVE  /\ kept[s] = Min({written[s], MaxOutput})
               /\ truncated[s] <=> written[s] > MaxOutput
               /\ Closed(s)
    <3>1. s \in Stream
      BY ShapeFacts
    <3>2. pending[s] = 0 /\ Closed(s)
      BY <2>1, <3>1 DEF DrainInv
    <3>3. written[s] \in Nat /\ MaxOutput \in Nat
      BY <3>1, ExecutorConstants
    <3>4. written[s] - pending[s] = written[s]
      BY <3>2, <3>3
    <3>5. kept[s] = UpToCap(written[s]) /\ (truncated[s] <=> written[s] > MaxOutput)
      BY <3>1, <3>4 DEF CountInv
    <3>6. UpToCap(written[s]) = Min({written[s], MaxOutput})
      BY <3>3, MinPair DEF UpToCap
    <3> QED
      BY <3>2, <3>5, <3>6
  <2>3. ~ autoReap => \A i \in 1..Children : status[i] = "own"
    <3>1. \A i \in 1..Children : i \in Stage /\ leader[i] # "unborn"
      BY <2>1, AllSpawned, ShapeFacts DEF Spawned
    <3>2. signalled = {}
      BY <2>1 DEF SignalInv
    <3> QED
      BY <2>1, <3>1, <3>2 DEF StatusInv
  <2> QED
    BY <2>2, <2>3 DEF OkIsComplete
<1> QED
  BY Invariant, <1>1, PTL

\* SIGKILL is never sent to a number the daemon has already waited for.
THEOREM KillsOwn == Spec => KillsOnlyItsOwn
<1>1. ASSUME IInv, [Next]_vars
      PROVE  [~autoReap => \A i \in signalled' \ signalled :
                  leader[i] \notin {"unborn", "reaped"}]_vars
  <2>1. KillGroup \/ signalled' = signalled
    BY <1>1, OnlyHandler DEF Handler, SpawnStage, SpawnFails, TakeForeground, Poll, Reap,
                             KillsDone, JoinDrains
  <2>2. CASE KillGroup
    <3>1. PICK i \in Stage : /\ status[i] = "none" /\ leader[i] # "unborn"
                             /\ signalled' = signalled \cup {i}
      BY <1>1, <2>2, KillFacts
    <3>2. ~ autoReap => leader[i] # "reaped"
      BY <1>1, <3>1 DEF IInv, StatusInv
    <3> QED
      BY <3>1, <3>2
  <2> QED
    BY <2>1, <2>2
<1> QED
  BY Invariant, <1>1, PTL DEF Spec, KillsOnlyItsOwn
=============================================================================

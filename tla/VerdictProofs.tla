---------------------------- MODULE VerdictProofs ----------------------------
(***************************************************************************)
(* OneVerdict, StopAnsweredFirst and the refinement of ApprovalContract,   *)
(* for every number of connections, any set of requests, any clock and any *)
(* number of restarts, if the replay memory outlasts the freshness window. *)
(***************************************************************************)
EXTENDS ApprovalDaemonProofs, ApprovalRefinement

\* An id is remembered for as long as its request is fresh, a clock that leads
\* included: the daemon's own numbers are 60 s of window and 120 s of memory.
RetentionCovers == MaxRequestAge + MaxLead <= ReplayRetention

\* c's delivery got past both gates and is on its way to a verdict, or has one.
Claimed(c) ==
    \/ pc[c] \in {"dispatch", "wantPrompt", "prompting", "decided", "spawn"}
    \/ key[c] # "unasked"
    \/ Ran(c)

\* Where a handler has settled no response yet.
Unsettled == {"idle", "backlog", "reading", "insert", "stopping", "dispatch",
              "wantPrompt", "prompting", "decided", "spawn", "wantForeground", "wait"}

\* How far a handler has come shows in what it holds.
ProgressOf(c) ==
    /\ pc[c] \in Unsettled => outcome[c] = "none"
    /\ pc[c] = "drain" => outcome[c] \in {"none", "error"}
    /\ pc[c] = "stopped" => outcome[c] = "ok"
    /\ pc[c] \in {"stopping", "stopped"} => req[c].action = "stop"
    /\ Claimed(c) => req[c].action = "exec"
    /\ pc[c] \in {"wantForeground", "wait", "drain"} => Ran(c)
    /\ pc[c] = "decided" => key[c] # "unasked"
    /\ pc[c] \in {"decided", "spawn"} => child[c] = "none"
    /\ pc[c] = "spawn" /\ key[c] = "unasked" /\ ~ req[c].privileged => grant

ProgressInv == \A c \in Conn : ProgressOf(c)

\* What is proved already and the rest builds on.
BaseInv == TypeInv /\ InFlightExact /\ ConsentInv /\ ProgressInv

\* Nobody has come anywhere before the first daemon is started.
LEMMA InitProgress == Init => ProgressInv
<1> SUFFICES ASSUME Init PROVE ProgressInv
  BY SMTT(30)
<1> QED
  BY DEF Init, ProgressInv, ProgressOf, Unsettled, Claimed, Ran

\* Each step of a handler carries on from where it was.
LEMMA ProgressStep ==
    ASSUME BaseInv, [Next]_vars
    PROVE  ProgressInv'
<1> USE DaemonConstants
    DEF BaseInv, TypeInv, TypeOK, ProgressInv, ProgressOf, Unsettled, Claimed, Ran, Goto, Settle,
        vars, daemonVars, connVars
<1>1. CASE Start
  BY <1>1 DEF Start
<1>2. CASE Tick
  BY <1>2 DEF Tick
<1>3. CASE UNCHANGED vars
  BY <1>3
<1>4. CASE LoopReturn
  BY <1>4 DEF LoopReturn
<1>5. ASSUME ProcessGone PROVE ProgressInv'
  BY <1>5 DEF ProcessGone, ConsentInv, Undecided, Live, AtTerminal, Executing
<1>6. ASSUME NEW c \in Conn, NEW r \in Requests, Connect(c, r) PROVE ProgressInv'
  BY <1>6 DEF Connect, ConsentInv, Undecided
<1>7. ASSUME NEW c \in Conn, Accept(c) PROVE ProgressInv'
  <2>1. \A d \in Conn \ {c} : ProgressOf(d)'
    BY <1>7 DEF Accept
  <2>2. ProgressOf(c)'
    BY <1>7 DEF Accept
  <2> QED
    BY <2>1, <2>2
<1>8. ASSUME NEW c \in Conn, Read(c) PROVE ProgressInv'
  <2>1. \A d \in Conn \ {c} : ProgressOf(d)'
    BY <1>8 DEF Read
  <2>2. ProgressOf(c)'
    BY <1>8 DEF Read
  <2> QED
    BY <2>1, <2>2
<1>9. ASSUME NEW c \in Conn, Insert(c) PROVE ProgressInv'
  <2>1. InsertAnswers(c)
    BY <1>9, InsertSplit
  <2>2. \A d \in Conn \ {c} : pc'[d] = pc[d] /\ outcome'[d] = outcome[d]
    BY <2>1 DEF InsertAnswers
  <2>3. \A d \in Conn \ {c} : ProgressOf(d)'
    BY <2>1, <2>2 DEF InsertAnswers
  <2>4. ProgressOf(c)'
    BY <2>1 DEF InsertAnswers, ConsentInv, Undecided
  <2> QED
    BY <2>3, <2>4
<1>10. ASSUME NEW c \in Conn, StopReply(c) PROVE ProgressInv'
  BY <1>10 DEF StopReply
<1>11. ASSUME NEW c \in Conn, StopFlag(c) PROVE ProgressInv'
  BY <1>11 DEF StopFlag
<1>12. ASSUME NEW c \in Conn, Dispatch(c) PROVE ProgressInv'
  BY <1>12 DEF Dispatch, ConsentInv, Undecided, Live, Cfg
<1>13. ASSUME NEW c \in Conn, BeginPrompt(c) PROVE ProgressInv'
  BY <1>13 DEF BeginPrompt
<1>14. ASSUME NEW c \in Conn, EndPrompt(c) PROVE ProgressInv'
  BY <1>14 DEF EndPrompt, Key, ConsentInv, Undecided
<1>15. ASSUME NEW c \in Conn, Decide(c) PROVE ProgressInv'
  <2>1. \A d \in Conn \ {c} : ProgressOf(d)'
    BY <1>15 DEF Decide
  <2>2. ProgressOf(c)'
    BY <1>15, SMTT(30) DEF Decide, PromptResult, Key
  <2> QED
    BY <2>1, <2>2
<1>16. ASSUME NEW c \in Conn, Spawn(c) PROVE ProgressInv'
  <2>1. \A d \in Conn \ {c} : ProgressOf(d)'
    BY <1>16 DEF Spawn
  <2>2. ProgressOf(c)'
    BY <1>16 DEF Spawn
  <2> QED
    BY <2>1, <2>2
<1>17. ASSUME NEW c \in Conn, TakeForeground(c) PROVE ProgressInv'
  BY <1>17 DEF TakeForeground
<1>18. ASSUME NEW c \in Conn, Reap(c) PROVE ProgressInv'
  BY <1>18 DEF Reap
<1>19. ASSUME NEW c \in Conn, ExecTimeout(c) PROVE ProgressInv'
  <2>1. \A d \in Conn \ {c} : ProgressOf(d)'
    BY <1>19 DEF ExecTimeout
  <2>2. ProgressOf(c)'
    BY <1>19 DEF ExecTimeout
  <2> QED
    BY <2>1, <2>2
<1>20. ASSUME NEW c \in Conn, Drained(c) PROVE ProgressInv'
  BY <1>20 DEF Drained
<1>21. ASSUME NEW c \in Conn, Display(c) PROVE ProgressInv'
  BY <1>21 DEF Display
<1>22. ASSUME NEW c \in Conn, Finish(c) PROVE ProgressInv'
  BY <1>22 DEF Finish
<1>23. ASSUME NEW c \in Conn, Panic(c) PROVE ProgressInv'
  BY <1>23 DEF Panic
<1>24. ASSUME NEW c \in Conn, ChildExits(c) PROVE ProgressInv'
  BY <1>24 DEF ChildExits
<1> QED
  BY <1>1, <1>2, <1>3, <1>4, <1>5, <1>6, <1>7, <1>8, <1>9, <1>10, <1>11, <1>12, <1>13, <1>14, <1>15, <1>16, <1>17, <1>18, <1>19, <1>20, <1>21, <1>22, <1>23, <1>24
     DEF Next, Loop, Handler, Exit, Kill
\* Only try_insert lets a delivery past the gates, and only check_freshness
\* brings one before it.
OnlyGates ==
    /\ \A c \in Conn : Claimed(c)' => Claimed(c) \/ Insert(c)
    /\ \A c \in Conn : pc'[c] = "insert" => pc[c] = "insert" \/ Read(c)

\* Read off the actions.
LEMMA GatesStep ==
    ASSUME BaseInv, [Next]_vars
    PROVE  OnlyGates
<1> USE DaemonConstants
    DEF BaseInv, TypeInv, TypeOK, OnlyGates, Claimed, Ran, Goto, Settle, vars
<1>1. CASE Start
  BY <1>1 DEF Start
<1>2. CASE Tick
  BY <1>2 DEF Tick
<1>3. CASE UNCHANGED vars
  BY <1>3
<1>4. CASE LoopReturn
  BY <1>4 DEF LoopReturn
<1>5. ASSUME ProcessGone PROVE OnlyGates
  BY <1>5 DEF ProcessGone, Live, AtTerminal, Executing
<1>6. ASSUME NEW c \in Conn, NEW r \in Requests, Connect(c, r) PROVE OnlyGates
  BY <1>6 DEF Connect
<1>7. ASSUME NEW c \in Conn, Accept(c) PROVE OnlyGates
  BY <1>7 DEF Accept
<1>8. ASSUME NEW c \in Conn, Read(c) PROVE OnlyGates
  <2>1. \A d \in Conn \ {c} : pc'[d] = pc[d]
    BY <1>8 DEF Read
  <2>2. key' = key /\ child' = child /\ (pc'[c] = "insert" => pc[c] = "insert" \/ Read(c))
    BY <1>8 DEF Read
  <2>3. Claimed(c)' => Claimed(c) \/ Insert(c)
    BY <1>8 DEF Read
  <2> QED
    BY <2>1, <2>2, <2>3
<1>9. ASSUME NEW c \in Conn, Insert(c) PROVE OnlyGates
  <2>1. \A d \in Conn \ {c} : pc'[d] = pc[d]
    BY <1>9, InsertSplit DEF InsertAnswers
  <2>2. key' = key /\ child' = child /\ (pc'[c] = "insert" => pc[c] = "insert" \/ Read(c))
    BY <1>9 DEF Insert
  <2>3. Claimed(c)' => Claimed(c) \/ Insert(c)
    BY <1>9, <2>2 DEF Insert
  <2> QED
    BY <2>1, <2>2, <2>3
<1>10. ASSUME NEW c \in Conn, StopReply(c) PROVE OnlyGates
  BY <1>10 DEF StopReply
<1>11. ASSUME NEW c \in Conn, StopFlag(c) PROVE OnlyGates
  BY <1>11 DEF StopFlag
<1>12. ASSUME NEW c \in Conn, Dispatch(c) PROVE OnlyGates
  BY <1>12 DEF Dispatch
<1>13. ASSUME NEW c \in Conn, BeginPrompt(c) PROVE OnlyGates
  BY <1>13 DEF BeginPrompt
<1>14. ASSUME NEW c \in Conn, EndPrompt(c) PROVE OnlyGates
  BY <1>14 DEF EndPrompt
<1>15. ASSUME NEW c \in Conn, Decide(c) PROVE OnlyGates
  BY <1>15 DEF Decide
<1>16. ASSUME NEW c \in Conn, Spawn(c) PROVE OnlyGates
  BY <1>16 DEF Spawn
<1>17. ASSUME NEW c \in Conn, TakeForeground(c) PROVE OnlyGates
  BY <1>17 DEF TakeForeground
<1>18. ASSUME NEW c \in Conn, Reap(c) PROVE OnlyGates
  BY <1>18 DEF Reap
<1>19. ASSUME NEW c \in Conn, ExecTimeout(c) PROVE OnlyGates
  BY <1>19 DEF ExecTimeout
<1>20. ASSUME NEW c \in Conn, Drained(c) PROVE OnlyGates
  BY <1>20 DEF Drained
<1>21. ASSUME NEW c \in Conn, Display(c) PROVE OnlyGates
  BY <1>21 DEF Display
<1>22. ASSUME NEW c \in Conn, Finish(c) PROVE OnlyGates
  BY <1>22 DEF Finish
<1>23. ASSUME NEW c \in Conn, Panic(c) PROVE OnlyGates
  BY <1>23 DEF Panic
<1>24. ASSUME NEW c \in Conn, ChildExits(c) PROVE OnlyGates
  BY <1>24 DEF ChildExits
<1> QED
  BY <1>1, <1>2, <1>3, <1>4, <1>5, <1>6, <1>7, <1>8, <1>9, <1>10, <1>11, <1>12, <1>13, <1>14, <1>15, <1>16, <1>17, <1>18, <1>19, <1>20, <1>21, <1>22, <1>23, <1>24
     DEF Next, Loop, Handler, Exit, Kill

\* What a step may do to the clock, the memory and the life of the daemon: time
\* stands still while a handler is between the gates, the memory changes only in
\* try_insert, and a life ends with the process.
Frame ==
    /\ now' = now \/ (now' = now + 1 /\ \A c \in Conn : pc[c] # "insert")
    /\ seen' = seen \/ phase' = "down" \/ \E c \in Conn : Insert(c)
    /\ phase' # "down" => life' = IF phase = "down" THEN life + 1 ELSE life
    /\ \A c \in Conn : pc[c] = "idle" /\ pc'[c] # "idle" =>
          req'[c].time <= now + MaxLead

\* Read off the actions.
LEMMA FrameStep ==
    ASSUME BaseInv, [Next]_vars
    PROVE  Frame
<1> USE DaemonConstants
    DEF BaseInv, TypeInv, TypeOK, Frame, Goto, Settle, vars, daemonVars, loopVars
<1>1. CASE Start
  BY <1>1 DEF Start
<1>2. CASE Tick
  BY <1>2 DEF Tick
<1>3. CASE UNCHANGED vars
  BY <1>3
<1>4. CASE LoopReturn
  BY <1>4 DEF LoopReturn
<1>5. ASSUME ProcessGone PROVE Frame
  BY <1>5 DEF ProcessGone, Live, AtTerminal, Executing
<1>6. ASSUME NEW c \in Conn, NEW r \in Requests, Connect(c, r) PROVE Frame
  BY <1>6 DEF Connect
<1>7. ASSUME NEW c \in Conn, Accept(c) PROVE Frame
  BY <1>7 DEF Accept
<1>8. ASSUME NEW c \in Conn, Read(c) PROVE Frame
  BY <1>8 DEF Read
<1>9. ASSUME NEW c \in Conn, Insert(c) PROVE Frame
  <2>1. \A d \in Conn : pc[d] = "idle" => pc'[d] = "idle"
    BY <1>9, InsertSplit, SMTT(30) DEF InsertAnswers
  <2>2. phase # "down"
    BY <1>9 DEF Insert, ConsentInv, Live
  <2> QED
    BY <1>9, <2>1, <2>2 DEF Insert
<1>10. ASSUME NEW c \in Conn, StopReply(c) PROVE Frame
  BY <1>10 DEF StopReply
<1>11. ASSUME NEW c \in Conn, StopFlag(c) PROVE Frame
  BY <1>11 DEF StopFlag
<1>12. ASSUME NEW c \in Conn, Dispatch(c) PROVE Frame
  BY <1>12 DEF Dispatch
<1>13. ASSUME NEW c \in Conn, BeginPrompt(c) PROVE Frame
  BY <1>13 DEF BeginPrompt
<1>14. ASSUME NEW c \in Conn, EndPrompt(c) PROVE Frame
  BY <1>14 DEF EndPrompt
<1>15. ASSUME NEW c \in Conn, Decide(c) PROVE Frame
  BY <1>15 DEF Decide
<1>16. ASSUME NEW c \in Conn, Spawn(c) PROVE Frame
  BY <1>16 DEF Spawn
<1>17. ASSUME NEW c \in Conn, TakeForeground(c) PROVE Frame
  BY <1>17 DEF TakeForeground
<1>18. ASSUME NEW c \in Conn, Reap(c) PROVE Frame
  BY <1>18 DEF Reap
<1>19. ASSUME NEW c \in Conn, ExecTimeout(c) PROVE Frame
  BY <1>19 DEF ExecTimeout
<1>20. ASSUME NEW c \in Conn, Drained(c) PROVE Frame
  BY <1>20 DEF Drained
<1>21. ASSUME NEW c \in Conn, Display(c) PROVE Frame
  BY <1>21 DEF Display
<1>22. ASSUME NEW c \in Conn, Finish(c) PROVE Frame
  BY <1>22 DEF Finish
<1>23. ASSUME NEW c \in Conn, Panic(c) PROVE Frame
  BY <1>23 DEF Panic
<1>24. ASSUME NEW c \in Conn, ChildExits(c) PROVE Frame
  BY <1>24 DEF ChildExits
<1> QED
  BY <1>1, <1>2, <1>3, <1>4, <1>5, <1>6, <1>7, <1>8, <1>9, <1>10, <1>11, <1>12, <1>13, <1>14, <1>15, <1>16, <1>17, <1>18, <1>19, <1>20, <1>21, <1>22, <1>23, <1>24
     DEF Next, Loop, Handler, Exit, Kill

\* The daemon still remembers r, or r is no longer fresh.
Remembered(r) ==
    \/ \E n \in 1..Len(seen.queue) :
          seen.queue[n].id = r.id /\ r.time <= seen.queue[n].at + MaxLead
    \/ r.time + MaxRequestAge < now

\* The sum that makes the retention long enough: what was accepted at `at`, with
\* a clock ahead by at most `lead`, is not older than `keep` while it is fresh.
LEMMA WindowsAdd ==
    ASSUME NEW time \in Nat, NEW at \in Nat, NEW n \in Nat,
           NEW age \in Nat, NEW lead \in Nat, NEW keep \in Nat,
           age + lead <= keep, time <= at + lead, n <= time + age
    PROVE  n - at <= keep
OBVIOUS

\* Two deliveries of one request to one daemon.
Rivals(c, d) == c # d /\ req[c] = req[d] /\ born[c] = born[d]

\* OneVerdict holds because what is on its way to a verdict is remembered while
\* it is fresh, and what stands at try_insert is fresh.
VerdictInv ==
    /\ \A c \in Conn : pc[c] = "insert" => Fresh(req[c].time)
    /\ \A c \in Conn : pc[c] # "idle" => req[c].time <= now + MaxLead
    /\ \A c \in Conn :
          Claimed(c) /\ born[c] = life /\ phase # "down" => Remembered(req[c])
    /\ \A c, d \in Conn : Rivals(c, d) /\ Claimed(c) => ~ Claimed(d)

\* Nothing is claimed before the first daemon is started.
LEMMA InitVerdict == Init => VerdictInv
<1> SUFFICES ASSUME Init PROVE VerdictInv
  OBVIOUS
<1> QED
  BY DEF Init, VerdictInv, Claimed, Ran

\* The types VerdictInv compares.
LEMMA RequestTypes ==
    ASSUME TypeInv
    PROVE  /\ now \in Nat /\ life \in Nat
           /\ seen \in Memory /\ Coherent(seen)
           /\ \A c \in Conn : pc[c] # "idle" => req[c].time \in Nat /\ req[c].id \in Id
           /\ \A n \in 1..Len(seen.queue) : seen.queue[n].at \in Nat
           /\ MaxLead \in Nat /\ MaxRequestAge \in Nat /\ ReplayRetention \in Nat
<1>1. \A n \in 1..Len(seen.queue) : seen.queue[n] \in Entry
  BY ElementOfSeq DEF TypeInv, TypeOK, Memory
<1>2. \A c \in Conn : pc[c] # "idle" => req[c] \in RequestType
  BY DaemonConstants DEF TypeInv, Carried
<1> QED
  BY <1>1, <1>2, DaemonConstants, RetentionIsNat DEF TypeInv, TypeOK, Entry, RequestType

\* What is claimed is no idle connection.
LEMMA ClaimedCarries ==
    ASSUME ConsentInv, NEW c \in Conn, Claimed(c)
    PROVE  pc[c] # "idle"
<1> QED
  BY DEF ConsentInv, Undecided, Claimed, Ran

\* A request remembered is still remembered after a step of its daemon, or is no
\* longer fresh: eviction takes only what is older than both can last.
LEMMA RememberedStays ==
    ASSUME RetentionCovers, BaseInv, Frame, phase' # "down",
           NEW c \in Conn, pc[c] # "idle", Remembered(req[c])
    PROVE  Remembered(req[c])' \/ req'[c] # req[c]
<1> SUFFICES ASSUME req'[c] = req[c] PROVE Remembered(req[c])'
  OBVIOUS
<1> DEFINE r == req[c]
<1>1. /\ now \in Nat /\ seen \in Memory /\ Coherent(seen)
      /\ r.time \in Nat /\ r.id \in Id
      /\ \A n \in 1..Len(seen.queue) : seen.queue[n].at \in Nat
      /\ MaxLead \in Nat /\ MaxRequestAge \in Nat /\ ReplayRetention \in Nat
  BY RequestTypes DEF BaseInv
<1>2. now' \in Nat /\ now <= now'
  BY <1>1 DEF Frame
<1>3. CASE r.time + MaxRequestAge < now
  BY <1>1, <1>2, <1>3 DEF Remembered
<1>4. CASE ~ (r.time + MaxRequestAge < now)
  <2>1. PICK l \in 1..Len(seen.queue) :
           seen.queue[l].id = r.id /\ r.time <= seen.queue[l].at + MaxLead
    BY <1>4 DEF Remembered
  <2>2. CASE seen' = seen
    BY <2>1, <2>2 DEF Remembered
  <2>3. CASE \E d \in Conn : Insert(d)
    <3>1. PICK d \in Conn : Insert(d)
      BY <2>3
    <3>2. /\ req[d].id \in Id /\ seen' = TryInsert(seen, req[d].id, now)
          /\ now' = now
      BY <3>1, RequestTypes DEF Insert, BaseInv
    <3>3. ~ Stale(seen.queue[l], now)
      <4> DEFINE at == seen.queue[l].at
      <4>1. at \in Nat /\ now <= r.time + MaxRequestAge /\ r.time <= at + MaxLead
        BY <1>1, <1>4, <2>1
      <4>2. MaxRequestAge + MaxLead <= ReplayRetention
        BY DEF RetentionCovers
      <4>3. now - at <= ReplayRetention
        BY <1>1, <4>1, <4>2, WindowsAdd
      <4> QED
        BY <1>1, <4>1, <4>3, SMTT(30) DEF Stale
    <3> DEFINE t == TryInsert(seen, req[d].id, now)
    <3>4. \A k \in 1..Len(seen.queue) :
             Stale(seen.queue[k], now) \/ \E n \in 1..Len(t.queue) : t.queue[n] = seen.queue[k]
      BY <1>1, <3>2, TryInsertEntries, ZenonT(60)
    <3> HIDE DEF t
    <3>5. \E n \in 1..Len(t.queue) : t.queue[n] = seen.queue[l]
      BY <3>3, <3>4
    <3>6. seen' = t
      BY <3>2 DEF t
    <3> QED
      BY <2>1, <3>5, <3>6 DEF Remembered
  <2> QED
    BY <2>2, <2>3 DEF Frame
<1> QED
  BY <1>3, <1>4

\* A delivery that try_insert lets pass is the first of its request.
LEMMA FirstDelivery ==
    ASSUME RetentionCovers, BaseInv, VerdictInv,
           NEW c \in Conn, Insert(c), Claimed(c)'
    PROVE  /\ Remembered(req[c])'
           /\ \A d \in Conn : Rivals(c, d) => ~ Claimed(d)
<1>1. /\ now \in Nat /\ seen \in Memory /\ Coherent(seen)
      /\ \A n \in 1..Len(seen.queue) : seen.queue[n].at \in Nat
      /\ MaxLead \in Nat /\ MaxRequestAge \in Nat /\ ReplayRetention \in Nat
  BY RequestTypes DEF BaseInv
<1>2. /\ pc[c] = "insert" /\ seen' = TryInsert(seen, req[c].id, now)
      /\ now' = now /\ req' = req /\ key' = key /\ child' = child
  BY DEF Insert, connVars
<1>3. req[c].time \in Nat /\ req[c].id \in Id
  BY <1>2, RequestTypes DEF BaseInv
<1>4. ~ Known(seen, req[c].id, now)
  <2>1. key[c] = "unasked" /\ ~ Ran(c)
    BY <1>2 DEF BaseInv, ConsentInv, Undecided, Ran
  <2>2. pc'[c] # "exit"
    BY <1>2, <2>1 DEF Claimed, Ran
  <2> QED
    BY <2>2 DEF Insert, Settle, Goto, BaseInv, TypeInv, TypeOK
<1>5. Fresh(req[c].time) /\ req[c].time <= now + MaxLead
  BY <1>2 DEF VerdictInv
<1>6. /\ \E n \in 1..Len(seen'.queue) : seen'.queue[n] = [id |-> req[c].id, at |-> now]
      /\ \A l \in 1..Len(seen.queue) :
            seen.queue[l].id = req[c].id => Stale(seen.queue[l], now)
  BY <1>1, <1>2, <1>3, <1>4, TryInsertEntries, SMTT(30)
<1>7. Remembered(req[c])'
  BY <1>2, <1>5, <1>6 DEF Remembered
<1>8. ASSUME NEW d \in Conn, Rivals(c, d), Claimed(d) PROVE FALSE
  <2>1. born[d] = life /\ phase # "down" /\ req[d] = req[c]
    BY <1>2, <1>8 DEF BaseInv, ConsentInv, Live, Rivals
  <2>2. Remembered(req[c])
    BY <2>1, <1>8 DEF VerdictInv
  <2>3. ~ (req[c].time + MaxRequestAge < now)
    BY <1>1, <1>3, <1>5 DEF Fresh, Age
  <2>4. PICK n \in 1..Len(seen.queue) :
           seen.queue[n].id = req[c].id /\ req[c].time <= seen.queue[n].at + MaxLead
    BY <2>2, <2>3 DEF Remembered
  <2> DEFINE at == seen.queue[n].at
  <2>5. at \in Nat /\ now - at > ReplayRetention
    BY <1>1, <1>6, <2>4 DEF Stale
  <2>6. now <= req[c].time + MaxRequestAge /\ req[c].time <= at + MaxLead
    BY <1>1, <1>3, <2>3, <2>4
  <2>7. MaxRequestAge + MaxLead <= ReplayRetention
    BY DEF RetentionCovers
  <2> HIDE DEF at
  <2>8. now - at <= ReplayRetention
    BY <1>1, <1>3, <2>5, <2>6, <2>7, WindowsAdd
  <2> QED
    BY <1>1, <2>5, <2>8
<1> QED
  BY <1>7, <1>8

\* The parts together.
LEMMA VerdictStep ==
    ASSUME RetentionCovers, BaseInv, VerdictInv, [Next]_vars
    PROVE  VerdictInv'
<1>1. OnlyGates /\ Frame /\ PastKept
  BY GatesStep, FrameStep, StepKeepsPast DEF BaseInv
<1>2. /\ now \in Nat /\ MaxLead \in Nat /\ life \in Nat
      /\ \A c \in Conn : pc[c] # "idle" => req[c].time \in Nat
  BY RequestTypes DEF BaseInv
<1>3. \A c \in Conn : pc[c] # "idle" => req'[c] = req[c] /\ born'[c] = born[c]
  BY <1>1 DEF PastKept
<1>4. ASSUME NEW c \in Conn, pc'[c] = "insert" PROVE Fresh(req[c].time)'
  <2>1. CASE pc[c] = "insert"
    BY <1>1, <1>3, <2>1 DEF VerdictInv, Frame, Fresh, Age
  <2>2. CASE Read(c) /\ pc[c] # "insert"
    <3>1. Fresh(req[c].time) /\ now' = now /\ req' = req
      BY <1>4, <2>2 DEF Read, Goto, Settle, connVars, BaseInv, TypeInv, TypeOK
    <3> QED
      BY <3>1 DEF Fresh, Age
  <2> QED
    BY <1>1, <1>4, <2>1, <2>2 DEF OnlyGates
<1>5. ASSUME NEW c \in Conn, pc'[c] # "idle" PROVE (req[c].time <= now + MaxLead)'
  <2>1. CASE pc[c] # "idle"
    BY <1>1, <1>2, <1>3, <2>1 DEF VerdictInv, Frame
  <2>2. CASE pc[c] = "idle"
    <3>1. req'[c].time <= now + MaxLead
      BY <1>1, <1>5, <2>2 DEF Frame
    <3>2. req'[c].time \in Nat
      <4>1. req'[c] \in RequestType
        BY <1>5, TypeStep, DaemonConstants DEF BaseInv, TypeInv, Carried
      <4> QED
        BY <4>1 DEF RequestType
    <3> QED
      BY <1>1, <1>2, <3>1, <3>2 DEF Frame
  <2> QED
    BY <2>1, <2>2
<1>6. ASSUME NEW c \in Conn, Claimed(c)', born'[c] = life', phase' # "down"
      PROVE  Remembered(req[c])'
  <2>1. CASE Insert(c)
    BY <1>6, <2>1, FirstDelivery
  <2>2. CASE Claimed(c)
    <3>1. pc[c] # "idle" /\ born[c] = life' /\ req'[c] = req[c]
      BY <1>3, <1>6, <2>2, ClaimedCarries DEF BaseInv
    <3>2. born[c] <= life /\ born[c] \in Nat
      BY <3>1, <1>2, DaemonConstants DEF BaseInv, ConsentInv, TypeInv, TypeOK
    <3>3. phase # "down" /\ born[c] = life
      BY <1>1, <1>2, <1>6, <3>1, <3>2 DEF Frame
    <3> QED
      BY <1>1, <1>6, <2>2, <3>1, <3>3, RememberedStays DEF VerdictInv
  <2> QED
    BY <1>1, <1>6, <2>1, <2>2 DEF OnlyGates
<1>7. ASSUME NEW c \in Conn, NEW d \in Conn, Rivals(c, d)', Claimed(c)', Claimed(d)'
      PROVE  FALSE
  <2>1. ASSUME NEW e \in Conn, Claimed(e)' PROVE pc[e] # "idle"
    BY <1>1, <2>1, ClaimedCarries DEF OnlyGates, Insert, BaseInv
  <2>2. Rivals(c, d) /\ Rivals(d, c)
    BY <1>3, <1>7, <2>1 DEF Rivals
  <2>3. ASSUME NEW e \in Conn, NEW f \in Conn, Rivals(e, f), Claimed(e)', Claimed(f)',
               Insert(e)
        PROVE  FALSE
    <3>1. ~ Claimed(f)
      BY <2>3, FirstDelivery
    <3>2. e # f /\ key' = key /\ child' = child
      BY <2>3 DEF Insert, Rivals
    <3>3. pc'[f] = pc[f]
      BY <2>3, <3>2, DaemonConstants
         DEF Insert, Goto, Settle, BaseInv, TypeInv, TypeOK, Carried, RequestType
    <3> QED
      BY <2>3, <3>1, <3>2, <3>3 DEF Claimed, Ran
  <2>4. ~ Insert(c) /\ ~ Insert(d)
    BY <1>7, <2>2, <2>3
  <2> QED
    BY <1>1, <1>7, <2>2, <2>4 DEF OnlyGates, VerdictInv
<1> QED
  BY <1>4, <1>5, <1>6, <1>7 DEF VerdictInv

\* A response that was settled stays as it was settled, but for a pipeline's
\* error, which only the drains still see.
SettledStays ==
    \A c \in Conn : outcome[c] \notin {"none", "error"} => outcome'[c] = outcome[c]

\* Handlers settle only where nothing is settled.
LEMMA SettledStep ==
    ASSUME BaseInv, [Next]_vars
    PROVE  SettledStays
<1> USE DaemonConstants
    DEF BaseInv, TypeInv, TypeOK, ProgressInv, ProgressOf, Unsettled, SettledStays,
        Goto, Settle, vars, connVars
<1>1. CASE Start
  BY <1>1 DEF Start
<1>2. CASE Tick
  BY <1>2 DEF Tick
<1>3. CASE UNCHANGED vars
  BY <1>3
<1>4. CASE LoopReturn
  BY <1>4 DEF LoopReturn
<1>5. ASSUME ProcessGone PROVE SettledStays
  BY <1>5 DEF ProcessGone
<1>6. ASSUME NEW c \in Conn, NEW r \in Requests, Connect(c, r) PROVE SettledStays
  BY <1>6 DEF Connect
<1>7. ASSUME NEW c \in Conn, Accept(c) PROVE SettledStays
  BY <1>7 DEF Accept
<1>8. ASSUME NEW c \in Conn, Read(c) PROVE SettledStays
  BY <1>8 DEF Read
<1>9. ASSUME NEW c \in Conn, Insert(c) PROVE SettledStays
  BY <1>9, InsertSplit DEF InsertAnswers
<1>10. ASSUME NEW c \in Conn, StopReply(c) PROVE SettledStays
  BY <1>10 DEF StopReply
<1>11. ASSUME NEW c \in Conn, StopFlag(c) PROVE SettledStays
  BY <1>11 DEF StopFlag
<1>12. ASSUME NEW c \in Conn, Dispatch(c) PROVE SettledStays
  BY <1>12 DEF Dispatch
<1>13. ASSUME NEW c \in Conn, BeginPrompt(c) PROVE SettledStays
  BY <1>13 DEF BeginPrompt
<1>14. ASSUME NEW c \in Conn, EndPrompt(c) PROVE SettledStays
  BY <1>14 DEF EndPrompt
<1>15. ASSUME NEW c \in Conn, Decide(c) PROVE SettledStays
  BY <1>15 DEF Decide
<1>16. ASSUME NEW c \in Conn, Spawn(c) PROVE SettledStays
  BY <1>16 DEF Spawn
<1>17. ASSUME NEW c \in Conn, TakeForeground(c) PROVE SettledStays
  BY <1>17 DEF TakeForeground
<1>18. ASSUME NEW c \in Conn, Reap(c) PROVE SettledStays
  BY <1>18 DEF Reap
<1>19. ASSUME NEW c \in Conn, ExecTimeout(c) PROVE SettledStays
  BY <1>19 DEF ExecTimeout
<1>20. ASSUME NEW c \in Conn, Drained(c) PROVE SettledStays
  BY <1>20 DEF Drained
<1>21. ASSUME NEW c \in Conn, Display(c) PROVE SettledStays
  BY <1>21 DEF Display
<1>22. ASSUME NEW c \in Conn, Finish(c) PROVE SettledStays
  BY <1>22 DEF Finish
<1>23. ASSUME NEW c \in Conn, Panic(c) PROVE SettledStays
  BY <1>23 DEF Panic
<1>24. ASSUME NEW c \in Conn, ChildExits(c) PROVE SettledStays
  BY <1>24 DEF ChildExits
<1> QED
  BY <1>1, <1>2, <1>3, <1>4, <1>5, <1>6, <1>7, <1>8, <1>9, <1>10, <1>11, <1>12, <1>13, <1>14, <1>15, <1>16, <1>17, <1>18, <1>19, <1>20, <1>21, <1>22, <1>23, <1>24
     DEF Next, Loop, Handler, Exit, Kill

\* The flag is raised by a handler that has answered "ok" to a stop.
StopInv ==
    /\ shutdown => \E c \in Conn : /\ born[c] = life /\ req[c].action = "stop"
                                   /\ outcome[c] = "ok"
    /\ phase = "down" => ~ shutdown

\* Who raises the flag, and what goes with the process.
OnlyStops ==
    /\ shutdown' => shutdown \/ \E c \in Conn : StopFlag(c)
    /\ phase' = "down" => ~ shutdown' \/ phase = "down"

\* Read off the actions.
LEMMA StopsStep ==
    ASSUME BaseInv, [Next]_vars
    PROVE  OnlyStops
<1> USE DaemonConstants
    DEF BaseInv, TypeInv, TypeOK, OnlyStops, Goto, Settle, vars, daemonVars, loopVars
<1>1. CASE Start
  BY <1>1 DEF Start
<1>2. CASE Tick
  BY <1>2 DEF Tick
<1>3. CASE UNCHANGED vars
  BY <1>3
<1>4. CASE LoopReturn
  BY <1>4 DEF LoopReturn
<1>5. ASSUME ProcessGone PROVE OnlyStops
  BY <1>5 DEF ProcessGone
<1>6. ASSUME NEW c \in Conn, NEW r \in Requests, Connect(c, r) PROVE OnlyStops
  BY <1>6 DEF Connect
<1>7. ASSUME NEW c \in Conn, Accept(c) PROVE OnlyStops
  BY <1>7 DEF Accept
<1>8. ASSUME NEW c \in Conn, Read(c) PROVE OnlyStops
  BY <1>8 DEF Read
<1>9. ASSUME NEW c \in Conn, Insert(c) PROVE OnlyStops
  BY <1>9 DEF Insert
<1>10. ASSUME NEW c \in Conn, StopReply(c) PROVE OnlyStops
  BY <1>10 DEF StopReply
<1>11. ASSUME NEW c \in Conn, StopFlag(c) PROVE OnlyStops
  BY <1>11 DEF StopFlag
<1>12. ASSUME NEW c \in Conn, Dispatch(c) PROVE OnlyStops
  BY <1>12 DEF Dispatch
<1>13. ASSUME NEW c \in Conn, BeginPrompt(c) PROVE OnlyStops
  BY <1>13 DEF BeginPrompt
<1>14. ASSUME NEW c \in Conn, EndPrompt(c) PROVE OnlyStops
  BY <1>14 DEF EndPrompt
<1>15. ASSUME NEW c \in Conn, Decide(c) PROVE OnlyStops
  BY <1>15 DEF Decide
<1>16. ASSUME NEW c \in Conn, Spawn(c) PROVE OnlyStops
  BY <1>16 DEF Spawn
<1>17. ASSUME NEW c \in Conn, TakeForeground(c) PROVE OnlyStops
  BY <1>17 DEF TakeForeground
<1>18. ASSUME NEW c \in Conn, Reap(c) PROVE OnlyStops
  BY <1>18 DEF Reap
<1>19. ASSUME NEW c \in Conn, ExecTimeout(c) PROVE OnlyStops
  BY <1>19 DEF ExecTimeout
<1>20. ASSUME NEW c \in Conn, Drained(c) PROVE OnlyStops
  BY <1>20 DEF Drained
<1>21. ASSUME NEW c \in Conn, Display(c) PROVE OnlyStops
  BY <1>21 DEF Display
<1>22. ASSUME NEW c \in Conn, Finish(c) PROVE OnlyStops
  BY <1>22 DEF Finish
<1>23. ASSUME NEW c \in Conn, Panic(c) PROVE OnlyStops
  BY <1>23 DEF Panic
<1>24. ASSUME NEW c \in Conn, ChildExits(c) PROVE OnlyStops
  BY <1>24 DEF ChildExits
<1> QED
  BY <1>1, <1>2, <1>3, <1>4, <1>5, <1>6, <1>7, <1>8, <1>9, <1>10, <1>11, <1>12, <1>13, <1>14, <1>15, <1>16, <1>17, <1>18, <1>19, <1>20, <1>21, <1>22, <1>23, <1>24
     DEF Next, Loop, Handler, Exit, Kill

\* The witness of an answered stop stays one as long as its daemon lives.
LEMMA StopStep ==
    ASSUME BaseInv, StopInv, [Next]_vars
    PROVE  StopInv'
<1>1. OnlyStops /\ Frame /\ PastKept /\ SettledStays
  BY StopsStep, FrameStep, StepKeepsPast, SettledStep DEF BaseInv
<1>2. phase' = "down" => ~ shutdown'
  <2>1. phase = "down" => \A c \in Conn : ~ StopFlag(c)
    BY DEF StopFlag, BaseInv, ConsentInv, Live
  <2> QED
    BY <1>1, <2>1 DEF OnlyStops, StopInv
<1>3. ASSUME shutdown'
      PROVE  \E c \in Conn : (born[c] = life /\ req[c].action = "stop" /\ outcome[c] = "ok")'
  <2>1. PICK c \in Conn : born[c] = life /\ req[c].action = "stop" /\ outcome[c] = "ok"
    <3>1. CASE shutdown
      BY <3>1 DEF StopInv
    <3>2. CASE \E c \in Conn : StopFlag(c)
      BY <3>2 DEF StopFlag, BaseInv, ConsentInv, Live, ProgressInv, ProgressOf
    <3> QED
      BY <1>1, <1>3, <3>1, <3>2 DEF OnlyStops
  <2>2. pc[c] # "idle"
    BY <2>1 DEF BaseInv, ProgressInv, ProgressOf, Unsettled
  <2>3. born'[c] = born[c] /\ req'[c] = req[c] /\ outcome'[c] = "ok"
    BY <1>1, <2>1, <2>2 DEF PastKept, SettledStays
  <2>4. life' = life
    <3>1. phase' # "down"
      BY <1>2, <1>3
    <3>2. shutdown \/ \E d \in Conn : StopFlag(d)
      BY <1>1, <1>3 DEF OnlyStops
    <3>3. phase # "down"
      BY <3>2 DEF StopInv, StopFlag, BaseInv, ConsentInv, Live
    <3> QED
      BY <1>1, <3>1, <3>3, RequestTypes DEF Frame, BaseInv
  <2> QED
    BY <2>1, <2>3, <2>4
<1> QED
  BY <1>2, <1>3 DEF StopInv

\* What the proofs below rest on, all of it inductive together.
LEMMA BaseInvariant == Spec => []BaseInv
<1>1. IInv /\ ConsentInv /\ ProgressInv => BaseInv
  BY DEF BaseInv, IInv
<1>2. IInv /\ ConsentInv /\ ProgressInv /\ [Next]_vars => ConsentInv' /\ ProgressInv'
  BY <1>1, ConsentStep, ProgressStep DEF BaseInv
<1> QED
  BY InitConsent, InitProgress, IInvInvariant, <1>1, <1>2, PTL DEF Spec

\* VerdictInv, from the retention.
LEMMA VerdictInvariant == ASSUME RetentionCovers PROVE Spec => []VerdictInv
<1>1. BaseInv /\ VerdictInv /\ [Next]_vars => VerdictInv'
  BY VerdictStep
<1> QED
  BY InitVerdict, BaseInvariant, <1>1, PTL DEF Spec

\* Of all the deliveries of one request to one daemon at most one is put to the
\* human or executed, for any number of deliveries and of handlers that race
\* them, as long as the retention covers the freshness window and the lead of
\* the client's clock.
THEOREM OneVerdictEach == ASSUME RetentionCovers PROVE Spec => []OneVerdict
<1>1. VerdictInv => OneVerdict
  BY DEF VerdictInv, OneVerdict, Rivals, Claimed
<1> QED
  BY VerdictInvariant, <1>1, PTL

\* The flag that ends the process is raised only after the client who asked for
\* it has its answer, whatever else handlers, prompts and panics do meanwhile.
THEOREM StopIsAnsweredFirst == Spec => []StopAnsweredFirst
<1>1. BaseInv /\ StopInv /\ [Next]_vars => StopInv'
  BY StopStep
<1>2. Init => StopInv
  BY DEF Init, StopInv
<1>3. StopInv => StopAnsweredFirst
  BY DEF StopInv, StopAnsweredFirst
<1> QED
  BY BaseInvariant, <1>1, <1>2, <1>3, PTL DEF Spec
-----------------------------------------------------------------------------
(* The refinement: what a step of the daemon does to the contract's state.   *)

\* The human has said one thing about a request, and the mapping reads it.
LEMMA VerdictRead ==
    ASSUME VerdictInv, NEW c \in Conn, born[c] = life, key[c] # "unasked",
           req[c] \in Requests
    PROVE  Verdicts[req[c]] = key[c]
<1>1. \A d \in Deliveries(req[c]) : key[d] # "unasked" => d = c
  BY DEF Deliveries, VerdictInv, Rivals, Claimed
<1>2. c \in Deliveries(req[c])
  BY DEF Deliveries
<1>3. Keys(req[c]) = {key[c]}
  BY <1>1, <1>2 DEF Keys
<1> QED
  BY <1>3 DEF Verdicts, Said

\* Or nothing.
LEMMA NoVerdictRead ==
    ASSUME NEW r \in Requests, \A c \in Deliveries(r) : key[c] = "unasked"
    PROVE  Verdicts[r] = "none"
<1>1. Keys(r) = {}
  BY DEF Keys
<1> QED
  BY <1>1 DEF Verdicts, Said

\* The past of the connections that matter to the contract.
LEMMA PastOfDeliveries ==
    ASSUME BaseInv, PastKept, NEW c \in Conn,
           key[c] # "unasked" \/ Ran(c) \/ outcome[c] # "none"
    PROVE  req'[c] = req[c] /\ born'[c] = born[c] /\ req[c] \in Requests
<1>1. pc[c] # "idle"
  BY DEF BaseInv, ConsentInv, ProgressInv, ProgressOf, Undecided, Unsettled, Ran
<1> QED
  BY <1>1 DEF PastKept, BaseInv, TypeInv, Carried

\* No key, no verdict: what the human said stays said.
LEMMA SameVerdicts ==
    ASSUME BaseInv, PastKept, life' = life, key' = key
    PROVE  Verdicts' = Verdicts
<1>1. \A c \in Conn : key[c] # "unasked" => req'[c] = req[c] /\ born'[c] = born[c]
  BY PastOfDeliveries
<1>2. \A r \in Requests : Keys(r)' = Keys(r)
  BY <1>1 DEF Keys, Deliveries
<1> QED
  BY <1>2 DEF Verdicts

\* No child, no execution: nothing runs that had not run before.
LEMMA SameExecuted ==
    ASSUME BaseInv, PastKept, life' = life, \A c \in Conn : Ran(c)' <=> Ran(c)
    PROVE  Executed' = Executed
<1>1. \A c \in Conn : Ran(c) => req'[c] = req[c] /\ born'[c] = born[c]
  BY PastOfDeliveries
<1> QED
  BY <1>1 DEF Executed, Deliveries

\* No response, nothing told: what was told stays told.
LEMMA SameTold ==
    ASSUME BaseInv, PastKept, SettledStays, life' = life,
           \A c \in Conn : outcome'[c] \in Telling => outcome[c] \in Telling
    PROVE  Told' = Told
<1>1. \A c \in Conn : outcome[c] \in Telling =>
         req'[c] = req[c] /\ born'[c] = born[c] /\ outcome'[c] = outcome[c]
  BY PastOfDeliveries DEF SettledStays, Telling
<1> QED
  BY <1>1 DEF Told

\* A step the contract does not see.
Quiet ==
    /\ UNCHANGED <<life, config, grant, key>>
    /\ phase' = "down" <=> phase = "down"
    /\ \A c \in Conn : Ran(c)' <=> Ran(c)
    /\ \A c \in Conn : outcome'[c] \in Telling => outcome[c] \in Telling

\* Only these are seen.
Seen ==
    \/ Start \/ (ProcessGone /\ phase # "down")
    \/ \E c \in Conn :
          EndPrompt(c) \/ Decide(c) \/ Spawn(c) \/ Drained(c) \/ StopReply(c)

\* Every other step is quiet.
LEMMA QuietOrSeen ==
    ASSUME BaseInv, [Next]_vars
    PROVE  Quiet \/ Seen
<1> USE DaemonConstants
    DEF BaseInv, TypeInv, TypeOK, Quiet, Telling, Ran, Goto, Settle, vars, daemonVars, loopVars
<1>1. CASE Tick \/ LoopReturn \/ UNCHANGED vars
  BY <1>1 DEF Tick, LoopReturn
<1>2. ASSUME NEW c \in Conn, NEW r \in Requests, Connect(c, r) PROVE Quiet
  BY <1>2 DEF Connect
<1>3. ASSUME NEW c \in Conn, Accept(c) PROVE Quiet
  BY <1>3 DEF Accept
<1>4. ASSUME NEW c \in Conn, Read(c) PROVE Quiet
  BY <1>4 DEF Read
<1>5. ASSUME NEW c \in Conn, Insert(c) PROVE Quiet
  BY <1>5, InsertSplit, SMTT(30) DEF InsertAnswers
<1>6. ASSUME NEW c \in Conn, StopFlag(c) PROVE Quiet
  BY <1>6 DEF StopFlag
<1>7. ASSUME NEW c \in Conn, Dispatch(c) PROVE Quiet
  BY <1>7 DEF Dispatch
<1>8. ASSUME NEW c \in Conn, BeginPrompt(c) PROVE Quiet
  BY <1>8 DEF BeginPrompt
<1>9. ASSUME NEW c \in Conn, TakeForeground(c) PROVE Quiet
  BY <1>9 DEF TakeForeground
<1>10. ASSUME NEW c \in Conn, Reap(c) PROVE Quiet
  BY <1>10 DEF Reap
<1>11. ASSUME NEW c \in Conn, ExecTimeout(c) PROVE Quiet
  BY <1>11 DEF ExecTimeout
<1>12. ASSUME NEW c \in Conn, Display(c) PROVE Quiet
  BY <1>12 DEF Display
<1>13. ASSUME NEW c \in Conn, Finish(c) PROVE Quiet
  BY <1>13 DEF Finish
<1>14. ASSUME NEW c \in Conn, Panic(c) PROVE Quiet
  BY <1>14 DEF Panic
<1>15. ASSUME NEW c \in Conn, ChildExits(c) PROVE Quiet
  BY <1>15 DEF ChildExits
<1> QED
  BY <1>1, <1>2, <1>3, <1>4, <1>5, <1>6, <1>7, <1>8, <1>9, <1>10, <1>11, <1>12, <1>13, <1>14, <1>15
     DEF Next, Loop, Handler, Exit, Kill, Seen

\* A quiet step is a stuttering step of the contract.
LEMMA QuietStutters ==
    ASSUME BaseInv, PastKept, SettledStays, Quiet
    PROVE  UNCHANGED Contract!vars
<1> QED
  BY SameVerdicts, SameExecuted, SameTold DEF Quiet, Contract!vars

\* A daemon that starts is a session that opens: no connection was born in it.
LEMMA StartOpens ==
    ASSUME BaseInv, Start
    PROVE  Contract!Open
<1> USE DaemonConstants DEF BaseInv, TypeInv, TypeOK
<1>1. \A c \in Conn : born'[c] # life'
  BY DEF Start, ConsentInv, connVars
<1>2. \A r \in Requests : Deliveries(r)' = {}
  BY <1>1 DEF Deliveries
<1>3. Verdicts' = Contract!Unasked
  BY <1>2 DEF Verdicts, Keys, Said, Contract!Unasked
<1>4. Executed' = {} /\ Told' = {}
  BY <1>1, <1>2 DEF Executed, Told
<1>5. config'[life'] \in Config
  BY DEF Start
<1> QED
  BY <1>3, <1>4, <1>5 DEF Contract!Open, Start

\* A process that ends, however it does, is a session that closes.
LEMMA EndCloses ==
    ASSUME BaseInv, PastKept, SettledStays, ProcessGone, phase # "down"
    PROVE  Contract!Close
<1>1. Verdicts' = Verdicts /\ Executed' = Executed /\ Told' = Told
  BY SameVerdicts, SameExecuted, SameTold DEF ProcessGone, daemonVars, Ran
<1> QED
  BY <1>1 DEF Contract!Close, ProcessGone, daemonVars

\* What a delivery on its way to its verdict says of its request.
LEMMA ClaimedFacts ==
    ASSUME BaseInv, VerdictInv, NEW c \in Conn, Claimed(c), pc[c] \in Live
    PROVE  /\ req[c] \in Requests /\ req[c].action = "exec"
           /\ born[c] = life /\ phase # "down"
           /\ \A d \in Deliveries(req[c]) : d # c => key[d] = "unasked" /\ ~ Ran(d)
           /\ c \in Deliveries(req[c])
<1>1. born[c] = life /\ phase # "down"
  BY DEF BaseInv, ConsentInv
<1>2. req[c] \in Requests
  BY ClaimedCarries DEF BaseInv, TypeInv, Carried
<1>3. req[c].action = "exec"
  BY DEF BaseInv, ProgressInv, ProgressOf
<1> QED
  BY <1>1, <1>2, <1>3 DEF Deliveries, VerdictInv, Rivals, Claimed

\* The end of a prompt is the human's verdict, the first on that request.
LEMMA EndPromptAsks ==
    ASSUME BaseInv, VerdictInv, PastKept, SettledStays, NEW c \in Conn, EndPrompt(c)
    PROVE  \E v \in Key : Contract!Ask(req[c], v)
<1>1. /\ pc[c] = "prompting" /\ pc[c] \in Live /\ Claimed(c)
      /\ UNCHANGED <<life, config, grant, phase, child, outcome, req, born>>
  BY DEF EndPrompt, Live, AtTerminal, Claimed, daemonVars, loopVars, connVars
<1>2. PICK v \in Key : key' = [key EXCEPT ![c] = v]
  BY DEF EndPrompt, Key
<1>3. PICK r \in Requests : r = req[c]
  BY <1>1, ClaimedFacts
<1>4. /\ r.action = "exec" /\ phase # "down"
      /\ \A d \in Deliveries(r) : d # c => key[d] = "unasked" /\ ~ Ran(d)
      /\ c \in Deliveries(r)
  BY <1>1, <1>3, ClaimedFacts
<1>5. key[c] = "unasked" /\ ~ Ran(c)
  BY <1>1 DEF BaseInv, ConsentInv, Undecided, Ran
<1>6. Verdicts[r] = "none" /\ r \notin Executed
  BY <1>4, <1>5, NoVerdictRead DEF Executed
<1>7. \A x \in Requests : Deliveries(x)' = Deliveries(x)
  BY <1>1 DEF Deliveries
<1>8. key \in [Conn -> Key \cup {"unasked"}] /\ v # "unasked"
  BY DEF BaseInv, TypeInv, TypeOK, Key
<1>9. \A d \in Conn : key'[d] = IF d = c THEN v ELSE key[d]
  BY <1>2, <1>8
<1>10. Keys(r)' = {v}
  <2>1. \A d \in Deliveries(r) : d \in Conn
    BY DEF Deliveries
  <2>2. Keys(r)' = {key'[d] : d \in Deliveries(r)} \ {"unasked"}
    BY <1>1, <1>4, <1>7 DEF Keys
  <2> QED
    BY <1>4, <1>8, <1>9, <2>1, <2>2
<1>11. \A x \in Requests : x # r => Keys(x)' = Keys(x)
  <2> SUFFICES ASSUME NEW x \in Requests, x # r PROVE Keys(x)' = Keys(x)
    OBVIOUS
  <2>1. \A d \in Deliveries(x) : key'[d] = key[d]
    BY <1>3, <1>9 DEF Deliveries
  <2> QED
    BY <1>7, <2>1 DEF Keys
<1>12. Verdicts' = [Verdicts EXCEPT ![r] = v]
  <2>1. Said({v}) = v
    BY DEF Said
  <2>2. \A x \in Requests : Said(Keys(x))' = IF x = r THEN v ELSE Said(Keys(x))
    <3> SUFFICES ASSUME NEW x \in Requests
                 PROVE  Said(Keys(x)') = IF x = r THEN v ELSE Said(Keys(x))
      OBVIOUS
    <3>1. CASE x = r
      BY <1>10, <2>1, <3>1
    <3>2. CASE x # r
      BY <1>11, <3>2
    <3> QED
      BY <3>1, <3>2
  <2>3. Verdicts' = [x \in Requests |-> IF x = r THEN v ELSE Said(Keys(x))]
    BY <2>2 DEF Verdicts
  <2> QED
    BY <2>3 DEF Verdicts
<1>13. Executed' = Executed
  BY <1>1, <1>7 DEF Executed, Ran
<1>14. Told' = Told
  BY <1>1, SameTold
<1> QED
  BY <1>1, <1>3, <1>4, <1>6, <1>12, <1>13, <1>14 DEF Contract!Ask

\* A response that is settled is told.
LEMMA SettlingTells ==
    ASSUME BaseInv, PastKept, NEW c \in Conn, NEW o \in Telling,
           pc[c] \in Live, outcome[c] = "none",
           outcome' = [outcome EXCEPT ![c] = o],
           UNCHANGED <<life, config, grant, phase, key, child, req, born>>,
           o = "ok" /\ req[c].action = "exec" => Ran(c),
           o = "denied" => Verdicts[req[c]] # "none" /\ ~ Contract!Approved(req[c]),
           o = "timeout" => Verdicts[req[c]] = "silence"
    PROVE  Contract!Tell(req[c], o)
<1> DEFINE r == req[c]
<1>1. r \in Requests /\ born[c] = life /\ phase # "down"
  BY DEF BaseInv, ConsentInv, TypeInv, Carried, Live, AtTerminal, Executing
<1>2. outcome \in [Conn -> Outcome]
  BY DEF BaseInv, TypeInv, TypeOK
<1>3. \A d \in Conn : outcome'[d] = IF d = c THEN o ELSE outcome[d]
  BY <1>2
<1>4. Told' = Told \cup {<<r, o>>}
  <2>1. {d \in Conn : born'[d] = life' /\ outcome'[d] \in Telling}
        = {d \in Conn : born[d] = life /\ outcome[d] \in Telling} \cup {c}
    BY <1>1, <1>3
  <2>2. "none" \notin Telling
    BY DEF Telling
  <2> QED
    BY <1>3, <2>1, <2>2 DEF Told
<1>5. Verdicts' = Verdicts /\ Executed' = Executed
  BY SameVerdicts, SameExecuted DEF Ran
<1>6. o = "ok" /\ r.action = "exec" => r \in Executed
  BY <1>1 DEF Executed, Deliveries
<1> QED
  BY <1>1, <1>4, <1>5, <1>6 DEF Contract!Tell

\* What a handler is about to spawn the contract approves.
LEMMA SpawnIsApproved ==
    ASSUME BaseInv, VerdictInv, NEW c \in Conn, pc[c] = "spawn"
    PROVE  Contract!Approved(req[c])
<1>1. Claimed(c) /\ pc[c] \in Live
  BY DEF Claimed, Live, Executing
<1>2. /\ req[c] \in Requests /\ born[c] = life
      /\ \A d \in Deliveries(req[c]) : d # c => key[d] = "unasked" /\ ~ Ran(d)
  BY <1>1, ClaimedFacts
<1>3. Entitled(c)
  BY DEF BaseInv, ConsentInv
<1>4. CASE key[c] = "unasked"
  <2>1. Verdicts[req[c]] = "none"
    BY <1>2, <1>4, NoVerdictRead
  <2>2. ~ req[c].privileged => grant
    BY <1>4 DEF BaseInv, ProgressInv, ProgressOf
  <2> QED
    BY <1>2, <1>3, <1>4, <2>1, <2>2 DEF Entitled, Contract!Approved
<1>5. CASE key[c] # "unasked"
  <2>1. Verdicts[req[c]] = key[c]
    BY <1>2, <1>5, VerdictRead
  <2> QED
    BY <1>3, <1>5, <2>1 DEF Entitled, Contract!Approved
<1> QED
  BY <1>4, <1>5

\* A spawn, even one that fails at the second stage, executes the request.
LEMMA SpawnRuns ==
    ASSUME BaseInv, VerdictInv, PastKept, SettledStays, NEW c \in Conn, Spawn(c)
    PROVE  Contract!Run(req[c]) \/ UNCHANGED Contract!vars
<1> DEFINE r == req[c]
<1>1. /\ pc[c] = "spawn" /\ pc[c] \in Live /\ Claimed(c)
      /\ UNCHANGED <<life, config, grant, phase, key, req, born>>
  BY DEF Spawn, Live, Executing, Claimed, daemonVars, loopVars, connVars
<1>2. \A d \in Conn : outcome'[d] \in Telling => outcome[d] \in Telling
  BY DEF Spawn, Settle, Telling, BaseInv, TypeInv, TypeOK
<1>3. Verdicts' = Verdicts /\ Told' = Told
  BY <1>1, <1>2, SameVerdicts, SameTold
<1>4. /\ r \in Requests /\ r.action = "exec" /\ phase # "down" /\ born[c] = life
      /\ \A d \in Deliveries(r) : d # c => key[d] = "unasked" /\ ~ Ran(d)
      /\ c \in Deliveries(r)
  BY <1>1, ClaimedFacts
<1>5. child[c] = "none"
  BY <1>1 DEF BaseInv, ProgressInv, ProgressOf
<1>6. CASE child' = child
  <2>1. Executed' = Executed
    BY <1>1, <1>6, SameExecuted DEF Ran
  <2> QED
    BY <1>1, <1>3, <2>1 DEF Contract!vars
<1>7. CASE child' # child
  <2>1. \A d \in Conn : Ran(d)' <=> Ran(d) \/ d = c
    BY <1>5, <1>7 DEF Spawn, Ran, BaseInv, TypeInv, TypeOK
  <2>2. \A x \in Requests : Deliveries(x)' = Deliveries(x)
    BY <1>1 DEF Deliveries
  <2>3. r \notin Executed
    BY <1>4, <1>5 DEF Executed, Ran
  <2>4. Executed' = Executed \cup {r}
    BY <1>4, <2>1, <2>2 DEF Executed, Deliveries
  <2>5. Contract!Approved(r)
    BY <1>1, SpawnIsApproved
  <2> QED
    BY <1>1, <1>3, <1>4, <2>3, <2>4, <2>5 DEF Contract!Run
<1> QED
  BY <1>6, <1>7

\* The match on a prompt's result gives consent, tells a refusal, or is unseen.
LEMMA DecideConsentsOrTells ==
    ASSUME BaseInv, VerdictInv, PastKept, SettledStays, NEW c \in Conn, Decide(c)
    PROVE  \/ Contract!Consent(req[c])
           \/ \E o \in Telling : Contract!Tell(req[c], o)
           \/ UNCHANGED Contract!vars
<1> DEFINE r == req[c]
           p == PromptResult(key[c], r.privileged)
<1>1. /\ pc[c] = "decided" /\ pc[c] \in Live /\ Claimed(c)
      /\ UNCHANGED <<life, config, phase, key, child, req, born>>
  BY DEF Decide, Live, AtTerminal, Claimed, daemonVars, loopVars, connVars
<1>2. r \in Requests /\ phase # "down" /\ born[c] = life
  BY <1>1, ClaimedFacts
<1>3. key[c] # "unasked" /\ outcome[c] = "none"
  BY <1>1 DEF BaseInv, ProgressInv, ProgressOf, Unsettled
<1>4. Verdicts[r] = key[c]
  BY <1>2, <1>3, VerdictRead
<1>5. CASE outcome' = outcome
  <2>1. Verdicts' = Verdicts /\ Executed' = Executed /\ Told' = Told
    BY <1>1, <1>5, SameVerdicts, SameExecuted, SameTold DEF Ran
  <2>2. CASE grant' = grant
    BY <1>1, <2>1, <2>2 DEF Contract!vars
  <2>3. CASE grant' # grant
    <3>1. p = "ApprovedAlways" /\ ~ r.privileged /\ config[life].eligible /\ grant'
      BY <2>3 DEF Decide, Cfg, BaseInv, TypeInv, TypeOK
    <3>2. key[c] = "a"
      BY <3>1 DEF PromptResult
    <3> QED
      BY <1>1, <1>2, <1>4, <2>1, <3>1, <3>2 DEF Contract!Consent
  <2> QED
    BY <2>2, <2>3
<1>6. CASE outcome' # outcome
  <2>1. PICK o \in {"denied", "timeout", "error"} : outcome' = [outcome EXCEPT ![c] = o]
    BY <1>6 DEF Decide, Settle
  <2>2. /\ o = "timeout" => p = "Timeout"
        /\ o = "error" => p = "Error"
        /\ o = "denied" => p = "Denied" \/ (p = "ApprovedAlways" /\ r.privileged)
    BY <1>3, <1>6, <2>1 DEF Decide, Settle, PromptResult, BaseInv, TypeInv, TypeOK
  <2>3. grant' = grant
    BY <1>6, <2>2 DEF Decide, PromptResult, BaseInv, TypeInv, TypeOK
  <2>4. CASE o = "error"
    <3>1. \A d \in Conn : outcome'[d] \in Telling => outcome[d] \in Telling
      BY <2>1, <2>4 DEF Telling, BaseInv, TypeInv, TypeOK
    <3>2. Verdicts' = Verdicts /\ Executed' = Executed /\ Told' = Told
      BY <1>1, <3>1, SameVerdicts, SameExecuted, SameTold DEF Ran
    <3> QED
      BY <1>1, <2>3, <3>2 DEF Contract!vars
  <2>5. CASE o # "error"
    <3>1. o = "denied" => Verdicts[r] # "none" /\ ~ Contract!Approved(r)
      BY <1>3, <1>4, <2>2 DEF PromptResult, Contract!Approved, BaseInv, TypeInv, TypeOK, Key
    <3>2. o = "timeout" => Verdicts[r] = "silence"
      BY <1>4, <2>2 DEF PromptResult
    <3>3. o \in Telling /\ o # "ok"
      BY <2>5 DEF Telling
    <3> QED
      BY <1>1, <1>3, <2>1, <2>3, <3>1, <3>2, <3>3, SettlingTells
  <2> QED
    BY <2>4, <2>5
<1> QED
  BY <1>5, <1>6

\* The answer after the drains is told, and is "ok" only of what ran.
LEMMA DrainedTells ==
    ASSUME BaseInv, PastKept, SettledStays, NEW c \in Conn, Drained(c)
    PROVE  Contract!Tell(req[c], "ok") \/ UNCHANGED Contract!vars
<1>1. /\ pc[c] = "drain" /\ pc[c] \in Live
      /\ UNCHANGED <<life, config, grant, phase, key, child, req, born>>
  BY DEF Drained, Live, Executing, daemonVars, loopVars, connVars
<1>2. Ran(c) /\ outcome[c] \in {"none", "error"}
  BY <1>1 DEF BaseInv, ProgressInv, ProgressOf
<1>3. CASE outcome[c] = "none"
  <2>1. outcome' = [outcome EXCEPT ![c] = "ok"]
    BY <1>3 DEF Drained, Settle
  <2> QED
    BY <1>1, <1>2, <1>3, <2>1, SettlingTells DEF Telling
<1>4. CASE outcome[c] = "error"
  <2>1. outcome' = outcome
    BY <1>4 DEF Drained, Settle, BaseInv, TypeInv, TypeOK
  <2>2. Verdicts' = Verdicts /\ Executed' = Executed /\ Told' = Told
    BY <1>1, <2>1, SameVerdicts, SameExecuted, SameTold DEF Ran
  <2> QED
    BY <1>1, <2>2 DEF Contract!vars
<1> QED
  BY <1>2, <1>3, <1>4

\* The answer to a stop is told too.
LEMMA StopReplyTells ==
    ASSUME BaseInv, PastKept, NEW c \in Conn, StopReply(c)
    PROVE  Contract!Tell(req[c], "ok")
<1>1. /\ pc[c] = "stopping" /\ pc[c] \in Live
      /\ outcome' = [outcome EXCEPT ![c] = "ok"]
      /\ UNCHANGED <<life, config, grant, phase, key, child, req, born>>
  BY DEF StopReply, Settle, Live, daemonVars, loopVars, connVars
<1>2. outcome[c] = "none" /\ req[c].action = "stop"
  BY <1>1 DEF BaseInv, ProgressInv, ProgressOf, Unsettled
<1> QED
  BY <1>1, <1>2, SettlingTells DEF Telling

\* Every step of the daemon is a step of the contract or unseen by it.
LEMMA StepSimulation ==
    ASSUME BaseInv, VerdictInv, [Next]_vars
    PROVE  [Contract!Next]_(Contract!vars)
<1>1. PastKept /\ SettledStays
  BY StepKeepsPast, SettledStep DEF BaseInv
<1>2. CASE Quiet
  BY <1>1, <1>2, QuietStutters
<1>3. CASE Start
  BY <1>3, StartOpens DEF Contract!Next
<1>4. CASE ProcessGone /\ phase # "down"
  BY <1>1, <1>4, EndCloses DEF Contract!Next
<1>5. ASSUME NEW c \in Conn,
             EndPrompt(c) \/ Decide(c) \/ Spawn(c) \/ Drained(c) \/ StopReply(c)
      PROVE  [Contract!Next]_(Contract!vars)
  <2>1. req[c] \in Requests
    <3>1. pc[c] # "idle"
      BY <1>5 DEF EndPrompt, Decide, Spawn, Drained, StopReply
    <3> QED
      BY <3>1 DEF BaseInv, TypeInv, Carried
  <2>2. CASE EndPrompt(c)
    BY <1>1, <2>1, <2>2, EndPromptAsks DEF Contract!Next
  <2>3. CASE Decide(c)
    BY <1>1, <2>1, <2>3, DecideConsentsOrTells DEF Contract!Next, Telling
  <2>4. CASE Spawn(c)
    BY <1>1, <2>1, <2>4, SpawnRuns DEF Contract!Next
  <2>5. CASE Drained(c)
    BY <1>1, <2>1, <2>5, DrainedTells DEF Contract!Next
  <2>6. CASE StopReply(c)
    BY <1>1, <2>1, <2>6, StopReplyTells DEF Contract!Next
  <2> QED
    BY <1>5, <2>2, <2>3, <2>4, <2>5, <2>6
<1> QED
  BY <1>2, <1>3, <1>4, <1>5, QuietOrSeen DEF Seen

\* Before the first daemon there is no session.
LEMMA InitSimulation == Init => Contract!Init
<1> SUFFICES ASSUME Init PROVE Contract!Init
  OBVIOUS
<1>1. Verdicts = Contract!Unasked
  BY DEF Init, Verdicts, Keys, Deliveries, Said, Contract!Unasked
<1>2. Executed = {} /\ Told = {}
  BY DEF Init, Executed, Told, Deliveries, Ran, Telling
<1>3. config[life] \in Config
  BY DaemonConstants DEF Init, Config
<1> QED
  BY <1>1, <1>2, <1>3 DEF Init, Contract!Init

\* The daemon implements the contract: threads, the lock, prompts, panics, a
\* memory of ids and restarts together behave as one session at a time in which
\* each request is asked about once, executed once and only with consent, and
\* answered truthfully, as long as the retention covers the freshness window.
THEOREM DaemonImplementsContract == ASSUME RetentionCovers PROVE Spec => ImplementsContract
<1>1. BaseInv /\ VerdictInv /\ [Next]_vars => [Contract!Next]_(Contract!vars)
  BY StepSimulation
<1> QED
  BY InitSimulation, BaseInvariant, VerdictInvariant, <1>1, PTL
     DEF Spec, ImplementsContract, Contract!Spec
=============================================================================

------------------------ MODULE ApprovalDaemonProofs ------------------------
(***************************************************************************)
(* Invariants of ApprovalDaemon for every number of connections, any set   *)
(* of requests, any cap and any number of restarts.                        *)
(***************************************************************************)
EXTENDS ApprovalDaemon, SeenIdsProofs, FiniteSetTheorems

\* A connection that is no longer idle carries one of the requests.
Carried == \A c \in Conn : pc[c] # "idle" => req[c] \in Requests

\* What TerminalExclusive needs to be inductive: whoever owns the foreground
\* holds the lock outside a prompt, and always took the terminal from the daemon.
TerminalInv ==
    /\ \A c \in Conn : pc[c] = "prompting" => ttyLock = c
    /\ ttyLock # NoConn => pc[ttyLock] \in {"prompting", "wait", "drain"}
    /\ foreground # NoConn => ttyLock = foreground /\ pc[foreground] # "prompting"
    /\ saved = NoConn

LiveConns == {c \in Conn : pc[c] \in Live}

\* The type invariant with the two facts it needs to be inductive.
TypeInv ==
    /\ TypeOK
    /\ Coherent(seen)
    /\ Carried

IInv ==
    /\ TypeInv
    /\ TerminalInv
    /\ InFlightExact

\* The invariant holds before the first daemon is started.
LEMMA InitIInv == Init => IInv
<1> SUFFICES ASSUME Init PROVE IInv
  OBVIOUS
<1> USE DaemonConstants
<1>1. seen \in Memory /\ Coherent(seen)
  BY EmptySeq DEF Init, NewMemory, Memory, Coherent, IdsAt
<1>2. TypeOK
  <2>1. config \in [0..MaxLives -> Config]
    BY DEF Init, Config
  <2>2. pc \in [Conn -> Location] /\ outcome \in [Conn -> Outcome]
    BY DEF Init, Location, Outcome
  <2>3. /\ req \in [Conn -> Requests \cup {NoReq}]
        /\ born \in [Conn -> 0..MaxLives]
        /\ key \in [Conn -> Key \cup {"unasked"}]
        /\ child \in [Conn -> {"none", "running", "exited"}]
        /\ shown \in SUBSET Conn
    BY DEF Init
  <2>4. /\ now \in Nat /\ life \in 0..MaxLives /\ inFlight \in Nat
        /\ phase \in {"down", "serving", "closing", "returned"}
        /\ ttyLock \in Conn \cup {NoConn}
        /\ foreground \in Conn \cup {NoConn}
        /\ saved \in Conn \cup {NoConn}
    BY DEF Init
  <2>5. shutdown \in BOOLEAN /\ grant \in BOOLEAN /\ poisoned \in BOOLEAN
    BY DEF Init
  <2> QED
    BY <1>1, <2>1, <2>2, <2>3, <2>4, <2>5 DEF TypeOK
<1>3. LiveConns = {}
  BY DEF Init, LiveConns, Live, AtTerminal, Executing
<1>4. InFlightExact
  <2>1. inFlight = 0 /\ Cardinality(LiveConns) = 0
    BY <1>3, FS_EmptySet DEF Init
  <2> QED
    BY <2>1 DEF InFlightExact, LiveConns
<1> QED
  BY <1>1, <1>2, <1>4 DEF Init, IInv, TypeInv, Carried, TerminalInv

\* What Insert does, branch by branch: the action of a request that a handler
\* carries is one of three, so no fourth branch is left open.
InsertAnswers(c) ==
    /\ pc[c] = "insert"
    /\ req[c] \in Requests /\ req[c].id \in Id
    /\ seen' = TryInsert(seen, req[c].id, now)
    /\ \/ Settle(c, "duplicate", "exit")
       \/ /\ ~ Known(seen, req[c].id, now)
          /\ \/ req[c].action = "ping" /\ Settle(c, "pong", "exit")
             \/ req[c].action = "stop" /\ Goto(c, "stopping") /\ outcome' = outcome
             \/ req[c].action = "exec" /\ Goto(c, "dispatch") /\ outcome' = outcome
    /\ UNCHANGED <<now, daemonVars, loopVars, grant, ttyVars, connVars, key, child, shown>>

LEMMA InsertSplit ==
    ASSUME TypeInv, NEW c \in Conn, Insert(c)
    PROVE  InsertAnswers(c)
<1>1. pc[c] = "insert"
  BY DEF Insert
<1>2. req[c] \in Requests /\ req[c].id \in Id /\ req[c].action \in {"exec", "ping", "stop"}
  BY <1>1, DaemonConstants DEF TypeInv, Carried, RequestType
<1>3. CASE Known(seen, req[c].id, now)
  BY <1>1, <1>2, <1>3 DEF Insert, InsertAnswers
<1>4. CASE ~ Known(seen, req[c].id, now)
  BY <1>1, <1>2, <1>4 DEF Insert, InsertAnswers
<1> QED
  BY <1>3, <1>4

\* The steps of a handler that is still live afterwards: all but its last.
StillRuns(c) ==
    \/ Read(c) \/ Insert(c) \/ StopReply(c) \/ StopFlag(c) \/ Dispatch(c)
    \/ BeginPrompt(c) \/ EndPrompt(c) \/ Decide(c) \/ Spawn(c) \/ TakeForeground(c)
    \/ Reap(c) \/ ExecTimeout(c) \/ Drained(c) \/ Display(c) \/ Panic(c)

\* Such a step moves the handler from one live location to another and nobody
\* else, and leaves the requests and the counter of handlers alone.
LEMMA HandlerMoves ==
    ASSUME TypeInv, NEW c \in Conn, StillRuns(c)
    PROVE  /\ pc[c] \in Live
           /\ \E l \in Live : pc' = [pc EXCEPT ![c] = l]
           /\ inFlight' = inFlight /\ req' = req
<1> DEFINE Moves == /\ pc[c] \in Live
                    /\ \E l \in Live : pc' = [pc EXCEPT ![c] = l]
                    /\ inFlight' = inFlight /\ req' = req
<1> USE DEF Goto, Settle, Live, AtTerminal, Executing, loopVars, connVars
<1>1. CASE Read(c)
  BY <1>1 DEF Read
<1>2. CASE Insert(c)
  BY <1>2, InsertSplit DEF InsertAnswers
<1>3. CASE StopReply(c)
  BY <1>3 DEF StopReply
<1>4. CASE StopFlag(c)
  BY <1>4 DEF StopFlag
<1>5. CASE Dispatch(c)
  BY <1>5 DEF Dispatch
<1>6. CASE BeginPrompt(c)
  BY <1>6 DEF BeginPrompt
<1>7. CASE EndPrompt(c)
  BY <1>7 DEF EndPrompt
<1>8. CASE Decide(c)
  BY <1>8 DEF Decide
<1>9. CASE Spawn(c)
  BY <1>9 DEF Spawn
<1>10. CASE TakeForeground(c)
  BY <1>10 DEF TakeForeground
<1>11. CASE Reap(c)
  BY <1>11 DEF Reap
<1>12. CASE ExecTimeout(c)
  BY <1>12 DEF ExecTimeout
<1>13. CASE Drained(c)
  BY <1>13 DEF Drained
<1>14. CASE Display(c)
  BY <1>14 DEF Display
<1>15. CASE Panic(c)
  BY <1>15 DEF Panic
<1> QED
  BY <1>1, <1>2, <1>3, <1>4, <1>5, <1>6, <1>7, <1>8, <1>9, <1>10, <1>11, <1>12, <1>13, <1>14, <1>15 DEF StillRuns

\* A response, once settled, is one of the responses.
LEMMA HandlerSettles ==
    ASSUME TypeInv, NEW c \in Conn, StillRuns(c)
    PROVE  outcome' \in [Conn -> Outcome]
<1> USE DEF Goto, Settle
<1>0. outcome \in [Conn -> Outcome]
  BY DEF TypeInv, TypeOK
<1>1. CASE Read(c)
  BY <1>0, <1>1 DEF Read, Outcome
<1>2. CASE Insert(c)
  BY <1>0, <1>2, InsertSplit DEF InsertAnswers, Outcome
<1>3. CASE StopReply(c)
  BY <1>0, <1>3 DEF StopReply, Outcome
<1>4. CASE StopFlag(c)
  BY <1>0, <1>4 DEF StopFlag, Outcome
<1>5. CASE Dispatch(c)
  BY <1>0, <1>5 DEF Dispatch, Outcome
<1>6. CASE BeginPrompt(c)
  BY <1>0, <1>6 DEF BeginPrompt, Outcome
<1>7. CASE EndPrompt(c)
  BY <1>0, <1>7 DEF EndPrompt, Outcome
<1>8. CASE Decide(c)
  BY <1>0, <1>8 DEF Decide, Outcome
<1>9. CASE Spawn(c)
  BY <1>0, <1>9 DEF Spawn, Outcome
<1>10. CASE TakeForeground(c)
  BY <1>0, <1>10 DEF TakeForeground, Outcome
<1>11. CASE Reap(c)
  BY <1>0, <1>11 DEF Reap, Outcome
<1>12. CASE ExecTimeout(c)
  BY <1>0, <1>12 DEF ExecTimeout, Outcome
<1>13. CASE Drained(c)
  <2>1. outcome[c] \in Outcome /\ "ok" \in Outcome
    BY <1>0 DEF Outcome
  <2> QED
    BY <1>0, <1>13, <2>1 DEF Drained
<1>14. CASE Display(c)
  BY <1>0, <1>14 DEF Display, Outcome
<1>15. CASE Panic(c)
  BY <1>0, <1>15 DEF Panic, Outcome
<1> QED
  BY <1>1, <1>2, <1>3, <1>4, <1>5, <1>6, <1>7, <1>8, <1>9, <1>10, <1>11, <1>12, <1>13, <1>14, <1>15 DEF StillRuns

\* A step of the daemon, by who takes it.
LEMMA NextSplit ==
    ASSUME [Next]_vars
    PROVE  \/ Start \/ ProcessGone \/ LoopReturn \/ Tick \/ UNCHANGED vars
           \/ \E c \in Conn : \/ Accept(c) \/ Finish(c) \/ ChildExits(c) \/ StillRuns(c)
                              \/ \E r \in Requests : Connect(c, r)
<1> QED
  BY DEF Next, Loop, Handler, Exit, Kill, StillRuns

\* Every step keeps the types.  Only try_insert touches the memory; only Finish
\* counts down, and it finds its own handler counted.
LEMMA TypeStep ==
    ASSUME TypeInv, InFlightExact, [Next]_vars
    PROVE  TypeInv'
<1> USE DaemonConstants
    DEF TypeInv, TypeOK, Carried, vars, daemonVars, loopVars, ttyVars, connVars
<1>1. ASSUME Start PROVE TypeInv'
  BY <1>1 DEF Start
<1>2. ASSUME ProcessGone PROVE TypeInv'
  <2>1. seen' \in Memory /\ Coherent(seen')
    BY <1>2, EmptySeq DEF ProcessGone, NewMemory, Memory, Coherent, IdsAt
  <2>2. pc' \in [Conn -> Location] /\ \A c \in Conn : pc'[c] # "idle" => pc[c] # "idle"
    BY <1>2 DEF ProcessGone, Location, Live, AtTerminal, Executing
  <2> QED
    BY <1>2, <2>1, <2>2 DEF ProcessGone
<1>3. ASSUME LoopReturn PROVE TypeInv'
  <2>1. pc' \in [Conn -> Location] /\ \A c \in Conn : pc'[c] # "idle" => pc[c] # "idle"
    BY <1>3 DEF LoopReturn, Location
  <2> QED
    BY <1>3, <2>1 DEF LoopReturn
<1>4. ASSUME NEW c \in Conn, Accept(c) PROVE TypeInv'
  <2>1. /\ pc[c] = "backlog" /\ req' = req /\ inFlight' \in Nat
        /\ \E l \in Location : pc' = [pc EXCEPT ![c] = l]
        /\ phase' \in {"down", "serving", "closing", "returned"}
        /\ outcome' = outcome \/ outcome' = [outcome EXCEPT ![c] = "busy"]
    BY <1>4 DEF Accept, Goto, Settle, Location, Live
  <2>2. pc' \in [Conn -> Location] /\ Carried'
    BY <2>1
  <2>3. outcome' \in [Conn -> Outcome]
    BY <2>1 DEF Outcome
  <2> QED
    BY <1>4, <2>1, <2>2, <2>3 DEF Accept
<1>5. ASSUME Tick PROVE TypeInv'
  BY <1>5 DEF Tick
<1>6. ASSUME NEW c \in Conn, NEW r \in Requests, Connect(c, r) PROVE TypeInv'
  <2>1. pc' = [pc EXCEPT ![c] = "backlog"] /\ "backlog" \in Location
    BY <1>6 DEF Connect, Goto, Location
  <2> QED
    BY <1>6, <2>1 DEF Connect
<1>7. ASSUME NEW c \in Conn, ChildExits(c) PROVE TypeInv'
  BY <1>7 DEF ChildExits
<1>8. ASSUME NEW c \in Conn, Finish(c) PROVE TypeInv'
  <2>1. LiveConns \subseteq Conn /\ c \in LiveConns
    BY <1>8 DEF Finish, LiveConns, Live
  <2>2. Cardinality(LiveConns) \in Nat /\ LiveConns # {}
    BY <2>1, FS_Subset, FS_CardinalityType
  <2>3. Cardinality(LiveConns) # 0
    BY <2>1, <2>2, FS_Subset, FS_EmptySet
  <2>4. inFlight - 1 \in Nat
    BY <2>2, <2>3 DEF InFlightExact, LiveConns
  <2>5. pc[c] = "exit" /\ pc' = [pc EXCEPT ![c] = "done"] /\ "done" \in Location
    BY <1>8 DEF Finish, Goto, Location
  <2> QED
    BY <1>8, <2>4, <2>5 DEF Finish
<1>9. ASSUME NEW c \in Conn, StillRuns(c) PROVE TypeInv'
  <2> DEFINE Moved == pc' \in [Conn -> Location] /\ Carried' /\ outcome' \in [Conn -> Outcome]
  <2>1. PICK l \in Live : pc' = [pc EXCEPT ![c] = l]
    BY <1>9, HandlerMoves
  <2>2. pc[c] # "idle" /\ req' = req
    BY <1>9, HandlerMoves DEF Live, AtTerminal, Executing
  <2>3. Moved
    BY <1>9, <2>1, <2>2, HandlerSettles DEF Location
  <2> HIDE DEF Carried
  <2>4. CASE Read(c)
    BY <2>3, <2>4 DEF Read
  <2>5. CASE Insert(c)
    <3>1. InsertAnswers(c)
      BY <2>5, InsertSplit
    <3>2. seen' \in Memory /\ Coherent(seen')
      BY <3>1, TryInsertSpec, RetentionIsNat DEF InsertAnswers
    <3> QED
      BY <2>3, <3>1, <3>2 DEF InsertAnswers
  <2>6. CASE StopReply(c)
    BY <2>3, <2>6 DEF StopReply
  <2>7. CASE StopFlag(c)
    BY <2>3, <2>7 DEF StopFlag
  <2>8. CASE Dispatch(c)
    BY <2>3, <2>8 DEF Dispatch
  <2>9. CASE BeginPrompt(c)
    BY <2>3, <2>9 DEF BeginPrompt
  <2>10. CASE EndPrompt(c)
    BY <2>3, <2>10 DEF EndPrompt, Key
  <2>11. CASE Decide(c)
    BY <2>3, <2>11 DEF Decide
  <2>12. CASE Spawn(c)
    <3>1. child' \in [Conn -> {"none", "running", "exited"}]
      BY <2>12 DEF Spawn
    <3> QED
      BY <2>3, <2>12, <3>1 DEF Spawn
  <2>13. CASE TakeForeground(c)
    BY <2>3, <2>13 DEF TakeForeground
  <2>14. CASE Reap(c)
    BY <2>3, <2>14 DEF Reap
  <2>15. CASE ExecTimeout(c)
    BY <2>3, <2>15 DEF ExecTimeout, DropGuard
  <2>16. CASE Drained(c)
    BY <2>3, <2>16 DEF Drained, DropGuard
  <2>17. CASE Display(c)
    BY <2>3, <2>17 DEF Display
  <2>18. CASE Panic(c)
    BY <2>3, <2>18 DEF Panic, DropGuard
  <2> QED
    BY <1>9, <2>4, <2>5, <2>6, <2>7, <2>8, <2>9, <2>10, <2>11, <2>12, <2>13, <2>14, <2>15, <2>16, <2>17, <2>18 DEF StillRuns
<1>10. CASE UNCHANGED vars
  BY <1>10
<1> QED
  BY <1>1, <1>2, <1>3, <1>4, <1>5, <1>6, <1>7, <1>8, <1>9, <1>10, NextSplit

\* One holder at a time: a step takes the lock only when it is free, and gives
\* it back, with the foreground, only as its holder.
LEMMA TerminalStep ==
    ASSUME TypeInv, TerminalInv, [Next]_vars
    PROVE  TerminalInv'
<1> USE DaemonConstants
    DEF TypeInv, TypeOK, TerminalInv, Goto, Settle, vars, ttyVars
<1>1. ASSUME ProcessGone PROVE TerminalInv'
  BY <1>1 DEF ProcessGone, Live, AtTerminal
<1>2. CASE LoopReturn
  BY <1>2 DEF LoopReturn
<1>3. CASE Start \/ Tick
  BY <1>3 DEF Start, Tick
<1>4. ASSUME NEW c \in Conn, Accept(c) PROVE TerminalInv'
  BY <1>4 DEF Accept
<1>5. ASSUME NEW c \in Conn, Read(c) PROVE TerminalInv'
  BY <1>5 DEF Read
<1>6. ASSUME NEW c \in Conn, Insert(c) PROVE TerminalInv'
  <2>1. InsertAnswers(c)
    BY <1>6, InsertSplit
  <2>2. PICK l \in {"exit", "stopping", "dispatch"} : pc' = [pc EXCEPT ![c] = l]
    BY <2>1 DEF InsertAnswers
  <2> QED
    BY <2>1, <2>2 DEF InsertAnswers
<1>7. ASSUME NEW c \in Conn, StopReply(c) PROVE TerminalInv'
  BY <1>7 DEF StopReply
<1>8. ASSUME NEW c \in Conn, StopFlag(c) PROVE TerminalInv'
  BY <1>8 DEF StopFlag
<1>9. ASSUME NEW c \in Conn, Dispatch(c) PROVE TerminalInv'
  BY <1>9 DEF Dispatch
<1>10. ASSUME NEW c \in Conn, BeginPrompt(c) PROVE TerminalInv'
  BY <1>10 DEF BeginPrompt
<1>11. ASSUME NEW c \in Conn, EndPrompt(c) PROVE TerminalInv'
  BY <1>11 DEF EndPrompt
<1>12. ASSUME NEW c \in Conn, Decide(c) PROVE TerminalInv'
  BY <1>12 DEF Decide
<1>13. ASSUME NEW c \in Conn, Spawn(c) PROVE TerminalInv'
  BY <1>13 DEF Spawn
<1>14. ASSUME NEW c \in Conn, TakeForeground(c) PROVE TerminalInv'
  BY <1>14 DEF TakeForeground
<1>15. ASSUME NEW c \in Conn, Reap(c) PROVE TerminalInv'
  BY <1>15 DEF Reap
<1>16. ASSUME NEW c \in Conn, ExecTimeout(c) PROVE TerminalInv'
  BY <1>16 DEF ExecTimeout, DropGuard
<1>17. ASSUME NEW c \in Conn, Drained(c) PROVE TerminalInv'
  BY <1>17 DEF Drained, DropGuard
<1>18. ASSUME NEW c \in Conn, Display(c) PROVE TerminalInv'
  BY <1>18 DEF Display
<1>19. ASSUME NEW c \in Conn, Finish(c) PROVE TerminalInv'
  BY <1>19 DEF Finish
<1>20. ASSUME NEW c \in Conn, Panic(c) PROVE TerminalInv'
  BY <1>20 DEF Panic, DropGuard
<1>21. ASSUME NEW c \in Conn, ChildExits(c) PROVE TerminalInv'
  BY <1>21 DEF ChildExits
<1>22. ASSUME NEW c \in Conn, NEW r \in Requests, Connect(c, r) PROVE TerminalInv'
  BY <1>22 DEF Connect
<1>23. CASE UNCHANGED vars
  BY <1>23
<1> QED
  BY <1>1, <1>2, <1>3, <1>4, <1>5, <1>6, <1>7, <1>8, <1>9, <1>10, <1>11, <1>12, <1>13, <1>14, <1>15, <1>16, <1>17, <1>18, <1>19, <1>20, <1>21, <1>22, <1>23, NextSplit
     DEF StillRuns

\* The set of live handlers changes only as Accept, Finish and the end of the
\* process change it; every other step of a handler keeps it alive.
LEMMA StillLive ==
    ASSUME TypeInv, NEW c \in Conn, NEW l \in Live, pc[c] \in Live,
           pc' = [pc EXCEPT ![c] = l]
    PROVE  LiveConns' = LiveConns
<1> QED
  BY DEF TypeInv, TypeOK, LiveConns

\* The counter follows the set of live handlers.
LEMMA InFlightStep ==
    ASSUME TypeInv, InFlightExact, [Next]_vars
    PROVE  InFlightExact'
<1> USE DaemonConstants
    DEF TypeInv, TypeOK, Goto, Settle, vars, loopVars
<1> DEFINE Counted == inFlight = Cardinality(LiveConns) /\ inFlight <= MaxInFlight
           Quiet == LiveConns' = LiveConns /\ inFlight' = inFlight
<1>1. Counted /\ IsFiniteSet(LiveConns)
  BY FS_Subset DEF InFlightExact, LiveConns
<1>2. ASSUME Quiet PROVE Counted'
  BY <1>1, <1>2
<1>3. ASSUME ProcessGone PROVE Counted'
  <2>1. LiveConns' = {}
    BY <1>3 DEF ProcessGone, LiveConns, Live, AtTerminal, Executing
  <2> QED
    BY <1>3, <2>1, FS_EmptySet DEF ProcessGone
<1>4. ASSUME NEW c \in Conn, Accept(c) PROVE Counted'
  <2>1. CASE inFlight >= MaxInFlight
    <3>1. Quiet
      BY <1>4, <2>1 DEF Accept, LiveConns, Live, AtTerminal, Executing
    <3> QED
      BY <1>2, <3>1
  <2>2. CASE ~ (inFlight >= MaxInFlight)
    <3>1. LiveConns' = LiveConns \cup {c} /\ c \notin LiveConns
      BY <1>4, <2>2 DEF Accept, LiveConns, Live, AtTerminal, Executing
    <3>2. Cardinality(LiveConns') = Cardinality(LiveConns) + 1
      BY <1>1, <3>1, FS_AddElement
    <3> QED
      BY <1>1, <1>4, <2>2, <3>2 DEF Accept
  <2> QED
    BY <2>1, <2>2
<1>5. ASSUME NEW c \in Conn, Finish(c) PROVE Counted'
  <2>1. LiveConns' = LiveConns \ {c} /\ c \in LiveConns
    BY <1>5 DEF Finish, LiveConns, Live, AtTerminal, Executing
  <2>2. Cardinality(LiveConns') = Cardinality(LiveConns) - 1
    BY <1>1, <2>1, FS_RemoveElement
  <2> QED
    BY <1>1, <1>5, <2>2 DEF Finish
<1>6. ASSUME Start \/ Tick \/ UNCHANGED vars PROVE Counted'
  <2>1. Quiet
    BY <1>6 DEF Start, Tick, LiveConns
  <2> QED
    BY <1>2, <2>1
<1>7. ASSUME LoopReturn PROVE Counted'
  <2>1. Quiet
    BY <1>7 DEF LoopReturn, LiveConns, Live, AtTerminal, Executing
  <2> QED
    BY <1>2, <2>1
<1>8. ASSUME NEW c \in Conn, NEW r \in Requests, Connect(c, r) PROVE Counted'
  <2>1. Quiet
    BY <1>8 DEF Connect, LiveConns, Live, AtTerminal, Executing
  <2> QED
    BY <1>2, <2>1
<1>9. ASSUME NEW c \in Conn, ChildExits(c) PROVE Counted'
  <2>1. Quiet
    BY <1>9 DEF ChildExits, LiveConns
  <2> QED
    BY <1>2, <2>1
<1>10. ASSUME NEW c \in Conn, StillRuns(c) PROVE Counted'
  BY <1>2, <1>10, HandlerMoves, StillLive
<1>11. Counted'
  BY <1>3, <1>4, <1>5, <1>6, <1>7, <1>8, <1>9, <1>10, NextSplit
<1> QED
  BY <1>11 DEF InFlightExact, LiveConns

\* The three parts together are inductive.
LEMMA IInvInvariant == Spec => []IInv
<1>1. IInv /\ [Next]_vars => IInv'
  BY TypeStep, TerminalStep, InFlightStep DEF IInv
<1> QED
  BY InitIInv, <1>1, PTL DEF Spec

\* Every variable keeps its type, through any number of crashes and restarts,
\* and the replay memory stays coherent: its set and its queue agree.
THEOREM TypeCorrect == Spec => [](TypeOK /\ Coherent(seen))
<1>1. IInv => TypeOK /\ Coherent(seen)
  BY DEF IInv, TypeInv
<1> QED
  BY IInvInvariant, <1>1, PTL

\* The terminal has one user at a time, for any number of handlers: no prompt is
\* ever open while a child owns the terminal's foreground, no child owns it
\* without its handler's guard, and no handler ends holding the lock.
THEOREM TerminalIsExclusive == Spec => []TerminalExclusive
<1>1. IInv => TerminalExclusive
  BY DaemonConstants DEF IInv, TypeInv, TypeOK, TerminalInv, TerminalExclusive
<1> QED
  BY IInvInvariant, <1>1, PTL

\* The counter behind the cap is exact and the cap is never passed, however the
\* handlers end.
THEOREM InFlightIsExact == Spec => []InFlightExact
<1>1. IInv => InFlightExact
  BY DEF IInv
<1> QED
  BY IInvInvariant, <1>1, PTL

-----------------------------------------------------------------------------
(* Consent, for every number of connections, any set of requests, any        *)
(* configuration and any number of restarts.                                 *)

\* The consent that covers c, as ConsentRespected asks for it.
Entitled(c) ==
    IF req[c].privileged
    THEN key[c] = "y" \/ (key[c] = "unasked" /\ config[born[c]].pkexec)
    ELSE key[c] \in {"y", "a"} \/ (key[c] = "unasked" /\ SessionConsent(born[c]))

\* Where a handler has not been given a verdict yet.
Undecided == {"idle", "backlog", "reading", "insert", "stopping", "stopped",
              "dispatch", "wantPrompt", "prompting"}

\* Consent comes before the child (a handler about to spawn already has it), and
\* belongs to the daemon that runs: its handlers were born in its life, and a
\* daemon that is down holds no grant for the next one to find.
ConsentInv ==
    /\ \A c \in Conn : pc[c] \in Undecided => key[c] = "unasked" /\ child[c] = "none"
    /\ \A c \in Conn : pc[c] = "spawn" \/ Ran(c) => Entitled(c)
    /\ \A c \in Conn : pc[c] \in Live \cup {"backlog"} => born[c] = life /\ phase # "down"
    /\ \A c \in Conn : born[c] <= life
    /\ grant => SessionConsent(life)
    /\ phase = "down" => ~ grant

\* Nobody has run anything before the first daemon is started.
LEMMA InitConsent == Init => ConsentInv
<1> SUFFICES ASSUME Init PROVE ConsentInv
  OBVIOUS
<1> QED
  BY DEF Init, ConsentInv, Live, AtTerminal, Executing, Ran

\* What a step leaves alone: the past of every connection.  Requests and lives
\* are fixed at connect, keys when they are read, configurations at start.
PastKept ==
    /\ \A l \in 0..life : config'[l] = config[l]
    /\ life <= life'
    /\ grant' => life' = life
    /\ \A c \in Conn : pc[c] # "idle" => req'[c] = req[c] /\ born'[c] = born[c]
    /\ \A c \in Conn : key[c] # "unasked" => key'[c] = key[c]
    /\ \A c \in Conn : pc[c] = "spawn" \/ Ran(c) => key'[c] = key[c]
    /\ \A c \in Conn : Ran(c)' => Ran(c) \/ pc[c] = "spawn"

\* No step rewrites it.
LEMMA StepKeepsPast ==
    ASSUME TypeInv, ConsentInv, [Next]_vars
    PROVE  PastKept
<1> USE DaemonConstants
    DEF TypeInv, TypeOK, PastKept, Ran, Goto, Settle, vars, daemonVars, connVars
<1>1. CASE Start
  BY <1>1 DEF Start, ConsentInv
<1>2. CASE Tick \/ LoopReturn \/ UNCHANGED vars
  BY <1>2 DEF Tick, LoopReturn
<1>3. ASSUME ProcessGone PROVE PastKept
  BY <1>3 DEF ProcessGone
<1>4. ASSUME NEW c \in Conn, NEW r \in Requests, Connect(c, r) PROVE PastKept
  BY <1>4 DEF Connect
<1>5. ASSUME NEW c \in Conn, Accept(c) PROVE PastKept
  BY <1>5 DEF Accept
<1>6. ASSUME NEW c \in Conn, Read(c) PROVE PastKept
  BY <1>6 DEF Read
<1>7. ASSUME NEW c \in Conn, Insert(c) PROVE PastKept
  BY <1>7, InsertSplit DEF InsertAnswers
<1>8. ASSUME NEW c \in Conn, StopReply(c) PROVE PastKept
  BY <1>8 DEF StopReply
<1>9. ASSUME NEW c \in Conn, StopFlag(c) PROVE PastKept
  BY <1>9 DEF StopFlag
<1>10. ASSUME NEW c \in Conn, Dispatch(c) PROVE PastKept
  BY <1>10 DEF Dispatch
<1>11. ASSUME NEW c \in Conn, BeginPrompt(c) PROVE PastKept
  BY <1>11 DEF BeginPrompt
<1>12. ASSUME NEW c \in Conn, Decide(c) PROVE PastKept
  BY <1>12 DEF Decide
<1>13. ASSUME NEW c \in Conn, TakeForeground(c) PROVE PastKept
  BY <1>13 DEF TakeForeground
<1>14. ASSUME NEW c \in Conn, Reap(c) PROVE PastKept
  BY <1>14 DEF Reap
<1>15. ASSUME NEW c \in Conn, Drained(c) PROVE PastKept
  BY <1>15 DEF Drained
<1>16. ASSUME NEW c \in Conn, Display(c) PROVE PastKept
  BY <1>16 DEF Display
<1>17. ASSUME NEW c \in Conn, Finish(c) PROVE PastKept
  BY <1>17 DEF Finish
<1>18. ASSUME NEW c \in Conn, Spawn(c) PROVE PastKept
  BY <1>18 DEF Spawn
<1>19. ASSUME NEW c \in Conn, ExecTimeout(c) PROVE PastKept
  BY <1>19 DEF ExecTimeout
<1>20. ASSUME NEW c \in Conn, Panic(c) PROVE PastKept
  BY <1>20 DEF Panic
<1>21. ASSUME NEW c \in Conn, ChildExits(c) PROVE PastKept
  BY <1>21 DEF ChildExits
<1>22. ASSUME NEW c \in Conn, EndPrompt(c) PROVE PastKept
  BY <1>22 DEF EndPrompt, ConsentInv, Undecided
<1> QED
  BY <1>1, <1>2, <1>3, <1>4, <1>5, <1>6, <1>7, <1>8, <1>9, <1>10, <1>11, <1>12, <1>13, <1>14, <1>15, <1>16, <1>17, <1>18, <1>19, <1>20, <1>21, <1>22
     DEF Next, Loop, Handler, Exit, Kill

\* The conjuncts of ConsentInv that do not speak of consent.
Placed ==
    /\ \A c \in Conn : pc[c] \in Undecided => key[c] = "unasked" /\ child[c] = "none"
    /\ \A c \in Conn : pc[c] \in Live \cup {"backlog"} => born[c] = life /\ phase # "down"
    /\ \A c \in Conn : born[c] <= life
    /\ phase = "down" => ~ grant

\* They are inductive by themselves.
LEMMA PlacedStep ==
    ASSUME TypeInv, Placed, [Next]_vars
    PROVE  Placed'
<1> USE DaemonConstants
    DEF TypeInv, TypeOK, Placed, Undecided, Live, AtTerminal, Executing, Goto, Settle,
        vars, daemonVars, loopVars, connVars
<1>1. CASE Start
  BY <1>1 DEF Start
<1>2. CASE Tick \/ UNCHANGED vars
  BY <1>2 DEF Tick
<1>3. CASE LoopReturn
  BY <1>3 DEF LoopReturn
<1>4. ASSUME ProcessGone PROVE Placed'
  BY <1>4 DEF ProcessGone
<1>5. ASSUME NEW c \in Conn, NEW r \in Requests, Connect(c, r) PROVE Placed'
  BY <1>5 DEF Connect
<1>6. ASSUME NEW c \in Conn, Accept(c) PROVE Placed'
  BY <1>6 DEF Accept
<1>7. ASSUME NEW c \in Conn, Read(c) PROVE Placed'
  BY <1>7 DEF Read
<1>8. ASSUME NEW c \in Conn, Insert(c) PROVE Placed'
  BY <1>8, InsertSplit, SMTT(30) DEF InsertAnswers
<1>9. ASSUME NEW c \in Conn, StopReply(c) PROVE Placed'
  BY <1>9 DEF StopReply
<1>10. ASSUME NEW c \in Conn, StopFlag(c) PROVE Placed'
  BY <1>10 DEF StopFlag
<1>11. ASSUME NEW c \in Conn, Dispatch(c) PROVE Placed'
  BY <1>11 DEF Dispatch
<1>12. ASSUME NEW c \in Conn, BeginPrompt(c) PROVE Placed'
  BY <1>12 DEF BeginPrompt
<1>13. ASSUME NEW c \in Conn, EndPrompt(c) PROVE Placed'
  BY <1>13 DEF EndPrompt
<1>14. ASSUME NEW c \in Conn, Decide(c) PROVE Placed'
  BY <1>14 DEF Decide
<1>15. ASSUME NEW c \in Conn, Spawn(c) PROVE Placed'
  BY <1>15 DEF Spawn
<1>16. ASSUME NEW c \in Conn, TakeForeground(c) PROVE Placed'
  BY <1>16 DEF TakeForeground
<1>17. ASSUME NEW c \in Conn, Reap(c) PROVE Placed'
  BY <1>17 DEF Reap
<1>18. ASSUME NEW c \in Conn, ExecTimeout(c) PROVE Placed'
  BY <1>18 DEF ExecTimeout
<1>19. ASSUME NEW c \in Conn, Drained(c) PROVE Placed'
  BY <1>19 DEF Drained
<1>20. ASSUME NEW c \in Conn, Display(c) PROVE Placed'
  BY <1>20 DEF Display
<1>21. ASSUME NEW c \in Conn, Finish(c) PROVE Placed'
  BY <1>21 DEF Finish
<1>22. ASSUME NEW c \in Conn, Panic(c) PROVE Placed'
  BY <1>22 DEF Panic
<1>23. ASSUME NEW c \in Conn, ChildExits(c) PROVE Placed'
  BY <1>23 DEF ChildExits
<1> QED
  BY <1>1, <1>2, <1>3, <1>4, <1>5, <1>6, <1>7, <1>8, <1>9, <1>10, <1>11, <1>12, <1>13, <1>14, <1>15, <1>16, <1>17, <1>18, <1>19, <1>20, <1>21, <1>22, <1>23
     DEF Next, Loop, Handler, Exit, Kill

\* Only the dispatch and the match on a prompt's result lead to a spawn, and
\* only the latter gives the session its grant.
WhoDecides ==
    /\ \A c \in Conn : pc'[c] = "spawn" /\ pc[c] # "spawn" => Dispatch(c) \/ Decide(c)
    /\ grant' => grant \/ \E c \in Conn : Decide(c)

\* Read off the actions.
LEMMA OnlyDecisions ==
    ASSUME TypeInv, [Next]_vars
    PROVE  WhoDecides
<1> USE DaemonConstants DEF TypeInv, TypeOK, WhoDecides, Goto, Settle, vars
<1>1. CASE Start \/ Tick \/ LoopReturn \/ UNCHANGED vars
  BY <1>1 DEF Start, Tick, LoopReturn
<1>2. ASSUME ProcessGone PROVE WhoDecides
  BY <1>2 DEF ProcessGone
<1>3. ASSUME NEW c \in Conn, NEW r \in Requests, Connect(c, r) PROVE WhoDecides
  BY <1>3 DEF Connect
<1>4. ASSUME NEW c \in Conn, Accept(c) PROVE WhoDecides
  BY <1>4 DEF Accept
<1>5. ASSUME NEW c \in Conn, Read(c) PROVE WhoDecides
  BY <1>5 DEF Read
<1>6. ASSUME NEW c \in Conn, Insert(c) PROVE WhoDecides
  BY <1>6, InsertSplit DEF InsertAnswers
<1>7. ASSUME NEW c \in Conn, StopReply(c) PROVE WhoDecides
  BY <1>7 DEF StopReply
<1>8. ASSUME NEW c \in Conn, StopFlag(c) PROVE WhoDecides
  BY <1>8 DEF StopFlag
<1>9. ASSUME NEW c \in Conn, Dispatch(c) PROVE WhoDecides
  <2>1. \A d \in Conn \ {c} : pc'[d] = pc[d]
    BY <1>9 DEF Dispatch
  <2> QED
    BY <1>9, <2>1 DEF Dispatch
<1>10. ASSUME NEW c \in Conn, BeginPrompt(c) PROVE WhoDecides
  BY <1>10 DEF BeginPrompt
<1>11. ASSUME NEW c \in Conn, EndPrompt(c) PROVE WhoDecides
  BY <1>11 DEF EndPrompt
<1>12. ASSUME NEW c \in Conn, Decide(c) PROVE WhoDecides
  <2>1. \A d \in Conn \ {c} : pc'[d] = pc[d]
    BY <1>12 DEF Decide
  <2> QED
    BY <1>12, <2>1
<1>13. ASSUME NEW c \in Conn, Spawn(c) PROVE WhoDecides
  BY <1>13 DEF Spawn
<1>14. ASSUME NEW c \in Conn, TakeForeground(c) PROVE WhoDecides
  BY <1>14 DEF TakeForeground
<1>15. ASSUME NEW c \in Conn, Reap(c) PROVE WhoDecides
  BY <1>15 DEF Reap
<1>16. ASSUME NEW c \in Conn, ExecTimeout(c) PROVE WhoDecides
  BY <1>16 DEF ExecTimeout
<1>17. ASSUME NEW c \in Conn, Drained(c) PROVE WhoDecides
  BY <1>17 DEF Drained
<1>18. ASSUME NEW c \in Conn, Display(c) PROVE WhoDecides
  BY <1>18 DEF Display
<1>19. ASSUME NEW c \in Conn, Finish(c) PROVE WhoDecides
  BY <1>19 DEF Finish
<1>20. ASSUME NEW c \in Conn, Panic(c) PROVE WhoDecides
  BY <1>20 DEF Panic
<1>21. ASSUME NEW c \in Conn, ChildExits(c) PROVE WhoDecides
  BY <1>21 DEF ChildExits
<1> QED
  BY <1>1, <1>2, <1>3, <1>4, <1>5, <1>6, <1>7, <1>8, <1>9, <1>10, <1>11, <1>12, <1>13, <1>14, <1>15, <1>16, <1>17, <1>18, <1>19, <1>20, <1>21
     DEF Next, Loop, Handler, Exit, Kill

\* Consent once given to a session is not taken back from it.
LEMMA ConsentStays ==
    ASSUME TypeInv, ConsentInv, PastKept, NEW l \in 0..life, SessionConsent(l)
    PROVE  SessionConsent(l)'
<1>1. PICK d \in Conn : born[d] = l /\ key[d] = "a" /\ ~ req[d].privileged
  BY DEF SessionConsent
<1>2. pc[d] # "idle"
  BY <1>1 DEF ConsentInv, Undecided
<1>3. born'[d] = l /\ key'[d] = "a" /\ ~ req'[d].privileged
  BY <1>1, <1>2 DEF PastKept
<1>4. config'[l].eligible
  BY DEF PastKept, SessionConsent
<1> QED
  BY <1>3, <1>4 DEF SessionConsent

\* So a command covered once stays covered.
LEMMA EntitledStays ==
    ASSUME TypeInv, ConsentInv, PastKept, NEW c \in Conn,
           pc[c] = "spawn" \/ Ran(c), Entitled(c)
    PROVE  Entitled(c)'
<1>1. pc[c] # "idle" /\ born[c] \in 0..life
  BY DaemonConstants DEF ConsentInv, Undecided, Ran, TypeInv, TypeOK
<1>2. /\ req'[c] = req[c] /\ born'[c] = born[c] /\ key'[c] = key[c]
      /\ config'[born[c]] = config[born[c]]
  BY <1>1 DEF PastKept
<1>3. PICK l \in 0..life : l = born[c]
  BY <1>1
<1>4. SessionConsent(l) => SessionConsent(l)'
  BY ConsentStays
<1>5. SessionConsent(born[c]) => SessionConsent(born[c])'
  BY <1>2, <1>3, <1>4 DEF SessionConsent
<1> QED
  BY <1>2, <1>5 DEF Entitled

\* A grant is the consent of the life it was given in.
LEMMA GrantStep ==
    ASSUME TypeInv, ConsentInv, [Next]_vars, PastKept, WhoDecides
    PROVE  (grant => SessionConsent(life))'
<1> SUFFICES ASSUME grant' PROVE SessionConsent(life)'
  OBVIOUS
<1>1. PICK l \in 0..life : l = life /\ life' = l
  BY DaemonConstants DEF PastKept, TypeInv, TypeOK
<1>2. SessionConsent(l)'
  <2>1. CASE grant
    BY <2>1, <1>1, ConsentStays DEF ConsentInv
  <2>2. CASE ~ grant
    <3>1. PICK c \in Conn : Decide(c) /\ ~ grant
      BY <2>2 DEF WhoDecides
    <3>2. /\ key[c] = "a" /\ ~ req[c].privileged
          /\ config[l].eligible /\ born[c] = l
      BY <1>1, <3>1 DEF Decide, PromptResult, Cfg, ConsentInv, Live, AtTerminal
    <3>3. SessionConsent(l)
      BY <3>2 DEF SessionConsent
    <3> QED
      BY <3>3, ConsentStays
  <2> QED
    BY <2>1, <2>2
<1> QED
  BY <1>1, <1>2 DEF SessionConsent

\* A handler reaches "spawn" entitled: dispatched unasked under pkexec or a
\* grant, or decided after a key that approves.
LEMMA EntitledStep ==
    ASSUME TypeInv, ConsentInv, [Next]_vars, PastKept, WhoDecides,
           NEW c \in Conn, pc'[c] = "spawn" \/ Ran(c)'
    PROVE  Entitled(c)'
<1>1. CASE pc[c] = "spawn" \/ Ran(c)
  BY <1>1, EntitledStays DEF ConsentInv
<1>2. CASE ~ (pc[c] = "spawn" \/ Ran(c))
  <2>1. Dispatch(c) \/ Decide(c)
    BY <1>2 DEF PastKept, WhoDecides
  <2>2. /\ req' = req /\ born' = born /\ key' = key /\ config' = config
        /\ pc'[c] = "spawn"
    BY <1>2, <2>1 DEF Dispatch, Decide, daemonVars, connVars, PastKept
  <2>3. PICK l \in 0..life : l = life /\ born[c] = l
    <3>1. pc[c] \in Live
      BY <2>1 DEF Dispatch, Decide, Live, AtTerminal
    <3>2. born[c] = life
      BY <3>1 DEF ConsentInv
    <3>3. life \in 0..life
      BY DaemonConstants DEF TypeInv, TypeOK
    <3> QED
      BY <3>2, <3>3
  <2>4. CASE Dispatch(c)
    <3>1. key[c] = "unasked"
      BY <2>4 DEF Dispatch, ConsentInv, Undecided
    <3>2. IF req[c].privileged THEN config[l].pkexec ELSE grant
      BY <2>2, <2>3, <2>4 DEF Dispatch, Goto, Cfg, TypeInv, TypeOK
    <3>3. ~ req[c].privileged => SessionConsent(l)
      BY <2>3, <3>2 DEF ConsentInv
    <3>4. ~ req[c].privileged => SessionConsent(l)'
      BY <3>3, ConsentStays
    <3> QED
      BY <2>2, <2>3, <3>1, <3>2, <3>4 DEF Entitled, SessionConsent
  <2>5. CASE Decide(c)
    <3>1. IF req[c].privileged THEN key[c] = "y" ELSE key[c] \in {"y", "a"}
      BY <2>2, <2>5 DEF Decide, Goto, Settle, PromptResult, TypeInv, TypeOK
    <3> QED
      BY <2>2, <3>1 DEF Entitled
  <2> QED
    BY <2>1, <2>4, <2>5
<1> QED
  BY <1>1, <1>2

\* The parts together.
LEMMA ConsentStep ==
    ASSUME TypeInv, ConsentInv, [Next]_vars
    PROVE  ConsentInv'
<1>1. PastKept /\ WhoDecides
  BY StepKeepsPast, OnlyDecisions
<1>2. Placed'
  BY PlacedStep DEF ConsentInv, Placed
<1>3. \A c \in Conn : (pc[c] = "spawn" \/ Ran(c))' => Entitled(c)'
  BY <1>1, EntitledStep
<1>4. (grant => SessionConsent(life))'
  BY <1>1, GrantStep
<1> QED
  BY <1>2, <1>3, <1>4 DEF ConsentInv, Placed

\* No command is executed without the consent that covers it, by any daemon of
\* any number started one after the other, whatever clients resend and however
\* handlers, prompts, panics and crashes interleave; and a grant never outlives
\* the session it was given to.
THEOREM ConsentIsRespected == Spec => []ConsentRespected
<1>1. TypeInv /\ ConsentInv /\ [Next]_vars => ConsentInv'
  BY ConsentStep
<1>2. IInv => TypeInv
  BY DEF IInv
<1>3. ConsentInv => ConsentRespected
  BY DEF ConsentInv, ConsentRespected, Entitled
<1> QED
  BY InitConsent, IInvInvariant, <1>1, <1>2, <1>3, PTL DEF Spec
=============================================================================

---------------------------- MODULE McpClientProofs ----------------------------
(***************************************************************************)
(* The safety properties of McpClient, and with it of SocketPath, for any  *)
(* number of processes and of tool calls.                                  *)
(***************************************************************************)
EXTENDS McpClient, TLAPS

\* A process that has served or has failed to does not listen again.
Past(d) == server[d] \in {"failed", "returned", "dead"}

\* Who may own the path, and what a daemon knows of the path it will remove.
PathInv ==
    /\ kind = "tunnel" =>
          \A d \in Server : server[d] \in {"off", "clear", "exec", "serving", "dead"}
    /\ path \in Server => Listening(path) \/ Past(path)
    /\ \A d \in Server :
          server[d] \notin {"refused", "dead"} /\ look[d] \in Server => Past(look[d])
    /\ \A d, e \in Server : far[d] /\ far[e] => d = e
    /\ ReachableUnlessRaced

\* A stop request was answered and its caller waits for the daemon to go.
AfterStop(k) == tool[k] = "stop" /\ phase[k] # "first"

\* The request is on its way or in a handler's hands.
InHand(k) == task[k] \in {"sent", "deciding", "running"}

\* Where a call is shows what has become of its request.
CourseOf(k) ==
    /\ ~ timed[k] => MayWaitForever(k)
    /\ phase[k] # "first" => tool[k] \in {"start", "stop"}
    /\ at[k] = "spawn" => tool[k] = "start"
    /\ at[k] = "remove" => tool[k] \in {"start", "stop"}
    /\ AfterStop(k) => task[k] = "ok" /\ at[k] \in {"check", "probe", "quiet", "remove", "done"}
    /\ task[k] # "none" => AfterStop(k) \/ at[k] \in {"read", "done"}
    /\ at[k] = "quiet" => peer[k] \in Server
    /\ InHand(k) => peer[k] \in Server /\ conn[k] \in Server
    /\ told[k] \in {"ok", "error"} => task[k] \in {"ok", "error", "none"}
    /\ told[k] \in {"not running", "stale", "unreachable"} => task[k] = "none"
    /\ told[k] = "broken" => task[k] = "reset"
    /\ told[k] \in {"started", "already"} =>
          peer[k] \in Server /\ conn[k] \in Server /\ (kind = "local" => conn[k] = peer[k])

\* Who has taken a request, and who may still run it.
SeenOf(k) ==
    /\ \A d \in Server : runs[k][d] > 0 => k \in seen[d] /\ runs[k][d] = 1
    /\ \A d \in Server : <<k, d>> \in left => k \in seen[d] /\ runs[k][d] = 0
    /\ task[k] \in {"deciding", "running"} => k \in seen[conn[k]]
    /\ task[k] = "deciding" => runs[k][conn[k]] = 0 /\ <<k, conn[k]>> \notin left
    /\ ~ resent[k] =>
          /\ task[k] \in {"none", "sent", "reset"} => \A d \in Server : k \notin seen[d]
          /\ \A d, e \in Server : k \in seen[d] /\ k \in seen[e] => d = e
          /\ \A d \in Server : <<k, d>> \in left => task[k] = "eof"

\* Through a tunnel a request is in somebody's hands only while both ends live.
LinkOf(k) ==
    kind = "tunnel" /\ InHand(k) => server[peer[k]] = "serving" /\ far[conn[k]]

CallInv == \A k \in Call : CourseOf(k) /\ SeenOf(k) /\ LinkOf(k)

\* The inductive invariant.
IInv == TypeOK /\ PathInv /\ CallInv

-----------------------------------------------------------------------------
(* The path.                                                               *)

\* What a process can do to the path.
PathAction(d) ==
    Start(d) \/ ServerStep(d) \/ FarBinds(d) \/ Signal(d) \/ Kill(d) \/ StopServing(d)

\* A call leaves the path alone, starts a process or removes the path.
LEMMA PathChange ==
    ASSUME [Next]_vars
    PROVE  \/ UNCHANGED pathVars
           \/ \E d \in Server : PathAction(d)
           \/ Remove({}) /\ UNCHANGED <<kind, server, far, look>>
<1> USE DEF pathVars
<1>1. CASE PathMoves
  BY <1>1 DEF PathMoves, PathAction
<1>2. ASSUME NEW k \in Call, Begin(k) \/ ClientStep(k)
      PROVE  \/ UNCHANGED pathVars
             \/ \E d \in Server : Start(d)
             \/ Remove({}) /\ UNCHANGED <<kind, server, far, look>>
  BY <1>2 DEF Begin, ClientStep, Absent, AbsentInLoop, Present, LoopEnds, Spawn, NoTerminal,
              Probe1, Probe2, ProbeBusy, RemovePath, Connect, ConnectFails, ReadAnswer,
              ReadReset, Resend, GiveUp, ReadTimesOut
<1>3. ASSUME NEW k \in Call, HandlerStep(k) PROVE UNCHANGED pathVars
  BY <1>3 DEF HandlerStep, Busy, Duplicate, Take, Decide, Finish, Panic, DecideLeft
<1>4. CASE UNCHANGED vars
  BY <1>4 DEF vars
<1> QED
  BY <1>1, <1>2, <1>3, <1>4 DEF Next, PathAction

\* Every forward leads to one of the processes, or to none.
LEMMA BehindType ==
    ASSUME NEW d \in Server
    PROVE  /\ Behind(d) \in Server \cup {Nobody}
           /\ kind = "local" => Behind(d) = d
           /\ kind # "local" /\ Behind(d) # Nobody => far[Behind(d)]
           /\ kind # "local" => \A e \in Server :
                 far[e] /\ (\A x, y \in Server : far[x] /\ far[y] => x = y) => Behind(d) = e
  BY ServerConstants DEF Behind

\* Every step of a process keeps the types of the path's variables.
LEMMA PathTypeStep ==
    ASSUME PathTypeOK, NEW d \in Server, PathAction(d)
    PROVE  PathTypeOK'
<1> USE ServerConstants DEF PathTypeOK, Places, Goto, Sees, Remove, Connectable
<1>1. CASE Start(d)
  BY <1>1 DEF Start
<1>2. CASE Bind(d)
  BY <1>2 DEF Bind
<1>3. CASE Probe(d)
  BY <1>3 DEF Probe
<1>4. CASE Unlink(d)
  BY <1>4 DEF Unlink
<1>5. CASE Rebind(d)
  BY <1>5 DEF Rebind
<1>6. CASE Chmod(d)
  BY <1>6 DEF Chmod
<1>7. CASE Cleanup(d)
  BY <1>7 DEF Cleanup
<1>8. CASE Exit(d)
  BY <1>8 DEF Exit
<1>9. CASE Clear(d)
  BY <1>9 DEF Clear
<1>10. CASE ForwardBinds(d)
  BY <1>10 DEF ForwardBinds
<1>11. CASE FarBinds(d)
  BY <1>11, ZenonT(60) DEF FarBinds
<1>12. CASE Signal(d)
  BY <1>12 DEF Signal
<1>13. CASE Kill(d)
  BY <1>13, ZenonT(60) DEF Kill
<1>14. CASE StopServing(d)
  BY <1>14 DEF StopServing
<1> QED
  BY <1>1, <1>2, <1>3, <1>4, <1>5, <1>6, <1>7, <1>8, <1>9, <1>10, <1>11, <1>12, <1>13,
     <1>14
     DEF PathAction, ServerStep

\* Every step of a process keeps the order of its life and its own path.
LEMMA PathInvStep ==
    ASSUME PathTypeOK, PathInv, NEW d \in Server, PathAction(d)
    PROVE  PathInv'
<1> USE ServerConstants
    DEF PathTypeOK, PathInv, Places, Past, Goto, Sees, Remove, Connectable, Listening, Open,
        ReachableUnlessRaced
<1>1. CASE Start(d)
  BY <1>1 DEF Start
<1>2. CASE Bind(d)
  BY <1>2 DEF Bind
<1>3. CASE Probe(d)
  BY <1>3 DEF Probe
<1>4. CASE Unlink(d)
  BY <1>4 DEF Unlink
<1>5. CASE Rebind(d)
  BY <1>5 DEF Rebind
<1>6. CASE Chmod(d)
  BY <1>6 DEF Chmod
<1>7. CASE Cleanup(d)
  BY <1>7 DEF Cleanup
<1>8. CASE Exit(d)
  BY <1>8 DEF Exit
<1>9. CASE Clear(d)
  BY <1>9 DEF Clear
<1>10. CASE ForwardBinds(d)
  BY <1>10 DEF ForwardBinds
<1>11. CASE FarBinds(d)
  BY <1>11 DEF FarBinds
<1>12. CASE Signal(d)
  BY <1>12 DEF Signal
<1>13. CASE Kill(d)
  <2>1. server' = [server EXCEPT ![d] = "dead"] /\ UNCHANGED <<kind, path, look, victims>>
    BY <1>13 DEF Kill
  <2>2. \A e \in Server : far'[e] => far[e]
    <3>1. PICK stays \in {FALSE, far[d]} : far' = [far EXCEPT ![d] = stays]
      BY <1>13 DEF Kill
    <3> QED
      BY <3>1
  <2>3. \A e \in Server : server'[e] = IF e = d THEN "dead" ELSE server[e]
    BY <2>1
  <2> QED
    BY <2>1, <2>2, <2>3
<1>14. CASE StopServing(d)
  BY <1>14 DEF StopServing, Serving
<1> QED
  BY <1>1, <1>2, <1>3, <1>4, <1>5, <1>6, <1>7, <1>8, <1>9, <1>10, <1>11, <1>12, <1>13,
     <1>14
     DEF PathAction, ServerStep

\* So does a path removed by name.
LEMMA PathRemoved ==
    ASSUME PathTypeOK, PathInv, Remove({}), UNCHANGED <<kind, server, far, look>>
    PROVE  PathTypeOK' /\ PathInv'
  BY ServerConstants DEF PathTypeOK, PathInv, Past, Remove, Connectable, Listening, Open,
                         ReachableUnlessRaced

\* The path's invariant, whoever takes the step.
LEMMA PathStep ==
    ASSUME PathTypeOK, PathInv, [Next]_vars
    PROVE  PathTypeOK' /\ PathInv'
<1>1. CASE UNCHANGED pathVars
  BY <1>1 DEF pathVars, PathTypeOK, PathInv, Past, Listening, ReachableUnlessRaced
<1> QED
  BY <1>1, PathChange, PathTypeStep, PathInvStep, PathRemoved

-----------------------------------------------------------------------------
(* The calls.                                                              *)

\* A step that does nothing to the call k or to its request.
Untouched(k) ==
    /\ tool'[k] = tool[k] /\ timed'[k] = timed[k] /\ at'[k] = at[k] /\ phase'[k] = phase[k]
    /\ peer'[k] = peer[k] /\ conn'[k] = conn[k] /\ resent'[k] = resent[k]
    /\ told'[k] = told[k] /\ task'[k] = task[k]
    /\ \A d \in Server : /\ k \in seen'[d] <=> k \in seen[d]
                         /\ <<k, d>> \in left' <=> <<k, d>> \in left
                         /\ runs'[k][d] = runs[k][d]

\* A call's own steps do nothing to the others.
LEMMA OtherCalls ==
    ASSUME TypeOK, NEW c \in Call, Begin(c) \/ ClientStep(c) \/ HandlerStep(c),
           NEW k \in Call \ {c}
    PROVE  Untouched(k)
<1> USE DEF TypeOK, Untouched, AtPlace, Done, Answer, Phase, AfterProbe, callVars, taskVars
<1>1. CASE Begin(c)
  BY <1>1 DEF Begin
<1>2. CASE Absent(c)
  BY <1>2, ZenonT(120) DEF Absent
<1>3. CASE AbsentInLoop(c)
  BY <1>3 DEF AbsentInLoop
<1>4. CASE Present(c)
  BY <1>4 DEF Present
<1>5. CASE LoopEnds(c)
  BY <1>5, ZenonT(60) DEF LoopEnds
<1>6. CASE Spawn(c)
  BY <1>6 DEF Spawn
<1>7. CASE NoTerminal(c)
  BY <1>7 DEF NoTerminal
<1>8. CASE Probe1(c)
  BY <1>8, ZenonT(60) DEF Probe1
<1>9. CASE Probe2(c)
  BY <1>9, ZenonT(120) DEF Probe2
<1>10. CASE ProbeBusy(c)
  BY <1>10, ZenonT(120) DEF ProbeBusy
<1>11. CASE RemovePath(c)
  BY <1>11, ZenonT(60) DEF RemovePath
<1>12. CASE Connect(c)
  BY <1>12 DEF Connect
<1>13. CASE ConnectFails(c)
  BY <1>13 DEF ConnectFails
<1>14. CASE ReadAnswer(c)
  BY <1>14, ZenonT(60) DEF ReadAnswer
<1>15. CASE ReadReset(c)
  BY <1>15 DEF ReadReset
<1>16. CASE Resend(c)
  BY <1>16 DEF Resend
<1>17. CASE GiveUp(c)
  BY <1>17 DEF GiveUp
<1>18. CASE ReadTimesOut(c)
  BY <1>18 DEF ReadTimesOut
<1>19. CASE Busy(c)
  BY <1>19 DEF Busy
<1>20. CASE Duplicate(c)
  BY <1>20 DEF Duplicate
<1>21. CASE Take(c)
  BY <1>21, ZenonT(60) DEF Take
<1>22. CASE Decide(c)
  BY <1>22, ZenonT(60) DEF Decide
<1>23. CASE Finish(c)
  BY <1>23, ZenonT(60) DEF Finish, Answer
<1>24. CASE Panic(c)
  BY <1>24 DEF Panic
<1>25. ASSUME NEW d \in Server, DecideLeft(c, d) PROVE Untouched(k)
  BY <1>25 DEF DecideLeft
<1> QED
  BY <1>1, <1>2, <1>3, <1>4, <1>5, <1>6, <1>7, <1>8, <1>9, <1>10, <1>11, <1>12, <1>13,
     <1>14, <1>15, <1>16, <1>17, <1>18, <1>19, <1>20, <1>21, <1>22, <1>23, <1>24, <1>25
     DEF ClientStep, HandlerStep

\* What becomes of a request when a process of the path moves.
LEMMA FateOf ==
    ASSUME IInv, PathMoves, NEW k \in Call
    PROVE  /\ task[k] = "sent" =>
                 task'[k] \in FatesOfSent(k) /\ task'[k] \in {"sent", "reset", "eof"}
           /\ task[k] \in {"deciding", "running"} =>
                 task'[k] = IF Cut(k) THEN "eof" ELSE task[k]
           /\ ~ InHand(k) => task'[k] = task[k]
           /\ \A d \in Server :
                 <<k, d>> \in left' <=>
                    \/ <<k, d>> \in left
                    \/ task[k] = "deciding" /\ task'[k] = "eof" /\ d = conn[k] /\ far'[d]
<1> USE DEF InHand
<1>1. PICK fate \in [Sent -> {"sent", "reset", "eof"}] :
         /\ \A j \in Sent : fate[j] \in FatesOfSent(j)
         /\ task' = [j \in Call |->
                IF j \in Sent THEN fate[j]
                ELSE IF task[j] \in {"deciding", "running"} /\ Cut(j) THEN "eof"
                ELSE task[j]]
  BY DEF PathMoves, Fates
<1>2. k \in Sent <=> task[k] = "sent"
  BY DEF Sent
<1>3. task'[k] = IF k \in Sent THEN fate[k]
                 ELSE IF task[k] \in {"deciding", "running"} /\ Cut(k) THEN "eof"
                 ELSE task[k]
  BY <1>1
<1>4. left' = left \cup {<<j, conn[j]>> : j \in
            {j \in Call : task[j] = "deciding" /\ task'[j] = "eof" /\ far'[conn[j]]}}
  BY DEF PathMoves, Fates
<1> QED
  BY <1>1, <1>2, <1>3, <1>4, SMTT(30)

\* What a call is told, and whether it waits for an answer, at its place.
PlaceOf(k) ==
    /\ told[k] # "" <=> at[k] = "done"
    /\ at[k] = "read" => task[k] # "none" /\ peer[k] \in Server
    /\ at[k] = "connect" => task[k] = "none"

\* The types of the calls' and the daemons' variables.
Typed ==
    /\ timed \in [Call -> BOOLEAN]
    /\ at \in [Call -> {"idle", "check", "probe", "quiet", "remove", "spawn",
                        "connect", "read", "done"}]
    /\ phase \in [Call -> {"first", "loop", "final"}]
    /\ resent \in [Call -> BOOLEAN]
    /\ peer \in [Call -> Server \cup {Nobody}]
    /\ conn \in [Call -> Server \cup {Nobody}]
    /\ task \in [Call -> {"none", "sent", "deciding", "running",
                          "ok", "error", "eof", "reset"}]
    /\ left \subseteq Call \X Server
    /\ seen \in [Server -> SUBSET Call] /\ stopping \subseteq Server
    /\ runs \in [Call -> [Server -> Nat]]
    /\ told \in [Call -> {"", "not running", "stale", "ok", "error", "unreachable",
                          "broken", "closed", "timeout", "started", "already",
                          "not ready", "stopped"}]

\* The parts of the type invariant.
LEMMA TypeParts ==
    TypeOK <=> /\ PathTypeOK /\ Typed
               /\ \A k \in Call : tool[k] \in Tools[k] /\ PlaceOf(k)
  BY DEF TypeOK, Typed, PlaceOf

\* One more run, of one request at one daemon.
LEMMA OneMoreRun ==
    ASSUME runs \in [Call -> [Server -> Nat]], NEW c \in Call, NEW d \in Server,
           runs' = [runs EXCEPT ![c][d] = @ + 1]
    PROVE  /\ runs' \in [Call -> [Server -> Nat]]
           /\ runs'[c][d] = runs[c][d] + 1
           /\ \A e \in Server \ {d} : runs'[c][e] = runs[c][e]
           /\ \A k \in Call \ {c} : runs'[k] = runs[k]
<1> DEFINE row == [runs[c] EXCEPT ![d] = @ + 1]
<1>1. runs[c] \in [Server -> Nat]
  OBVIOUS
<1>2. row \in [Server -> Nat] /\ row[d] = runs[c][d] + 1
      /\ \A e \in Server \ {d} : row[e] = runs[c][e]
  BY <1>1
<1>3. runs' = [runs EXCEPT ![c] = row]
  OBVIOUS
<1> HIDE DEF row
<1> QED
  BY <1>2, <1>3

\* Where a call goes after a probe.
LEMMA AfterProbeTyped ==
    ASSUME Typed, NEW c \in Call, NEW ready, AfterProbe(c, ready)
    PROVE  /\ at' \in [Call -> {"idle", "check", "probe", "quiet", "remove", "spawn",
                                "connect", "read", "done"}]
           /\ phase' \in [Call -> {"first", "loop", "final"}]
           /\ told' \in [Call -> {"", "not running", "stale", "ok", "error", "unreachable",
                          "broken", "closed", "timeout", "started", "already",
                          "not ready", "stopped"}]
<1>1. /\ \E place \in {"connect", "done", "check", "remove", "spawn"} :
             at' = [at EXCEPT ![c] = place]
      /\ phase' = phase \/ \E which \in {"loop", "final"} : phase' = [phase EXCEPT ![c] = which]
      /\ \/ told' = told
         \/ \E what \in {"stale", "started", "already", "stopped"} :
               told' = [told EXCEPT ![c] = what]
  BY DEF AfterProbe, AtPlace, Done, Phase
<1>2. /\ at \in [Call -> {"idle", "check", "probe", "quiet", "remove", "spawn",
                         "connect", "read", "done"}]
      /\ phase \in [Call -> {"first", "loop", "final"}]
      /\ told \in [Call -> {"", "not running", "stale", "ok", "error", "unreachable",
                           "broken", "closed", "timeout", "started", "already",
                           "not ready", "stopped"}]
  BY DEF Typed
<1>3. at' \in [Call -> {"idle", "check", "probe", "quiet", "remove", "spawn",
                       "connect", "read", "done"}]
  BY <1>1, <1>2
<1>4. phase' \in [Call -> {"first", "loop", "final"}]
  BY <1>1, <1>2
<1>5. told' \in [Call -> {"", "not running", "stale", "ok", "error", "unreachable",
                         "broken", "closed", "timeout", "started", "already",
                         "not ready", "stopped"}]
  BY <1>1, <1>2
<1> QED
  BY <1>3, <1>4, <1>5

\* A call's own steps keep the types.
LEMMA CallTyped ==
    ASSUME IInv, NEW c \in Call, Begin(c) \/ ClientStep(c) \/ HandlerStep(c)
    PROVE  Typed'
<1>base. Typed /\ PathTypeOK /\ CourseOf(c)
  BY TypeParts DEF IInv, CallInv
<1>conn. \A d \in Server : Behind(d) \in Server \cup {Nobody}
  BY BehindType
<1> USE <1>base, <1>conn DEF Typed, AtPlace, Done, Answer, Phase, callVars, taskVars
<1>1. CASE Begin(c)
  BY <1>1 DEF Begin
<1>2. CASE Absent(c)
  <2>1. /\ \E place \in {"done", "spawn"} : at' = [at EXCEPT ![c] = place]
        /\ \/ told' = told
           \/ \E what \in {"not running", "stopped"} : told' = [told EXCEPT ![c] = what]
    BY <1>2 DEF Absent
  <2> QED
    BY <1>2, <2>1, ZenonT(60) DEF Absent
<1>3. CASE AbsentInLoop(c)
  BY <1>3 DEF AbsentInLoop
<1>4. CASE Present(c)
  BY <1>4 DEF Present
<1>5. CASE LoopEnds(c)
  BY <1>5, ZenonT(60) DEF LoopEnds
<1>6. CASE Spawn(c)
  BY <1>6 DEF Spawn
<1>7. CASE NoTerminal(c)
  BY <1>7 DEF NoTerminal
<1>8. CASE Probe1(c)
  <2>1. CASE Connectable
    BY <1>8, <2>1, ZenonT(60) DEF Probe1, Connectable
  <2>2. CASE AfterProbe(c, FALSE) /\ UNCHANGED peer
    BY <1>8, <2>2, AfterProbeTyped DEF Probe1
  <2> QED
    BY <1>8, <2>1, <2>2 DEF Probe1
<1>9. CASE Probe2(c)
  BY <1>9, AfterProbeTyped DEF Probe2, CourseOf
<1>10. CASE ProbeBusy(c)
  BY <1>10, AfterProbeTyped DEF ProbeBusy
<1>11. CASE RemovePath(c)
  BY <1>11, ZenonT(60) DEF RemovePath
<1>12. CASE Connect(c)
  BY <1>12 DEF Connect, Connectable
<1>13. CASE ConnectFails(c)
  BY <1>13 DEF ConnectFails
<1>14. CASE ReadAnswer(c)
  BY <1>14, ZenonT(60) DEF ReadAnswer
<1>15. CASE ReadReset(c)
  BY <1>15 DEF ReadReset
<1>16. CASE Resend(c)
  BY <1>16 DEF Resend
<1>17. CASE GiveUp(c)
  BY <1>17 DEF GiveUp
<1>18. CASE ReadTimesOut(c)
  BY <1>18 DEF ReadTimesOut
<1>19. CASE Busy(c)
  BY <1>19 DEF Busy
<1>20. CASE Duplicate(c)
  BY <1>20 DEF Duplicate
<1>21. CASE Take(c)
  <2>1. conn[c] \in Server
    BY <1>21 DEF Take, Reaches, CourseOf, InHand
  <2>2. seen' = [seen EXCEPT ![conn[c]] = @ \cup {c}]
    BY <1>21 DEF Take
  <2>3. seen' \in [Server -> SUBSET Call]
    BY <2>1, <2>2, ZenonT(60)
  <2>4. task' = [task EXCEPT ![c] = "deciding"] \/ task' = [task EXCEPT ![c] = "ok"]
    BY <1>21 DEF Take
  <2>5. stopping' = stopping \/ stopping' = stopping \cup {conn[c]}
    BY <1>21 DEF Take
  <2>6. UNCHANGED <<pathVars, callVars, left, runs>>
    BY <1>21 DEF Take
  <2>7. task' \in [Call -> {"none", "sent", "deciding", "running",
                            "ok", "error", "eof", "reset"}]
    BY <2>4
  <2>8. stopping' \subseteq Server
    BY <2>1, <2>5, ZenonT(60)
  <2> QED
    BY <2>3, <2>6, <2>7, <2>8
<1>22. CASE Decide(c)
  <2>1. runs' \in [Call -> [Server -> Nat]]
    <3>1. runs' = runs \/ runs' = [runs EXCEPT ![c][conn[c]] = @ + 1]
      BY <1>22 DEF Decide
    <3>2. conn[c] \in Server
      BY <1>22 DEF Decide, CourseOf, InHand
    <3> QED
      BY <3>1, <3>2, OneMoreRun
  <2>2. \E end \in {"running", "ok", "error"} : task' = [task EXCEPT ![c] = end]
    BY <1>22 DEF Decide
  <2>3. task' \in [Call -> {"none", "sent", "deciding", "running",
                            "ok", "error", "eof", "reset"}]
    BY <2>2
  <2>4. UNCHANGED <<pathVars, callVars, left, seen, stopping>>
    BY <1>22 DEF Decide
  <2> QED
    BY <2>1, <2>3, <2>4
<1>23. CASE Finish(c)
  BY <1>23 DEF Finish
<1>24. CASE Panic(c)
  BY <1>24 DEF Panic
<1>25. ASSUME NEW d \in Server, DecideLeft(c, d) PROVE Typed'
  <2>1. runs' = [runs EXCEPT ![c][d] = @ + 1] /\ left' = left \ {<<c, d>>}
    BY <1>25 DEF DecideLeft
  <2>2. runs' \in [Call -> [Server -> Nat]] /\ left' \subseteq Call \X Server
    BY <2>1, OneMoreRun
  <2> QED
    BY <1>25, <2>2 DEF DecideLeft
<1> QED
  BY <1>1, <1>2, <1>3, <1>4, <1>5, <1>6, <1>7, <1>8, <1>9, <1>10, <1>11, <1>12, <1>13,
     <1>14, <1>15, <1>16, <1>17, <1>18, <1>19, <1>20, <1>21, <1>22, <1>23, <1>24, <1>25
     DEF ClientStep, HandlerStep

\* So do those of the processes.
LEMMA MovesTyped ==
    ASSUME IInv, PathMoves
    PROVE  Typed'
<1>1. Typed /\ \A k \in Call : CourseOf(k)
  BY TypeParts DEF IInv, CallInv
<1>2. UNCHANGED <<callVars, seen, runs, stopping>>
  BY DEF PathMoves
<1>3. task' \in [Call -> {"none", "sent", "deciding", "running",
                          "ok", "error", "eof", "reset"}]
  <2>1. \A k \in Call : task'[k] \in {"none", "sent", "deciding", "running",
                                      "ok", "error", "eof", "reset"}
    BY <1>1, FateOf DEF Typed, InHand
  <2>2. \E f : task' = [k \in Call |-> f[k]]
    BY DEF PathMoves, Fates
  <2> QED
    BY <2>1, <2>2
<1>4. left' \subseteq Call \X Server
  <2>1. left' = left \cup {<<j, conn[j]>> : j \in
            {j \in Call : task[j] = "deciding" /\ task'[j] = "eof" /\ far'[conn[j]]}}
    BY DEF PathMoves, Fates
  <2>2. \A j \in Call : task[j] = "deciding" => conn[j] \in Server
    BY <1>1 DEF CourseOf, InHand
  <2>3. {<<j, conn[j]>> : j \in
            {j \in Call : task[j] = "deciding" /\ task'[j] = "eof" /\ far'[conn[j]]}}
          \subseteq Call \X Server
    BY <2>2
  <2> QED
    BY <1>1, <2>1, <2>3 DEF Typed
<1> QED
  BY <1>1, <1>2, <1>3, <1>4 DEF Typed, callVars

\* Whether the path is local is settled, and so are the calls' tools.
LEMMA Settled ==
    ASSUME [Next]_vars
    PROVE  kind' = kind /\ tool' = tool /\ timed' = timed
<1>1. kind' = kind
  BY PathChange DEF pathVars, PathAction, ServerStep, Start, Bind, Probe, Unlink, Rebind, Chmod,
                    Cleanup, Exit, Clear, ForwardBinds, FarBinds, Signal, Kill, StopServing
<1>2. ASSUME NEW k \in Call, Begin(k) \/ ClientStep(k)
      PROVE  tool' = tool /\ timed' = timed
  BY <1>2 DEF Begin, ClientStep, Absent, AbsentInLoop, Present, LoopEnds, Spawn, NoTerminal,
              Probe1, Probe2, ProbeBusy, RemovePath, Connect, ConnectFails, ReadAnswer,
              ReadReset, Resend, GiveUp, ReadTimesOut
<1>3. ASSUME NEW k \in Call, HandlerStep(k)
      PROVE  tool' = tool /\ timed' = timed
  BY <1>3 DEF HandlerStep, Busy, Duplicate, Take, Decide, Finish, Panic, DecideLeft, callVars
<1>4. ASSUME PathMoves \/ UNCHANGED vars
      PROVE  tool' = tool /\ timed' = timed
  BY <1>4 DEF PathMoves, callVars, vars
<1> QED
  BY <1>1, <1>2, <1>3, <1>4 DEF Next

\* A call's own steps keep its place.
LEMMA OwnPlace ==
    ASSUME IInv, NEW c \in Call, Begin(c) \/ ClientStep(c) \/ HandlerStep(c)
    PROVE  PlaceOf(c)'
<1>base. Typed /\ PlaceOf(c) /\ CourseOf(c)
  BY TypeParts DEF IInv, CallInv
<1> USE <1>base
    DEF Typed, PlaceOf, AtPlace, Done, Answer, Phase, AfterProbe, callVars, taskVars
<1>1. CASE Begin(c)
  BY <1>1 DEF Begin, CourseOf, AfterStop
<1>2. CASE Absent(c)
  BY <1>2, ZenonT(60) DEF Absent
<1>3. CASE AbsentInLoop(c)
  BY <1>3 DEF AbsentInLoop
<1>4. CASE Present(c)
  BY <1>4 DEF Present, CourseOf, AfterStop
<1>5. CASE LoopEnds(c)
  BY <1>5, ZenonT(60) DEF LoopEnds
<1>6. CASE Spawn(c)
  BY <1>6 DEF Spawn
<1>7. CASE NoTerminal(c)
  BY <1>7 DEF NoTerminal
<1>8. CASE Probe1(c)
  BY <1>8, ZenonT(60) DEF Probe1, Connectable
<1>9. CASE Probe2(c)
  BY <1>9, ZenonT(60) DEF Probe2, CourseOf, AfterStop, InHand
<1>10. CASE ProbeBusy(c)
  BY <1>10, ZenonT(60) DEF ProbeBusy, CourseOf, AfterStop
<1>11. CASE RemovePath(c)
  BY <1>11, ZenonT(60) DEF RemovePath
<1>12. CASE Connect(c)
  BY <1>12 DEF Connect, Connectable
<1>13. CASE ConnectFails(c)
  BY <1>13 DEF ConnectFails
<1>14. CASE ReadAnswer(c)
  BY <1>14, ZenonT(60) DEF ReadAnswer
<1>15. CASE ReadReset(c)
  BY <1>15 DEF ReadReset
<1>16. CASE Resend(c)
  BY <1>16 DEF Resend
<1>17. CASE GiveUp(c)
  BY <1>17 DEF GiveUp
<1>18. CASE ReadTimesOut(c)
  BY <1>18 DEF ReadTimesOut
<1>19. CASE Busy(c)
  BY <1>19 DEF Busy
<1>20. CASE Duplicate(c)
  BY <1>20 DEF Duplicate, Reaches
<1>21. CASE Take(c)
  BY <1>21 DEF Take, Reaches
<1>22. CASE Decide(c)
  BY <1>22 DEF Decide
<1>23. CASE Finish(c)
  BY <1>23 DEF Finish
<1>24. CASE Panic(c)
  BY <1>24, ZenonT(60) DEF Panic
<1>25. ASSUME NEW d \in Server, DecideLeft(c, d) PROVE PlaceOf(c)'
  BY <1>25, ZenonT(60) DEF DecideLeft
<1> QED
  BY <1>1, <1>2, <1>3, <1>4, <1>5, <1>6, <1>7, <1>8, <1>9, <1>10, <1>11, <1>12, <1>13,
     <1>14, <1>15, <1>16, <1>17, <1>18, <1>19, <1>20, <1>21, <1>22, <1>23, <1>24, <1>25
     DEF ClientStep, HandlerStep

\* A call's own steps keep its course.
LEMMA OwnCourse ==
    ASSUME IInv, [Next]_vars, NEW c \in Call, Begin(c) \/ ClientStep(c) \/ HandlerStep(c)
    PROVE  CourseOf(c)'
<1>base. Typed /\ PlaceOf(c) /\ CourseOf(c) /\ kind' = kind /\ tool' = tool /\ timed' = timed
  BY TypeParts, Settled DEF IInv, CallInv
<1>conn. \A d \in Server : Behind(d) \in Server \cup {Nobody} /\ (kind = "local" => Behind(d) = d)
  BY BehindType
<1> USE <1>base
    DEF Typed, PlaceOf, CourseOf, AfterStop, InHand, MayWaitForever, AtPlace, Done, Answer,
        Phase, AfterProbe, Looping, callVars, taskVars
<1>1. CASE Begin(c)
  BY <1>1 DEF Begin
<1>2. CASE Absent(c)
  BY <1>2, ZenonT(60) DEF Absent
<1>3. CASE AbsentInLoop(c)
  BY <1>3 DEF AbsentInLoop
<1>4. CASE Present(c)
  BY <1>4, ZenonT(60) DEF Present
<1>5. CASE LoopEnds(c)
  BY <1>5, ZenonT(60) DEF LoopEnds
<1>6. CASE Spawn(c)
  BY <1>6 DEF Spawn
<1>7. CASE NoTerminal(c)
  BY <1>7 DEF NoTerminal
<1>8. CASE Probe1(c)
  BY <1>8, ZenonT(120) DEF Probe1, Connectable
<1>9. CASE Probe2(c)
  <2>1. /\ at[c] = "quiet" /\ AfterProbe(c, Quiet(c)) /\ peer[c] \in Server
        /\ conn'[c] = Behind(peer[c]) /\ peer' = peer /\ task' = task
    BY <1>9 DEF Probe2
  <2>2. ASSUME Quiet(c)
        PROVE  /\ Behind(peer[c]) \in Server
               /\ kind = "local" => Behind(peer[c]) = peer[c]
    BY <1>conn, <2>1, <2>2, ServerConstants DEF Quiet, PathTypeOK, IInv, TypeOK
  <2>3. ~ InHand(c) /\ ~ InHand(c)'
    BY <2>1
  <2>4. CASE Quiet(c)
    BY <2>1, <2>2, <2>3, <2>4, ZenonT(60)
  <2>5. CASE ~ Quiet(c)
    BY <2>1, <2>3, <2>5, ZenonT(60)
  <2> QED
    BY <2>4, <2>5
<1>10. CASE ProbeBusy(c)
  BY <1>10, ZenonT(60) DEF ProbeBusy
<1>11. CASE RemovePath(c)
  BY <1>11, ZenonT(60) DEF RemovePath
<1>12. CASE Connect(c)
  BY <1>12, <1>conn DEF Connect, Connectable
<1>13. CASE ConnectFails(c)
  BY <1>13 DEF ConnectFails
<1>14. CASE ReadAnswer(c)
  BY <1>14, ZenonT(60) DEF ReadAnswer
<1>15. CASE ReadReset(c)
  BY <1>15 DEF ReadReset
<1>16. CASE Resend(c)
  BY <1>16 DEF Resend
<1>17. CASE GiveUp(c)
  BY <1>17 DEF GiveUp
<1>18. CASE ReadTimesOut(c)
  BY <1>18 DEF ReadTimesOut
<1>19. CASE Busy(c)
  BY <1>19 DEF Busy
<1>20. CASE Duplicate(c)
  BY <1>20 DEF Duplicate, Reaches
<1>21. CASE Take(c)
  BY <1>21 DEF Take, Reaches
<1>22. CASE Decide(c)
  BY <1>22 DEF Decide
<1>23. CASE Finish(c)
  BY <1>23 DEF Finish
<1>24. CASE Panic(c)
  BY <1>24 DEF Panic
<1>25. ASSUME NEW d \in Server, DecideLeft(c, d) PROVE CourseOf(c)'
  BY <1>25 DEF DecideLeft
<1> QED
  BY <1>1, <1>2, <1>3, <1>4, <1>5, <1>6, <1>7, <1>8, <1>9, <1>10, <1>11, <1>12, <1>13,
     <1>14, <1>15, <1>16, <1>17, <1>18, <1>19, <1>20, <1>21, <1>22, <1>23, <1>24, <1>25
     DEF ClientStep, HandlerStep

\* What is kept of a request that was not run at a daemon and is not cut off there.
LEMMA NotYetRun ==
    ASSUME Typed, NEW c \in Call, SeenOf(c), NEW d \in Server, c \notin seen[d]
    PROVE  runs[c][d] = 0 /\ <<c, d>> \notin left
<1>1. runs[c] \in [Server -> Nat]
  BY DEF Typed
<1>2. runs[c][d] \in Nat /\ ~ (runs[c][d] > 0) /\ <<c, d>> \notin left
  BY <1>1 DEF SeenOf
<1> QED
  BY <1>2

\* The replay gate lets a request through once.
LEMMA TakeSeen ==
    ASSUME IInv, NEW c \in Call, Take(c)
    PROVE  SeenOf(c)'
<1>base. Typed /\ CourseOf(c) /\ SeenOf(c)
  BY TypeParts DEF IInv, CallInv
<1>1. conn[c] \in Server /\ task[c] = "sent" /\ c \notin seen[conn[c]]
  BY <1>base DEF Take, Reaches, IsNew, CourseOf, InHand
<1>2. seen' = [seen EXCEPT ![conn[c]] = @ \cup {c}] /\ seen \in [Server -> SUBSET Call]
  BY <1>base DEF Take, Typed
<1>3. \A d \in Server : c \in seen'[d] <=> c \in seen[d] \/ d = conn[c]
  BY <1>1, <1>2
<1>4. left' = left /\ runs' = runs /\ resent' = resent /\ conn' = conn
  BY DEF Take, Answer, callVars
<1>5. task'[c] \in {"deciding", "ok"}
  BY <1>base DEF Take, Answer, Typed
<1>6. runs[c][conn[c]] = 0 /\ <<c, conn[c]>> \notin left
  BY <1>base, <1>1, NotYetRun
<1>7. ~ resent[c] => \A d \in Server : c \notin seen[d]
  BY <1>base, <1>1 DEF SeenOf
<1>8. \A d \in Server : <<c, d>> \in left => c \in seen[d]
  BY <1>base DEF SeenOf
<1> QED
  BY <1>base, <1>1, <1>3, <1>4, <1>5, <1>6, <1>7, <1>8 DEF SeenOf

\* An approval runs a request that was not run there, whether its client is
\* still there or not.
LEMMA RunSeen ==
    ASSUME IInv, NEW c \in Call, Decide(c) \/ \E d \in Server : DecideLeft(c, d)
    PROVE  SeenOf(c)'
<1>base. Typed /\ CourseOf(c) /\ SeenOf(c) /\ runs \in [Call -> [Server -> Nat]]
  BY TypeParts DEF IInv, CallInv, Typed
<1>1. CASE Decide(c)
  <2>1. conn[c] \in Server /\ task[c] = "deciding"
    BY <1>base, <1>1 DEF Decide, CourseOf, InHand
  <2>2. c \in seen[conn[c]] /\ runs[c][conn[c]] = 0 /\ <<c, conn[c]>> \notin left
    BY <1>base, <2>1 DEF SeenOf
  <2>3. left' = left /\ seen' = seen /\ resent' = resent /\ conn' = conn
    BY <1>1 DEF Decide, callVars
  <2>4. task'[c] \in {"running", "error"}
    BY <1>base, <1>1 DEF Decide, Answer, Typed
  <2>5. \A d \in Server : runs'[c][d] = runs[c][d] \/ (d = conn[c] /\ runs'[c][d] = 1)
    <3>1. CASE runs' = [runs EXCEPT ![c][conn[c]] = @ + 1]
      <4>1. /\ runs'[c][conn[c]] = runs[c][conn[c]] + 1
            /\ \A d \in Server \ {conn[c]} : runs'[c][d] = runs[c][d]
        BY <1>base, <2>1, <3>1, OneMoreRun
      <4>2. runs'[c][conn[c]] = 1
        BY <2>2, <4>1
      <4> QED
        BY <4>1, <4>2
    <3> QED
      BY <1>1, <3>1 DEF Decide
  <2>6. \A d \in Server : runs'[c][d] > 0 => c \in seen[d] /\ runs'[c][d] = 1
    BY <1>base, <2>2, <2>5 DEF SeenOf
  <2>7. \A d \in Server : <<c, d>> \in left => c \in seen[d] /\ runs'[c][d] = 0
    BY <1>base, <2>2, <2>5 DEF SeenOf
  <2>8. ~ resent[c] =>
           /\ \A d, e \in Server : c \in seen[d] /\ c \in seen[e] => d = e
           /\ \A d \in Server : <<c, d>> \notin left
    BY <1>base, <2>1 DEF SeenOf
  <2> QED
    BY <2>2, <2>3, <2>4, <2>6, <2>7, <2>8 DEF SeenOf
<1>2. ASSUME NEW d \in Server, DecideLeft(c, d)
      PROVE  SeenOf(c)'
  <2>1. /\ <<c, d>> \in left /\ left' = left \ {<<c, d>>}
        /\ runs' = [runs EXCEPT ![c][d] = @ + 1]
        /\ seen' = seen /\ resent' = resent /\ conn' = conn /\ task' = task
    BY <1>2 DEF DecideLeft, callVars
  <2>2. c \in seen[d] /\ runs[c][d] = 0 /\ (task[c] = "deciding" => conn[c] # d)
    BY <1>base, <2>1 DEF SeenOf
  <2>3. /\ runs'[c][d] = runs[c][d] + 1
        /\ \A e \in Server \ {d} : runs'[c][e] = runs[c][e]
    BY <1>base, <2>1, OneMoreRun
  <2>4. runs'[c][d] = 1
    BY <2>2, <2>3
  <2>5. \A e \in Server : <<c, e>> \in left' <=> <<c, e>> \in left /\ e # d
    BY <2>1
  <2>6. task[c] = "deciding" => conn[c] \in Server \ {d}
    BY <1>base, <2>2 DEF CourseOf, InHand
  <2>7. \A e \in Server : runs'[c][e] > 0 => c \in seen[e] /\ runs'[c][e] = 1
    BY <1>base, <2>2, <2>3, <2>4 DEF SeenOf
  <2>8. \A e \in Server : <<c, e>> \in left' => c \in seen[e] /\ runs'[c][e] = 0
    BY <1>base, <2>3, <2>5 DEF SeenOf
  <2>9. task[c] = "deciding" => runs'[c][conn[c]] = 0 /\ <<c, conn[c]>> \notin left'
    BY <1>base, <2>3, <2>5, <2>6 DEF SeenOf
  <2>10. ~ resent[c] =>
           /\ task[c] \in {"none", "sent", "reset"} => \A e \in Server : c \notin seen[e]
           /\ \A e, f \in Server : c \in seen[e] /\ c \in seen[f] => e = f
           /\ \A e \in Server : <<c, e>> \in left' => task[c] = "eof"
    BY <1>base, <2>5 DEF SeenOf
  <2>11. task[c] \in {"deciding", "running"} => c \in seen[conn[c]]
    BY <1>base DEF SeenOf
  <2> QED
    BY <2>1, <2>7, <2>8, <2>9, <2>10, <2>11 DEF SeenOf
<1> QED
  BY <1>1, <1>2

\* No call ends a process.
LEMMA OwnPath ==
    ASSUME PathTypeOK, NEW c \in Call, Begin(c) \/ ClientStep(c) \/ HandlerStep(c)
    PROVE  /\ \A d \in Server : server[d] = "serving" => server'[d] = "serving"
           /\ far' = far
<1> USE DEF pathVars
<1>1. CASE Begin(c) \/ ClientStep(c)
  <2>1. \/ UNCHANGED pathVars
        \/ \E d \in Server : Start(d)
        \/ Remove({}) /\ UNCHANGED <<kind, server, far, look>>
    BY <1>1 DEF Begin, ClientStep, Absent, AbsentInLoop, Present, LoopEnds, Spawn, NoTerminal,
              Probe1, Probe2, ProbeBusy, RemovePath, Connect, ConnectFails, ReadAnswer,
              ReadReset, Resend, GiveUp, ReadTimesOut
  <2> QED
    BY <2>1 DEF Start, Goto, PathTypeOK
<1>2. CASE HandlerStep(c)
  BY <1>2 DEF HandlerStep, Busy, Duplicate, Take, Decide, Finish, Panic, DecideLeft
<1> QED
  BY <1>1, <1>2

\* A call's own steps keep account of who has taken its request.
LEMMA OwnSeen ==
    ASSUME IInv, NEW c \in Call, Begin(c) \/ ClientStep(c) \/ HandlerStep(c)
    PROVE  SeenOf(c)'
<1>base. Typed /\ PlaceOf(c) /\ CourseOf(c) /\ SeenOf(c)
  BY TypeParts DEF IInv, CallInv
<1>conn. InHand(c) => conn[c] \in Server
  BY <1>base DEF CourseOf
<1>idle. at[c] \in {"check", "probe", "quiet", "spawn", "connect"} => ~ InHand(c)
  BY <1>base DEF CourseOf, AfterStop, InHand
<1> USE <1>base
    DEF Typed, PlaceOf, SeenOf, InHand, AtPlace, Done, Answer, Phase, callVars, taskVars
<1>1. CASE Begin(c)
  BY <1>1 DEF Begin
<1>2. CASE Absent(c)
  BY <1>2 DEF Absent
<1>3. CASE AbsentInLoop(c)
  BY <1>3 DEF AbsentInLoop
<1>4. CASE Present(c)
  BY <1>4 DEF Present
<1>5. CASE LoopEnds(c)
  BY <1>5 DEF LoopEnds
<1>6. CASE Spawn(c)
  BY <1>6 DEF Spawn
<1>7. CASE NoTerminal(c)
  BY <1>7 DEF NoTerminal
<1>8. CASE Probe1(c)
  BY <1>8 DEF Probe1
<1>9. CASE Probe2(c)
  BY <1>9, <1>idle DEF Probe2
<1>10. CASE ProbeBusy(c)
  BY <1>10 DEF ProbeBusy
<1>11. CASE RemovePath(c)
  BY <1>11 DEF RemovePath
<1>12. CASE Connect(c)
  BY <1>12, <1>idle, ZenonT(60) DEF Connect
<1>13. CASE ConnectFails(c)
  BY <1>13 DEF ConnectFails
<1>14. CASE ReadAnswer(c)
  BY <1>14 DEF ReadAnswer
<1>15. CASE ReadReset(c)
  BY <1>15 DEF ReadReset
<1>16. CASE Resend(c)
  <2>1. /\ at[c] = "read" /\ task[c] = "eof" /\ tool[c] # "request"
        /\ task'[c] = "none" /\ at'[c] = "connect" /\ resent'[c]
        /\ UNCHANGED <<left, seen, runs, conn, tool>>
    BY <1>16, ZenonT(60) DEF Resend
  <2> QED
    BY <2>1
<1>17. CASE GiveUp(c)
  BY <1>17 DEF GiveUp
<1>18. CASE ReadTimesOut(c)
  BY <1>18 DEF ReadTimesOut
<1>19. CASE Busy(c)
  BY <1>19, ZenonT(60) DEF Busy
<1>20. CASE Duplicate(c)
  <2>1. /\ task[c] = "sent" /\ task'[c] = "error"
        /\ UNCHANGED <<left, seen, runs, resent, conn>>
    BY <1>20, ZenonT(120) DEF Duplicate, Reaches
  <2> QED
    BY <2>1
<1>21. CASE Take(c)
  BY <1>21, TakeSeen DEF IInv, CallInv
<1>22. CASE Decide(c)
  BY <1>22, RunSeen DEF IInv, CallInv
<1>23. CASE Finish(c)
  <2>1. /\ task[c] = "running" /\ task'[c] \in {"ok", "error"}
        /\ UNCHANGED <<left, seen, runs, resent, conn>>
    BY <1>23, ZenonT(60) DEF Finish
  <2> QED
    BY <2>1
<1>24. CASE Panic(c)
  BY <1>24, ZenonT(60) DEF Panic
<1>25. ASSUME NEW d \in Server, DecideLeft(c, d) PROVE SeenOf(c)'
  BY <1>25, RunSeen DEF IInv, CallInv
<1> QED
  BY <1>1, <1>2, <1>3, <1>4, <1>5, <1>6, <1>7, <1>8, <1>9, <1>10, <1>11, <1>12, <1>13,
     <1>14, <1>15, <1>16, <1>17, <1>18, <1>19, <1>20, <1>21, <1>22, <1>23, <1>24, <1>25
     DEF ClientStep, HandlerStep

\* A call's own steps leave its request with the living.
LEMMA OwnLink ==
    ASSUME IInv, [Next]_vars, NEW c \in Call, Begin(c) \/ ClientStep(c) \/ HandlerStep(c)
    PROVE  LinkOf(c)'
<1>base. Typed /\ PathTypeOK /\ PathInv /\ CourseOf(c) /\ LinkOf(c) /\ kind' = kind
  BY TypeParts, Settled DEF IInv, CallInv
<1>1. CASE InHand(c) /\ InHand(c)' /\ peer'[c] = peer[c] /\ conn'[c] = conn[c]
  BY <1>base, <1>1, OwnPath DEF LinkOf, CourseOf
<1>2. CASE Connect(c)
  <2>1. /\ Connectable /\ UNCHANGED pathVars
        /\ peer'[c] = path /\ conn'[c] = Behind(path)
        /\ task'[c] = IF Behind(path) = Nobody THEN "eof" ELSE "sent"
    BY <1>base, <1>2 DEF Connect, Answer, Typed
  <2>2. path \in Server /\ server[path] \in {"chmod", "serving"}
    BY <2>1 DEF Connectable, Listening, Open
  <2>3. kind = "tunnel" => server[path] = "serving"
    BY <1>base, <2>2 DEF PathInv
  <2>4. kind # "local" /\ Behind(path) # Nobody => far[Behind(path)]
    BY <2>2, BehindType
  <2> QED
    BY <1>base, <2>1, <2>3, <2>4 DEF LinkOf, InHand, pathVars
<1>3. Connect(c) \/ (InHand(c)' => InHand(c) /\ peer'[c] = peer[c] /\ conn'[c] = conn[c])
  <2> USE <1>base DEF Typed, CourseOf, AfterStop, InHand, AtPlace, Done, Answer, callVars, taskVars
  <2>1. CASE Begin(c)
    BY <2>1 DEF Begin
  <2>2. CASE Absent(c)
    BY <2>2 DEF Absent
  <2>3. CASE AbsentInLoop(c)
    BY <2>3 DEF AbsentInLoop
  <2>4. CASE Present(c)
    BY <2>4 DEF Present
  <2>5. CASE LoopEnds(c)
    BY <2>5 DEF LoopEnds
  <2>6. CASE Spawn(c)
    BY <2>6 DEF Spawn
  <2>7. CASE NoTerminal(c)
    BY <2>7 DEF NoTerminal
  <2>8. CASE Probe1(c)
    BY <2>8 DEF Probe1
  <2>9. CASE Probe2(c)
    BY <2>9 DEF Probe2
  <2>10. CASE ProbeBusy(c)
    BY <2>10 DEF ProbeBusy
  <2>11. CASE RemovePath(c)
    BY <2>11 DEF RemovePath
  <2>12. CASE Connect(c)
    BY <2>12
  <2>13. CASE ConnectFails(c)
    BY <2>13 DEF ConnectFails
  <2>14. CASE ReadAnswer(c)
    BY <2>14 DEF ReadAnswer
  <2>15. CASE ReadReset(c)
    BY <2>15 DEF ReadReset
  <2>16. CASE Resend(c)
    BY <2>16 DEF Resend
  <2>17. CASE GiveUp(c)
    BY <2>17 DEF GiveUp
  <2>18. CASE ReadTimesOut(c)
    BY <2>18 DEF ReadTimesOut
  <2>19. CASE Busy(c)
    BY <2>19 DEF Busy
  <2>20. CASE Duplicate(c)
    BY <2>20 DEF Duplicate, Reaches
  <2>21. CASE Take(c)
    BY <2>21 DEF Take, Reaches
  <2>22. CASE Decide(c)
    BY <2>22 DEF Decide, Answer
  <2>23. CASE Finish(c)
    BY <2>23 DEF Finish
  <2>24. CASE Panic(c)
    BY <2>24 DEF Panic
  <2>25. ASSUME NEW d \in Server, DecideLeft(c, d)
         PROVE  (InHand(c)' => InHand(c) /\ peer'[c] = peer[c] /\ conn'[c] = conn[c])
    BY <2>25 DEF DecideLeft
  <2> QED
    BY <2>1, <2>2, <2>3, <2>4, <2>5, <2>6, <2>7, <2>8, <2>9, <2>10, <2>11, <2>12, <2>13,
       <2>14, <2>15, <2>16, <2>17, <2>18, <2>19, <2>20, <2>21, <2>22, <2>23, <2>24, <2>25
       DEF ClientStep, HandlerStep
<1> QED
  BY <1>1, <1>2, <1>3 DEF LinkOf

\* What a step does not touch stays as it was.
LEMMA OthersKeep ==
    ASSUME IInv, [Next]_vars, NEW k \in Call, Untouched(k),
           \A d \in Server : server[d] = "serving" => server'[d] = "serving", far' = far
    PROVE  PlaceOf(k)' /\ CourseOf(k)' /\ SeenOf(k)' /\ LinkOf(k)'
<1>base. /\ PlaceOf(k) /\ CourseOf(k) /\ SeenOf(k) /\ LinkOf(k)
         /\ InHand(k)' <=> InHand(k)
         /\ kind' = kind
  BY TypeParts, Settled DEF IInv, CallInv, Untouched, InHand
<1>1. PlaceOf(k)'
  BY <1>base DEF PlaceOf, Untouched
<1>2. CourseOf(k)'
  BY <1>base, ZenonT(60) DEF CourseOf, Untouched, AfterStop, MayWaitForever
<1>3. SeenOf(k)'
  <2>1. task[k] \in {"deciding", "running"} => conn[k] \in Server
    BY <1>base DEF CourseOf, InHand
  <2>2. SeenOf(k)
    BY <1>base
  <2>3. /\ conn'[k] = conn[k] /\ resent'[k] = resent[k] /\ task'[k] = task[k]
        /\ \A d \in Server : /\ k \in seen'[d] <=> k \in seen[d]
                             /\ <<k, d>> \in left' <=> <<k, d>> \in left
                             /\ runs'[k][d] = runs[k][d]
    BY DEF Untouched
  <2> QED
    BY <2>1, <2>2, <2>3, ZenonT(60) DEF SeenOf
<1>4. LinkOf(k)'
  BY <1>base DEF LinkOf, CourseOf, Untouched
<1> QED
  BY <1>1, <1>2, <1>3, <1>4

\* A forward that serves goes on, or its process is dead.
LEMMA ForwardLasts ==
    ASSUME PathTypeOK, kind = "tunnel", NEW d \in Server, PathAction(d),
           NEW e \in Server, server[e] = "serving"
    PROVE  server'[e] \in {"serving", "dead"}
<1> USE DEF PathTypeOK, Goto
<1>1. CASE Start(d)
  BY <1>1 DEF Start
<1>2. CASE Bind(d)
  BY <1>2 DEF Bind
<1>3. CASE Probe(d)
  BY <1>3 DEF Probe
<1>4. CASE Unlink(d)
  BY <1>4 DEF Unlink
<1>5. CASE Rebind(d)
  BY <1>5 DEF Rebind
<1>6. CASE Chmod(d)
  BY <1>6 DEF Chmod
<1>7. CASE Cleanup(d)
  BY <1>7 DEF Cleanup
<1>8. CASE Exit(d)
  BY <1>8 DEF Exit
<1>9. CASE Clear(d)
  BY <1>9 DEF Clear
<1>10. CASE ForwardBinds(d)
  BY <1>10 DEF ForwardBinds
<1>11. CASE FarBinds(d)
  BY <1>11 DEF FarBinds
<1>12. CASE Signal(d)
  BY <1>12 DEF Signal
<1>13. CASE Kill(d)
  BY <1>13 DEF Kill
<1>14. CASE StopServing(d)
  BY <1>14 DEF StopServing, Serving
<1> QED
  BY <1>1, <1>2, <1>3, <1>4, <1>5, <1>6, <1>7, <1>8, <1>9, <1>10, <1>11, <1>12, <1>13,
     <1>14
     DEF PathAction, ServerStep

\* A process that moves cuts off what hung on it, and leaves the rest.
LEMMA MovesKeep ==
    ASSUME IInv, PathMoves, NEW k \in Call
    PROVE  PlaceOf(k)' /\ CourseOf(k)' /\ SeenOf(k)' /\ LinkOf(k)'
<1>base. /\ PlaceOf(k) /\ CourseOf(k) /\ SeenOf(k) /\ LinkOf(k)
         /\ UNCHANGED <<tool, timed, at, phase, peer, conn, resent, told, seen, runs, stopping>>
         /\ kind' = kind
  BY TypeParts, Settled DEF IInv, CallInv, PathMoves, callVars, Next
<1>1. /\ task[k] = "sent" => task'[k] \in {"sent", "reset", "eof"}
      /\ task[k] \in {"deciding", "running"} => task'[k] \in {task[k], "eof"}
      /\ ~ InHand(k) => task'[k] = task[k]
      /\ InHand(k)' => InHand(k)
      /\ task'[k] \in {"deciding", "running"} => task'[k] = task[k]
  BY FateOf DEF InHand
<1>2. PlaceOf(k)'
  BY <1>base, <1>1 DEF PlaceOf, InHand
<1>3. CourseOf(k)'
  BY <1>base, <1>1, ZenonT(60) DEF CourseOf, AfterStop, MayWaitForever, InHand
<1>4. SeenOf(k)'
  <2>1. \A d \in Server :
            <<k, d>> \in left' <=>
               \/ <<k, d>> \in left
               \/ task[k] = "deciding" /\ task'[k] = "eof" /\ d = conn[k] /\ far'[d]
    BY FateOf
  <2>2. \A d \in Server : /\ runs'[k][d] = runs[k][d]
                          /\ k \in seen'[d] <=> k \in seen[d]
    BY <1>base
  <2>3. \A d \in Server : <<k, d>> \in left' => k \in seen[d] /\ runs[k][d] = 0
    BY <1>base, <2>1 DEF SeenOf
  <2>4. \A d \in Server : runs[k][d] > 0 => k \in seen[d] /\ runs[k][d] = 1
    BY <1>base DEF SeenOf
  <2>5. /\ task'[k] \in {"deciding", "running"} => k \in seen[conn[k]]
        /\ task'[k] = "deciding" => runs[k][conn[k]] = 0 /\ <<k, conn[k]>> \notin left'
    BY <1>base, <1>1, <2>1 DEF SeenOf, CourseOf, InHand
  <2>6. ~ resent[k] =>
           /\ task'[k] \in {"none", "sent", "reset"} => \A d \in Server : k \notin seen[d]
           /\ \A d, e \in Server : k \in seen[d] /\ k \in seen[e] => d = e
           /\ \A d \in Server : <<k, d>> \in left' => task'[k] = "eof"
    BY <1>base, <1>1, <2>1 DEF SeenOf, InHand
  <2>7. seen' = seen /\ conn' = conn /\ resent' = resent /\ runs' = runs
    BY <1>base
  <2> QED
    BY <2>3, <2>4, <2>5, <2>6, <2>7 DEF SeenOf
<1>5. LinkOf(k)'
  <2>1. SUFFICES ASSUME kind = "tunnel", InHand(k)'
                 PROVE  server'[peer[k]] = "serving" /\ far'[conn[k]]
    BY <1>base DEF LinkOf
  <2>2. InHand(k) /\ peer[k] \in Server /\ conn[k] \in Server
    BY <1>base, <1>1, <2>1 DEF CourseOf
  <2>3. server[peer[k]] = "serving"
    BY <1>base, <2>1, <2>2 DEF LinkOf
  <2>4. ~ Cut(k)
    BY <2>1, <2>2, FateOf DEF InHand, FatesOfSent
  <2>5. server'[peer[k]] # "dead" /\ far'[conn[k]]
    BY <1>base, <2>1, <2>4 DEF Cut
  <2>6. server'[peer[k]] \in {"serving", "dead"}
    BY <2>1, <2>2, <2>3, ForwardLasts DEF PathMoves, PathAction, IInv, TypeOK
  <2> QED
    BY <2>5, <2>6
<1> QED
  BY <1>2, <1>3, <1>4, <1>5

\* The invariant is inductive.
LEMMA StepIInv == IInv /\ [Next]_vars => IInv'
<1> SUFFICES ASSUME IInv, [Next]_vars PROVE IInv'
  OBVIOUS
<1>1. PathTypeOK' /\ PathInv'
  BY PathStep DEF IInv, TypeOK
<1>2. \A k \in Call : tool'[k] \in Tools[k]
  BY Settled DEF IInv, TypeOK
<1>3. SUFFICES Typed' /\ \A k \in Call : PlaceOf(k)' /\ CourseOf(k)' /\ SeenOf(k)' /\ LinkOf(k)'
  BY <1>1, <1>2 DEF IInv, TypeOK, Typed, PlaceOf, CallInv
<1>4. ASSUME NEW c \in Call, Begin(c) \/ ClientStep(c) \/ HandlerStep(c)
      PROVE  Typed' /\ \A k \in Call : PlaceOf(k)' /\ CourseOf(k)' /\ SeenOf(k)' /\ LinkOf(k)'
  <2>1. Typed'
    BY <1>4, CallTyped
  <2>2. PlaceOf(c)' /\ CourseOf(c)' /\ SeenOf(c)' /\ LinkOf(c)'
    BY <1>4, OwnPlace, OwnCourse, OwnSeen, OwnLink
  <2>3. \A k \in Call \ {c} : PlaceOf(k)' /\ CourseOf(k)' /\ SeenOf(k)' /\ LinkOf(k)'
    <3>1. /\ \A d \in Server : server[d] = "serving" => server'[d] = "serving"
          /\ far' = far
      BY <1>4, OwnPath DEF IInv, TypeOK
    <3>2. \A k \in Call \ {c} : Untouched(k)
      BY <1>4, OtherCalls DEF IInv
    <3> QED
      BY <3>1, <3>2, OthersKeep
  <2> QED
    BY <2>1, <2>2, <2>3
<1>5. CASE PathMoves
  BY <1>5, MovesTyped, MovesKeep
<1>6. CASE UNCHANGED vars
  <2>1. \A k \in Call : Untouched(k)
    BY <1>6 DEF vars, callVars, taskVars, Untouched
  <2>2. server' = server /\ far' = far
    BY <1>6 DEF vars, pathVars
  <2>3. Typed'
    BY <1>6, TypeParts DEF vars, callVars, taskVars, Typed, IInv
  <2> QED
    BY <2>1, <2>2, <2>3, OthersKeep
<1> QED
  BY <1>4, <1>5, <1>6 DEF Next

\* Nobody has called and no process has started.
LEMMA InitIInv == Init => IInv
<1> SUFFICES ASSUME Init PROVE IInv
  OBVIOUS
<1>1. PathTypeOK /\ PathInv
  BY ServerConstants DEF Init, PathInit, PathTypeOK, PathInv, Places, Past, Listening, Open,
                         ReachableUnlessRaced
<1>2. Typed /\ \A k \in Call : tool[k] \in Tools[k]
  BY DEF Init, Typed
<1>3. \A k \in Call : PlaceOf(k) /\ CourseOf(k) /\ SeenOf(k) /\ LinkOf(k)
  <2>1. SUFFICES ASSUME NEW k \in Call PROVE PlaceOf(k) /\ CourseOf(k) /\ SeenOf(k) /\ LinkOf(k)
    OBVIOUS
  <2>2. /\ at[k] = "idle" /\ phase[k] = "first" /\ task[k] = "none" /\ told[k] = ""
        /\ ~ timed[k] => MayWaitForever(k)
        /\ left = {} /\ \A d \in Server : seen[d] = {} /\ runs[k][d] = 0
    BY DEF Init
  <2>3. CourseOf(k) /\ PlaceOf(k) /\ LinkOf(k)
    BY <2>2 DEF PlaceOf, CourseOf, LinkOf, InHand, AfterStop
  <2>4. SeenOf(k)
    <3>1. \A d \in Server : runs[k][d] = 0 /\ k \notin seen[d] /\ <<k, d>> \notin left
      BY <2>2, Zenon
    <3>2. ~ (0 > 0)
      OBVIOUS
    <3> QED
      BY <2>2, <3>1, <3>2 DEF SeenOf
  <2> QED
    BY <2>3, <2>4
<1> QED
  BY <1>1, <1>2, <1>3, TypeParts DEF IInv, CallInv

\* The inductive invariant holds.
THEOREM Invariant == Spec => []IInv
<1> QED
  BY InitIInv, StepIInv, PTL DEF Spec

\* The variables of the path, the calls and the daemons keep their types; a call
\* has a result when it is done, and reads only what it has sent.
THEOREM TypeCorrect == Spec => []TypeOK
<1>1. IInv => TypeOK
  BY DEF IInv
<1> QED
  BY Invariant, <1>1, PTL

\* A daemon that finds the path alive leaves it alone: whatever processes start,
\* fail, are interrupted or killed, only one that never looked, or looked too
\* early, takes a live listener's path.
THEOREM Reachable == Spec => []ReachableUnlessRaced
<1>1. IInv => ReachableUnlessRaced
  BY DEF IInv, PathInv
<1> QED
  BY Invariant, <1>1, PTL

\* A request that is reported undelivered was never run, if it was sent at most
\* once.
THEOREM UndeliveredNeverRan == Spec => []NotSentNotRun
<1>1. IInv => NotSentNotRun
  <2> SUFFICES ASSUME IInv, NEW k \in Call, ~ resent[k],
                      told[k] \in {"not running", "stale", "unreachable", "broken"}
               PROVE  Ran(k) = {}
    BY DEF NotSentNotRun
  <2>1. CourseOf(k) /\ SeenOf(k)
    BY DEF IInv, CallInv
  <2>2. task[k] \in {"none", "reset"}
    BY <2>1 DEF CourseOf
  <2>3. \A d \in Server : ~ (runs[k][d] > 0)
    BY <2>1, <2>2 DEF SeenOf
  <2> QED
    BY <2>3 DEF Ran
<1> QED
  BY Invariant, <1>1, PTL

\* No daemon runs a request twice, and two run it only if it was sent again and
\* one of them has ended or lost its path.
THEOREM RunsOncePerDaemon == Spec => []RunsAgainOnlyAcrossRestart
<1>1. IInv => RunsAgainOnlyAcrossRestart
  <2> SUFFICES ASSUME IInv, NEW k \in Call
               PROVE  /\ \A d \in Server : runs[k][d] <= 1
                      /\ \A d, e \in Ran(k) : d # e =>
                            /\ resent[k]
                            /\ \E gone \in {d, e} :
                                  ~Alive(gone) \/ ~Listening(gone) \/ gone \in victims
    BY DEF RunsAgainOnlyAcrossRestart
  <2>1. SeenOf(k) /\ ReachableUnlessRaced /\ runs \in [Call -> [Server -> Nat]]
    BY DEF IInv, CallInv, PathInv, TypeOK
  <2>2. ASSUME NEW d \in Server PROVE runs[k][d] <= 1
    <3>1. runs[k] \in [Server -> Nat]
      BY <2>1
    <3>2. runs[k][d] \in Nat /\ (runs[k][d] > 0 => runs[k][d] = 1)
      BY <2>1, <3>1 DEF SeenOf
    <3> QED
      BY <3>2
  <2>3. ASSUME NEW d \in Ran(k), NEW e \in Ran(k), d # e
        PROVE  /\ resent[k]
               /\ \E gone \in {d, e} : ~Alive(gone) \/ ~Listening(gone) \/ gone \in victims
    <3>1. d \in Server /\ e \in Server /\ k \in seen[d] /\ k \in seen[e]
      BY <2>1 DEF Ran, SeenOf
    <3>2. resent[k]
      BY <2>1, <2>3, <3>1 DEF SeenOf
    <3>3. ~ (Listening(d) /\ d \notin victims /\ Listening(e) /\ e \notin victims)
      BY <2>1, <2>3, <3>1 DEF ReachableUnlessRaced
    <3> QED
      BY <3>2, <3>3
  <2> QED
    BY <2>2, <2>3
<1> QED
  BY Invariant, <1>1, PTL

\* Once the caller has the daemon's answer to a request sent once, no step of
\* anybody runs it.
THEOREM AnswerIsFinal == Spec => AnsweredIsFinal
<1>1. ASSUME IInv, [Next]_vars
      PROVE  [\A k \in Call :
                 told[k] \in {"ok", "error"} /\ ~resent[k] => Ran(k)' = Ran(k)]_vars
  <2> SUFFICES ASSUME NEW k \in Call, told[k] \in {"ok", "error"}, ~ resent[k]
               PROVE  Ran(k)' = Ran(k)
    OBVIOUS
  <2>1. CourseOf(k) /\ SeenOf(k) /\ TypeOK
    BY <1>1 DEF IInv, CallInv
  <2>2. task[k] \in {"ok", "error", "none"}
    BY <2>1 DEF CourseOf
  <2>3. \A d \in Server : <<k, d>> \notin left
    BY <2>1, <2>2 DEF SeenOf
  <2>4. runs'[k] = runs[k]
    <3>1. ASSUME NEW c \in Call, Begin(c) \/ ClientStep(c)
          PROVE  runs' = runs
      BY <3>1 DEF Begin, ClientStep, Absent, AbsentInLoop, Present, LoopEnds, Spawn, NoTerminal,
              Probe1, Probe2, ProbeBusy, RemovePath, Connect, ConnectFails, ReadAnswer,
              ReadReset, Resend, GiveUp, ReadTimesOut, taskVars
    <3>2. ASSUME NEW c \in Call, Busy(c) \/ Duplicate(c) \/ Take(c) \/ Finish(c) \/ Panic(c)
          PROVE  runs' = runs
      BY <3>2 DEF Busy, Duplicate, Take, Finish, Panic
    <3>3. ASSUME NEW c \in Call, Decide(c) \/ \E d \in Server : DecideLeft(c, d)
          PROVE  runs'[k] = runs[k]
      <4>1. c # k
        BY <2>2, <2>3, <3>3 DEF Decide, DecideLeft
      <4>2. \/ runs' = runs
            \/ \E d : runs' = [runs EXCEPT ![c][d] = @ + 1]
        BY <3>3 DEF Decide, DecideLeft
      <4> QED
        BY <2>1, <4>1, <4>2 DEF TypeOK
    <3>4. ASSUME PathMoves \/ UNCHANGED vars
          PROVE  runs' = runs
      BY <3>4 DEF PathMoves, vars, taskVars
    <3> QED
      BY <1>1, <3>1, <3>2, <3>3, <3>4 DEF Next, HandlerStep
  <2> QED
    BY <2>4 DEF Ran
<1> QED
  BY Invariant, <1>1, PTL DEF Spec, AnsweredIsFinal

\* What start_server calls started is what the next call will reach.
THEOREM StartedReachable == Spec => []StartedIsReachable
<1>1. IInv => StartedIsReachable
  <2> SUFFICES ASSUME IInv, NEW k \in Call, told[k] \in {"started", "already"},
                      peer[k] \notin victims, Listening(peer[k]),
                      ~ (conn[k] \in Server /\ ~ Alive(conn[k]))
               PROVE  path = peer[k] /\ conn[k] = Behind(path)
    BY DEF StartedIsReachable
  <2>1. peer[k] \in Server /\ conn[k] \in Server /\ (kind = "local" => conn[k] = peer[k])
    BY DEF IInv, CallInv, CourseOf
  <2>2. path = peer[k]
    BY <2>1 DEF IInv, PathInv, ReachableUnlessRaced
  <2>3. CASE kind = "local"
    BY <2>1, <2>2, <2>3, BehindType
  <2>4. CASE kind # "local"
    <3>1. far[conn[k]]
      BY <2>1, <2>4 DEF Alive
    <3> QED
      BY <2>1, <2>2, <2>4, <3>1, BehindType DEF IInv, PathInv
  <2> QED
    BY <2>3, <2>4
<1> QED
  BY Invariant, <1>1, PTL

\* A read without a time limit waits on a daemon that lives, or that will read
\* the request.
THEOREM UnboundedReadIsServed == Spec => []UnboundedReadOnLiveDaemon
<1>1. IInv => UnboundedReadOnLiveDaemon
  <2> SUFFICES ASSUME IInv, NEW k \in Call, ~ timed[k],
                      task[k] \in {"sent", "deciding", "running"}
               PROVE  /\ Listening(peer[k])
                      /\ IF task[k] = "sent" THEN Serving(conn[k]) ELSE Alive(conn[k])
    BY DEF UnboundedReadOnLiveDaemon
  <2>1. kind = "tunnel"
    BY DEF IInv, CallInv, CourseOf, MayWaitForever
  <2>2. server[peer[k]] = "serving" /\ far[conn[k]]
    BY <2>1 DEF IInv, CallInv, LinkOf, InHand
  <2> QED
    BY <2>1, <2>2 DEF Listening, Open, Serving, Alive
<1> QED
  BY Invariant, <1>1, PTL
================================================================================

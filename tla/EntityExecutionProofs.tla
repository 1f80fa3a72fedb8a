---------------------- MODULE EntityExecutionProofs ----------------------
(***************************************************************************)
(* What EntityExecution promises, for every set of entities, servers and   *)
(* execution IDs and for every bound: types, mutual exclusion under the    *)
(* lease, no silent loss of events.                                        *)
(*                                                                         *)
(* The inductive invariant Inv has four parts.  Shape relates the fields   *)
(* of a thread's record to its program counter.  Locks says that the       *)
(* thread that carries an execution ID, first the topic handler and then   *)
(* the goroutine, is the only one, and that an execution that has not      *)
(* lapsed still holds a fresh lock.  Events is NoSilentLoss itself with    *)
(* the fact that only entities that exist are waited for.                  *)
(***************************************************************************)
EXTENDS EntityExecution, TLAPS

-----------------------------------------------------------------------------
(* Types and the shape of the threads *)

\* The handler knows its entity while it works, and its ID once it has the lock.
AggShape ==
    \A s \in Server :
        \/ agg[s].pc = "idle" /\ agg[s].ent = None /\ agg[s].id = None
        \/ agg[s].pc \in {"lock", "enqueue"} /\ agg[s].ent \in Entity /\ agg[s].id = None
        \/ agg[s].pc = "handle" /\ agg[s].ent \in Entity /\ agg[s].id \in ExecID

\* A flush that is under way knows its entity.
FlushShape == \A t \in FlushThread : flush[t].pc # "idle" => flush[t].ent \in Entity

\* A goroutine knows its entity and its server until it ends.
ExecShape ==
    \A x \in ExecID :
        \/ exec[x].pc = "none" /\ exec[x].ent = None /\ exec[x].srv = None
        \/ exec[x].pc # "none" /\ exec[x].ent \in Entity /\ exec[x].srv \in Server

Shape == AggShape /\ FlushShape /\ ExecShape

\* The initial state has the types and the shape.
LEMMA TypeInit == Init => TypeOK /\ Shape
  BY ConstantsAssumption DEF Init, TypeOK, Shape, AggShape, FlushShape, ExecShape,
     AggState, FlushState, ExecState, AggIdle, FlushIdle, NotRunning, ServerState

\* So does the state after a process ended.
LEMMA EndsType ==
    ASSUME TypeOK, Shape, faults' \in Nat, NEW s \in Server, ProcessEnds(s)
    PROVE  (TypeOK /\ Shape)'
<1> USE ConstantsAssumption
    DEF TypeOK, Shape, AggShape, FlushShape, ExecShape, AggState, FlushState, ExecState,
        AggIdle, FlushIdle, NotRunning, ServerState, dbVars, Add
<1>1. server' \in [Server -> ServerState] /\ bootList' \in [Server -> SUBSET Entity]
  BY DEF ProcessEnds
<1>2. agg' \in [Server -> AggState] /\ AggShape'
  BY DEF ProcessEnds
<1>3. flush' \in [FlushThread -> FlushState] /\ FlushShape'
  BY DEF ProcessEnds
<1>4. exec' \in [ExecID -> ExecState] /\ ExecShape'
  BY DEF ProcessEnds
<1>5. <<s, "handler">> \in FlushThread
  BY DEF FlushThread
<1>6. evalTopic' \in [Entity -> Nat] /\ flushTopic' \in [Entity -> Nat]
  <2>1. evalTopic' \in [Entity -> Nat]
    BY DEF ProcessEnds
  <2>2. \/ flushTopic' = flushTopic
        \/ flushTopic' = [e \in Entity |-> 0]
        \/ \E e \in Entity : flushTopic' = [flushTopic EXCEPT ![e] = @ + 1]
    <3>1. flush[<<s, "handler">>].pc # "idle" => flush[<<s, "handler">>].ent \in Entity
      BY <1>5
    <3> QED BY ONLY <3>1, ProcessEnds(s) DEF ProcessEnds, Add
  <2> QED BY <2>1, <2>2
<1>7. lost' \subseteq Entity
  <2> DEFINE cut == {x \in ExecID : exec[x].srv = s /\ exec[x].pc \in {"start", "rules"}}
             held == {t \in FlushThread : t[1] = s /\ flush[t].pc = "publish"}
  <2>1. \A x \in cut : exec[x].ent \in Entity
    OBVIOUS
  <2>2. \A t \in held : flush[t].ent \in Entity
    OBVIOUS
  <2>3. lost' \subseteq lost \cup {exec[x].ent : x \in cut} \cup {flush[t].ent : t \in held}
                          \cup Entity
    BY DEF ProcessEnds
  <2> QED BY <2>1, <2>2, <2>3
<1>8. /\ exists' \subseteq Entity
      /\ lockedBy' \in [Entity -> ExecID \cup {None}]
      /\ fresh' \subseteq Entity
      /\ flushCache' \subseteq Entity
      /\ cancelled' \subseteq ExecID
      /\ covers' \subseteq ExecID
      /\ unserved' \subseteq Entity
      /\ lapsed' \subseteq ExecID
  BY DEF ProcessEnds
<1> QED
  BY <1>1, <1>2, <1>3, <1>4, <1>6, <1>7, <1>8

\* Every step keeps the types and the shape.
LEMMA TypeStep == TypeOK /\ Shape /\ [Next]_vars => (TypeOK /\ Shape)'
<1> SUFFICES ASSUME TypeOK, Shape, [Next]_vars PROVE (TypeOK /\ Shape)'
  OBVIOUS
<1> USE ConstantsAssumption
    DEF TypeOK, Shape, AggShape, FlushShape, ExecShape, AggState, FlushState, ExecState,
        AggIdle, FlushIdle, NotRunning, ServerState, dbVars, topicVars, execVars, procVars,
        ghostVars, Add, Take, Fault, Lose, FlushThread, UpdateLease, EnqueueFlush,
        FlushCache, Running
<1>1. ASSUME NEW e \in Entity, NEW mark \in BOOLEAN, Event(e, mark) PROVE (TypeOK /\ Shape)'
  BY <1>1 DEF Event
<1>2. ASSUME NEW e \in Entity, DeleteEntity(e) PROVE (TypeOK /\ Shape)'
  BY <1>2 DEF DeleteEntity
<1>3. ASSUME NEW e \in Entity, LeaseExpires(e) PROVE (TypeOK /\ Shape)'
  BY <1>3 DEF LeaseExpires
<1>4. ASSUME NEW e \in Entity, Redeliver(e) PROVE (TypeOK /\ Shape)'
  BY <1>4 DEF Redeliver
<1>5. ASSUME NEW s \in Server, NEW e \in Entity, ReceiveEvaluate(s, e) PROVE (TypeOK /\ Shape)'
  BY <1>5 DEF ReceiveEvaluate
<1>6. ASSUME NEW s \in Server, AggregateNotFound(s) PROVE (TypeOK /\ Shape)'
  BY <1>6 DEF AggregateNotFound
<1>7. ASSUME NEW s \in Server, NEW x \in ExecID, AggregateLock(s, x) PROVE (TypeOK /\ Shape)'
  BY <1>7 DEF AggregateLock
<1>8. ASSUME NEW s \in Server, AggregateRefused(s) PROVE (TypeOK /\ Shape)'
  BY <1>8 DEF AggregateRefused
<1>9. ASSUME NEW s \in Server, AggregateEnqueue(s) PROVE (TypeOK /\ Shape)'
  BY <1>9 DEF AggregateEnqueue
<1>10. ASSUME NEW s \in Server, AggregateError(s) PROVE (TypeOK /\ Shape)'
  <2>1. agg[s].ent \in Entity /\ agg[s].tries \in Nat
    BY <1>10 DEF AggregateError
  <2>2. agg' \in [Server -> AggState] /\ AggShape'
    <3>1. CASE agg' = [agg EXCEPT ![s] = AggIdle]
      BY <3>1
    <3>2. CASE agg' = [agg EXCEPT ![s] = [pc |-> "lock", ent |-> agg[s].ent, id |-> None,
                                          tries |-> agg[s].tries + 1]]
      BY <2>1, <3>2
    <3> QED BY <1>10, <3>1, <3>2 DEF AggregateError
  <2>3. faults' \in Nat /\ lost' \subseteq Entity
    BY <1>10, <2>1 DEF AggregateError
  <2> QED BY <1>10, <2>2, <2>3 DEF AggregateError
<1>11. ASSUME NEW s \in Server, HandleEntityEvent(s) PROVE (TypeOK /\ Shape)'
  BY <1>11 DEF HandleEntityEvent
<1>12. ASSUME NEW s \in Server, HandleEntityEventClosed(s) PROVE (TypeOK /\ Shape)'
  BY <1>12 DEF HandleEntityEventClosed
<1>13. ASSUME NEW x \in ExecID, BeginEval(x) PROVE (TypeOK /\ Shape)'
  <2>1. exec' \in [ExecID -> ExecState] /\ ExecShape'
    BY <1>13 DEF BeginEval
  <2>2. covers' \subseteq ExecID
    BY <1>13 DEF BeginEval
  <2> QED BY <1>13, <2>1, <2>2 DEF BeginEval
<1>14. ASSUME NEW x \in ExecID, BeginEvalFails(x) PROVE (TypeOK /\ Shape)'
  BY <1>14 DEF BeginEvalFails
<1>15. ASSUME NEW x \in ExecID, EvaluateRule(x) PROVE (TypeOK /\ Shape)'
  BY <1>15 DEF EvaluateRule
<1>16. ASSUME NEW x \in ExecID, FinishRules(x) PROVE (TypeOK /\ Shape)'
  <2>1. exec' \in [ExecID -> ExecState] /\ ExecShape'
    BY <1>16 DEF FinishRules
  <2>2. covers' \subseteq ExecID /\ unserved' \subseteq Entity /\ lost' \subseteq Entity
    BY <1>16 DEF FinishRules
  <2> QED BY <1>16, <2>1, <2>2 DEF FinishRules
<1>17. ASSUME NEW x \in ExecID, RulesFail(x) PROVE (TypeOK /\ Shape)'
  <2>1. exec[x] \in ExecState /\ exec[x].ent \in Entity /\ exec[x].srv \in Server
    BY <1>17 DEF RulesFail
  <2>2. exec' \in [ExecID -> ExecState] /\ ExecShape'
    <3>1. exec' = [exec EXCEPT ![x] = [exec[x] EXCEPT !.pc = "release"]]
      BY <1>17 DEF RulesFail
    <3> QED BY <2>1, <3>1
  <2>3. /\ fresh' \subseteq Entity /\ faults' \in Nat
        /\ lost' \subseteq Entity /\ covers' \subseteq ExecID
    BY <1>17, <2>1 DEF RulesFail
  <2> QED BY <1>17, <2>2, <2>3 DEF RulesFail
<1>18. ASSUME NEW x \in ExecID, ReleaseLock(x) PROVE (TypeOK /\ Shape)'
  BY <1>18 DEF ReleaseLock
<1>19. ASSUME NEW x \in ExecID, ReleaseLockFails(x) PROVE (TypeOK /\ Shape)'
  BY <1>19 DEF ReleaseLockFails
<1>20. ASSUME NEW x \in ExecID, PublishFlush(x) PROVE (TypeOK /\ Shape)'
  BY <1>20 DEF PublishFlush
<1>21. ASSUME NEW x \in ExecID, PublishFlushFails(x) PROVE (TypeOK /\ Shape)'
  BY <1>21 DEF PublishFlushFails
<1>22. ASSUME NEW x \in ExecID, Timeout(x) PROVE (TypeOK /\ Shape)'
  BY <1>22 DEF Timeout
<1>23. ASSUME NEW t \in FlushThread, FlushCacheHit(t) PROVE (TypeOK /\ Shape)'
  <2>1. flush' = [flush EXCEPT ![t] = [flush[t] EXCEPT !.pc = "publish"]]
    BY <1>23 DEF FlushCacheHit
  <2>2. flush[t] \in FlushState /\ flush[t].ent \in Entity
    BY <1>23 DEF FlushCacheHit
  <2>3. flush' \in [FlushThread -> FlushState] /\ FlushShape'
    BY <2>1, <2>2
  <2> QED BY <1>23, <2>3 DEF FlushCacheHit
<1>24. ASSUME NEW t \in FlushThread, FlushCacheMiss(t) PROVE (TypeOK /\ Shape)'
  BY <1>24 DEF FlushCacheMiss
<1>25. ASSUME NEW t \in FlushThread, FlushPublish(t) PROVE (TypeOK /\ Shape)'
  BY <1>25 DEF FlushPublish
<1>26. ASSUME NEW s \in Server, NEW e \in Entity, ReceiveFlush(s, e) PROVE (TypeOK /\ Shape)'
  BY <1>26 DEF ReceiveFlush
<1>27. ASSUME NEW s \in Server, NEW e \in Entity, FlushAllNext(s, e) PROVE (TypeOK /\ Shape)'
  BY <1>27 DEF FlushAllNext
<1>28. ASSUME NEW s \in Server, FlushError(s) PROVE (TypeOK /\ Shape)'
  <2>1. PICK t \in FlushThread : t = <<s, "handler">>
    OBVIOUS
  <2>2. flush[t].pc # "idle" /\ flush[t].ent \in Entity /\ flush[t].tries \in Nat
    BY <1>28, <2>1 DEF FlushError
  <2> HIDE DEF FlushThread
  <2>3. flush' \in [FlushThread -> FlushState] /\ FlushShape'
    <3>1. CASE flush' = [flush EXCEPT ![t] = FlushIdle]
      BY <3>1
    <3>2. CASE flush' = [flush EXCEPT ![t] = [pc |-> "delete", ent |-> flush[t].ent,
                                              tries |-> flush[t].tries + 1]]
      BY <2>2, <3>2
    <3> QED BY <1>28, <2>1, <3>1, <3>2 DEF FlushError
  <2>4. lost' = lost \/ lost' = lost \cup {flush[t].ent}
    BY ONLY <1>28, <2>1 DEF FlushError, Lose
  <2>5. faults' \in Nat /\ lost' \subseteq Entity
    BY <1>28, <2>2, <2>4 DEF FlushError
  <2> QED BY <1>28, <2>3, <2>5 DEF FlushError
<1>29. ASSUME NEW s \in Server, Start(s) PROVE (TypeOK /\ Shape)'
  BY <1>29 DEF Start
<1>30. ASSUME NEW s \in Server, ListFlushCache(s) PROVE (TypeOK /\ Shape)'
  BY <1>30 DEF ListFlushCache
<1>31. ASSUME NEW s \in Server, FlushAllDone(s) PROVE (TypeOK /\ Shape)'
  BY <1>31 DEF FlushAllDone
<1>32. ASSUME NEW s \in Server, FlushAllFails(s) PROVE (TypeOK /\ Shape)'
  <2>1. faults' \in Nat /\ ProcessEnds(s)
    BY <1>32 DEF FlushAllFails
  <2> QED BY ONLY TypeOK, Shape, <2>1, EndsType
<1>33. ASSUME NEW s \in Server, WaitReturns(s) PROVE (TypeOK /\ Shape)'
  BY <1>33 DEF WaitReturns
<1>34. ASSUME NEW s \in Server, Crash(s) PROVE (TypeOK /\ Shape)'
  <2>1. faults' \in Nat /\ ProcessEnds(s)
    BY <1>34 DEF Crash
  <2> QED BY ONLY TypeOK, Shape, <2>1, EndsType
<1>35. ASSUME NEW s \in Server, Shutdown(s) PROVE (TypeOK /\ Shape)'
  BY <1>35 DEF Shutdown
<1>36. ASSUME NEW s \in Server, Exit(s) PROVE (TypeOK /\ Shape)'
  <2>1. faults' \in Nat /\ ProcessEnds(s)
    BY <1>36 DEF Exit
  <2> QED BY ONLY TypeOK, Shape, <2>1, EndsType
<1>37. CASE UNCHANGED vars
  BY <1>37 DEF vars
<1>38. ASSUME NEW e \in Entity, Environment(e) PROVE (TypeOK /\ Shape)'
  BY ONLY <1>38, <1>1, <1>2, <1>3, <1>4 DEF Environment
<1>39. ASSUME NEW s \in Server, AggregatorStep(s) PROVE (TypeOK /\ Shape)'
  BY ONLY <1>39, <1>5, <1>6, <1>7, <1>8, <1>9, <1>10, <1>11, <1>12 DEF AggregatorStep
<1>40. ASSUME NEW x \in ExecID, ExecutionStep(x) PROVE (TypeOK /\ Shape)'
  BY ONLY <1>40, <1>13, <1>14, <1>15, <1>16, <1>17, <1>18, <1>19, <1>20, <1>21,
          <1>22 DEF ExecutionStep
<1>41. ASSUME NEW t \in FlushThread, FlushStep(t) PROVE (TypeOK /\ Shape)'
  BY ONLY <1>41, <1>23, <1>24, <1>25 DEF FlushStep
<1>42. ASSUME NEW s \in Server, ServerStep(s) PROVE (TypeOK /\ Shape)'
  BY ONLY <1>42, <1>26, <1>27, <1>28, <1>29, <1>30, <1>31,
          <1>32, <1>33, <1>34, <1>35, <1>36 DEF ServerStep
<1> QED
  BY ONLY [Next]_vars, <1>37, <1>38, <1>39, <1>40, <1>41, <1>42 DEF Next

-----------------------------------------------------------------------------
(* The execution lock *)

\* An execution ID is in the hands of one handler or of one goroutine.
OneThread ==
    /\ \A s \in Server : agg[s].pc = "handle" => exec[agg[s].id].pc = "none"
    /\ \A s, u \in Server :
         agg[s].pc = "handle" /\ agg[u].pc = "handle" /\ agg[s].id = agg[u].id => s = u

\* The lock that the handler took is still its own and fresh, unless it lapsed.
HandlerKeeps ==
    \A s \in Server : agg[s].pc = "handle" /\ agg[s].id \notin lapsed =>
        lockedBy[agg[s].ent] = agg[s].id /\ agg[s].ent \in fresh

\* So is the lock of an evaluation under way.
GoroutineKeeps ==
    \A x \in ExecID : Running(x) /\ x \notin lapsed =>
        lockedBy[exec[x].ent] = x /\ exec[x].ent \in fresh

Locks == OneThread /\ HandlerKeeps /\ GoroutineKeeps

\* Locks survives a step that takes no lock away, hands out none and starts no
\* goroutine.
LEMMA LocksFrame ==
    ASSUME TypeOK, Shape, Locks,
           lockedBy' = lockedBy, fresh \subseteq fresh', lapsed' = lapsed,
           \A s \in Server : agg'[s].pc = "handle" => agg'[s] = agg[s],
           \A x \in ExecID : exec'[x].pc \in {"start", "rules", "release"} =>
               exec[x].pc \in {"start", "rules", "release"} /\ exec'[x].ent = exec[x].ent,
           \A x \in ExecID : exec[x].pc = "none" => exec'[x].pc = "none"
    PROVE  Locks'
<1>1. OneThread'
  BY DEF TypeOK, Shape, AggShape, Locks, OneThread
<1>2. HandlerKeeps'
  BY DEF TypeOK, Shape, AggShape, Locks, HandlerKeeps
<1>3. GoroutineKeeps'
  BY DEF Locks, GoroutineKeeps, Running
<1> QED
  BY <1>1, <1>2, <1>3 DEF Locks

\* No lock is taken in the initial state.
LEMMA LocksInit == Init => Locks
  BY DEF Init, Locks, OneThread, HandlerKeeps, GoroutineKeeps, Running, AggIdle, NotRunning

\* Every step keeps Locks.  The steps that matter are the lock query, which takes
\* over only locks whose holder has lapsed, the hand-over to the goroutine, the
\* release, the expiry of a lease and the deletion of an entity.
LEMMA LocksStep == TypeOK /\ Shape /\ Locks /\ [Next]_vars => Locks'
<1> SUFFICES ASSUME TypeOK, Shape, Locks, [Next]_vars PROVE Locks'
  OBVIOUS
<1> DEFINE Frame ==
      /\ lockedBy' = lockedBy /\ fresh \subseteq fresh' /\ lapsed' = lapsed
      /\ \A s \in Server : agg'[s].pc = "handle" => agg'[s] = agg[s]
      /\ \A x \in ExecID : exec'[x].pc \in {"start", "rules", "release"} =>
            exec[x].pc \in {"start", "rules", "release"} /\ exec'[x].ent = exec[x].ent
      /\ \A x \in ExecID : exec[x].pc = "none" => exec'[x].pc = "none"
<1>0. Frame => Locks'
  BY LocksFrame
<1> USE ConstantsAssumption
    DEF TypeOK, Shape, AggShape, ExecShape, AggState, ExecState, AggIdle, NotRunning
<1>1. ASSUME NEW e \in Entity, NEW mark \in BOOLEAN, Event(e, mark) PROVE Locks'
  <2>1. Frame
    BY <1>1 DEF Event, dbVars, procVars, execVars, ghostVars
  <2> QED
    BY <1>0, <2>1
<1>2. ASSUME NEW e \in Entity, DeleteEntity(e) PROVE Locks'
  <2> USE DEF Locks, OneThread, HandlerKeeps, GoroutineKeeps, Running
  <2>1. \A f \in Entity : f # e => lockedBy'[f] = lockedBy[f] /\ (f \in fresh => f \in fresh')
    BY <1>2 DEF DeleteEntity
  <2>2. lapsed' = lapsed \cup ({lockedBy[e]} \cap ExecID) /\ agg' = agg /\ exec' = exec
    BY <1>2 DEF DeleteEntity, procVars, execVars
  <2> QED
    BY <2>1, <2>2
<1>3. ASSUME NEW e \in Entity, LeaseExpires(e) PROVE Locks'
  BY <1>3
  DEF Locks, OneThread, HandlerKeeps, GoroutineKeeps, Running, LeaseExpires, procVars, execVars
<1>4. ASSUME NEW e \in Entity, Redeliver(e) PROVE Locks'
  <2>1. Frame
    BY <1>4 DEF Redeliver, dbVars, procVars, execVars, ghostVars
  <2> QED
    BY <1>0, <2>1
<1>5. ASSUME NEW s \in Server, NEW e \in Entity, ReceiveEvaluate(s, e) PROVE Locks'
  <2>1. Frame
    BY <1>5 DEF ReceiveEvaluate, dbVars, procVars, execVars, ghostVars
  <2> QED
    BY <1>0, <2>1
<1>6. ASSUME NEW s \in Server, AggregateNotFound(s) PROVE Locks'
  <2>1. Frame
    BY <1>6 DEF AggregateNotFound, dbVars, procVars, execVars, ghostVars
  <2> QED
    BY <1>0, <2>1
<1>7. ASSUME NEW s \in Server, NEW x \in ExecID, AggregateLock(s, x) PROVE Locks'
  <2> USE DEF Locks, OneThread, HandlerKeeps, GoroutineKeeps, Running
  <2> DEFINE e == agg[s].ent
  <2>1. /\ e \in Entity
        /\ lockedBy[e] = None \/ e \notin fresh
        /\ lockedBy' = [lockedBy EXCEPT ![e] = x]
        /\ fresh' = fresh \cup {e}
        /\ lapsed' = lapsed \ {x}
        /\ agg' = [agg EXCEPT ![s] = [pc |-> "handle", ent |-> e, id |-> x, tries |-> 0]]
        /\ exec' = exec
    BY <1>7 DEF AggregateLock, LockAvailable, execVars
  <2>2. exec[x].pc = "none" /\ \A u \in Server : agg[u].id # x
    BY <1>7 DEF AggregateLock, FreeID
  <2>3. OneThread'
    BY <2>1, <2>2
  <2>4. HandlerKeeps'
    BY <2>1, <2>2
  <2>5. GoroutineKeeps'
    BY <2>1, <2>2
  <2> QED
    BY <2>3, <2>4, <2>5
<1>8. ASSUME NEW s \in Server, AggregateRefused(s) PROVE Locks'
  <2>1. Frame
    BY <1>8 DEF AggregateRefused, dbVars, procVars, execVars, ghostVars
  <2> QED
    BY <1>0, <2>1
<1>9. ASSUME NEW s \in Server, AggregateEnqueue(s) PROVE Locks'
  <2>1. Frame
    BY <1>9 DEF AggregateEnqueue, dbVars, procVars, execVars, ghostVars
  <2> QED
    BY <1>0, <2>1
<1>10. ASSUME NEW s \in Server, AggregateError(s) PROVE Locks'
  <2>1. Frame
    BY <1>10 DEF AggregateError, dbVars, procVars, execVars, ghostVars
  <2> QED
    BY <1>0, <2>1
<1>11. ASSUME NEW s \in Server, HandleEntityEvent(s) PROVE Locks'
  <2> USE DEF Locks, OneThread, HandlerKeeps, GoroutineKeeps, Running
  <2> DEFINE x == agg[s].id
  <2>1. /\ agg[s].pc = "handle" /\ x \in ExecID /\ agg[s].ent \in Entity
        /\ exec' = [exec EXCEPT ![x] = [pc |-> "start", ent |-> agg[s].ent, srv |-> s]]
        /\ agg' = [agg EXCEPT ![s] = AggIdle]
        /\ lockedBy' = lockedBy /\ fresh' = fresh /\ lapsed' = lapsed
    BY <1>11 DEF HandleEntityEvent, dbVars, ghostVars
  <2>2. OneThread'
    BY <2>1
  <2>3. HandlerKeeps' /\ GoroutineKeeps'
    BY <2>1
  <2> QED
    BY <2>2, <2>3
<1>12. ASSUME NEW s \in Server, HandleEntityEventClosed(s) PROVE Locks'
  <2>1. Frame
    BY <1>12 DEF HandleEntityEventClosed, dbVars, procVars, execVars, ghostVars
  <2> QED
    BY <1>0, <2>1
<1>13. ASSUME NEW x \in ExecID, BeginEval(x) PROVE Locks'
  <2>1. Frame
    BY <1>13 DEF BeginEval, dbVars, procVars, execVars, ghostVars
  <2> QED
    BY <1>0, <2>1
<1>14. ASSUME NEW x \in ExecID, BeginEvalFails(x) PROVE Locks'
  <2>1. Frame
    BY <1>14 DEF BeginEvalFails, dbVars, procVars, execVars, ghostVars
  <2> QED
    BY <1>0, <2>1
<1>15. ASSUME NEW x \in ExecID, EvaluateRule(x) PROVE Locks'
  <2>1. Frame
    BY <1>15 DEF EvaluateRule, UpdateLease, dbVars, procVars, execVars, ghostVars
  <2> QED
    BY <1>0, <2>1
<1>16. ASSUME NEW x \in ExecID, FinishRules(x) PROVE Locks'
  <2>1. Frame
    BY <1>16 DEF FinishRules, dbVars, procVars, execVars, ghostVars
  <2> QED
    BY <1>0, <2>1
<1>17. ASSUME NEW x \in ExecID, RulesFail(x) PROVE Locks'
  <2>1. Frame
    BY <1>17 DEF RulesFail, UpdateLease, dbVars, procVars, execVars, ghostVars
  <2> QED
    BY <1>0, <2>1
<1>18. ASSUME NEW x \in ExecID, ReleaseLock(x) PROVE Locks'
  <2> USE DEF Locks, OneThread, HandlerKeeps, GoroutineKeeps, Running
  <2> DEFINE e == exec[x].ent
  <2>1. exec[x].pc = "release" /\ e \in Entity
    BY <1>18 DEF ReleaseLock
  <2>2. /\ exec' = [exec EXCEPT ![x] = [@ EXCEPT !.pc = "flush"]]
        /\ agg' = agg /\ lapsed' = lapsed
    BY <1>18 DEF ReleaseLock, ghostVars
  <2>3. \/ lockedBy' = lockedBy /\ fresh' = fresh
        \/ lockedBy[e] = x /\ lockedBy' = [lockedBy EXCEPT ![e] = None] /\ fresh' = fresh \ {e}
    BY <1>18 DEF ReleaseLock, Owns
  <2>4. \A s \in Server : agg[s].pc = "handle" => agg[s].id # x
    BY <2>1
  <2>5. OneThread'
    BY <2>1, <2>2
  <2>6. HandlerKeeps'
    BY <2>1, <2>2, <2>3, <2>4
  <2>7. GoroutineKeeps'
    BY <2>1, <2>2, <2>3
  <2> QED
    BY <2>5, <2>6, <2>7
<1>19. ASSUME NEW x \in ExecID, ReleaseLockFails(x) PROVE Locks'
  <2>1. Frame
    BY <1>19 DEF ReleaseLockFails, dbVars, procVars, execVars, ghostVars
  <2> QED
    BY <1>0, <2>1
<1>20. ASSUME NEW x \in ExecID, PublishFlush(x) PROVE Locks'
  <2>1. Frame
    BY <1>20 DEF PublishFlush, dbVars, procVars, execVars, ghostVars
  <2> QED
    BY <1>0, <2>1
<1>21. ASSUME NEW x \in ExecID, PublishFlushFails(x) PROVE Locks'
  <2>1. Frame
    BY <1>21 DEF PublishFlushFails, dbVars, procVars, execVars, ghostVars
  <2> QED
    BY <1>0, <2>1
<1>22. ASSUME NEW x \in ExecID, Timeout(x) PROVE Locks'
  <2>1. Frame
    BY <1>22 DEF Timeout, dbVars, procVars, execVars, ghostVars
  <2> QED
    BY <1>0, <2>1
<1>23. ASSUME NEW t \in FlushThread, FlushCacheHit(t) PROVE Locks'
  <2>1. Frame
    BY <1>23 DEF FlushCacheHit, dbVars, procVars, execVars, ghostVars
  <2> QED
    BY <1>0, <2>1
<1>24. ASSUME NEW t \in FlushThread, FlushCacheMiss(t) PROVE Locks'
  <2>1. Frame
    BY <1>24 DEF FlushCacheMiss, dbVars, procVars, execVars, ghostVars
  <2> QED
    BY <1>0, <2>1
<1>25. ASSUME NEW t \in FlushThread, FlushPublish(t) PROVE Locks'
  <2>1. Frame
    BY <1>25 DEF FlushPublish, dbVars, procVars, execVars, ghostVars
  <2> QED
    BY <1>0, <2>1
<1>26. ASSUME NEW s \in Server, NEW e \in Entity, ReceiveFlush(s, e) PROVE Locks'
  <2>1. Frame
    BY <1>26 DEF ReceiveFlush, dbVars, procVars, execVars, ghostVars
  <2> QED
    BY <1>0, <2>1
<1>27. ASSUME NEW s \in Server, NEW e \in Entity, FlushAllNext(s, e) PROVE Locks'
  <2>1. Frame
    BY <1>27 DEF FlushAllNext, dbVars, procVars, execVars, ghostVars
  <2> QED
    BY <1>0, <2>1
<1>28. ASSUME NEW s \in Server, FlushError(s) PROVE Locks'
  <2>1. Frame
    BY <1>28 DEF FlushError, dbVars, procVars, execVars, ghostVars
  <2> QED
    BY <1>0, <2>1
<1>29. ASSUME NEW s \in Server, Start(s) PROVE Locks'
  <2>1. Frame
    BY <1>29 DEF Start, dbVars, procVars, execVars, ghostVars
  <2> QED
    BY <1>0, <2>1
<1>30. ASSUME NEW s \in Server, ListFlushCache(s) PROVE Locks'
  <2>1. Frame
    BY <1>30 DEF ListFlushCache, dbVars, procVars, execVars, ghostVars
  <2> QED
    BY <1>0, <2>1
<1>31. ASSUME NEW s \in Server, FlushAllDone(s) PROVE Locks'
  <2>1. Frame
    BY <1>31 DEF FlushAllDone, dbVars, procVars, execVars, ghostVars
  <2> QED
    BY <1>0, <2>1
<1>32. ASSUME NEW s \in Server, FlushAllFails(s) PROVE Locks'
  <2>1. Frame
    BY <1>32 DEF FlushAllFails, ProcessEnds, dbVars, procVars, execVars, ghostVars
  <2> QED
    BY <1>0, <2>1
<1>33. ASSUME NEW s \in Server, WaitReturns(s) PROVE Locks'
  <2>1. Frame
    BY <1>33 DEF WaitReturns, dbVars, procVars, execVars, ghostVars
  <2> QED
    BY <1>0, <2>1
<1>34. ASSUME NEW s \in Server, Crash(s) PROVE Locks'
  <2>1. Frame
    BY <1>34 DEF Crash, ProcessEnds, dbVars, procVars, execVars, ghostVars
  <2> QED
    BY <1>0, <2>1
<1>35. ASSUME NEW s \in Server, Shutdown(s) PROVE Locks'
  <2>1. Frame
    BY <1>35 DEF Shutdown, dbVars, procVars, execVars, ghostVars
  <2> QED
    BY <1>0, <2>1
<1>36. ASSUME NEW s \in Server, Exit(s) PROVE Locks'
  <2>1. Frame
    BY <1>36 DEF Exit, ProcessEnds, dbVars, procVars, execVars, ghostVars
  <2> QED
    BY <1>0, <2>1
<1>37. CASE UNCHANGED vars
  <2>1. Frame
    BY <1>37 DEF vars, dbVars, procVars, execVars, ghostVars
  <2> QED
    BY <1>0, <2>1
<1>38. ASSUME NEW e \in Entity, Environment(e) PROVE Locks'
  BY ONLY <1>38, <1>1, <1>2, <1>3, <1>4 DEF Environment
<1>39. ASSUME NEW s \in Server, AggregatorStep(s) PROVE Locks'
  BY ONLY <1>39, <1>5, <1>6, <1>7, <1>8, <1>9, <1>10, <1>11, <1>12 DEF AggregatorStep
<1>40. ASSUME NEW x \in ExecID, ExecutionStep(x) PROVE Locks'
  BY ONLY <1>40, <1>13, <1>14, <1>15, <1>16, <1>17, <1>18, <1>19, <1>20, <1>21,
          <1>22 DEF ExecutionStep
<1>41. ASSUME NEW t \in FlushThread, FlushStep(t) PROVE Locks'
  BY ONLY <1>41, <1>23, <1>24, <1>25 DEF FlushStep
<1>42. ASSUME NEW s \in Server, ServerStep(s) PROVE Locks'
  BY ONLY <1>42, <1>26, <1>27, <1>28, <1>29, <1>30, <1>31,
          <1>32, <1>33, <1>34, <1>35, <1>36 DEF ServerStep
<1> QED
  BY ONLY [Next]_vars, <1>37, <1>38, <1>39, <1>40, <1>41, <1>42 DEF Next

-----------------------------------------------------------------------------
(* The events *)

\* Only entities that exist are waited for.
WaitedFor == unserved \subseteq exists

Events == WaitedFor /\ NoSilentLoss

\* No event is waited for in the initial state.
LEMMA EventsInit == Init => Events
  BY DEF Init, Events, WaitedFor, NoSilentLoss

\* The end of a process puts the messages it held back on the topic or loses them
\* at a fault point.
LEMMA EndsEvents ==
    ASSUME TypeOK, Shape, Events, NEW s \in Server, ProcessEnds(s)
    PROVE  Events'
<1> USE ConstantsAssumption
    DEF TypeOK, Shape, AggShape, FlushShape, ExecShape, AggState, FlushState, ExecState,
        AggIdle, FlushIdle, NotRunning, dbVars, Add, Events, WaitedFor, NoSilentLoss, Pending
<1> SUFFICES ASSUME NEW f \in Entity, f \in unserved' PROVE f \in lost' \/ Pending(f)'
  BY DEF ProcessEnds
<1>1. f \in unserved
  BY DEF ProcessEnds
<1>2. CASE f \in lost
  BY <1>2 DEF ProcessEnds
<1>3. CASE evalTopic[f] > 0
  BY <1>3 DEF ProcessEnds
<1>4. ASSUME NEW u \in Server, agg[u].ent = f PROVE f \in lost' \/ Pending(f)'
  BY <1>1, <1>4 DEF ProcessEnds
<1>5. CASE f \in flushCache
  BY <1>5 DEF ProcessEnds
<1>6. ASSUME NEW r \in FlushThread, flush[r].pc = "publish", flush[r].ent = f
      PROVE f \in lost' \/ Pending(f)'
  BY <1>6 DEF ProcessEnds
<1>7. ASSUME NEW y \in ExecID, exec[y].ent = f,
             exec[y].pc = "start" \/ (exec[y].pc = "rules" /\ y \in covers)
      PROVE f \in lost' \/ Pending(f)'
  BY <1>7 DEF ProcessEnds
<1> QED
  BY <1>1, <1>2, <1>3, <1>4, <1>5, <1>6, <1>7

\* Every step hands an event on, completes it or loses it at a fault point.
LEMMA EventsStep == TypeOK /\ Shape /\ Locks /\ Events /\ [Next]_vars => Events'
<1> SUFFICES ASSUME TypeOK, Shape, Locks, Events, [Next]_vars PROVE Events'
  OBVIOUS
<1> USE ConstantsAssumption
    DEF TypeOK, Shape, AggShape, FlushShape, ExecShape, AggState, FlushState, ExecState,
        AggIdle, FlushIdle, NotRunning, dbVars, topicVars, execVars, procVars, ghostVars,
        Add, Take, Lose, Events, WaitedFor, NoSilentLoss, Pending
<1>1. ASSUME NEW e \in Entity, NEW mark \in BOOLEAN, Event(e, mark) PROVE Events'
  BY <1>1 DEF Event
<1>2. ASSUME NEW e \in Entity, DeleteEntity(e) PROVE Events'
  BY <1>2 DEF DeleteEntity
<1>3. ASSUME NEW e \in Entity, LeaseExpires(e) PROVE Events'
  BY <1>3 DEF LeaseExpires
<1>4. ASSUME NEW e \in Entity, Redeliver(e) PROVE Events'
  BY <1>4 DEF Redeliver
<1>5. ASSUME NEW s \in Server, NEW e \in Entity, ReceiveEvaluate(s, e) PROVE Events'
  <2> SUFFICES ASSUME NEW f \in Entity, f \in unserved' PROVE f \in lost' \/ Pending(f)'
    BY <1>5 DEF ReceiveEvaluate
  <2>1. f \in unserved
    BY <1>5 DEF ReceiveEvaluate
  <2>2. CASE f \in lost
    BY <2>2, <1>5 DEF ReceiveEvaluate
  <2>3. CASE evalTopic[f] > 0
    BY <2>3, <1>5 DEF ReceiveEvaluate
  <2>4. ASSUME NEW u \in Server, agg[u].ent = f PROVE f \in lost' \/ Pending(f)'
    <3>1. u # s /\ agg' = [agg EXCEPT ![s] = [pc |-> "lock", ent |-> e, id |-> None, tries |-> 0]]
      BY <2>4, <1>5 DEF ReceiveEvaluate
    <3>2. agg'[u].ent = f
      BY <2>4, <3>1
    <3> QED BY <3>2
  <2>5. CASE f \in flushCache
    BY <2>5, <1>5 DEF ReceiveEvaluate
  <2>6. ASSUME NEW r \in FlushThread, flush[r].pc = "publish", flush[r].ent = f
        PROVE f \in lost' \/ Pending(f)'
    BY <2>6, <1>5 DEF ReceiveEvaluate
  <2>7. ASSUME NEW y \in ExecID, exec[y].ent = f,
               exec[y].pc = "start" \/ (exec[y].pc = "rules" /\ y \in covers)
        PROVE f \in lost' \/ Pending(f)'
    BY <2>7, <1>5 DEF ReceiveEvaluate
  <2> QED
    BY <2>1, <2>2, <2>3, <2>4, <2>5, <2>6, <2>7
<1>6. ASSUME NEW s \in Server, AggregateNotFound(s) PROVE Events'
  <2> SUFFICES ASSUME NEW f \in Entity, f \in unserved' PROVE f \in lost' \/ Pending(f)'
    BY <1>6 DEF AggregateNotFound
  <2>1. f \in unserved
    BY <1>6 DEF AggregateNotFound
  <2>2. CASE f \in lost
    BY <2>2, <1>6 DEF AggregateNotFound
  <2>3. CASE evalTopic[f] > 0
    BY <2>3, <1>6 DEF AggregateNotFound
  <2>4. ASSUME NEW u \in Server, agg[u].ent = f PROVE f \in lost' \/ Pending(f)'
    BY <2>1, <2>4, <1>6 DEF AggregateNotFound
  <2>5. CASE f \in flushCache
    BY <2>5, <1>6 DEF AggregateNotFound
  <2>6. ASSUME NEW r \in FlushThread, flush[r].pc = "publish", flush[r].ent = f
        PROVE f \in lost' \/ Pending(f)'
    BY <2>6, <1>6 DEF AggregateNotFound
  <2>7. ASSUME NEW y \in ExecID, exec[y].ent = f,
               exec[y].pc = "start" \/ (exec[y].pc = "rules" /\ y \in covers)
        PROVE f \in lost' \/ Pending(f)'
    BY <2>7, <1>6 DEF AggregateNotFound
  <2> QED
    BY <2>1, <2>2, <2>3, <2>4, <2>5, <2>6, <2>7
<1>7. ASSUME NEW s \in Server, NEW x \in ExecID, AggregateLock(s, x) PROVE Events'
  BY <1>7 DEF AggregateLock
<1>8. ASSUME NEW s \in Server, AggregateRefused(s) PROVE Events'
  <2> SUFFICES ASSUME NEW f \in Entity, f \in unserved' PROVE f \in lost' \/ Pending(f)'
    BY <1>8 DEF AggregateRefused
  <2>1. f \in unserved
    BY <1>8 DEF AggregateRefused
  <2>2. CASE f \in lost
    BY <2>2, <1>8 DEF AggregateRefused
  <2>3. CASE evalTopic[f] > 0
    BY <2>3, <1>8 DEF AggregateRefused
  <2>4. ASSUME NEW u \in Server, agg[u].ent = f PROVE f \in lost' \/ Pending(f)'
    BY <2>1, <2>4, <1>8 DEF AggregateRefused
  <2>5. CASE f \in flushCache
    BY <2>5, <1>8 DEF AggregateRefused
  <2>6. ASSUME NEW r \in FlushThread, flush[r].pc = "publish", flush[r].ent = f
        PROVE f \in lost' \/ Pending(f)'
    BY <2>6, <1>8 DEF AggregateRefused
  <2>7. ASSUME NEW y \in ExecID, exec[y].ent = f,
               exec[y].pc = "start" \/ (exec[y].pc = "rules" /\ y \in covers)
        PROVE f \in lost' \/ Pending(f)'
    BY <2>7, <1>8 DEF AggregateRefused
  <2> QED
    BY <2>1, <2>2, <2>3, <2>4, <2>5, <2>6, <2>7
<1>9. ASSUME NEW s \in Server, AggregateEnqueue(s) PROVE Events'
  BY <1>9 DEF AggregateEnqueue, EnqueueFlush
<1>10. ASSUME NEW s \in Server, AggregateError(s) PROVE Events'
  <2> SUFFICES ASSUME NEW f \in Entity, f \in unserved' PROVE f \in lost' \/ Pending(f)'
    BY <1>10 DEF AggregateError
  <2>1. f \in unserved
    BY <1>10 DEF AggregateError
  <2>2. CASE f \in lost
    BY <2>2, <1>10 DEF AggregateError
  <2>3. CASE evalTopic[f] > 0
    BY <2>3, <1>10 DEF AggregateError
  <2>4. ASSUME NEW u \in Server, agg[u].ent = f PROVE f \in lost' \/ Pending(f)'
    BY <2>1, <2>4, <1>10 DEF AggregateError
  <2>5. CASE f \in flushCache
    BY <2>5, <1>10 DEF AggregateError
  <2>6. ASSUME NEW r \in FlushThread, flush[r].pc = "publish", flush[r].ent = f
        PROVE f \in lost' \/ Pending(f)'
    BY <2>6, <1>10 DEF AggregateError
  <2>7. ASSUME NEW y \in ExecID, exec[y].ent = f,
               exec[y].pc = "start" \/ (exec[y].pc = "rules" /\ y \in covers)
        PROVE f \in lost' \/ Pending(f)'
    BY <2>7, <1>10 DEF AggregateError
  <2> QED
    BY <2>1, <2>2, <2>3, <2>4, <2>5, <2>6, <2>7
<1>11. ASSUME NEW s \in Server, HandleEntityEvent(s) PROVE Events'
  <2> SUFFICES ASSUME NEW f \in Entity, f \in unserved' PROVE f \in lost' \/ Pending(f)'
    BY <1>11 DEF HandleEntityEvent, Locks, OneThread
  <2>1. f \in unserved
    BY <1>11 DEF HandleEntityEvent, Locks, OneThread
  <2>2. CASE f \in lost
    BY <2>2, <1>11 DEF HandleEntityEvent, Locks, OneThread
  <2>3. CASE evalTopic[f] > 0
    BY <2>3, <1>11 DEF HandleEntityEvent, Locks, OneThread
  <2>4. ASSUME NEW u \in Server, agg[u].ent = f PROVE f \in lost' \/ Pending(f)'
    <3>1. CASE u = s
      <4>1. agg[s].id \in ExecID
        BY <1>11 DEF HandleEntityEvent
      <4>2. exec'[agg[s].id] = [pc |-> "start", ent |-> f, srv |-> s]
        BY <1>11, <2>4, <3>1, <4>1 DEF HandleEntityEvent
      <4> QED BY <4>1, <4>2
    <3>2. CASE u # s
      <4>1. agg'[u].ent = f
        BY <1>11, <2>4, <3>2 DEF HandleEntityEvent
      <4> QED BY <4>1
    <3> QED BY <3>1, <3>2
  <2>5. CASE f \in flushCache
    BY <2>5, <1>11 DEF HandleEntityEvent, Locks, OneThread
  <2>6. ASSUME NEW r \in FlushThread, flush[r].pc = "publish", flush[r].ent = f
        PROVE f \in lost' \/ Pending(f)'
    BY <2>6, <1>11 DEF HandleEntityEvent, Locks, OneThread
  <2>7. ASSUME NEW y \in ExecID, exec[y].ent = f,
               exec[y].pc = "start" \/ (exec[y].pc = "rules" /\ y \in covers)
        PROVE f \in lost' \/ Pending(f)'
    BY <2>7, <1>11 DEF HandleEntityEvent, Locks, OneThread
  <2> QED
    BY <2>1, <2>2, <2>3, <2>4, <2>5, <2>6, <2>7
<1>12. ASSUME NEW s \in Server, HandleEntityEventClosed(s) PROVE Events'
  BY <1>12 DEF HandleEntityEventClosed
<1>13. ASSUME NEW x \in ExecID, BeginEval(x) PROVE Events'
  <2> SUFFICES ASSUME NEW f \in Entity, f \in unserved' PROVE f \in lost' \/ Pending(f)'
    BY <1>13 DEF BeginEval
  <2>1. f \in unserved
    BY <1>13 DEF BeginEval
  <2>2. CASE f \in lost
    BY <2>2, <1>13 DEF BeginEval
  <2>3. CASE evalTopic[f] > 0
    BY <2>3, <1>13 DEF BeginEval
  <2>4. ASSUME NEW u \in Server, agg[u].ent = f PROVE f \in lost' \/ Pending(f)'
    BY <2>1, <2>4, <1>13 DEF BeginEval
  <2>5. CASE f \in flushCache
    BY <2>5, <1>13 DEF BeginEval
  <2>6. ASSUME NEW r \in FlushThread, flush[r].pc = "publish", flush[r].ent = f
        PROVE f \in lost' \/ Pending(f)'
    BY <2>6, <1>13 DEF BeginEval
  <2>7. ASSUME NEW y \in ExecID, exec[y].ent = f,
               exec[y].pc = "start" \/ (exec[y].pc = "rules" /\ y \in covers)
        PROVE f \in lost' \/ Pending(f)'
    BY <2>7, <1>13 DEF BeginEval
  <2> QED
    BY <2>1, <2>2, <2>3, <2>4, <2>5, <2>6, <2>7
<1>14. ASSUME NEW x \in ExecID, BeginEvalFails(x) PROVE Events'
  BY <1>14 DEF BeginEvalFails
<1>15. ASSUME NEW x \in ExecID, EvaluateRule(x) PROVE Events'
  BY <1>15 DEF EvaluateRule
<1>16. ASSUME NEW x \in ExecID, FinishRules(x) PROVE Events'
  <2> SUFFICES ASSUME NEW f \in Entity, f \in unserved' PROVE f \in lost' \/ Pending(f)'
    BY <1>16 DEF FinishRules
  <2>1. f \in unserved
    BY <1>16 DEF FinishRules
  <2>2. CASE f \in lost
    BY <2>2, <1>16 DEF FinishRules
  <2>3. CASE evalTopic[f] > 0
    BY <2>3, <1>16 DEF FinishRules
  <2>4. ASSUME NEW u \in Server, agg[u].ent = f PROVE f \in lost' \/ Pending(f)'
    BY <2>1, <2>4, <1>16 DEF FinishRules
  <2>5. CASE f \in flushCache
    BY <2>5, <1>16 DEF FinishRules
  <2>6. ASSUME NEW r \in FlushThread, flush[r].pc = "publish", flush[r].ent = f
        PROVE f \in lost' \/ Pending(f)'
    BY <2>6, <1>16 DEF FinishRules
  <2>7. ASSUME NEW y \in ExecID, exec[y].ent = f,
               exec[y].pc = "start" \/ (exec[y].pc = "rules" /\ y \in covers)
        PROVE f \in lost' \/ Pending(f)'
    BY <2>7, <1>16 DEF FinishRules
  <2> QED
    BY <2>1, <2>2, <2>3, <2>4, <2>5, <2>6, <2>7
<1>17. ASSUME NEW x \in ExecID, RulesFail(x) PROVE Events'
  BY <1>17 DEF RulesFail
<1>18. ASSUME NEW x \in ExecID, ReleaseLock(x) PROVE Events'
  BY <1>18 DEF ReleaseLock
<1>19. ASSUME NEW x \in ExecID, ReleaseLockFails(x) PROVE Events'
  BY <1>19 DEF ReleaseLockFails
<1>20. ASSUME NEW x \in ExecID, PublishFlush(x) PROVE Events'
  BY <1>20 DEF PublishFlush
<1>21. ASSUME NEW x \in ExecID, PublishFlushFails(x) PROVE Events'
  BY <1>21 DEF PublishFlushFails
<1>22. ASSUME NEW x \in ExecID, Timeout(x) PROVE Events'
  BY <1>22 DEF Timeout
<1>23. ASSUME NEW t \in FlushThread, FlushCacheHit(t) PROVE Events'
  BY <1>23 DEF FlushCacheHit, FlushCache
<1>24. ASSUME NEW t \in FlushThread, FlushCacheMiss(t) PROVE Events'
  BY <1>24 DEF FlushCacheMiss
<1>25. ASSUME NEW t \in FlushThread, FlushPublish(t) PROVE Events'
  BY <1>25 DEF FlushPublish
<1>26. ASSUME NEW s \in Server, NEW e \in Entity, ReceiveFlush(s, e) PROVE Events'
  BY <1>26 DEF ReceiveFlush, FlushThread
<1>27. ASSUME NEW s \in Server, NEW e \in Entity, FlushAllNext(s, e) PROVE Events'
  BY <1>27 DEF FlushAllNext, FlushThread
<1>28. ASSUME NEW s \in Server, FlushError(s) PROVE Events'
  <2> SUFFICES ASSUME NEW f \in Entity, f \in unserved' PROVE f \in lost' \/ Pending(f)'
    BY <1>28 DEF FlushError
  <2>1. f \in unserved
    BY <1>28 DEF FlushError
  <2>2. CASE f \in lost
    BY <2>2, <1>28 DEF FlushError
  <2>3. CASE evalTopic[f] > 0
    BY <2>3, <1>28 DEF FlushError
  <2>4. ASSUME NEW u \in Server, agg[u].ent = f PROVE f \in lost' \/ Pending(f)'
    BY <2>1, <2>4, <1>28 DEF FlushError
  <2>5. CASE f \in flushCache
    BY <2>5, <1>28 DEF FlushError
  <2>6. ASSUME NEW r \in FlushThread, flush[r].pc = "publish", flush[r].ent = f
        PROVE f \in lost' \/ Pending(f)'
    <3>0. <<s, "handler">> \in FlushThread
      BY ONLY DEF FlushThread
    <3>1. PICK h \in FlushThread : h = <<s, "handler">>
      BY ONLY <3>0
    <3>2. CASE r = h
      BY ONLY <1>28, <2>6, <3>1, <3>2 DEF FlushError, Lose
    <3>3. CASE r # h
      <4>1. flush'[r] = flush[r]
        BY ONLY TypeOK, <1>28, <3>1, <3>3 DEF TypeOK, FlushError
      <4> QED
        BY ONLY <2>6, <4>1 DEF Pending
    <3> QED
      BY <3>2, <3>3
  <2>7. ASSUME NEW y \in ExecID, exec[y].ent = f,
               exec[y].pc = "start" \/ (exec[y].pc = "rules" /\ y \in covers)
        PROVE f \in lost' \/ Pending(f)'
    BY <2>7, <1>28 DEF FlushError
  <2> QED
    BY <2>1, <2>2, <2>3, <2>4, <2>5, <2>6, <2>7
<1>29. ASSUME NEW s \in Server, Start(s) PROVE Events'
  BY <1>29 DEF Start
<1>30. ASSUME NEW s \in Server, ListFlushCache(s) PROVE Events'
  BY <1>30 DEF ListFlushCache
<1>31. ASSUME NEW s \in Server, FlushAllDone(s) PROVE Events'
  BY <1>31 DEF FlushAllDone
<1>32. ASSUME NEW s \in Server, FlushAllFails(s) PROVE Events'
  <2>1. ProcessEnds(s)
    BY <1>32 DEF FlushAllFails
  <2> QED
    BY ONLY TypeOK, Shape, Events, <2>1, EndsEvents
<1>33. ASSUME NEW s \in Server, WaitReturns(s) PROVE Events'
  BY <1>33 DEF WaitReturns
<1>34. ASSUME NEW s \in Server, Crash(s) PROVE Events'
  <2>1. ProcessEnds(s)
    BY <1>34 DEF Crash
  <2> QED
    BY ONLY TypeOK, Shape, Events, <2>1, EndsEvents
<1>35. ASSUME NEW s \in Server, Shutdown(s) PROVE Events'
  BY <1>35 DEF Shutdown
<1>36. ASSUME NEW s \in Server, Exit(s) PROVE Events'
  <2>1. ProcessEnds(s)
    BY <1>36 DEF Exit
  <2> QED
    BY ONLY TypeOK, Shape, Events, <2>1, EndsEvents
<1>37. CASE UNCHANGED vars
  BY <1>37 DEF vars
<1>38. ASSUME NEW e \in Entity, Environment(e) PROVE Events'
  BY ONLY <1>38, <1>1, <1>2, <1>3, <1>4 DEF Environment
<1>39. ASSUME NEW s \in Server, AggregatorStep(s) PROVE Events'
  BY ONLY <1>39, <1>5, <1>6, <1>7, <1>8, <1>9, <1>10, <1>11, <1>12 DEF AggregatorStep
<1>40. ASSUME NEW x \in ExecID, ExecutionStep(x) PROVE Events'
  BY ONLY <1>40, <1>13, <1>14, <1>15, <1>16, <1>17, <1>18, <1>19, <1>20, <1>21,
          <1>22 DEF ExecutionStep
<1>41. ASSUME NEW t \in FlushThread, FlushStep(t) PROVE Events'
  BY ONLY <1>41, <1>23, <1>24, <1>25 DEF FlushStep
<1>42. ASSUME NEW s \in Server, ServerStep(s) PROVE Events'
  BY ONLY <1>42, <1>26, <1>27, <1>28, <1>29, <1>30, <1>31,
          <1>32, <1>33, <1>34, <1>35, <1>36 DEF ServerStep
<1> QED
  BY ONLY [Next]_vars, <1>37, <1>38, <1>39, <1>40, <1>41, <1>42 DEF Next

-----------------------------------------------------------------------------
(* The theorems *)

\* The inductive invariant.
Inv == TypeOK /\ Shape /\ Locks /\ Events

\* Inv holds in every reachable state.
LEMMA Invariance == Spec => []Inv
<1>1. Init => Inv
  BY TypeInit, LocksInit, EventsInit DEF Inv
<1>2. Inv /\ [Next]_vars => Inv'
  BY TypeStep, LocksStep, EventsStep DEF Inv
<1> QED
  BY <1>1, <1>2, PTL DEF Spec

\* Every variable keeps its type, whatever the number of entities, servers,
\* executions, retries and faults.
THEOREM TypeCorrect == Spec => []TypeOK
<1>1. Inv => TypeOK
  BY DEF Inv
<1> QED
  BY Invariance, <1>1, PTL

\* The executor never runs two evaluations of one entity at a time unless one of
\* them let its lease run out: with any number of servers, and through crashes,
\* timeouts, redeliveries, deletions and late releases.
THEOREM MutualExclusionHolds == Spec => []MutualExclusion
<1>1. Inv => MutualExclusion
  BY DEF Inv, Locks, GoroutineKeeps, MutualExclusion
<1> QED
  BY Invariance, <1>1, PTL

\* The aggregator, the flush handler and the executor drop an event nowhere but at
\* the fault points: with any number of servers and entities, an event that is not
\* yet covered by a completed evaluation is lost at one of them or still pending.
THEOREM NoSilentLossHolds == Spec => []NoSilentLoss
<1>1. Inv => NoSilentLoss
  BY DEF Inv, Events
<1> QED
  BY Invariance, <1>1, PTL

=============================================================================

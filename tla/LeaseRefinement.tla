------------------------- MODULE LeaseRefinement -------------------------
(***************************************************************************)
(* EntityExecution implements LeasedWork: what the servers do to the rows  *)
(* of entity_execution_lock is what a lease allows, for every set of       *)
(* entities, servers and execution IDs.                                    *)
(*                                                                         *)
(* The refinement mapping takes the entity a worker works on from the      *)
(* thread that carries its execution ID (Working).  Carries says the same  *)
(* as a relation, without the CHOOSE: the handler that has taken the lock, *)
(* or the goroutine it started.                                            *)
(***************************************************************************)
EXTENDS EntityExecutionProofs

Carries(x, e) ==
    \/ Running(x) /\ exec[x].ent = e
    \/ \E s \in Server : agg[s].pc = "handle" /\ agg[s].id = x /\ agg[s].ent = e

\* The part of the inductive invariant that the refinement needs.
Base == TypeOK /\ Shape /\ Locks

\* Working(x) is the one entity that x carries, or None.
LEMMA WorkingCarries ==
    Base => \A x \in ExecID :
              /\ Working(x) \in Entity \cup {None}
              /\ \A e \in Entity : Working(x) = e <=> Carries(x, e)
<1> SUFFICES ASSUME Base, NEW x \in ExecID
             PROVE  /\ Working(x) \in Entity \cup {None}
                    /\ \A e \in Entity : Working(x) = e <=> Carries(x, e)
  OBVIOUS
<1> USE ConstantsAssumption
    DEF Base, TypeOK, Shape, AggShape, ExecShape, AggState, ExecState, Locks, OneThread
<1>1. CASE Running(x)
  <2>1. Working(x) = exec[x].ent /\ exec[x].ent \in Entity
    BY <1>1 DEF Working, Running
  <2>2. ~ \E s \in Server : agg[s].pc = "handle" /\ agg[s].id = x
    BY <1>1 DEF Running
  <2> QED
    BY <1>1, <2>1, <2>2 DEF Carries
<1>2. CASE ~Running(x) /\ \E s \in Server : agg[s].id = x
  <2>1. PICK s \in Server : s = CHOOSE u \in Server : agg[u].id = x
    BY <1>2
  <2>2. agg[s].id = x
    BY <1>2, <2>1
  <2>3. Working(x) = agg[s].ent
    BY <1>2, <2>1 DEF Working
  <2>4. agg[s].pc = "handle" /\ agg[s].ent \in Entity
    BY <2>2
  <2>5. \A u \in Server : agg[u].id = x => u = s
    BY <2>2
  <2> QED
    BY <1>2, <2>2, <2>3, <2>4, <2>5 DEF Carries
<1>3. CASE ~Running(x) /\ ~ \E s \in Server : agg[s].id = x
  <2>1. Working(x) = None
    BY <1>3 DEF Working
  <2> QED
    BY <1>3, <2>1 DEF Carries
<1> QED
  BY <1>1, <1>2, <1>3

\* A step that changes no lock and hands out no entity is a step of Abandon: the
\* workers that carry nothing any more have stopped, the others go on.
LEMMA AbandonStep ==
    ASSUME Base, Base', UNCHANGED <<exists, lockedBy, fresh, lapsed>>,
           \A x \in ExecID, e \in Entity : Carries(x, e)' => Carries(x, e)
    PROVE  [Lease!Next]_(Lease!vars)
<1> DEFINE W == {x \in ExecID : Working(x)' = None}
<1>1. \A x \in ExecID : /\ Working(x) \in Entity \cup {None}
                        /\ \A e \in Entity : Working(x) = e <=> Carries(x, e)
  BY WorkingCarries
<1>2. (\A x \in ExecID : /\ Working(x) \in Entity \cup {None}
                         /\ \A e \in Entity : Working(x) = e <=> Carries(x, e))'
  BY WorkingCarries, PTL
<1>3. \A x \in ExecID : Working(x)' = IF x \in W THEN None ELSE Working(x)
  BY <1>1, <1>2
<1>4. Lease!Abandon(W)
  BY <1>3 DEF Lease!Abandon
<1> QED
  BY <1>4 DEF Lease!Next

\* A step in which every execution carries what it carried before leaves the
\* workers of the lease alone.
LEMMA WorkingSame ==
    ASSUME Base, Base',
           \A x \in ExecID, e \in Entity : Carries(x, e)' <=> Carries(x, e)
    PROVE  [x \in ExecID |-> Working(x)]' = [x \in ExecID |-> Working(x)]
<1>1. \A x \in ExecID : /\ Working(x) \in Entity \cup {None}
                        /\ \A e \in Entity : Working(x) = e <=> Carries(x, e)
  BY WorkingCarries
<1>2. (\A x \in ExecID : /\ Working(x) \in Entity \cup {None}
                         /\ \A e \in Entity : Working(x) = e <=> Carries(x, e))'
  BY WorkingCarries, PTL
<1>3. \A x \in ExecID : Working(x)' = Working(x)
  BY <1>1, <1>2, ConstantsAssumption
<1> QED
  BY <1>3

\* The steps that are none of LeasedWork's: no lock is touched, and an execution
\* carries an entity only if it did before.
LEMMA FrameSteps ==
    ASSUME Base, [Next]_vars,
           ~ \E e \in Entity : DeleteEntity(e) \/ LeaseExpires(e),
           ~ \E s \in Server, x \in ExecID : AggregateLock(s, x),
           ~ \E x \in ExecID : EvaluateRule(x) \/ RulesFail(x) \/ ReleaseLock(x)
    PROVE  /\ UNCHANGED <<exists, lockedBy, fresh, lapsed>>
           /\ \A x \in ExecID, e \in Entity : Carries(x, e)' => Carries(x, e)
<1> DEFINE Goal == /\ UNCHANGED <<exists, lockedBy, fresh, lapsed>>
                   /\ \A y \in ExecID, f \in Entity : Carries(y, f)' => Carries(y, f)
<1> USE ConstantsAssumption
    DEF Base, TypeOK, Shape, AggShape, ExecShape, AggState, ExecState, AggIdle, NotRunning,
        Carries, Running, dbVars, topicVars, execVars, procVars, ghostVars
<1>1. ASSUME NEW e \in Entity, NEW mark \in BOOLEAN, Event(e, mark) PROVE Goal
  BY <1>1 DEF Event
<1>2. ASSUME NEW e \in Entity, Redeliver(e) PROVE Goal
  BY <1>2 DEF Redeliver
<1>3. ASSUME NEW s \in Server, NEW e \in Entity, ReceiveEvaluate(s, e) PROVE Goal
  BY <1>3 DEF ReceiveEvaluate
<1>4. ASSUME NEW s \in Server, AggregateNotFound(s) PROVE Goal
  BY <1>4 DEF AggregateNotFound
<1>5. ASSUME NEW s \in Server, AggregateRefused(s) PROVE Goal
  BY <1>5 DEF AggregateRefused
<1>6. ASSUME NEW s \in Server, AggregateEnqueue(s) PROVE Goal
  BY <1>6 DEF AggregateEnqueue
<1>7. ASSUME NEW s \in Server, AggregateError(s) PROVE Goal
  BY <1>7 DEF AggregateError
<1>8. ASSUME NEW s \in Server, HandleEntityEvent(s) PROVE Goal
  BY <1>8 DEF HandleEntityEvent
<1>9. ASSUME NEW s \in Server, HandleEntityEventClosed(s) PROVE Goal
  BY <1>9 DEF HandleEntityEventClosed
<1>10. ASSUME NEW x \in ExecID, BeginEval(x) PROVE Goal
  BY <1>10 DEF BeginEval
<1>11. ASSUME NEW x \in ExecID, BeginEvalFails(x) PROVE Goal
  BY <1>11 DEF BeginEvalFails
<1>12. ASSUME NEW x \in ExecID, FinishRules(x) PROVE Goal
  BY <1>12 DEF FinishRules
<1>13. ASSUME NEW x \in ExecID, ReleaseLockFails(x) PROVE Goal
  BY <1>13 DEF ReleaseLockFails
<1>14. ASSUME NEW x \in ExecID, PublishFlush(x) PROVE Goal
  BY <1>14 DEF PublishFlush
<1>15. ASSUME NEW x \in ExecID, PublishFlushFails(x) PROVE Goal
  BY <1>15 DEF PublishFlushFails
<1>16. ASSUME NEW x \in ExecID, Timeout(x) PROVE Goal
  BY <1>16 DEF Timeout
<1>17. ASSUME NEW s \in Server, NEW e \in Entity, ReceiveFlush(s, e) PROVE Goal
  BY <1>17 DEF ReceiveFlush
<1>18. ASSUME NEW s \in Server, FlushError(s) PROVE Goal
  BY <1>18 DEF FlushError
<1>19. ASSUME NEW s \in Server, NEW e \in Entity, FlushAllNext(s, e) PROVE Goal
  BY <1>19 DEF FlushAllNext
<1>20. ASSUME NEW s \in Server, Start(s) PROVE Goal
  BY <1>20 DEF Start
<1>21. ASSUME NEW s \in Server, ListFlushCache(s) PROVE Goal
  BY <1>21 DEF ListFlushCache
<1>22. ASSUME NEW s \in Server, FlushAllDone(s) PROVE Goal
  BY <1>22 DEF FlushAllDone
<1>23. ASSUME NEW s \in Server, WaitReturns(s) PROVE Goal
  BY <1>23 DEF WaitReturns
<1>24. ASSUME NEW s \in Server, Shutdown(s) PROVE Goal
  BY <1>24 DEF Shutdown
<1>25. ASSUME NEW t \in FlushThread, FlushStep(t) PROVE Goal
  BY <1>25 DEF FlushStep, FlushCacheHit, FlushCacheMiss, FlushPublish
<1>26. ASSUME NEW s \in Server, ProcessEnds(s) PROVE Goal
  BY <1>26 DEF ProcessEnds
<1>27. ASSUME UNCHANGED vars PROVE Goal
  BY <1>27 DEF vars
<1> HIDE DEF Goal, Base, TypeOK, Shape, Carries, Running
<1>28. ASSUME \E e \in Entity : Environment(e) PROVE Goal
  BY <1>28, <1>1, <1>2 DEF Environment
<1>29. ASSUME \E s \in Server : AggregatorStep(s) PROVE Goal
  BY <1>29, <1>3, <1>4, <1>5, <1>6, <1>7, <1>8, <1>9
  DEF AggregatorStep
<1>30. ASSUME \E s \in Server : ServerStep(s) PROVE Goal
  BY <1>30, <1>17, <1>18, <1>19, <1>20, <1>21, <1>22, <1>23, <1>24, <1>26
  DEF ServerStep, FlushAllFails, Crash, Exit
<1>31. ASSUME \E x \in ExecID : ExecutionStep(x) PROVE Goal
  BY <1>31, <1>10, <1>11, <1>12, <1>13, <1>14, <1>15, <1>16 DEF ExecutionStep
<1>32. Goal
  BY <1>25, <1>27, <1>28, <1>29, <1>30, <1>31 DEF Next
<1> QED
  BY <1>32 DEF Goal

\* Every step of EntityExecution is a step of the lease or leaves it alone.
LEMMA LeaseStep ==
    ASSUME Base, Base', [Next]_vars
    PROVE  [Lease!Next]_(Lease!vars)
<1>1. \A x \in ExecID : /\ Working(x) \in Entity \cup {None}
                        /\ \A e \in Entity : Working(x) = e <=> Carries(x, e)
  BY WorkingCarries
<1>2. (\A x \in ExecID : /\ Working(x) \in Entity \cup {None}
                         /\ \A e \in Entity : Working(x) = e <=> Carries(x, e))'
  BY WorkingCarries, PTL
<1> DEFINE work == [x \in ExecID |-> Working(x)]
\* The lock query gives a lease to an execution ID that nothing carries.
<1>3. ASSUME NEW s \in Server, NEW x \in ExecID, AggregateLock(s, x)
      PROVE  Lease!Next
  <2>1. PICK e \in Entity : e = agg[s].ent /\ e \in exists
    BY <1>3 DEF AggregateLock, Base, TypeOK
  <2>2. Working(x) = None
    BY <1>1, <1>3, ConstantsAssumption DEF Carries, AggregateLock, FreeID, Running
  <2>3. Carries(x, e)'
    BY <1>3, <2>1 DEF Carries, AggregateLock, Base, TypeOK, AggState
  <2>4. \A y \in ExecID \ {x}, f \in Entity : Carries(y, f)' <=> Carries(y, f)
    BY <1>3 DEF Carries, AggregateLock, Running, execVars, Base, TypeOK, AggState
  <2>5. Working(x)' = e
    BY <1>2, <2>3
  <2>6. \A y \in ExecID \ {x} : Working(y)' = Working(y)
    BY <1>1, <1>2, <2>4, ConstantsAssumption
  <2>7. work' = [work EXCEPT ![x] = e]
    BY <2>5, <2>6
  <2>8. Lease!Acquire(e, x)
    BY <1>3, <2>1, <2>2, <2>7 DEF Lease!Acquire, Lease!Free, AggregateLock, LockAvailable, FreeID
  <2> QED
    BY <2>1, <2>8 DEF Lease!Next
\* The deferred renewal of an execution that still owns the lock; one that does
\* not own it any more changes nothing.
<1>4. ASSUME NEW x \in ExecID, EvaluateRule(x) \/ RulesFail(x)
      PROVE  [Lease!Next]_(Lease!vars)
  <2>1. UNCHANGED <<exists, lockedBy, lapsed>>
    BY <1>4 DEF EvaluateRule, RulesFail, dbVars, ghostVars
  <2>2. \A y \in ExecID, f \in Entity : Carries(y, f)' <=> Carries(y, f)
    BY <1>4
    DEF EvaluateRule, RulesFail, procVars, execVars, Carries, Running, Base, TypeOK, ExecState
  <2>3. CASE fresh' = fresh
    BY <2>1, <2>2, <2>3, AbandonStep
  <2>4. CASE Owns(x) /\ fresh' = fresh \cup {exec[x].ent}
    <3>1. exec[x].ent \in Entity /\ Carries(x, exec[x].ent)
      BY <1>4 DEF EvaluateRule, RulesFail, Carries, Running, Base, Shape, ExecShape
    <3>2. work[x] = exec[x].ent
      BY <1>1, <3>1
    <3>3. work' = work
      BY <2>2, WorkingSame
    <3>4. Lease!Renew(exec[x].ent, x)
      BY <2>1, <2>4, <3>2, <3>3 DEF Lease!Renew, Owns
    <3> QED
      BY <3>1, <3>4 DEF Lease!Next
  <2> QED
    BY <1>4, <2>3, <2>4 DEF EvaluateRule, RulesFail, UpdateLease
\* The release gives back a lock that is still the execution's own; otherwise the
\* execution only stops.
<1>5. ASSUME NEW x \in ExecID, ReleaseLock(x)
      PROVE  [Lease!Next]_(Lease!vars)
  <2>1. UNCHANGED <<exists, lapsed>>
    BY <1>5 DEF ReleaseLock, ghostVars
  <2>2. \A f \in Entity : ~Carries(x, f)'
    BY <1>5, ConstantsAssumption
    DEF ReleaseLock, Carries, Running, Base, TypeOK, ExecState, Locks, OneThread
  <2>3. \A y \in ExecID \ {x}, f \in Entity : Carries(y, f)' <=> Carries(y, f)
    BY <1>5 DEF ReleaseLock, Carries, Running, Base, TypeOK, ExecState
  <2>4. CASE ~Owns(x)
    <3>1. UNCHANGED <<lockedBy, fresh>>
      BY <1>5, <2>4 DEF ReleaseLock
    <3>2. \A y \in ExecID, f \in Entity : Carries(y, f)' => Carries(y, f)
      BY <2>2, <2>3
    <3> QED
      BY <2>1, <3>1, <3>2, AbandonStep
  <2>5. CASE Owns(x)
    <3>1. exec[x].ent \in Entity /\ Carries(x, exec[x].ent)
      BY <1>5 DEF ReleaseLock, Carries, Running, Base, Shape, ExecShape
    <3>2. work[x] = exec[x].ent
      BY <1>1, <3>1
    <3>3. \A y \in ExecID : Working(y)' = IF y = x THEN None ELSE Working(y)
      BY <1>1, <1>2, <2>2, <2>3, ConstantsAssumption
    <3>4. work' = [work EXCEPT ![x] = None]
      BY <3>3
    <3>5. Lease!Release(exec[x].ent, x)
      BY <1>5, <2>1, <2>5, <3>2, <3>4 DEF Lease!Release, ReleaseLock, Owns
    <3> QED
      BY <3>1, <3>5 DEF Lease!Next
  <2> QED
    BY <2>4, <2>5
<1>6. ASSUME NEW e \in Entity, LeaseExpires(e) \/ DeleteEntity(e)
      PROVE  Lease!Next
  <2>1. \A y \in ExecID, f \in Entity : Carries(y, f)' <=> Carries(y, f)
    BY <1>6 DEF LeaseExpires, DeleteEntity, procVars, execVars, Carries, Running
  <2>2. work' = work
    BY <2>1, WorkingSame
  <2>3. Lease!Expire(e) \/ Lease!Revoke(e)
    BY <1>6, <2>2 DEF LeaseExpires, DeleteEntity, Lease!Expire, Lease!Revoke
  <2> QED
    BY <2>3 DEF Lease!Next
<1>7. CASE /\ ~ \E e \in Entity : DeleteEntity(e) \/ LeaseExpires(e)
           /\ ~ \E s \in Server, x \in ExecID : AggregateLock(s, x)
           /\ ~ \E x \in ExecID : EvaluateRule(x) \/ RulesFail(x) \/ ReleaseLock(x)
  BY <1>7, FrameSteps, AbandonStep
<1> QED
  BY <1>3, <1>4, <1>5, <1>6, <1>7

\* No execution carries anything in the initial state.
LEMMA LeaseInit == Init => Lease!Init
<1> SUFFICES ASSUME Init PROVE Lease!Init
  OBVIOUS
<1>1. \A x \in ExecID : Working(x) = None
  BY ConstantsAssumption DEF Init, Working, Running, AggIdle, NotRunning
<1> QED
  BY <1>1 DEF Init, Lease!Init

\* The locking of the aggregator and the executor implements the lease: with any
\* number of servers, through crashes, timeouts, takeovers of stale locks and late
\* releases, a lock is taken only when it is free or stale, and is renewed and
\* released only by the execution whose ID its row carries.
THEOREM Refinement == Spec => ImplementsLease
<1>1. Inv => Base
  BY DEF Inv, Base
<1>2. Base /\ Base' /\ [Next]_vars => [Lease!Next]_(Lease!vars)
  BY LeaseStep
<1> QED
  BY Invariance, LeaseInit, <1>1, <1>2, PTL DEF Spec, ImplementsLease, Lease!Spec

=============================================================================

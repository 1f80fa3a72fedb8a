------------------------- MODULE EntityExecution -------------------------
(***************************************************************************)
(* How Minder turns the stream of entity events into evaluations: the      *)
(* event-execution aggregator (internal/eea), the executor's event handler *)
(* (internal/engine/handler.go), the executor's use of the execution lock  *)
(* (internal/engine/executor.go) and the start and stop of the server      *)
(* process around them (internal/service/service.go).                      *)
(*                                                                         *)
(* Tables: entity_execution_lock is lockedBy (the locked_by column) with   *)
(* fresh (last_lock_time is younger than the lock interval); flush_cache   *)
(* is the set flushCache.  Topics: evalTopic and flushTopic count the      *)
(* undelivered messages of each entity on execute.entity.event and on the  *)
(* flush topic; two messages for one entity carry the same information.    *)
(* Threads: a server handles one evaluate message at a time (agg), one     *)
(* flush message at a time and, while it starts, walks the flush cache     *)
(* (flush); every evaluation is a goroutine of its own (exec).             *)
(*                                                                         *)
(* unserved, covers, lost and lapsed observe the run and guard nothing.    *)
(***************************************************************************)
EXTENDS Naturals, FiniteSets

CONSTANTS
    Entity,        \* entity instances (UUIDs, never reused once deleted)
    Server,        \* replicas of the minder server
    ExecID,        \* execution IDs (gen_random_uuid() of the lock query)
    None,          \* no execution, no entity, no server
    Unsupported,   \* entities of a type that buildEntityWrapper rejects
    Persistent,    \* TRUE: sql driver, FALSE: go channels
    MaxLoad,       \* bound: work in the system for an entity when an event comes
    MaxRetries,    \* MaxRetries of the router's Retry middleware
    MaxFaults      \* bound: crashes, timeouts, failed queries and publishes

ASSUME ConstantsAssumption ==
    /\ None \notin Entity \cup Server \cup ExecID
    /\ Unsupported \subseteq Entity
    /\ Persistent \in BOOLEAN
    /\ ~Persistent => \A s, u \in Server : s = u      \* go channels end with the process
    /\ MaxLoad \in Nat
    /\ MaxRetries \in Nat
    /\ MaxFaults \in Nat

VARIABLES
    exists,        \* rows of entity_instances
    lockedBy,      \* entity_execution_lock: the holder of each entity's row
    fresh,         \* entities whose lock row is younger than the interval
    flushCache,    \* rows of flush_cache
    evalTopic,     \* messages waiting on TopicQueueEntityEvaluate
    flushTopic,    \* messages waiting on TopicQueueEntityFlush
    server,        \* life cycle of each server process
    bootList,      \* rows FlushAll has listed and not yet reached
    agg,           \* the evaluate-topic handler of each server
    flush,         \* the flush-topic handler and the FlushAll of each server
    exec,          \* evaluation goroutines, by execution ID
    cancelled,     \* executions whose context is cancelled
    faults,        \* faults so far
    covers,        \* executions that began after the observed event of their entity
    unserved,      \* entities whose observed event no completed evaluation began after
    lost,          \* entities one of whose events was dropped at a fault point
    lapsed         \* executions whose lease ran out, or whose entity went away

dbVars    == <<exists, lockedBy, fresh, flushCache>>
topicVars == <<evalTopic, flushTopic>>
execVars  == <<exec, cancelled>>
procVars  == <<server, bootList, agg, flush, execVars>>
ghostVars == <<covers, unserved, lost, lapsed>>
vars      == <<dbVars, topicVars, procVars, faults, ghostVars>>

-----------------------------------------------------------------------------
(* State of the threads *)

FlushThread == Server \X {"handler", "startup"}

AggState ==
    [pc : {"idle", "lock", "enqueue", "handle"}, ent : Entity \cup {None},
     id : ExecID \cup {None}, tries : Nat]

FlushState ==
    [pc : {"idle", "delete", "publish"}, ent : Entity \cup {None}, tries : Nat]

ExecState ==
    [pc : {"none", "start", "rules", "release", "flush"}, ent : Entity \cup {None},
     srv : Server \cup {None}]

AggIdle   == [pc |-> "idle", ent |-> None, id |-> None, tries |-> 0]
FlushIdle == [pc |-> "idle", ent |-> None, tries |-> 0]
NotRunning == [pc |-> "none", ent |-> None, srv |-> None]

\* The life of a process: AllInOneServerService up to FlushAll, inside FlushAll,
\* inside handler.Wait(), and past it; the last two once more after shutdown.
ServerState == {"down", "starting", "flushing", "waiting", "up", "draining", "closing"}

Alive(s)  == server[s] # "down"
Closed(s) == server[s] \in {"draining", "closing"}

\* The router takes messages until its context, the handler's too, is cancelled.
Subscribed(s) == Alive(s) /\ ~Closed(s)

\* The goroutine of x is between the handler's go statement and ReleaseLock.
Running(x) == exec[x].pc \in {"start", "rules", "release"}

\* gen_random_uuid() returns an ID that nothing in the system carries.
FreeID(x) ==
    /\ exec[x].pc = "none"
    /\ \A e \in Entity : lockedBy[e] # x
    /\ \A s \in Server : agg[s].id # x

Add(topic, e) == [topic EXCEPT ![e] = @ + 1]

\* Mutant: a message is taken off its topic twice.
TakeTwice(topic, e) == [topic EXCEPT ![e] = @ - 2]

Take(topic, e) == [topic EXCEPT ![e] = @ - 1]

\* Everything in the system that stems from an event of e.
Load(e) ==
    evalTopic[e] + flushTopic[e]
      + (IF e \in flushCache THEN 1 ELSE 0)
      + Cardinality({s \in Server : agg[s].ent = e})
      + Cardinality({t \in FlushThread : flush[t].ent = e})
      + Cardinality({x \in ExecID : exec[x].ent = e})

\* A step that fails spends one of the faults of the run.
Fault == faults < MaxFaults /\ faults' = faults + 1

\* An event of e is consumed without an evaluation.
Lose(e) == lost' = lost \cup {e}

Init ==
    /\ exists = Entity
    /\ lockedBy = [e \in Entity |-> None]
    /\ fresh = {}
    /\ flushCache = {}
    /\ evalTopic = [e \in Entity |-> 0]
    /\ flushTopic = [e \in Entity |-> 0]
    /\ server = [s \in Server |-> "down"]
    /\ bootList = [s \in Server |-> {}]
    /\ agg = [s \in Server |-> AggIdle]
    /\ flush = [t \in FlushThread |-> FlushIdle]
    /\ exec = [x \in ExecID |-> NotRunning]
    /\ cancelled = {}
    /\ faults = 0
    /\ covers = {}
    /\ unserved = {}
    /\ lost = {}
    /\ lapsed = {}

-----------------------------------------------------------------------------
(* The rest of the system: events, deletions, time *)

\* A webhook, a reconciliation or a reminder publishes an event about e.  Any
\* event can be the observed one (mark); an evaluation under way may have read
\* e before the change the event is about, so it does not cover the event.
Event(e, mark) ==
    /\ e \in exists
    /\ Load(e) < MaxLoad
    /\ mark => e \notin unserved
    /\ evalTopic' = Add(evalTopic, e)
    /\ unserved' = IF mark THEN unserved \cup {e} ELSE unserved
    /\ covers' = IF mark THEN {x \in covers : exec[x].ent # e} ELSE covers
    /\ UNCHANGED <<dbVars, flushTopic, procVars, faults, lost, lapsed>>

\* The entity is deleted; both tables reference it ON DELETE CASCADE.
DeleteEntity(e) ==
    /\ e \in exists
    /\ exists' = exists \ {e}
    /\ lockedBy' = [lockedBy EXCEPT ![e] = None]
    /\ fresh' = fresh \ {e}
    /\ flushCache' = flushCache \ {e}
    /\ unserved' = unserved \ {e}
    /\ lapsed' = lapsed \cup ({lockedBy[e]} \cap ExecID)
    /\ UNCHANGED <<topicVars, procVars, faults, covers, lost>>

\* The lock interval passes without a renewal of e's lock row.
LeaseExpires(e) ==
    /\ e \in fresh
    /\ fresh' = fresh \ {e}
    /\ lapsed' = lapsed \cup ({lockedBy[e]} \cap ExecID)
    /\ UNCHANGED <<exists, lockedBy, flushCache, topicVars, procVars, faults, covers,
                   unserved, lost>>

\* The broker delivers a message a second time (at-least-once delivery).
Redeliver(e) ==
    /\ Persistent
    /\ evalTopic[e] > 0
    /\ Fault
    /\ evalTopic' = Add(evalTopic, e)
    /\ UNCHANGED <<dbVars, flushTopic, procVars, ghostVars>>

-----------------------------------------------------------------------------
(* The queries on entity_execution_lock and flush_cache *)

\* Mutants: no condition on last_lock_time; no takeover of a stale row.
LockAlwaysAvailable(e) == e \in exists
LockNeverStale(e) == lockedBy[e] = None

\* LockIfThresholdNotExceeded: ON CONFLICT DO UPDATE ... WHERE last_lock_time < ...
LockAvailable(e) == lockedBy[e] = None \/ e \notin fresh

\* Mutant: no condition on locked_by.
OwnsAny(x) == lockedBy[exec[x].ent] # None

\* ReleaseLock and UpdateLease: WHERE entity_instance_id = ... AND locked_by = ...
Owns(x) == lockedBy[exec[x].ent] = x

\* Mutant: nothing is inserted.
EnqueueNothing(e) == UNCHANGED flushCache

\* INSERT ... ON CONFLICT DO NOTHING
EnqueueFlush(e) == flushCache' = flushCache \cup {e}

\* Mutant: the row is read and not deleted.
FlushCacheKeeps(e) == UNCHANGED flushCache

\* DELETE ... RETURNING
FlushCache(e) == flushCache' = flushCache \ {e}

UpdateLease(x) ==
    fresh' = IF Owns(x) THEN fresh \cup {exec[x].ent} ELSE fresh

-----------------------------------------------------------------------------
(* The evaluate topic: AggregateMiddleware around HandleEntityEvent *)

ReceiveEvaluate(s, e) ==
    /\ Subscribed(s)
    /\ agg[s].pc = "idle"
    /\ evalTopic[e] > 0
    /\ evalTopic' = Take(evalTopic, e)
    /\ agg' = [agg EXCEPT ![s] = [pc |-> "lock", ent |-> e, id |-> None, tries |-> 0]]
    /\ UNCHANGED <<dbVars, flushTopic, server, bootList, flush, execVars, faults, ghostVars>>

\* GetEntityByID finds no row: the message is dropped.
AggregateNotFound(s) ==
    /\ agg[s].pc = "lock"
    /\ agg[s].ent \notin exists
    /\ agg' = [agg EXCEPT ![s] = AggIdle]
    /\ UNCHANGED <<dbVars, topicVars, server, bootList, flush, execVars, faults, ghostVars>>

\* LockIfThresholdNotExceeded inserts the row, or takes over a stale one.
AggregateLock(s, x) ==
    LET e == agg[s].ent IN
    /\ agg[s].pc = "lock"
    /\ e \in exists
    /\ LockAvailable(e)
    /\ FreeID(x)
    /\ lockedBy' = [lockedBy EXCEPT ![e] = x]
    /\ fresh' = fresh \cup {e}
    /\ lapsed' = lapsed \ {x}
    /\ agg' = [agg EXCEPT ![s] = [pc |-> "handle", ent |-> e, id |-> x, tries |-> 0]]
    /\ UNCHANGED <<exists, flushCache, topicVars, server, bootList, flush, execVars, faults,
                   covers, unserved, lost>>

\* A fresh row of another execution: no row is returned, roll back.
AggregateRefused(s) ==
    /\ agg[s].pc = "lock"
    /\ agg[s].ent \in exists
    /\ ~LockAvailable(agg[s].ent)
    /\ agg' = [agg EXCEPT ![s] = [@ EXCEPT !.pc = "enqueue"]]
    /\ UNCHANGED <<dbVars, topicVars, server, bootList, flush, execVars, faults, ghostVars>>

\* EnqueueFlush, outside the transaction; ON CONFLICT DO NOTHING.
AggregateEnqueue(s) ==
    /\ agg[s].pc = "enqueue"
    /\ agg[s].ent \in exists
    /\ EnqueueFlush(agg[s].ent)
    /\ agg' = [agg EXCEPT ![s] = AggIdle]
    /\ UNCHANGED <<exists, lockedBy, fresh, topicVars, server, bootList, flush, execVars,
                   faults, ghostVars>>

\* A query fails, or EnqueueFlush breaks its foreign key: the Retry middleware
\* calls the handler again, and the PoisonQueue takes the message at last.
AggregateError(s) ==
    LET e == agg[s].ent IN
    /\ agg[s].pc \in {"lock", "enqueue"}
    /\ \/ Fault
       \/ agg[s].pc = "enqueue" /\ e \notin exists /\ UNCHANGED faults
    /\ \/ /\ agg[s].tries < MaxRetries
          /\ agg' = [agg EXCEPT ![s] = [pc |-> "lock", ent |-> e, id |-> None,
                                      tries |-> agg[s].tries + 1]]
          /\ UNCHANGED lost
       \/ /\ agg[s].tries = MaxRetries
          /\ agg' = [agg EXCEPT ![s] = AggIdle]
          /\ Lose(e)
    /\ UNCHANGED <<dbVars, topicVars, server, bootList, flush, execVars, covers, unserved, lapsed>>

\* HandleEntityEvent starts the evaluation goroutine and acknowledges.
HandleEntityEvent(s) ==
    LET x == agg[s].id IN
    /\ agg[s].pc = "handle"
    /\ ~Closed(s)
    /\ exec' = [exec EXCEPT ![x] = [pc |-> "start", ent |-> agg[s].ent, srv |-> s]]
    /\ agg' = [agg EXCEPT ![s] = AggIdle]
    /\ UNCHANGED <<dbVars, topicVars, server, bootList, flush, cancelled, faults, ghostVars>>

\* HandleEntityEvent on a closed handler acknowledges and does nothing.
HandleEntityEventClosed(s) ==
    /\ agg[s].pc = "handle"
    /\ Closed(s)
    /\ Lose(agg[s].ent)
    /\ agg' = [agg EXCEPT ![s] = AggIdle]
    /\ UNCHANGED <<dbVars, topicVars, server, bootList, flush, execVars, faults, covers,
                   unserved, lapsed>>

-----------------------------------------------------------------------------
(* The evaluation goroutine: EvalEntityEvent and what surrounds it *)

\* The provider is instantiated and the rules are about to be evaluated.
BeginEval(x) ==
    /\ exec[x].pc = "start"
    /\ x \notin cancelled
    /\ exec' = [exec EXCEPT ![x] = [@ EXCEPT !.pc = "rules"]]
    /\ covers' = covers \cup {x}
    /\ UNCHANGED <<dbVars, topicVars, server, bootList, agg, flush, cancelled, faults,
                   unserved, lost, lapsed>>

\* InstantiateFromID fails: return before the release of the lock is deferred.
BeginEvalFails(x) ==
    /\ exec[x].pc = "start"
    /\ Fault \/ (x \in cancelled /\ UNCHANGED faults)
    /\ Lose(exec[x].ent)
    /\ exec' = [exec EXCEPT ![x] = [@ EXCEPT !.pc = "flush"]]
    /\ UNCHANGED <<dbVars, topicVars, server, bootList, agg, flush, cancelled, covers,
                   unserved, lapsed>>

\* evaluateRule for one rule, with the deferred renewal of the lease.
EvaluateRule(x) ==
    /\ exec[x].pc = "rules"
    /\ x \notin cancelled
    /\ UpdateLease(x)
    /\ UNCHANGED <<exists, lockedBy, flushCache, topicVars, procVars, faults, ghostVars>>

\* All rules of all profiles are evaluated and stored.
FinishRules(x) ==
    LET served == IF x \in covers THEN {exec[x].ent} ELSE {} IN
    /\ exec[x].pc = "rules"
    /\ x \notin cancelled
    /\ exec' = [exec EXCEPT ![x] = [@ EXCEPT !.pc = "release"]]
    /\ covers' = covers \ {x}
    /\ unserved' = unserved \ served
    /\ lost' = lost \ served
    /\ UNCHANGED <<dbVars, topicVars, server, bootList, agg, flush, cancelled, faults, lapsed>>

\* A rule, or the loading of rules and profiles, fails: the rest is skipped.
\* The lease is renewed when the failure comes after the renewal is deferred.
RulesFail(x) ==
    /\ exec[x].pc = "rules"
    /\ \/ Fault
       \/ (x \in cancelled \/ exec[x].ent \notin exists) /\ UNCHANGED faults
    /\ UNCHANGED fresh \/ (x \notin cancelled /\ UpdateLease(x))
    /\ Lose(exec[x].ent)
    /\ exec' = [exec EXCEPT ![x] = [@ EXCEPT !.pc = "release"]]
    /\ covers' = covers \ {x}
    /\ UNCHANGED <<exists, lockedBy, flushCache, topicVars, server, bootList, agg, flush,
                   cancelled, unserved, lapsed>>

\* ReleaseLock deletes the row only if it still carries the execution's ID.
ReleaseLock(x) ==
    LET e == exec[x].ent IN
    /\ exec[x].pc = "release"
    /\ x \notin cancelled
    /\ lockedBy' = IF Owns(x) THEN [lockedBy EXCEPT ![e] = None] ELSE lockedBy
    /\ fresh' = IF Owns(x) THEN fresh \ {e} ELSE fresh
    /\ exec' = [exec EXCEPT ![x] = [@ EXCEPT !.pc = "flush"]]
    /\ UNCHANGED <<exists, flushCache, topicVars, server, bootList, agg, flush, cancelled,
                   faults, ghostVars>>

\* ReleaseLock fails, as it does on a cancelled context; the row stays.
ReleaseLockFails(x) ==
    /\ exec[x].pc = "release"
    /\ Fault \/ (x \in cancelled /\ UNCHANGED faults)
    /\ exec' = [exec EXCEPT ![x] = [@ EXCEPT !.pc = "flush"]]
    /\ UNCHANGED <<dbVars, topicVars, server, bootList, agg, flush, cancelled, ghostVars>>

\* The goroutine publishes the flush message, whatever the evaluation returned.
PublishFlush(x) ==
    /\ exec[x].pc = "flush"
    /\ flushTopic' = Add(flushTopic, exec[x].ent)
    /\ exec' = [exec EXCEPT ![x] = NotRunning]
    /\ cancelled' = cancelled \ {x}
    /\ UNCHANGED <<dbVars, evalTopic, server, bootList, agg, flush, faults, ghostVars>>

\* The publication fails, which is only logged.
PublishFlushFails(x) ==
    /\ exec[x].pc = "flush"
    /\ Fault \/ (Closed(exec[x].srv) /\ UNCHANGED faults)
    /\ exec' = [exec EXCEPT ![x] = NotRunning]
    /\ cancelled' = cancelled \ {x}
    /\ UNCHANGED <<dbVars, topicVars, server, bootList, agg, flush, ghostVars>>

\* DefaultExecutionTimeout passes.
Timeout(x) ==
    /\ Running(x)
    /\ x \notin cancelled
    /\ Fault
    /\ cancelled' = cancelled \cup {x}
    /\ UNCHANGED <<dbVars, topicVars, server, bootList, agg, flush, exec, ghostVars>>

-----------------------------------------------------------------------------
(* FlushMessageHandler, called for a message and by FlushAll *)

ReceiveFlush(s, e) ==
    /\ Subscribed(s)
    /\ flush[<<s, "handler">>].pc = "idle"
    /\ flushTopic[e] > 0
    /\ flushTopic' = Take(flushTopic, e)
    /\ flush' = [flush EXCEPT ![<<s, "handler">>] = [pc |-> "delete", ent |-> e, tries |-> 0]]
    /\ UNCHANGED <<dbVars, evalTopic, server, bootList, agg, execVars, faults, ghostVars>>

\* FlushCache deletes the row of the entity and returns it.
FlushCacheHit(t) ==
    /\ flush[t].pc = "delete"
    /\ flush[t].ent \in flushCache
    /\ FlushCache(flush[t].ent)
    /\ flush' = [flush EXCEPT ![t] = [@ EXCEPT !.pc = "publish"]]
    /\ UNCHANGED <<exists, lockedBy, fresh, topicVars, server, bootList, agg, execVars,
                   faults, ghostVars>>

\* No row: "no flushing needed".
FlushCacheMiss(t) ==
    /\ flush[t].pc = "delete"
    /\ flush[t].ent \notin flushCache
    /\ flush' = [flush EXCEPT ![t] = FlushIdle]
    /\ UNCHANGED <<dbVars, topicVars, server, bootList, agg, execVars, faults, ghostVars>>

\* The event is published to the evaluate topic again.
FlushPublish(t) ==
    /\ flush[t].pc = "publish"
    /\ evalTopic' = Add(evalTopic, flush[t].ent)
    /\ flush' = [flush EXCEPT ![t] = FlushIdle]
    /\ UNCHANGED <<dbVars, flushTopic, server, bootList, agg, execVars, faults, ghostVars>>

\* FlushCache or the publication fails in the topic's handler: retry from the
\* start, then the PoisonQueue.  A deleted row is not restored.
FlushError(s) ==
    LET t == <<s, "handler">> IN
    /\ flush[t].pc # "idle"
    /\ Fault
    /\ flush' = [flush EXCEPT ![t] =
                   IF flush[t].tries < MaxRetries
                   THEN [pc |-> "delete", ent |-> flush[t].ent, tries |-> flush[t].tries + 1]
                   ELSE FlushIdle]
    /\ IF flush[t].pc = "publish" THEN Lose(flush[t].ent) ELSE UNCHANGED lost
    /\ UNCHANGED <<dbVars, topicVars, server, bootList, agg, execVars, covers, unserved, lapsed>>

-----------------------------------------------------------------------------
(* The server process *)

\* The event router is running (evt.Running()).
Start(s) ==
    /\ server[s] = "down"
    /\ server' = [server EXCEPT ![s] = "starting"]
    /\ UNCHANGED <<dbVars, topicVars, bootList, agg, flush, execVars, faults, ghostVars>>

\* FlushAll reads the flush cache once ...
ListFlushCache(s) ==
    /\ server[s] = "starting"
    /\ server' = [server EXCEPT ![s] = "flushing"]
    /\ bootList' = [bootList EXCEPT ![s] = flushCache]
    /\ UNCHANGED <<dbVars, topicVars, agg, flush, execVars, faults, ghostVars>>

\* ... and handles the listed rows one by one; a deleted entity is skipped.
FlushAllNext(s, e) ==
    LET t == <<s, "startup">> IN
    /\ server[s] = "flushing"
    /\ flush[t].pc = "idle"
    /\ e \in bootList[s] \ Unsupported
    /\ bootList' = [bootList EXCEPT ![s] = @ \ {e}]
    /\ flush' = IF e \in exists
                THEN [flush EXCEPT ![t] = [pc |-> "delete", ent |-> e, tries |-> 0]]
                ELSE flush
    /\ UNCHANGED <<dbVars, topicVars, server, agg, execVars, faults, ghostVars>>

FlushAllDone(s) ==
    /\ server[s] = "flushing"
    /\ flush[<<s, "startup">>].pc = "idle"
    /\ bootList[s] = {}
    /\ server' = [server EXCEPT ![s] = "waiting"]
    /\ UNCHANGED <<dbVars, topicVars, bootList, agg, flush, execVars, faults, ghostVars>>

\* handler.Wait() returns the first time no evaluation is under way.
WaitReturns(s) ==
    /\ server[s] \in {"waiting", "draining"}
    /\ \A x \in ExecID : exec[x].srv # s
    /\ server' = [server EXCEPT ![s] = IF @ = "waiting" THEN "up" ELSE "closing"]
    /\ UNCHANGED <<dbVars, topicVars, bootList, agg, flush, execVars, faults, ghostVars>>

\* Whatever the process held in memory is gone.  The sql driver delivers again
\* the messages that were not acknowledged; go channels are gone too.  The nats
\* driver acknowledges a message when it hands it out (natschannel.go:179): what
\* a handler holds is lost as with go channels, what is queued stays.
ProcessEnds(s) ==
    LET cut  == {x \in ExecID : exec[x].srv = s /\ exec[x].pc \in {"start", "rules"}}
        held == {t \in FlushThread : t[1] = s /\ flush[t].pc = "publish"}
        h    == <<s, "handler">>
    IN
    /\ server' = [server EXCEPT ![s] = "down"]
    /\ bootList' = [bootList EXCEPT ![s] = {}]
    /\ agg' = [agg EXCEPT ![s] = AggIdle]
    /\ flush' = [t \in FlushThread |-> IF t[1] = s THEN FlushIdle ELSE flush[t]]
    /\ exec' = [x \in ExecID |-> IF exec[x].srv = s THEN NotRunning ELSE exec[x]]
    /\ cancelled' = {x \in cancelled : exec[x].srv # s}
    /\ covers' = {x \in covers : exec[x].srv # s}
    /\ IF Persistent
       THEN /\ evalTopic' = IF agg[s].pc = "idle" THEN evalTopic ELSE Add(evalTopic, agg[s].ent)
            /\ flushTopic' = IF flush[h].pc = "idle" THEN flushTopic
                             ELSE Add(flushTopic, flush[h].ent)
            /\ lost' = lost \cup {exec[x].ent : x \in cut} \cup {flush[t].ent : t \in held}
       ELSE /\ evalTopic' = [e \in Entity |-> 0]
            /\ flushTopic' = [e \in Entity |-> 0]
            /\ lost' = lost \cup {exec[x].ent : x \in cut} \cup {flush[t].ent : t \in held}
                            \cup {e \in Entity : evalTopic[e] > 0 \/ agg[s].ent = e}
    /\ UNCHANGED <<dbVars, unserved, lapsed>>

\* FlushAll returns an error, and with it AllInOneServerService: a listed row is
\* of a type without a wrapper, or a query or a publication fails.
FlushAllFails(s) ==
    /\ server[s] \in {"starting", "flushing"}
    /\ \/ Fault
       \/ /\ server[s] = "flushing"
          /\ flush[<<s, "startup">>].pc = "idle"
          /\ bootList[s] \cap Unsupported # {}
          /\ UNCHANGED faults
    /\ ProcessEnds(s)

Crash(s) ==
    /\ Alive(s)
    /\ Fault
    /\ ProcessEnds(s)

\* The termination context is cancelled: the handler closes and cancels all
\* evaluations under way.
Shutdown(s) ==
    /\ server[s] \in {"waiting", "up"}
    /\ Fault
    /\ server' = [server EXCEPT ![s] = IF @ = "waiting" THEN "draining" ELSE "closing"]
    /\ cancelled' = cancelled \cup {x \in ExecID : exec[x].srv = s}
    /\ UNCHANGED <<dbVars, topicVars, bootList, agg, flush, exec, ghostVars>>

\* The router waits for its handlers.  Nothing waits for the evaluations any more:
\* handler.Wait() is called once, right after FlushAll.
Exit(s) ==
    /\ server[s] = "closing"
    /\ agg[s].pc = "idle"
    /\ flush[<<s, "handler">>].pc = "idle"
    /\ ProcessEnds(s)
    /\ UNCHANGED faults

-----------------------------------------------------------------------------
(* The specification *)

Environment(e) ==
    \/ \E mark \in BOOLEAN : Event(e, mark)
    \/ DeleteEntity(e) \/ LeaseExpires(e) \/ Redeliver(e)

AggregatorStep(s) ==
    \/ \E e \in Entity : ReceiveEvaluate(s, e)
    \/ AggregateNotFound(s)
    \/ \E x \in ExecID : AggregateLock(s, x)
    \/ AggregateRefused(s)
    \/ AggregateEnqueue(s)
    \/ AggregateError(s)
    \/ HandleEntityEvent(s)
    \/ HandleEntityEventClosed(s)

ExecutionStep(x) ==
    \/ BeginEval(x)    \/ BeginEvalFails(x)
    \/ EvaluateRule(x) \/ FinishRules(x) \/ RulesFail(x)
    \/ ReleaseLock(x)  \/ ReleaseLockFails(x)
    \/ PublishFlush(x) \/ PublishFlushFails(x)
    \/ Timeout(x)

FlushStep(t) == FlushCacheHit(t) \/ FlushCacheMiss(t) \/ FlushPublish(t)

ServerStep(s) ==
    \/ \E e \in Entity : ReceiveFlush(s, e) \/ FlushAllNext(s, e)
    \/ FlushError(s)
    \/ Start(s) \/ ListFlushCache(s) \/ FlushAllDone(s) \/ FlushAllFails(s)
    \/ WaitReturns(s) \/ Crash(s) \/ Shutdown(s) \/ Exit(s)

Next ==
    \/ \E e \in Entity : Environment(e)
    \/ \E s \in Server : AggregatorStep(s) \/ ServerStep(s)
    \/ \E x \in ExecID : ExecutionStep(x)
    \/ \E t \in FlushThread : FlushStep(t)

Spec == Init /\ [][Next]_vars

\* What the Go scheduler, the broker and the clock guarantee: a thread that can
\* go on does, a message that waits is delivered, a lease that is not renewed
\* runs out, a server that is down is started.  Faults are never required.
Progress ==
    /\ \A s \in Server :
         /\ WF_vars(AggregatorStep(s))
         /\ WF_vars(\E e \in Entity : ReceiveFlush(s, e))
         /\ WF_vars(Start(s))
         /\ WF_vars(ListFlushCache(s))
         /\ WF_vars(\E e \in Entity : FlushAllNext(s, e))
         /\ WF_vars(FlushAllDone(s) \/ WaitReturns(s))
         /\ WF_vars(FlushAllFails(s))
         /\ WF_vars(Exit(s))
    /\ \A x \in ExecID :
         /\ WF_vars(BeginEval(x) \/ BeginEvalFails(x))
         /\ WF_vars(FinishRules(x) \/ RulesFail(x))
         /\ WF_vars(ReleaseLock(x) \/ ReleaseLockFails(x))
         /\ WF_vars(PublishFlush(x) \/ PublishFlushFails(x))
    /\ \A t \in FlushThread : WF_vars(FlushStep(t))
    /\ \A e \in Entity : WF_vars(LeaseExpires(e))

FairSpec == Spec /\ Progress

\* The reminder service sends another event for every entity again and again.
Reminders == \A e \in Entity : WF_vars(\E mark \in BOOLEAN : Event(e, mark))

-----------------------------------------------------------------------------
(* Properties *)

\* Every variable has its type.
TypeOK ==
    /\ exists \subseteq Entity
    /\ lockedBy \in [Entity -> ExecID \cup {None}]
    /\ fresh \subseteq Entity
    /\ flushCache \subseteq Entity
    /\ evalTopic \in [Entity -> Nat]
    /\ flushTopic \in [Entity -> Nat]
    /\ server \in [Server -> ServerState]
    /\ bootList \in [Server -> SUBSET Entity]
    /\ agg \in [Server -> AggState]
    /\ flush \in [FlushThread -> FlushState]
    /\ exec \in [ExecID -> ExecState]
    /\ cancelled \subseteq ExecID
    /\ faults \in Nat
    /\ covers \subseteq ExecID
    /\ unserved \subseteq Entity
    /\ lost \subseteq Entity
    /\ lapsed \subseteq ExecID

\* Two evaluations of one entity overlap only if one of them let its lease run
\* out, or if the entity was deleted under it: whatever crashes, times out, is
\* delivered twice or is released late, the lock of an execution that keeps its
\* lease is never given to another one.
MutualExclusion ==
    \A x, y \in ExecID \ lapsed :
        Running(x) /\ Running(y) /\ exec[x].ent = exec[y].ent => x = y

\* The entity whose lock row was inserted under the ID x and which x has not yet
\* released or given up, in the handler thread or in the goroutine.
Working(x) ==
    IF Running(x) THEN exec[x].ent
    ELSE IF \E s \in Server : agg[s].id = x
         THEN agg[CHOOSE s \in Server : agg[s].id = x].ent
         ELSE None

Lease == INSTANCE LeasedWork
         WITH Worker <- ExecID, live <- exists, holder <- lockedBy, valid <- fresh,
              working <- [x \in ExecID |-> Working(x)]

\* The lock protocol implements the lease: an execution takes a lock that is free
\* or stale, renews and releases no lock but its own, and gives one up only when
\* it stops working on the entity.
ImplementsLease == Lease!Spec

\* Something in the system will still lead to an evaluation that covers e.
Pending(e) ==
    \/ evalTopic[e] > 0
    \/ \E s \in Server : agg[s].ent = e
    \/ e \in flushCache
    \/ \E t \in FlushThread : flush[t].pc = "publish" /\ flush[t].ent = e
    \/ \E x \in ExecID :
         /\ exec[x].ent = e
         /\ exec[x].pc = "start" \/ (exec[x].pc = "rules" /\ x \in covers)

\* An event is dropped only at the fault points (those that set lost): a lock
\* that is refused, a flush row that is already there, a flush, a retry, an
\* expired lease or the deletion of another entity never swallows one.
NoSilentLoss ==
    \A e \in unserved : e \in lost \/ Pending(e)

\* With reminders, and when faults stop, every event of an entity that is not
\* deleted is followed by an evaluation that began after it and completed.
EventuallyEvaluated ==
    Reminders => \A e \in Entity : e \in unserved ~> e \notin unserved

\* No evaluation is running or waiting to run, and no message is under way.
Quiet ==
    /\ \A e \in Entity : evalTopic[e] = 0 /\ flushTopic[e] = 0
    /\ \A s \in Server : agg[s].pc = "idle"
    /\ \A t \in FlushThread : flush[t].pc = "idle"
    /\ \A x \in ExecID : exec[x].pc = "none"

\* When no more events come the pipeline comes to rest: evaluations, flush
\* messages and the events that flushes publish again do not feed each other.
Quiesces ==
    <>[][\A e \in Entity, mark \in BOOLEAN : ~Event(e, mark)]_vars => <>[]Quiet

\* "Else it'll cache the event until it's ready to be executed" (eea.go): an
\* event in the flush cache leaves it, without the help of another event.
CachedEventLeaves ==
    \A e \in Entity : e \in flushCache ~> e \notin flushCache

=============================================================================

-------------------------- MODULE RefreshPipeline --------------------------
(***************************************************************************)
(* How an entity comes to be evaluated without anybody touching it, or     *)
(* after a change at the provider:                                         *)
(*                                                                         *)
(*   reminder -> reminder processor -> reconciler -> refresh by ID         *)
(*   registration of an entity      -> reconciler -> refresh by ID         *)
(*   change of a profile -> fan-out over entities -> refresh by ID         *)
(*   webhook                                      -> refresh by properties *)
(*   refresh: cached or fetched properties -> the evaluate topic           *)
(*                                                                         *)
(* What happens on the evaluate topic is EntityExecution; here handing an  *)
(* event over counts as the evaluation. The IDs of entities are numbers in *)
(* the order of the reminder's query, 0 is the nil UUID.                   *)
(***************************************************************************)
EXTENDS Naturals, FiniteSets

CONSTANTS
    Entity,      \* IDs of repositories, 1..n
    Present,     \* those that are registered and evaluated at the start
    Worker,      \* refreshes handled at a time
    Op,          \* the operations this instance takes
    BatchSize,   \* RecurrenceConfig.BatchSize
    MaxRetries,  \* retries of the router's Retry middleware
    MaxFaults,   \* bound on failing calls, queries and publications
    MaxCalls     \* bound on registrations, deletions, webhooks, profiles, changes

ASSUME RefreshAssumption ==
    /\ Entity \subseteq Nat \ {0} /\ IsFiniteSet(Entity)
    /\ Present \subseteq Entity
    /\ BatchSize \in Nat \ {0}
    /\ MaxRetries \in Nat /\ MaxFaults \in Nat /\ MaxCalls \in Nat

VARIABLES
    state,      \* whether an entity is to come, in the database, or deleted
    upstream,   \* the entity at the provider
    props,      \* the stored properties
    cached,     \* entities whose properties are younger than the timeout
    record,     \* age of the oldest evaluation of an entity
    seen,       \* the properties an entity was last evaluated with
    cursor,     \* repositoryCursor
    inits,      \* messages of TopicQueueRepoReminder and TopicQueueReconcileRepoInit
    refreshes,  \* messages of TopicQueueRefreshEntityByIDAndEvaluate
    hints,      \* messages of TopicQueueRefreshEntityAndEvaluate, by upstream ID
    elsewhere,  \* repositories also registered in a project of their own
    fanout,     \* messages of TopicQueueReconcileProfileInit
    todo,       \* entities the fan-out still has to publish
    profileTx,  \* the transaction of CreateProfile or UpdateProfile
    worker,     \* the refreshes that have fetched properties
    owed,       \* entities somebody asked to evaluate, less those given up
    early,      \* those evaluated or given up since the open profileTx began
    faults, calls

vars == <<state, upstream, props, cached, record, seen, cursor, inits,
          refreshes, hints, elsewhere, fanout, todo, profileTx, worker, owed,
          early, faults, calls>>
store == <<state, props, cached, record, seen>>
profile == <<fanout, todo, profileTx>>
others == <<upstream, elsewhere>>

----------------------------------------------------------------------------
(* State. *)

Nil == 0
Props == {"v1", "v2", "archived"}
Upstream == Props \cup {"missing"}

Free == [entity |-> Nil, props |-> "v1"]

TypeOK ==
    /\ state \in [Entity -> {"new", "live", "deleted"}]
    /\ upstream \in [Entity -> Upstream]
    /\ props \in [Entity -> Props] /\ seen \in [Entity -> Props]
    /\ cached \subseteq Entity
    /\ record \in [Entity -> {"none", "fresh", "old"}]
    /\ cursor \in Entity \cup {Nil}
    /\ inits \subseteq Entity /\ refreshes \subseteq Entity /\ hints \subseteq Entity
    /\ elsewhere \subseteq Entity
    /\ fanout \in BOOLEAN /\ profileTx \in BOOLEAN /\ todo \subseteq Entity
    /\ worker \in [Worker -> [entity : Entity \cup {Nil}, props : Props]]
    /\ owed \subseteq Entity /\ early \subseteq Entity
    /\ faults \in 0..MaxFaults /\ calls \in 0..MaxCalls

Init ==
    /\ state = [e \in Entity |-> IF e \in Present THEN "live" ELSE "new"]
    /\ upstream = [e \in Entity |-> "v1"]
    /\ props = [e \in Entity |-> "v1"] /\ seen = [e \in Entity |-> "v1"]
    /\ cached = {}
    /\ record = [e \in Entity |-> IF e \in Present THEN "fresh" ELSE "none"]
    /\ cursor \in Entity \cup {Nil}
    /\ inits = {} /\ refreshes = {} /\ hints = {} /\ elsewhere = {}
    /\ fanout = FALSE /\ todo = {} /\ profileTx = FALSE
    /\ worker = [w \in Worker |-> Free]
    /\ owed = {} /\ early = {}
    /\ faults = 0 /\ calls = 0

Allowed(op) == op \in Op /\ calls < MaxCalls /\ calls' = calls + 1
Fault == faults < MaxFaults /\ faults' = faults + 1
\* Every attempt of the router's Retry middleware fails.
RetriesFail ==
    /\ faults + MaxRetries + 1 <= MaxFaults
    /\ faults' = faults + MaxRetries + 1
NoFault == UNCHANGED faults

Live == {e \in Entity : state[e] = "live"}
InFlight == inits \cup refreshes \cup hints \cup todo
            \cup {worker[w].entity : w \in Worker}
            \cup (IF fanout THEN Live ELSE {})
\* An evaluation settles what is owed, and while the transaction of a profile is
\* open it comes too early for the profile.
Settle(S) ==
    /\ owed' = owed \ S
    /\ early' = IF profileTx THEN early \cup S ELSE early
\* The known points of loss: an error is logged and the message acknowledged.
GiveUp(S) == Settle(S)
Owe(S) == owed' = owed \cup S /\ UNCHANGED early
StillOwed == UNCHANGED <<owed, early>>

----------------------------------------------------------------------------
(* The reminder. *)

\* ListEntitiesAfterID ... WHERE id > $2 ORDER BY id LIMIT $3
Batch ==
    LET after == {e \in Live : e > cursor}
    IN  {e \in after : Cardinality({f \in after : f < e}) < BatchSize}

\* Evaluated, and the oldest evaluation is older than MinElapsed.
Eligible(e) == record[e] = "old"

Last(S) == CHOOSE e \in S : \A f \in S : f <= e
\* Mutant: at the end of the list the cursor moves past it.
WrapPast(c) == IF \E e \in Live : e > c THEN c ELSE c + 1
\* adjustCursorForEndOfList
Wrap(c) == IF \E e \in Live : e > c THEN c ELSE Nil
\* Mutant: at the end of the list the cursor stays where it is.
StayAtEnd(batch) == IF batch = {} THEN cursor ELSE Last(batch)
\* updateRepositoryCursor
NextCursor(batch) == IF batch = {} THEN Nil ELSE Wrap(Last(batch))

\* One tick of sendReminders, as far as the reminder processor, which only passes
\* messages on. The queries read, and the cursor is the reminder's own, so they are
\* one step. The publication of the batch comes last: when it fails the cursor has
\* moved already. A failing query for the end of the list resets the cursor; the
\* processor logs and acknowledges when it cannot pass a message on.
SendReminders ==
    /\ \/ /\ cursor' = NextCursor(Batch)
          /\ inits' = inits \cup {e \in Batch : Eligible(e)} /\ NoFault
       \/ /\ Batch # {} /\ cursor' = Nil /\ Fault
          /\ inits' = inits \cup {e \in Batch : Eligible(e)}
       \/ /\ Batch # {} /\ cursor' = NextCursor(Batch) /\ Fault
          /\ \E e \in Batch : inits' = inits \cup {f \in Batch \ {e} : Eligible(f)}
       \/ /\ Batch # {} /\ cursor' = NextCursor(Batch) /\ Fault
          /\ UNCHANGED inits
    /\ StillOwed
    /\ UNCHANGED <<store, others, refreshes, hints, profile, worker, calls>>

\* The cursor is only in memory: a new process starts at a random UUID.
RestartReminder ==
    /\ Fault
    /\ cursor' \in Entity \cup {Nil}
    /\ StillOwed
    /\ UNCHANGED <<store, others, inits, refreshes, hints, profile, worker, calls>>

----------------------------------------------------------------------------
(* The reconcilers. *)

\* handleRepositoryReconcilerEvent: the router retries a publication that fails.
Reconcile(e) ==
    /\ e \in inits /\ inits' = inits \ {e}
    /\ \/ refreshes' = refreshes \cup {e} /\ NoFault /\ StillOwed
       \/ UNCHANGED refreshes /\ RetriesFail /\ GiveUp({e})
    /\ UNCHANGED <<store, others, cursor, hints, profile, worker, calls>>

\* publishProfileInitEvents: entities by project hierarchy, one message each.
\* Any error ends the handler, which answers that all is well: no retry.
ListForProfile ==
    /\ fanout /\ todo = {} /\ fanout' = FALSE
    /\ \/ todo' = Live /\ NoFault /\ StillOwed
       \/ todo' = {} /\ Fault /\ GiveUp(Live)
    /\ UNCHANGED <<store, others, cursor, inits, refreshes, hints,
                   profileTx, worker, calls>>

PublishForProfile(e) ==
    /\ e \in todo
    /\ \/ /\ refreshes' = refreshes \cup {e} /\ todo' = todo \ {e}
          /\ NoFault /\ StillOwed
       \/ UNCHANGED refreshes /\ todo' = {} /\ Fault /\ GiveUp(todo)
    /\ UNCHANGED <<store, others, cursor, inits, hints, fanout, profileTx,
                   worker, calls>>

\* CreateProfile and UpdateProfile publish the event before their transaction
\* is committed; an error of the publication is logged, and nobody is told.
SendNewProfileEvent ==
    /\ Allowed("profile") /\ ~profileTx /\ ~fanout
    /\ profileTx' = TRUE
    /\ \/ fanout' = TRUE /\ NoFault /\ UNCHANGED early
       \/ UNCHANGED fanout /\ Fault /\ early' = Live
    /\ UNCHANGED <<store, others, cursor, inits, refreshes, hints, todo,
                   worker, owed>>

\* From now on every entity is to be evaluated with the profile. What has been
\* evaluated by now was evaluated without it, and nothing is sent again.
CommitProfile ==
    /\ profileTx /\ profileTx' = FALSE
    /\ owed' = owed \cup (Live \ early) /\ early' = {}
    /\ UNCHANGED <<store, others, cursor, inits, refreshes, hints, fanout, todo,
                   worker, faults, calls>>

RollbackProfile ==
    /\ profileTx /\ profileTx' = FALSE /\ Fault
    /\ early' = {}
    /\ UNCHANGED <<store, others, cursor, inits, refreshes, hints, fanout, todo,
                   worker, owed, calls>>

----------------------------------------------------------------------------
(* handleRefreshEntityAndDo with the cache of properties. *)

\* Mutant: what has been fetched once is never fetched again.
AlwaysValid(e) == TRUE
\* areDatabasePropertiesValid
PropertiesValid(e) == e \in cached

\* Mutant: an entity whose properties have not changed is not evaluated again.
ForwardChanges(e, p) == p # "archived" /\ p # seen[e]
\* repoPrivateOrArchivedCheck
ForwardCheck(e, p) == p # "archived"

\* The message for the evaluate topic; an error of the publication is logged.
Forward(e, p) ==
    \/ /\ ForwardCheck(e, p)
       /\ record' = [record EXCEPT ![e] = "fresh"] /\ seen' = [seen EXCEPT ![e] = p]
       /\ NoFault /\ Settle({e})
    \/ /\ ~ForwardCheck(e, p)
       /\ UNCHANGED <<record, seen>>
       /\ NoFault /\ GiveUp(IF p = "archived" THEN {e} ELSE {})
    \/ /\ ForwardCheck(e, p)
       /\ UNCHANGED <<record, seen>>
       /\ Fault /\ GiveUp({e})

\* matchEntityWithHint: by upstream ID and by name alike the repository is found only
\* if it is registered once, in whatever project.
OneMatch(e) == state[e] = "live" /\ e \notin elsewhere

\* GetEntity finds the entity a message of either topic is about.
Found(e) ==
    \/ /\ e \in refreshes /\ state[e] = "live"
       /\ refreshes' = refreshes \ {e} /\ UNCHANGED hints
    \/ /\ e \in hints /\ OneMatch(e)
       /\ hints' = hints \ {e} /\ UNCHANGED refreshes

RefreshCached(e) ==
    /\ Found(e) /\ PropertiesValid(e)
    /\ Forward(e, props[e])
    /\ UNCHANGED <<state, props, cached, others, cursor, inits, profile,
                   worker, calls>>

\* FetchAllProperties; every error ends the handler, which acknowledges.
Fetch(w, e) ==
    /\ Found(e) /\ ~PropertiesValid(e)
    /\ worker[w] = Free
    /\ \/ /\ upstream[e] # "missing"
          /\ worker' = [worker EXCEPT ![w] = [entity |-> e, props |-> upstream[e]]]
          /\ NoFault /\ StillOwed
       \/ upstream[e] = "missing" /\ NoFault /\ GiveUp({e}) /\ UNCHANGED worker
       \/ Fault /\ GiveUp({e}) /\ UNCHANGED worker
    /\ UNCHANGED <<store, others, cursor, inits, profile, calls>>

\* ReplaceAllProperties in the transaction of GetEntity, then the message. The
\* transaction ends with GetEntity: a failure of the publication, which follows it,
\* leaves the properties stored; a failure to store them ends the handler.
SaveAndForward(w) ==
    LET e == worker[w].entity  p == worker[w].props IN
    /\ e # Nil
    /\ worker' = [worker EXCEPT ![w] = Free]
    /\ \/ /\ state[e] = "live"
          /\ props' = [props EXCEPT ![e] = p] /\ cached' = cached \cup {e}
          /\ Forward(e, p)
       \/ state[e] = "live" /\ Fault /\ GiveUp({e}) /\ UNCHANGED store
       \/ state[e] # "live" /\ NoFault /\ StillOwed /\ UNCHANGED store
    /\ UNCHANGED <<state, others, cursor, inits, refreshes, hints, profile, calls>>

\* The entity is not found: logged and acknowledged. A message about a repository
\* that is registered in two projects finds neither.
RefreshNotFound(e) ==
    /\ \/ /\ e \in refreshes /\ state[e] # "live"
          /\ refreshes' = refreshes \ {e} /\ UNCHANGED hints
       \/ /\ e \in hints /\ ~OneMatch(e)
          /\ hints' = hints \ {e} /\ UNCHANGED refreshes
    /\ GiveUp({e})
    /\ UNCHANGED <<store, others, cursor, inits, profile, worker, faults, calls>>

----------------------------------------------------------------------------
(* The surroundings. *)

\* CreateEntity stores the row and its properties, then publishes.
Register(e) ==
    /\ Allowed("register") /\ state[e] = "new" /\ upstream[e] \in {"v1", "v2"}
    /\ state' = [state EXCEPT ![e] = "live"]
    /\ props' = [props EXCEPT ![e] = upstream[e]] /\ cached' = cached \cup {e}
    /\ \/ inits' = inits \cup {e} /\ NoFault /\ Owe({e})
       \/ UNCHANGED inits /\ Fault /\ GiveUp({e})
    /\ UNCHANGED <<record, seen, others, cursor, refreshes, hints, profile, worker>>

DeleteEntity(e) ==
    /\ Allowed("delete") /\ state[e] = "live"
    /\ state' = [state EXCEPT ![e] = "deleted"]
    /\ record' = [record EXCEPT ![e] = "none"]
    /\ props' = [props EXCEPT ![e] = "v1"] /\ seen' = [seen EXCEPT ![e] = "v1"]
    /\ cached' = cached \ {e} /\ Settle({e})
    /\ UNCHANGED <<others, cursor, inits, refreshes, hints, profile, worker, faults>>

\* HandleWebhookEvent publishes what the payload says of the repository, without a
\* project; an error is answered with 500 and not repeated.
Webhook(e) ==
    /\ Allowed("webhook") /\ state[e] = "live"
    /\ \/ hints' = hints \cup {e} /\ NoFault /\ Owe({e})
       \/ UNCHANGED hints /\ Fault /\ StillOwed
    /\ UNCHANGED <<store, others, cursor, inits, refreshes, profile, worker>>

\* The repository is registered in, or deleted from, another project: CreateEntity
\* looks for it in its own project only.
Elsewhere(e) ==
    /\ Allowed("elsewhere")
    /\ elsewhere' = IF e \in elsewhere THEN elsewhere \ {e} ELSE elsewhere \cup {e}
    /\ StillOwed
    /\ UNCHANGED <<store, upstream, cursor, inits, refreshes, hints, profile, worker, faults>>

Change(e) ==
    /\ Allowed("change") /\ state[e] # "deleted"
    /\ \E p \in Upstream \ {"v1", upstream[e]} :
        /\ upstream[e] \in {"v1", "v2"}
        /\ upstream' = [upstream EXCEPT ![e] = p]
    /\ StillOwed
    /\ UNCHANGED <<store, elsewhere, cursor, inits, refreshes, hints, profile, worker, faults>>

\* Time: MinElapsed passes since an evaluation, propertiesCacheTimeout since a fetch.
MinElapsed(e) ==
    /\ record[e] = "fresh" /\ record' = [record EXCEPT ![e] = "old"]
    /\ StillOwed
    /\ UNCHANGED <<state, props, cached, seen, others, cursor, inits,
                   refreshes, hints, profile, worker, faults, calls>>
CacheTimeout(e) ==
    /\ e \in cached /\ cached' = cached \ {e}
    /\ StillOwed
    /\ UNCHANGED <<state, props, record, seen, others, cursor, inits,
                   refreshes, hints, profile, worker, faults, calls>>

----------------------------------------------------------------------------

Refresh(e) == RefreshCached(e) \/ (\E w \in Worker : Fetch(w, e)) \/ RefreshNotFound(e)
FanOut == ListForProfile \/ \E e \in todo : PublishForProfile(e)

Next ==
    \/ SendReminders \/ RestartReminder
    \/ FanOut \/ SendNewProfileEvent \/ CommitProfile \/ RollbackProfile
    \/ \E e \in Entity : \/ Reconcile(e) \/ Refresh(e)
                         \/ Register(e) \/ DeleteEntity(e) \/ Webhook(e)
                         \/ Elsewhere(e) \/ Change(e)
                         \/ MinElapsed(e) \/ CacheTimeout(e)
    \/ \E w \in Worker : SaveAndForward(w)

Spec == Init /\ [][Next]_vars

\* The ticker ticks, handlers run to their end, the router delivers what is
\* published, and time passes. A free worker comes up again and again.
FairSpec ==
    /\ Spec
    /\ WF_vars(SendReminders) /\ WF_vars(FanOut) /\ WF_vars(CommitProfile)
    /\ \A e \in Entity :
        /\ WF_vars(Reconcile(e)) /\ SF_vars(Refresh(e))
        /\ WF_vars(MinElapsed(e)) /\ WF_vars(CacheTimeout(e))
    /\ \A w \in Worker : WF_vars(SaveAndForward(w))

----------------------------------------------------------------------------
(* Properties. *)

\* Whoever asks for an evaluation (a registration, a webhook, a profile) is not
\* forgotten: a message for the entity is on its way, through every hop and the
\* fan-out, until it is evaluated, deleted, or given up where the code logs and
\* acknowledges: a failed publication, an exhausted retry, a failed fetch or save,
\* an archived repository, a webhook for a repository registered in two projects.
\* A committed profile is owed to every entity that is there at the commit, but for
\* those whose evaluation came early: the event is published before the commit.
NothingForgotten ==
    owed \subseteq InFlight

Open(e) == state[e] = "live" /\ upstream[e] \in {"v1", "v2"}
\* The reminder starves nobody: an entity whose evaluation has become old is
\* evaluated again, wherever the cursor started, whatever is inserted or deleted
\* beside it, and although batches, reminders and refreshes are lost on the way.
EvaluatedAgain ==
    \A e \in Entity : (Open(e) /\ record[e] = "old") ~> (record[e] = "fresh" \/ ~Open(e))

\* A change at the provider is seen at last by an evaluation of an entity that has
\* been evaluated before, although the event of the change may be answered from
\* the cache and a slow refresh may write older properties over newer ones.
ChangeSeen ==
    \A e \in Entity :
        (Open(e) /\ record[e] # "none" /\ seen[e] # upstream[e])
            ~> (seen[e] = upstream[e] \/ ~Open(e))

=============================================================================

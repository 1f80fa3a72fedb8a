---------------------------- MODULE Registration ----------------------------
(***************************************************************************)
(* Registration of repositories: a row of entity_instances and a webhook   *)
(* at the provider that are created and removed in several steps, by calls *)
(* of the API and by messages, and the notifications by which the provider *)
(* tells Minder that a webhook or a repository is gone.                    *)
(*                                                                         *)
(*   RegisterRepository, entity_add -> CreateEntity -> registerRepoWebhook *)
(*   DeleteRepository, entity_delete -> deleteRepository                   *)
(*   meta, repository, installation_repositories -> GetEntityAndDelete     *)
(*                                                                         *)
(* A webhook's number also stands for the ID of the row that is stored     *)
(* with it: both are new at every registration.                            *)
(***************************************************************************)
EXTENDS Naturals, FiniteSets

CONSTANTS
    Repo,        \* repositories at the provider
    Project,     \* projects that register them
    Installed,   \* the project the provider's installation belongs to
    MaxHooks,    \* bound on the webhooks the provider creates
    Task,        \* calls and messages handled at a time
    Op,          \* the operations this instance takes
    None,
    MaxRetries,  \* retries of the router's Retry middleware
    MaxFaults,   \* bound on failing calls, queries and publications
    MaxCalls     \* bound on calls of users and on changes at the provider

ASSUME RegistrationAssumption ==
    /\ Installed \in Project
    /\ None \notin Nat \cup Repo \cup Project
    /\ MaxHooks \in Nat /\ MaxRetries \in Nat /\ MaxFaults \in Nat /\ MaxCalls \in Nat

VARIABLES
    upstream,   \* what became of each repository at the provider
    hooks,      \* Minder's webhooks at the provider
    used,       \* the last number the provider gave to a webhook
    rows,       \* the rows of entity_instances with the stored webhook
    events,     \* notifications on their way to GetEntityAndDelete
    deletes,    \* messages of TopicQueueReconcileEntityDelete
    adds,       \* messages of TopicQueueReconcileEntityAdd
    task,       \* the calls and messages being handled
    faults, calls,
    crowded,    \* repositories where cleaning up was overtaken or came to nothing
    leaked,     \* webhooks left behind at a known point
    missed,     \* webhooks whose notification came to nothing
    returned    \* repositories that left the installation and came back

vars == <<upstream, hooks, used, rows, events, deletes, adds, task,
          faults, calls, crowded, leaked, missed, returned>>
provider == <<upstream, hooks, used>>
queues == <<events, deletes, adds>>
ghosts == <<crowded, leaked, missed, returned>>

----------------------------------------------------------------------------
(* State. *)

HookID == 1..MaxHooks
Hook == [repo : Repo, id : HookID]
Row == [id : HookID, repo : Repo, proj : Project, hook : HookID, closed : BOOLEAN]
\* meta names the webhook that was deleted; gone is the repository's own
\* event, here with the webhook that carried it (None for the installation's).
Event == [kind : {"meta", "gone"}, repo : Repo, hook : HookID \cup {None}]

Step == {"idle", "fetch", "list", "clean", "create", "store", "undo",
         "read", "deregister", "remove"}
TaskState == [op : {"none", "register", "add", "delete", "drop"}, step : Step,
              repo : Repo \cup {None}, proj : Project \cup {None},
              hook : HookID \cup {None}, stale : SUBSET HookID, tries : 0..MaxRetries]
Idle == [op |-> "none", step |-> "idle", repo |-> None, proj |-> None,
         hook |-> None, stale |-> {}, tries |-> 0]

TypeOK ==
    /\ upstream \in [Repo -> {"in", "archived", "out", "deleted"}]
    /\ hooks \subseteq Hook /\ used \in 0..MaxHooks
    /\ rows \subseteq Row /\ events \subseteq Event
    /\ deletes \subseteq HookID /\ adds \subseteq Repo \X Project
    /\ task \in [Task -> TaskState]
    /\ faults \in 0..MaxFaults /\ calls \in 0..MaxCalls
    /\ crowded \subseteq Repo /\ returned \subseteq Repo
    /\ leaked \subseteq HookID /\ missed \subseteq HookID

Init ==
    /\ upstream = [r \in Repo |-> "in"]
    /\ hooks = {} /\ used = 0 /\ rows = {}
    /\ events = {} /\ deletes = {} /\ adds = {}
    /\ task = [t \in Task |-> Idle]
    /\ faults = 0 /\ calls = 0
    /\ crowded = {} /\ leaked = {} /\ missed = {} /\ returned = {}

Allowed(op) == op \in Op /\ calls < MaxCalls /\ calls' = calls + 1
Fault == faults < MaxFaults /\ faults' = faults + 1
NoFault == UNCHANGED faults

HookIDs == {h.id : h \in hooks}
HooksOf(r) == {h.id : h \in {g \in hooks : g.repo = r}}
RowsOf(r) == {w \in rows : w.repo = r}
RowsByID(i) == {w \in rows : w.id = i}

----------------------------------------------------------------------------
(* Beginning and end of a call or of the handling of a message. *)

Goto(t, step) == task' = [task EXCEPT ![t].step = step]
Return(t) == task' = [task EXCEPT ![t] = Idle]

FromQueue(t) == task[t].op \in {"add", "drop"}
FirstStep(op) == IF op \in {"register", "add"} THEN "fetch" ELSE "read"

\* Mutant: one retry too many.
RetryLimitMissed == MaxRetries + 1
\* An error ends a call. The router handles a message again, then gives it
\* to the dead letter queue.
RetryLimit == MaxRetries
Again(t) == FromQueue(t) /\ task[t].tries < RetryLimit
Fail(t) ==
    LET c == task[t] IN
    task' = [task EXCEPT ![t] =
        IF Again(t)
        THEN [c EXCEPT !.step = FirstStep(c.op), !.stale = {}, !.tries = c.tries + 1,
                       !.hook = IF c.op = "add" THEN None ELSE c.hook]
        ELSE Idle]
\* The webhook of a row whose deletion is given up.
GivenUp(t) == IF task[t].op = "drop" /\ ~Again(t) THEN {task[t].hook} ELSE {}

Begin(t, op, r, p, h) ==
    /\ task[t].step = "idle"
    /\ task' = [task EXCEPT ![t] = [Idle EXCEPT !.op = op, !.step = FirstStep(op),
                                       !.repo = r, !.proj = p, !.hook = h]]

RegisterRepository(t) ==
    /\ Allowed("register")
    /\ \E r \in Repo, p \in Project : Begin(t, "register", r, p, None)
    /\ UNCHANGED <<provider, rows, queues, faults, ghosts>>

HandleEntityAdd(t) ==
    /\ \E m \in adds :
        /\ Begin(t, "add", m[1], m[2], None)
        /\ adds' = adds \ {m}
    /\ UNCHANGED <<provider, rows, events, deletes, faults, calls, ghosts>>

DeleteRepository(t) ==
    /\ Allowed("delete")
    /\ \E w \in rows : Begin(t, "delete", None, None, w.id)
    /\ UNCHANGED <<provider, rows, queues, faults, ghosts>>

HandleEntityDelete(t) ==
    /\ \E i \in deletes :
        /\ Begin(t, "drop", None, None, i)
        /\ deletes' = deletes \ {i}
    /\ UNCHANGED <<provider, rows, events, adds, faults, calls, ghosts>>

----------------------------------------------------------------------------
(* The provider's webhooks. *)

Reachable(r) == upstream[r] = "in"
Left(r) == upstream[r] \in {"out", "deleted"}

\* DeleteHook takes a missing webhook, and the refusal for a repository that is
\* out of reach, for a success. Deleting one makes the provider notify the webhook
\* that it is gone.
DeleteHook(r, h) ==
    LET gone == {g \in hooks : g.id = h /\ Reachable(r)}
    IN  /\ hooks' = hooks \ gone
        /\ events' = events \cup {[kind |-> "meta", repo |-> r, hook |-> g.id] : g \in gone}
Refused(r, h) == IF ~Reachable(r) /\ h \in HookIDs THEN {h} ELSE {}
KeepHooks == UNCHANGED <<hooks, events>>
\* DeleteHook returns nil and the webhook is there: it has waited for the rate
\* limit and does not try again, or it was not permitted.
SpareHook == KeepHooks /\ Fault

----------------------------------------------------------------------------
(* CreateEntity. *)

\* FetchAllProperties and the validators: the repository must be reachable,
\* neither archived nor private.
FetchProperties(t) ==
    /\ task[t].step = "fetch"
    /\ \/ Reachable(task[t].repo) /\ Goto(t, "list") /\ NoFault
       \/ ~Reachable(task[t].repo) /\ Fail(t) /\ NoFault
       \/ Fault /\ Fail(t)
    /\ UNCHANGED <<provider, rows, queues, calls, ghosts>>

Cleaning(t, r) == task[t].step \in {"clean", "create"} /\ task[t].repo = r

\* Mutant: nothing is cleaned up.
NoStaleHooks(r) == {}
\* Every webhook of Minder is stale, whichever row it belongs to.
StaleHooks(r) == HooksOf(r)

ListHooks(t) ==
    LET r == task[t].repo IN
    /\ task[t].step = "list"
    /\ \/ /\ NoFault
          /\ task' = [task EXCEPT ![t].step = "clean",
                         ![t].stale = IF Reachable(r) THEN StaleHooks(r) ELSE {}]
          /\ crowded' = IF Reachable(r) /\ ~\E u \in Task : Cleaning(u, r)
                        THEN crowded ELSE crowded \cup {r}
       \/ Fault /\ Fail(t) /\ UNCHANGED crowded
    /\ UNCHANGED <<provider, rows, queues, calls, leaked, missed, returned>>

DeleteStaleHook(t) ==
    LET r == task[t].repo IN
    /\ task[t].step = "clean"
    /\ \E h \in task[t].stale :
        \/ /\ DeleteHook(r, h) /\ NoFault
           /\ task' = [task EXCEPT ![t].stale = @ \ {h}]
           /\ crowded' = IF Refused(r, h) = {} THEN crowded ELSE crowded \cup {r}
        \/ /\ SpareHook
           /\ task' = [task EXCEPT ![t].stale = @ \ {h}]
           /\ crowded' = crowded \cup {r}
        \/ KeepHooks /\ Fault /\ Fail(t) /\ UNCHANGED crowded
    /\ UNCHANGED <<upstream, used, rows, deletes, adds, calls, leaked, missed, returned>>

StaleHooksDeleted(t) ==
    /\ task[t].step = "clean" /\ task[t].stale = {}
    /\ Goto(t, "create")
    /\ UNCHANGED <<provider, rows, queues, faults, calls, ghosts>>

\* A webhook whose creation is not answered stays with the provider.
CreateHook(t) ==
    LET r == task[t].repo IN
    /\ task[t].step = "create"
    /\ \/ /\ Reachable(r)
          /\ used < MaxHooks /\ used' = used + 1
          /\ hooks' = hooks \cup {[repo |-> r, id |-> used']}
          /\ \/ /\ task' = [task EXCEPT ![t].step = "store", ![t].hook = used']
                /\ NoFault /\ UNCHANGED leaked
             \/ Fault /\ Fail(t) /\ leaked' = leaked \cup {used'}
       \/ /\ Fail(t) /\ UNCHANGED <<hooks, used, leaked>>
          /\ \/ ~Reachable(r) /\ NoFault
             \/ Fault
    /\ UNCHANGED <<upstream, rows, queues, calls, crowded, missed, returned>>

\* registeredProps, the properties with the webhook, are what is saved.
StoredHook(t) == task[t].hook

\* UNIQUE(project_id, provider_id, entity_type, name): the ON CONFLICT (id)
\* of the insertion never applies, the ID is new.
Taken(t) == \E w \in RowsOf(task[t].repo) : w.proj = task[t].proj

\* Mutant: the error is returned at once.
StoreFailedReturns(t) == Fail(t)
StoreFailed(t) == Goto(t, "undo")

StoreEntity(t) ==
    /\ task[t].step = "store"
    /\ \/ /\ ~Taken(t)
          /\ rows' = rows \cup {[id |-> task[t].hook, repo |-> task[t].repo,
                 proj |-> task[t].proj, hook |-> StoredHook(t), closed |-> FALSE]}
          \* the reconciliation event is published; then the answer is built,
          \* which may fail although the row is there
          /\ \/ Return(t) /\ NoFault
             \/ Fault /\ Fail(t)
       \/ /\ StoreFailed(t) /\ UNCHANGED rows
          /\ \/ Taken(t) /\ NoFault
             \/ Fault
    /\ UNCHANGED <<provider, queues, calls, ghosts>>

\* cleanupProviderRegistration: an error is logged, the call fails anyway. So it
\* makes no difference whether DeleteHook failed or spared the webhook.
Undo(t) ==
    LET r == task[t].repo  h == task[t].hook IN
    /\ task[t].step = "undo" /\ Fail(t)
    /\ \/ /\ NoFault
          /\ DeleteHook(r, h) /\ leaked' = leaked \cup Refused(r, h)
       \/ SpareHook /\ leaked' = leaked \cup {h}
    /\ UNCHANGED <<upstream, used, rows, deletes, adds, calls, crowded, missed, returned>>

----------------------------------------------------------------------------
(* Deletion. *)

\* EntityWithPropertiesByID, then InstantiateFromID, which may fail.
ReadEntity(t) ==
    LET found == RowsByID(task[t].hook) IN
    /\ task[t].step = "read"
    /\ \/ found = {} /\ Return(t) /\ NoFault /\ UNCHANGED missed
       \/ /\ \E w \in found : task' = [task EXCEPT ![t].step = "deregister", ![t].repo = w.repo]
          /\ NoFault /\ UNCHANGED missed
       \/ Fault /\ Fail(t) /\ missed' = missed \cup GivenUp(t)
    /\ UNCHANGED <<provider, rows, queues, calls, crowded, leaked, returned>>

\* DeregisterEntity: an error is logged, and a webhook that was spared goes unnoticed.
Deregister(t) ==
    LET r == task[t].repo  h == task[t].hook IN
    /\ task[t].step = "deregister" /\ Goto(t, "remove")
    /\ \/ DeleteHook(r, h) /\ NoFault /\ leaked' = leaked \cup Refused(r, h)
       \/ SpareHook /\ leaked' = leaked \cup {h}
    /\ UNCHANGED <<upstream, used, rows, deletes, adds, calls, crowded, missed, returned>>

RemoveEntity(t) ==
    /\ task[t].step = "remove"
    /\ \/ /\ rows' = rows \ RowsByID(task[t].hook)
          /\ Return(t) /\ NoFault /\ UNCHANGED missed
       \/ UNCHANGED rows /\ Fault /\ Fail(t) /\ missed' = missed \cup GivenUp(t)
    /\ UNCHANGED <<provider, queues, calls, crowded, leaked, returned>>

\* entityService.DeleteEntityByID removes the row and leaves the webhook.
DeleteEntityByID ==
    /\ Allowed("delete_entity")
    /\ \E w \in rows :
        /\ rows' = rows \ {w}
        /\ leaked' = leaked \cup {w.hook}
    /\ UNCHANGED <<provider, queues, task, faults, crowded, missed, returned>>

\* The process ends during a call. A message is delivered again by a
\* persistent broker and lost with the go channels.
Crash(t) ==
    /\ task[t].step # "idle" /\ Fault /\ Return(t)
    /\ leaked' = leaked \cup (IF task[t].step \in {"store", "undo"} THEN {task[t].hook} ELSE {})
    /\ \/ /\ FromQueue(t) /\ UNCHANGED missed
          /\ IF task[t].op = "add"
             THEN adds' = adds \cup {<<task[t].repo, task[t].proj>>} /\ UNCHANGED deletes
             ELSE deletes' = deletes \cup {task[t].hook} /\ UNCHANGED adds
       \/ /\ UNCHANGED <<adds, deletes>>
          /\ missed' = missed \cup (IF task[t].op = "drop" THEN {task[t].hook} ELSE {})
    /\ UNCHANGED <<provider, rows, events, calls, crowded, returned>>

----------------------------------------------------------------------------
(* Notifications: the webhook handler and GetEntityAndDelete. *)

\* Mutants: the webhook is not compared; the property is never equal.
MatchesAny(e, w) == TRUE
MatchesNone(e, w) == e.kind # "meta"
\* matchPropertiesCheck: a meta event must name the stored webhook.
MatchesHook(e, w) == e.kind = "meta" => w.hook = e.hook

\* matchEntityWithHint finds rows of every project and takes none of several.
\* Private and archived repositories are not forwarded.
Forwarded(e) ==
    IF Cardinality(RowsOf(e.repo)) # 1 THEN {}
    ELSE {w \in RowsOf(e.repo) : MatchesHook(e, w) /\ ~w.closed}
\* Why a notification comes to nothing although a row may have needed it.
Unheard(e) ==
    IF \/ Cardinality(RowsOf(e.repo)) # 1
       \/ \A w \in RowsOf(e.repo) : w.closed \/ w.hook # e.hook
    THEN {e.hook} \ {None} ELSE {}

GetEntityAndDelete(e) ==
    /\ events' = events \ {e}
    /\ deletes' = deletes \cup {w.id : w \in Forwarded(e)}
    /\ missed' = missed \cup Unheard(e)
    /\ UNCHANGED <<provider, rows, adds, task, faults, calls, crowded, leaked, returned>>

\* The publication fails, in the webhook handler or after the lookup; both
\* only log it.
LoseEvent(e) ==
    /\ Fault
    /\ events' = events \ {e}
    /\ missed' = missed \cup ({e.hook} \ {None})
    /\ UNCHANGED <<provider, rows, deletes, adds, task, calls, crowded, leaked, returned>>

----------------------------------------------------------------------------
(* The provider's side. *)

UserDeletesHook ==
    /\ Allowed("hook")
    /\ \E h \in hooks : Reachable(h.repo) /\ DeleteHook(h.repo, h.id)
    /\ UNCHANGED <<upstream, used, rows, deletes, adds, task, faults, ghosts>>

RepositoryDeleted(r) ==
    /\ Allowed("vanish") /\ upstream[r] # "deleted"
    /\ upstream' = [upstream EXCEPT ![r] = "deleted"]
    /\ hooks' = {h \in hooks : h.repo # r}
    /\ events' = events \cup {[kind |-> "gone", repo |-> r, hook |-> h] : h \in HooksOf(r)}
    /\ UNCHANGED <<used, rows, deletes, adds, task, faults, ghosts>>

RepositoryRemoved(r) ==
    /\ Allowed("leave") /\ upstream[r] = "in"
    /\ upstream' = [upstream EXCEPT ![r] = "out"]
    /\ events' = events \cup {[kind |-> "gone", repo |-> r, hook |-> None]}
    /\ UNCHANGED <<hooks, used, rows, deletes, adds, task, faults, ghosts>>

\* Auto-registration is enabled.
RepositoryAdded(r) ==
    /\ Allowed("join") /\ upstream[r] = "out"
    /\ upstream' = [upstream EXCEPT ![r] = "in"]
    /\ adds' = adds \cup {<<r, Installed>>}
    /\ returned' = returned \cup {r}
    /\ UNCHANGED <<hooks, used, rows, events, deletes, task, faults, crowded, leaked, missed>>

Archive(r) ==
    /\ Allowed("archive") /\ upstream[r] = "in"
    /\ upstream' = [upstream EXCEPT ![r] = "archived"]
    /\ UNCHANGED <<hooks, used, rows, queues, task, faults, ghosts>>

\* A refresh of the properties finds the repository archived.
RefreshArchived(w) ==
    /\ w \in rows /\ upstream[w.repo] = "archived" /\ ~w.closed
    /\ rows' = (rows \ {w}) \cup {[w EXCEPT !.closed = TRUE]}
    /\ UNCHANGED <<provider, queues, task, faults, calls, ghosts>>

----------------------------------------------------------------------------

Handle(t) ==
    \/ FetchProperties(t) \/ ListHooks(t) \/ DeleteStaleHook(t) \/ StaleHooksDeleted(t)
    \/ CreateHook(t) \/ StoreEntity(t) \/ Undo(t)
    \/ ReadEntity(t) \/ Deregister(t) \/ RemoveEntity(t)

Environment ==
    \/ UserDeletesHook \/ DeleteEntityByID
    \/ \E r \in Repo : RepositoryDeleted(r) \/ RepositoryRemoved(r)
                       \/ RepositoryAdded(r) \/ Archive(r)
    \/ \E w \in rows : RefreshArchived(w)

Next ==
    \/ \E t \in Task : \/ RegisterRepository(t) \/ DeleteRepository(t)
                       \/ HandleEntityAdd(t) \/ HandleEntityDelete(t)
                       \/ Handle(t) \/ Crash(t)
    \/ \E e \in events : GetEntityAndDelete(e) \/ LoseEvent(e)
    \/ Environment

Spec == Init /\ [][Next]_vars

\* Handlers run to their end, and the router delivers what is published.
FairSpec ==
    /\ Spec
    /\ \A t \in Task : WF_vars(Handle(t))
    /\ WF_vars(\E t \in Task : HandleEntityAdd(t))
    /\ SF_vars(\E t \in Task : HandleEntityDelete(t))
    /\ WF_vars(\E e \in events : GetEntityAndDelete(e))

----------------------------------------------------------------------------
(* Properties. *)

\* However often a registration fails, is retried or is repeated, a repository
\* has one webhook of Minder at most, unless two registrations cleaned up at the
\* same time, or cleanupStaleHooks went on although the repository was out of reach,
\* the provider refused, or the rate limit was hit (DeleteHook returns nil).
OneHook ==
    \A r \in Repo : Cardinality(HooksOf(r)) > 1 => r \in crowded

\* A webhook at the provider belongs to a row or to a call under way, unless it
\* was left behind where the code only logs an error: a creation that was not
\* answered, a compensation or a deregistration that failed or met a refusal or the
\* rate limit, a crash, and DeleteEntityByID, which does not deregister.
HookOwned ==
    \A h \in HookIDs :
        \/ \E w \in rows : w.hook = h
        \/ \E t \in Task : task[t].hook = h /\ task[t].step \in {"store", "undo"}
        \/ h \in leaked

\* A row is deleted by a notification only when its own webhook is gone or its
\* repository has left: late news of a webhook that an earlier registration had
\* does not undo a new registration (matchPropertiesCheck). Only a repository
\* that left the installation and came back may be overtaken by the old news.
DeletedForCause ==
    \A i \in deletes \cup {task[t].hook : t \in {u \in Task : task[u].op = "drop"}} :
        \A w \in RowsByID(i) :
            \/ w.hook \notin HookIDs
            \/ Left(w.repo)
            \/ w.repo \in returned

Unwatched(h) == h \notin HookIDs /\ \E w \in rows : w.hook = h
\* A row whose webhook is gone does not stay: the provider's notification makes
\* Minder delete it, through retries of the deletion, also after a deletion that
\* stopped halfway or a registration that took the webhook of another row. What
\* comes to nothing comes to nothing at a known point: no row yet, rows in several
\* projects, an archived repository, a lost publication or an exhausted retry.
UnwatchedForgotten ==
    \A h \in HookID : Unwatched(h) ~> (~Unwatched(h) \/ h \in missed)

\* What CreateOrEnsureEntityByID is described to do: registering a repository that
\* is registered returns the existing entry, so the row stays.
RegistrationKept == [][rows \subseteq rows']_rows

=============================================================================

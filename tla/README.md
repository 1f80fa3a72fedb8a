# Verification of Minder's control loop

TLA+ models of the parts of Minder that keep state across several steps and several
actors: the pipeline that decides *when* an entity is evaluated, the lock and the
executor that evaluate it, the remediations and alerts that follow, the registration of
repositories with their webhooks, and the users, projects, roles and invitations whose
state is split between PostgreSQL and OpenFGA. TLC checks them on small instances; TLAPS
proves every safety invariant they check, for any number of entities, servers, calls,
messages and faults.

`PROJECT.json` maps every definition to the source lines it models, lists the runs,
the mutants that show that a property can fail, the hazards the properties are aimed
at, and the findings. Paths below are relative to the repository.

## 1. Inventory

| Component | State | Operations | What makes it correct | Module |
| --- | --- | --- | --- | --- |
| event-execution aggregator (`internal/eea`) | tables `entity_execution_lock`, `flush_cache` | `aggregate` around the evaluate handler, `FlushMessageHandler`, `FlushAll` | evaluations of an entity exclude each other; an event that is refused the lock is evaluated later | EntityExecution |
| lock queries (`database/query/entity_execution_lock.sql`) | `locked_by`, `last_lock_time` | lock or take over, renew, release, enqueue, flush | only the holder renews and releases; a stale lock can be taken over | LeasedWork, EntityExecution |
| executor handler (`internal/engine/handler.go`) | list of cancel functions, wait group, closed flag | `HandleEntityEvent`, the goroutine it starts, `Wait`, shutdown | a message that is acknowledged is evaluated; a flush message always follows | EntityExecution |
| executor (`internal/engine/executor.go`) | none of its own | `EvalEntityEvent`, `evaluateRule`, lease renewal, release | the lock is released on every path | EntityExecution, RuleActions |
| server process (`internal/service/service.go`) | phase of start and stop | start router, `FlushAll`, `Wait`, `errg.Wait` | a restart picks up what the cache holds | EntityExecution |
| event router (`internal/events`) | topics | delivery, retry, poison queue | at-least-once delivery, if the driver persists | all |
| rule actions (`internal/engine/actions`) | nothing; decides from the previous record | `DoActions`, `shouldRemediate`, `shouldAlert`, the actions | actions follow the evaluation, do not loop, and do not forget what they opened | RuleActions |
| evaluation record (`internal/engine/eval_status.go`, `internal/history`) | latest evaluation, remediation and alert status with metadata | read before, store after an evaluation | the number of an open advisory or pull request is not lost | RuleActions |
| reminder (`internal/reminder`, `internal/reminderprocessor`) | cursor over repositories, in memory | pick a batch, publish | every repository is reminded in the end | RefreshPipeline |
| reconcilers (`internal/reconcilers`) | none | repository init, profile init, entity add, entity delete | each request reaches the entity | RefreshPipeline, Registration |
| entity handlers and properties (`internal/entities/handlers`, `internal/entities/properties`) | rows of `properties` with their age | refresh from cache or provider, forward, get and delete | a change is seen; news of something old does not hit something new | RefreshPipeline, Registration |
| repositories and entities (`internal/repositories`, `internal/entities/service`) | rows of `entity_instances`, webhooks at the provider | register with compensation, deregister and delete | rows and webhooks keep each other | Registration |
| GitHub provider (`internal/providers/github`) | webhooks; incoming notifications | create, list, delete webhooks; handle webhook events | one webhook per repository | Registration |
| invitations (`internal/invites`, `handlers_user.go`) | rows of `user_invites`, mails | create, update, remove, expire, accept, decline | accepted once; what is mailed is what is offered | Membership |
| roles (`internal/roles`, `internal/authz`) | tuples in OpenFGA | assign, update, remove | one role each; a role belongs to a project | Membership |
| projects, users (`internal/projects`, `handlers_projects.go`, `handlers_user.go`, `identity_events.go`) | rows and tuples | enrol, create child, delete recursively, delete user, job every five minutes | no project without administrator, no role without project, no trace of a deleted user | Membership |
| provider sessions, rule engines, ingesters, control plane wiring, authentication, cryptography, command line | - | computation, validation, I/O | see section 5 | - |

**How they interact.** A registration, a webhook, a change of a profile and the reminder
ask for an evaluation. The reminder publishes batches of repositories, which the reminder
processor and the repository reconciler turn into refresh messages; the profile reconciler
fans out one refresh message per entity. The refresh handler takes the entity's properties
from the database or, when they are too old, from the provider, and publishes the entity
event on `execute.entity.event`. On each server one router handler receives them, wrapped in
`AggregateMiddleware`: it takes the lock of the entity under a new execution ID and
lets `HandleEntityEvent` start an evaluation goroutine, or, if another execution
holds a lock younger than the interval, puts the entity in `flush_cache`. The
goroutine evaluates every rule, renews the lease after each, releases the lock and
publishes a flush message; the flush handler removes the entity's row from
`flush_cache` and publishes the event again. Within an evaluation each rule reads its
latest record, is evaluated, remediated, alerted on, and a new record is stored.

Entities come and go by `RegisterRepository`, `DeleteRepository` and by messages of the
provider: a webhook that is deleted, a repository that is deleted, or removed from or added
to the installation. Those messages pass through `GetEntityAndDelete` or `entity_add` and end in
the same services as the calls. People get at projects by enrolling or by an
invitation; every handler reads and writes OpenFGA inside a database transaction
that OpenFGA knows nothing of.

**What is hard.** Several servers share the two tables and the topics, and nothing
but single SQL statements is atomic between them. The lock is a lease that may run
out under its holder. A message is acknowledged when the goroutine *starts*, so a
crash loses it; caching an event and releasing the lock race; a flush deletes before
it publishes. The actions change the provider before the record is stored, and read
the record before they act. A webhook and its row, a role and its project, are written one
after the other in two systems, with compensations that can fail; several handlers log an
error and acknowledge the message. `PROJECT.json` lists each of these at its line.

## 2. Modules

### EntityExecution

| Variable | In the code |
| --- | --- |
| `exists` | rows of `entity_instances` |
| `lockedBy`, `fresh` | `entity_execution_lock`: `locked_by`, and whether `last_lock_time` is younger than the interval |
| `flushCache` | rows of `flush_cache` |
| `evalTopic`, `flushTopic` | number of undelivered messages per entity; a message is the entity it names |
| `server`, `bootList` | phase of `AllInOneServerService`; the rows `FlushAll` has listed |
| `agg` | the thread of the evaluate topic: in `aggregate` before the lock query, before `EnqueueFlush`, or in `HandleEntityEvent` |
| `flush` | the thread of the flush topic, and `FlushAll` calling the same handler |
| `exec`, `cancelled` | evaluation goroutines by execution ID, and those whose context is cancelled |
| `faults` | faults so far (bound) |
| `covers`, `unserved`, `lost`, `lapsed` | observers; they guard nothing |

One action is one SQL statement (or one transaction) or one publication with the
local steps around it, so that every interleaving two servers can see is a behaviour.
A query that fails, a publication that fails, a timeout, a crash, a second delivery
and a shutdown each spend one of `MaxFaults`. `AggregateError` and `FlushError` model
the router's `Retry` and `PoisonQueue` middleware. `ProcessEnds` is what is left of a
process: rows stay; the sql driver redelivers what was not acknowledged; go
channels lose what they hold. `Persistent = FALSE` is the go-channel driver, which
works within one process only (hence `~Persistent => one server` in the assumption).
The nats driver acknowledges a message when it hands it out
(`internal/events/nats/natschannel.go:179`), so that a crash loses what a handler holds, as
with go channels, and keeps what is queued, as with sql.
`DeleteEntity` stands for every path that deletes an entity: both tables reference it
`ON DELETE CASCADE`.

### LeasedWork

The abstract specification: a lease per entity which is given when it is free or has
run out, renewed and given back by its holder only, and left behind by a worker that
fails. `ImplementsLease` in EntityExecution instantiates it with `holder <- lockedBy`,
`valid <- fresh` and `working[x]` = the entity the execution `x` was given and has not
put down, in the topic handler or in the goroutine.

### RuleActions

One rule on one entity. `profile` holds the options and the remediation type of the
rule type, `stored` the latest record, `task` the evaluations under way (two, when a
lease ran out and `Overlap` is set), `advisories` and `tickets` what is open on the
provider: security advisories, and issues or pull requests. With the other type of alert, `reviews` are
the reviews of the pull request that bear the rule's mark, `dismissed` some of them, and `hidden` those beyond the
first page, which is all that `findExistingReview` lists; listing and publishing are two steps (`FindReview`, `PublishReview`). The actions follow the
code: `Evaluate` reads the record and the options; one action per remediation and
command; one per alert and command; `Store` writes the record in one transaction,
`Abort` is a crash, a timeout or a failed transaction in between. Errors are modelled
by the statuses they are converted to and back (`ErrorAsRemediationStatus`,
`AlertStatusAsError`, ...), which is lossy: without a record the previous alert status
comes back as an error. `{}` as metadata is `None`. What a rule engine
decides is an input. `leaked` collects numbers dropped at the known points, `fixes`
counts remediations since the last record that is not a failure (capped at `MaxFixes`, more than the
faults allow), `unrecorded` those whose evaluation was aborted before its record was stored, and `steady` says that no
evaluation so far has overlapped with another, was skipped, or found its action off or on dry run.
The types of remediation are REST call, branch protection, issue, pull request and none; a
review as a remediation (`internal/engine/actions/remediate/remediate.go:85`) is not modelled.

### RefreshPipeline

How an entity comes to be evaluated, up to the evaluate topic; handing the event over there
counts as the evaluation, whose own hazards are EntityExecution's.

| Variable | In the code |
| --- | --- |
| `state`, `record` | the row of the entity, and the age of its oldest evaluation, which the reminder's query asks for |
| `upstream`, `props`, `cached`, `seen` | the entity at the provider, the stored properties, whether they are younger than `propertiesCacheTimeout`, and those of the last evaluation |
| `cursor` | `repositoryCursor`; IDs are numbers in the order of the query, 0 is the nil UUID |
| `inits`, `refreshes`, `hints`, `fanout`, `todo` | messages on the topics (`refreshes` name an entity by ID, `hints` by its upstream ID, as webhooks do), and the entities a fan-out still has to publish |
| `elsewhere` | repositories that are registered in another project too, so that `matchEntityWithHint` finds two and returns neither |
| `profileTx` | a transaction of `CreateProfile` or `UpdateProfile` whose event is out |
| `worker` | refreshes between the fetch and the write of the properties |
| `owed` | observer: entities somebody asked to evaluate, less those given up where the code logs and acknowledges; a profile asks when it commits, for every entity there is |
| `early` | observer: entities evaluated or given up while the transaction of a profile is open, for which its event came too early |

`SendReminders` is one tick: the queries only read and the cursor is the process's own, so the
steps in between show to nobody; its disjuncts are the errors (end-of-list query, one message
passed on, the whole publication). `Forward` is the end of `handleRefreshEntityAndDo`. A refresh is
split where others can interfere: `Fetch` asks the provider, `SaveAndForward` writes. `GetEntity` commits the
properties before `handleRefreshEntityAndDo` publishes (`internal/entities/handlers/handler.go:78`), so a failed publication leaves
them stored; a failed write leaves the old ones and publishes nothing.

### Registration

Rows of repositories (`rows`), webhooks of Minder at the provider (`hooks`), and the calls and messages
under way (`task`, one record with a program counter per call). `CreateEntity` is split into the calls it
makes: fetch and validate, list the webhooks, delete each stale one, create one, store the row,
compensate. `deleteRepository` is read, deregister, remove. An error ends a call; a message is
handled again `MaxRetries` times, from its first step. The provider's side is what the
code relies on: a webhook that is deleted announces it (`meta`), a deleted repository is
announced by the webhooks it had, the installation announces what it loses and gains. Notifications
are a set: they arrive late and in any order. A webhook's number also stands for the ID of the row
stored with it, since both are new at each registration.

`DeleteHook` answers nil to a refusal, and after waiting for the rate limit, without having deleted anything
(`SpareHook`); whoever called it goes on.

Observers: `crowded` (two registrations cleaned up at once, or a webhook was spared), `leaked`
(a webhook left behind where the code only logs), `missed` (a notification that came to nothing at
a known point), `returned` (a repository that left the installation and came back).

### Membership

Rows of `users`, `projects` and `user_invites` on one side, `tuples` and `adopted` (the parent
relation) in OpenFGA on the other. `task` holds the calls under way. A step is one call that
others can see: a read the handler acts on later, a write of OpenFGA, a commit. What a transaction
writes is part of the step that commits it; rows a transaction has deleted and not committed
make others wait (`Locked`, `ChildPending`), and two that wait for each other are resolved as PostgreSQL
does (`Deadlock`). `Abort` is an error or a crash anywhere in between: the transaction is gone, the
tuples stay. `authzClient.DeleteUser` lists the tuples of each role in turn; here they are read at once
and deleted one by one. `Cron` is the job that looks for accounts deleted at the identity provider every five minutes.
`listed` are those whose event it can read: one page of events of the default size is asked for
(`internal/auth/keycloak/keycloak.go:157`) and events expire, so an event can leave the list at any time (`DropEvent`);
`missed` are the accounts that still had a row, a role or a call then. `AdminDeleters` are the users that
`allowedAdminDelete` lets delete in every project.

Observers: `accepted` (successful acceptances by code), `raced` (subjects and addresses to whom two calls
were giving a role, or an invitation, at a time), `leaked` and `stranded` (projects whose tuples, or whose lack of administrators, come from
a point where the code gives up). A project counts on the administrators that are `Staying`: those whose own deletion, if one
is under way, has still to look at the project (`PassedOver` says when it will not). A step that leaves a project none of them,
although the code's own check finds one, adds the project to `stranded`.

### Others

`MCEntityExecution`, `MCRuleActions`, `MCMembership`, `MCRegistration` and `MCRefreshPipeline` are what TLC
runs, with symmetry where members of a set are interchangeable and no liveness is checked.
`EntityExecutionProofs`, `LeasedWorkProofs`, `LeaseRefinement`, `RuleActionsProofs`, `RefreshPipelineProofs`,
`RegistrationProofs` and `MembershipProofs` hold the theorems.

## 3. Runs

| Run | Shows | Instance |
| --- | --- | --- |
| `exec_safety` | `MutualExclusion`, `NoSilentLoss`, `ImplementsLease`, `TypeOK` | 1 entity, 2 servers, 2 executions, sql driver, 1 fault |
| `exec_channel` | `NoSilentLoss` on go channels, with an entity type that `FlushAll` rejects | 1 server, 2 faults |
| `exec_liveness` | `EventuallyEvaluated`, `Quiesces` | 1 server, 2 executions, 1 fault, fairness |
| `actions_overlap` | `AdvisoryTracked`, `AlertMirrorsEvaluation`, `TypeOK` when two evaluations overlap | REST remediation, alerts on or off, 1 fault |
| `actions_ticket` | `NoRemediationLoop`, `OnePullRequest`, `OneReview`, `AdvisoryTracked`, `AlertMirrorsEvaluation`, `TicketMirrorsEvaluation` | branch protection, issue, pull request and no remediation, advisory and review, all outcomes, on and dry run, 2 faults |
| `members_roles` | `TypeOK`, `AcceptedOnce`, `OneRole`, `OneInvitation`, `InvitationMailed`, `RolesBacked` | 2 people, one of them an `AdminDeleter`, a machine, 2 roles, 2 codes, 2 projects, enrolment, children and deletion of projects, 2 calls at a time out of 4, 1 fault |
| `members_projects` | `RolesBacked`, `ProjectsManaged`, `DeletedUserForgotten` | 2 administrators of 1 project and an ID for a second one, role changes, removals and deletions of users, 1 call and the job at a time, 2 calls, 1 fault, fairness |
| `registration` | `TypeOK`, `OneHook`, `HookOwned`, `DeletedForCause`, `UnwatchedForgotten` | 1 repository, 2 projects, 2 calls at a time, 3 webhooks, 3 calls, 1 retry, 1 fault, fairness |
| `refresh` | `TypeOK`, `NothingForgotten`, `EvaluatedAgain` | 2 entities, batches of 1, 1 worker, 2 calls, 1 fault, fairness |
| `refresh_stale` | `NothingForgotten`, `ChangeSeen` | 1 entity, 2 workers, 3 calls of any kind, a second project among them, 2 faults, fairness |
| `exec_cached_event`, `registration_again` | violations, see section 6 | smallest instance that shows them |

`MutualExclusion`: two evaluations of an entity overlap only if one let its lease run
out or the entity was deleted. `NoSilentLoss`: an event that no completed evaluation
began after is pending somewhere, or was dropped at a fault point (poison queue,
crash, closed handler, failed publication after the flush deleted its row, evaluation
that failed). `EventuallyEvaluated`: given reminders, an event is followed by a
completed evaluation that began after it, or the entity is deleted. `Quiesces`: if
events stop the pipeline comes to rest. `AdvisoryTracked`: the number of every open
advisory is in the record or with an evaluation about to store it, or was dropped at
a known point. The mirror properties relate what is open on the provider to the
record, up to the first failed call, overlap, skipped evaluation or change of the settings (`Undisturbed`). `NoRemediationLoop`: the
issue or pull request of a rule that keeps failing is asked for once, and once more for each evaluation that was cut
off between its remediation and its record. `OneReview`: a rule has one review on a pull
request, found again by its mark after its number is lost, if it is on the first page and evaluations do not overlap.

`NothingForgotten`: a registration, a webhook or a profile that asks for an evaluation has a message for the
entity on its way, through every hop, until the entity is evaluated, deleted, or given up at a
known point; one of them is a webhook for a repository that two projects have registered. A profile counts from its
commit, for every entity there is then but those evaluated early: what the fan-out did before must
have caught the others. `EvaluatedAgain`: an evaluation that has become old is repeated, wherever
the cursor started and whatever is lost on the way: the assumption `Reminders` of EntityExecution, for
repositories that have been evaluated, is this property. `ChangeSeen`: a change at the
provider reaches an evaluation in the end, although the event of the change may be answered from the cache or find no
single match, and although of two refreshes the one that fetched first may write last.

`OneHook`, `HookOwned`: a repository has one webhook at most, and every webhook belongs to a row or to a call
under way, but for the known points. `DeletedForCause`: a notification deletes a row only if its own webhook
or repository is gone. `UnwatchedForgotten`: a row whose webhook is gone goes in the end.

`AcceptedOnce`: one call per code succeeds in accepting an invitation. `OneRole`, `OneInvitation`: more than one
of each only after two calls for the same target overlapped. `InvitationMailed`: an invitation was mailed with the
role it offers now. `RolesBacked`, `ProjectsManaged`: tuples without project and projects without
administrator exist only at the known points, which their comments list. `DeletedUserForgotten`: an
account that is gone ends without row and tuples, through failures, deadlocks and calls of its own that were under way,
unless its event left the list before (`missed`).

Several of these name the points where the code gives up. That is what they are for: each point is
an action of the model that adds to an observer, and TLC shows that there is no other one.

**Bounds.** One entity is enough for the checked properties, because no query, message
or thread touches two of them, except a server's handler, which is idle or with
another entity; the theorems cover any number. `MaxLoad = 2` lets an event arrive
while another is evaluated or cached, which is when the lock is refused; the system
itself then adds flush messages and republications beyond the bound. Two execution
IDs let one evaluation take over from another; an ID is reused when nothing carries it
any more. `MaxRetries = 1` has a first attempt, a retry and the poison queue. `MaxFaults`
of 1 or 2 lets a fault happen at every point and be followed by everything else. `ID`
is the stock of provider numbers; a number that nothing refers to any more stands for
a new one. The runs with `CHECK_DEADLOCK FALSE` can stop: every entity deleted and
every queue empty, or, in `RuleActions`, the stock of numbers used up by advisories
that nobody can close any more.

In `RefreshPipeline` two entities and batches of one give the cursor an end of the list to wrap at, and an
entity that is inserted or deleted on either side of it; the initial cursor is any. `refresh` has two entities for the
cursor, `refresh_stale` two workers for the overtaking refresh, where one entity is enough because a refresh touches no other. `RetriesFail` spends
one fault per attempt of the router, so `MaxRetries = 0` lets one fault exhaust them. In `Registration` one repository
is enough, since no call touches two; three webhooks are a first registration, a second one and the
stale one in between. In `Membership` four calls are enough for an invitation, its acceptance
and two changes at the same time; calls on roles touch one project, and the second one is for enrolment, for
children and for what a user's deletion finds next. `members_projects` needs two calls only, since it begins with two
administrators, and has one call at a time beside the job: two deletions of users overlap as the job's and the user's own. These runs have `CHECK_DEADLOCK FALSE` because they stop when the
calls and the stock of codes, projects or webhooks are used up.

**Fairness.** `Progress` asks that a goroutine that can go on does (the Go scheduler), that
a waiting message is delivered while a server is subscribed (the broker), that a lock
that is not renewed goes stale (time passes), and that a server that is down is
started again (the orchestrator). It asks nothing of faults, events, deletions, lease
renewals or shutdowns. `EventuallyEvaluated` assumes `Reminders` in addition: an event for
an entity comes again and again. The reminder does so only for repositories that have been
evaluated before (`internal/reminder/reminder.go:249`); for an entity that was never
evaluated, and for entities of other types, an event lost at a fault point
is not made up for.

`RefreshPipeline`: the ticker ticks (`SendReminders`), the fan-out and the transactions go on, messages are
delivered, handlers end, and time passes (`MinElapsed`, `CacheTimeout`). `Refresh` is strongly fair,
because the router hands a message out again and again while workers come free. `Registration`: a
handler that is under way goes on, and the router delivers; delivery of a deletion is strongly fair, since the slots of the
model come free and are taken again. `Membership`: a call under way goes on, and the job takes up every account whose event stays
listed; strongly fair, because the job's slot may be busy with another account. Nothing is asked for an account whose event has left the list. Nothing is asked of users, of the provider or of faults.

## 4. Proofs

Each component has a proof module. A theorem rests on the assumption its component's module states about the
constants (values of different kinds differ, bounds are natural numbers, the entities of the reminder are finitely
many) and on nothing else, unless its statement says so; TLC evaluates these assumptions in the runs. Every
inductive invariant was checked by TLC as an invariant of the component's runs, and Membership's also in simulation with all operations
enabled together, before it was proved.

### Execution

- `TypeCorrect`: `Spec => []TypeOK`.
- `MutualExclusionHolds`: `Spec => []MutualExclusion`.
- `NoSilentLossHolds`: `Spec => []NoSilentLoss`.
- `Refinement`: `Spec => ImplementsLease`.
- `LeaseExclusive` (LeasedWork, assuming that `None` is no worker): workers that keep
  their lease do not share an entity.

None of the three properties is inductive. The inductive invariant `Inv` of
`EntityExecutionProofs` is `TypeOK /\ Shape /\ Locks /\ Events`.

- `Shape` ties the fields of a thread's record to its program counter (a handler at
  `handle` has an entity and an ID, an idle one has none), which types leave open.
- `Locks` says that an execution ID is carried by one thread at a time, the handler
  first and the goroutine then, and that the entity it is carried for has its lock held
  by that ID, freshly, unless the execution has lapsed. Without the part about the
  handler, `HandleEntityEvent` would start a goroutine about which nothing is known;
  without the part about freshness, `AggregateLock` could take the lock away.
- `Events` is `NoSilentLoss` with the fact that only entities that exist are waited for,
  which the deletion of an entity needs.

There is one lemma per part and one step per action. Where an action ends a process
(`Crash`, `Exit`, `FlushAllFails`) the work is done once, in `EndsType` and `EndsEvents`.

The refinement (`LeaseRefinement`) needs `TypeOK`, `Shape` and `Locks` only. The mapping
finds the thread of an execution with a `CHOOSE`; `WorkingCarries` shows that it is the
relation `Carries`, because `Locks` makes that thread unique, and the rest reasons about
`Carries`. The lock query maps to `Acquire`, a renewal and a release that still own the
row to `Renew` and `Release`, expiry and deletion to `Expire` and `Revoke`. Every other
step touches no lock and lets no execution carry an entity it did not carry before
(`FrameSteps`), so it is an `Abandon` of the executions that carry nothing afterwards,
most often of nobody. Together with `LeaseExclusive` this is a second,
independent argument for mutual exclusion.

### Rule actions

| Theorem | Hypotheses |
| --- | --- |
| `TypeCorrect`, `AdvisoryTrackedHolds`, `OnePullRequestHolds`, `OneReviewHolds` | none |
| `AlertMirrorsEvaluationHolds`, `TicketMirrorsEvaluationHolds` | none; the properties themselves end at the first disturbance |
| `NoRemediationLoopHolds` | `KeepsRemediating`: remediation never `off`, no overlap |

The hypothesis is the settings under which the code promises the property, and those of the run: a remediation that is turned off
and on again starts anew, and evaluations that overlap do not know of each other. The mirror properties carry their condition as
`Undisturbed`: an evaluation that is skipped leaves the alert alone and overwrites its number, and a failed call leaves the provider
behind the record until the next evaluation. The settings, the stock of numbers, the evaluations and the kind of alert stay arbitrary.

`AdvisoryTracked` needs `PrevTracked` and `NumberHandled`: an evaluation holds the number it read long after, and when it
stores its record the number it replaces must be the one it kept, one that is closed, or one it is seen to drop. With
overlap the number it read may no longer be the record's; it was then dropped by the
evaluation that stored in between. `Named` says that a record whose alert is not on has no number
to lose. `OneReview` needs `ReviewStillMissing`: between
`FindReview` and `PublishReview` no review appears that the list would have shown, which holds because
`Alone` makes evaluations exclude each other where they may not overlap or have not so far (`steady`). A step that ends `Undisturbed` began so and
met no fault (`UndisturbedBefore`), which is where the mirror proofs start. `Loop` and the two mirror invariants state the same
relation twice, for the record and for an evaluation that has acted and not yet stored. `Loop` says that while one of
the remediations counted is in no aborted evaluation (`fixes > unrecorded`), the record says that it was made, or the evaluation
that will write it does, so that nobody remediates again; `Abort` takes that away and adds to `unrecorded`.

### Refresh pipeline

`TypeCorrect` and `NothingForgottenHolds`, for every finite set of entities. `NothingForgotten` is inductive
together with `OwedLive`: a refresh that does not find its row drops its message, which is harmless only because nobody
is owed an evaluation of an entity that is gone; and with `ProfileCovers`: while the transaction of a profile is open, every entity there
is has a message on its way or was evaluated early, so that at the commit the profile may be owed to all the others. `Kept` shows once that
a step which moves a message from hop to hop keeps both. The one hard part of the types is the cursor: the code takes the
last repository of the batch, the model the greatest ID, and that there is one in every finite set that is not empty
(`GreatestNatural`) is proved by a least counterexample along a bijection with `1..n`, since the induction
theorems of the library cannot be instantiated. That the cursor always names an entity or is the nil UUID follows (`CursorType`).

### Registration

`TypeCorrect`, `HooksAreOwned`, `OneHookHolds`, `DeletedForCauseHolds`.

- `Given` and `RowsDistinct` are what the code takes for granted of numbers: the provider has given every number that is
  known anywhere, and a row carries the number of its own registration. So a webhook that is gone
  stays gone and a notification about it stays true (`EventsTrue`), however late it is handled.
- `Unstored` says that no deletion is on its way for a row that is about to be stored; without it `StoreRow`
  could store a row that a deletion meant for another one removes. `Caused` is `DeletedForCause` per row,
  for requests on the topic and for handlers that have read theirs.
- `Cleaned` carries `OneHook`: unless the repository is crowded one registration at a time is between
  listing and creating, it knows every webhook that is left, and none is left when it creates its own.
- `Deregistered` lets `HookOwned` survive the removal of a row: its webhook is gone or counted as left behind.

### Membership

`TypeCorrect`, `AcceptedOnceHolds`, `InvitationMailedHolds`, `OneInvitationHolds`, `OneRoleHolds`, `RolesBackedHolds`,
`ProjectsManagedHolds`. What a handler has read from one system it acts on later in the other; the invariant says for
each such read what is still true of it.

- Invitations: a code is generated once, its row is written once, and its acceptance deletes the row (`CodeOnce`); an update that
  mails nothing writes a role that it read and that was mailed (`ReadMailed`); a call about to insert an
  invitation is still without rival, or `raced` (`NoneYet`).
- Roles: what a change has still to revoke is all the subject has, or `raced` (`FormerKnown`).
- Projects: an ID names one project for ever (`IdsKnown`) and has one creator (`Creation`); rows that a transaction has deleted
  belong to it alone until it ends (`Doom`); a deletion knows every role in its project but those given since it read them, which are
  counted in `leaked` (`Purged`).
- Administrators: `Manned` strengthens `ProjectsManaged` to an administrator who is `Staying`. `ProjectsManaged` alone
  is not inductive: a user's deletion first looks at their projects, one by one, and takes the roles at the end, so that the administrator a
  project has may be one whose roles are about to go. `Held` says what such a deletion has still to do where it is.

### What the proofs changed

Two failed steps were errors of the model's observers. A deletion of a user that aborts between two projects put the
null project into `stranded`. And `RemoveRoleAssignment`'s check for another administrator
(`internal/roles/service.go:184`) can be satisfied by one whose deletion has already passed the project over, so that a role removal, and not only
`CleanUpUnmanagedProjects`, leaves a project without administrator when the two overlap; `stranded` counts it as a known point, and
`members_projects` has the case.

## 5. Checked by TLC only, or not modelled

Liveness (`EventuallyEvaluated`, `Quiesces`, `EvaluatedAgain`, `ChangeSeen`, `UnwatchedForgotten`,
`DeletedUserForgotten`) rests on fairness and ENABLED, which are beyond the prover. Every invariant that a passing run checks is stated by a
theorem, `NoRemediationLoop` under a hypothesis (section 4).

Left out of the models: malformed messages (the aggregator and the handler reject them
before any state changes); a commit whose outcome the client does not learn; the
content of messages, templates, commits and advisories; the wait for artifact signatures (part
of the time an evaluation takes); metrics and logging. The title of a pull request, and
with it the branch, is fixed for a rule: a title template that depends on the evaluation could
give a rule several branches. The provider refuses a second pull request for
one branch, so a failed `ListPullRequests` (`getPRNumberFromBranch` returns 0) counts as a
failed call. A review as a remediation is left out, and machine accounts hold roles but make no calls. Components that are not modelled are listed in `PROJECT.json` with the reason.

In RefreshPipeline the reminder and the processor are one step, and an evaluation takes no time. In
Registration only repositories are modelled: entities of other types take the same path without a
webhook. In Membership project names, entitlements, bundles and providers of a project, and the
claiming of GitHub installations by a new user, are left out.

Of the implementation's lines a third is generated (protobuf, gRPC gateway, the Keycloak client, sqlc) and most of the rest
computes on one value or does I/O: rule engines and ingesters, the GitHub client's calls, validators, the
command line, configuration, wiring of servers, tokens and keys. Their hazards are those of a function and
belong to unit tests; the models take their results as inputs. Paging through the evaluation
history, provider sessions and the REST client cache keep state and are planned (section 7).

## 6. Findings and observations

Shown by a run:

1. **A cached event can stay cached** (`exec_cached_event`). The lock is refused, the holder
   releases it and its flush finds nothing, and only then is the row inserted
   (`internal/eea/eea.go:140`). No fault is involved; another event of the
   entity or a restart helps.
2. **Registering a repository again removes it** (`registration_again`). The second registration deletes the webhook of the
   first as stale, fails at the unique name, and deletes its own webhook again
   (`internal/entities/service/entity_creator.go:144`). The provider's notification of the first deletion names the stored
   webhook, so that Minder deletes the row. `database/query/entities.sql:27` says
   "adds an entry to the entity_instances table if it does not exist, or returns the existing entry".

Behaviours that the models contain and the properties step around, for a reader to judge:

- A flush deletes its row before it publishes. When the publication fails, the retry finds no row and takes the
  event for executed: "If we can't flush the cache, it means that the event has already been executed"
  (`internal/eea/eea.go:191`). `FlushCacheHit`, `FlushError` and `FlushCacheMiss` have it; `NoSilentLoss` counts it as a fault point.
- An error in a profile's fan-out is logged and the handler returns nil (`internal/reconcilers/run_profile.go:66`): the
  message is acknowledged and the remaining entities wait for the next reminder. The comments there say "We don't return an error
  since watermill will retry the message" (line 67), "we retry in case the database is having a bad day" (line 82) and "we retry in
  case watermill is having a bad day" (line 100). `FanOut` has it; `NothingForgotten` counts it as given up.
- `FlushAll` fails for an entity type that `buildEntityWrapper` does not know (`internal/eea/eea.go:226`), on every
  start, while the row is there.
- A REST remediation answers `do_nothing` with "skipped" (`internal/engine/actions/remediate/rest/rest.go:130`), which the
  next evaluation takes as permission to remediate: `actions.go:174` wants the opposite, "so we don't risk endless
  remediation loops". `NoRemediationLoop` is therefore stated for issues and pull requests.
- A dry run of a remediation counts as a success and turns the alert off (`internal/engine/actions/actions.go:204`);
  `docs/docs/understand/alerts.md:14` has an alert for every rule that fails.
- A skipped evaluation leaves the advisory open and overwrites its number (`internal/engine/actions/actions.go:268`),
  while `docs/docs/ref/rule_evaluation_details.md:316` closes it when "the rule evaluation passes or is skipped".
- `RemoveRoleAssignment` refuses to "remove the last admin from the project" (`internal/roles/service.go:184`), but accepting an
  invitation to a lesser role replaces any role: two administrators can remove and
  demote each other until none is left (`stranded`). Two role changes or removals at the same time do so too, each
  finding the other administrator still there, and so do two deletions of users (`internal/projects/deleter.go:95`).
- Whoever loses the race to accept an invitation keeps the role, which is written to OpenFGA before the row of the
  invitation is deleted (`internal/controlplane/handlers_user.go:415`).
- An evaluation that is cut off after it opened an issue leaves no record, and the next one opens a second issue
  (`internal/engine/actions/remediate/issue/issue.go:300`); a pull request is found again by its branch.
- `DeleteHook` returns nil after waiting for the rate limit, without trying again, and for a 403
  (`internal/providers/github/common.go:603`): a registration then adds a second webhook, a deletion leaves one behind.
- The job for deleted accounts reads one page of events, and they expire (`internal/auth/keycloak/keycloak.go:157`): an account
  whose event was not handled by then keeps its row and roles (`missed`).
- `handler.Wait()` is called once after `FlushAll` (`internal/service/service.go:358`), so a later orderly shutdown ends
  with evaluations under way (`Exit` adds them to `lost`).
- A lock whose evaluation fails in `InstantiateFromID` (`internal/engine/executor.go:99`) is kept until it goes stale.
- When closing an advisory fails once, its number is gone (`CloseAdvisory`, then `leaked`).
- `findExistingReview` asks for one page of reviews (`internal/engine/actions/alert/pull_request_comment/pull_request_comment.go:223`):
  a review beyond it is not found, is not dismissed when the rule passes, and gets a second one when it fails again, while
  `docs/docs/ref/rule_evaluation_details.md:294` promises "at most one comment per rule type". A dismissed review
  is found too, and a rule that fails again only updates its text (line 160): it stays dismissed and no longer requests changes.
- The event of a profile is published before its transaction commits (`pkg/profiles/service.go:187`): entities may be
  evaluated without it, and nothing makes up for that but the next reminder.
- `DeleteEntityByID` (`internal/entities/service/service.go:301`) leaves the webhook of a repository behind; a repository
  registered in two projects is found twice by `matchEntityWithHint`, so that a notification about it deletes neither and
  a webhook's event evaluates neither.

## 7. Plan

Done: the execution pipeline, the actions of a rule, the way to the evaluate topic, registration, membership.

Proved: the invariants of all five and the refinement of the lease.

To model next: `EvaluationHistory`, paging by time stamp, as
operators checked against a reference; provider sessions and the REST client cache.

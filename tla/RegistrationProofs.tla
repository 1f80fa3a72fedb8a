------------------------- MODULE RegistrationProofs -------------------------
(***************************************************************************)
(* What Registration promises for every set of repositories, projects and  *)
(* tasks and every bound: the types, that a repository has one webhook,    *)
(* that a webhook is owned, and that a row is deleted for a cause.         *)
(*                                                                         *)
(* The inductive invariant rests on what the code takes for granted about  *)
(* numbers: the provider gives a new one to every webhook, so one that is  *)
(* gone stays gone, a notification of its end stays true, and a row that   *)
(* is about to be stored cannot be the one that a deletion is meant for.   *)
(***************************************************************************)
EXTENDS Registration, FiniteSetTheorems, TLAPS

-----------------------------------------------------------------------------
(* The inductive invariant *)

\* What the stages of a call or message know: a registration its repository and
\* project, a deletion its row, and, later, the row's repository; a registration
\* that has created its webhook knows it.
Shape(s) ==
    /\ s.op = "none" <=> s.step = "idle"
    /\ s.op \in {"register", "add"} =>
        /\ s.repo \in Repo /\ s.proj \in Project
        /\ s.step \in {"fetch", "list", "clean", "create", "store", "undo"}
    /\ s.op \in {"delete", "drop"} => s.hook \in HookID /\ s.step \in {"read", "deregister", "remove"}
    /\ s.step \in {"store", "undo"} => s.hook \in HookID
    /\ s.step \in {"deregister", "remove"} => s.repo \in Repo
Shaped == \A t \in Task : Shape(task[t])

\* A number that is known anywhere was given by the provider.
Given ==
    /\ \A h \in hooks : h.id <= used
    /\ \A w \in rows : w.id <= used
    /\ \A i \in deletes : i <= used
    /\ \A e \in events : e.hook \in HookID => e.hook <= used
    /\ \A t \in Task : task[t].hook \in HookID => task[t].hook <= used

\* A row is stored with the webhook of its own registration.
RowsDistinct ==
    /\ \A w \in rows : w.hook = w.id
    /\ \A v, w \in rows : v.id = w.id => v = w

\* A row whose deletion is on its way.
Doomed(i) == i \in deletes \/ \E u \in Task : task[u].op = "drop" /\ task[u].hook = i

\* A webhook that is about to be stored is no row's yet, nobody else is storing it,
\* and no deletion is on its way for it.
Unstored ==
    \A t \in Task : task[t].step = "store" =>
        /\ \A w \in rows : w.id # task[t].hook
        /\ \A u \in Task : u # t /\ task[u].step = "store" => task[u].hook # task[t].hook
        /\ ~Doomed(task[t].hook)

\* Whoever is about to remove a row has removed its webhook, or left it behind.
Deregistered ==
    \A t \in Task : task[t].step = "remove" => task[t].hook \notin HookIDs \/ task[t].hook \in leaked

\* Notifications are true when they are sent and stay so, but for repositories that
\* come back.
EventsTrue ==
    \A e \in events :
        /\ e.kind = "meta" => e.hook \notin HookIDs
        /\ e.kind = "gone" => Left(e.repo) \/ e.repo \in returned

\* A row whose deletion is on its way has lost its webhook, or its repository left:
\* DeletedForCause, row by row.
Cause(w) == w.hook \notin HookIDs \/ Left(w.repo) \/ w.repo \in returned
Caused == \A w \in rows : Doomed(w.id) => Cause(w)

\* Where cleaning up was not disturbed, one registration at a time cleans up, it
\* knows every webhook that is left, and none is left when it creates its own.
Cleaned ==
    \A r \in Repo \ crowded :
        /\ \A i, j \in HooksOf(r) : i = j
        /\ \A t, u \in Task : Cleaning(t, r) /\ Cleaning(u, r) => t = u
        /\ \A t \in Task : task[t].repo = r =>
            /\ task[t].step = "clean" => HooksOf(r) \subseteq task[t].stale
            /\ task[t].step = "create" => HooksOf(r) = {}

IInv ==
    /\ TypeOK /\ Shaped /\ Given /\ RowsDistinct /\ Unstored
    /\ Deregistered /\ EventsTrue /\ Cleaned /\ HookOwned /\ Caused

\* It holds at the start: nothing is there.
LEMMA InitInv == Init => IInv
<1> SUFFICES ASSUME Init PROVE IInv
  OBVIOUS
<1> USE DEF Init
<1>1. Idle \in TaskState /\ Shape(Idle)
  BY RegistrationAssumption DEF Idle, TaskState, Step, Shape
<1>2. \A t \in Task : task[t] = Idle
  OBVIOUS
<1>3. TypeOK
  <2>1. task \in [Task -> TaskState]
    BY <1>1
  <2>2. upstream \in [Repo -> {"in", "archived", "out", "deleted"}]
    OBVIOUS
  <2> QED BY <2>1, <2>2, RegistrationAssumption DEF TypeOK
<1>4. HookIDs = {} /\ \A r \in Repo : HooksOf(r) = {}
  BY DEF HookIDs, HooksOf
<1>5. Shaped
  BY <1>1, <1>2 DEF Shaped
<1>6. Given
  BY <1>2, RegistrationAssumption DEF Given, Idle, HookID
<1>7. RowsDistinct /\ Unstored /\ Deregistered /\ EventsTrue
  BY <1>2 DEF RowsDistinct, Unstored, Deregistered, EventsTrue, Idle
<1>8. Cleaned
  BY <1>2, <1>4 DEF Cleaned, Cleaning, Idle
<1>9. HookOwned /\ Caused
  BY <1>4 DEF HookOwned, Caused
<1> QED BY <1>3, <1>5, <1>6, <1>7, <1>8, <1>9 DEF IInv

-----------------------------------------------------------------------------
(* How a task changes *)

\* A task ends.
LEMMA ReturnTask ==
    ASSUME task \in [Task -> TaskState], NEW t \in Task, Return(t)
    PROVE  /\ task' \in [Task -> TaskState]
           /\ task'[t] = Idle /\ \A u \in Task \ {t} : task'[u] = task[u]
<1>1. Idle \in TaskState
  BY RegistrationAssumption DEF Idle, TaskState, Step
<1> QED BY <1>1 DEF Return

\* A task goes on to a step.
LEMMA GotoTask ==
    ASSUME task \in [Task -> TaskState], NEW t \in Task, NEW s \in Step, Goto(t, s)
    PROVE  /\ task' \in [Task -> TaskState]
           /\ task'[t] = [task[t] EXCEPT !.step = s]
           /\ \A u \in Task \ {t} : task'[u] = task[u]
<1>1. [task[t] EXCEPT !.step = s] \in TaskState
  BY DEF TaskState
<1> QED BY <1>1 DEF Goto

\* A task fails: it is over, or the router handles the message again.
LEMMA FailTask ==
    ASSUME task \in [Task -> TaskState], Shaped, NEW t \in Task, Fail(t), task[t].step # "idle"
    PROVE  /\ task' \in [Task -> TaskState] /\ Shape(task'[t])
           /\ \A u \in Task \ {t} : task'[u] = task[u]
           /\ task'[t].step \in {"idle", "fetch", "read"}
           /\ task'[t].op = "drop" => task[t].op = "drop"
           /\ task'[t].hook \in {None, task[t].hook}
<1> DEFINE c == task[t]
           again == [c EXCEPT !.step = FirstStep(c.op), !.stale = {}, !.tries = @ + 1,
                              !.hook = IF c.op = "add" THEN None ELSE @]
<1>1. c \in TaskState /\ Shape(c)
  BY DEF Shaped
<1>2. task' = [task EXCEPT ![t] = IF Again(t) THEN again ELSE Idle]
  BY DEF Fail
<1>3. CASE Again(t)
  <2>1. c.op \in {"add", "drop"} /\ c.tries + 1 \in 0..MaxRetries
    BY <1>1, <1>3, RegistrationAssumption DEF Again, FromQueue, RetryLimit, TaskState
  <2>2. task'[t] = again
    BY <1>2, <1>3
  <2>3. again \in TaskState
    BY <1>1, <2>1 DEF TaskState, FirstStep, Step
  <2>4. /\ again.op = c.op /\ again.repo = c.repo /\ again.proj = c.proj
        /\ again.step = IF c.op = "add" THEN "fetch" ELSE "read"
        /\ again.hook = IF c.op = "add" THEN None ELSE c.hook
    BY <1>1, <2>1 DEF TaskState, FirstStep
  <2>5. Shape(again)
    BY <1>1, <2>1, <2>4 DEF Shape
  <2> HIDE DEF again, c
  <2>6. task' \in [Task -> TaskState] /\ \A u \in Task \ {t} : task'[u] = task[u]
    BY <1>2, <1>3, <2>3
  <2> QED BY <2>1, <2>2, <2>4, <2>5, <2>6 DEF c
<1>4. CASE ~Again(t)
  <2>1. task'[t] = Idle /\ \A u \in Task \ {t} : task'[u] = task[u]
    BY <1>2, <1>4
  <2>2. Idle \in TaskState /\ Shape(Idle)
    BY RegistrationAssumption DEF Idle, TaskState, Step, Shape
  <2> QED BY <1>2, <1>4, <2>1, <2>2 DEF Idle
<1> QED BY <1>3, <1>4

\* A task begins.
LEMMA BeginTask ==
    ASSUME task \in [Task -> TaskState], NEW t \in Task,
           NEW op \in {"register", "add", "delete", "drop"},
           NEW r \in Repo \cup {None}, NEW p \in Project \cup {None}, NEW h \in HookID \cup {None},
           op \in {"register", "add"} => r \in Repo /\ p \in Project,
           op \in {"delete", "drop"} => h \in HookID,
           Begin(t, op, r, p, h)
    PROVE  /\ task' \in [Task -> TaskState] /\ Shape(task'[t])
           /\ \A u \in Task \ {t} : task'[u] = task[u]
           /\ task[t].step = "idle" /\ task'[t].step \in {"fetch", "read"}
           /\ task'[t].op = op /\ task'[t].hook = h
<1> DEFINE c == [Idle EXCEPT !.op = op, !.step = FirstStep(op), !.repo = r, !.proj = p, !.hook = h]
<1>1. Idle \in TaskState /\ FirstStep(op) \in Step
  BY RegistrationAssumption DEF Idle, TaskState, Step, FirstStep
<1>2. c \in TaskState
  BY <1>1 DEF TaskState
<1>3. c.op = op /\ c.repo = r /\ c.proj = p /\ c.hook = h /\ c.step = FirstStep(op)
  BY <1>1 DEF TaskState
<1>4. c.step = IF op \in {"register", "add"} THEN "fetch" ELSE "read"
  BY <1>3 DEF FirstStep
<1> HIDE DEF c
<1>5. Shape(c)
  BY <1>3, <1>4 DEF Shape
<1>6. task[t].step = "idle" /\ task' = [task EXCEPT ![t] = c]
  BY DEF Begin, c
<1>7. /\ task'[t] = c /\ \A u \in Task \ {t} : task'[u] = task[u]
      /\ task' \in [Task -> TaskState]
  BY <1>2, <1>6
<1> QED BY <1>3, <1>4, <1>5, <1>6, <1>7

-----------------------------------------------------------------------------
(* What most steps have in common *)

\* Where a webhook is removed it is gone, and with it what is known by its repository.
LEMMA FewerHooks ==
    ASSUME hooks' \subseteq hooks
    PROVE  HookIDs' \subseteq HookIDs /\ \A r : HooksOf(r)' \subseteq HooksOf(r)
  BY DEF HookIDs, HooksOf

\* A task after a step that stores nothing: what it knows was known before.
Calm(t) ==
    /\ Shape(task'[t])
    /\ task'[t].step # "store"
    /\ task'[t].step = "remove" => task'[t].hook \notin HookIDs' \/ task'[t].hook \in leaked'
    /\ task'[t].hook \in HookID => task'[t].hook <= used
    /\ task'[t].op = "drop" => Doomed(task'[t].hook)

\* A step that creates no webhook and stores no row keeps the invariant: it may lose
\* webhooks and rows, send what is true, and order deletions that have a cause.
LEMMA CalmStep ==
    ASSUME IInv, TypeOK', used' = used, hooks' \subseteq hooks,
           leaked \subseteq leaked', returned \subseteq returned',
           \A t \in Task : task'[t] = task[t] \/ Calm(t),
           \A w \in rows' : \E v \in rows : v.id = w.id /\ v.hook = w.hook /\ v.repo = w.repo,
           \A i \in deletes' : Doomed(i) \/ \E w \in rows : w.id = i /\ Cause(w),
           \A r \in Repo : Left(r) => Left(r)' \/ r \in returned',
           \A e \in events' \ events :
               /\ e.hook \in HookID => e.hook <= used
               /\ e.kind = "meta" => e.hook \notin HookIDs'
               /\ e.kind = "gone" => Left(e.repo)' \/ e.repo \in returned'
    PROVE  Shaped' /\ Given' /\ Unstored' /\ Deregistered' /\ EventsTrue' /\ Caused'
<1> USE DEF IInv
<1>1. HookIDs' \subseteq HookIDs
  BY FewerHooks
<1>2. Shaped'
  BY DEF Shaped, Calm
<1>3. \A i : Doomed(i)' => Doomed(i) \/ \E w \in rows : w.id = i /\ Cause(w)
  BY DEF Doomed, Calm
<1>4. \A i : Doomed(i) => i <= used
  <2>1. \A t \in Task : task[t].op = "drop" => task[t].hook \in HookID
    BY DEF Shaped, Shape
  <2> QED BY <2>1 DEF Doomed, Given
<1>5. Given'
  <2>1. \A i \in deletes' : i <= used
    BY <1>4 DEF Given
  <2>2. \A w \in rows' : w.id <= used
    BY DEF Given
  <2> QED BY <2>1, <2>2 DEF Given, Calm
<1>6. Unstored'
  <2>1. ASSUME NEW t \in Task, task'[t].step = "store" PROVE task'[t] = task[t]
    BY <2>1 DEF Calm
  <2>2. ASSUME NEW t \in Task, task'[t].step = "store", NEW h, h = task'[t].hook
        PROVE /\ \A w \in rows' : w.id # h
              /\ \A u \in Task : u # t /\ task'[u].step = "store" => task'[u].hook # h
              /\ ~Doomed(h)'
    <3>1. task'[t] = task[t] /\ task[t].step = "store" /\ task[t].hook = h
      BY <2>1, <2>2
    <3>2. /\ \A w \in rows : w.id # h
          /\ \A u \in Task : u # t /\ task[u].step = "store" => task[u].hook # h
          /\ ~Doomed(h)
      BY <3>1 DEF Unstored
    <3>3. \A w \in rows' : w.id # h
      BY <3>1, <3>2
    <3>4. \A u \in Task : u # t /\ task'[u].step = "store" => task'[u].hook # h
      BY <2>1, <3>1, <3>2
    <3>5. ~Doomed(h)'
      BY <1>3, <3>2
    <3> QED BY <3>3, <3>4, <3>5
  <2>3. \A t \in Task : task'[t].step = "store" =>
            /\ \A w \in rows' : w.id # task'[t].hook
            /\ \A u \in Task : u # t /\ task'[u].step = "store" => task'[u].hook # task'[t].hook
            /\ \A h : h = task'[t].hook => ~Doomed(h)'
    BY <2>2
  <2> QED BY <2>3 DEF Unstored, Doomed
<1>7. Deregistered'
  BY <1>1 DEF Deregistered, Calm
<1>8. EventsTrue'
  <2>1. ASSUME NEW e \in events'
        PROVE /\ e.kind = "meta" => e.hook \notin HookIDs'
              /\ e.kind = "gone" => Left(e.repo)' \/ e.repo \in returned'
    <3>1. CASE e \in events
      <4>1. e.repo \in Repo
        BY <3>1 DEF TypeOK, Event
      <4> QED BY <1>1, <3>1, <4>1 DEF EventsTrue
    <3> QED BY <2>1, <3>1
  <2> QED BY <2>1 DEF EventsTrue, Left
<1>9. Caused'
  <2>1. ASSUME NEW w \in rows', Doomed(w.id)' PROVE Cause(w)'
    <3>1. PICK v \in rows : v.id = w.id /\ v.hook = w.hook /\ v.repo = w.repo
      BY <2>1
    <3>2. Cause(v)
      <4>1. CASE Doomed(w.id)
        BY <3>1, <4>1 DEF Caused
      <4>2. CASE \E x \in rows : x.id = w.id /\ Cause(x)
        BY <3>1, <4>2 DEF RowsDistinct
      <4> QED BY <1>3, <2>1, <4>1, <4>2
    <3>3. w.repo \in Repo
      BY <3>1 DEF TypeOK, Row
    <3>4. w.hook \notin HookIDs \/ Left(w.repo) \/ w.repo \in returned
      BY <3>1, <3>2 DEF Cause
    <3>5. w.hook \notin HookIDs' \/ Left(w.repo)' \/ w.repo \in returned'
      BY <1>1, <3>3, <3>4
    <3> QED BY <3>5 DEF Cause, Left, HookIDs
  <2> QED BY <2>1 DEF Caused
<1> QED BY <1>2, <1>5, <1>6, <1>7, <1>8, <1>9

\* Losing rows keeps them distinct.
LEMMA FewerRows == RowsDistinct /\ rows' \subseteq rows => RowsDistinct'
  BY DEF RowsDistinct

\* Cleaning up is not disturbed by a step that neither takes it up nor creates a webhook.
LEMMA CleanedStep ==
    ASSUME IInv, hooks' \subseteq hooks, crowded \subseteq crowded',
           \A t \in Task : task'[t] = task[t] \/ task'[t].step \notin {"clean", "create"}
    PROVE  Cleaned'
<1>1. \A r : HooksOf(r)' \subseteq HooksOf(r)
  BY FewerHooks
<1>2. \A t \in Task : task'[t].step \in {"clean", "create"} => task'[t] = task[t]
  OBVIOUS
<1>3. ASSUME NEW r \in Repo \ crowded'
      PROVE /\ \A i, j \in HooksOf(r)' : i = j
            /\ \A t, u \in Task : Cleaning(t, r)' /\ Cleaning(u, r)' => t = u
            /\ \A t \in Task : task'[t].repo = r =>
                /\ task'[t].step = "clean" => HooksOf(r)' \subseteq task'[t].stale
                /\ task'[t].step = "create" => HooksOf(r)' = {}
  <2>1. /\ \A i, j \in HooksOf(r) : i = j
        /\ \A t, u \in Task : Cleaning(t, r) /\ Cleaning(u, r) => t = u
        /\ \A t \in Task : task[t].repo = r =>
            /\ task[t].step = "clean" => HooksOf(r) \subseteq task[t].stale
            /\ task[t].step = "create" => HooksOf(r) = {}
    BY <1>3 DEF IInv, Cleaned
  <2>2. \A t \in Task : Cleaning(t, r)' => Cleaning(t, r)
    BY <1>2 DEF Cleaning
  <2> QED BY <1>1, <1>2, <2>1, <2>2
<1> QED BY <1>3 DEF Cleaned, HooksOf, Cleaning

\* Webhooks stay owned where none is created and owners hand over or leave behind.
LEMMA OwnedStep ==
    ASSUME IInv, hooks' \subseteq hooks, leaked \subseteq leaked',
           \A w \in rows : (\E v \in rows' : v.hook = w.hook) \/ w.hook \notin HookIDs' \/ w.hook \in leaked',
           \A t \in Task : task[t].step \in {"store", "undo"} =>
               \/ task'[t].step \in {"store", "undo"} /\ task'[t].hook = task[t].hook
               \/ task[t].hook \notin HookIDs' \/ task[t].hook \in leaked'
               \/ \E v \in rows' : v.hook = task[t].hook
    PROVE  HookOwned'
<1>1. HookIDs' \subseteq HookIDs
  BY FewerHooks
<1>2. ASSUME NEW h \in HookIDs'
      PROVE  \/ \E w \in rows' : w.hook = h
             \/ \E t \in Task : task'[t].hook = h /\ task'[t].step \in {"store", "undo"}
             \/ h \in leaked'
  <2>1. \/ \E w \in rows : w.hook = h
        \/ \E t \in Task : task[t].hook = h /\ task[t].step \in {"store", "undo"}
        \/ h \in leaked
    BY <1>1, <1>2 DEF IInv, HookOwned
  <2> QED BY <1>2, <2>1
<1> QED BY <1>2 DEF HookOwned, HookIDs

-----------------------------------------------------------------------------
(* The types *)

\* The bookkeeping of a step leaves the counters within their bounds.
LEMMA Counters ==
    ASSUME TypeOK
    PROVE  /\ Fault => faults' \in 0..MaxFaults
           /\ NoFault => faults' \in 0..MaxFaults
           /\ \A op : Allowed(op) => calls' \in 0..MaxCalls
  BY RegistrationAssumption DEF TypeOK, Fault, NoFault, Allowed

\* Deleting a webhook: it is gone, and the notification says so, or the provider
\* refused.
LEMMA DeleteHookEffect ==
    ASSUME TypeOK, Given, NEW r \in Repo, NEW h, DeleteHook(r, h)
    PROVE  /\ hooks' \subseteq hooks /\ events' \subseteq Event
           /\ h \notin HookIDs' \/ Refused(r, h) = {h}
           /\ Refused(r, h) = {} => HooksOf(r)' = HooksOf(r) \ {h}
           /\ \A e \in events' \ events :
                  e.kind = "meta" /\ e.hook \notin HookIDs' /\ e.hook \in HookID /\ e.hook <= used
<1> DEFINE gone == {g \in hooks : g.id = h /\ Reachable(r)}
<1>1. /\ hooks' = hooks \ gone
      /\ events' = events \cup {[kind |-> "meta", repo |-> r, hook |-> g.id] : g \in gone}
  BY DEF DeleteHook
<1>2. \A g \in hooks : g.id \in HookID /\ g.id <= used
  BY DEF TypeOK, Hook, Given
<1>3. h \notin HookIDs' \/ Refused(r, h) = {h}
  BY <1>1 DEF Refused, HookIDs
<1>4. Refused(r, h) = {} => HooksOf(r)' = HooksOf(r) \ {h}
  BY <1>1 DEF Refused, HookIDs, HooksOf
<1>5. ASSUME NEW e \in events' \ events
      PROVE e \in Event /\ e.kind = "meta" /\ e.hook \notin HookIDs' /\ e.hook \in HookID /\ e.hook <= used
  <2>1. PICK g \in gone : e = [kind |-> "meta", repo |-> r, hook |-> g.id]
    BY <1>1, <1>5
  <2>2. e.kind = "meta" /\ e.hook = g.id /\ g.id = h /\ Reachable(r)
    BY <2>1
  <2>3. e.hook \notin HookIDs'
    BY <1>1, <2>2 DEF HookIDs
  <2>4. e \in Event
    BY <1>2, <2>1 DEF Event
  <2> QED BY <1>2, <2>2, <2>3, <2>4
<1>6. events' \subseteq Event
  BY <1>5 DEF TypeOK
<1> QED BY <1>1, <1>3, <1>4, <1>5, <1>6

\* What a task in a step knows.
LEMMA TaskKnows ==
    ASSUME TypeOK, Shaped, NEW t \in Task
    PROVE  /\ task[t] \in TaskState /\ Shape(task[t])
           /\ task[t].step \in {"fetch", "list", "clean", "create", "store", "undo"} =>
                task[t].op \in {"register", "add"} /\ task[t].repo \in Repo /\ task[t].proj \in Project
           /\ task[t].step \in {"read", "deregister", "remove"} =>
                task[t].op \in {"delete", "drop"} /\ task[t].hook \in HookID
           /\ task[t].step \in {"deregister", "remove"} => task[t].repo \in Repo
           /\ task[t].step \in {"store", "undo"} => task[t].hook \in HookID
<1>1. task[t] \in TaskState /\ Shape(task[t])
  BY DEF TypeOK, Shaped
<1>2. task[t].op \in {"none", "register", "add", "delete", "drop"}
  BY <1>1 DEF TaskState
<1> QED BY <1>1, <1>2 DEF Shape

\* Calls and messages that begin, are carried out and end keep the types.
LEMMA TypeTask ==
    ASSUME IInv, NEW t \in Task,
           \/ RegisterRepository(t) \/ DeleteRepository(t) \/ HandleEntityAdd(t) \/ HandleEntityDelete(t)
           \/ Handle(t) \/ Crash(t)
    PROVE  TypeOK'
<1> USE RegistrationAssumption, Counters DEF provider, queues, ghosts, KeepHooks, SpareHook
<1>0. /\ TypeOK /\ Shaped /\ Given /\ task \in [Task -> TaskState]
      /\ task[t] \in TaskState /\ Shape(task[t]) /\ None \notin HookID
  BY TaskKnows DEF IInv, TypeOK, HookID
<1>1. CASE RegisterRepository(t)
  <2>1. task' \in [Task -> TaskState]
    BY <1>0, <1>1, BeginTask DEF RegisterRepository
  <2> QED BY <1>0, <1>1, <2>1 DEF RegisterRepository, TypeOK
<1>2. CASE DeleteRepository(t)
  <2>1. PICK w \in rows : Begin(t, "delete", None, None, w.id)
    BY <1>2 DEF DeleteRepository
  <2>2. w.id \in HookID
    BY <1>0 DEF TypeOK, Row
  <2>3. task' \in [Task -> TaskState]
    BY <1>0, <2>1, <2>2, BeginTask
  <2> QED BY <1>0, <1>2, <2>3 DEF DeleteRepository, TypeOK
<1>3. CASE HandleEntityAdd(t)
  <2>1. PICK m \in adds : Begin(t, "add", m[1], m[2], None) /\ adds' = adds \ {m}
    BY <1>3 DEF HandleEntityAdd
  <2>2. m[1] \in Repo /\ m[2] \in Project
    BY <1>0 DEF TypeOK
  <2>3. task' \in [Task -> TaskState]
    BY <1>0, <2>1, <2>2, BeginTask
  <2> QED BY <1>0, <1>3, <2>1, <2>3 DEF HandleEntityAdd, TypeOK
<1>4. CASE HandleEntityDelete(t)
  <2>1. PICK i \in deletes : Begin(t, "drop", None, None, i) /\ deletes' = deletes \ {i}
    BY <1>4 DEF HandleEntityDelete
  <2>2. i \in HookID
    BY <1>0 DEF TypeOK
  <2>3. task' \in [Task -> TaskState]
    BY <1>0, <2>1, <2>2, BeginTask
  <2> QED BY <1>0, <1>4, <2>1, <2>3 DEF HandleEntityDelete, TypeOK
<1>5. CASE FetchProperties(t)
  <2>1. task' \in [Task -> TaskState]
    BY <1>0, <1>5, GotoTask, FailTask DEF FetchProperties, Step
  <2> QED BY <1>0, <1>5, <2>1 DEF FetchProperties, TypeOK
<1>6. CASE ListHooks(t)
  <2>1. task' \in [Task -> TaskState]
    <3>1. CASE Fail(t)
      BY <1>0, <1>6, <3>1, FailTask DEF ListHooks
    <3>2. CASE task' = [task EXCEPT ![t].step = "clean",
                          ![t].stale = IF Reachable(task[t].repo) THEN StaleHooks(task[t].repo) ELSE {}]
      <4>1. StaleHooks(task[t].repo) \subseteq HookID
        BY <1>0 DEF StaleHooks, HooksOf, TypeOK, Hook
      <4> QED BY <1>0, <3>2, <4>1 DEF TaskState, Step
    <3> QED BY <1>6, <3>1, <3>2 DEF ListHooks
  <2>2. crowded' \subseteq Repo /\ faults' \in 0..MaxFaults
    BY <1>0, <1>6, TaskKnows DEF ListHooks, TypeOK
  <2> QED BY <1>0, <1>6, <2>1, <2>2 DEF ListHooks, TypeOK
<1>7. CASE DeleteStaleHook(t)
  <2>0. task[t].repo \in Repo
    BY <1>0, <1>7, TaskKnows DEF DeleteStaleHook
  <2>1. task' \in [Task -> TaskState]
    <3>1. CASE Fail(t)
      BY <1>0, <1>7, <3>1, FailTask DEF DeleteStaleHook
    <3>2. CASE \E h : task' = [task EXCEPT ![t].stale = @ \ {h}]
      BY <1>0, <3>2 DEF TaskState
    <3> QED BY <1>7, <3>1, <3>2 DEF DeleteStaleHook
  <2>2. hooks' \subseteq Hook /\ events' \subseteq Event
    BY <1>0, <1>7, <2>0, DeleteHookEffect DEF DeleteStaleHook, TypeOK
  <2>3. crowded' \subseteq Repo /\ faults' \in 0..MaxFaults
    BY <1>0, <1>7, <2>0 DEF DeleteStaleHook, TypeOK
  <2> QED BY <1>0, <1>7, <2>1, <2>2, <2>3 DEF DeleteStaleHook, TypeOK
<1>8. CASE StaleHooksDeleted(t)
  <2>1. task' \in [Task -> TaskState]
    BY <1>0, <1>8, GotoTask DEF StaleHooksDeleted, Step
  <2> QED BY <1>0, <1>8, <2>1 DEF StaleHooksDeleted, TypeOK
<1>9. CASE CreateHook(t)
  <2>0. task[t].repo \in Repo
    BY <1>0, <1>9, TaskKnows DEF CreateHook
  <2>1. \/ used' = used /\ hooks' = hooks /\ leaked' = leaked
        \/ /\ used' = used + 1 /\ used' \in HookID /\ hooks' = hooks \cup {[repo |-> task[t].repo, id |-> used']}
           /\ leaked' = leaked \/ leaked' = leaked \cup {used'}
    BY <1>0, <1>9 DEF CreateHook, TypeOK, HookID
  <2>2. task' \in [Task -> TaskState]
    <3>1. CASE Fail(t)
      BY <1>0, <1>9, <3>1, FailTask DEF CreateHook
    <3>2. CASE task' = [task EXCEPT ![t].step = "store", ![t].hook = used'] /\ used' \in HookID
      BY <1>0, <3>2 DEF TaskState, Step
    <3> QED BY <1>0, <1>9, <3>1, <3>2 DEF CreateHook, TypeOK, HookID
  <2>3. faults' \in 0..MaxFaults
    BY <1>0, <1>9 DEF CreateHook
  <2>4. hooks' \subseteq Hook /\ leaked' \subseteq HookID
    <3>1. used' \in HookID => [repo |-> task[t].repo, id |-> used'] \in Hook
      BY <2>0 DEF Hook
    <3> QED BY <1>0, <2>1, <3>1 DEF TypeOK
  <2>5. used' \in 0..MaxHooks
    BY <1>0, <2>1 DEF TypeOK, HookID
  <2> QED BY <1>0, <1>9, <2>2, <2>3, <2>4, <2>5 DEF CreateHook, TypeOK
<1>10. CASE StoreEntity(t)
  <2>1. task' \in [Task -> TaskState]
    BY <1>0, <1>10, GotoTask, FailTask, ReturnTask DEF StoreEntity, StoreFailed, Step
  <2>2. rows' \subseteq Row
    <3>1. task[t].repo \in Repo /\ task[t].proj \in Project /\ task[t].hook \in HookID
      BY <1>0, <1>10, TaskKnows DEF StoreEntity
    <3>2. rows' = rows \/ rows' = rows \cup {[id |-> task[t].hook, repo |-> task[t].repo,
                 proj |-> task[t].proj, hook |-> task[t].hook, closed |-> FALSE]}
      BY <1>10 DEF StoreEntity, StoredHook
    <3>3. [id |-> task[t].hook, repo |-> task[t].repo,
           proj |-> task[t].proj, hook |-> task[t].hook, closed |-> FALSE] \in Row
      BY <3>1 DEF Row
    <3> QED BY <1>0, <3>2, <3>3 DEF TypeOK
  <2>3. faults' \in 0..MaxFaults
    BY <1>0, <1>10 DEF StoreEntity
  <2> QED BY <1>0, <1>10, <2>1, <2>2, <2>3 DEF StoreEntity, TypeOK
<1>11. CASE Undo(t)
  <2>0. task[t].repo \in Repo /\ task[t].hook \in HookID
    BY <1>0, <1>11, TaskKnows DEF Undo
  <2>1. task' \in [Task -> TaskState]
    BY <1>0, <1>11, FailTask DEF Undo
  <2>2. hooks' \subseteq Hook /\ events' \subseteq Event
    BY <1>0, <1>11, <2>0, DeleteHookEffect DEF Undo, TypeOK
  <2>3. leaked' \subseteq HookID /\ faults' \in 0..MaxFaults
    BY <1>0, <1>11, <2>0 DEF Undo, Refused, TypeOK
  <2> QED BY <1>0, <1>11, <2>1, <2>2, <2>3 DEF Undo, TypeOK
<1>12. CASE ReadEntity(t)
  <2>0. task[t].hook \in HookID
    BY <1>0, <1>12, TaskKnows DEF ReadEntity
  <2>1. task' \in [Task -> TaskState]
    <3>1. CASE Fail(t) \/ Return(t)
      BY <1>0, <1>12, <3>1, FailTask, ReturnTask DEF ReadEntity
    <3>2. ASSUME NEW w \in rows, task' = [task EXCEPT ![t].step = "deregister", ![t].repo = w.repo]
          PROVE task' \in [Task -> TaskState]
      <4>1. w.repo \in Repo
        BY <1>0 DEF TypeOK, Row
      <4> QED BY <1>0, <3>2, <4>1 DEF TaskState, Step
    <3> QED BY <1>12, <3>1, <3>2 DEF ReadEntity, RowsByID
  <2>2. missed' \subseteq HookID /\ faults' \in 0..MaxFaults
    BY <1>0, <1>12, <2>0 DEF ReadEntity, GivenUp, TypeOK
  <2> QED BY <1>0, <1>12, <2>1, <2>2 DEF ReadEntity, TypeOK
<1>13. CASE Deregister(t)
  <2>0. task[t].repo \in Repo /\ task[t].hook \in HookID
    BY <1>0, <1>13, TaskKnows DEF Deregister
  <2>1. task' \in [Task -> TaskState]
    BY <1>0, <1>13, GotoTask DEF Deregister, Step
  <2>2. hooks' \subseteq Hook /\ events' \subseteq Event
    BY <1>0, <1>13, <2>0, DeleteHookEffect DEF Deregister, TypeOK
  <2>3. leaked' \subseteq HookID /\ faults' \in 0..MaxFaults
    BY <1>0, <1>13, <2>0 DEF Deregister, Refused, TypeOK
  <2> QED BY <1>0, <1>13, <2>1, <2>2, <2>3 DEF Deregister, TypeOK
<1>14. CASE RemoveEntity(t)
  <2>0. task[t].hook \in HookID
    BY <1>0, <1>14, TaskKnows DEF RemoveEntity
  <2>1. task' \in [Task -> TaskState]
    BY <1>0, <1>14, FailTask, ReturnTask DEF RemoveEntity
  <2>2. missed' \subseteq HookID /\ faults' \in 0..MaxFaults /\ rows' \subseteq Row
    BY <1>0, <1>14, <2>0 DEF RemoveEntity, GivenUp, TypeOK
  <2> QED BY <1>0, <1>14, <2>1, <2>2 DEF RemoveEntity, TypeOK
<1>15. CASE Crash(t)
  <2>1. task' \in [Task -> TaskState]
    BY <1>0, <1>15, ReturnTask DEF Crash
  <2>2. leaked' \subseteq HookID
    BY <1>0, <1>15, TaskKnows DEF Crash, TypeOK
  <2>3. deletes' \subseteq HookID /\ missed' \subseteq HookID
    BY <1>0, <1>15 DEF Crash, FromQueue, TypeOK, Shape
  <2>4. adds' \subseteq Repo \X Project
    BY <1>0, <1>15 DEF Crash, FromQueue, TypeOK, Shape
  <2> QED BY <1>0, <1>15, <2>1, <2>2, <2>3, <2>4 DEF Crash, TypeOK
<1> QED BY <1>1, <1>2, <1>3, <1>4, <1>5, <1>6, <1>7, <1>8, <1>9, <1>10, <1>11, <1>12, <1>13,
           <1>14, <1>15 DEF Handle

\* So do notifications and what happens at the provider.
LEMMA TypeOther ==
    ASSUME IInv, Environment \/ \E e \in events : GetEntityAndDelete(e) \/ LoseEvent(e)
    PROVE  TypeOK'
<1> USE RegistrationAssumption, Counters DEF provider, queues, ghosts
<1>0. TypeOK /\ Given
  BY DEF IInv
<1>1. \A e \in events : e.repo \in Repo /\ {e.hook} \ {None} \subseteq HookID
  BY <1>0 DEF TypeOK, Event
<1>2. \A w \in rows : w.id \in HookID /\ w.hook \in HookID /\ w.repo \in Repo
  BY <1>0 DEF TypeOK, Row
<1>3. ASSUME NEW e \in events, GetEntityAndDelete(e) PROVE TypeOK'
  <2>1. deletes' \subseteq HookID
    BY <1>0, <1>2, <1>3 DEF GetEntityAndDelete, Forwarded, RowsOf, TypeOK
  <2>2. missed' \subseteq HookID
    BY <1>0, <1>1, <1>3 DEF GetEntityAndDelete, Unheard, TypeOK
  <2> QED BY <1>0, <1>3, <2>1, <2>2 DEF GetEntityAndDelete, TypeOK
<1>4. ASSUME NEW e \in events, LoseEvent(e) PROVE TypeOK'
  BY <1>0, <1>1, <1>4 DEF LoseEvent, TypeOK
<1>5. CASE UserDeletesHook
  <2>1. PICK h \in hooks : DeleteHook(h.repo, h.id)
    BY <1>5 DEF UserDeletesHook
  <2>2. h.repo \in Repo
    BY <1>0 DEF TypeOK, Hook
  <2>3. hooks' \subseteq Hook /\ events' \subseteq Event
    BY <1>0, <2>1, <2>2, DeleteHookEffect DEF TypeOK
  <2> QED BY <1>0, <1>5, <2>3 DEF UserDeletesHook, TypeOK
<1>6. CASE DeleteEntityByID
  BY <1>0, <1>2, <1>6 DEF DeleteEntityByID, TypeOK
<1>7. ASSUME NEW r \in Repo, RepositoryDeleted(r) PROVE TypeOK'
  <2>1. HooksOf(r) \subseteq HookID
    BY <1>0 DEF HooksOf, TypeOK, Hook
  <2>2. events' \subseteq Event
    BY <1>0, <1>7, <2>1 DEF RepositoryDeleted, Event, TypeOK
  <2>3. hooks' \subseteq Hook /\ upstream' \in [Repo -> {"in", "archived", "out", "deleted"}]
    BY <1>0, <1>7 DEF RepositoryDeleted, TypeOK
  <2> QED BY <1>0, <1>7, <2>2, <2>3 DEF RepositoryDeleted, TypeOK
<1>8. ASSUME NEW r \in Repo, RepositoryRemoved(r) PROVE TypeOK'
  <2>1. [kind |-> "gone", repo |-> r, hook |-> None] \in Event
    BY DEF Event
  <2> QED BY <1>0, <1>8, <2>1 DEF RepositoryRemoved, TypeOK
<1>9. ASSUME NEW r \in Repo, RepositoryAdded(r) PROVE TypeOK'
  BY <1>0, <1>9 DEF RepositoryAdded, TypeOK
<1>10. ASSUME NEW r \in Repo, Archive(r) PROVE TypeOK'
  BY <1>0, <1>10 DEF Archive, TypeOK
<1>11. ASSUME NEW w \in rows, RefreshArchived(w) PROVE TypeOK'
  <2>1. [w EXCEPT !.closed = TRUE] \in Row
    BY <1>0 DEF TypeOK, Row
  <2> QED BY <1>0, <1>11, <2>1 DEF RefreshArchived, TypeOK
<1> QED BY <1>3, <1>4, <1>5, <1>6, <1>7, <1>8, <1>9, <1>10, <1>11 DEF Environment

-----------------------------------------------------------------------------
(* The steps *)

\* A step that neither cleans up nor creates a webhook nor stores a row.
LEMMA QuietStep ==
    ASSUME IInv, TypeOK', RowsDistinct', used' = used, hooks' \subseteq hooks,
           leaked \subseteq leaked', returned \subseteq returned', crowded \subseteq crowded',
           \A t \in Task : task'[t] = task[t] \/ (Calm(t) /\ task'[t].step \notin {"clean", "create"}),
           \A w \in rows' : \E v \in rows : v.id = w.id /\ v.hook = w.hook /\ v.repo = w.repo,
           \A w \in rows : (\E v \in rows' : v.hook = w.hook) \/ w.hook \notin HookIDs' \/ w.hook \in leaked',
           \A t \in Task : task[t].step \in {"store", "undo"} =>
               \/ task'[t].step \in {"store", "undo"} /\ task'[t].hook = task[t].hook
               \/ task[t].hook \notin HookIDs' \/ task[t].hook \in leaked',
           \A i \in deletes' : Doomed(i) \/ \E w \in rows : w.id = i /\ Cause(w),
           \A r \in Repo : Left(r) => Left(r)' \/ r \in returned',
           \A e \in events' \ events :
               /\ e.hook \in HookID => e.hook <= used
               /\ e.kind = "meta" => e.hook \notin HookIDs'
               /\ e.kind = "gone" => Left(e.repo)' \/ e.repo \in returned'
    PROVE  IInv'
<1>1. Shaped' /\ Given' /\ Unstored' /\ Deregistered' /\ EventsTrue' /\ Caused'
  BY CalmStep
<1>2. Cleaned'
  BY CleanedStep
<1>3. HookOwned'
  BY OwnedStep
<1> QED BY <1>1, <1>2, <1>3 DEF IInv

\* A task that fails or returns is calm.
LEMMA FailCalm ==
    ASSUME IInv, NEW t \in Task, Fail(t), task[t].step # "idle"
    PROVE  /\ Calm(t) /\ task'[t].step \in {"idle", "fetch", "read"}
           /\ \A u \in Task \ {t} : task'[u] = task[u]
<1>1. TypeOK /\ Shaped /\ Given /\ task \in [Task -> TaskState] /\ None \notin HookID
  BY RegistrationAssumption DEF IInv, TypeOK, HookID
<1>2. /\ Shape(task'[t])
      /\ \A u \in Task \ {t} : task'[u] = task[u]
      /\ task'[t].step \in {"idle", "fetch", "read"}
      /\ task'[t].op = "drop" => task[t].op = "drop"
      /\ task'[t].hook \in {None, task[t].hook}
  BY <1>1, FailTask
<1>3. task'[t].op = "drop" => task'[t].hook = task[t].hook
  BY <1>1, <1>2 DEF Shape
<1>4. task'[t].op = "drop" => Doomed(task'[t].hook)
  BY <1>2, <1>3 DEF Doomed
<1>5. task'[t].hook \in HookID => task'[t].hook <= used
  BY <1>1, <1>2 DEF Given
<1> QED BY <1>2, <1>4, <1>5 DEF Calm

\* A task that is over knows nothing.
LEMMA ReturnCalm ==
    ASSUME IInv, NEW t \in Task, Return(t)
    PROVE  /\ Calm(t) /\ task'[t].step = "idle"
           /\ \A u \in Task \ {t} : task'[u] = task[u]
<1>1. task \in [Task -> TaskState] /\ None \notin HookID
  BY RegistrationAssumption DEF IInv, TypeOK, HookID
<1>2. task'[t] = Idle /\ \A u \in Task \ {t} : task'[u] = task[u]
  BY <1>1, ReturnTask
<1> QED BY <1>1, <1>2 DEF Calm, Shape, Idle

\* A task that begins knows what it was asked to do.
LEMMA BeginCalm ==
    ASSUME IInv, NEW t \in Task,
           NEW op \in {"register", "add", "delete", "drop"},
           NEW r \in Repo \cup {None}, NEW p \in Project \cup {None}, NEW h \in HookID \cup {None},
           op \in {"register", "add"} => r \in Repo /\ p \in Project,
           op \in {"delete", "drop"} => h \in HookID,
           h \in HookID => h <= used,
           op = "drop" => Doomed(h),
           Begin(t, op, r, p, h)
    PROVE  /\ Calm(t) /\ task[t].step = "idle" /\ task'[t].step \in {"fetch", "read"}
           /\ \A u \in Task \ {t} : task'[u] = task[u]
<1>1. task \in [Task -> TaskState]
  BY DEF IInv, TypeOK
<1>2. /\ Shape(task'[t])
      /\ \A u \in Task \ {t} : task'[u] = task[u]
      /\ task[t].step = "idle" /\ task'[t].step \in {"fetch", "read"}
      /\ task'[t].op = op /\ task'[t].hook = h
  <2>1. CASE op = "register"
    BY <1>1, <2>1, BeginTask
  <2>2. CASE op = "add"
    BY <1>1, <2>2, BeginTask
  <2>3. CASE op = "delete"
    BY <1>1, <2>3, BeginTask
  <2>4. CASE op = "drop"
    BY <1>1, <2>4, BeginTask
  <2> QED BY <2>1, <2>2, <2>3, <2>4
<1> QED BY <1>2 DEF Calm

\* A task that goes on to a step keeps what it knows.
LEMMA GotoCalm ==
    ASSUME IInv, NEW t \in Task, NEW s \in Step, Goto(t, s), s # "store",
           Shape([task[t] EXCEPT !.step = s]),
           s = "remove" => task[t].hook \notin HookIDs' \/ task[t].hook \in leaked'
    PROVE  /\ Calm(t) /\ task'[t] = [task[t] EXCEPT !.step = s]
           /\ \A u \in Task \ {t} : task'[u] = task[u]
           /\ task'[t].step = s /\ task'[t].repo = task[t].repo
           /\ task'[t].hook = task[t].hook /\ task'[t].stale = task[t].stale
<1>1. task \in [Task -> TaskState] /\ Given
  BY DEF IInv, TypeOK
<1>2. /\ task'[t] = [task[t] EXCEPT !.step = s]
      /\ \A u \in Task \ {t} : task'[u] = task[u]
  BY <1>1, GotoTask
<1>3. task[t] \in TaskState
  BY <1>1
<1>4. /\ task'[t].step = s /\ task'[t].hook = task[t].hook /\ task'[t].op = task[t].op
      /\ task'[t].repo = task[t].repo /\ task'[t].stale = task[t].stale
  BY <1>2, <1>3 DEF TaskState
<1>5. task'[t].op = "drop" => Doomed(task'[t].hook)
  BY <1>4 DEF Doomed
<1> QED BY <1>1, <1>2, <1>4, <1>5 DEF Calm, Given

\* The same for the step of one task, at a provider that does not change by itself.
LEMMA QuietTask ==
    ASSUME IInv, TypeOK', NEW t \in Task, Calm(t), task'[t].step \notin {"clean", "create"},
           \A u \in Task \ {t} : task'[u] = task[u],
           UNCHANGED <<upstream, used, returned>>, crowded \subseteq crowded', leaked \subseteq leaked',
           hooks' \subseteq hooks, rows' \subseteq rows,
           \A w \in rows \ rows' : w.hook \notin HookIDs' \/ w.hook \in leaked',
           task[t].step \in {"store", "undo"} =>
               \/ task'[t].step \in {"store", "undo"} /\ task'[t].hook = task[t].hook
               \/ task[t].hook \notin HookIDs' \/ task[t].hook \in leaked',
           \A i \in deletes' : Doomed(i),
           \A e \in events' \ events :
               e.kind = "meta" /\ e.hook \notin HookIDs' /\ e.hook \in HookID /\ e.hook <= used
    PROVE  IInv'
<1>1. RowsDistinct'
  BY FewerRows DEF IInv
<1>2. \A r \in Repo : Left(r) => Left(r)' \/ r \in returned'
  BY DEF Left
<1>3. \A e \in events' \ events :
          /\ e.hook \in HookID => e.hook <= used
          /\ e.kind = "meta" => e.hook \notin HookIDs'
          /\ e.kind = "gone" => Left(e.repo)' \/ e.repo \in returned'
  OBVIOUS
<1>4. \A u \in Task : task'[u] = task[u] \/ (Calm(u) /\ task'[u].step \notin {"clean", "create"})
  OBVIOUS
<1>5. \A u \in Task : task[u].step \in {"store", "undo"} =>
          \/ task'[u].step \in {"store", "undo"} /\ task'[u].hook = task[u].hook
          \/ task[u].hook \notin HookIDs' \/ task[u].hook \in leaked'
  OBVIOUS
<1>6. /\ \A w \in rows' : \E v \in rows : v.id = w.id /\ v.hook = w.hook /\ v.repo = w.repo
      /\ \A w \in rows : (\E v \in rows' : v.hook = w.hook) \/ w.hook \notin HookIDs' \/ w.hook \in leaked'
  OBVIOUS
<1>7. used' = used /\ returned \subseteq returned'
  OBVIOUS
<1> QED BY <1>1, <1>2, <1>3, <1>4, <1>5, <1>6, <1>7, QuietStep

\* Calls and messages begin, fail, go back and end.
LEMMA TaskStep ==
    ASSUME IInv, NEW t \in Task,
           \/ RegisterRepository(t) \/ DeleteRepository(t) \/ HandleEntityAdd(t) \/ HandleEntityDelete(t)
           \/ FetchProperties(t) \/ Undo(t) \/ ReadEntity(t) \/ Deregister(t) \/ RemoveEntity(t) \/ Crash(t)
    PROVE  IInv'
<1> USE DEF provider, queues, ghosts
<1>0. TypeOK' /\ TypeOK /\ Given /\ Shaped /\ None \notin HookID
  BY RegistrationAssumption, TypeTask DEF Handle, IInv, HookID
<1>1. \A i \in deletes : Doomed(i)
  BY DEF Doomed
<1>2. CASE RegisterRepository(t)
  <2>1. PICK r \in Repo, p \in Project : Begin(t, "register", r, p, None)
    BY <1>2 DEF RegisterRepository
  <2>2. /\ Calm(t) /\ task[t].step = "idle" /\ task'[t].step \in {"fetch", "read"}
        /\ \A u \in Task \ {t} : task'[u] = task[u]
    BY <1>0, <2>1, BeginCalm
  <2> QED BY <1>0, <1>1, <1>2, <2>2, QuietTask DEF RegisterRepository
<1>3. CASE DeleteRepository(t)
  <2>1. PICK w \in rows : Begin(t, "delete", None, None, w.id)
    BY <1>3 DEF DeleteRepository
  <2>2. w.id \in HookID /\ w.id <= used
    BY <1>0 DEF TypeOK, Row, Given
  <2>3. /\ Calm(t) /\ task[t].step = "idle" /\ task'[t].step \in {"fetch", "read"}
        /\ \A u \in Task \ {t} : task'[u] = task[u]
    BY <2>1, <2>2, BeginCalm
  <2> QED BY <1>0, <1>1, <1>3, <2>3, QuietTask DEF DeleteRepository
<1>4. CASE HandleEntityAdd(t)
  <2>1. PICK m \in adds : Begin(t, "add", m[1], m[2], None)
    BY <1>4 DEF HandleEntityAdd
  <2>2. m[1] \in Repo /\ m[2] \in Project
    BY <1>0 DEF TypeOK
  <2>3. /\ Calm(t) /\ task[t].step = "idle" /\ task'[t].step \in {"fetch", "read"}
        /\ \A u \in Task \ {t} : task'[u] = task[u]
    BY <1>0, <2>1, <2>2, BeginCalm
  <2> QED BY <1>0, <1>1, <1>4, <2>3, QuietTask DEF HandleEntityAdd
<1>5. CASE HandleEntityDelete(t)
  <2>1. PICK i \in deletes : Begin(t, "drop", None, None, i)
    BY <1>5 DEF HandleEntityDelete
  <2>2. i \in HookID /\ i <= used /\ Doomed(i)
    BY <1>0, <1>1 DEF TypeOK, Given
  <2>3. /\ Calm(t) /\ task[t].step = "idle" /\ task'[t].step \in {"fetch", "read"}
        /\ \A u \in Task \ {t} : task'[u] = task[u]
    BY <2>1, <2>2, BeginCalm
  <2> QED BY <1>0, <1>1, <1>5, <2>3, QuietTask DEF HandleEntityDelete
<1>6. CASE FetchProperties(t)
  <2>1. /\ Calm(t) /\ task'[t].step \in {"idle", "fetch", "read", "list"}
        /\ \A u \in Task \ {t} : task'[u] = task[u]
    <3>1. CASE Fail(t)
      BY <1>6, <3>1, FailCalm DEF FetchProperties
    <3>2. CASE Goto(t, "list")
      <4>1. Shape([task[t] EXCEPT !.step = "list"])
        BY <1>0, <1>6, TaskKnows DEF FetchProperties, Shape, TaskState
      <4> QED BY <3>2, <4>1, GotoCalm DEF Step
    <3> QED BY <1>6, <3>1, <3>2 DEF FetchProperties
  <2> QED BY <1>0, <1>1, <1>6, <2>1, QuietTask DEF FetchProperties
<1>7. CASE Undo(t)
  <2>1. /\ Calm(t) /\ task'[t].step \in {"idle", "fetch", "read"}
        /\ \A u \in Task \ {t} : task'[u] = task[u]
    BY <1>7, FailCalm DEF Undo
  <2>2. task[t].repo \in Repo
    BY <1>0, <1>7, TaskKnows DEF Undo
  <2>3. /\ hooks' \subseteq hooks
        /\ task[t].hook \notin HookIDs' \/ task[t].hook \in leaked'
        /\ \A e \in events' \ events :
               e.kind = "meta" /\ e.hook \notin HookIDs' /\ e.hook \in HookID /\ e.hook <= used
    BY <1>0, <1>7, <2>2, DeleteHookEffect DEF Undo, SpareHook, KeepHooks
  <2>4. /\ UNCHANGED <<upstream, used, returned, crowded, rows, deletes>>
        /\ leaked \subseteq leaked'
    BY <1>7 DEF Undo
  <2> QED BY <1>0, <1>1, <2>1, <2>3, <2>4, QuietTask
<1>8. CASE ReadEntity(t)
  <2>1. /\ Calm(t) /\ task'[t].step \in {"idle", "fetch", "read", "deregister"}
        /\ \A u \in Task \ {t} : task'[u] = task[u]
    <3>1. CASE Fail(t) \/ Return(t)
      BY <1>8, <3>1, FailCalm, ReturnCalm DEF ReadEntity
    <3>2. ASSUME NEW w \in rows, task' = [task EXCEPT ![t].step = "deregister", ![t].repo = w.repo]
          PROVE  /\ Calm(t) /\ task'[t].step = "deregister"
                 /\ \A u \in Task \ {t} : task'[u] = task[u]
      <4>1. task \in [Task -> TaskState] /\ task[t] \in TaskState /\ w.repo \in Repo
        BY <1>0 DEF TypeOK, Row
      <4>2. /\ \A u \in Task \ {t} : task'[u] = task[u]
            /\ task'[t].step = "deregister" /\ task'[t].repo = w.repo
            /\ task'[t].hook = task[t].hook /\ task'[t].op = task[t].op
        BY <3>2, <4>1 DEF TaskState
      <4>3. Shape(task'[t])
        BY <1>0, <1>8, <4>1, <4>2, TaskKnows DEF ReadEntity, Shape
      <4> QED BY <1>0, <4>2, <4>3 DEF Calm, Doomed, Given
    <3> QED BY <1>8, <3>1, <3>2 DEF ReadEntity, RowsByID
  <2>2. UNCHANGED <<upstream, hooks, used, returned, crowded, leaked, rows, deletes, events>> /\ task[t].step = "read"
    BY <1>8 DEF ReadEntity
  <2> QED BY <1>0, <1>1, <2>1, <2>2, QuietTask
<1>9. CASE Deregister(t)
  <2>1. task[t].repo \in Repo
    BY <1>0, <1>9, TaskKnows DEF Deregister
  <2>2. /\ hooks' \subseteq hooks
        /\ task[t].hook \notin HookIDs' \/ task[t].hook \in leaked'
        /\ \A e \in events' \ events :
               e.kind = "meta" /\ e.hook \notin HookIDs' /\ e.hook \in HookID /\ e.hook <= used
    BY <1>0, <1>9, <2>1, DeleteHookEffect DEF Deregister, SpareHook, KeepHooks
  <2>3. /\ UNCHANGED <<upstream, used, returned, crowded, rows, deletes>>
        /\ leaked \subseteq leaked'
    BY <1>9 DEF Deregister
  <2>4. Shape([task[t] EXCEPT !.step = "remove"])
    BY <1>0, <1>9, TaskKnows DEF Deregister, Shape, TaskState
  <2>5. Calm(t) /\ task'[t].step = "remove" /\ \A u \in Task \ {t} : task'[u] = task[u]
    BY <1>9, <2>2, <2>4, GotoCalm DEF Deregister, Step
  <2>6. task[t].step = "deregister"
    BY <1>9 DEF Deregister
  <2> QED BY <1>0, <1>1, <2>2, <2>3, <2>5, <2>6, QuietTask
<1>10. CASE RemoveEntity(t)
  <2>1. /\ Calm(t) /\ task'[t].step \in {"idle", "fetch", "read"}
        /\ \A u \in Task \ {t} : task'[u] = task[u]
    BY <1>10, FailCalm, ReturnCalm DEF RemoveEntity
  <2>2. UNCHANGED <<upstream, hooks, used, returned, crowded, leaked, deletes, events>> /\ task[t].step = "remove"
    BY <1>10 DEF RemoveEntity
  <2>3. rows' \subseteq rows /\ \A w \in rows \ rows' : w.id = task[t].hook
    BY <1>10 DEF RemoveEntity, RowsByID
  <2>4. \A w \in rows \ rows' : w.hook \notin HookIDs' \/ w.hook \in leaked'
    BY <2>2, <2>3 DEF IInv, RowsDistinct, Deregistered, HookIDs
  <2> QED BY <1>0, <1>1, <2>1, <2>2, <2>3, <2>4, QuietTask
<1>11. CASE Crash(t)
  <2>1. /\ Calm(t) /\ task'[t].step = "idle"
        /\ \A u \in Task \ {t} : task'[u] = task[u]
    BY <1>11, ReturnCalm DEF Crash
  <2>2. /\ UNCHANGED <<upstream, hooks, used, returned, crowded, rows, events>>
        /\ leaked \subseteq leaked'
        /\ task[t].step \in {"store", "undo"} => task[t].hook \in leaked'
    BY <1>11 DEF Crash
  <2>3. \A i \in deletes' : Doomed(i)
    BY <1>1, <1>11 DEF Crash, Doomed, FromQueue
  <2> QED BY <1>0, <2>1, <2>2, <2>3, QuietTask
<1> QED BY <1>2, <1>3, <1>4, <1>5, <1>6, <1>7, <1>8, <1>9, <1>10, <1>11

\* Cleaning up leaves everything else as quiet as it was.
LEMMA CleaningTask ==
    ASSUME IInv, TypeOK', Cleaned', NEW t \in Task, Calm(t), task[t].step \notin {"store", "undo"},
           \A u \in Task \ {t} : task'[u] = task[u],
           UNCHANGED <<upstream, used, returned, leaked, rows, deletes>>, hooks' \subseteq hooks,
           \A e \in events' \ events :
               e.kind = "meta" /\ e.hook \notin HookIDs' /\ e.hook \in HookID /\ e.hook <= used
    PROVE  IInv'
<1>1. RowsDistinct'
  BY FewerRows DEF IInv
<1>2. \A r \in Repo : Left(r) => Left(r)' \/ r \in returned'
  BY DEF Left
<1>3. \A e \in events' \ events :
          /\ e.hook \in HookID => e.hook <= used
          /\ e.kind = "meta" => e.hook \notin HookIDs'
          /\ e.kind = "gone" => Left(e.repo)' \/ e.repo \in returned'
  OBVIOUS
<1>4. \A u \in Task : task'[u] = task[u] \/ Calm(u)
  OBVIOUS
<1>5. \A i \in deletes' : Doomed(i) \/ \E w \in rows : w.id = i /\ Cause(w)
  BY DEF Doomed
<1>6. Shaped' /\ Given' /\ Unstored' /\ Deregistered' /\ EventsTrue' /\ Caused'
  BY <1>2, <1>3, <1>4, <1>5, CalmStep
<1>7. HookOwned'
  BY OwnedStep
<1> QED BY <1>1, <1>6, <1>7 DEF IInv

\* A registration that fails before it has created a webhook.
LEMMA FailStep ==
    ASSUME IInv, TypeOK', NEW t \in Task, Fail(t), task[t].step \in {"list", "clean", "create"},
           UNCHANGED <<upstream, hooks, used, rows, events, deletes, crowded, leaked, returned>>
    PROVE  IInv'
<1>1. /\ Calm(t) /\ task'[t].step \in {"idle", "fetch", "read"}
      /\ \A u \in Task \ {t} : task'[u] = task[u]
  BY FailCalm
<1>2. \A i \in deletes' : Doomed(i)
  BY DEF Doomed
<1> QED BY <1>1, <1>2, QuietTask

\* A registration that cleans up knows what is left to clean up.
LEMMA CleanStep ==
    ASSUME IInv, NEW t \in Task, ListHooks(t) \/ DeleteStaleHook(t) \/ StaleHooksDeleted(t)
    PROVE  IInv'
<1> USE DEF provider, queues, ghosts
<1>0. /\ TypeOK' /\ TypeOK /\ Given /\ Shaped /\ Cleaned
      /\ task \in [Task -> TaskState] /\ task[t] \in TaskState
  BY TypeTask DEF Handle, IInv, TypeOK
<1>1. task[t].step \in {"list", "clean"} /\ task[t].repo \in Repo
  BY <1>0, TaskKnows DEF ListHooks, DeleteStaleHook, StaleHooksDeleted
<1>2. PICK r \in Repo : r = task[t].repo
  BY <1>1
<1> DEFINE Clean(x) ==
             /\ \A i, j \in HooksOf(x)' : i = j
             /\ \A u, v \in Task : Cleaning(u, x)' /\ Cleaning(v, x)' => u = v
             /\ \A u \in Task : task'[u].repo = x =>
                  /\ task'[u].step = "clean" => HooksOf(x)' \subseteq task'[u].stale
                  /\ task'[u].step = "create" => HooksOf(x)' = {}
           Goes(s) ==
             /\ task'[t].repo = r /\ task'[t].step = s /\ task'[t].proj = task[t].proj
             /\ task'[t].hook = task[t].hook /\ task'[t].op = task[t].op
             /\ \A u \in Task \ {t} : task'[u] = task[u]
\* What is left to show: the task keeps to what it knows, and cleans up.
<1>3. ASSUME NEW s \in {"clean", "create"}, Goes(s)
      PROVE Calm(t)
  <2>1. Shape(task'[t])
    BY <1>0, <1>1, <1>2, <1>3, TaskKnows DEF Shape
  <2> QED BY <1>0, <1>3, <2>1 DEF Calm, Doomed, Given
<1>4. ASSUME NEW s \in {"clean", "create"}, Goes(s), hooks' \subseteq hooks, crowded \subseteq crowded',
             r \notin crowded' => Clean(r)
      PROVE Cleaned'
  <2>1. ASSUME NEW x \in Repo \ crowded', x # r PROVE Clean(x)
    <3>1. /\ \A i, j \in HooksOf(x) : i = j
          /\ \A u, v \in Task : Cleaning(u, x) /\ Cleaning(v, x) => u = v
          /\ \A u \in Task : task[u].repo = x =>
              /\ task[u].step = "clean" => HooksOf(x) \subseteq task[u].stale
              /\ task[u].step = "create" => HooksOf(x) = {}
      BY <1>0, <1>4, <2>1 DEF Cleaned
    <3>2. \A u \in Task : task'[u].repo = x => task'[u] = task[u]
      BY <1>4, <2>1
    <3>3. \A u \in Task : Cleaning(u, x)' => Cleaning(u, x)
      BY <3>2 DEF Cleaning
    <3>4. HooksOf(x)' \subseteq HooksOf(x)
      BY <1>4, FewerHooks
    <3> QED BY <3>1, <3>2, <3>3, <3>4
  <2>2. \A x \in Repo \ crowded' : Clean(x)
    BY <1>4, <2>1
  <2> QED BY <2>2 DEF Cleaned, HooksOf, Cleaning
<1>5. r \notin crowded =>
        /\ \A i, j \in HooksOf(r) : i = j
        /\ \A u, v \in Task : Cleaning(u, r) /\ Cleaning(v, r) => u = v
        /\ task[t].step = "clean" => HooksOf(r) \subseteq task[t].stale
  BY <1>0, <1>2 DEF Cleaned
<1>6. CASE ListHooks(t)
  <2>1. CASE Fail(t) /\ UNCHANGED crowded
    BY <1>0, <1>1, <1>6, <2>1, FailStep DEF ListHooks
  <2>2. CASE task' = [task EXCEPT ![t].step = "clean", ![t].stale = IF Reachable(r) THEN StaleHooks(r) ELSE {}]
              /\ crowded' = IF Reachable(r) /\ ~\E u \in Task : Cleaning(u, r)
                            THEN crowded ELSE crowded \cup {r}
    <3>1. Goes("clean") /\ task'[t].stale = IF Reachable(r) THEN StaleHooks(r) ELSE {}
      BY <1>0, <1>2, <2>2 DEF TaskState
    <3>2. UNCHANGED <<upstream, used, returned, leaked, rows, deletes, hooks, events>>
      BY <1>6 DEF ListHooks
    <3>3. HooksOf(r)' = HooksOf(r)
      BY <3>2 DEF HooksOf
    <3>4. ASSUME r \notin crowded' PROVE Clean(r)
      <4>1. Reachable(r) /\ (~\E u \in Task : Cleaning(u, r)) /\ r \notin crowded
        BY <2>2, <3>4
      <4>2. \A u \in Task \ {t} : ~(task[u].step \in {"clean", "create"} /\ task[u].repo = r)
        BY <4>1 DEF Cleaning
      <4>3. \A u \in Task \ {t} : ~Cleaning(u, r)'
        BY <3>1, <4>2 DEF Cleaning
      <4>4. task'[t].stale = HooksOf(r)
        BY <3>1, <4>1 DEF StaleHooks
      <4> QED BY <1>5, <3>1, <3>3, <4>1, <4>2, <4>3, <4>4
    <3>5. Cleaned'
      BY <1>4, <2>2, <3>1, <3>2, <3>4
    <3> QED BY <1>0, <1>1, <1>3, <3>1, <3>2, <3>5, CleaningTask
  <2> QED BY <1>2, <1>6, <2>1, <2>2 DEF ListHooks
<1>7. CASE DeleteStaleHook(t)
  <2>1. CASE Fail(t) /\ UNCHANGED <<crowded, hooks, events>>
    BY <1>0, <1>1, <1>7, <2>1, FailStep DEF DeleteStaleHook
  <2>2. ASSUME NEW h, DeleteHook(r, h), task' = [task EXCEPT ![t].stale = @ \ {h}],
               crowded' = IF Refused(r, h) = {} THEN crowded ELSE crowded \cup {r}
        PROVE IInv'
    <3>0. task[t].step = "clean"
      BY <1>7 DEF DeleteStaleHook
    <3>1. Goes("clean") /\ task'[t].stale = task[t].stale \ {h}
      BY <1>0, <1>2, <2>2, <3>0 DEF TaskState
    <3>2. UNCHANGED <<upstream, used, returned, leaked, rows, deletes>>
      BY <1>7 DEF DeleteStaleHook
    <3>3. /\ hooks' \subseteq hooks
          /\ Refused(r, h) = {} => HooksOf(r)' = HooksOf(r) \ {h}
          /\ \A e \in events' \ events :
               e.kind = "meta" /\ e.hook \notin HookIDs' /\ e.hook \in HookID /\ e.hook <= used
      BY <1>0, <2>2, DeleteHookEffect
    <3>4. ASSUME r \notin crowded' PROVE Clean(r)
      <4>1. Refused(r, h) = {} /\ r \notin crowded
        BY <2>2, <3>4
      <4>2. \A u \in Task : Cleaning(u, r)' => Cleaning(u, r)
        BY <1>2, <3>0, <3>1 DEF Cleaning
      <4>3. \A u \in Task \ {t} : task[u].repo = r => task[u].step \notin {"clean", "create"}
        BY <1>2, <1>5, <3>0, <4>1 DEF Cleaning
      <4> QED BY <1>5, <3>0, <3>1, <3>3, <4>1, <4>2, <4>3
    <3>5. Cleaned'
      BY <1>4, <2>2, <3>1, <3>3, <3>4
    <3> QED BY <1>0, <1>3, <3>0, <3>1, <3>2, <3>3, <3>5, CleaningTask
  \* The webhook is spared: nothing is claimed of the repository from here on.
  <2>3. ASSUME NEW h, UNCHANGED <<hooks, events>>, task' = [task EXCEPT ![t].stale = @ \ {h}],
               crowded' = crowded \cup {r}
        PROVE IInv'
    <3>0. task[t].step = "clean"
      BY <1>7 DEF DeleteStaleHook
    <3>1. Goes("clean")
      BY <1>0, <1>2, <2>3, <3>0 DEF TaskState
    <3>2. UNCHANGED <<upstream, used, returned, leaked, rows, deletes>>
      BY <1>7 DEF DeleteStaleHook
    <3>3. Cleaned'
      BY <1>4, <2>3, <3>1
    <3> QED BY <1>0, <1>3, <2>3, <3>0, <3>1, <3>2, <3>3, CleaningTask
  <2> QED BY <1>2, <1>7, <2>1, <2>2, <2>3 DEF DeleteStaleHook, SpareHook, KeepHooks
<1>8. CASE StaleHooksDeleted(t)
  <2>1. task[t].step = "clean" /\ task[t].stale = {}
    BY <1>8 DEF StaleHooksDeleted
  <2>2. Goes("create")
    <3>1. task' = [task EXCEPT ![t].step = "create"]
      BY <1>8 DEF StaleHooksDeleted, Goto
    <3> QED BY <1>0, <1>2, <3>1 DEF TaskState
  <2>3. UNCHANGED <<upstream, used, returned, leaked, rows, deletes, hooks, events, crowded>>
    BY <1>8 DEF StaleHooksDeleted
  <2>4. HooksOf(r)' = HooksOf(r)
    BY <2>3 DEF HooksOf
  <2>5. ASSUME r \notin crowded' PROVE Clean(r)
    <3>1. \A u \in Task : Cleaning(u, r)' => Cleaning(u, r)
      BY <1>2, <2>1, <2>2 DEF Cleaning
    <3>2. \A u \in Task \ {t} : task[u].repo = r => task[u].step \notin {"clean", "create"}
      BY <1>2, <1>5, <2>1, <2>3, <2>5 DEF Cleaning
    <3> QED BY <1>5, <2>1, <2>2, <2>3, <2>4, <2>5, <3>1, <3>2
  <2>6. Cleaned'
    BY <1>4, <2>2, <2>3, <2>5
  <2> QED BY <1>0, <1>3, <2>1, <2>2, <2>3, <2>6, CleaningTask
<1> QED BY <1>6, <1>7, <1>8

\* A new webhook is the only one of its repository, its number is new, and it is
\* owned by the call that created it, or left behind.
LEMMA CreateStep ==
    ASSUME IInv, NEW t \in Task, CreateHook(t)
    PROVE  IInv'
<1> USE DEF provider, queues, ghosts
<1>0. /\ TypeOK' /\ TypeOK /\ Given /\ Shaped /\ Cleaned /\ None \notin HookID
      /\ task \in [Task -> TaskState] /\ task[t] \in TaskState
  BY RegistrationAssumption, TypeTask DEF Handle, IInv, TypeOK, HookID
<1>1. task[t].step = "create" /\ task[t].repo \in Repo
  BY <1>0, TaskKnows DEF CreateHook
<1>2. CASE Fail(t) /\ UNCHANGED <<hooks, used, leaked>>
  BY <1>0, <1>1, <1>2, FailStep DEF CreateHook
<1>3. CASE ~UNCHANGED used
  <2>1. PICK r \in Repo, n \in HookID : r = task[t].repo /\ n = used + 1
    BY <1>0, <1>1, <1>3 DEF CreateHook, TypeOK, HookID
  <2>2. /\ used' = n /\ hooks' = hooks \cup {[repo |-> r, id |-> n]}
        /\ UNCHANGED <<upstream, rows, events, deletes, crowded, returned>>
        /\ leaked \subseteq leaked'
    BY <1>3, <2>1 DEF CreateHook
  <2>3. /\ \A u \in Task \ {t} : task'[u] = task[u]
        /\ Shape(task'[t])
        /\ \/ task'[t].step = "store" /\ task'[t].hook = n
           \/ task'[t].step \in {"idle", "fetch", "read"} /\ n \in leaked'
        /\ task'[t].op = "drop" => Doomed(task'[t].hook)
        /\ task'[t].hook \in HookID => task'[t].hook <= n
    <3>1. CASE Fail(t) /\ leaked' = leaked \cup {used'}
      <4>1. n \in leaked'
        BY <2>2, <3>1
      <4>2. /\ Calm(t) /\ task'[t].step \in {"idle", "fetch", "read"}
            /\ \A u \in Task \ {t} : task'[u] = task[u]
        BY <1>1, <3>1, FailCalm
      <4>3. task'[t].hook \in HookID => task'[t].hook <= n
        BY <1>0, <2>1, <4>2 DEF Calm, TypeOK, HookID
      <4> QED BY <4>1, <4>2, <4>3 DEF Calm
    <3>2. CASE task' = [task EXCEPT ![t].step = "store", ![t].hook = used']
      <4>1. /\ \A u \in Task \ {t} : task'[u] = task[u]
            /\ task'[t].step = "store" /\ task'[t].hook = n /\ task'[t].op = task[t].op
            /\ task'[t].repo = task[t].repo /\ task'[t].proj = task[t].proj
        BY <1>0, <2>2, <3>2 DEF TaskState
      <4>2. task'[t].op # "drop" /\ Shape(task'[t])
        BY <1>0, <1>1, <4>1, TaskKnows DEF Shape
      <4>3. n <= n
        BY DEF HookID
      <4> QED BY <4>1, <4>2, <4>3
    <3> QED BY <1>3, <3>1, <3>2 DEF CreateHook
  <2>4. HookIDs' = HookIDs \cup {n} /\ HooksOf(r)' = HooksOf(r) \cup {n}
    <3>1. PICK g : g.repo = r /\ g.id = n /\ hooks' = hooks \cup {g}
      BY <2>2
    <3>2. HookIDs' = HookIDs \cup {n}
      BY <3>1 DEF HookIDs
    <3>3. HooksOf(r)' = HooksOf(r) \cup {n}
      BY <3>1 DEF HooksOf
    <3> QED BY <3>2, <3>3
  <2>5. \A x \in Repo \ {r} : HooksOf(x)' = HooksOf(x)
    BY <2>2 DEF HooksOf
  \* the number is new everywhere
  <2>6. /\ n \notin HookIDs /\ \A i : Doomed(i) => i # n /\ i <= used
        /\ \A w \in rows : w.id # n /\ w.hook # n
        /\ \A e \in events : e.hook # n
        /\ \A u \in Task : task[u].hook # n
    <3>1. \A i \in HookID : i <= used => i # n
      BY <1>0, <2>1 DEF TypeOK, HookID
    <3>2. n \notin HookIDs
      BY <1>0, <3>1 DEF HookIDs, Given, TypeOK, Hook
    <3>3. \A u \in Task : task[u].hook # n
      BY <1>0, <2>1, <3>1 DEF Given
    <3>4. \A i : Doomed(i) => i # n /\ i <= used
      <4>1. \A u \in Task : task[u].op = "drop" => task[u].hook \in HookID
        BY <1>0 DEF Shaped, Shape
      <4> QED BY <1>0, <3>1, <4>1 DEF Doomed, Given, TypeOK
    <3>5. \A w \in rows : w.id # n /\ w.hook # n
      BY <1>0, <3>1 DEF Given, TypeOK, Row, IInv, RowsDistinct
    <3>6. \A e \in events : e.hook # n
      BY <1>0, <2>1, <3>1 DEF Given, TypeOK, Event
    <3> QED BY <3>2, <3>3, <3>4, <3>5, <3>6
  <2>7. \A i : Doomed(i)' => Doomed(i)
    BY <2>2, <2>3 DEF Doomed
  <2>8. Shaped'
    BY <1>0, <2>3 DEF Shaped
  <2>9. Given'
    <3>1. \A i \in HookID : i <= used => i <= used'
      BY <1>0, <2>1, <2>2 DEF TypeOK, HookID
    <3>2. \A h \in hooks' : h.id <= used'
      <4>1. \A h \in hooks : h.id \in HookID
        BY <1>0 DEF TypeOK, Hook
      <4>2. n <= n
        BY DEF HookID
      <4> QED BY <1>0, <2>2, <3>1, <4>1, <4>2 DEF Given
    <3>3. /\ \A w \in rows' : w.id <= used'
          /\ \A i \in deletes' : i <= used'
      BY <1>0, <2>2, <3>1 DEF Given, TypeOK, Row
    <3>4. \A e \in events' : e.hook \in HookID => e.hook <= used'
      BY <1>0, <2>2, <3>1 DEF Given
    <3>5. \A u \in Task : task'[u].hook \in HookID => task'[u].hook <= used'
      BY <1>0, <2>2, <2>3, <3>1 DEF Given
    <3> QED BY <3>2, <3>3, <3>4, <3>5 DEF Given
  <2>10. RowsDistinct'
    BY <2>2, FewerRows DEF IInv
  <2>11. Unstored'
    <3>1. ASSUME NEW u \in Task, task'[u].step = "store", NEW h, h = task'[u].hook
          PROVE  /\ \A w \in rows' : w.id # h
                 /\ \A v \in Task : v # u /\ task'[v].step = "store" => task'[v].hook # h
                 /\ ~Doomed(h)'
      <4>1. CASE u = t
        BY <2>2, <2>3, <2>6, <2>7, <3>1, <4>1
      <4>2. CASE u # t
        <5>1. task'[u] = task[u] /\ h # n
          BY <2>3, <2>6, <3>1, <4>2
        <5>2. /\ \A w \in rows : w.id # h
              /\ \A v \in Task : v # u /\ task[v].step = "store" => task[v].hook # h
              /\ ~Doomed(h)
          BY <3>1, <5>1 DEF IInv, Unstored
        <5> QED BY <2>2, <2>3, <2>7, <5>1, <5>2
      <4> QED BY <4>1, <4>2
    <3>2. \A u \in Task : task'[u].step = "store" =>
              /\ \A w \in rows' : w.id # task'[u].hook
              /\ \A v \in Task : v # u /\ task'[v].step = "store" => task'[v].hook # task'[u].hook
              /\ \A h : h = task'[u].hook => ~Doomed(h)'
      BY <3>1
    <3> QED BY <3>2 DEF Unstored, Doomed
  <2>12. Deregistered'
    <3>1. \A u \in Task : task'[u].step = "remove" => task'[u] = task[u]
      BY <2>3
    <3>2. \A u \in Task : task'[u].step = "remove" => task'[u].hook \notin HookIDs' \/ task'[u].hook \in leaked'
      BY <2>2, <2>4, <2>6, <3>1 DEF IInv, Deregistered
    <3> QED BY <3>2 DEF Deregistered, HookIDs
  <2>13. EventsTrue'
    <3>1. \A e \in events' : /\ e.kind = "meta" => e.hook \notin HookIDs'
                             /\ e.kind = "gone" => Left(e.repo) \/ e.repo \in returned
      BY <2>2, <2>4, <2>6 DEF IInv, EventsTrue
    <3> QED BY <2>2, <3>1 DEF EventsTrue, Left, HookIDs
  <2>14. Caused'
    <3>1. \A w \in rows' : Doomed(w.id)' => w.hook \notin HookIDs' \/ Left(w.repo) \/ w.repo \in returned
      BY <2>2, <2>4, <2>6, <2>7 DEF IInv, Caused, Cause
    <3> QED BY <2>2, <3>1 DEF Caused, Cause, Left, HookIDs, Doomed
  <2>15. HookOwned'
    <3>1. ASSUME NEW h \in HookIDs'
          PROVE  \/ \E w \in rows' : w.hook = h
                 \/ \E u \in Task : task'[u].hook = h /\ task'[u].step \in {"store", "undo"}
                 \/ h \in leaked'
      <4>1. CASE h = n
        BY <2>3, <4>1
      <4>2. CASE h \in HookIDs
        <5>1. \/ \E w \in rows : w.hook = h
              \/ \E u \in Task : task[u].hook = h /\ task[u].step \in {"store", "undo"}
              \/ h \in leaked
          BY <4>2 DEF IInv, HookOwned
        <5> QED BY <1>1, <2>2, <2>3, <5>1
      <4> QED BY <2>4, <3>1, <4>1, <4>2
    <3> QED BY <3>1 DEF HookOwned, HookIDs
  <2>16. Cleaned'
    <3>1. ASSUME NEW x \in Repo \ crowded'
          PROVE  /\ \A i, j \in HooksOf(x)' : i = j
                 /\ \A u, v \in Task : Cleaning(u, x)' /\ Cleaning(v, x)' => u = v
                 /\ \A u \in Task : task'[u].repo = x =>
                      /\ task'[u].step = "clean" => HooksOf(x)' \subseteq task'[u].stale
                      /\ task'[u].step = "create" => HooksOf(x)' = {}
      <4>1. \A u \in Task : task'[u].step \in {"clean", "create"} => u # t /\ task'[u] = task[u]
        BY <2>3
      <4>2. \A u \in Task : Cleaning(u, x)' => Cleaning(u, x) /\ u # t
        BY <4>1 DEF Cleaning
      <4>3. /\ \A i, j \in HooksOf(x) : i = j
            /\ \A u, v \in Task : Cleaning(u, x) /\ Cleaning(v, x) => u = v
            /\ \A u \in Task : task[u].repo = x =>
                /\ task[u].step = "clean" => HooksOf(x) \subseteq task[u].stale
                /\ task[u].step = "create" => HooksOf(x) = {}
        BY <1>0, <2>2, <3>1 DEF Cleaned
      <4>4. CASE x = r
        <5>1. HooksOf(x)' = {n}
          BY <1>1, <2>1, <2>4, <4>3, <4>4
        <5>2. \A u \in Task : Cleaning(u, x) => u = t
          BY <1>1, <2>1, <4>3, <4>4 DEF Cleaning
        <5>3. \A u \in Task : task'[u].step \in {"clean", "create"} => task'[u].repo # x
          BY <4>1, <5>2 DEF Cleaning
        <5> QED BY <4>2, <5>1, <5>2, <5>3
      <4>5. CASE x # r
        BY <2>5, <3>1, <4>1, <4>2, <4>3, <4>5
      <4> QED BY <4>4, <4>5
    <3> QED BY <3>1 DEF Cleaned, HooksOf, Cleaning
  <2> QED BY <1>0, <2>8, <2>9, <2>10, <2>11, <2>12, <2>13, <2>14, <2>15, <2>16 DEF IInv
<1>4. CASE UNCHANGED used
  BY <1>0, <1>2, <1>4 DEF CreateHook, TypeOK
<1> QED BY <1>3, <1>4

\* A row is stored for a webhook that no other row has and no deletion is meant for.
LEMMA StoreStep ==
    ASSUME IInv, NEW t \in Task, StoreEntity(t)
    PROVE  IInv'
<1> USE DEF provider, queues, ghosts
<1>0. /\ TypeOK' /\ TypeOK /\ Given /\ Shaped /\ Unstored /\ RowsDistinct /\ task[t].step = "store"
      /\ UNCHANGED <<upstream, hooks, used, events, deletes, adds, crowded, leaked, missed, returned>>
  BY TypeTask DEF Handle, IInv, StoreEntity
<1>1. PICK h \in HookID : h = task[t].hook
  BY <1>0, TaskKnows
<1>2. \A i \in deletes : Doomed(i)
  BY DEF Doomed
<1>3. CASE UNCHANGED rows /\ Goto(t, "undo")
  <2>1. Shape([task[t] EXCEPT !.step = "undo"])
    BY <1>0, TaskKnows DEF Shape, TaskState
  <2>2. /\ Calm(t) /\ task'[t].step = "undo" /\ task'[t].hook = task[t].hook
        /\ \A u \in Task \ {t} : task'[u] = task[u]
    BY <1>3, <2>1, GotoCalm DEF Step
  <2> QED BY <1>0, <1>2, <1>3, <2>2, QuietTask
<1>4. ASSUME NEW w, rows' = rows \cup {w}, w.id = h, w.hook = h, Return(t) \/ Fail(t)
      PROVE IInv'
  <2>1. /\ Calm(t) /\ task'[t].step \in {"idle", "fetch", "read"}
        /\ \A u \in Task \ {t} : task'[u] = task[u]
    BY <1>0, <1>4, ReturnCalm, FailCalm
  <2>2. /\ \A v \in rows : v.id # h
        /\ \A u \in Task : u # t /\ task[u].step = "store" => task[u].hook # h
        /\ ~Doomed(h)
    BY <1>0, <1>1 DEF Unstored
  <2>3. HookIDs' = HookIDs /\ (\A r : HooksOf(r)' = HooksOf(r)) /\ (\A r : Left(r)' = Left(r))
    BY <1>0 DEF HookIDs, HooksOf, Left
  <2>4. \A i : Doomed(i)' => Doomed(i)
    BY <1>0, <2>1 DEF Doomed, Calm
  <2>5. Shaped'
    BY <1>0, <2>1 DEF Shaped, Calm
  <2>6. Given'
    <3>1. h <= used
      BY <1>0, <1>1 DEF Given
    <3>2. \A v \in rows' : v.id <= used
      BY <1>0, <1>4, <3>1 DEF Given
    <3> QED BY <1>0, <2>1, <3>2 DEF Given, Calm
  <2>7. RowsDistinct'
    BY <1>0, <1>4, <2>2 DEF RowsDistinct
  <2>8. Unstored'
    <3>1. ASSUME NEW u \in Task, task'[u].step = "store", NEW k, k = task'[u].hook
          PROVE  /\ \A v \in rows' : v.id # k
                 /\ \A v \in Task : v # u /\ task'[v].step = "store" => task'[v].hook # k
                 /\ ~Doomed(k)'
      <4>1. u # t /\ task'[u] = task[u] /\ task[u].step = "store" /\ k = task[u].hook
        BY <2>1, <3>1
      <4>2. /\ \A v \in rows : v.id # k
            /\ \A v \in Task : v # u /\ task[v].step = "store" => task[v].hook # k
            /\ ~Doomed(k) /\ k # h
        BY <1>0, <2>2, <4>1 DEF Unstored
      <4> QED BY <1>4, <2>1, <2>4, <4>1, <4>2
    <3>2. \A u \in Task : task'[u].step = "store" =>
              /\ \A v \in rows' : v.id # task'[u].hook
              /\ \A v \in Task : v # u /\ task'[v].step = "store" => task'[v].hook # task'[u].hook
              /\ \A k : k = task'[u].hook => ~Doomed(k)'
      BY <3>1
    <3> QED BY <3>2 DEF Unstored, Doomed
  <2>9. Deregistered'
    <3>1. \A u \in Task : task'[u].step = "remove" => task'[u].hook \notin HookIDs' \/ task'[u].hook \in leaked'
      BY <1>0, <2>1, <2>3 DEF IInv, Deregistered
    <3> QED BY <3>1 DEF Deregistered, HookIDs
  <2>10. EventsTrue'
    BY <1>0 DEF IInv, EventsTrue, HookIDs, Left
  <2>11. Caused'
    <3>1. \A v \in rows' : Doomed(v.id)' => v.hook \notin HookIDs \/ Left(v.repo) \/ v.repo \in returned
      BY <1>4, <2>2, <2>4 DEF IInv, Caused, Cause
    <3> QED BY <1>0, <3>1 DEF Caused, Cause, Left, HookIDs, Doomed
  <2>12. Cleaned'
    BY <1>0, <2>1, CleanedStep
  <2>13. HookOwned'
    <3>1. \A v \in rows : \E x \in rows' : x.hook = v.hook
      BY <1>4
    <3>2. \A u \in Task : task[u].step \in {"store", "undo"} =>
              \/ task'[u].step \in {"store", "undo"} /\ task'[u].hook = task[u].hook
              \/ \E v \in rows' : v.hook = task[u].hook
      BY <1>1, <1>4, <2>1
    <3> QED BY <1>0, <3>1, <3>2, OwnedStep
  <2> QED BY <1>0, <2>5, <2>6, <2>7, <2>8, <2>9, <2>10, <2>11, <2>12, <2>13 DEF IInv
<1>5. CASE Return(t) \/ Fail(t)
  <2> DEFINE new == [id |-> task[t].hook, repo |-> task[t].repo,
                     proj |-> task[t].proj, hook |-> StoredHook(t), closed |-> FALSE]
  <2>1. CASE UNCHANGED rows /\ StoreFailed(t)
    BY <1>3, <2>1 DEF StoreFailed
  <2>2. CASE rows' = rows \cup {new}
    <3>1. new.id = h /\ new.hook = h
      BY <1>1 DEF StoredHook
    <3> HIDE DEF new
    <3> QED BY <1>4, <1>5, <2>2, <3>1
  <2> QED BY <2>1, <2>2 DEF StoreEntity
<1> QED BY <1>3, <1>5 DEF StoreEntity, StoreFailed

\* Notifications, and what happens at the provider and in the database.
LEMMA OtherStep ==
    ASSUME IInv, Environment \/ \E e \in events : GetEntityAndDelete(e) \/ LoseEvent(e)
    PROVE  IInv'
<1> USE DEF provider, queues, ghosts
<1>0. TypeOK' /\ TypeOK /\ Given /\ RowsDistinct /\ EventsTrue /\ None \notin HookID
  BY RegistrationAssumption, TypeOther DEF IInv, HookID
<1>1. \A i \in deletes : Doomed(i)
  BY DEF Doomed
<1>2. rows' \subseteq rows => RowsDistinct'
  BY <1>0, FewerRows
<1>3. hooks' = hooks => HookIDs' = HookIDs
  BY DEF HookIDs
<1>4. upstream' = upstream => \A r \in Repo : Left(r)' = Left(r)
  BY DEF Left
<1>5. ASSUME NEW e \in events, GetEntityAndDelete(e) PROVE IInv'
  <2>1. /\ UNCHANGED <<upstream, hooks, used, rows, task, crowded, leaked, returned>>
        /\ events' \subseteq events /\ deletes' = deletes \cup {w.id : w \in Forwarded(e)}
    BY <1>5 DEF GetEntityAndDelete
  <2>2. \A w \in Forwarded(e) : w \in rows /\ w.repo = e.repo /\ (e.kind = "meta" => w.hook = e.hook)
    BY DEF Forwarded, RowsOf, MatchesHook
  <2>3. \A w \in Forwarded(e) : w \in rows /\ Cause(w)
    <3>1. e.kind \in {"meta", "gone"}
      BY <1>0 DEF TypeOK, Event
    <3> QED BY <1>0, <2>2, <3>1 DEF EventsTrue, Cause
  <2>4. \A i \in deletes' : Doomed(i) \/ \E w \in rows : w.id = i /\ Cause(w)
    BY <1>1, <2>1, <2>3
  <2> QED BY <1>0, <1>2, <1>4, <2>1, <2>4, QuietStep
<1>6. ASSUME NEW e \in events, LoseEvent(e) PROVE IInv'
  <2>1. /\ UNCHANGED <<upstream, hooks, used, rows, task, deletes, crowded, leaked, returned>>
        /\ events' \subseteq events
    BY <1>6 DEF LoseEvent
  <2> QED BY <1>0, <1>1, <1>2, <1>4, <2>1, QuietStep
<1>7. CASE UserDeletesHook
  <2>1. PICK g \in hooks : DeleteHook(g.repo, g.id)
    BY <1>7 DEF UserDeletesHook
  <2>2. g.repo \in Repo
    BY <1>0 DEF TypeOK, Hook
  <2>3. /\ hooks' \subseteq hooks
        /\ \A e \in events' \ events :
             e.kind = "meta" /\ e.hook \notin HookIDs' /\ e.hook \in HookID /\ e.hook <= used
    BY <1>0, <2>1, <2>2, DeleteHookEffect
  <2>4. UNCHANGED <<upstream, used, rows, task, deletes, crowded, leaked, returned>>
    BY <1>7 DEF UserDeletesHook
  <2> QED BY <1>0, <1>1, <1>2, <1>4, <2>3, <2>4, QuietStep
<1>8. CASE DeleteEntityByID
  <2>1. PICK w \in rows : rows' = rows \ {w} /\ leaked' = leaked \cup {w.hook}
    BY <1>8 DEF DeleteEntityByID
  <2>2. UNCHANGED <<upstream, hooks, used, events, task, deletes, crowded, returned>>
    BY <1>8 DEF DeleteEntityByID
  <2>3. \A v \in rows : (\E x \in rows' : x.hook = v.hook) \/ v.hook \in leaked'
    BY <2>1
  <2> QED BY <1>0, <1>1, <1>2, <1>4, <2>1, <2>2, <2>3, QuietStep
<1>9. ASSUME NEW r \in Repo, RepositoryDeleted(r) PROVE IInv'
  <2>1. /\ UNCHANGED <<used, rows, task, deletes, crowded, leaked, returned>>
        /\ hooks' \subseteq hooks
    BY <1>9 DEF RepositoryDeleted
  <2>2. Left(r)' /\ \A x \in Repo \ {r} : Left(x)' = Left(x)
    BY <1>0, <1>9 DEF RepositoryDeleted, Left, TypeOK
  <2>3. ASSUME NEW e \in events' \ events
        PROVE e.kind = "gone" /\ e.repo = r /\ (e.hook \in HookID => e.hook <= used)
    <3>1. PICK h \in HooksOf(r) : e = [kind |-> "gone", repo |-> r, hook |-> h]
      BY <1>9, <2>3 DEF RepositoryDeleted
    <3>2. h <= used
      BY <1>0 DEF HooksOf, Given
    <3> QED BY <3>1, <3>2
  <2>4. \A e \in events' \ events :
          /\ e.hook \in HookID => e.hook <= used
          /\ e.kind = "meta" => e.hook \notin HookIDs'
          /\ e.kind = "gone" => Left(e.repo)' \/ e.repo \in returned'
    BY <2>2, <2>3
  <2> QED BY <1>0, <1>1, <1>2, <2>1, <2>2, <2>4, QuietStep
<1>10. ASSUME NEW r \in Repo, RepositoryRemoved(r) PROVE IInv'
  <2>1. UNCHANGED <<hooks, used, rows, task, deletes, crowded, leaked, returned>>
    BY <1>10 DEF RepositoryRemoved
  <2>2. Left(r)' /\ \A x \in Repo \ {r} : Left(x)' = Left(x)
    BY <1>0, <1>10 DEF RepositoryRemoved, Left, TypeOK
  <2>3. \A e \in events' \ events : e.kind = "gone" /\ e.repo = r /\ e.hook = None
    BY <1>10 DEF RepositoryRemoved
  <2>4. \A e \in events' \ events :
          /\ e.hook \in HookID => e.hook <= used
          /\ e.kind = "meta" => e.hook \notin HookIDs'
          /\ e.kind = "gone" => Left(e.repo)' \/ e.repo \in returned'
    BY <1>0, <2>2, <2>3
  <2> QED BY <1>0, <1>1, <1>2, <2>1, <2>2, <2>4, QuietStep
<1>11. ASSUME NEW r \in Repo, RepositoryAdded(r) PROVE IInv'
  <2>1. /\ UNCHANGED <<hooks, used, rows, events, task, deletes, crowded, leaked>>
        /\ returned' = returned \cup {r}
    BY <1>11 DEF RepositoryAdded
  <2>2. \A x \in Repo \ {r} : Left(x)' = Left(x)
    BY <1>0, <1>11 DEF RepositoryAdded, Left, TypeOK
  <2> QED BY <1>0, <1>1, <1>2, <2>1, <2>2, QuietStep
<1>12. ASSUME NEW r \in Repo, Archive(r) PROVE IInv'
  <2>1. UNCHANGED <<hooks, used, rows, events, task, deletes, crowded, leaked, returned>>
    BY <1>12 DEF Archive
  <2>2. \A x \in Repo : Left(x) => Left(x)'
    BY <1>0, <1>12 DEF Archive, Left, TypeOK
  <2> QED BY <1>0, <1>1, <1>2, <2>1, <2>2, QuietStep
<1>13. ASSUME NEW w \in rows, RefreshArchived(w) PROVE IInv'
  <2>1. UNCHANGED <<upstream, hooks, used, events, task, deletes, crowded, leaked, returned>>
    BY <1>13 DEF RefreshArchived
  <2>2. PICK x : /\ rows' = (rows \ {w}) \cup {x}
                 /\ x.id = w.id /\ x.hook = w.hook /\ x.repo = w.repo
    <3>1. w \in Row
      BY <1>0 DEF TypeOK
    <3>2. /\ [w EXCEPT !.closed = TRUE].id = w.id
          /\ [w EXCEPT !.closed = TRUE].hook = w.hook /\ [w EXCEPT !.closed = TRUE].repo = w.repo
      BY <3>1 DEF Row
    <3> QED BY <1>13, <3>2 DEF RefreshArchived
  <2>3. RowsDistinct'
    BY <1>0, <2>2 DEF RowsDistinct
  <2>4. /\ \A y \in rows' : \E v \in rows : v.id = y.id /\ v.hook = y.hook /\ v.repo = y.repo
        /\ \A y \in rows : \E v \in rows' : v.hook = y.hook
    BY <2>2
  <2> QED BY <1>0, <1>1, <1>4, <2>1, <2>3, <2>4, QuietStep
<1> QED BY <1>5, <1>6, <1>7, <1>8, <1>9, <1>10, <1>11, <1>12, <1>13 DEF Environment

-----------------------------------------------------------------------------
(* The theorems *)

\* Every step keeps the invariant.
LEMMA StepInv == IInv /\ [Next]_vars => IInv'
<1> SUFFICES ASSUME IInv, [Next]_vars PROVE IInv'
  OBVIOUS
<1>1. CASE UNCHANGED vars
  <2>1. TypeOK' /\ RowsDistinct'
    BY <1>1 DEF vars, IInv, TypeOK, RowsDistinct
  <2>2. (\A i \in deletes' : Doomed(i)) /\ \A r \in Repo : Left(r)' = Left(r)
    BY <1>1 DEF vars, Doomed, Left
  <2> QED BY <1>1, <2>1, <2>2, QuietStep DEF vars
<1>2. ASSUME NEW t \in Task, Handle(t) PROVE IInv'
  BY <1>2, TaskStep, CleanStep, CreateStep, StoreStep DEF Handle
<1> QED BY <1>1, <1>2, TaskStep, OtherStep DEF Next

\* So it holds in every reachable state.
LEMMA Invariant == Spec => []IInv
<1>1. IInv /\ [Next]_vars => IInv'
  BY StepInv
<1> QED BY <1>1, InitInv, PTL DEF Spec

\* The rows, the queues and the calls under way have their types.
THEOREM TypeCorrect == Spec => []TypeOK
<1>1. IInv => TypeOK
  BY DEF IInv
<1> QED BY <1>1, Invariant, PTL

\* A webhook at the provider belongs to a row or to a call under way, or it was left
\* behind where the code only logs an error.
THEOREM HooksAreOwned == Spec => []HookOwned
<1>1. IInv => HookOwned
  BY DEF IInv
<1> QED BY <1>1, Invariant, PTL

\* A repository has one webhook of Minder at most, unless cleaning up was overtaken,
\* was refused or met the rate limit.
THEOREM OneHookHolds == Spec => []OneHook
<1>1. IInv => OneHook
  <2>1. SUFFICES ASSUME IInv, NEW r \in Repo, r \notin crowded
                 PROVE  ~(Cardinality(HooksOf(r)) > 1)
    BY DEF OneHook
  <2>2. \A i, j \in HooksOf(r) : i = j
    BY <2>1 DEF IInv, Cleaned
  <2>3. CASE HooksOf(r) = {}
    BY <2>3, FS_EmptySet
  <2>4. CASE HooksOf(r) # {}
    <3>1. PICK i : i \in HooksOf(r)
      BY <2>4
    <3>2. HooksOf(r) = {i}
      BY <2>2, <3>1
    <3>3. Cardinality({i}) = 1
      BY FS_Singleton
    <3> QED BY <3>2, <3>3
  <2> QED BY <2>3, <2>4
<1> QED BY <1>1, Invariant, PTL

\* A notification deletes a row only when the row's own webhook is gone or its
\* repository has left, or has come back.
THEOREM DeletedForCauseHolds == Spec => []DeletedForCause
<1>1. IInv => DeletedForCause
  <2>1. SUFFICES ASSUME IInv, NEW i \in deletes \cup {task[t].hook : t \in {u \in Task : task[u].op = "drop"}},
                        NEW w \in RowsByID(i)
                 PROVE  w.hook \notin HookIDs \/ Left(w.repo) \/ w.repo \in returned
    BY DEF DeletedForCause
  <2>2. w \in rows /\ w.id = i
    BY DEF RowsByID
  <2>3. Doomed(i)
    BY DEF Doomed
  <2> QED BY <2>1, <2>2, <2>3 DEF IInv, Caused, Cause
<1> QED BY <1>1, Invariant, PTL

=============================================================================

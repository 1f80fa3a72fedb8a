------------------------- MODULE RuleActionsProofs -------------------------
(***************************************************************************)
(* What RuleActions promises for every set of evaluations and numbers and  *)
(* every bound on faults: the types, that no open advisory is lost track   *)
(* of, that a rule has one pull request and one review, that alert and     *)
(* issue follow the evaluation until something goes wrong; and, for the    *)
(* settings under which the code promises it, that a failing rule is       *)
(* remediated once.                                                        *)
(***************************************************************************)
EXTENDS RuleActions, FiniteSetTheorems, TLAPS

-----------------------------------------------------------------------------
(* How an evaluation changes *)

\* The remediation has a result; the rest of the evaluation stays as it is.
LEMMA RemediatedTask ==
    ASSUME task \in [Task -> TaskState], NEW t \in Task,
           NEW status \in RemStatus, NEW meta \in ID \cup {None}, Remediated(t, status, meta)
    PROVE  /\ task' \in [Task -> TaskState] /\ \A u \in Task \ {t} : task'[u] = task[u]
           /\ task'[t].pc = "remediated" /\ task'[t].rem = status /\ task'[t].remMeta = meta
           /\ task'[t].prev = task[t].prev /\ task'[t].eval = task[t].eval
           /\ task'[t].remOpt = task[t].remOpt /\ task'[t].alertOpt = task[t].alertOpt
           /\ task'[t].alert = task[t].alert /\ task'[t].alertMeta = task[t].alertMeta
           /\ task'[t].review = task[t].review
<1> DEFINE c == [task[t] EXCEPT !.pc = "remediated", !.rem = status, !.remMeta = meta]
<1>1. task[t] \in TaskState
  OBVIOUS
<1>2. task' = [task EXCEPT ![t] = c]
  BY DEF Remediated
<1>3. c \in TaskState
  BY <1>1 DEF TaskState
<1>4. /\ c.pc = "remediated" /\ c.rem = status /\ c.remMeta = meta
      /\ c.prev = task[t].prev /\ c.eval = task[t].eval
      /\ c.remOpt = task[t].remOpt /\ c.alertOpt = task[t].alertOpt
      /\ c.alert = task[t].alert /\ c.alertMeta = task[t].alertMeta /\ c.review = task[t].review
  BY <1>1 DEF TaskState
<1> HIDE DEF c
<1> QED BY <1>2, <1>3, <1>4

\* The same of the alert.
LEMMA AlertedTask ==
    ASSUME task \in [Task -> TaskState], NEW t \in Task,
           NEW status \in AlertStatus, NEW meta \in ID \cup {None}, Alerted(t, status, meta)
    PROVE  /\ task' \in [Task -> TaskState] /\ \A u \in Task \ {t} : task'[u] = task[u]
           /\ task'[t].pc = "alerted" /\ task'[t].alert = status /\ task'[t].alertMeta = meta
           /\ task'[t].prev = task[t].prev /\ task'[t].eval = task[t].eval
           /\ task'[t].remOpt = task[t].remOpt /\ task'[t].alertOpt = task[t].alertOpt
           /\ task'[t].rem = task[t].rem /\ task'[t].remMeta = task[t].remMeta
           /\ task'[t].review = None
<1> DEFINE c == [task[t] EXCEPT !.pc = "alerted", !.alert = status, !.alertMeta = meta, !.review = None]
<1>1. task[t] \in TaskState
  OBVIOUS
<1>2. task' = [task EXCEPT ![t] = c]
  BY DEF Alerted
<1>3. c \in TaskState
  BY <1>1 DEF TaskState
<1>4. /\ c.pc = "alerted" /\ c.alert = status /\ c.alertMeta = meta /\ c.review = None
      /\ c.prev = task[t].prev /\ c.eval = task[t].eval
      /\ c.remOpt = task[t].remOpt /\ c.alertOpt = task[t].alertOpt
      /\ c.rem = task[t].rem /\ c.remMeta = task[t].remMeta
  BY <1>1 DEF TaskState
<1> HIDE DEF c
<1> QED BY <1>2, <1>3, <1>4

\* Nothing is under way.
LEMMA IdleTyped == IdleTask \in TaskState /\ NoRecord \in Record
<1>1. NoRecord \in Record
  BY DEF NoRecord, Record, RemStatus, AlertStatus
<1> QED BY <1>1 DEF IdleTask, TaskState, EvalOutcome, Opt, RemStatus, AlertStatus

\* An evaluation starts from the latest record and the profile.
LEMMA EvaluateTask ==
    ASSUME TypeOK, NEW t \in Task, NEW outcome \in Outcome, Evaluate(t, outcome)
    PROVE  /\ task' \in [Task -> TaskState] /\ \A u \in Task \ {t} : task'[u] = task[u]
           /\ task[t].pc = "idle" /\ task'[t].pc = "evaluated"
           /\ task'[t].prev = stored /\ task'[t].eval = outcome
           /\ task'[t].remOpt = (IF RemediateType = "none" THEN "off" ELSE profile.rem)
           /\ task'[t].alertOpt = profile.alert
           /\ task'[t].rem = "skipped" /\ task'[t].remMeta = None
           /\ task'[t].alert = "skipped" /\ task'[t].alertMeta = None /\ task'[t].review = None
<1> DEFINE opt == IF RemediateType = "none" THEN "off" ELSE profile.rem
           c == [IdleTask EXCEPT !.pc = "evaluated", !.prev = stored, !.eval = outcome,
                                 !.remOpt = opt, !.alertOpt = profile.alert]
<1>1. /\ IdleTask \in TaskState /\ stored \in Record /\ outcome \in EvalOutcome
      /\ opt \in Opt /\ profile.alert \in Opt
  BY IdleTyped, ActionsAssumption DEF TypeOK, Profile, Opt
<1>2. /\ IdleTask.rem = "skipped" /\ IdleTask.remMeta = None /\ IdleTask.review = None
      /\ IdleTask.alert = "skipped" /\ IdleTask.alertMeta = None
  BY DEF IdleTask
<1>3. task[t].pc = "idle" /\ task' = [task EXCEPT ![t] = c] /\ task \in [Task -> TaskState]
  BY DEF Evaluate, TypeOK
<1> HIDE DEF opt
<1>4. c \in TaskState
  BY <1>1 DEF TaskState
<1>5. /\ c.pc = "evaluated" /\ c.prev = stored /\ c.eval = outcome
      /\ c.remOpt = opt /\ c.alertOpt = profile.alert
      /\ c.rem = IdleTask.rem /\ c.remMeta = IdleTask.remMeta /\ c.review = IdleTask.review
      /\ c.alert = IdleTask.alert /\ c.alertMeta = IdleTask.alertMeta
  BY <1>1 DEF TaskState
<1> HIDE DEF c
<1> QED BY <1>2, <1>3, <1>4, <1>5 DEF opt

\* The evaluation is over.
LEMMA EndTask ==
    ASSUME task \in [Task -> TaskState], NEW t \in Task, task' = [task EXCEPT ![t] = IdleTask]
    PROVE  /\ task' \in [Task -> TaskState] /\ \A u \in Task \ {t} : task'[u] = task[u]
           /\ task'[t] = IdleTask
  BY IdleTyped

\* A remediation has a result and touches nothing of the alert.
LEMMA RemediationEffect ==
    ASSUME TypeOK, NEW t \in Task, Remediation(t)
    PROVE  /\ task[t].pc = "evaluated"
           /\ \E status \in RemStatus, meta \in ID \cup {None} : Remediated(t, status, meta)
           /\ UNCHANGED <<profile, stored, advisories, reviewing, leaked>>
           /\ tickets' \subseteq ID /\ faults' \in faults..MaxFaults
<1> USE DEF RemStatus, external
<1>0. task[t] \in TaskState /\ task[t].prev \in Record
  BY DEF TypeOK, TaskState
<1>1. task[t].prev.rem \in RemStatus /\ task[t].prev.remMeta \in ID \cup {None}
  BY <1>0 DEF Record
<1>2. /\ CallFails => faults' \in faults..MaxFaults
      /\ CallWorks => faults' \in faults..MaxFaults
      /\ UNCHANGED faults => faults' \in faults..MaxFaults
  BY ActionsAssumption DEF TypeOK, CallFails, CallWorks, Fault
<1>3. tickets \subseteq ID
  BY DEF TypeOK
<1>4. CASE SkipRemediation(t)
  BY <1>2, <1>3, <1>4 DEF SkipRemediation
<1>5. CASE RemediateByCall(t)
  BY <1>2, <1>3, <1>5 DEF RemediateByCall, RemediateStep
<1>6. CASE RemediateByCallNotOn(t)
  BY <1>2, <1>3, <1>6 DEF RemediateByCallNotOn, RemediateStep
<1>7. CASE RemediateByTicket(t)
  <2>1. Reusable(t) \subseteq ID
    BY <1>1, <1>3 DEF Reusable
  <2>2. \E status \in RemStatus, meta \in ID \cup {None} : Remediated(t, status, meta)
    BY <1>7, <2>1 DEF RemediateByTicket
  <2>3. tickets' \subseteq ID
    BY <1>3, <1>7 DEF RemediateByTicket
  <2> QED BY <1>2, <1>7, <2>2, <2>3 DEF RemediateByTicket, RemediateStep
<1>8. CASE RemediateCloseTicket(t)
  BY <1>2, <1>3, <1>8 DEF RemediateCloseTicket, RemediateStep
<1>9. CASE RemediateTicketDry(t)
  BY <1>2, <1>3, <1>9 DEF RemediateTicketDry, RemediateStep
<1>10. CASE RemediateTicketDoNothing(t)
  BY <1>1, <1>2, <1>3, <1>10 DEF RemediateTicketDoNothing, RemediateStep
<1>11. CASE RemediateParamsFail(t)
  BY <1>2, <1>3, <1>11 DEF RemediateParamsFail, RemediateStep
<1> QED BY <1>4, <1>5, <1>6, <1>7, <1>8, <1>9, <1>10, <1>11 DEF Remediation

-----------------------------------------------------------------------------
(* The inductive invariant: advisories, pull requests, reviews *)

Active(t) == task[t].pc # "idle"
Past(t) == task[t].pc \in {"remediated", "found", "alerted"}

\* A review that was found is one of this rule's.
ReviewKnown == \A t \in Task : task[t].review \in reviews \cup {None}

\* A record names an advisory or review only while its alert is on, and an evaluation
\* that will store nothing names none.
Named ==
    /\ stored.alert # "on" => stored.alertMeta = None
    /\ stored.eval = "none" => stored.alert # "on"
    /\ \A t \in Task : task[t].prev.alert # "on" => task[t].prev.alertMeta = None
    /\ \A t \in Task : task[t].prev.eval = "none" => task[t].prev.alert # "on"
    /\ \A t \in Task : task[t].alert # "on" => task[t].alertMeta = None
    /\ \A t \in Task : task[t].pc # "alerted" => task[t].alertMeta = None
    /\ \A t \in Task : task[t].eval = "silent" => task[t].alertMeta = None /\ task[t].pc # "found"

\* Each way of alerting has its own traces.
OneWay ==
    /\ ByReview => advisories = {}
    /\ \A t \in Task : task[t].pc = "found" => ByReview

\* What the alert did with the number of the previous record: it kept it, closed the
\* advisory, or will be seen to drop it.
NumberHandled ==
    \A t \in Task : task[t].pc = "alerted" =>
        \/ task[t].prev.alertMeta \notin advisories
        \/ task[t].alertMeta = task[t].prev.alertMeta
        \/ task[t].alert \in {"skipped", "error"}

\* The number an evaluation has read is in the record, or was dropped meanwhile.
PrevTracked ==
    \A t \in Task : task[t].prev.alertMeta \in advisories => task[t].prev.alertMeta \in {stored.alertMeta} \cup leaked

OneTicket == RemediateType = "pull_request" => \A i, j \in tickets : i = j

\* Without overlap, or until it happens, one evaluation is under way at a time, and
\* it has read the latest record.
Alone ==
    ~Overlap \/ steady =>
      /\ \A t, u \in Task : Active(t) /\ Active(u) => t = u
      /\ \A t \in Task : Active(t) => task[t].prev = stored

\* Who found no review finds none when it publishes.
ReviewStillMissing ==
    ~Overlap =>
      /\ \A i, j \in reviews \ hidden : i = j
      /\ \A t \in Task : task[t].pc = "found" /\ task[t].review = None => reviews \subseteq hidden

IInv ==
    /\ TypeOK /\ ReviewKnown /\ Named /\ OneWay /\ NumberHandled /\ PrevTracked /\ AdvisoryTracked
    /\ OneTicket /\ Alone /\ ReviewStillMissing

\* It holds at the start: there is nothing at the provider.
LEMMA InitInv == Init => IInv
<1> SUFFICES ASSUME Init PROVE IInv
  OBVIOUS
<1>1. \A t \in Task : task[t] = IdleTask
  BY DEF Init
<1>2. task \in [Task -> TaskState] /\ stored \in Record
  BY IdleTyped DEF Init
<1>3. TypeOK
  <2>1. profile \in Profile /\ 0 \in 0..MaxFaults /\ 0 \in 0..MaxFixes /\ 0 \in 0..0
    BY ActionsAssumption DEF Init, MaxFixes
  <2> QED BY <1>2, <2>1 DEF Init, TypeOK
<1>4. ReviewKnown /\ Named
  BY <1>1 DEF Init, ReviewKnown, Named, IdleTask, NoRecord
<1>5. OneWay /\ NumberHandled /\ PrevTracked /\ AdvisoryTracked
  BY <1>1 DEF Init, OneWay, NumberHandled, PrevTracked, AdvisoryTracked, IdleTask
<1>6. OneTicket /\ Alone /\ ReviewStillMissing
  BY <1>1 DEF Init, OneTicket, Alone, Active, ReviewStillMissing, IdleTask
<1> QED BY <1>3, <1>4, <1>5, <1>6 DEF IInv

\* The alert touches its own traces, and what the evaluation knows of it.
LEMMA AlertEffect ==
    ASSUME TypeOK, ReviewKnown, NEW t \in Task, Alert(t)
    PROVE  /\ task' \in [Task -> TaskState] /\ \A u \in Task \ {t} : task'[u] = task[u]
           /\ task[t].pc \in {"remediated", "found"} /\ task'[t].pc \in {"found", "alerted"}
           /\ task'[t].prev = task[t].prev /\ task'[t].eval = task[t].eval
           /\ task'[t].remOpt = task[t].remOpt /\ task'[t].alertOpt = task[t].alertOpt
           /\ task'[t].rem = task[t].rem /\ task'[t].remMeta = task[t].remMeta
           /\ UNCHANGED <<profile, stored, tickets, long, observed>>
           /\ advisories' \subseteq ID /\ leaked' \subseteq ID /\ faults' \in faults..MaxFaults
           /\ reviews \subseteq reviews' /\ reviews' \subseteq ID
           /\ dismissed' \subseteq reviews' /\ hidden' \subseteq reviews'
           /\ task'[t].review \in reviews' \cup {None}
<1> USE DEF external, reviewing, observed
<1>0. /\ task \in [Task -> TaskState] /\ task[t] \in TaskState /\ task[t].prev \in Record
      /\ advisories \subseteq ID /\ leaked \subseteq ID /\ reviews \subseteq ID
      /\ dismissed \subseteq reviews /\ hidden \subseteq reviews
      /\ task[t].review \in reviews \cup {None}
  BY DEF TypeOK, TaskState, ReviewKnown
<1>1. PrevAlert(task[t].prev) \in AlertStatus /\ task[t].prev.alertMeta \in ID \cup {None}
  BY <1>0 DEF PrevAlert, Record, AlertStatus
<1>2. /\ CallFails => faults' \in faults..MaxFaults
      /\ CallWorks => faults' \in faults..MaxFaults
      /\ UNCHANGED faults => faults' \in faults..MaxFaults
  BY ActionsAssumption DEF TypeOK, CallFails, CallWorks, Fault
<1>3. SUFFICES
        /\ \/ \E status \in AlertStatus, meta \in ID \cup {None} : Alerted(t, status, meta)
           \/ \E r \in reviews \cup {None} : task' = [task EXCEPT ![t].pc = "found", ![t].review = r]
        /\ task[t].pc \in {"remediated", "found"}
        /\ UNCHANGED <<profile, stored, tickets, long, observed>>
        /\ advisories' \subseteq ID /\ leaked' \subseteq ID /\ faults' \in faults..MaxFaults
        /\ reviews \subseteq reviews' /\ reviews' \subseteq ID
        /\ dismissed' \subseteq reviews' /\ hidden' \subseteq reviews'
  <2>1. ASSUME NEW status \in AlertStatus, NEW meta \in ID \cup {None}, Alerted(t, status, meta)
        PROVE  /\ task' \in [Task -> TaskState] /\ \A u \in Task \ {t} : task'[u] = task[u]
               /\ task'[t].pc = "alerted"
               /\ task'[t].prev = task[t].prev /\ task'[t].eval = task[t].eval
               /\ task'[t].remOpt = task[t].remOpt /\ task'[t].alertOpt = task[t].alertOpt
               /\ task'[t].rem = task[t].rem /\ task'[t].remMeta = task[t].remMeta
               /\ task'[t].review = None
    BY <1>0, <2>1, AlertedTask
  <2>2. ASSUME NEW r \in reviews \cup {None}, task' = [task EXCEPT ![t].pc = "found", ![t].review = r]
        PROVE  /\ task' \in [Task -> TaskState] /\ \A u \in Task \ {t} : task'[u] = task[u]
               /\ task'[t].pc = "found"
               /\ task'[t].prev = task[t].prev /\ task'[t].eval = task[t].eval
               /\ task'[t].remOpt = task[t].remOpt /\ task'[t].alertOpt = task[t].alertOpt
               /\ task'[t].rem = task[t].rem /\ task'[t].remMeta = task[t].remMeta
               /\ task'[t].review = r
    BY <1>0, <2>2 DEF TaskState
  <2> QED BY <2>1, <2>2
<1>4. CASE SkipAlert(t)
  BY <1>0, <1>2, <1>4 DEF SkipAlert, AlertStatus
<1>5. CASE OpenAdvisory(t)
  BY <1>0, <1>2, <1>5 DEF OpenAdvisory, AlertStep, AlertStatus
<1>6. CASE CloseAdvisory(t)
  BY <1>0, <1>2, <1>6 DEF CloseAdvisory, AlertStep, AlertStatus
<1>7. CASE FindReview(t)
  <2>1. Found(t) \subseteq reviews \cup {None}
    BY DEF Found
  <2> QED BY <1>0, <1>2, <1>7, <2>1 DEF FindReview, AlertStep, AlertStatus
<1>8. CASE PublishReview(t)
  BY <1>0, <1>2, <1>8 DEF PublishReview, AlertStatus
<1>9. CASE DismissReview(t)
  BY <1>0, <1>2, <1>9 DEF DismissReview, AlertStatus
<1>10. CASE AlertDry(t)
  BY <1>0, <1>2, <1>10 DEF AlertDry, AlertStep, AlertStatus
<1>11. CASE AlertDoNothing(t)
  BY <1>0, <1>1, <1>2, <1>11 DEF AlertDoNothing, AlertStep
<1>12. CASE AlertParamsFail(t)
  BY <1>0, <1>2, <1>12 DEF AlertParamsFail, AlertStep, AlertStatus
<1> QED BY <1>4, <1>5, <1>6, <1>7, <1>8, <1>9, <1>10, <1>11, <1>12 DEF Alert

\* Every step keeps the types.
LEMMA TypeStep ==
    ASSUME TypeOK, ReviewKnown, Next
    PROVE  TypeOK' /\ ReviewKnown'
<1> USE ActionsAssumption DEF external, reviewing, observed
<1>0. task \in [Task -> TaskState]
  BY DEF TypeOK
<1>1. CASE UpdateProfile
  BY <1>1 DEF UpdateProfile, TypeOK, ReviewKnown
<1>2. ASSUME NEW i \in ID, AdvisoryClosedByUser(i) PROVE TypeOK' /\ ReviewKnown'
  BY <1>2 DEF AdvisoryClosedByUser, Fault, TypeOK, ReviewKnown
<1>3. CASE ListGrows
  BY <1>3 DEF ListGrows, Fault, TypeOK, ReviewKnown
<1>4. ASSUME NEW t \in Task, NEW outcome \in Outcome, Evaluate(t, outcome) PROVE TypeOK' /\ ReviewKnown'
  <2>1. /\ task' \in [Task -> TaskState] /\ \A u \in Task \ {t} : task'[u] = task[u]
        /\ task'[t].review = None
    BY <1>4, EvaluateTask
  <2> QED BY <1>4, <2>1 DEF Evaluate, TypeOK, ReviewKnown
<1>5. ASSUME NEW t \in Task, Remediation(t) PROVE TypeOK' /\ ReviewKnown'
  <2>1. /\ \E status \in RemStatus, meta \in ID \cup {None} : Remediated(t, status, meta)
        /\ UNCHANGED <<profile, stored, advisories, reviewing, leaked>>
        /\ tickets' \subseteq ID /\ faults' \in faults..MaxFaults
    BY <1>5, RemediationEffect
  <2>2. /\ task' \in [Task -> TaskState] /\ \A u \in Task \ {t} : task'[u] = task[u]
        /\ task'[t].review = task[t].review
    BY <1>0, <2>1, RemediatedTask
  <2>3. fixes' \in 0..MaxFixes /\ unrecorded' = unrecorded /\ steady' = steady
    BY <2>1 DEF Remediated, TypeOK, MaxFixes
  <2> QED BY <2>1, <2>2, <2>3 DEF TypeOK, ReviewKnown
<1>6. ASSUME NEW t \in Task, Alert(t) PROVE TypeOK' /\ ReviewKnown'
  <2>1. /\ task' \in [Task -> TaskState] /\ \A u \in Task \ {t} : task'[u] = task[u]
        /\ UNCHANGED <<profile, stored, tickets, long, observed>>
        /\ advisories' \subseteq ID /\ leaked' \subseteq ID /\ faults' \in faults..MaxFaults
        /\ reviews \subseteq reviews' /\ reviews' \subseteq ID
        /\ dismissed' \subseteq reviews' /\ hidden' \subseteq reviews'
        /\ task'[t].review \in reviews' \cup {None}
    BY <1>6, AlertEffect
  <2> QED BY <2>1 DEF TypeOK, ReviewKnown
<1>7. ASSUME NEW t \in Task, Store(t) \/ StoreNothing(t) \/ Abort(t) PROVE TypeOK' /\ ReviewKnown'
  <2>1. /\ task' \in [Task -> TaskState] /\ \A u \in Task \ {t} : task'[u] = task[u]
        /\ task'[t] = IdleTask
    BY <1>0, <1>7, EndTask DEF Store, StoreNothing, Abort
  <2>2. ReviewKnown' /\ UNCHANGED <<profile, external>>
    BY <1>7, <2>1 DEF ReviewKnown, IdleTask, Store, StoreNothing, Abort
  <2>3. /\ leaked' \subseteq ID /\ faults' \in 0..MaxFaults
        /\ fixes' \in 0..MaxFixes /\ unrecorded' \in 0..faults' /\ steady' = steady
    BY <1>7 DEF Store, StoreNothing, Abort, Fault, TypeOK, MaxFixes
  <2>4. stored' \in Record
    <3>1. CASE Store(t)
      <4>1. task[t] \in TaskState /\ task[t].eval \in {"success", "failure", "error", "skipped"}
        BY <1>0, <3>1 DEF Store, TaskState, EvalOutcome
      <4> QED BY <3>1, <4>1 DEF Store, TaskState, Record
    <3> QED BY <1>7, <3>1 DEF StoreNothing, Abort, TypeOK
  <2> QED BY <2>1, <2>2, <2>3, <2>4 DEF TypeOK
<1> QED BY <1>1, <1>2, <1>3, <1>4, <1>5, <1>6, <1>7 DEF Next

-----------------------------------------------------------------------------
(* The steps *)

\* An alert is raised only where it was not on.
LEMMA AlertCommand ==
    ASSUME NEW t \in Task
    PROVE  AlertCmd(t) = "on" => task[t].prev.alert # "on"
  BY DEF AlertCmd, ShouldAlert

\* The five things an alert may do to the number of an advisory: give it up, keep it,
\* name a review, open an advisory, or only look for the review.
GivesUp(t, status) ==
    /\ Alerted(t, status, None) /\ status \in AlertStatus \ {"on"}
    /\ advisories' \subseteq advisories /\ leaked' = leaked
    /\ status \in {"skipped", "error"} \/ task[t].prev.alertMeta \notin advisories'
Keeps(t, status) ==
    /\ Alerted(t, status, task[t].prev.alertMeta) /\ status \in AlertStatus /\ task[t].eval # "silent"
    /\ status # "on" => task[t].prev.alertMeta = None
    /\ advisories' = advisories /\ leaked' = leaked
Names(t, m) ==
    /\ Alerted(t, "on", m) /\ m \in ID \cup {None} /\ task[t].eval # "silent"
    /\ advisories' = advisories /\ leaked' = leaked
    /\ task[t].prev.alertMeta \notin advisories
Opens(t, i) ==
    /\ Alerted(t, "on", i) /\ i \in ID /\ Fresh(i) /\ ByAdvisory
    /\ advisories' = advisories \cup {i} /\ leaked' = leaked \ {i}
    /\ task[t].prev.alert # "on" /\ task[t].eval # "silent"
Looks(t, r) ==
    /\ task' = [task EXCEPT ![t].pc = "found", ![t].review = r] /\ ByReview /\ task[t].eval # "silent"
    /\ advisories' = advisories /\ leaked' = leaked

\* Every alert is one of them.
LEMMA AlertKinds ==
    ASSUME IInv, NEW t \in Task, Alert(t)
    PROVE  \/ \E status \in AlertStatus : GivesUp(t, status) \/ Keeps(t, status)
           \/ \E m \in ID \cup {None} : Names(t, m)
           \/ \E i \in ID : Opens(t, i)
           \/ \E r \in reviews \cup {None} : Looks(t, r)
<1> USE DEF external, reviewing, AlertStatus
<1>0. /\ task[t] \in TaskState /\ task[t].prev \in Record /\ None \notin advisories
      /\ task[t].review \in reviews \cup {None} /\ reviews \subseteq ID
      /\ (task[t].prev.alert # "on" => task[t].prev.alertMeta = None)
      /\ (task[t].prev.eval = "none" => task[t].prev.alert # "on")
      /\ (ByReview => advisories = {}) /\ (task[t].pc = "found" => ByReview /\ task[t].eval # "silent")
      /\ \A cmd : AlertStep(t, cmd) => task[t].eval # "silent"
  BY ActionsAssumption DEF IInv, TypeOK, TaskState, ReviewKnown, Named, OneWay, AlertStep, Skippable
<1>1. task[t].prev.alert \in AlertStatus /\ task[t].prev.alertMeta \in ID \cup {None}
  BY <1>0 DEF Record
<1>2. CASE SkipAlert(t)
  <2>1. GivesUp(t, "skipped")
    BY <1>2 DEF SkipAlert, GivesUp
  <2> QED BY <2>1
<1>3. CASE OpenAdvisory(t)
  <2>1. CASE \E i \in ID : Fresh(i) /\ advisories' = advisories \cup {i} /\ leaked' = leaked \ {i} /\ Alerted(t, "on", i)
    BY <1>0, <1>3, <2>1, AlertCommand DEF OpenAdvisory, AlertStep, Opens
  <2>2. CASE Alerted(t, "error", None) /\ UNCHANGED <<advisories, leaked>>
    <3>1. GivesUp(t, "error")
      BY <2>2 DEF GivesUp
    <3> QED BY <3>1
  <2> QED BY <1>3, <2>1, <2>2 DEF OpenAdvisory
<1>4. CASE CloseAdvisory(t)
  <2>1. GivesUp(t, "off") \/ GivesUp(t, "error")
    BY <1>4 DEF CloseAdvisory, GivesUp
  <2> QED BY <2>1
<1>5. CASE FindReview(t)
  <2>1. Found(t) \subseteq reviews \cup {None}
    BY DEF Found
  <2>2. CASE \E r \in Found(t) : task' = [task EXCEPT ![t].pc = "found", ![t].review = r]
    BY <1>0, <1>5, <2>1, <2>2 DEF FindReview, Looks
  <2>3. CASE Alerted(t, "error", None)
    <3>1. GivesUp(t, "error")
      BY <1>5, <2>3 DEF FindReview, GivesUp
    <3> QED BY <3>1
  <2> QED BY <1>5, <2>2, <2>3 DEF FindReview
<1>6. CASE PublishReview(t)
  <2>1. UNCHANGED <<advisories, leaked>> /\ advisories = {}
    BY <1>0, <1>6 DEF PublishReview
  <2>2. CASE Alerted(t, "error", None)
    <3>1. GivesUp(t, "error")
      BY <2>1, <2>2 DEF GivesUp
    <3> QED BY <3>1
  <2>3. CASE \E m \in ID \cup {None} : Alerted(t, "on", m)
    BY <1>0, <1>6, <2>1, <2>3 DEF PublishReview, Names
  <2> QED BY <1>0, <1>6, <2>2, <2>3 DEF PublishReview
<1>7. CASE DismissReview(t)
  <2>1. GivesUp(t, "off") \/ GivesUp(t, "error")
    BY <1>0, <1>7 DEF DismissReview, GivesUp
  <2> QED BY <2>1
<1>8. CASE AlertDry(t)
  <2>1. CASE AlertStep(t, "on") /\ Alerted(t, "on", None)
    <3>1. Names(t, None)
      BY <1>0, <1>8, <2>1, AlertCommand DEF AlertDry, AlertStep, Names
    <3> QED BY <3>1
  <2>2. CASE Alerted(t, IF task[t].prev.alertMeta = None THEN "off" ELSE "skipped", None)
    <3>1. GivesUp(t, "off") \/ GivesUp(t, "skipped")
      BY <1>0, <1>8, <2>2 DEF AlertDry, GivesUp
    <3> QED BY <3>1
  <2> QED BY <1>8, <2>1, <2>2 DEF AlertDry
<1>9. CASE AlertDoNothing(t)
  <2>1. PICK status \in AlertStatus : status = PrevAlert(task[t].prev)
    BY <1>1 DEF PrevAlert
  <2>2. Keeps(t, status)
    BY <1>0, <1>9, <2>1 DEF AlertDoNothing, Keeps, PrevAlert
  <2> QED BY <2>2
<1>10. CASE AlertParamsFail(t)
  <2>1. GivesUp(t, "error")
    BY <1>10 DEF AlertParamsFail, GivesUp
  <2> QED BY <2>1
<1> QED BY <1>2, <1>3, <1>4, <1>5, <1>6, <1>7, <1>8, <1>9, <1>10 DEF Alert

\* What is known of advisories, together.
Tracked == Named /\ OneWay /\ NumberHandled /\ PrevTracked /\ AdvisoryTracked

\* The evaluation is where it was, or not yet at its alert.
SameAlert(t) ==
    /\ task'[t].prev = task[t].prev /\ task'[t].alert = task[t].alert
    /\ task'[t].alertMeta = task[t].alertMeta /\ task'[t].eval = task[t].eval
    /\ \/ task'[t].pc = task[t].pc
       \/ task[t].pc # "alerted" /\ task'[t].pc \notin {"alerted", "found"}

\* A step that leaves advisories, records and numbers alone.
LEMMA TrackedSame ==
    ASSUME IInv, stored' = stored, leaked' = leaked, advisories' \subseteq advisories,
           profile'.alertType = profile.alertType, \A t \in Task : SameAlert(t)
    PROVE  Tracked'
<1> USE DEF SameAlert
<1>1. Named'
  BY DEF IInv, Named
<1>2. OneWay'
  BY DEF IInv, OneWay, ByReview
<1>3. NumberHandled' /\ PrevTracked'
  BY DEF IInv, NumberHandled, PrevTracked
<1>4. AdvisoryTracked'
  BY DEF IInv, AdvisoryTracked
<1> QED BY <1>1, <1>2, <1>3, <1>4 DEF Tracked

\* An advisory is opened with a number that nobody holds, and closed by its number;
\* an alert that forgets its number is seen to do so when the record is stored.
LEMMA TrackedAlert ==
    ASSUME IInv, NEW t \in Task, Alert(t)
    PROVE  Tracked'
<1>0. /\ task \in [Task -> TaskState] /\ None \notin ID /\ advisories \subseteq ID /\ stored' = stored /\ profile' = profile
      /\ task[t].pc \in {"remediated", "found"} /\ TypeOK /\ ReviewKnown
      /\ task[t].prev.alertMeta \in ID \cup {None}
  BY AlertEffect, ActionsAssumption DEF IInv, TypeOK, TaskState, Record
<1>1. /\ Named /\ OneWay /\ NumberHandled /\ PrevTracked /\ AdvisoryTracked
      /\ (task[t].prev.alert # "on" => task[t].prev.alertMeta = None)
  BY DEF IInv, Named
\* What the evaluation does to itself is the same in the first four cases.
<1> DEFINE Told(status, meta) ==
             /\ \A u \in Task \ {t} : task'[u] = task[u]
             /\ task'[t].pc = "alerted" /\ task'[t].alert = status /\ task'[t].alertMeta = meta
             /\ task'[t].prev = task[t].prev /\ task'[t].eval = task[t].eval
<1>2. ASSUME NEW status \in AlertStatus, NEW meta \in ID \cup {None}, Alerted(t, status, meta)
      PROVE Told(status, meta)
  BY <1>0, <1>2, AlertedTask
<1>3. ASSUME NEW status \in AlertStatus, NEW meta \in ID \cup {None}, Told(status, meta),
             status # "on" => meta = None, meta = None \/ task[t].eval # "silent"
      PROVE Named'
  BY <1>0, <1>1, <1>3 DEF Named
<1>4. ASSUME NEW status \in AlertStatus, NEW meta \in ID \cup {None}, Told(status, meta),
             advisories' \subseteq advisories, leaked' = leaked,
             meta \in {None, task[t].prev.alertMeta} \/ task[t].prev.alertMeta \notin advisories',
             \/ task[t].prev.alertMeta \notin advisories' \/ meta = task[t].prev.alertMeta
             \/ status \in {"skipped", "error"}
      PROVE OneWay' /\ NumberHandled' /\ PrevTracked' /\ AdvisoryTracked'
  <2>1. OneWay'
    BY <1>0, <1>1, <1>4 DEF OneWay, ByReview
  <2>2. NumberHandled' /\ PrevTracked'
    BY <1>0, <1>1, <1>4 DEF NumberHandled, PrevTracked
  <2>3. AdvisoryTracked'
    BY <1>0, <1>1, <1>4 DEF AdvisoryTracked
  <2> QED BY <2>1, <2>2, <2>3
<1>5. ASSUME NEW status \in AlertStatus, GivesUp(t, status) PROVE Tracked'
  BY <1>2, <1>3, <1>4, <1>5 DEF GivesUp, Tracked
<1>6. ASSUME NEW status \in AlertStatus, Keeps(t, status) PROVE Tracked'
  BY <1>0, <1>2, <1>3, <1>4, <1>6 DEF Keeps, Tracked
<1>7. ASSUME NEW m \in ID \cup {None}, Names(t, m) PROVE Tracked'
  <2>1. Told("on", m)
    BY <1>2, <1>7 DEF Names, AlertStatus
  <2>2. "on" \in AlertStatus
    BY DEF AlertStatus
  <2> QED BY <1>3, <1>4, <1>7, <2>1, <2>2 DEF Names, Tracked
<1>8. ASSUME NEW i \in ID, Opens(t, i) PROVE Tracked'
  <2>1. Told("on", i) /\ "on" \in AlertStatus
    BY <1>2, <1>8 DEF Opens, AlertStatus
  <2>2. /\ i \notin advisories /\ i # stored.alertMeta
        /\ \A u \in Task : i # task[u].alertMeta /\ i # task[u].prev.alertMeta
    BY <1>8 DEF Opens, Fresh
  <2>3. advisories' = advisories \cup {i} /\ leaked' = leaked \ {i} /\ task[t].prev.alertMeta = None /\ ByAdvisory
    BY <1>1, <1>8 DEF Opens
  <2>4. Named'
    BY <1>3, <1>8, <2>1 DEF Opens
  <2>5. OneWay'
    BY <1>0, <1>1, <2>1, <2>3 DEF OneWay, ByReview, ByAdvisory
  <2>6. NumberHandled'
    BY <1>0, <1>1, <2>1, <2>2, <2>3 DEF NumberHandled
  <2>7. PrevTracked'
    BY <1>0, <1>1, <2>1, <2>2, <2>3 DEF PrevTracked
  <2>8. AdvisoryTracked'
    BY <1>0, <1>1, <2>1, <2>2, <2>3 DEF AdvisoryTracked
  <2> QED BY <2>4, <2>5, <2>6, <2>7, <2>8 DEF Tracked
<1>9. ASSUME NEW r \in reviews \cup {None}, Looks(t, r) PROVE Tracked'
  <2>1. /\ \A u \in Task \ {t} : task'[u] = task[u]
        /\ task'[t].pc = "found" /\ task'[t].alert = task[t].alert /\ task'[t].alertMeta = task[t].alertMeta
        /\ task'[t].prev = task[t].prev /\ task'[t].eval = task[t].eval
    BY <1>0, <1>9 DEF Looks, TaskState
  <2>2. advisories' = advisories /\ leaked' = leaked /\ ByReview /\ task[t].eval # "silent"
    BY <1>9 DEF Looks
  <2>3. Named' /\ NumberHandled' /\ PrevTracked'
    BY <1>0, <1>1, <2>1, <2>2 DEF Named, NumberHandled, PrevTracked
  <2>4. OneWay'
    BY <1>0, <1>1, <2>1, <2>2 DEF OneWay, ByReview
  <2>5. AdvisoryTracked'
    BY <1>0, <1>1, <2>1, <2>2 DEF AdvisoryTracked
  <2> QED BY <2>3, <2>4, <2>5 DEF Tracked
<1> QED BY <1>5, <1>6, <1>7, <1>8, <1>9, AlertKinds

\* The end of an evaluation: what the record or the evaluation held is in the new
\* record, or known to be dropped.
LEMMA TrackedEnd ==
    ASSUME IInv, NEW t \in Task, Store(t) \/ StoreNothing(t) \/ Abort(t)
    PROVE  Tracked'
<1>0. /\ task \in [Task -> TaskState] /\ None \notin ID /\ advisories \subseteq ID
      /\ Named /\ OneWay /\ NumberHandled /\ PrevTracked /\ AdvisoryTracked
      /\ UNCHANGED <<profile, advisories>> /\ leaked \subseteq leaked'
  BY ActionsAssumption DEF IInv, TypeOK, Store, StoreNothing, Abort, external
<1>1. /\ \A u \in Task \ {t} : task'[u] = task[u]
      /\ task'[t] = IdleTask
  BY <1>0, EndTask DEF Store, StoreNothing, Abort
<1>2. /\ task'[t].pc = "idle" /\ task'[t].alert = "skipped" /\ task'[t].alertMeta = None
      /\ task'[t].prev.alertMeta = None /\ task'[t].prev.alert = "skipped" /\ task'[t].eval # "silent"
  BY <1>1 DEF IdleTask, NoRecord
<1>3. OneWay'
  BY <1>0, <1>1, <1>2 DEF OneWay, ByReview
<1>4. NumberHandled'
  BY <1>0, <1>1, <1>2 DEF NumberHandled
<1>5. Named'
  <2>1. CASE Store(t)
    <3>1. /\ stored'.alert = task[t].alert /\ stored'.alertMeta = task[t].alertMeta
          /\ stored'.eval = task[t].eval
      BY <2>1 DEF Store
    <3>2. task[t].eval # "none"
      BY <1>0 DEF TaskState, EvalOutcome
    <3> QED BY <1>0, <1>1, <1>2, <3>1, <3>2 DEF Named
  <2>2. CASE StoreNothing(t) \/ Abort(t)
    BY <1>0, <1>1, <1>2, <2>2 DEF Named, StoreNothing, Abort
  <2> QED BY <2>1, <2>2
\* Whatever the old record named is in the new one, or dropped.
<1>6. stored.alertMeta \in advisories => stored.alertMeta \in {stored'.alertMeta} \cup leaked'
  <2>1. CASE Store(t)
    <3>1. /\ stored'.alertMeta = task[t].alertMeta
          /\ leaked' = leaked \cup ((Dropped(t) \ {task[t].alertMeta}) \cap advisories)
          /\ task[t].pc = "alerted"
      BY <2>1 DEF Store
    <3>2. CASE task[t].prev # stored
      BY <3>1, <3>2 DEF Dropped
    <3>3. CASE task[t].prev = stored
      BY <1>0, <3>1, <3>3 DEF Dropped, NumberHandled
    <3> QED BY <3>2, <3>3
  <2>2. CASE StoreNothing(t) \/ Abort(t)
    BY <2>2 DEF StoreNothing, Abort
  <2> QED BY <2>1, <2>2
<1>7. PrevTracked'
  BY <1>0, <1>1, <1>2, <1>6 DEF PrevTracked
\* Whatever the evaluation named is in the new record, in the old one, or dropped.
<1>8. task[t].pc = "alerted" /\ task[t].alertMeta \in advisories =>
        task[t].alertMeta \in {stored'.alertMeta} \cup leaked'
  <2>1. CASE Store(t)
    BY <2>1 DEF Store
  <2>2. CASE Abort(t)
    <3>1. CASE task[t].alertMeta # task[t].prev.alertMeta
      BY <2>2, <3>1 DEF Abort
    <3>2. CASE task[t].alertMeta = task[t].prev.alertMeta
      BY <1>0, <1>6, <2>2, <3>2 DEF Abort, PrevTracked
    <3> QED BY <3>1, <3>2
  <2>3. CASE StoreNothing(t)
    BY <1>0, <2>3 DEF Named, StoreNothing
  <2> QED BY <2>1, <2>2, <2>3
<1>9. AdvisoryTracked'
  BY <1>0, <1>1, <1>2, <1>6, <1>8 DEF AdvisoryTracked
<1> QED BY <1>3, <1>4, <1>5, <1>7, <1>9 DEF Tracked

\* An evaluation starts with the number of the latest record.
LEMMA TrackedEvaluate ==
    ASSUME IInv, NEW t \in Task, NEW outcome \in Outcome, Evaluate(t, outcome)
    PROVE  Tracked'
<1>0. /\ Named /\ OneWay /\ NumberHandled /\ PrevTracked /\ AdvisoryTracked
      /\ UNCHANGED <<profile, stored, advisories, leaked>>
  BY DEF IInv, Evaluate, external
<1>1. /\ \A u \in Task \ {t} : task'[u] = task[u]
      /\ task[t].pc = "idle" /\ task'[t].pc = "evaluated" /\ task'[t].prev = stored
      /\ task'[t].alert = "skipped" /\ task'[t].alertMeta = None
  BY EvaluateTask DEF IInv
<1>2. Named' /\ OneWay'
  BY <1>0, <1>1 DEF Named, OneWay, ByReview
<1>3. NumberHandled' /\ PrevTracked'
  BY <1>0, <1>1 DEF NumberHandled, PrevTracked
<1>4. AdvisoryTracked'
  BY <1>0, <1>1 DEF AdvisoryTracked
<1> QED BY <1>2, <1>3, <1>4 DEF Tracked

\* No step loses track of an advisory.
LEMMA TrackedStep ==
    ASSUME IInv, Next
    PROVE  Tracked'
<1> USE DEF external
<1>0. task \in [Task -> TaskState] /\ TypeOK
  BY DEF IInv, TypeOK
<1>1. CASE UpdateProfile
  <2>1. /\ stored' = stored /\ leaked' = leaked /\ advisories' \subseteq advisories
        /\ profile'.alertType = profile.alertType /\ \A t \in Task : SameAlert(t)
    BY <1>1 DEF UpdateProfile, SameAlert
  <2> QED BY <2>1, TrackedSame
<1>2. ASSUME NEW i \in ID, AdvisoryClosedByUser(i) PROVE Tracked'
  <2>1. /\ stored' = stored /\ leaked' = leaked /\ advisories' \subseteq advisories
        /\ profile'.alertType = profile.alertType /\ \A t \in Task : SameAlert(t)
    BY <1>2 DEF AdvisoryClosedByUser, SameAlert
  <2> QED BY <2>1, TrackedSame
<1>3. CASE ListGrows
  <2>1. /\ stored' = stored /\ leaked' = leaked /\ advisories' \subseteq advisories
        /\ profile'.alertType = profile.alertType /\ \A t \in Task : SameAlert(t)
    BY <1>3 DEF ListGrows, SameAlert
  <2> QED BY <2>1, TrackedSame
<1>4. ASSUME NEW t \in Task, NEW outcome \in Outcome, Evaluate(t, outcome) PROVE Tracked'
  BY <1>4, TrackedEvaluate
<1>5. ASSUME NEW t \in Task, Remediation(t) PROVE Tracked'
  <2>1. /\ task[t].pc = "evaluated" /\ UNCHANGED <<profile, stored, advisories, leaked>>
        /\ \E status \in RemStatus, meta \in ID \cup {None} : Remediated(t, status, meta)
    BY <1>0, <1>5, RemediationEffect
  <2>2. /\ \A u \in Task \ {t} : task'[u] = task[u]
        /\ task'[t].pc = "remediated" /\ task'[t].prev = task[t].prev /\ task'[t].eval = task[t].eval
        /\ task'[t].alert = task[t].alert /\ task'[t].alertMeta = task[t].alertMeta
    BY <1>0, <2>1, RemediatedTask
  <2>3. \A u \in Task : SameAlert(u)
    BY <2>1, <2>2 DEF SameAlert
  <2> QED BY <2>1, <2>3, TrackedSame
<1>6. ASSUME NEW t \in Task, Alert(t) PROVE Tracked'
  BY <1>6, TrackedAlert
<1>7. ASSUME NEW t \in Task, Store(t) \/ StoreNothing(t) \/ Abort(t) PROVE Tracked'
  BY <1>7, TrackedEnd
<1> QED BY <1>1, <1>2, <1>3, <1>4, <1>5, <1>6, <1>7 DEF Next

\* The type of a rule's remediation does not change.
LEMMA TypeKept ==
    ASSUME IInv, Next
    PROVE  profile'.type = profile.type
<1>1. ASSUME NEW t \in Task, Remediation(t) \/ Alert(t) PROVE profile' = profile
  BY <1>1, RemediationEffect, AlertEffect DEF IInv, external, reviewing
<1> QED BY <1>1 DEF Next, UpdateProfile, AdvisoryClosedByUser, ListGrows, Evaluate, Store, StoreNothing, Abort

\* A pull request is opened only when its branch has none.
LEMMA OneTicketStep ==
    ASSUME IInv, Next
    PROVE  OneTicket'
<1> USE DEF external, reviewing
<1>1. profile'.type = profile.type
  BY TypeKept
<1>2. CASE tickets' \subseteq tickets
  BY <1>1, <1>2 DEF IInv, OneTicket, RemediateType
<1>3. ASSUME NEW t \in Task, RemediateByTicket(t), ~(tickets' \subseteq tickets) PROVE OneTicket'
  BY <1>1, <1>3 DEF RemediateByTicket, Reusable, OneTicket, RemediateType
<1>4. ASSUME NEW t \in Task, Remediation(t) PROVE tickets' \subseteq tickets \/ RemediateByTicket(t)
  BY <1>4 DEF Remediation, SkipRemediation, RemediateByCall, RemediateByCallNotOn, RemediateCloseTicket,
     RemediateTicketDry, RemediateTicketDoNothing, RemediateParamsFail
<1>5. ASSUME NEW t \in Task, Alert(t) PROVE tickets' = tickets
  BY <1>5, AlertEffect DEF IInv
<1> QED BY <1>2, <1>3, <1>4, <1>5 DEF Next, UpdateProfile, AdvisoryClosedByUser, ListGrows, Evaluate,
           Store, StoreNothing, Abort

\* Without overlap an evaluation starts when none is under way, and only its own end
\* changes the record it has read.
LEMMA AloneStep ==
    ASSUME IInv, Next
    PROVE  Alone'
<1> USE DEF external, reviewing, observed
<1>0. task \in [Task -> TaskState] /\ TypeOK /\ ReviewKnown /\ Alone
  BY DEF IInv, TypeOK
<1>1. ASSUME UNCHANGED <<stored, task, steady>> PROVE Alone'
  BY <1>0, <1>1 DEF Alone, Active
<1>2. ASSUME NEW t \in Task, NEW outcome \in Outcome, Evaluate(t, outcome) PROVE Alone'
  <2>1. /\ \A u \in Task \ {t} : task'[u] = task[u]
        /\ task'[t].prev = stored
    BY <1>0, <1>2, EvaluateTask
  <2> QED BY <1>0, <1>2, <2>1 DEF Evaluate, Alone, Active
<1>3. ASSUME NEW t \in Task, UNCHANGED <<stored, steady>>, task[t].pc # "idle", task'[t].prev = task[t].prev,
             \A u \in Task \ {t} : task'[u] = task[u]
      PROVE  Alone'
  BY <1>0, <1>3 DEF Alone, Active
<1>4. ASSUME NEW t \in Task, Remediation(t) PROVE Alone'
  <2>1. /\ task[t].pc = "evaluated" /\ UNCHANGED stored
        /\ \E status \in RemStatus, meta \in ID \cup {None} : Remediated(t, status, meta)
    BY <1>0, <1>4, RemediationEffect
  <2>2. (\A u \in Task \ {t} : task'[u] = task[u]) /\ task'[t].prev = task[t].prev /\ steady' = steady
    BY <1>0, <2>1, RemediatedTask DEF Remediated
  <2> QED BY <1>3, <2>1, <2>2
<1>5. ASSUME NEW t \in Task, Alert(t) PROVE Alone'
  <2>1. /\ \A u \in Task \ {t} : task'[u] = task[u]
        /\ task[t].pc # "idle" /\ task'[t].prev = task[t].prev /\ UNCHANGED <<stored, steady>>
    BY <1>0, <1>5, AlertEffect
  <2> QED BY <1>3, <2>1
<1>6. ASSUME NEW t \in Task, Store(t) \/ StoreNothing(t) \/ Abort(t) PROVE Alone'
  <2>1. /\ \A u \in Task \ {t} : task'[u] = task[u]
        /\ task'[t].pc = "idle" /\ task[t].pc # "idle" /\ steady' = steady
    BY <1>0, <1>6, EndTask DEF Store, StoreNothing, Abort, IdleTask
  <2> QED BY <1>0, <2>1 DEF Alone, Active
<1> QED BY <1>1, <1>2, <1>4, <1>5, <1>6 DEF Next, UpdateProfile, AdvisoryClosedByUser, ListGrows

\* Only a publisher adds a review; without overlap none is added between its look and
\* its call.
LEMMA ReviewStep ==
    ASSUME IInv, Next
    PROVE  ReviewStillMissing'
<1> USE DEF external, reviewing
<1>0. /\ task \in [Task -> TaskState] /\ TypeOK /\ ReviewKnown /\ Alone /\ ReviewStillMissing
      /\ hidden \subseteq reviews /\ None \notin reviews
  BY ActionsAssumption DEF IInv, TypeOK
<1>1. ASSUME UNCHANGED <<reviews, hidden>>,
             \A u \in Task : task'[u].pc = "found" => task'[u].pc = task[u].pc /\ task'[u].review = task[u].review
      PROVE  ReviewStillMissing'
  BY <1>0, <1>1 DEF ReviewStillMissing
<1>2. ASSUME NEW t \in Task, NEW outcome \in Outcome, Evaluate(t, outcome) PROVE ReviewStillMissing'
  <2>1. (\A u \in Task \ {t} : task'[u] = task[u]) /\ task'[t].pc = "evaluated"
    BY <1>0, <1>2, EvaluateTask
  <2> QED BY <1>1, <1>2, <2>1 DEF Evaluate
<1>3. ASSUME NEW t \in Task, Remediation(t) PROVE ReviewStillMissing'
  <2>1. /\ UNCHANGED reviewing
        /\ \E status \in RemStatus, meta \in ID \cup {None} : Remediated(t, status, meta)
    BY <1>0, <1>3, RemediationEffect
  <2>2. (\A u \in Task \ {t} : task'[u] = task[u]) /\ task'[t].pc = "remediated"
    BY <1>0, <2>1, RemediatedTask
  <2> QED BY <1>1, <2>1, <2>2
<1>4. ASSUME NEW t \in Task, Store(t) \/ StoreNothing(t) \/ Abort(t) PROVE ReviewStillMissing'
  <2>1. (\A u \in Task \ {t} : task'[u] = task[u]) /\ task'[t].pc = "idle" /\ UNCHANGED <<reviews, hidden>>
    BY <1>0, <1>4, EndTask DEF Store, StoreNothing, Abort, IdleTask
  <2> QED BY <1>1, <2>1
<1>5. ASSUME NEW t \in Task, Alert(t) PROVE ReviewStillMissing'
  <2>1. /\ \A u \in Task \ {t} : task'[u] = task[u]
        /\ task[t].pc # "idle" /\ task'[t].pc \in {"found", "alerted"}
    BY <1>0, <1>5, AlertEffect
  <2>2. CASE task'[t].pc = "alerted" /\ UNCHANGED <<reviews, hidden>>
    BY <1>1, <2>1, <2>2
  <2>3. ASSUME NEW status \in AlertStatus, NEW meta \in ID \cup {None}, Alerted(t, status, meta)
        PROVE  task'[t].pc = "alerted"
    BY <1>0, <2>3, AlertedTask
  <2>4. CASE FindReview(t) /\ task'[t].pc = "found"
    <3>1. UNCHANGED <<reviews, hidden>>
      BY <2>4 DEF FindReview
    <3>2. PICK r \in Found(t) : task'[t].review = r
      <4>1. ~Alerted(t, "error", None)
        BY <2>3, <2>4 DEF AlertStatus
      <4>2. PICK r \in Found(t) : task' = [task EXCEPT ![t].pc = "found", ![t].review = r]
        BY <2>4, <4>1 DEF FindReview
      <4>3. task'[t].review = r
        BY <1>0, <4>2 DEF TaskState
      <4> QED BY <4>3
    <3>3. r = None => reviews \subseteq hidden
      BY <1>0, <3>2 DEF Found
    <3> QED BY <1>0, <2>1, <3>1, <3>2, <3>3 DEF ReviewStillMissing
  <2>5. CASE PublishReview(t) /\ ~UNCHANGED <<reviews, hidden>>
    <3>1. PICK i \in ID : /\ reviews' = reviews \cup {i}
                          /\ hidden' = IF long THEN hidden \cup {i} ELSE hidden
                          /\ Alerted(t, "on", i)
      BY <2>5 DEF PublishReview
    <3>2. task[t].review = None /\ task[t].pc = "found"
      BY <2>5 DEF PublishReview
    <3>3. task'[t].pc = "alerted"
      BY <2>3, <3>1 DEF AlertStatus
    <3>4. ~Overlap => reviews \subseteq hidden
      BY <1>0, <3>2 DEF ReviewStillMissing
    <3>5. ~Overlap => \A u \in Task : task'[u].pc # "found"
      BY <1>0, <2>1, <3>2, <3>3 DEF Alone, Active
    <3> QED BY <3>1, <3>4, <3>5 DEF ReviewStillMissing
  <2>6. CASE ~PublishReview(t) /\ ~FindReview(t)
    <3>1. UNCHANGED <<reviews, hidden>>
      BY <1>5, <2>6 DEF Alert, SkipAlert, OpenAdvisory, CloseAdvisory, DismissReview, AlertDry, AlertDoNothing, AlertParamsFail
    <3>2. \E status \in AlertStatus, meta \in ID \cup {None} : Alerted(t, status, meta)
      <4>1. /\ PrevAlert(task[t].prev) \in AlertStatus /\ task[t].prev.alertMeta \in ID \cup {None}
        BY <1>0 DEF PrevAlert, TaskState, Record, AlertStatus
      <4>2. {"on", "off", "error", "skipped"} \subseteq AlertStatus
        BY DEF AlertStatus
      <4> QED BY <1>5, <2>6, <4>1, <4>2 DEF Alert, SkipAlert, OpenAdvisory, CloseAdvisory, DismissReview, AlertDry,
                AlertDoNothing, AlertParamsFail
    <3> QED BY <2>2, <2>3, <3>1, <3>2
  <2>7. FindReview(t) => UNCHANGED <<reviews, hidden>>
    BY DEF FindReview
  <2>8. PublishReview(t) => task'[t].pc = "alerted"
    <3>1. task[t].review \in ID \cup {None} /\ {"on", "error"} \subseteq AlertStatus
      BY <1>0 DEF TaskState, AlertStatus
    <3> QED BY <2>3, <3>1 DEF PublishReview
  <2> QED BY <2>1, <2>2, <2>4, <2>5, <2>6, <2>7, <2>8
<1> QED BY <1>1, <1>2, <1>3, <1>4, <1>5 DEF Next, UpdateProfile, AdvisoryClosedByUser, ListGrows

\* The invariant is inductive.
LEMMA StepInv == IInv /\ [Next]_vars => IInv'
<1>1. ASSUME IInv, Next PROVE IInv'
  BY <1>1, TypeStep, TrackedStep, OneTicketStep, AloneStep, ReviewStep DEF IInv, Tracked
<1>2. ASSUME IInv, UNCHANGED vars PROVE IInv'
  <2>1. UNCHANGED <<profile, stored, task, advisories, tickets, reviews, dismissed, long, hidden, faults, leaked,
                  fixes, unrecorded, steady>>
    BY <1>2 DEF vars, external, reviewing, observed
  <2>2. TypeOK' /\ ReviewKnown'
    BY <1>2, <2>1 DEF IInv, TypeOK, ReviewKnown
  <2>3. Tracked'
    <3>1. \A u \in Task : SameAlert(u)
      BY <2>1 DEF SameAlert
    <3> QED BY <1>2, <2>1, <3>1, TrackedSame
  <2>4. OneTicket' /\ Alone' /\ ReviewStillMissing'
    BY <1>2, <2>1 DEF IInv, OneTicket, RemediateType, Alone, Active, ReviewStillMissing
  <2> QED BY <2>2, <2>3, <2>4 DEF IInv, Tracked
<1> QED BY <1>1, <1>2

\* It holds in every reachable state.
LEMMA Invariant == Spec => []IInv
  BY InitInv, StepInv, PTL DEF Spec

\* Every variable has its type, always.
THEOREM TypeCorrect == Spec => []TypeOK
<1>1. IInv => TypeOK
  BY DEF IInv
<1> QED BY <1>1, Invariant, PTL

\* Every open advisory can still be closed, unless its number was dropped at one of the
\* points that set leaked: whatever the evaluations, their overlap and the faults.
THEOREM AdvisoryTrackedHolds == Spec => []AdvisoryTracked
<1>1. IInv => AdvisoryTracked
  BY DEF IInv
<1> QED BY <1>1, Invariant, PTL

\* A set without two elements has at most one.
LEMMA AtMostOne ==
    ASSUME NEW S, \A i, j \in S : i = j
    PROVE  Cardinality(S) <= 1
<1>1. CASE S = {}
  BY <1>1, FS_EmptySet
<1>2. CASE S # {}
  <2>1. PICK i \in S : S = {i}
    BY <1>2
  <2>2. Cardinality({i}) = 1
    BY FS_Singleton
  <2> QED BY <2>1, <2>2
<1> QED BY <1>1, <1>2

\* A rule has one open pull request at most, whatever fails, overlaps or is lost.
THEOREM OnePullRequestHolds == Spec => []OnePullRequest
<1>1. IInv => OnePullRequest
  BY AtMostOne DEF IInv, OneTicket, OnePullRequest
<1> QED BY <1>1, Invariant, PTL

\* Unless evaluations overlap, a rule has one review at most on the first page.
THEOREM OneReviewHolds == Spec => []OneReview
<1>1. IInv => OneReview
  BY AtMostOne, ActionsAssumption DEF IInv, ReviewStillMissing, OneReview
<1> QED BY <1>1, Invariant, PTL

-----------------------------------------------------------------------------
(* No remediation loop *)

\* The settings: the remediation is never turned off, and evaluations do not overlap.
KeepsRemediating == "off" \notin RemediateOpt /\ ~Overlap

\* One of the remediations is in no aborted evaluation.
Kept == fixes > unrecorded

\* Once remediated, the record says so, or the evaluation that will write it does,
\* or it was aborted.
Loop ==
    /\ fixes <= 1 + unrecorded
    /\ \A t \in Task : Active(t) => task[t].remOpt # "off"
    /\ Kept => stored.rem # "skipped" \/ \E t \in Task : Tried(t)
    /\ \A t \in Task : Past(t) /\ task[t].eval = "failure" /\ Kept => task[t].rem # "skipped"

\* A remediation of a failing rule leaves a status other than skipped, and one is
\* carried out only if there was none before.
LEMMA LoopRemediation ==
    ASSUME KeepsRemediating, ByTicket, IInv, Loop, NEW t \in Task, Remediation(t)
    PROVE  Loop'
<1> USE DEF external
<1>0. /\ task \in [Task -> TaskState] /\ task[t] \in TaskState /\ TypeOK
      /\ fixes \in Nat /\ unrecorded \in Nat /\ ByTicket /\ profile \in Profile
  BY DEF IInv, TypeOK
<1>1. /\ task[t].pc = "evaluated" /\ stored' = stored
      /\ \E status \in RemStatus, meta \in ID \cup {None} : Remediated(t, status, meta)
  BY <1>0, RemediationEffect
<1>2. /\ \A u \in Task \ {t} : task'[u] = task[u] /\ task[u].pc = "idle"
      /\ task'[t].pc = "remediated" /\ task'[t].eval = task[t].eval /\ task'[t].remOpt = task[t].remOpt
      /\ task[t].prev = stored
  BY <1>0, <1>1, RemediatedTask DEF IInv, Alone, Active, KeepsRemediating
<1>3. task[t].remOpt # "off"
  BY <1>1 DEF Loop, Active
<1>4. PICK status \in RemStatus, meta \in ID \cup {None} : Remediated(t, status, meta)
  BY <1>1
<1>5. task'[t].rem = status /\ task'[t].prev = stored
  BY <1>0, <1>2, <1>4, RemediatedTask
\* A rule with no remediation on record has none to its name that was not aborted.
<1>6. stored.rem = "skipped" => ~Kept
  BY <1>1, <1>2 DEF Loop, Tried
\* It is tried only where the record has none.
<1>7. /\ unrecorded' = unrecorded
      /\ fixes' = fixes \/ (fixes' = fixes + 1 /\ stored.rem = "skipped" /\ Tried(t)')
  <2>1. RemCmd(t) = "on" => stored.rem = "skipped"
    BY <1>2 DEF RemCmd, ShouldRemediate
  <2>2. RemCmd(t)' = RemCmd(t)
    BY <1>2, <1>5 DEF RemCmd, ShouldRemediate
  <2>3. /\ unrecorded' = unrecorded
        /\ fixes' # fixes =>
             fixes' = fixes + 1 /\ RemCmd(t) = "on" /\ task[t].remOpt = "on" /\ status # "skipped"
    BY <1>0, <1>4 DEF Remediated
  <2> QED BY <1>2, <1>5, <2>1, <2>2, <2>3 DEF Tried
<1>8. task[t].eval = "failure" => status # "skipped"
  <2> SUFFICES ASSUME task[t].eval = "failure" PROVE task'[t].rem # "skipped"
    BY <1>5
  <2>1. ASSUME NEW st \in RemStatus, NEW m \in ID \cup {None}, Remediated(t, st, m)
        PROVE  task'[t].rem = st
    BY <1>0, <2>1, RemediatedTask
  <2>2. {"skipped", "success", "error", "failure", "pending"} \subseteq RemStatus
    BY DEF RemStatus
  <2>3. CASE SkipRemediation(t)
    BY <1>0, <1>3, <2>3 DEF SkipRemediation, Skippable
  <2>4. CASE RemediateByTicket(t)
    <3>1. Reusable(t) \subseteq ID
      BY <1>0, <1>2 DEF Reusable, TypeOK, Record
    <3>2. \E st \in {"pending", "failure", "error"}, m \in ID \cup {None} : Remediated(t, st, m)
      BY <2>4, <3>1 DEF RemediateByTicket
    <3> QED BY <2>1, <2>2, <3>2
  <2>5. CASE RemediateCloseTicket(t)
    BY <1>0, <2>5 DEF RemediateCloseTicket, RemediateStep, RemCmd, ShouldRemediate
  <2>6. CASE RemediateTicketDry(t)
    <3>1. CASE RemediateStep(t, "on") /\ Remediated(t, "success", None)
      BY <2>1, <2>2, <3>1
    <3>2. CASE RemediateStep(t, "off")
      BY <3>2 DEF RemediateStep, RemCmd, ShouldRemediate
    <3> QED BY <2>6, <3>1, <3>2 DEF RemediateTicketDry
  <2>7. CASE RemediateTicketDoNothing(t)
    <3>1. task[t].prev.rem \in RemStatus /\ task[t].prev.remMeta \in ID \cup {None}
      BY <1>0 DEF TaskState, Record
    <3>2. task'[t].rem = task[t].prev.rem
      BY <2>1, <2>7, <3>1 DEF RemediateTicketDoNothing
    <3>3. task[t].prev.rem # "skipped"
      BY <2>7 DEF RemediateTicketDoNothing, RemediateStep, RemCmd, ShouldRemediate
    <3> QED BY <3>2, <3>3
  <2>8. CASE RemediateParamsFail(t)
    BY <2>1, <2>2, <2>8 DEF RemediateParamsFail
  <2>9. ~RemediateByCall(t) /\ ~RemediateByCallNotOn(t)
    BY <1>0 DEF ByTicket, RemediateByCall, RemediateByCallNotOn, ByCall
  <2> QED BY <2>3, <2>4, <2>5, <2>6, <2>7, <2>8, <2>9 DEF Remediation
<1>9. fixes' <= 1 + unrecorded'
  BY <1>0, <1>6, <1>7 DEF Kept, Loop
<1>10. Kept' => stored'.rem # "skipped" \/ Tried(t)'
  BY <1>0, <1>1, <1>6, <1>7 DEF Kept
<1>11. \A u \in Task : Past(u)' /\ task'[u].eval = "failure" => task'[u].rem # "skipped"
  BY <1>2, <1>5, <1>8 DEF Past
<1>12. \A u \in Task : Active(u)' => task'[u].remOpt # "off"
  BY <1>2, <1>3 DEF Loop, Active
<1> QED BY <1>9, <1>10, <1>11, <1>12 DEF Loop

\* No step starts a second remediation while the rule keeps failing.
LEMMA LoopStep ==
    ASSUME KeepsRemediating, ByTicket, IInv, Loop, [Next]_vars
    PROVE  Loop'
<1> USE DEF external, reviewing, observed
<1>0. /\ task \in [Task -> TaskState] /\ TypeOK /\ ReviewKnown /\ profile \in Profile
      /\ \A t, u \in Task : Active(t) /\ Active(u) => t = u
      /\ \A t \in Task : Active(t) => task[t].prev = stored
      /\ fixes \in Nat /\ unrecorded \in Nat
  BY DEF IInv, TypeOK, Alone, KeepsRemediating
<1>1. ASSUME UNCHANGED <<stored, task, observed>> PROVE Loop'
  BY <1>1 DEF Loop, Kept, Active, Past, Tried, RemCmd, ShouldRemediate
<1>2. ASSUME NEW t \in Task, NEW outcome \in Outcome, Evaluate(t, outcome) PROVE Loop'
  <2>1. /\ \A u \in Task \ {t} : task'[u] = task[u]
        /\ task[t].pc = "idle" /\ task'[t].pc = "evaluated"
        /\ task'[t].remOpt = (IF RemediateType = "none" THEN "off" ELSE profile.rem)
        /\ UNCHANGED <<stored, fixes, unrecorded>>
    BY <1>0, <1>2, EvaluateTask DEF Evaluate
  <2>2. task'[t].remOpt # "off"
    BY <1>0, <2>1 DEF Profile, ByTicket, KeepsRemediating
  <2>3. \A u \in Task : Tried(u) => Tried(u)'
    BY <2>1 DEF Tried, RemCmd, ShouldRemediate
  <2> QED BY <2>1, <2>2, <2>3 DEF Loop, Kept, Active, Past
<1>3. ASSUME NEW t \in Task, Alert(t) PROVE Loop'
  <2>1. /\ \A u \in Task \ {t} : task'[u] = task[u]
        /\ task[t].pc \in {"remediated", "found"} /\ task'[t].pc \in {"found", "alerted"}
        /\ task'[t].eval = task[t].eval /\ task'[t].rem = task[t].rem /\ task'[t].remOpt = task[t].remOpt
        /\ task'[t].prev = task[t].prev
        /\ UNCHANGED <<stored, observed>>
    BY <1>0, <1>3, AlertEffect
  <2>2. \A u \in Task : Tried(u) => Tried(u)'
    BY <2>1 DEF Tried, RemCmd, ShouldRemediate
  <2> QED BY <2>1, <2>2 DEF Loop, Kept, Active, Past
<1>4. ASSUME NEW t \in Task, Store(t) \/ StoreNothing(t) \/ Abort(t) PROVE Loop'
  <2>1. /\ \A u \in Task \ {t} : task'[u] = task[u] /\ task[u].pc = "idle"
        /\ task'[t].pc = "idle" /\ task[t].pc # "idle"
    BY <1>0, <1>4, EndTask DEF Store, StoreNothing, Abort, IdleTask, Active
  <2>2. ASSUME ~Kept', fixes' <= 1 + unrecorded' PROVE Loop'
    BY <2>1, <2>2 DEF Loop, Active
  <2>3. ASSUME UNCHANGED observed, Kept => stored'.rem # "skipped" PROVE Loop'
    BY <2>1, <2>3 DEF Loop, Kept, Active, Past
  <2>4. CASE Store(t) /\ task[t].eval = "failure"
    <3>1. stored'.rem = task[t].rem /\ UNCHANGED observed /\ task[t].pc = "alerted"
      BY <2>4 DEF Store
    <3>2. Kept => stored'.rem # "skipped"
      BY <2>4, <3>1 DEF Loop, Past
    <3> QED BY <2>3, <3>1, <3>2
  <2>5. CASE Store(t) /\ task[t].eval # "failure"
    <3>1. fixes' = 0 /\ unrecorded' = 0
      BY <2>5 DEF Store
    <3> QED BY <2>2, <3>1 DEF Kept
  <2>6. CASE StoreNothing(t)
    <3>1. stored' = stored /\ UNCHANGED observed /\ RemCmd(t) # "on"
      BY <2>6 DEF StoreNothing, RemCmd, ShouldRemediate
    <3>2. \A u \in Task : ~Tried(u)
      BY <2>1, <3>1 DEF Tried
    <3> QED BY <2>3, <3>1, <3>2 DEF Loop
  \* The remediation that only the aborted evaluation knew of is written off.
  <2>7. CASE Abort(t) /\ Tried(t)
    <3>1. fixes' = fixes /\ unrecorded' = unrecorded + 1
      BY <2>7 DEF Abort
    <3> QED BY <1>0, <2>2, <3>1 DEF Kept, Loop
  <2>8. CASE Abort(t) /\ ~Tried(t)
    <3>1. stored' = stored /\ UNCHANGED observed
      BY <2>8 DEF Abort
    <3>2. \A u \in Task : ~Tried(u)
      BY <2>1, <2>8 DEF Tried
    <3> QED BY <2>3, <3>1, <3>2 DEF Loop
  <2> QED BY <1>4, <2>4, <2>5, <2>6, <2>7, <2>8
<1>5. ASSUME NEW t \in Task, Remediation(t) PROVE Loop'
  BY <1>5, LoopRemediation
<1> QED BY <1>1, <1>2, <1>3, <1>4, <1>5 DEF Next, vars, UpdateProfile, AdvisoryClosedByUser, ListGrows

\* While the rule keeps failing, its issue or pull request is opened once, and once
\* more for each evaluation that was aborted after it had remediated: with every
\* fault and every edit of the profile that does not turn the remediation off.
THEOREM NoRemediationLoopHolds == KeepsRemediating => (Spec => []NoRemediationLoop)
<1> SUFFICES ASSUME KeepsRemediating PROVE Spec => []NoRemediationLoop
  OBVIOUS
<1>1. Init => Loop
  BY DEF Init, Loop, Kept, Active, Past, IdleTask
<1>2. IInv /\ (ByTicket => Loop) /\ [Next]_vars => (ByTicket => Loop)'
  <2> SUFFICES ASSUME IInv, ByTicket => Loop, [Next]_vars, ByTicket' PROVE Loop'
    OBVIOUS
  <2>1. ByTicket
    BY TypeKept DEF ByTicket, RemediateType, vars
  <2> QED BY <2>1, LoopStep
<1>3. (ByTicket => Loop) => NoRemediationLoop
  BY DEF Loop, NoRemediationLoop
<1> QED BY <1>1, <1>2, <1>3, Invariant, PTL DEF Spec

-----------------------------------------------------------------------------
(* The alert follows the evaluation *)

\* A step after which nothing has gone wrong is one that does not fail, from a
\* state in which nothing had.
LEMMA UndisturbedBefore ==
    ASSUME IInv, [Next]_vars, Undisturbed'
    PROVE  Undisturbed /\ ~Fault
<1> USE DEF external, reviewing, observed
<1>0. TypeOK /\ ReviewKnown /\ faults \in Nat /\ faults' = 0 /\ steady'
  BY DEF IInv, TypeOK, Undisturbed
<1>1. ~Fault
  BY <1>0 DEF Fault
<1>2. ASSUME NEW t \in Task, NEW outcome \in Outcome, Evaluate(t, outcome) PROVE Undisturbed
  BY <1>0, <1>2 DEF Evaluate, Undisturbed
<1>3. ASSUME NEW t \in Task, Remediation(t) PROVE Undisturbed
  <2>1. faults' \in faults..MaxFaults /\ steady' = steady
    BY <1>0, <1>3, RemediationEffect DEF Remediated
  <2> QED BY <1>0, <2>1 DEF Undisturbed
<1>4. ASSUME NEW t \in Task, Alert(t) PROVE Undisturbed
  <2>1. faults' \in faults..MaxFaults /\ steady' = steady
    BY <1>0, <1>4, AlertEffect
  <2> QED BY <1>0, <2>1 DEF Undisturbed
<1>5. ASSUME NEW t \in Task, Store(t) \/ StoreNothing(t) \/ Abort(t) PROVE Undisturbed
  BY <1>0, <1>1, <1>5 DEF Store, StoreNothing, Abort, Undisturbed
<1>6. ASSUME NEW i \in ID, AdvisoryClosedByUser(i) PROVE Undisturbed
  BY <1>1, <1>6 DEF AdvisoryClosedByUser
<1>7. CASE UpdateProfile \/ ListGrows \/ UNCHANGED vars
  BY <1>0, <1>1, <1>7 DEF UpdateProfile, ListGrows, vars, Undisturbed
<1> QED BY <1>1, <1>2, <1>3, <1>4, <1>5, <1>6, <1>7 DEF Next

\* What a record says of its alert is what is there at the provider.
AlertTrue(alert, meta) ==
    IF alert = "on" THEN advisories \cup reviews = {meta}
    ELSE meta = None /\ advisories = {} /\ reviews = dismissed /\ \A i, j \in reviews : i = j

\* The alert is the one the evaluation calls for.
AlertFits(eval, rem, alert) ==
    /\ eval = "success" => alert # "on"
    /\ eval \in {"failure", "error"} /\ rem # "success" => alert = "on"

\* The evaluation has dealt with its alert and will store what it did.
Spoken(t) == task[t].pc = "alerted" /\ task[t].eval # "silent"

\* The record is true of the provider, or the evaluation that will replace it is.
Mirror ==
    /\ hidden = {} /\ long = FALSE
    /\ ByAdvisory => reviews = {}
    /\ AlertFits(stored.eval, stored.rem, stored.alert)
    /\ stored.eval = "none" => stored.alert # "on"
    /\ (\A t \in Task : ~Spoken(t)) => AlertTrue(stored.alert, stored.alertMeta)
    /\ \A t \in Task : Active(t) => task[t].alertOpt = "on" /\ task[t].eval # "skipped"
    /\ \A t \in Task : task[t].pc = "found" => (task[t].review = None => reviews = {})
    /\ \A t \in Task : Spoken(t) => /\ AlertTrue(task[t].alert, task[t].alertMeta)
                                    /\ AlertFits(task[t].eval, task[t].rem, task[t].alert)

\* The alert is raised, withdrawn or kept as the evaluation calls for.
LEMMA AlertDecision ==
    ASSUME NEW t \in Task, task[t].prev \in Record, task[t].eval \in {"success", "failure", "error"}
    PROVE  /\ AlertCmd(t) = "on" => task[t].prev.alert # "on" /\ AlertFits(task[t].eval, task[t].rem, "on")
           /\ AlertCmd(t) = "off" => AlertFits(task[t].eval, task[t].rem, "off")
           /\ AlertCmd(t) = "do_nothing" /\ (task[t].prev.eval = "none" => task[t].prev.alert # "on") =>
                AlertFits(task[t].eval, task[t].rem, PrevAlert(task[t].prev))
<1> DEFINE instant == RemediateType # "pull_request" /\ task[t].rem = "success"
           raise == ~instant /\ task[t].eval \in {"error", "failure"} /\ task[t].prev.alert # "on"
           withdraw == (instant \/ task[t].eval = "success") /\ task[t].prev.alert # "off"
<1>1. AlertCmd(t) = CASE raise -> "on" [] withdraw -> "off" [] OTHER -> "do_nothing"
  BY DEF AlertCmd, ShouldAlert
<1>2. raise => ~withdraw
  OBVIOUS
<1>3. AlertCmd(t) = IF raise THEN "on" ELSE IF withdraw THEN "off" ELSE "do_nothing"
  BY <1>1, <1>2
<1> QED BY <1>3 DEF AlertFits, PrevAlert

\* The alert makes the evaluation's result true of the provider.
LEMMA MirrorAlert ==
    ASSUME Undisturbed, ~Fault, IInv, Mirror, NEW t \in Task, Alert(t)
    PROVE  Mirror'
<1> USE DEF external, reviewing
<1>0. /\ task \in [Task -> TaskState] /\ task[t] \in TaskState /\ TypeOK /\ ReviewKnown /\ ~Fault
      /\ task[t].prev \in Record /\ None \notin ID /\ reviews \subseteq ID /\ dismissed \subseteq reviews
      /\ task[t].review \in reviews \cup {None} /\ hidden = {} /\ long = FALSE
      /\ (ByReview => advisories = {}) /\ (task[t].pc = "found" => ByReview /\ task[t].eval # "silent")
      /\ ByReview = ~ByAdvisory
  <2>1. profile.alertType \in {"security_advisory", "pull_request_comment"}
    BY ActionsAssumption DEF IInv, TypeOK, Profile, AlertType
  <2> QED BY <2>1, ActionsAssumption DEF IInv, TypeOK, TaskState, ReviewKnown, OneWay, Named, Mirror,
             ByReview, ByAdvisory
<1>1. /\ \A u \in Task \ {t} : task'[u] = task[u]
      /\ task[t].pc \in {"remediated", "found"} /\ task'[t].pc \in {"found", "alerted"}
      /\ task'[t].eval = task[t].eval /\ task'[t].alertOpt = task[t].alertOpt /\ task'[t].rem = task[t].rem
      /\ UNCHANGED <<profile, stored, long>>
  BY <1>0, AlertEffect
<1>2. (\A u \in Task \ {t} : task[u].pc = "idle") /\ task[t].prev = stored
  BY <1>1 DEF IInv, Alone, Active, Undisturbed
\* Nobody has spoken yet: the record is true.
<1>3. /\ AlertTrue(stored.alert, stored.alertMeta) /\ task[t].alertOpt = "on" /\ task[t].eval # "skipped"
      /\ (stored.eval = "none" => stored.alert # "on")
  BY <1>1, <1>2 DEF Mirror, Spoken, Active
<1>4. task[t].eval # "silent" => task[t].eval \in {"success", "failure", "error"}
  BY <1>0, <1>3 DEF TaskState, EvalOutcome
<1>5. task[t].eval # "silent" =>
        /\ AlertCmd(t) = "on" => stored.alert # "on" /\ AlertFits(task[t].eval, task[t].rem, "on")
        /\ AlertCmd(t) = "off" => AlertFits(task[t].eval, task[t].rem, "off")
        /\ AlertCmd(t) = "do_nothing" => AlertFits(task[t].eval, task[t].rem, PrevAlert(stored))
  BY <1>0, <1>2, <1>3, <1>4, AlertDecision
<1>6. \A cmd : AlertStep(t, cmd) => task[t].eval # "silent" /\ AlertCmd(t) = cmd
  BY DEF AlertStep, Skippable
\* It is enough that what the evaluation says afterwards is true.
<1>7. ASSUME NEW status \in AlertStatus, NEW meta \in ID \cup {None}, Alerted(t, status, meta),
             hidden' = {}, ByAdvisory => reviews' = {},
             AlertTrue(status, meta)', AlertFits(task[t].eval, task[t].rem, status), task[t].eval # "silent"
      PROVE  Mirror'
  <2>1. task'[t].pc = "alerted" /\ task'[t].alert = status /\ task'[t].alertMeta = meta
    BY <1>0, <1>7, AlertedTask
  <2>2. Spoken(t)'
    BY <1>1, <1>7, <2>1 DEF Spoken
  <2>3. \A u \in Task : Spoken(u)' => u = t
    BY <1>1, <1>2 DEF Spoken
  <2>4. AlertTrue(task[t].alert, task[t].alertMeta)' /\ AlertFits(task[t].eval, task[t].rem, task[t].alert)'
    BY <1>1, <1>7, <2>1 DEF AlertTrue, AlertFits
  <2>5. \A u \in Task : Active(u)' => task'[u].alertOpt = "on" /\ task'[u].eval # "skipped"
    BY <1>1, <1>2, <1>3 DEF Active
  <2>6. \A u \in Task : task'[u].pc # "found"
    BY <1>1, <1>2, <2>1
  <2>7. AlertFits(stored.eval, stored.rem, stored.alert)' /\ (stored'.eval = "none" => stored'.alert # "on")
    BY <1>1 DEF Mirror, AlertFits
  <2>8. (ByAdvisory => reviews = {})' /\ (hidden = {} /\ long = FALSE)'
    BY <1>0, <1>1, <1>7 DEF ByAdvisory
  <2> QED BY <2>2, <2>3, <2>4, <2>5, <2>6, <2>7, <2>8 DEF Mirror
<1>8. CASE SkipAlert(t)
  <2>1. task[t].eval = "silent" /\ UNCHANGED <<profile, stored, external>>
    BY <1>3, <1>8 DEF SkipAlert, Skippable
  <2>2. \A u \in Task : ~Spoken(u)'
    BY <1>1, <1>2, <2>1 DEF Spoken
  <2>3. \A u \in Task : task'[u].pc # "found"
    <3>1. task'[t].pc = "alerted"
      BY <1>0, <1>8, AlertedTask DEF SkipAlert, AlertStatus
    <3> QED BY <1>1, <1>2, <3>1
  <2>4. AlertTrue(stored.alert, stored.alertMeta)' /\ AlertFits(stored.eval, stored.rem, stored.alert)'
    BY <1>3, <2>1 DEF AlertTrue, AlertFits, Mirror
  <2>5. \A u \in Task : Active(u)' => task'[u].alertOpt = "on" /\ task'[u].eval # "skipped"
    BY <1>1, <1>2, <1>3 DEF Active
  <2> QED BY <2>1, <2>2, <2>3, <2>4, <2>5 DEF Mirror, ByAdvisory
<1>9. CASE OpenAdvisory(t)
  <2>1. PICK i \in ID : advisories' = advisories \cup {i} /\ Alerted(t, "on", i)
    BY <1>0, <1>9 DEF OpenAdvisory, CallFails
  <2>2. stored.alert # "on" /\ AlertFits(task[t].eval, task[t].rem, "on") /\ task[t].eval # "silent"
    BY <1>5, <1>6, <1>9 DEF OpenAdvisory
  <2>3. advisories = {} /\ reviews = {} /\ reviews' = {} /\ hidden' = {}
    BY <1>0, <1>3, <1>9, <2>2 DEF AlertTrue, OpenAdvisory, Mirror
  <2>4. AlertTrue("on", i)'
    BY <2>1, <2>3 DEF AlertTrue
  <2> QED BY <1>7, <2>1, <2>2, <2>3, <2>4 DEF AlertStatus
<1>10. CASE CloseAdvisory(t)
  <2>1. advisories' = advisories \ {stored.alertMeta} /\ Alerted(t, "off", None)
    BY <1>0, <1>2, <1>10 DEF CloseAdvisory, CallFails
  <2>2. AlertFits(task[t].eval, task[t].rem, "off") /\ task[t].eval # "silent"
    BY <1>5, <1>6, <1>10 DEF CloseAdvisory
  <2>3. reviews = {} /\ dismissed = {} /\ reviews' = {} /\ hidden' = {} /\ dismissed' = {}
    BY <1>0, <1>10 DEF CloseAdvisory, Mirror
  <2>4. advisories' = {}
    BY <1>3, <2>1, <2>3 DEF AlertTrue
  <2>5. AlertTrue("off", None)'
    BY <2>3, <2>4 DEF AlertTrue
  <2> QED BY <1>7, <2>1, <2>2, <2>3, <2>5 DEF AlertStatus
<1>11. CASE FindReview(t)
  <2>1. PICK r \in Found(t) : task' = [task EXCEPT ![t].pc = "found", ![t].review = r]
    BY <1>0, <1>11 DEF FindReview, CallFails
  <2>2. task'[t].pc = "found" /\ task'[t].review = r
    BY <1>0, <2>1 DEF TaskState
  <2>3. r = None => reviews = {}
    BY <1>0, <2>1 DEF Found
  <2>4. UNCHANGED <<advisories, reviewing>>
    BY <1>11 DEF FindReview
  <2>5. \A u \in Task : ~Spoken(u)'
    BY <1>1, <1>2, <2>2 DEF Spoken
  <2>6. \A u \in Task : task'[u].pc = "found" => (task'[u].review = None => reviews' = {})
    BY <1>1, <1>2, <2>2, <2>3, <2>4
  <2>7. AlertTrue(stored.alert, stored.alertMeta)' /\ AlertFits(stored.eval, stored.rem, stored.alert)'
    BY <1>1, <1>3, <2>4 DEF AlertTrue, AlertFits, Mirror
  <2>8. \A u \in Task : Active(u)' => task'[u].alertOpt = "on" /\ task'[u].eval # "skipped"
    BY <1>1, <1>2, <1>3 DEF Active
  <2> QED BY <1>1, <2>4, <2>5, <2>6, <2>7, <2>8 DEF Mirror, ByAdvisory
<1>12. CASE PublishReview(t)
  <2>1. /\ stored.alert # "on" /\ AlertFits(task[t].eval, task[t].rem, "on") /\ task[t].eval # "silent"
        /\ ByReview /\ ~ByAdvisory /\ advisories' = {}
        /\ (task[t].review = None => reviews = {})
    BY <1>0, <1>5, <1>12 DEF PublishReview, Mirror
  <2>2. \A i, j \in reviews : i = j
    BY <1>3, <2>1 DEF AlertTrue
  <2>3. PICK i \in ID : Alerted(t, "on", i) /\ reviews' = {i} /\ hidden' = {}
    <3>1. CASE task[t].review # None
      BY <1>0, <1>12, <2>2, <3>1 DEF PublishReview, CallFails
    <3>2. CASE task[t].review = None
      BY <1>0, <1>12, <2>1, <3>2 DEF PublishReview, CallFails
    <3> QED BY <3>1, <3>2
  <2>4. AlertTrue("on", i)'
    BY <2>1, <2>3 DEF AlertTrue
  <2> QED BY <1>7, <2>1, <2>3, <2>4 DEF AlertStatus
<1>13. CASE DismissReview(t)
  <2>1. /\ AlertFits(task[t].eval, task[t].rem, "off") /\ task[t].eval # "silent"
        /\ ByReview /\ ~ByAdvisory /\ advisories = {} /\ UNCHANGED <<advisories, reviews, hidden>>
        /\ (task[t].review = None => reviews = {})
    BY <1>0, <1>5, <1>13 DEF DismissReview, Mirror
  <2>2. dismissed' = dismissed \cup ({task[t].review} \ {None}) /\ Alerted(t, "off", None)
    BY <1>0, <1>13 DEF DismissReview, CallFails
  <2>3. \A i, j \in reviews : i = j
    BY <1>3, <2>1 DEF AlertTrue
  <2>4. dismissed' = reviews
    BY <1>0, <2>1, <2>2, <2>3
  <2>5. AlertTrue("off", None)'
    BY <2>1, <2>3, <2>4 DEF AlertTrue
  <2> QED BY <1>0, <1>7, <2>1, <2>2, <2>5 DEF AlertStatus
<1>14. CASE AlertDry(t)
  BY <1>3, <1>14 DEF AlertDry
<1>15. CASE AlertDoNothing(t)
  <2>1. PICK status \in AlertStatus : status = PrevAlert(stored)
    BY <1>0, <1>2 DEF PrevAlert, Record, AlertStatus
  <2>2. /\ Alerted(t, status, stored.alertMeta) /\ UNCHANGED <<advisories, reviewing>>
        /\ task[t].eval # "silent" /\ AlertFits(task[t].eval, task[t].rem, status)
    BY <1>2, <1>5, <1>6, <1>15, <2>1 DEF AlertDoNothing
  <2>3. AlertTrue(status, stored.alertMeta)'
    BY <1>1, <1>3, <2>1, <2>2 DEF AlertTrue, PrevAlert
  <2>4. stored.alertMeta \in ID \cup {None} /\ stored'.alertMeta = stored.alertMeta
    BY <1>0, <1>1, <1>2 DEF Record
  <2>5. hidden' = {} /\ (ByAdvisory => reviews' = {})
    BY <1>0, <2>2 DEF Mirror
  <2> QED BY <1>7, <2>2, <2>3, <2>4, <2>5
<1>16. CASE AlertParamsFail(t)
  BY <1>0, <1>16 DEF AlertParamsFail, CallFails
<1> QED BY <1>8, <1>9, <1>10, <1>11, <1>12, <1>13, <1>14, <1>15, <1>16 DEF Alert

\* Every step keeps the record, or the evaluation that will replace it, true.
LEMMA MirrorStep ==
    ASSUME Undisturbed, ~Fault, IInv, Mirror, [Next]_vars, steady'
    PROVE  Mirror'
<1> USE DEF external, reviewing
<1>0. /\ task \in [Task -> TaskState] /\ TypeOK /\ ReviewKnown /\ ~Fault /\ profile \in Profile
      /\ \A t, u \in Task : Active(t) /\ Active(u) => t = u
  BY DEF IInv, TypeOK, Alone, Undisturbed
\* Steps that touch neither the provider nor what was said.
<1>1. ASSUME UNCHANGED <<stored, advisories, reviews, dismissed, long, hidden>>,
             profile'.alertType = profile.alertType,
             \A t \in Task : /\ Spoken(t)' = Spoken(t)
                             /\ Spoken(t) => task'[t] = task[t]
                             /\ Active(t)' => task'[t].alertOpt = "on" /\ task'[t].eval # "skipped"
                             /\ task'[t].pc = "found" => task'[t] = task[t]
      PROVE  Mirror'
  <2>1. \A t \in Task : Spoken(t)' => /\ AlertTrue(task[t].alert, task[t].alertMeta)'
                                      /\ AlertFits(task[t].eval, task[t].rem, task[t].alert)'
    BY <1>1 DEF Mirror, AlertTrue, AlertFits
  <2>2. (\A t \in Task : ~Spoken(t))' => AlertTrue(stored.alert, stored.alertMeta)'
    BY <1>1 DEF Mirror, AlertTrue
  <2>3. AlertFits(stored.eval, stored.rem, stored.alert)' /\ (stored'.eval = "none" => stored'.alert # "on")
    BY <1>1 DEF Mirror, AlertFits
  <2>4. hidden' = {} /\ long' = FALSE /\ (ByAdvisory => reviews = {})'
    BY <1>1 DEF Mirror, ByAdvisory
  <2>5. \A t \in Task : task'[t].pc = "found" => (task'[t].review = None => reviews' = {})
    BY <1>1 DEF Mirror
  <2> QED BY <1>1, <2>1, <2>2, <2>3, <2>4, <2>5 DEF Mirror
<1>2. ASSUME UNCHANGED <<task, stored, advisories, reviews, dismissed, long, hidden>>,
             profile'.alertType = profile.alertType
      PROVE  Mirror'
  <2>1. \A t \in Task : /\ Spoken(t)' = Spoken(t)
                        /\ Active(t)' => task'[t].alertOpt = "on" /\ task'[t].eval # "skipped"
    BY <1>2 DEF Mirror, Spoken, Active
  <2> QED BY <1>1, <1>2, <2>1
<1>3. ASSUME NEW t \in Task, NEW outcome \in Outcome, Evaluate(t, outcome) PROVE Mirror'
  <2>1. /\ \A u \in Task \ {t} : task'[u] = task[u]
        /\ task[t].pc = "idle" /\ task'[t].pc = "evaluated"
        /\ task'[t].alertOpt = profile.alert /\ task'[t].eval = outcome
    BY <1>0, <1>3, EvaluateTask
  <2>2. profile.alert = "on" /\ outcome # "skipped"
    BY <1>3 DEF Evaluate
  <2>3. \A u \in Task : /\ Spoken(u)' = Spoken(u)
                        /\ Spoken(u) => task'[u] = task[u]
                        /\ Active(u)' => task'[u].alertOpt = "on" /\ task'[u].eval # "skipped"
                        /\ task'[u].pc = "found" => task'[u] = task[u]
    BY <2>1, <2>2 DEF Mirror, Spoken, Active
  <2> QED BY <1>1, <1>3, <2>3 DEF Evaluate
<1>4. ASSUME NEW t \in Task, Remediation(t) PROVE Mirror'
  <2>1. /\ task[t].pc = "evaluated" /\ UNCHANGED <<profile, stored, advisories, reviewing>>
        /\ \E status \in RemStatus, meta \in ID \cup {None} : Remediated(t, status, meta)
    BY <1>0, <1>4, RemediationEffect
  <2>2. /\ \A u \in Task \ {t} : task'[u] = task[u]
        /\ task'[t].pc = "remediated" /\ task'[t].eval = task[t].eval /\ task'[t].alertOpt = task[t].alertOpt
    BY <1>0, <2>1, RemediatedTask
  <2>3. \A u \in Task : /\ Spoken(u)' = Spoken(u)
                        /\ Spoken(u) => task'[u] = task[u]
                        /\ Active(u)' => task'[u].alertOpt = "on" /\ task'[u].eval # "skipped"
                        /\ task'[u].pc = "found" => task'[u] = task[u]
    BY <2>1, <2>2 DEF Mirror, Spoken, Active
  <2> QED BY <1>1, <2>1, <2>3
<1>5. ASSUME NEW t \in Task, Alert(t) PROVE Mirror'
  BY <1>5, MirrorAlert
<1>6. ASSUME NEW t \in Task, StoreNothing(t) PROVE Mirror'
  <2>1. (\A u \in Task \ {t} : task'[u] = task[u]) /\ task'[t].pc = "idle" /\ task[t].eval = "silent"
    BY <1>0, <1>6, EndTask DEF StoreNothing, IdleTask
  <2>2. \A u \in Task : /\ Spoken(u)' = Spoken(u)
                        /\ Spoken(u) => task'[u] = task[u]
                        /\ Active(u)' => task'[u].alertOpt = "on" /\ task'[u].eval # "skipped"
                        /\ task'[u].pc = "found" => task'[u] = task[u]
    BY <2>1 DEF Mirror, Spoken, Active
  <2> QED BY <1>1, <1>6, <2>2 DEF StoreNothing
\* What the evaluation said becomes the record.
<1>7. ASSUME NEW t \in Task, Store(t) PROVE Mirror'
  <2>1. /\ stored'.eval = task[t].eval /\ stored'.rem = task[t].rem /\ stored'.alert = task[t].alert
        /\ stored'.alertMeta = task[t].alertMeta /\ UNCHANGED <<profile, external>>
        /\ task[t].pc = "alerted" /\ task[t].eval # "silent"
    BY <1>7 DEF Store
  <2>2. /\ \A u \in Task \ {t} : task'[u] = task[u] /\ task[u].pc = "idle"
        /\ task'[t].pc = "idle"
    BY <1>0, <1>7, <2>1, EndTask DEF Store, IdleTask, Active
  <2>3. AlertTrue(task[t].alert, task[t].alertMeta) /\ AlertFits(task[t].eval, task[t].rem, task[t].alert)
    BY <2>1 DEF Mirror, Spoken
  <2>4. AlertTrue(stored.alert, stored.alertMeta)' /\ AlertFits(stored.eval, stored.rem, stored.alert)'
    BY <2>1, <2>3 DEF AlertTrue, AlertFits
  <2>5. stored'.eval # "none"
    BY <1>0, <2>1 DEF TaskState, EvalOutcome
  <2>6. \A u \in Task : task'[u].pc = "idle"
    BY <2>2
  <2>7. hidden' = {} /\ long' = FALSE /\ (ByAdvisory => reviews = {})'
    BY <2>1 DEF Mirror, ByAdvisory
  <2> QED BY <2>4, <2>5, <2>6, <2>7 DEF Mirror, Spoken, Active
<1>8. ~ListGrows /\ (\A i \in ID : ~AdvisoryClosedByUser(i)) /\ (\A t \in Task : ~Abort(t))
  BY <1>0 DEF ListGrows, AdvisoryClosedByUser, Abort
<1>9. CASE UpdateProfile
  BY <1>2, <1>9 DEF UpdateProfile
<1>10. CASE UNCHANGED vars
  BY <1>2, <1>10 DEF vars
<1> QED BY <1>3, <1>4, <1>5, <1>6, <1>7, <1>8, <1>9, <1>10 DEF Next

\* Until a call fails, evaluations overlap, one is skipped or finds an action off, the
\* advisory or the review is there exactly when the latest record calls for it:
\* whatever the settings, the remediation and the numbers.
THEOREM AlertMirrorsEvaluationHolds == Spec => []AlertMirrorsEvaluation
<1> DEFINE J == Undisturbed => Mirror
<1>1. Init => J
  BY DEF Init, Mirror, AlertTrue, AlertFits, Spoken, Active, IdleTask, NoRecord
<1>2. IInv /\ J /\ [Next]_vars => J'
  <2> SUFFICES ASSUME IInv, J, [Next]_vars, Undisturbed' PROVE Mirror'
    OBVIOUS
  <2>1. Undisturbed /\ ~Fault
    BY UndisturbedBefore
  <2>2. steady'
    BY DEF Undisturbed
  <2> QED BY <2>1, <2>2, MirrorStep
<1>3. J => AlertMirrorsEvaluation
  <2> SUFFICES ASSUME Mirror, Idle PROVE AlertMirrorsEvaluation
    BY DEF AlertMirrorsEvaluation
  <2>1. AlertTrue(stored.alert, stored.alertMeta) /\ AlertFits(stored.eval, stored.rem, stored.alert)
    BY DEF Mirror, Idle, Spoken
  <2> QED BY <2>1 DEF AlertTrue, AlertFits, AlertMirrorsEvaluation
<1> QED BY <1>1, <1>2, <1>3, Invariant, PTL DEF Spec

-----------------------------------------------------------------------------
(* The issue or pull request follows the evaluation *)

TicketTrue(rem, meta) ==
    IF rem = "pending" THEN tickets = {meta} ELSE rem = "skipped" /\ meta = None /\ tickets = {}

TicketFits(eval, rem) ==
    /\ eval \in {"success", "error"} => rem = "skipped"
    /\ eval = "failure" => rem = "pending"

\* The evaluation has dealt with its remediation and will store what it did.
Judged(t) == Past(t) /\ task[t].eval # "silent"

TicketMirror ==
    ByTicket =>
      /\ TicketFits(stored.eval, stored.rem)
      /\ (\A t \in Task : ~Judged(t)) => TicketTrue(stored.rem, stored.remMeta)
      /\ \A t \in Task : Active(t) => task[t].remOpt = "on" /\ task[t].eval # "skipped"
      /\ \A t \in Task : Judged(t) => /\ TicketTrue(task[t].rem, task[t].remMeta)
                                      /\ TicketFits(task[t].eval, task[t].rem)

\* The remediation opens, keeps or closes as the evaluation calls for.
LEMMA TicketRemediation ==
    ASSUME Undisturbed, ~Fault, IInv, TicketMirror, NEW t \in Task, Remediation(t)
    PROVE  TicketMirror'
<1> USE DEF external
<1>0. /\ task \in [Task -> TaskState] /\ task[t] \in TaskState /\ task[t].prev \in Record /\ TypeOK /\ ~Fault
  BY DEF IInv, TypeOK, TaskState
<1>1. /\ task[t].pc = "evaluated" /\ UNCHANGED <<profile, stored>>
      /\ \E status \in RemStatus, meta \in ID \cup {None} : Remediated(t, status, meta)
  BY <1>0, RemediationEffect
<1>2. /\ \A u \in Task \ {t} : task'[u] = task[u] /\ task[u].pc = "idle"
      /\ task'[t].pc = "remediated" /\ task'[t].eval = task[t].eval /\ task'[t].remOpt = task[t].remOpt
      /\ task[t].prev = stored
  BY <1>0, <1>1, RemediatedTask DEF IInv, Alone, Active, Undisturbed
<1> SUFFICES ASSUME ByTicket PROVE TicketMirror'
  BY <1>1 DEF TicketMirror, ByTicket, RemediateType
<1>3. /\ TicketTrue(stored.rem, stored.remMeta) /\ TicketFits(stored.eval, stored.rem)
      /\ task[t].remOpt = "on" /\ task[t].eval # "skipped"
  BY <1>1, <1>2 DEF TicketMirror, Judged, Past, Active
<1>4. /\ TicketFits(stored.eval, stored.rem)'
      /\ \A u \in Task : Active(u)' => task'[u].remOpt = "on" /\ task'[u].eval # "skipped"
      /\ \A u \in Task \ {t} : ~Judged(u)'
  BY <1>1, <1>2, <1>3 DEF TicketFits, Active, Judged, Past
<1>5. ASSUME NEW status \in RemStatus, NEW meta \in ID \cup {None}, Remediated(t, status, meta),
             TicketTrue(status, meta)', TicketFits(task[t].eval, status), task[t].eval # "silent"
      PROVE  TicketMirror'
  <2>1. task'[t].rem = status /\ task'[t].remMeta = meta
    BY <1>0, <1>5, RemediatedTask
  <2>2. TicketTrue(task[t].rem, task[t].remMeta)' /\ TicketFits(task[t].eval, task[t].rem)'
    BY <1>2, <1>5, <2>1 DEF TicketTrue, TicketFits
  <2>3. Judged(t)'
    BY <1>2, <1>5 DEF Judged, Past
  <2> QED BY <1>4, <2>2, <2>3 DEF TicketMirror
<1>6. \A cmd : RemediateStep(t, cmd) =>
        /\ task[t].eval \in {"success", "error", "failure"}
        /\ cmd = "on" => task[t].eval = "failure" /\ stored.rem = "skipped"
        /\ cmd = "off" => task[t].eval \in {"success", "error"} /\ stored.rem # "skipped"
        /\ cmd = "do_nothing" => (task[t].eval = "failure" <=> stored.rem # "skipped")
  <2>1. task[t].eval \in {"success", "error", "failure", "silent"}
    BY <1>0, <1>3 DEF TaskState, EvalOutcome
  <2> QED BY <1>2, <2>1 DEF RemediateStep, Skippable, RemCmd, ShouldRemediate
<1>7. CASE SkipRemediation(t)
  <2>1. task[t].eval = "silent" /\ tickets' = tickets
    BY <1>3, <1>7 DEF SkipRemediation, Skippable
  <2>2. ~Judged(t)'
    BY <1>2, <2>1 DEF Judged
  <2>3. TicketTrue(stored.rem, stored.remMeta)'
    BY <1>1, <1>3, <2>1 DEF TicketTrue
  <2> QED BY <1>4, <2>2, <2>3 DEF TicketMirror
<1>8. CASE RemediateByTicket(t)
  <2>1. task[t].eval = "failure" /\ stored.rem = "skipped"
    BY <1>6, <1>8 DEF RemediateByTicket
  <2>2. tickets = {} /\ stored.remMeta = None
    BY <1>3, <2>1 DEF TicketTrue
  <2>3. Reusable(t) = {}
    BY <1>2, <2>2 DEF Reusable
  <2>4. PICK i \in ID : tickets' = tickets \cup {i} /\ Remediated(t, "pending", i)
    BY <1>0, <1>8, <2>3 DEF RemediateByTicket, CallFails
  <2>5. TicketTrue("pending", i)' /\ TicketFits(task[t].eval, "pending")
    BY <2>1, <2>2, <2>4 DEF TicketTrue, TicketFits
  <2> QED BY <1>5, <2>1, <2>4, <2>5 DEF RemStatus
<1>9. CASE RemediateCloseTicket(t)
  <2>1. task[t].eval \in {"success", "error"} /\ stored.rem # "skipped"
    BY <1>6, <1>9 DEF RemediateCloseTicket
  <2>2. tickets = {stored.remMeta}
    BY <1>3, <2>1 DEF TicketTrue
  <2>3. tickets' = {} /\ Remediated(t, "skipped", None)
    BY <1>0, <1>2, <1>9, <2>2 DEF RemediateCloseTicket, CallFails
  <2>4. TicketTrue("skipped", None)' /\ TicketFits(task[t].eval, "skipped")
    BY <2>1, <2>3 DEF TicketTrue, TicketFits
  <2> QED BY <1>5, <2>1, <2>3, <2>4 DEF RemStatus
<1>10. CASE RemediateTicketDry(t)
  BY <1>3, <1>10 DEF RemediateTicketDry
<1>11. CASE RemediateTicketDoNothing(t)
  <2>1. stored.rem \in RemStatus /\ stored.remMeta \in ID \cup {None} /\ tickets' = tickets
    BY <1>0, <1>2, <1>11 DEF Record, RemediateTicketDoNothing
  <2>2. PICK status \in RemStatus, meta \in ID \cup {None} : status = stored.rem /\ meta = stored.remMeta
    BY <2>1
  <2>3. Remediated(t, status, meta) /\ task[t].eval \in {"success", "error", "failure"}
    BY <1>2, <1>6, <1>11, <2>2 DEF RemediateTicketDoNothing
  <2>4. TicketTrue(status, meta)'
    BY <1>3, <2>1, <2>2 DEF TicketTrue
  <2>5. TicketFits(task[t].eval, status)
    BY <1>3, <1>6, <1>11, <2>2 DEF RemediateTicketDoNothing, TicketTrue, TicketFits
  <2> QED BY <1>5, <2>3, <2>4, <2>5
<1>12. CASE RemediateParamsFail(t)
  BY <1>0, <1>12 DEF RemediateParamsFail, CallFails
<1>13. ~RemediateByCall(t) /\ ~RemediateByCallNotOn(t)
  BY DEF ByTicket, RemediateByCall, RemediateByCallNotOn, ByCall
<1> QED BY <1>7, <1>8, <1>9, <1>10, <1>11, <1>12, <1>13 DEF Remediation

\* Every step keeps the record, or the evaluation that will replace it, true.
LEMMA TicketStep ==
    ASSUME Undisturbed, ~Fault, IInv, TicketMirror, [Next]_vars, steady'
    PROVE  TicketMirror'
<1> USE DEF external, reviewing
<1>0. /\ task \in [Task -> TaskState] /\ TypeOK /\ ReviewKnown /\ ~Fault /\ profile \in Profile
      /\ \A t, u \in Task : Active(t) /\ Active(u) => t = u
  BY DEF IInv, TypeOK, Alone, Undisturbed
<1>1. ASSUME UNCHANGED <<stored, tickets>>, profile'.type = profile.type,
             ByTicket => \A t \in Task :
                 /\ Judged(t)' = Judged(t)
                 /\ Judged(t) => /\ task'[t].eval = task[t].eval /\ task'[t].rem = task[t].rem
                                 /\ task'[t].remMeta = task[t].remMeta
                 /\ Active(t)' => task'[t].remOpt = "on" /\ task'[t].eval # "skipped"
      PROVE  TicketMirror'
  <2> SUFFICES ASSUME ByTicket PROVE TicketMirror'
    BY <1>1 DEF TicketMirror, ByTicket, RemediateType
  <2>1. TicketFits(stored.eval, stored.rem)'
    BY <1>1 DEF TicketMirror, TicketFits
  <2>2. (\A t \in Task : ~Judged(t))' => TicketTrue(stored.rem, stored.remMeta)'
    BY <1>1 DEF TicketMirror, TicketTrue
  <2>3. \A t \in Task : Judged(t)' => /\ TicketTrue(task[t].rem, task[t].remMeta)'
                                      /\ TicketFits(task[t].eval, task[t].rem)'
    BY <1>1 DEF TicketMirror, TicketTrue, TicketFits
  <2> QED BY <1>1, <2>1, <2>2, <2>3 DEF TicketMirror
<1>2. ASSUME UNCHANGED <<task, stored, tickets>>, profile'.type = profile.type PROVE TicketMirror'
  <2>1. ByTicket => \A t \in Task :
          /\ Judged(t)' = Judged(t)
          /\ Active(t)' => task'[t].remOpt = "on" /\ task'[t].eval # "skipped"
    BY <1>2 DEF TicketMirror, Judged, Past, Active
  <2> QED BY <1>1, <1>2, <2>1
<1>3. ASSUME NEW t \in Task, NEW outcome \in Outcome, Evaluate(t, outcome) PROVE TicketMirror'
  <2>1. /\ \A u \in Task \ {t} : task'[u] = task[u]
        /\ task[t].pc = "idle" /\ task'[t].pc = "evaluated" /\ task'[t].eval = outcome
        /\ task'[t].remOpt = (IF RemediateType = "none" THEN "off" ELSE profile.rem)
    BY <1>0, <1>3, EvaluateTask
  <2>2. (ByTicket => task'[t].remOpt = "on") /\ outcome # "skipped"
    BY <1>3, <2>1 DEF Evaluate, ByTicket
  <2>3. ByTicket => \A u \in Task :
          /\ Judged(u)' = Judged(u)
          /\ Judged(u) => task'[u] = task[u]
          /\ Active(u)' => task'[u].remOpt = "on" /\ task'[u].eval # "skipped"
    BY <2>1, <2>2 DEF TicketMirror, Judged, Past, Active
  <2> QED BY <1>1, <1>3, <2>3 DEF Evaluate
<1>4. ASSUME NEW t \in Task, Remediation(t) PROVE TicketMirror'
  BY <1>4, TicketRemediation
<1>5. ASSUME NEW t \in Task, Alert(t) PROVE TicketMirror'
  <2>1. /\ \A u \in Task \ {t} : task'[u] = task[u]
        /\ task[t].pc \in {"remediated", "found"} /\ task'[t].pc \in {"found", "alerted"}
        /\ task'[t].eval = task[t].eval /\ task'[t].rem = task[t].rem /\ task'[t].remMeta = task[t].remMeta
        /\ task'[t].remOpt = task[t].remOpt /\ UNCHANGED <<profile, stored, tickets>>
    BY <1>0, <1>5, AlertEffect
  <2>2. ByTicket => \A u \in Task :
          /\ Judged(u)' = Judged(u)
          /\ Judged(u) => /\ task'[u].eval = task[u].eval /\ task'[u].rem = task[u].rem
                          /\ task'[u].remMeta = task[u].remMeta
          /\ Active(u)' => task'[u].remOpt = "on" /\ task'[u].eval # "skipped"
    BY <2>1 DEF TicketMirror, Judged, Past, Active
  <2> QED BY <1>1, <2>1, <2>2
<1>6. ASSUME NEW t \in Task, StoreNothing(t) PROVE TicketMirror'
  <2>1. (\A u \in Task \ {t} : task'[u] = task[u]) /\ task'[t].pc = "idle" /\ task[t].eval = "silent"
    BY <1>0, <1>6, EndTask DEF StoreNothing, IdleTask
  <2>2. ByTicket => \A u \in Task :
          /\ Judged(u)' = Judged(u)
          /\ Judged(u) => task'[u] = task[u]
          /\ Active(u)' => task'[u].remOpt = "on" /\ task'[u].eval # "skipped"
    BY <2>1 DEF TicketMirror, Judged, Past, Active
  <2> QED BY <1>1, <1>6, <2>2 DEF StoreNothing
<1>7. ASSUME NEW t \in Task, Store(t) PROVE TicketMirror'
  <2>1. /\ stored'.eval = task[t].eval /\ stored'.rem = task[t].rem /\ stored'.remMeta = task[t].remMeta
        /\ UNCHANGED <<profile, tickets>> /\ task[t].pc = "alerted" /\ task[t].eval # "silent"
    BY <1>7 DEF Store
  <2>2. \A u \in Task : task'[u].pc = "idle"
    BY <1>0, <1>7, <2>1, EndTask DEF Store, IdleTask, Active
  <2> SUFFICES ASSUME ByTicket PROVE TicketMirror'
    BY <2>1 DEF TicketMirror, ByTicket, RemediateType
  <2>3. TicketTrue(task[t].rem, task[t].remMeta) /\ TicketFits(task[t].eval, task[t].rem)
    BY <2>1 DEF TicketMirror, Judged, Past
  <2>4. TicketTrue(stored.rem, stored.remMeta)' /\ TicketFits(stored.eval, stored.rem)'
    BY <2>1, <2>3 DEF TicketTrue, TicketFits
  <2> QED BY <2>2, <2>4 DEF TicketMirror, Judged, Past, Active
<1>8. ~ListGrows /\ (\A i \in ID : ~AdvisoryClosedByUser(i)) /\ (\A t \in Task : ~Abort(t))
  BY <1>0 DEF ListGrows, AdvisoryClosedByUser, Abort
<1>9. CASE UpdateProfile
  BY <1>2, <1>9 DEF UpdateProfile
<1>10. CASE UNCHANGED vars
  BY <1>2, <1>10 DEF vars
<1> QED BY <1>3, <1>4, <1>5, <1>6, <1>7, <1>8, <1>9, <1>10 DEF Next

\* Likewise the issue or pull request is open, and its number known, exactly while the
\* latest record is a failure.
THEOREM TicketMirrorsEvaluationHolds == Spec => []TicketMirrorsEvaluation
<1> DEFINE J == Undisturbed => TicketMirror
<1>1. Init => J
  BY DEF Init, TicketMirror, TicketTrue, TicketFits, Judged, Past, Active, IdleTask, NoRecord
<1>2. IInv /\ J /\ [Next]_vars => J'
  <2> SUFFICES ASSUME IInv, J, [Next]_vars, Undisturbed' PROVE TicketMirror'
    OBVIOUS
  <2>1. Undisturbed /\ ~Fault
    BY UndisturbedBefore
  <2>2. steady'
    BY DEF Undisturbed
  <2> QED BY <2>1, <2>2, TicketStep
<1>3. J => TicketMirrorsEvaluation
  <2> SUFFICES ASSUME TicketMirror, Idle, ByTicket PROVE TicketMirrorsEvaluation
    BY DEF TicketMirrorsEvaluation
  <2>1. TicketTrue(stored.rem, stored.remMeta) /\ TicketFits(stored.eval, stored.rem)
    BY DEF TicketMirror, Idle, Judged, Past
  <2> QED BY <2>1 DEF TicketTrue, TicketFits, TicketMirrorsEvaluation
<1> QED BY <1>1, <1>2, <1>3, Invariant, PTL DEF Spec

=============================================================================

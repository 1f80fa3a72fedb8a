---------------------------- MODULE RuleActions ----------------------------
(***************************************************************************)
(* One rule instance on one entity: evaluation, remediation, alert and the *)
(* record that the next evaluation starts from.                            *)
(*                                                                         *)
(* evaluateRule (internal/engine/executor.go) reads the latest record,     *)
(* evaluates, lets DoActions (internal/engine/actions/actions.go) run the  *)
(* remediation and then the alert, and stores a new record.  The actions   *)
(* talk to the provider: a remediation calls a REST API, or opens and      *)
(* closes an issue or a pull request; the alert opens and closes a         *)
(* security advisory, or reviews a pull request and dismisses the review.  *)
(* The numbers of what they opened are kept nowhere but in the metadata of *)
(* the record; a pull request is found again by its branch, a review by a  *)
(* mark in its text.                                                       *)
(*                                                                         *)
(* leaked, fixes, unrecorded and steady observe the run and guard nothing. *)
(***************************************************************************)
EXTENDS Naturals, FiniteSets

CONSTANTS
    Task,            \* evaluations that may be under way
    Overlap,         \* TRUE: two may be under way, after a lease ran out
    ID,              \* numbers of advisories, issues, pull requests (bound)
    None,            \* no number: the metadata is {}
    RemediateTypes,  \* types of remediation the rule type may have
    AlertTypes,      \* types of alert the rule type may have
    RemediateOpt,    \* values the profile's remediate option takes
    AlertOpt,        \* values the profile's alert option takes
    Outcome,         \* outcomes of an evaluation that happen
    MaxFaults        \* bound: failed calls, aborted evaluations, failed stores

Opt == {"on", "off", "dry_run"}
EvalOutcome == {"success", "failure", "error", "skipped", "silent"}
AlertType == {"security_advisory", "pull_request_comment"}
\* Not among them: a review of a pull request as a remediation, which remediate.go
\* builds from the type of alert below. "none": the rule type has no remediation.
RemediationType == {"rest", "gh_branch_protection", "issue", "pull_request", "none"}

ASSUME ActionsAssumption ==
    /\ Overlap \in BOOLEAN
    /\ None \notin ID
    /\ RemediateTypes \subseteq RemediationType
    /\ AlertTypes \subseteq AlertType
    /\ RemediateOpt \subseteq Opt
    /\ AlertOpt \subseteq Opt
    /\ Outcome \subseteq EvalOutcome
    /\ MaxFaults \in Nat

VARIABLES
    profile,      \* the options in the profile, and the rule type's remediation
    stored,       \* the latest record of the rule and the entity
    task,         \* evaluations under way
    advisories,   \* open security advisories of this rule
    tickets,      \* open issues or pull requests of this rule's remediation
    reviews,      \* reviews of the pull request with this rule's mark
    dismissed,    \* those that are dismissed
    long,         \* the list of reviews, everybody's, has a second page
    hidden,       \* reviews of this rule on the second page
    faults,       \* faults so far
    leaked,       \* advisories whose number was dropped at a known point
    fixes,        \* remediations tried since the last record that is not a failure
    unrecorded,   \* those of them whose evaluation was aborted
    steady        \* every evaluation decided, was alone and had both actions on

reviewing == <<reviews, dismissed, long, hidden>>
external == <<advisories, tickets, reviewing>>
observed == <<fixes, unrecorded, steady>>
vars == <<profile, stored, task, external, faults, leaked, observed>>

-----------------------------------------------------------------------------
(* Records *)

RemStatus   == {"success", "failure", "error", "skipped", "not_available", "pending"}
AlertStatus == {"on", "off", "error", "skipped", "not_available"}

Record ==
    [eval : {"none", "success", "failure", "error", "skipped"}, rem : RemStatus,
     alert : AlertStatus, remMeta : ID \cup {None}, alertMeta : ID \cup {None}]

\* No row yet: previousEval is nil, and both statuses default to skipped.
NoRecord ==
    [eval |-> "none", rem |-> "skipped", alert |-> "skipped", remMeta |-> None, alertMeta |-> None]

TaskState ==
    [pc : {"idle", "evaluated", "remediated", "found", "alerted"}, prev : Record,
     eval : EvalOutcome, remOpt : Opt, alertOpt : Opt, rem : RemStatus, alert : AlertStatus,
     remMeta : ID \cup {None}, alertMeta : ID \cup {None}, review : ID \cup {None}]

\* getDefaultResult: both actions skipped, both metadata {}.
IdleTask ==
    [pc |-> "idle", prev |-> NoRecord, eval |-> "skipped", remOpt |-> "off", alertOpt |-> "off",
     rem |-> "skipped", alert |-> "skipped", remMeta |-> None, alertMeta |-> None, review |-> None]

\* The options of the profile, and the actions of the rule type.
Profile == [type : RemediateTypes, alertType : AlertTypes, rem : RemediateOpt, alert : AlertOpt]

RemediateType == profile.type
ByAdvisory == profile.alertType = "security_advisory"
ByReview   == profile.alertType = "pull_request_comment"

Fault == faults < MaxFaults /\ faults' = faults + 1

Init ==
    /\ profile \in Profile
    /\ stored = NoRecord
    /\ task = [t \in Task |-> IdleTask]
    /\ advisories = {}
    /\ tickets = {}
    /\ reviews = {} /\ dismissed = {} /\ hidden = {}
    /\ long = FALSE
    /\ faults = 0
    /\ leaked = {}
    /\ fixes = 0 /\ unrecorded = 0 /\ steady = TRUE

-----------------------------------------------------------------------------
(* The decisions of actions.go *)

\* isSkippable
Skippable(opt, eval) == opt = "off" \/ eval \in {"skipped", "silent"}

\* Mutant: the previous status is not looked at.
RemediateAgain(prev, eval) ==
    CASE eval \in {"error", "success"} -> IF prev.rem # "skipped" THEN "off" ELSE "do_nothing"
      [] eval = "failure" -> "on"
      [] OTHER -> "do_nothing"

\* Mutant: an error leaves the issue or pull request open.
RemediateOffOnSuccess(prev, eval) ==
    CASE eval = "success" -> IF prev.rem # "skipped" THEN "off" ELSE "do_nothing"
      [] eval = "failure" -> IF prev.rem = "skipped" THEN "on" ELSE "do_nothing"
      [] OTHER -> "do_nothing"

ShouldRemediate(prev, eval) ==
    CASE eval \in {"error", "success"} -> IF prev.rem # "skipped" THEN "off" ELSE "do_nothing"
      [] eval = "failure" -> IF prev.rem = "skipped" THEN "on" ELSE "do_nothing"
      [] OTHER -> "do_nothing"

\* Mutant: an alert is never turned off.
AlertStaysOn(prev, eval, rem) ==
    IF eval \in {"error", "failure"} /\ prev.alert # "on" THEN "on" ELSE "do_nothing"

\* Mutant: an alert that is on is raised again.
AlertAgain(prev, eval, rem) ==
    IF eval \in {"error", "failure"} THEN "on"
    ELSE IF prev.alert # "off" THEN "off" ELSE "do_nothing"

\* remErr is nil exactly when the status of the remediation is success.
ShouldAlert(prev, eval, rem) ==
    LET instant == RemediateType # "pull_request" /\ rem = "success" IN
    CASE ~instant /\ eval \in {"error", "failure"} /\ prev.alert # "on" -> "on"
      [] (instant \/ eval = "success") /\ prev.alert # "off" -> "off"
      [] OTHER -> "do_nothing"

\* Mutant: the status of the other action.
PrevRemediation(prev) == IF prev.eval = "none" THEN "error" ELSE prev.rem

\* AlertStatusAsError and back: the previous status, or an error without a row.
PrevAlert(prev) == IF prev.eval = "none" THEN "error" ELSE prev.alert

-----------------------------------------------------------------------------
(* The environment *)

\* The profile is edited; an evaluation reads it when it starts.
UpdateProfile ==
    /\ profile' \in Profile
    /\ profile'.type = profile.type /\ profile'.alertType = profile.alertType
    /\ profile' # profile
    /\ UNCHANGED <<stored, task, external, faults, leaked, observed>>

\* Somebody closes an advisory on the provider's site.
AdvisoryClosedByUser(i) ==
    /\ i \in advisories
    /\ Fault
    /\ advisories' = advisories \ {i}
    /\ UNCHANGED <<profile, stored, task, tickets, reviewing, leaked, observed>>

\* Others review the pull request until a page is full. Reviews are listed in the
\* order they were made, so those of this rule stay where they are.
ListGrows ==
    /\ ByReview /\ ~long
    /\ Fault
    /\ long' = TRUE
    /\ UNCHANGED <<profile, stored, task, advisories, tickets, reviews, dismissed, hidden, leaked, observed>>

-----------------------------------------------------------------------------
(* An evaluation, up to the actions *)

\* createEvalStatusParams reads the latest record, ruleEngine.Eval decides.
Evaluate(t, outcome) ==
    /\ task[t].pc = "idle"
    /\ Overlap \/ \A u \in Task : task[u].pc = "idle"
    /\ task' = [task EXCEPT ![t] = [IdleTask EXCEPT
                  !.pc = "evaluated", !.prev = stored, !.eval = outcome,
                  !.remOpt = IF RemediateType = "none" THEN "off" ELSE profile.rem,
                  !.alertOpt = profile.alert]]
    /\ steady' = (/\ steady /\ outcome # "skipped" /\ profile.rem = "on" /\ profile.alert = "on"
                  /\ \A u \in Task : task[u].pc = "idle")
    /\ UNCHANGED <<profile, stored, external, faults, leaked, fixes, unrecorded>>

-----------------------------------------------------------------------------
(* Remediation *)

RemCmd(t) == ShouldRemediate(task[t].prev, task[t].eval)

\* The count of remediations stops here (bound); NoRemediationLoop fails before.
MaxFixes == MaxFaults + 2

\* The result of the remediation, as a status and a number. It was tried if it was
\* to be turned on, for good, and not left alone.
Remediated(t, status, meta) ==
    /\ task' = [task EXCEPT ![t] = [@ EXCEPT !.pc = "remediated", !.rem = status, !.remMeta = meta]]
    /\ fixes' = IF RemCmd(t) = "on" /\ task[t].remOpt = "on" /\ status # "skipped" /\ fixes < MaxFixes
                THEN fixes + 1 ELSE fixes
    /\ UNCHANGED <<unrecorded, steady>>

RemediateStep(t, cmd) ==
    /\ task[t].pc = "evaluated"
    /\ ~Skippable(task[t].remOpt, task[t].eval)
    /\ RemCmd(t) = cmd
    /\ UNCHANGED <<profile, stored, advisories, reviewing, leaked>>

\* The provider accepts or refuses a call.
CallWorks == UNCHANGED faults
CallFails == Fault

\* The provider never gives out a number twice; one that nothing holds any more
\* stands for a new one.
Fresh(i) ==
    /\ i \notin advisories \cup tickets \cup reviews \cup {stored.remMeta, stored.alertMeta}
    /\ \A t \in Task :
         i \notin {task[t].remMeta, task[t].alertMeta, task[t].prev.remMeta, task[t].prev.alertMeta}

SkipRemediation(t) ==
    /\ task[t].pc = "evaluated"
    /\ Skippable(task[t].remOpt, task[t].eval)
    /\ Remediated(t, "skipped", None)
    /\ UNCHANGED <<profile, stored, external, faults, leaked>>

\* rest and gh_branch_protection: one call, and nothing to turn off or to keep.
ByCall == RemediateType \in {"rest", "gh_branch_protection"}

RemediateByCall(t) ==
    /\ ByCall
    /\ RemediateStep(t, "on")
    /\ \/ /\ CallWorks
          /\ Remediated(t, "success", None)
       \/ /\ RemediateType = "rest"                       \* refused by the provider
          /\ task[t].remOpt = "on"
          /\ CallFails
          /\ Remediated(t, "failure", None)
       \/ /\ CallFails                                    \* a template or a call fails
          /\ Remediated(t, "error", None)
       \/ /\ RemediateType = "gh_branch_protection"       \* no such branch
          /\ CallWorks
          /\ Remediated(t, "skipped", None)
    /\ UNCHANGED tickets

RemediateByCallNotOn(t) ==
    /\ ByCall
    /\ \E cmd \in {"off", "do_nothing"} : RemediateStep(t, cmd)
    /\ Remediated(t, "skipped", None)
    /\ UNCHANGED <<tickets, faults>>

\* issue and pull_request: something to open, to find again and to close.
ByTicket == RemediateType \in {"issue", "pull_request"}

\* Mutant: a pull request, too, is known only by its number.
ReusableByNumber(t) == {task[t].prev.remMeta} \ {None}

\* An issue is known by its number, a pull request is found by its branch.
Reusable(t) ==
    IF RemediateType = "issue" THEN {task[t].prev.remMeta} \ {None} ELSE tickets

RemediateByTicket(t) ==
    /\ ByTicket
    /\ RemediateStep(t, "on")
    /\ task[t].remOpt = "on"
    /\ \/ /\ CallWorks
          /\ \E i \in Reusable(t) : Remediated(t, "pending", i)
          /\ UNCHANGED tickets
       \/ /\ CallWorks
          /\ Reusable(t) = {}
          /\ \E i \in ID :
               /\ Fresh(i)
               /\ tickets' = tickets \cup {i}
               /\ Remediated(t, "pending", i)
       \/ /\ CallFails
          /\ RemediateType = "pull_request" \/ Reusable(t) = {}
          /\ Remediated(t, "failure", None) \/ Remediated(t, "error", None)
          /\ UNCHANGED tickets

RemediateCloseTicket(t) ==
    LET i == task[t].prev.remMeta IN
    /\ ByTicket
    /\ RemediateStep(t, "off")
    /\ task[t].remOpt = "on"
    /\ \/ /\ CallWorks                                 \* closed, or no number to close
          /\ tickets' = tickets \ {i}
          /\ Remediated(t, "skipped", None)
       \/ /\ CallFails
          /\ i # None
          /\ Remediated(t, "failure", None)
          /\ UNCHANGED tickets

\* Dry run: on and off succeed without a call, unless there is nothing to close.
RemediateTicketDry(t) ==
    /\ ByTicket
    /\ task[t].remOpt = "dry_run"
    /\ \/ RemediateStep(t, "on") /\ Remediated(t, "success", None)
       \/ /\ RemediateStep(t, "off")
          /\ Remediated(t, IF task[t].prev.remMeta = None THEN "skipped" ELSE "success", None)
    /\ UNCHANGED <<tickets, faults>>

\* getParamsForPRRemediation or getParamsForIssueRemediation fails, whatever the
\* command: a template, or no files because the evaluation could not get them.
RemediateParamsFail(t) ==
    /\ ByTicket
    /\ \E cmd \in {"on", "off", "do_nothing"} : RemediateStep(t, cmd)
    /\ CallFails
    /\ Remediated(t, "error", None)
    /\ UNCHANGED tickets

\* runDoNothing: the previous status and the previous metadata.
RemediateTicketDoNothing(t) ==
    /\ ByTicket
    /\ RemediateStep(t, "do_nothing")
    /\ Remediated(t, task[t].prev.rem, task[t].prev.remMeta)
    /\ UNCHANGED <<tickets, faults>>

Remediation(t) ==
    \/ SkipRemediation(t)
    \/ RemediateByCall(t)   \/ RemediateByCallNotOn(t)
    \/ RemediateByTicket(t) \/ RemediateCloseTicket(t)
    \/ RemediateTicketDry(t) \/ RemediateTicketDoNothing(t) \/ RemediateParamsFail(t)

-----------------------------------------------------------------------------
(* Alert: a security advisory, or a review of the pull request *)

Alerted(t, status, meta) ==
    task' = [task EXCEPT ![t] = [@ EXCEPT !.pc = "alerted", !.alert = status, !.alertMeta = meta,
                                            !.review = None]]

AlertCmd(t) == ShouldAlert(task[t].prev, task[t].eval, task[t].rem)

AlertStep(t, cmd) ==
    /\ task[t].pc = "remediated"
    /\ ~Skippable(task[t].alertOpt, task[t].eval)
    /\ AlertCmd(t) = cmd
    /\ UNCHANGED <<profile, stored, tickets, observed>>

SkipAlert(t) ==
    /\ task[t].pc = "remediated"
    /\ Skippable(task[t].alertOpt, task[t].eval)
    /\ Alerted(t, "skipped", None)
    /\ UNCHANGED <<profile, stored, external, faults, leaked, observed>>

OpenAdvisory(t) ==
    /\ ByAdvisory
    /\ AlertStep(t, "on")
    /\ task[t].alertOpt = "on"
    /\ UNCHANGED reviewing
    /\ \/ /\ CallWorks
          /\ \E i \in ID :
               /\ Fresh(i)
               /\ advisories' = advisories \cup {i}
               /\ leaked' = leaked \ {i}
               /\ Alerted(t, "on", i)
       \/ /\ CallFails
          /\ Alerted(t, "error", None)
          /\ UNCHANGED <<advisories, leaked>>

\* Without a number, or when the advisory is not found, closing is a success.
CloseAdvisory(t) ==
    LET i == task[t].prev.alertMeta IN
    /\ ByAdvisory
    /\ AlertStep(t, "off")
    /\ task[t].alertOpt = "on"
    /\ \/ /\ CallWorks
          /\ advisories' = advisories \ {i}
          /\ Alerted(t, "off", None)
       \/ /\ CallFails
          /\ i # None
          /\ Alerted(t, "error", None)
          /\ UNCHANGED advisories
    /\ UNCHANGED <<reviewing, leaked>>

\* Mutant: the review is looked up by the number in the record.
FoundByNumber(t) == {task[t].prev.alertMeta}

\* findExistingReview: ListReviews returns the first page, dismissed ones too.
Found(t) == IF reviews \subseteq hidden THEN {None} ELSE reviews \ hidden

FindReview(t) ==
    /\ ByReview
    /\ \E cmd \in {"on", "off"} : AlertStep(t, cmd)
    /\ task[t].alertOpt = "on"
    /\ \/ CallWorks /\ \E r \in Found(t) : task' = [task EXCEPT ![t].pc = "found", ![t].review = r]
       \/ CallFails /\ Alerted(t, "error", None)
    /\ UNCHANGED <<advisories, reviewing, leaked>>

\* UpdateReview writes the text; a review that was dismissed stays dismissed.
PublishReview(t) ==
    LET r == task[t].review IN
    /\ task[t].pc = "found" /\ AlertCmd(t) = "on"
    /\ \/ r # None /\ CallWorks /\ Alerted(t, "on", r) /\ UNCHANGED <<reviews, hidden>>
       \/ /\ r = None /\ CallWorks
          /\ \E i \in ID :
               /\ Fresh(i)
               /\ reviews' = reviews \cup {i}
               /\ hidden' = IF long THEN hidden \cup {i} ELSE hidden
               /\ Alerted(t, "on", i)
       \/ CallFails /\ Alerted(t, "error", None) /\ UNCHANGED <<reviews, hidden>>
    /\ UNCHANGED <<profile, stored, advisories, tickets, dismissed, long, leaked, observed>>

\* With no review to dismiss, or when it is not found any more, the alert is off.
DismissReview(t) ==
    /\ task[t].pc = "found" /\ AlertCmd(t) = "off"
    /\ \/ CallWorks /\ dismissed' = dismissed \cup ({task[t].review} \ {None}) /\ Alerted(t, "off", None)
       \/ task[t].review # None /\ CallFails /\ Alerted(t, "error", None) /\ UNCHANGED dismissed
    /\ UNCHANGED <<profile, stored, advisories, tickets, reviews, long, hidden, leaked, observed>>

\* Dry runs and do_nothing are the same for both types.
AlertDry(t) ==
    /\ task[t].alertOpt = "dry_run"
    /\ \/ AlertStep(t, "on") /\ Alerted(t, "on", None)
       \/ /\ AlertStep(t, "off")
          /\ Alerted(t, IF task[t].prev.alertMeta = None THEN "off" ELSE "skipped", None)
    /\ UNCHANGED <<advisories, reviewing, faults, leaked>>

AlertDoNothing(t) ==
    /\ AlertStep(t, "do_nothing")
    /\ Alerted(t, PrevAlert(task[t].prev), task[t].prev.alertMeta)
    /\ UNCHANGED <<advisories, reviewing, faults, leaked>>

\* getParamsForSecurityAdvisory or getParamsForPRComment fails, whatever the command.
AlertParamsFail(t) ==
    /\ \E cmd \in {"on", "off", "do_nothing"} : AlertStep(t, cmd)
    /\ CallFails
    /\ Alerted(t, "error", None)
    /\ UNCHANGED <<advisories, reviewing, leaked>>

Alert(t) ==
    \/ SkipAlert(t) \/ OpenAdvisory(t) \/ CloseAdvisory(t)
    \/ FindReview(t) \/ PublishReview(t) \/ DismissReview(t)
    \/ AlertDry(t) \/ AlertDoNothing(t) \/ AlertParamsFail(t)

-----------------------------------------------------------------------------
(* The end of an evaluation *)

\* The number of the previous record's advisory is in no record any more: the
\* action was skipped or failed, or another evaluation stored a record since.
Dropped(t) ==
    LET new == task[t] IN
    (IF new.alert \in {"skipped", "error"} THEN {new.prev.alertMeta} ELSE {})
      \cup (IF new.prev # stored THEN {stored.alertMeta} ELSE {})

\* createOrUpdateEvalStatus, in one transaction; SetActionsErr has replaced
\* missing metadata by {}.
Store(t) ==
    LET new == task[t] IN
    /\ new.pc = "alerted"
    /\ new.eval # "silent"
    /\ stored' = [eval |-> new.eval, rem |-> new.rem, alert |-> new.alert,
                  remMeta |-> new.remMeta, alertMeta |-> new.alertMeta]
    /\ leaked' = leaked \cup ((Dropped(t) \ {new.alertMeta}) \cap advisories)
    /\ IF new.eval = "failure" THEN UNCHANGED <<fixes, unrecorded>> ELSE fixes' = 0 /\ unrecorded' = 0
    /\ task' = [task EXCEPT ![t] = IdleTask]
    /\ UNCHANGED <<profile, external, faults, steady>>

\* ErrEvaluationSkipSilently: nothing is stored.
StoreNothing(t) ==
    /\ task[t].pc = "alerted"
    /\ task[t].eval = "silent"
    /\ task' = [task EXCEPT ![t] = IdleTask]
    /\ UNCHANGED <<profile, stored, external, faults, leaked, observed>>

\* The remediation was tried in the evaluation under way.
Tried(t) ==
    /\ task[t].pc \in {"remediated", "found", "alerted"}
    /\ RemCmd(t) = "on" /\ task[t].remOpt = "on" /\ task[t].rem # "skipped"

\* A crash, a timeout or a failed transaction: what the actions did stays done,
\* and no record says so.
Abort(t) ==
    /\ task[t].pc # "idle"
    /\ Fault
    /\ leaked' = leaked \cup (({task[t].alertMeta} \ {task[t].prev.alertMeta}) \cap advisories)
    /\ unrecorded' = IF Tried(t) THEN unrecorded + 1 ELSE unrecorded
    /\ task' = [task EXCEPT ![t] = IdleTask]
    /\ UNCHANGED <<profile, stored, external, fixes, steady>>

Next ==
    \/ UpdateProfile
    \/ \E i \in ID : AdvisoryClosedByUser(i)
    \/ ListGrows
    \/ \E t \in Task :
         \/ \E outcome \in Outcome : Evaluate(t, outcome)
         \/ Remediation(t)
         \/ Alert(t)
         \/ Store(t) \/ StoreNothing(t) \/ Abort(t)

Spec == Init /\ [][Next]_vars

-----------------------------------------------------------------------------
(* Properties *)

\* Every variable has its type.
TypeOK ==
    /\ profile \in Profile
    /\ stored \in Record
    /\ task \in [Task -> TaskState]
    /\ advisories \subseteq ID
    /\ tickets \subseteq ID
    /\ reviews \subseteq ID /\ dismissed \subseteq reviews /\ hidden \subseteq reviews
    /\ long \in BOOLEAN
    /\ faults \in 0..MaxFaults
    /\ leaked \subseteq ID
    /\ fixes \in 0..MaxFixes /\ unrecorded \in 0..faults /\ steady \in BOOLEAN

\* Every open advisory can still be closed: its number is in the record, or in
\* the hands of an evaluation under way, unless it was dropped at one of the
\* points that set leaked (a skipped or failed alert, an aborted evaluation, a
\* record overwritten by an overlapping evaluation).
AdvisoryTracked ==
    advisories \subseteq {stored.alertMeta} \cup leaked
                           \cup {task[t].alertMeta : t \in {u \in Task : task[u].pc = "alerted"}}

Idle == \A t \in Task : task[t].pc = "idle"

\* So far calls worked, and no evaluation was skipped, met another one, or found an
\* action off or in dry run.
Undisturbed == steady /\ faults = 0

\* Until something goes wrong (Undisturbed) the alert follows the latest record over
\* any sequence of outcomes: the advisory is closed, or the review dismissed, when
\* the rule passes; the one advisory is open, the one review there, and the number
\* known, when it fails and was not remediated on the spot.
AlertMirrorsEvaluation ==
    Undisturbed /\ Idle =>
      /\ stored.eval = "success" => advisories = {} /\ reviews = dismissed
      /\ stored.eval \in {"failure", "error"} /\ stored.rem # "success" =>
           stored.alert = "on" /\ advisories \cup reviews = {stored.alertMeta}

\* Likewise for the issue or pull request of the remediation: closed when the
\* rule passes or cannot be evaluated, open and known while the rule fails.
TicketMirrorsEvaluation ==
    Undisturbed /\ Idle /\ ByTicket =>
      /\ stored.eval \in {"success", "error"} => tickets = {}
      /\ stored.eval = "failure" => stored.rem = "pending" /\ tickets = {stored.remMeta}

\* Whatever fails, is aborted or is skipped, and even after the number was lost,
\* a rule has one open pull request at most: it is found again by its branch.
OnePullRequest == RemediateType = "pull_request" => Cardinality(tickets) <= 1

\* "Minder will ensure that each PR in a repository has at most one comment per
\* rule type" (rule_evaluation_details.md), although the number may be lost by
\* failures, aborted evaluations and edits of the profile: the mark finds it. So it
\* is on the first page of the list, and unless two evaluations overlap.
OneReview == Overlap \/ Cardinality(reviews \ hidden) <= 1

\* "We should remediate only if the previous remediation was skipped, so we don't
\* risk endless remediation loops" (actions.go): while the rule keeps failing,
\* its issue or pull request is asked for once, and once more for each evaluation that
\* was aborted after it had: the next one starts from the record before and cannot know.
\* (A remediation by a call is repeated: after "do nothing" its record says skipped.)
NoRemediationLoop == ByTicket => fixes <= 1 + unrecorded

=============================================================================

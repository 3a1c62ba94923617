----------------------------- MODULE LabReview -----------------------------
(***************************************************************************)
(* The review desk of the simulation lab: the page of one simulation run   *)
(* (simulation_lab/views.py, lab_run_detail and the rows it builds) and    *)
(* the two requests a reviewer sends from it, apply a plan change set as   *)
(* the next baseline and reject it, while the run itself goes on.          *)
(*                                                                         *)
(* apply_plan_change_set is one transaction.  Its first query is a SELECT  *)
(* ... FOR UPDATE joined with the source revision and the plan, without    *)
(* OF (plan_application.py:194-202), and the database locks every row it   *)
(* reads: all applications to one plan exclude each other until they       *)
(* commit, and what they read under the lock is committed and stays.  So   *)
(* what is written is written at the commit.  lab_reject_change_set reads  *)
(* the row without a lock and saves it later.                              *)
(***************************************************************************)
EXTENDS Integers, FiniteSets, FiniteSetsExt

CONSTANTS
    ChangeSets,    \* the change sets the run may leave
    Operations,    \* [ChangeSets -> set of [type, required, keys]]
    Closure,       \* change sets that come from a responsibility failure
    Requests       \* requests in progress at a time

VARIABLES
    run,        \* the SimulationRun: status, its gate, the last turn's gate
    sets,       \* PlanChangeSet rows
    revisions,  \* PlanRevision rows of the plan, by their code; 0 is seeded
    req         \* the requests in progress

vars == <<run, sets, revisions, req>>

Codes == 0..Cardinality(ChangeSets)
Gates == {"none", "open", "met"}
RunStatuses == {"running", "failed", "completed", "aborted"}
SetStatuses == {"absent", "draft", "rejected", "applied"}
RevisionStatuses == {"absent", "draft", "published", "retired"}
Idle == [pc |-> "idle", set |-> CHOOSE c \in ChangeSets : TRUE]

LabReviewAssumption ==
    /\ IsFiniteSet(ChangeSets) /\ ChangeSets # {}
    /\ Closure \subseteq ChangeSets

---------------------------------------------------------------------------
(* The preflight check of a change set's operations *)

NodeReference == {"node_id", "target_node_id", "node_code", "target_node_code"}

(* Of each group of payload keys at least one has to be filled in. *)
RequiredKeys(type) ==
    CASE type \in {"add_node", "add_preparation"} -> {{"code"}, {"title"}}
      [] type = "add_dependency" -> {NodeReference \cup {"code"},
                                     {"depends_on_id", "depends_on_code"}}
      [] type = "add_requirement" -> {NodeReference, {"name"}}
      [] type = "add_capacity_impact" -> {NodeReference}
      [] type = "update_node_field" -> {{"target_field"},
                                        NodeReference \cup {"code", "target_id"}}
      [] OTHER -> {}

Supported == {"add_node", "add_preparation", "add_dependency", "add_requirement",
              "add_capacity_impact", "update_node_field", "reduce_admission", "note"}

OperationError(op) ==
    IF op.type \in Supported
    THEN \E group \in RequiredKeys(op.type) : op.keys \cap group = {}
    ELSE op.required

Invalid(c) == \E op \in Operations[c] : OperationError(op)

---------------------------------------------------------------------------
(* What the page shows *)

Present == {c \in ChangeSets : sets[c].status # "absent"}

(* latest_startup_gate: the run's own gate once it is completed, else the  *)
(* last turn that carries one, else the run's.                             *)
LatestGate ==
    IF run.status = "completed" /\ run.gate # "none" THEN run.gate
    ELSE IF run.turnGate # "none" THEN run.turnGate ELSE run.gate

ResolvedByLaterProgress(c) ==
    /\ run.status = "completed"
    /\ LatestGate = "met"
    /\ c \in Closure

IsNextBaseline(c) == sets[c].revision # 0 /\ revisions[sets[c].revision] = "published"
ShownErrors(c) == sets[c].status # "applied" /\ Invalid(c)
\* A plausible bug: an applied change set is never offered again.
CanApplyOnce(c) == sets[c].status # "applied" /\ ~ShownErrors(c)

CanApply(c) == (sets[c].status # "applied" \/ ~IsNextBaseline(c)) /\ ~ShownErrors(c)
CanReject(c) == sets[c].status \notin {"applied", "rejected"}

\* A plausible bug: only the structure of a set that is not applied is looked at.
RecommendationOpen(c) ==
    IF sets[c].status = "applied" THEN IF IsNextBaseline(c) THEN "adopted" ELSE "check again"
    ELSE IF ShownErrors(c) THEN "repair or reject"
    ELSE IF ResolvedByLaterProgress(c) THEN "adopt" ELSE "review and adopt"

Recommendation(c) ==
    IF sets[c].status = "rejected" THEN "rejected"
    ELSE IF sets[c].status = "applied" THEN IF IsNextBaseline(c) THEN "adopted" ELSE "check again"
    ELSE IF ShownErrors(c) THEN "repair or reject"
    ELSE IF ResolvedByLaterProgress(c) THEN "adopt" ELSE "review and adopt"

Applicable == {c \in Present : CanApply(c)}
Defective == {c \in Present : ShownErrors(c)}
Resolved == {c \in Present : ResolvedByLaterProgress(c)}
GateOpen == LatestGate = "open"

Verdict ==
    IF run.broken THEN "interaction failed"
    ELSE IF run.status = "running" THEN "still running"
    ELSE IF run.status = "aborted" THEN "aborted"
    ELSE IF GateOpen THEN "gate not met"
    ELSE IF run.status = "completed" /\ Defective # {} THEN "completed, defective change sets"
    ELSE IF run.status = "completed" /\ Applicable # {} THEN "completed, change sets to decide"
    ELSE IF run.status = "completed" THEN "success sample"
    ELSE IF Applicable # {} THEN "change sets to decide"
    ELSE IF Defective # {} THEN "defective change sets"
    ELSE "manual review"

(* is_continuable_zero_start_observation_run *)
Continuable == run.status = "failed" /\ run.gate # "met" /\ ~run.broken

DecisionHint ==
    IF run.broken THEN "repair first"
    ELSE IF run.status = "running" \/ Continuable THEN "continue"
    ELSE IF Applicable # {} /\ Resolved # {} THEN "decide whether still needed"
    ELSE IF Applicable # {} THEN "decide change sets"
    ELSE IF Defective # {} THEN "handle defective change sets"
    ELSE "archive"

---------------------------------------------------------------------------
(* The run goes on *)

Init ==
    /\ run \in {[status |-> "running", gate |-> "none", turnGate |-> "none", broken |-> FALSE],
                [status |-> "failed", gate |-> "open", turnGate |-> "open", broken |-> FALSE]}
    /\ sets = [c \in ChangeSets |-> [status |-> "absent", revision |-> 0]]
    /\ revisions = [k \in Codes |-> IF k = 0 THEN "published" ELSE "absent"]
    /\ req = [r \in Requests |-> Idle]

(* One virtual hour: the turn is written first, the run's gate after it. *)
WriteTurn ==
    /\ run.status = "running"
    /\ \E g \in {"open", "met"} : run' = [run EXCEPT !.turnGate = g]
    /\ UNCHANGED <<sets, revisions, req>>

SaveHour ==
    /\ run.status = "running"
    /\ run.gate # run.turnGate
    /\ run' = [run EXCEPT !.gate = run.turnGate]
    /\ UNCHANGED <<sets, revisions, req>>

(* The end of an observation window: a gate that is met may complete the   *)
(* run; an open one leaves a change set and the run goes on.               *)
EndWindow ==
    /\ run.status = "running"
    /\ \/ /\ run' = [run EXCEPT !.status = "completed", !.gate = "met", !.turnGate = "met"]
          /\ UNCHANGED sets
       \/ \E c \in ChangeSets :
            /\ sets[c].status = "absent"
            /\ run' = [run EXCEPT !.gate = "open", !.turnGate = "open"]
            /\ sets' = [sets EXCEPT ![c].status = "draft"]
    /\ UNCHANGED <<revisions, req>>

(* A run that failed at its gate, as older versions left it, is continued. *)
ContinueRun ==
    /\ Continuable
    /\ run' = [run EXCEPT !.status = "running"]
    /\ UNCHANGED <<sets, revisions, req>>

(* A form the simulation could not submit ends the run. *)
\* A plausible bug: an interaction failure writes its outcome into the gate.
InteractionFailsGate ==
    /\ run.status = "running"
    /\ run' = [run EXCEPT !.status = "failed", !.broken = TRUE, !.gate = "failed"]
    /\ UNCHANGED <<sets, revisions, req>>

InteractionFails ==
    /\ run.status = "running"
    /\ run' = [run EXCEPT !.status = "failed", !.broken = TRUE]
    /\ UNCHANGED <<sets, revisions, req>>

Abort ==
    /\ run.status = "running" \/ Continuable
    /\ run' = [run EXCEPT !.status = "aborted"]
    /\ UNCHANGED <<sets, revisions, req>>

---------------------------------------------------------------------------
(* Applying a change set *)

InTransaction(r) == req[r].pc = "apply"
PlanFree == \A q \in Requests : ~InTransaction(q)
RowFree(c) == \A q \in Requests : InTransaction(q) => req[q].set # c

(* Every revision of the plan is read under the lock of the plan, so the    *)
(* code that is chosen is free.                                            *)
NextRevisionCode == Min({k \in Codes : revisions[k] = "absent"})

(* A form may come from a page that is out of date: the view only looks    *)
(* the change set up.                                                      *)
BeginApply(r, c) ==
    /\ req[r].pc = "idle"
    /\ sets[c].status # "absent"
    /\ req' = [req EXCEPT ![r] = [pc |-> "wait", set |-> c]]
    /\ UNCHANGED <<run, sets, revisions>>

(* The change set is read as the lock is granted: a rejected one and a     *)
(* draft with a defect are refused.                                        *)
\* A plausible bug: a rejected change set is not refused.
LockPlanRejected(r) ==
    /\ req[r].pc = "wait"
    /\ PlanFree
    /\ req' = [req EXCEPT ![r] =
          IF ~Invalid(req[r].set) THEN [@ EXCEPT !.pc = "apply"] ELSE Idle]
    /\ UNCHANGED <<run, sets, revisions>>

LockPlan(r) ==
    LET c == req[r].set IN
    /\ req[r].pc = "wait"
    /\ PlanFree
    /\ req' = [req EXCEPT ![r] =
          IF sets[c].status = "applied" \/ (sets[c].status = "draft" /\ ~Invalid(c))
          THEN [@ EXCEPT !.pc = "apply"] ELSE Idle]
    /\ UNCHANGED <<run, sets, revisions>>

(* An operation that cannot be carried out rolls everything back. *)
OperationRefused(r) ==
    /\ req[r].pc = "apply"
    /\ sets[req[r].set].status = "draft"
    /\ req' = [req EXCEPT ![r] = Idle]
    /\ UNCHANGED <<run, sets, revisions>>

(* publish_plan_revision: the published revisions are retired, then this   *)
(* one is published.                                                       *)
\* A plausible bug: the published revisions are not retired.
PublishRevisionOnly(v) == [revisions EXCEPT ![v] = "published"]

PublishRevision(v) ==
    [k \in Codes |-> IF k = v THEN "published"
                     ELSE IF revisions[k] = "published" THEN "retired" ELSE revisions[k]]

(* A draft gets a revision of its own; one that was applied before only    *)
(* has its revision published again.                                       *)
\* A plausible bug: an applied change set is applied once more.
CommitApplyAgain(r) ==
    LET c == req[r].set
        v == NextRevisionCode
    IN /\ req[r].pc = "apply"
       /\ Cardinality({k \in Codes : revisions[k] = "absent"}) > 0
       /\ revisions' = PublishRevision(v)
       /\ sets' = [sets EXCEPT ![c] = [status |-> "applied", revision |-> v]]
       /\ req' = [req EXCEPT ![r] = Idle]
       /\ UNCHANGED run

CommitApply(r) ==
    LET c == req[r].set
        v == IF sets[c].status = "applied" THEN sets[c].revision ELSE NextRevisionCode
    IN /\ req[r].pc = "apply"
       /\ revisions' = PublishRevision(v)
       /\ sets' = [sets EXCEPT ![c] = [status |-> "applied", revision |-> v]]
       /\ req' = [req EXCEPT ![r] = Idle]
       /\ UNCHANGED run

---------------------------------------------------------------------------
(* Rejecting a change set *)

BeginReject(r, c) ==
    /\ req[r].pc = "idle"
    /\ sets[c].status = "draft"
    /\ req' = [req EXCEPT ![r] = [Idle EXCEPT !.pc = "reject", !.set = c]]
    /\ UNCHANGED <<run, sets, revisions>>

(* The save names status and metadata only; it waits for the row. *)
\* A plausible bug: the save waits for a change set that is still a draft.
SaveRejectDraft(r) ==
    /\ req[r].pc = "reject"
    /\ RowFree(req[r].set)
    /\ sets[req[r].set].status = "draft"
    /\ sets' = [sets EXCEPT ![req[r].set].status = "rejected"]
    /\ req' = [req EXCEPT ![r] = Idle]
    /\ UNCHANGED <<run, revisions>>

SaveReject(r) ==
    /\ req[r].pc = "reject"
    /\ RowFree(req[r].set)
    /\ sets' = [sets EXCEPT ![req[r].set].status = "rejected"]
    /\ req' = [req EXCEPT ![r] = Idle]
    /\ UNCHANGED <<run, revisions>>

Finish(r) == LockPlan(r) \/ CommitApply(r) \/ SaveReject(r)

Next ==
    \/ WriteTurn \/ SaveHour \/ EndWindow \/ ContinueRun \/ InteractionFails \/ Abort
    \/ \E r \in Requests :
         \/ \E c \in ChangeSets : BeginApply(r, c) \/ BeginReject(r, c)
         \/ OperationRefused(r)
         \/ Finish(r)

Spec == Init /\ [][Next]_vars

(* InnoDB grants a row lock to its waiters in turn, so a request that is   *)
(* again and again able to go on does go on.                               *)
Progress == \A r \in Requests : SF_vars(Finish(r))

FairSpec == Spec /\ Progress

---------------------------------------------------------------------------
(* Properties *)

(* Run, change sets, revisions and requests keep their shape. *)
TypeOK ==
    /\ run \in [status : RunStatuses, gate : Gates, turnGate : Gates, broken : BOOLEAN]
    /\ sets \in [ChangeSets -> [status : SetStatuses, revision : Codes]]
    /\ revisions \in [Codes -> RevisionStatuses]
    /\ req \in [Requests -> [pc : {"idle", "wait", "apply", "reject"}, set : ChangeSets]]

(* publish_plan_revision: the plan has one published baseline, whichever   *)
(* change sets are applied, applied again or rejected at the same time,    *)
(* from whatever page.                                                     *)
OneBaseline == Cardinality({k \in Codes : revisions[k] = "published"}) = 1

(* apply_plan_change_set: a change set has at most one revision, and every *)
(* revision but the seeded one belongs to one change set, that was applied *)
(* or rejected after that, never one that waits for its decision.          *)
OneRevisionPerSet ==
    /\ \A c, d \in ChangeSets : sets[c].revision = sets[d].revision => c = d \/ sets[c].revision = 0
    /\ \A k \in Codes \ {0} : revisions[k] # "absent" => \E c \in ChangeSets : sets[c].revision = k
    /\ \A c \in ChangeSets :
          /\ sets[c].status = "applied" => sets[c].revision # 0
          /\ sets[c].revision # 0 =>
                revisions[sets[c].revision] # "absent" /\ sets[c].status \in {"applied", "rejected"}

(* simulation_review_verdict calls a run a success sample only when its    *)
(* gate is met and every change set it left is the current baseline, and   *)
(* simulation_review_decision_hint advises to archive a run only when none *)
(* of its change sets waits for a decision.                                *)
AdviceSettled ==
    /\ Verdict = "success sample" =>
         run.gate = "met" /\ \A c \in Present : IsNextBaseline(c)
    /\ DecisionHint = "archive" => \A c \in Present : sets[c].status # "draft"

(* A change set the page recommends for adoption passes every check of     *)
(* apply_plan_change_set.                                                  *)
RecommendedIsApplicable ==
    \A c \in Present : Recommendation(c) \in {"adopt", "review and adopt"} =>
        sets[c].status = "draft" /\ ~Invalid(c)

DeskSound ==
    /\ TypeOK /\ OneBaseline /\ OneRevisionPerSet /\ AdviceSettled /\ RecommendedIsApplicable

(* Every request of the desk ends: none waits for ever for the plan or for *)
(* a change set row.                                                       *)
RequestsEnd == \A r \in Requests : req[r].pc # "idle" ~> req[r].pc = "idle"

-----------------------------------------------------------------------------
(* What the repository says of itself and the code does not keep: the runs do *)
(* not check these, the README says how each fails.                           *)

(* lab_reject_change_set: an applied change set is never rejected, so the  *)
(* baseline never comes from a rejected one.                               *)
RejectedIsNotBaseline ==
    \A c \in ChangeSets : sets[c].status = "rejected" => ~IsNextBaseline(c)

(* simulation_change_set_recommendation says a rejected change set needs   *)
(* no further handling, so the page does not offer it for application.     *)
RejectedNeedsNothing == \A c \in Present : sets[c].status = "rejected" => ~CanApply(c)

============================================================================

----------------------------- MODULE Electorate -----------------------------
(***************************************************************************)
(* Admission of covenanters by ballot: core/application_services.py,       *)
(* core/unified_proposal_services.py, core/electorate_rule_services.py and *)
(* core/member_admission_proposal_adapter.py, driven by the pages of       *)
(* workspace/proposal_views.py and workspace/views.py.                     *)
(*                                                                         *)
(* Every application has one admission proposal, written with it, so the   *)
(* two rows are one element of the sequence cases. Services read members   *)
(* and terms without a lock, and are as many steps as it takes to see what *)
(* may change meanwhile: a submission checks the member before it locks    *)
(* the end of the event chain; a ballot and the finalisation check, then   *)
(* count, then write what they counted, the proposal row locked all the    *)
(* time; publishing a policy and activating the waiting proposals are two  *)
(* transactions; an execution checks the applicant before                  *)
(* create_role_assignment locks the member row.                            *)
(***************************************************************************)
EXTENDS Integers, Sequences, FiniteSets

CONSTANTS
    Members,
    Founders,      \* active covenanters from the start (bootstrap)
    Operators,     \* members whose role carries the governance permissions
    Policies,      \* what the policy page may publish
    Sessions,      \* concurrent requests
    MaxCases,      \* bound on applications
    MaxVersions,   \* bound on published rule versions
    MaxRevisions,  \* bound on the ballots of one voter on one proposal
    MaxLifecycle,  \* bound on suspensions, reinstatements and ended terms
    NoMember

Choices == {"approve", "reject", "abstain"}
Selectors == {"covenanter", "contributor"}

\* ElectorateRuleVersion: who votes, the thresholds, and what becomes of a vote that
\* reaches none.
Rule == [selector : SUBSET Selectors \ {{}}, approve : Nat \ {0}, reject : Nat \ {0},
         minimum : Nat, unresolved : {"rejected", "expired"}]

\* MemberApplication, withdrawn ones left out: no operation withdraws one.
ApplicationStatuses == {"submitted", "admitted", "rejected"}

ElectorateAssumption ==
    /\ IsFiniteSet(Members)
    /\ Founders \cup Operators \subseteq Members
    /\ Policies \subseteq Rule
    /\ {MaxCases, MaxVersions, MaxRevisions, MaxLifecycle} \subseteq Nat
    /\ NoMember \notin Members

VARIABLES
    status,      \* member -> Member.status ("absent": no row yet)
    terms,       \* member -> number of current covenanter assignments
    rules,       \* published ElectorateRuleVersion rows, oldest first
    activated,   \* versions whose waiting proposals were activated
    cases,       \* MemberApplication rows with their proposals
    sess,        \* session -> the request it serves
    changes      \* lifecycle changes so far

rowVars == <<status, terms, rules, activated, cases>>
vars == <<rowVars, sess, changes>>

-----------------------------------------------------------------------------
(* Eligibility and tally. *)

Disabled(m) == status[m] \in {"suspended", "exited"}

\* member_allows_role_facts.
AllowsRoleFacts(m) == status[m] \in {"active", "admitted"}

IsCovenanter(m) == AllowsRoleFacts(m) /\ terms[m] > 0

\* AuthorizationService.member_has_permission for a governance permission.
HasPermission(m) == m \in Operators /\ IsCovenanter(m)

\* evaluate_rule_for_member on the selectors the policy page builds: one leaf, or
\* "any" of several.
SatisfiesRule(rule, m, applicant) ==
    /\ m # applicant
    /\ AllowsRoleFacts(m)
    /\ \/ "covenanter" \in rule.selector /\ terms[m] > 0
       \/ "contributor" \in rule.selector /\ terms[m] = 0

\* generate_elector_snapshot.
Snapshot(rule, applicant) == {m \in Members : SatisfiesRule(rule, m, applicant)}

\* electorate_eligibility_for_proposal: in the frozen snapshot, and eligible today.
MayVote(c, m) ==
    /\ m \in c.electors
    /\ SatisfiesRule(rules[c.version], m, c.applicant)

Latest(c, m) == c.ballots[m][Len(c.ballots[m])]

\* A plausible bug: ballots of voters who lost their qualification still count.
VotersOfSnapshot(c) == {m \in c.electors : c.ballots[m] # <<>>}

\* The voters whose ballots proposal_tally takes: whoever voted and may still vote.
Voters(c) == {m \in Members : c.ballots[m] # <<>> /\ MayVote(c, m)}

\* proposal_tally of the voters that were found: their last ballots.
Counted(c, found, choices) == Cardinality({m \in found : Latest(c, m) \in choices})

\* A plausible bug: the minimum participation is not looked at.
OutcomeAnyTurnout(c, found, late) ==
    LET rule == rules[c.version]
    IN  IF Counted(c, found, {"approve"}) >= rule.approve THEN "approved"
        ELSE IF Counted(c, found, {"reject"}) >= rule.reject THEN "rejected"
        ELSE IF late THEN rule.unresolved
        ELSE "none"

\* _resolution_outcome: approval is looked at first, then rejection, then the clock,
\* which is read once, before the count.
Outcome(c, found, late) ==
    LET rule == rules[c.version]
        quorate == Counted(c, found, Choices) >= rule.minimum
    IN  IF quorate /\ Counted(c, found, {"approve"}) >= rule.approve THEN "approved"
        ELSE IF quorate /\ Counted(c, found, {"reject"}) >= rule.reject THEN "rejected"
        ELSE IF late THEN rule.unresolved
        ELSE "none"

\* What the resolution row keeps as evidence.
Evidence(c, found) ==
    [approve |-> Counted(c, found, {"approve"}), reject |-> Counted(c, found, {"reject"}),
     part |-> Counted(c, found, Choices)]

\* The proposal closed with an outcome.
Closed(c, outcome, found) ==
    [c EXCEPT !.proposal = outcome, !.outcome = outcome, !.evidence = Evidence(c, found)]

\* A plausible bug: the application is left open when its proposal is closed.
ResolvedSilently(c, found, late) ==
    LET outcome == Outcome(c, found, late)
    IN  IF outcome = "none" THEN c ELSE Closed(c, outcome, found)

\* A plausible bug: the case without a result is written back like the others.
ResolvedAlways(c, found, late) ==
    LET outcome == Outcome(c, found, late)
    IN  [Closed(c, outcome, found) EXCEPT
           !.application = IF outcome = "approved" THEN "submitted" ELSE "rejected"]

\* _resolve_locked_proposal with _sync_member_application_resolution.
Resolved(c, found, late) ==
    LET outcome == Outcome(c, found, late)
    IN  IF outcome = "none" THEN c
        ELSE [Closed(c, outcome, found) EXCEPT
                !.application = IF outcome = "approved" THEN "submitted" ELSE "rejected"]

NoEvidence == [approve |-> 0, reject |-> 0, part |-> 0]

\* attach_rule_version and start_electorate_voting.
Started(c, v) ==
    [c EXCEPT !.proposal = "voting", !.version = v,
              !.electors = Snapshot(rules[v], c.applicant)]

\* create_approval_proposal_for_application, without and with a published policy.
NewCase(m) ==
    [applicant |-> m, application |-> "submitted", proposal |-> "awaiting_policy",
     version |-> 0, electors |-> {}, ballots |-> [v \in Members |-> <<>>],
     overdue |-> FALSE, outcome |-> "none", evidence |-> NoEvidence]

-----------------------------------------------------------------------------
(* Sessions. *)

Idle == [op |-> "none", member |-> NoMember, n |-> 0, choice |-> "none", found |-> {}]
Request(op, m, n) == [Idle EXCEPT !.op = op, !.member = m, !.n = n]

Begin(s, r) ==
    /\ sess[s] = Idle
    /\ sess' = [sess EXCEPT ![s] = r]

Finish(s) == sess' = [sess EXCEPT ![s] = Idle]

\* Requests that hold the row of a proposal until they end: ballots and finalisations
\* before and after their count, executions.
Locking == {"ballot", "resolve", "execute"}

\* No request holds the row of proposal i.
Unlocked(i) == \A t \in Sessions : ~(sess[t].op \in Locking /\ sess[t].n = i)

\* A DomainError, a lost connection or a dead worker. A publisher that dies here
\* leaves its version published and the waiting proposals waiting.
Rollback(s) ==
    /\ sess[s] # Idle
    /\ Finish(s)
    /\ UNCHANGED <<rowVars, changes>>

-----------------------------------------------------------------------------
(* Members. *)

\* register_participant_account / ensure_basic_member_for_user.
Register(m) ==
    /\ status[m] = "absent"
    /\ status' = [status EXCEPT ![m] = "pending_review"]
    /\ UNCHANGED <<terms, rules, activated, cases, sess, changes>>

\* The admin edits Member.status, or a term is revoked or runs out.
Lifecycle(m) ==
    /\ changes < MaxLifecycle
    /\ changes' = changes + 1
    /\ \/ /\ status[m] \notin {"absent", "suspended"}
          /\ status' = [status EXCEPT ![m] = "suspended"]
          /\ UNCHANGED terms
       \/ /\ status[m] \in {"suspended", "pending_review"}
          /\ status' = [status EXCEPT ![m] = "active"]
          /\ UNCHANGED terms
       \/ /\ terms[m] > 0
          /\ terms' = [terms EXCEPT ![m] = 0]
          /\ UNCHANGED status
    /\ UNCHANGED <<rules, activated, cases, sess>>

-----------------------------------------------------------------------------
(* Submission. *)

\* The checks of submit_member_application and of the page before it.
MaySubmit(m) ==
    /\ ~Disabled(m)
    /\ ~IsCovenanter(m)
    /\ \A i \in 1..Len(cases) :
          cases[i].applicant = m => cases[i].application \notin {"submitted", "admitted"}

\* An applicant without a member row gets one at commit; user name and member
\* number are unique, so of two such requests only one commits.
BeginSubmit(s, m) ==
    /\ MaySubmit(m)
    /\ Len(cases) < MaxCases
    /\ Begin(s, Request("submit", m, IF status[m] = "absent" THEN 1 ELSE 0))
    /\ UNCHANGED <<rowVars, changes>>

\* A plausible bug: the proposal is created without looking for a policy.
CommitSubmitNoPolicy(s) ==
    LET m == sess[s].member
    IN  /\ sess[s].op = "submit"
        /\ sess[s].n = 1 => status[m] = "absent"
        /\ Len(cases) < MaxCases
        /\ cases' = Append(cases, NewCase(m))
        /\ status' = [status EXCEPT ![m] = "pending_review"]
        /\ Finish(s)
        /\ UNCHANGED <<terms, rules, activated, changes>>

\* From the first append_event of submit_member_application to its commit: the
\* latest policy is read behind the chain lock that publishing needs as well.
CommitSubmit(s) ==
    LET m == sess[s].member
    IN  /\ sess[s].op = "submit"
        /\ sess[s].n = 1 => status[m] = "absent"
        /\ Len(cases) < MaxCases
        /\ cases' = Append(cases, IF rules = <<>> THEN NewCase(m)
                                  ELSE Started(NewCase(m), Len(rules)))
        /\ status' = [status EXCEPT ![m] = "pending_review"]
        /\ Finish(s)
        /\ UNCHANGED <<terms, rules, activated, changes>>

-----------------------------------------------------------------------------
(* Policy. *)

\* publish_electorate_rule_version, under the template lock.
Publish(s, m, policy) ==
    /\ Len(rules) < MaxVersions
    /\ HasPermission(m)
    /\ rules' = Append(rules, policy)
    /\ Begin(s, Request("activate", m, Len(rules) + 1))
    /\ UNCHANGED <<status, terms, activated, cases, changes>>

\* activate_waiting_proposals_for_rule, the second transaction of the request.
Activate(s) ==
    LET v == sess[s].n
    IN  /\ sess[s].op = "activate"
        /\ cases' = [i \in 1..Len(cases) |->
                       IF cases[i].proposal = "awaiting_policy" THEN Started(cases[i], v)
                       ELSE cases[i]]
        /\ activated' = activated \cup {v}
        /\ Finish(s)
        /\ UNCHANGED <<status, terms, rules, changes>>

-----------------------------------------------------------------------------
(* Ballots. *)

\* A plausible bug: the proposal is read without select_for_update.
BeginBallotUnlocked(s, m, i, choice) ==
    LET c == cases[i]
    IN  /\ c.proposal = "voting"
        /\ ~c.overdue
        /\ MayVote(c, m)
        /\ Len(c.ballots[m]) < MaxRevisions
        /\ Begin(s, [Request("ballot", m, i) EXCEPT !.choice = choice])
        /\ UNCHANGED <<rowVars, changes>>

\* cast_electorate_ballot up to the ballot it writes.
BeginBallot(s, m, i, choice) ==
    LET c == cases[i]
    IN  /\ Unlocked(i)
        /\ c.proposal = "voting"
        /\ ~c.overdue
        /\ MayVote(c, m)
        /\ Len(c.ballots[m]) < MaxRevisions
        /\ Begin(s, [Request("ballot", m, i) EXCEPT !.choice = choice])
        /\ UNCHANGED <<rowVars, changes>>

\* finalize_electorate_proposal up to the count: it brings no ballot.
BeginFinalize(s, m, i) ==
    /\ Unlocked(i)
    /\ HasPermission(m)
    /\ cases[i].proposal = "voting"
    /\ cases[i].overdue
    /\ Begin(s, Request("ballot", m, i))
    /\ UNCHANGED <<rowVars, changes>>

\* The case with the ballot that request r brings.
Voted(c, r) ==
    IF r.choice = "none" THEN c ELSE [c EXCEPT !.ballots[r.member] = Append(@, r.choice)]

\* proposal_tally looks up who of the voters may still vote, unlocked and one after the
\* other; a change of one member moves before or after the look-up of another.
CountVoters(s) ==
    /\ sess[s].op = "ballot"
    /\ sess' = [sess EXCEPT ![s].op = "resolve",
                            ![s].found = Voters(Voted(cases[sess[s].n], sess[s]))]
    /\ UNCHANGED <<rowVars, changes>>

\* The ballot and what follows from the count are committed. A finalisation found the
\* deadline passed, a ballot found it ahead.
CommitCount(s) ==
    LET r == sess[s]
    IN  /\ r.op = "resolve"
        /\ cases' = [cases EXCEPT ![r.n] = Resolved(Voted(@, r), r.found, r.choice = "none")]
        /\ Finish(s)
        /\ UNCHANGED <<status, terms, rules, activated, changes>>

\* The voting deadline passes, whoever holds the row.
Deadline(i) ==
    /\ cases[i].proposal = "voting"
    /\ ~cases[i].overdue
    /\ cases' = [cases EXCEPT ![i].overdue = TRUE]
    /\ UNCHANGED <<status, terms, rules, activated, sess, changes>>

-----------------------------------------------------------------------------
(* Execution. *)

Executable(i) ==
    /\ cases[i].outcome = "approved"
    /\ cases[i].proposal \in {"approved", "execution_failed"}

\* The checks of _execute_member_admission.
MayAdmit(actor, a) ==
    /\ a # actor
    /\ ~Disabled(a)
    /\ terms[a] = 0

\* execute_electorate_proposal up to the lock of the applicant's row.
BeginExecute(s, m, i) ==
    /\ HasPermission(m)
    /\ Executable(i)
    /\ Unlocked(i)
    /\ MayAdmit(m, cases[i].applicant)
    /\ Begin(s, Request("execute", m, i))
    /\ UNCHANGED <<rowVars, changes>>

Fail(i) == cases' = [cases EXCEPT ![i].proposal = "execution_failed"]

\* A check refuses: the failure is recorded on the proposal, which may be retried.
RefuseExecute(m, i) ==
    /\ HasPermission(m)
    /\ Executable(i)
    /\ Unlocked(i)
    /\ ~MayAdmit(m, cases[i].applicant)
    /\ Fail(i)
    /\ UNCHANGED <<status, terms, rules, activated, sess, changes>>

\* A plausible bug: create_role_assignment trusts the checks made before the lock.
AssignUnchecked(s, a) ==
    /\ terms' = [terms EXCEPT ![a] = @ + 1]
    /\ status' = [status EXCEPT ![a] = "admitted"]

\* A plausible bug: a current assignment is not looked for.
AssignSecond(s, a) ==
    /\ ~Disabled(a)
    /\ terms' = [terms EXCEPT ![a] = @ + 1]
    /\ status' = [status EXCEPT ![a] = "admitted"]

\* create_role_assignment, with the member row locked: the prerequisites are looked
\* at again, and a current assignment is used rather than a second one made.
Assign(s, a) ==
    /\ ~Disabled(a)
    /\ terms' = [terms EXCEPT ![a] = IF @ = 0 THEN 1 ELSE @]
    /\ status' = [status EXCEPT ![a] = "admitted"]

CommitExecute(s) ==
    LET i == sess[s].n
    IN  /\ sess[s].op = "execute"
        /\ Assign(s, cases[i].applicant)
        /\ cases' = [cases EXCEPT ![i].proposal = "executed", ![i].application = "admitted"]
        /\ Finish(s)
        /\ UNCHANGED <<rules, activated, changes>>

\* The prerequisites no longer hold behind the lock: the inner transaction is
\* rolled back and the failure recorded.
FailExecute(s) ==
    LET i == sess[s].n
    IN  /\ sess[s].op = "execute"
        /\ Disabled(cases[i].applicant)
        /\ Fail(i)
        /\ Finish(s)
        /\ UNCHANGED <<status, terms, rules, activated, changes>>

-----------------------------------------------------------------------------
Init ==
    /\ status = [m \in Members |-> IF m \in Founders THEN "active" ELSE "absent"]
    /\ terms = [m \in Members |-> IF m \in Founders THEN 1 ELSE 0]
    /\ rules = <<>>
    /\ activated = {}
    /\ cases = <<>>
    /\ sess = [s \in Sessions |-> Idle]
    /\ changes = 0

Next ==
    \/ \E m \in Members : Register(m) \/ Lifecycle(m)
    \/ \E s \in Sessions :
          \/ Rollback(s) \/ CommitSubmit(s) \/ Activate(s)
          \/ CountVoters(s) \/ CommitCount(s)
          \/ CommitExecute(s) \/ FailExecute(s)
          \/ \E m \in Members : BeginSubmit(s, m)
          \/ \E m \in Members, i \in 1..Len(cases), c \in Choices : BeginBallot(s, m, i, c)
          \/ \E m \in Operators, p \in Policies : Publish(s, m, p)
          \/ \E m \in Operators, i \in 1..Len(cases) :
                BeginFinalize(s, m, i) \/ BeginExecute(s, m, i)
    \/ \E i \in 1..Len(cases) :
          \/ Deadline(i)
          \/ \E m \in Operators : RefuseExecute(m, i)

Spec == Init /\ [][Next]_vars

-----------------------------------------------------------------------------
(* Properties. *)

Statuses == {"absent", "pending_review", "admitted", "active", "suspended"}

TypeOK ==
    /\ status \in [Members -> Statuses]
    /\ terms \in [Members -> Nat]
    /\ rules \in Seq(Policies)
    /\ activated \subseteq 1..Len(rules)
    /\ cases \in Seq([applicant : Members, application : ApplicationStatuses,
                      proposal : {"awaiting_policy", "voting", "approved", "rejected",
                                  "expired", "executed", "execution_failed"},
                      version : 0..Len(rules), electors : SUBSET Members,
                      ballots : [Members -> Seq(Choices)], overdue : BOOLEAN,
                      outcome : {"none", "approved", "rejected", "expired"},
                      evidence : [approve : Nat, reject : Nat, part : Nat]])
    /\ sess \in [Sessions -> [op : {"none", "submit", "activate"} \cup Locking,
                              member : Members \cup {NoMember}, n : Nat,
                              choice : Choices \cup {"none"}, found : SUBSET Members]]
    /\ changes \in 0..MaxLifecycle

\* Application, proposal and resolution tell one story: admitted exactly when the
\* proposal was executed, rejected exactly when it was voted down or ran out
\* (_sync_member_application_resolution and _execute_member_admission).
ApplicationAgrees ==
    \A i \in 1..Len(cases) :
        LET c == cases[i]
        IN  /\ c.application = "admitted" <=> c.proposal = "executed"
            /\ c.application = "rejected" <=> c.outcome \in {"rejected", "expired"}
            /\ c.outcome = "none" <=> c.proposal \in {"awaiting_policy", "voting"}
            /\ c.outcome = "approved" <=>
                  c.proposal \in {"approved", "executed", "execution_failed"}

\* Whoever is admitted was approved by enough distinct members of the electorate
\* frozen when the vote began, with enough taking part, and not by themselves:
\* thresholds are those of the bound version whatever was published since.
AdmittedByElectorate ==
    \A i \in 1..Len(cases) : cases[i].outcome = "approved" =>
        LET c == cases[i]
            voters == {m \in Members : c.ballots[m] # <<>>}
        IN  /\ c.version \in 1..Len(rules)
            /\ Cardinality({m \in voters : Latest(c, m) = "approve"}) >= rules[c.version].approve
            /\ c.evidence.approve >= rules[c.version].approve
            /\ c.evidence.part >= rules[c.version].minimum
            /\ voters \subseteq c.electors \ {c.applicant}

\* One covenanter term at a time, however often and by whomever executions are
\* tried (create_role_assignment reuses a current assignment).
OneCurrentTerm == \A m \in Members : terms[m] <= 1

\* No proposal is left waiting for a policy once some version's waiting proposals
\* have been activated: later submissions find the version, because publishing and
\* submitting both pass through the end of the event chain.
NobodyLeftWaiting ==
    activated # {} => \A i \in 1..Len(cases) : cases[i].proposal # "awaiting_policy"

\* What is decided is decided by a count of the voters who may vote when it is made
\* ("只按快照内且当前仍合格成员的最后一份票据计算票数"), not of the electors of the
\* snapshot, and by the ballots as they stand when the decision is written: no other
\* request votes in between, and among the counted there are enough who approve.
ApprovedByEligible ==
    \A s \in Sessions :
       LET r == sess[s]
           i == r.n
       IN  /\ r.op = "ballot" /\ sess'[s].op = "resolve" =>
                 \A m \in sess'[s].found : MayVote(cases[i], m)
           /\ r.op = "resolve" /\ cases'[i].outcome = "approved" =>
                 /\ r.found \subseteq {m \in Members : cases'[i].ballots[m] # <<>>}
                 /\ Cardinality({m \in r.found : Latest(cases'[i], m) = "approve"})
                       >= rules[cases[i].version].approve

\* Nothing is reopened: a decided case keeps its outcome, evidence, electorate and
\* ballots, an executed one stays executed, and a running vote keeps its version and
\* electorate.
Settled ==
    \A i \in 1..Len(cases) :
       /\ cases[i].outcome # "none" =>
             /\ cases'[i].outcome = cases[i].outcome
             /\ cases'[i].evidence = cases[i].evidence
             /\ cases'[i].ballots = cases[i].ballots
       /\ cases[i].version # 0 =>
             /\ cases'[i].version = cases[i].version
             /\ cases'[i].electors = cases[i].electors
       /\ cases[i].proposal = "executed" => cases'[i] = cases[i]

\* "成员状态已停用，不能授予新角色": no execution revives a member who was suspended
\* after the execution had checked.
NoTermForDisabled ==
    \A m \in Members : terms'[m] > terms[m] => ~Disabled(m)

\* Admission: application, proposal and resolution tell one story, whoever is admitted was
\* approved by enough members of the frozen electorate, nobody has two covenanter terms,
\* and no proposal waits for a policy once some version has been activated.
AdmissionSound ==
    TypeOK /\ ApplicationAgrees /\ AdmittedByElectorate /\ OneCurrentTerm /\ NobodyLeftWaiting

-----------------------------------------------------------------------------
(* What the repository says of itself and the code does not keep: the runs do *)
(* not check these, the README says how each fails.                           *)

\* "只按快照内且当前仍合格成员的最后一份票据计算票数": whoever is counted may still vote
\* when the decision is written.
ApprovedByEligibleNow ==
    [][\A i \in 1..Len(cases) :
          (cases[i].outcome = "none" /\ cases'[i].outcome = "approved") =>
             Cardinality({m \in Voters(cases'[i]) : Latest(cases'[i], m) = "approve"})
                >= rules[cases[i].version].approve]_vars

\* "当前账号已有未结束的成员报名，不能重复提交。": a member has one application at a
\* time that is open or admitted.
OneOpenApplication ==
    \A i, j \in 1..Len(cases) :
        /\ cases[i].applicant = cases[j].applicant
        /\ {cases[i].application, cases[j].application} \subseteq {"submitted", "admitted"}
        => i = j

\* "当前账号成员状态已停用，不能提交成员报名。": a submission never takes a suspended
\* member out of suspension.
SubmitKeepsSuspension ==
    [][\A m \in Members : (Disabled(m) /\ status'[m] = "pending_review") => FALSE]_vars

\* "已通过提案执行时申请人已停用、退出或已有冲突任期 ... 系统拒绝业务执行": an
\* execution that succeeds makes the applicant's term; it never finds one.
ExecutedMakesTerm ==
    [][\A i \in 1..Len(cases) :
          (cases[i].proposal # "executed" /\ cases'[i].proposal = "executed") =>
             terms[cases[i].applicant] = 0]_vars

=============================================================================

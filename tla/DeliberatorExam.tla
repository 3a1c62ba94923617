--------------------------- MODULE DeliberatorExam ---------------------------
(***************************************************************************)
(* The deliberator examination: core/deliberator_exam_services.py, its       *)
(* pages in workspace/deliberator_exam_views.py and the administration.      *)
(*                                                                         *)
(* The question bank keeps versions of questions; a policy says how many to  *)
(* ask. An attempt is graded under its own row lock, and a passed one gets a *)
(* term from create_role_assignment under the member's. Administrators act   *)
(* on question objects they loaded earlier. Every question is worth a point. *)
(***************************************************************************)
EXTENDS Integers, Sequences, FiniteSets, FiniteSetsExt

CONSTANTS
    Members,
    Questions,      \* ids of questions
    Sessions,
    Percents,       \* passing percentages that are published
    MaxVersions,    \* bound on versions of a question
    MaxPolicies,    \* bound on policies
    MaxAttempts,    \* bound on attempts
    MaxReplaced,    \* bound on uses of replace_exam_question
    MaxChanges,     \* bound on lost or regained eligibility
    MaxTerms        \* bound on terms that end

DeliberatorExamAssumption ==
    /\ MaxVersions \in Nat \ {0}
    /\ {MaxPolicies, MaxAttempts, MaxReplaced, MaxChanges, MaxTerms} \subseteq Nat
    /\ Percents \subseteq 1..100

VARIABLES
    bank,        \* question -> statuses of its versions
    policies,    \* policies by version
    attempts,    \* attempts in order of creation
    terms,       \* deliberator terms in order of creation
    eligible,    \* members who are active covenanters with a usable account
    sess,        \* session -> the request it serves
    replaced, changes, ended

vars == <<bank, policies, attempts, terms, eligible, sess, replaced, changes, ended>>

-----------------------------------------------------------------------------
Versions == UNION {{q} \X (1..Len(bank[q])) : q \in Questions}

Status(x) == bank[x[1]][x[2]]

Published == {x \in Versions : Status(x) = "published"}

Active == {p \in 1..Len(policies) : policies[p].status = "active"}

RunningTerms(m) == {t \in 1..Len(terms) : terms[t].member = m /\ terms[t].running}

\* _assert_exam_candidate.
Candidate(m) == m \in eligible /\ RunningTerms(m) = {}

\* deliberator_exam_readiness.
Ready == \E p \in Active : Cardinality(Published) >= policies[p].count

\* The passing score: a percentage of the total, rounded up.
PassingScore(total, percent) == (total * percent + 99) \div 100

Idle == [op |-> "idle", q |-> <<>>, seen |-> "none", others |-> {}, policy |-> 0, attempt |-> 0,
         member |-> {}, score |-> 0, new |-> 0, percent |-> 0]

Start(s, r) == sess[s].op = "idle" /\ sess' = [sess EXCEPT ![s] = r]

End(s) == sess' = [sess EXCEPT ![s] = Idle]

-----------------------------------------------------------------------------
(* The question bank. *)

\* create_exam_question: the first version, as a draft or published.
CreateQuestion(q, status) ==
    /\ bank[q] = <<>>
    /\ status \in {"draft", "published"}
    /\ bank' = [bank EXCEPT ![q] = <<status>>]
    /\ UNCHANGED <<policies, attempts, terms, eligible, sess, replaced, changes, ended>>

\* An administrator selects a version; the object keeps the status it was loaded with.
LoadQuestion(s, x) ==
    /\ Start(s, [Idle EXCEPT !.op = "loaded", !.q = x, !.seen = Status(x)])
    /\ UNCHANGED <<bank, policies, attempts, terms, eligible, replaced, changes, ended>>

\* Rows that a publication under way has retired and not yet committed.
Held == UNION {sess[t].others : t \in Sessions}

\* publish_exam_question: the other published versions are retired, which waits for
\* rows another request holds ...
BeginPublish(s) ==
    LET others == {x \in Published : x[1] = sess[s].q[1] /\ x # sess[s].q}
    IN  /\ sess[s].op = "loaded"
        /\ sess[s].seen = "draft"
        /\ others \cap Held = {}
        /\ sess' = [sess EXCEPT ![s].op = "publishing", ![s].others = others]
        /\ UNCHANGED <<bank, policies, attempts, terms, eligible, replaced, changes, ended>>

\* ... and the version is saved as published.
CommitPublish(s) ==
    LET q == sess[s].q[1]
    IN  /\ sess[s].op = "publishing"
        /\ sess[s].q \notin Held
        /\ bank' = [bank EXCEPT ![q] = [v \in DOMAIN @ |->
                        IF <<q, v>> = sess[s].q THEN "published"
                        ELSE IF <<q, v>> \in sess[s].others THEN "retired" ELSE @[v]]]
        /\ End(s)
        /\ UNCHANGED <<policies, attempts, terms, eligible, replaced, changes, ended>>

\* copy_exam_question_to_draft: from the newest version, by the loaded status no draft.
CopyToDraft(s) ==
    LET q == sess[s].q[1]
    IN  /\ sess[s].op = "loaded"
        /\ sess[s].q[2] = Len(bank[q])
        /\ sess[s].seen # "draft"
        /\ Len(bank[q]) < MaxVersions
        /\ bank' = [bank EXCEPT ![q] = Append(@, "draft")]
        /\ End(s)
        /\ UNCHANGED <<policies, attempts, terms, eligible, replaced, changes, ended>>

\* retire_exam_question, by the loaded status.
Retire(s) ==
    LET x == sess[s].q
    IN  /\ sess[s].op = "loaded"
        /\ x \notin Held
        /\ bank' = IF sess[s].seen = "retired" THEN bank
                   ELSE [bank EXCEPT ![x[1]][x[2]] = "retired"]
        /\ End(s)
        /\ UNCHANGED <<policies, attempts, terms, eligible, replaced, changes, ended>>

\* replace_exam_question: the loaded version is retired and the next one published;
\* its number is unique.
Replace(s) ==
    LET x == sess[s].q
    IN  /\ sess[s].op = "loaded"
        /\ replaced < MaxReplaced
        /\ x \notin Held
        /\ x[2] = Len(bank[x[1]]) /\ x[2] < MaxVersions
        /\ bank' = [bank EXCEPT ![x[1]] = Append([@ EXCEPT ![x[2]] = "retired"], "published")]
        /\ replaced' = replaced + 1
        /\ End(s)
        /\ UNCHANGED <<policies, attempts, terms, eligible, changes, ended>>

\* A refused request changes nothing.
Refuse(s) ==
    /\ sess[s].op = "loaded"
    /\ sess[s].seen # "draft"
    /\ End(s)
    /\ UNCHANGED <<bank, policies, attempts, terms, eligible, replaced, changes, ended>>

-----------------------------------------------------------------------------
(* Policies. *)

\* publish_exam_policy up to its insert: enough questions are published, and the
\* policy in force is retired, which waits for its row.
BeginPolicy(s, count, percent) ==
    /\ count >= 1 /\ Cardinality(Published) >= count
    /\ Len(policies) < MaxPolicies
    /\ Active # {} => \A t \in Sessions : sess[t].op # "policy" \/ sess[t].policy \notin Active
    /\ Start(s, [Idle EXCEPT !.op = "policy", !.new = count, !.percent = percent,
                             !.policy = IF Active = {} THEN 0 ELSE CHOOSE p \in Active : TRUE])
    /\ UNCHANGED <<bank, policies, attempts, terms, eligible, replaced, changes, ended>>

\* A plausible bug: nothing but the old policy is looked at.
CommitPolicyAnyway(s) ==
    LET old == sess[s].policy
        kept == [p \in 1..Len(policies) |->
                   IF p = old THEN [policies[p] EXCEPT !.status = "retired"] ELSE policies[p]]
        made == [count |-> sess[s].new, percent |-> sess[s].percent, status |-> "active"]
    IN  /\ sess[s].op = "policy"
        /\ policies' = Append(kept, made)
        /\ End(s)
        /\ UNCHANGED <<bank, attempts, terms, eligible, replaced, changes, ended>>

\* The insert: the slot of the policy in force is unique, as is the version.
CommitPolicy(s) ==
    LET old == sess[s].policy
        kept == [p \in 1..Len(policies) |->
                   IF p = old THEN [policies[p] EXCEPT !.status = "retired"] ELSE policies[p]]
        made == [count |-> sess[s].new, percent |-> sess[s].percent, status |-> "active"]
    IN  /\ sess[s].op = "policy"
        /\ policies' = IF Active \ {old} = {} THEN Append(kept, made) ELSE policies
        /\ End(s)
        /\ UNCHANGED <<bank, attempts, terms, eligible, replaced, changes, ended>>

\* ensure_simulation_exam_baseline, on an empty simulation world.
Baseline ==
    /\ ~Ready
    /\ \A q \in Questions : bank[q] = <<>>
    /\ Active = {}
    /\ Len(policies) < MaxPolicies
    /\ bank' = [bank EXCEPT ![CHOOSE q \in Questions : TRUE] = <<"published">>]
    /\ policies' = Append(policies, [count |-> 1, percent |-> 100, status |-> "active"])
    /\ UNCHANGED <<attempts, terms, eligible, sess, replaced, changes, ended>>

-----------------------------------------------------------------------------
(* Attempts. *)

\* start_deliberator_exam: the candidate and the readiness are checked ...
BeginExam(s, m) ==
    /\ Candidate(m)
    /\ Ready
    /\ Len(attempts) < MaxAttempts
    /\ Start(s, [Idle EXCEPT !.op = "exam", !.member = {m}])
    /\ UNCHANGED <<bank, policies, attempts, terms, eligible, replaced, changes, ended>>

\* ... then the policy in force is locked, the questions counted again and drawn.
DrawExam(s) ==
    LET m == CHOOSE x \in Members : x \in sess[s].member
        p == CHOOSE x \in Active : TRUE
    IN  /\ sess[s].op = "exam"
        /\ \A t \in Sessions : sess[t].op = "policy" => sess[t].policy \notin Active
        /\ Ready
        /\ Len(attempts) < MaxAttempts
        /\ \E sample \in kSubset(policies[p].count, Published) :
              attempts' = Append(attempts,
                 [member |-> m, sample |-> sample, status |-> "in_progress", score |-> 0,
                  need |-> PassingScore(Cardinality(sample), policies[p].percent), term |-> 0])
        /\ End(s)
        /\ UNCHANGED <<bank, policies, terms, eligible, replaced, changes, ended>>

\* The policy or the questions are gone: no attempt is made.
RefuseExam(s) ==
    /\ sess[s].op = "exam"
    /\ ~Ready \/ Len(attempts) = MaxAttempts
    /\ End(s)
    /\ UNCHANGED <<bank, policies, attempts, terms, eligible, replaced, changes, ended>>

\* A plausible bug: a failed attempt may be handed in again.
SubmitAgain(s, a, score) ==
    LET m == attempts[a].member
        passed == Candidate(m) /\ score >= attempts[a].need
    IN  /\ sess[s].op = "idle"
        /\ \A t \in Sessions : sess[t].op \in {"grant", "appoint"} => sess[t].attempt # a
        /\ attempts[a].status \in {"in_progress", "failed"}
        /\ IF passed
           THEN /\ sess' = [sess EXCEPT ![s] = [Idle EXCEPT !.op = "grant", !.attempt = a,
                                                           !.member = {m}, !.score = score]]
                /\ UNCHANGED attempts
           ELSE /\ attempts' = [attempts EXCEPT ![a].status = "failed"]
                /\ UNCHANGED sess
        /\ UNCHANGED <<bank, policies, terms, eligible, replaced, changes, ended>>

\* submit_deliberator_exam: under the lock of the attempt, whoever is no candidate any
\* more is invalidated, whoever misses the score has failed, and whoever reaches it
\* goes on to the appointment.
Submit(s, a, score) ==
    LET m == attempts[a].member
        passed == Candidate(m) /\ score >= attempts[a].need
    IN  /\ sess[s].op = "idle"
        /\ \A t \in Sessions : sess[t].op \in {"grant", "appoint"} => sess[t].attempt # a
        /\ attempts[a].status = "in_progress"
        /\ score \in 0..Cardinality(attempts[a].sample)
        /\ IF passed
           THEN /\ sess' = [sess EXCEPT ![s] = [Idle EXCEPT !.op = "grant", !.attempt = a,
                                                           !.member = {m}, !.score = score]]
                /\ UNCHANGED attempts
           ELSE /\ attempts' = [attempts EXCEPT
                       ![a].status = IF Candidate(m) THEN "failed" ELSE "invalidated",
                       ![a].score = IF Candidate(m) THEN score ELSE 0]
                /\ UNCHANGED sess
        /\ UNCHANGED <<bank, policies, terms, eligible, replaced, changes, ended>>

\* create_role_assignment locks the member and looks at the prerequisites; the terms
\* that make a covenanter are not locked.
CheckGrant(s) ==
    LET m == attempts[sess[s].attempt].member
    IN  /\ sess[s].op = "grant"
        /\ m \in eligible
        /\ \A t \in Sessions : sess[t].op = "appoint" => sess[t].member # {m}
        /\ sess' = [sess EXCEPT ![s].op = "appoint"]
        /\ UNCHANGED <<bank, policies, attempts, terms, eligible, replaced, changes, ended>>

\* A plausible bug: a term that another attempt produced counts for this one as well.
GrantShared(s) ==
    LET a == sess[s].attempt
        m == attempts[a].member
        running == RunningTerms(m)
        t == IF running = {} THEN Len(terms) + 1 ELSE Max(running)
    IN  /\ sess[s].op = "appoint"
        /\ terms' = IF running = {} THEN Append(terms, [member |-> m, running |-> TRUE]) ELSE terms
        /\ attempts' = [attempts EXCEPT ![a].status = "passed", ![a].score = sess[s].score,
                                        ![a].term = t]
        /\ End(s)
        /\ UNCHANGED <<bank, policies, eligible, replaced, changes, ended>>

\* A plausible bug: a running term is not looked for.
GrantSecond(s) ==
    LET a == sess[s].attempt
        m == attempts[a].member
    IN  /\ sess[s].op = "appoint"
        /\ terms' = Append(terms, [member |-> m, running |-> TRUE])
        /\ attempts' = [attempts EXCEPT ![a].status = "passed", ![a].score = sess[s].score,
                                        ![a].term = Len(terms) + 1]
        /\ End(s)
        /\ UNCHANGED <<bank, policies, eligible, replaced, changes, ended>>

\* The appointment, the member still locked: a running term is reused, and an attempt
\* whose term belongs to another attempt is invalidated.
Grant(s) ==
    LET a == sess[s].attempt
        m == attempts[a].member
        running == RunningTerms(m)
        t == IF running = {} THEN Len(terms) + 1 ELSE Max(running)
        taken == \E b \in 1..Len(attempts) : b # a /\ attempts[b].term = t
    IN  /\ sess[s].op = "appoint"
        /\ terms' = IF running = {} THEN Append(terms, [member |-> m, running |-> TRUE]) ELSE terms
        /\ attempts' = [attempts EXCEPT ![a].status = IF taken THEN "invalidated" ELSE "passed",
                                        ![a].score = sess[s].score,
                                        ![a].term = IF taken THEN 0 ELSE t]
        /\ End(s)
        /\ UNCHANGED <<bank, policies, eligible, replaced, changes, ended>>

\* The prerequisites no longer hold: the whole submission is rolled back.
RollbackGrant(s) ==
    /\ sess[s].op = "grant"
    /\ attempts[sess[s].attempt].member \notin eligible
    /\ End(s)
    /\ UNCHANGED <<bank, policies, attempts, terms, eligible, replaced, changes, ended>>

-----------------------------------------------------------------------------
\* Covenanter terms run out, members are suspended and come back.
Change(m) ==
    /\ changes < MaxChanges
    /\ changes' = changes + 1
    /\ eligible' = IF m \in eligible THEN eligible \ {m} ELSE eligible \cup {m}
    /\ UNCHANGED <<bank, policies, attempts, terms, sess, replaced, ended>>

\* A deliberator's term ends.
EndTerm(t) ==
    /\ terms[t].running
    /\ ended < MaxTerms
    /\ ended' = ended + 1
    /\ terms' = [terms EXCEPT ![t].running = FALSE]
    /\ UNCHANGED <<bank, policies, attempts, eligible, sess, replaced, changes>>

Init ==
    /\ bank = [q \in Questions |-> <<>>]
    /\ policies = <<>>
    /\ attempts = <<>>
    /\ terms = <<>>
    /\ eligible = Members
    /\ sess = [s \in Sessions |-> Idle]
    /\ replaced = 0 /\ changes = 0 /\ ended = 0

Next ==
    \/ \E q \in Questions, st \in {"draft", "published"} : CreateQuestion(q, st)
    \/ Baseline
    \/ \E s \in Sessions :
          \/ \E x \in Versions : LoadQuestion(s, x)
          \/ BeginPublish(s) \/ CommitPublish(s) \/ CopyToDraft(s) \/ Retire(s) \/ Replace(s)
          \/ Refuse(s)
          \/ \E n \in 1..Cardinality(Questions), pc \in Percents : BeginPolicy(s, n, pc)
          \/ CommitPolicy(s)
          \/ \E m \in Members : BeginExam(s, m)
          \/ DrawExam(s) \/ RefuseExam(s)
          \/ \E a \in 1..Len(attempts) :
                \E score \in 0..Cardinality(attempts[a].sample) : Submit(s, a, score)
          \/ CheckGrant(s) \/ Grant(s) \/ RollbackGrant(s)
    \/ \E m \in Members : Change(m)
    \/ \E t \in 1..Len(terms) : EndTerm(t)

Spec == Init /\ [][Next]_vars

-----------------------------------------------------------------------------
(* Properties. *)

\* The type invariant.
TypeOK ==
    /\ \A q \in Questions : /\ bank[q] \in Seq({"draft", "published", "retired"})
                            /\ Len(bank[q]) <= MaxVersions
    /\ \A p \in 1..Len(policies) : policies[p].status \in {"active", "retired"}
    /\ \A a \in 1..Len(attempts) :
          /\ attempts[a].member \in Members
          /\ attempts[a].status \in {"in_progress", "passed", "failed", "invalidated"}
          /\ attempts[a].term \in 0..Len(terms)
          /\ attempts[a].need \in 1..Cardinality(attempts[a].sample)
    /\ eligible \subseteq Members

\* "最多创建一届当前有效执衡者任期": however attempts of one member are submitted at
\* once, the member has one running term.
OneRunningTerm == \A m \in Members : Cardinality(RunningTerms(m)) <= 1

\* "不得留下已通过但无任期或有任期但无通过记录": passed attempts and terms correspond
\* one to one, and a passed attempt reached its passing score.
PassedIffTerm ==
    /\ \A a \in 1..Len(attempts) : attempts[a].status = "passed" <=> attempts[a].term # 0
    /\ \A t \in 1..Len(terms) :
          Cardinality({a \in 1..Len(attempts) : attempts[a].term = t}) = 1
    /\ \A a \in 1..Len(attempts) :
          attempts[a].status = "passed" => attempts[a].score >= attempts[a].need

\* "每个尝试只形成一个最终结果": a result is never changed again.
ResultFinal ==
    \A a \in 1..Len(attempts) :
       attempts[a].status # "in_progress" => attempts'[a] = attempts[a]

\* "利用数据库唯一约束保证每个 world 至多一项生效政策": publishers at once leave one policy
\* in force.
OneActivePolicy == Cardinality(Active) <= 1

\* Appointment: passed attempts and terms correspond one to one, a member has one running
\* term, and one policy is in force.
AppointmentSound == TypeOK /\ OneRunningTerm /\ PassedIffTerm /\ OneActivePolicy

-----------------------------------------------------------------------------
(* What the repository says of itself and the code does not keep: the runs do *)
(* not check these, the README says how each fails.                           *)

\* "考试期间资格失效 ... 系统拒绝评分和任命": nobody who has lost the qualification is
\* appointed.
AppointedWhileEligible ==
    [][\A t \in 1..Len(terms') : t > Len(terms) => terms'[t].member \in eligible]_vars

\* "无重复随机抽取": no attempt asks the same question in two versions.
NoQuestionTwice ==
    \A a \in 1..Len(attempts) : \A x, y \in attempts[a].sample : x[1] = y[1] => x = y

=============================================================================

-------------------------- MODULE CommunityProofs --------------------------
(***************************************************************************)
(* Proofs about Electorate, DeliberatorExam, Feedback and RiskDesk, for    *)
(* any members, policies, sessions and bounds.                             *)
(*                                                                         *)
(* Of Electorate: a case is judged by itself: CaseOK says what one         *)
(* application with its proposal may look like under the rules published   *)
(* so far, and one lemma per kind of change shows that the change keeps    *)
(* it.  Requests act on what they read before (SessionOK, Holding): a      *)
(* count is of a case that is still voted on, an execution of an approved  *)
(* one, because nobody else holds its row (OneHolder).                     *)
(*                                                                         *)
(* The other three are instantiated, as Exam, Voice and Risk, each with    *)
(* its own inductive invariant: ExamInv relates requests, attempts and     *)
(* terms of office, VoiceInv a case to the events recorded for it, RiskInv *)
(* a challenge to the log of its reviews.                                  *)
(***************************************************************************)
EXTENDS Community, FiniteSetTheorems, TLAPS

ProposalStatuses == {"awaiting_policy", "voting", "approved", "rejected", "expired",
                     "executed", "execution_failed"}

\* One application with its proposal, after n rule versions.
CaseRow(n) ==
    [applicant : Members, application : ApplicationStatuses, proposal : ProposalStatuses,
     version : 0..n, electors : SUBSET Members, ballots : [Members -> Seq(Choices)],
     overdue : BOOLEAN, outcome : {"none", "approved", "rejected", "expired"},
     evidence : [approve : Nat, reject : Nat, part : Nat]]

SessionRow == [op : {"none", "submit", "activate"} \cup Locking,
               member : Members \cup {NoMember}, n : Nat,
               choice : Choices \cup {"none"}, found : SUBSET Members]

-----------------------------------------------------------------------------
(* The inductive invariant. *)

\* Application, proposal and outcome of one case.
CaseAgrees(c) ==
    /\ c.application = "admitted" <=> c.proposal = "executed"
    /\ c.application = "rejected" <=> c.outcome \in {"rejected", "expired"}
    /\ c.outcome = "none" <=> c.proposal \in {"awaiting_policy", "voting"}
    /\ c.outcome = "approved" <=> c.proposal \in {"approved", "executed", "execution_failed"}

\* The electorate of one case: fixed with the version, without the applicant, and
\* nobody else has voted.
CaseElectorate(c) ==
    /\ c.version = 0 <=> c.proposal = "awaiting_policy"
    /\ c.version = 0 => c.electors = {}
    /\ c.applicant \notin c.electors
    /\ \A m \in Members : c.ballots[m] # <<>> => m \in c.electors

\* Those whose last ballot on c approves.
Approvers(c) == {m \in Members : c.ballots[m] # <<>> /\ Latest(c, m) = "approve"}

\* An approved case met the thresholds of its version.
CaseApproved(c, rs) ==
    c.outcome = "approved" =>
       /\ Cardinality(Approvers(c)) >= rs[c.version].approve
       /\ c.evidence.approve >= rs[c.version].approve
       /\ c.evidence.part >= rs[c.version].minimum

CaseOK(c, rs) ==
    /\ c \in CaseRow(Len(rs))
    /\ CaseAgrees(c)
    /\ CaseElectorate(c)
    /\ CaseApproved(c, rs)

Ballot(c) == {m \in Members : c.ballots[m] # <<>>}

\* What request r has read of case c, whose row it holds: the case is voted on, its
\* ballot is an elector's, it counted voters only; or the case is approved.
Holding(r, c) ==
    /\ r.op \in {"ballot", "resolve"} =>
          c.proposal = "voting" /\ (r.choice # "none" => r.member \in c.electors)
    /\ r.op = "resolve" => r.found \subseteq Ballot(Voted(c, r))
    /\ r.op = "execute" => c.proposal \in {"approved", "execution_failed"}

\* What a request has read and may still rely on.
SessionOK(r) ==
    /\ r.op = "submit" => r.member \in Members
    /\ r.op = "activate" => r.n \in 1..Len(rules)
    /\ r.op \in Locking => r.n \in 1..Len(cases) /\ Holding(r, cases[r.n])

OneHolder ==
    \A s, t \in Sessions :
        sess[s].op \in Locking /\ sess[t].op \in Locking /\ sess[s].n = sess[t].n => s = t

\* The rows of the other tables, and the requests.
Tables ==
    /\ status \in [Members -> Statuses]
    /\ terms \in [Members -> Nat]
    /\ rules \in Seq(Policies)
    /\ activated \subseteq 1..Len(rules)
    /\ cases \in Seq(CaseRow(Len(rules)))
    /\ sess \in [Sessions -> SessionRow]
    /\ changes \in 0..MaxLifecycle

IInv ==
    /\ Tables
    /\ \A i \in 1..Len(cases) : CaseOK(cases[i], rules)
    /\ \A s \in Sessions : SessionOK(sess[s])
    /\ OneHolder
    /\ NobodyLeftWaiting
    /\ OneCurrentTerm

\* What the type invariant says, in these names.
LEMMA Typed == TypeOK <=> Tables
BY DEF TypeOK, Tables, CaseRow, ProposalStatuses, SessionRow

\* Nothing has happened yet.
LEMMA InitIInv == ASSUME ElectorateAssumption, Init PROVE IInv
<1> USE ElectorateAssumption DEF ElectorateAssumption
<1>1. Tables
  BY DEF Init, Tables, Idle, SessionRow, Statuses, Locking
<1>2. Len(cases) = 0
  BY DEF Init
<1>3. \A s \in Sessions : SessionOK(sess[s])
  BY DEF Init, Idle, SessionOK, Locking
<1>4. OneHolder
  BY DEF Init, Idle, OneHolder, Locking
<1>5. NobodyLeftWaiting
  BY DEF Init, NobodyLeftWaiting
<1>6. OneCurrentTerm
  BY DEF Init, OneCurrentTerm
<1> QED
  BY <1>1, <1>2, <1>3, <1>4, <1>5, <1>6 DEF IInv

-----------------------------------------------------------------------------
(* The tally. *)

\* A tally is a number, and it counts the last ballots of distinct voters.
LEMMA CountedType ==
    ASSUME ElectorateAssumption, NEW c, NEW found \in SUBSET Members, NEW choices
    PROVE  Counted(c, found, choices) \in Nat
<1> DEFINE S == {m \in found : Latest(c, m) \in choices}
<1>1. IsFiniteSet(S)
  <2>1. S \subseteq Members
    OBVIOUS
  <2> QED
    BY <2>1, FS_Subset DEF ElectorateAssumption
<1> QED
  BY <1>1, FS_CardinalityType DEF Counted

\* Only approvers are counted as approving.
LEMMA CountedApprovers ==
    ASSUME ElectorateAssumption, NEW c, NEW found \in SUBSET Ballot(c)
    PROVE  /\ Cardinality(Approvers(c)) \in Nat
           /\ Counted(c, found, {"approve"}) <= Cardinality(Approvers(c))
<1> DEFINE S == {m \in found : Latest(c, m) \in {"approve"}}
<1>1. S \subseteq Approvers(c)
  BY DEF Approvers, Ballot
<1>2. IsFiniteSet(Approvers(c))
  BY FS_Subset DEF ElectorateAssumption, Approvers
<1>3. Cardinality(S) <= Cardinality(Approvers(c))
  BY <1>1, <1>2, FS_Subset
<1> QED
  BY <1>2, <1>3, FS_CardinalityType DEF Counted

\* A vote ends in the result the thresholds or the rule give, or goes on.
LEMMA OutcomeMeans ==
    ASSUME ElectorateAssumption, NEW c, NEW found, NEW late, rules[c.version] \in Rule
    PROVE  /\ Outcome(c, found, late) \in {"none", "approved", "rejected", "expired"}
           /\ Outcome(c, found, late) = "approved" =>
                 /\ Counted(c, found, Choices) >= rules[c.version].minimum
                 /\ Counted(c, found, {"approve"}) >= rules[c.version].approve
BY DEF Outcome, Rule

-----------------------------------------------------------------------------
(* What the changes of a case preserve. *)

\* The version of a case that was put to the vote is a published rule.
LEMMA RuleBound ==
    ASSUME ElectorateAssumption, rules \in Seq(Policies), NEW c, CaseOK(c, rules),
           c.proposal # "awaiting_policy"
    PROVE  c.version \in 1..Len(rules) /\ rules[c.version] \in Rule
<1>1. c.version \in 0..Len(rules) /\ c.version # 0
  BY DEF CaseOK, CaseRow, CaseElectorate
<1>2. c.version \in 1..Len(rules)
  BY <1>1
<1> QED
  BY <1>2 DEF ElectorateAssumption

\* A new case waits for a policy.
LEMMA NewCaseOK ==
    ASSUME rules \in Seq(Policies), NEW m \in Members
    PROVE  CaseOK(NewCase(m), rules) /\ NewCase(m).proposal = "awaiting_policy"
<1>1. NewCase(m) \in CaseRow(Len(rules))
  BY DEF NewCase, CaseRow, NoEvidence, ApplicationStatuses, ProposalStatuses
<1>2. CaseAgrees(NewCase(m)) /\ CaseElectorate(NewCase(m)) /\ CaseApproved(NewCase(m), rules)
  BY DEF NewCase, CaseAgrees, CaseElectorate, CaseApproved
<1> QED
  BY <1>1, <1>2 DEF CaseOK, NewCase

\* The vote on a waiting case is opened.
LEMMA StartedOK ==
    ASSUME rules \in Seq(Policies), NEW c, CaseOK(c, rules), c.proposal = "awaiting_policy",
           NEW v \in 1..Len(rules)
    PROVE  CaseOK(Started(c, v), rules) /\ Started(c, v).proposal = "voting"
<1> DEFINE d == Started(c, v)
<1>1. c \in CaseRow(Len(rules)) /\ CaseAgrees(c) /\ CaseElectorate(c)
  BY DEF CaseOK
<1>2. /\ d.proposal = "voting" /\ d.version = v
      /\ d.electors = Snapshot(rules[v], c.applicant)
      /\ d.applicant = c.applicant /\ d.application = c.application
      /\ d.ballots = c.ballots /\ d.outcome = c.outcome
  BY <1>1 DEF Started, CaseRow
<1>3. d \in CaseRow(Len(rules))
  <2>1. Snapshot(rules[v], c.applicant) \in SUBSET Members
    BY DEF Snapshot
  <2>2. v \in 0..Len(rules)
    OBVIOUS
  <2> QED
    BY <1>1, <2>1, <2>2 DEF Started, CaseRow, ProposalStatuses
<1>4. c.application = "submitted" /\ c.outcome = "none" /\ c.electors = {}
  BY <1>1 DEF CaseAgrees, CaseElectorate, CaseRow, ApplicationStatuses
<1>5. CaseAgrees(d)
  BY <1>2, <1>4 DEF CaseAgrees
<1>6. CaseElectorate(d)
  <2>1. d.applicant \notin d.electors
    BY <1>2 DEF Snapshot, SatisfiesRule
  <2>2. \A m \in Members : d.ballots[m] = <<>>
    BY <1>1, <1>2, <1>4 DEF CaseElectorate
  <2> QED
    BY <1>2, <2>1, <2>2 DEF CaseElectorate
<1>7. CaseApproved(d, rules)
  BY <1>2, <1>4 DEF CaseApproved
<1> QED
  BY <1>2, <1>3, <1>5, <1>6, <1>7 DEF CaseOK

\* What a ballot leaves of case c: d.
VotedAs(c, rs, d) ==
    /\ CaseOK(d, rs) /\ d.proposal = "voting"
    /\ d.version = c.version /\ d.electors = c.electors /\ d.applicant = c.applicant

\* An elector votes, for the first time or again.
LEMMA VotedOK ==
    ASSUME NEW rs, NEW c, CaseOK(c, rs), c.proposal = "voting",
           NEW r, r.choice \in Choices, r.member \in Members, r.member \in c.electors
    PROVE  VotedAs(c, rs, Voted(c, r))
<1>0. PICK m, choice, d : m = r.member /\ choice = r.choice /\ d = Voted(c, r)
  OBVIOUS
<1>10. m \in Members /\ m \in c.electors /\ choice \in Choices
      /\ d = [c EXCEPT !.ballots[m] = Append(@, choice)]
  BY <1>0 DEF Voted, Choices
<1>1. c \in CaseRow(Len(rs)) /\ CaseAgrees(c) /\ CaseElectorate(c)
  BY DEF CaseOK
<1>2. c.ballots \in [Members -> Seq(Choices)]
  BY <1>1 DEF CaseRow
<1> DEFINE b == [c.ballots EXCEPT ![m] = Append(@, choice)]
<1>3. b \in [Members -> Seq(Choices)] /\ \A n \in Members \ {m} : b[n] = c.ballots[n]
  BY <1>2, <1>10
<1>4. d = [c EXCEPT !.ballots = b]
  BY <1>1, <1>2, <1>10 DEF CaseRow
<1> HIDE DEF b
<1>5. /\ d.proposal = "voting" /\ d.version = c.version /\ d.electors = c.electors
      /\ d.applicant = c.applicant /\ d.application = c.application
      /\ d.ballots = b /\ d.outcome = c.outcome
  BY <1>1, <1>4 DEF CaseRow
<1>6. d \in CaseRow(Len(rs))
  BY <1>1, <1>3, <1>4 DEF CaseRow
<1>7. CaseAgrees(d)
  BY <1>1, <1>5 DEF CaseAgrees
<1>8. CaseElectorate(d)
  BY <1>1, <1>3, <1>5, <1>10 DEF CaseElectorate
<1>9. CaseApproved(d, rs)
  BY <1>1, <1>5 DEF CaseApproved, CaseAgrees
<1> QED
  BY <1>0, <1>5, <1>6, <1>7, <1>8, <1>9 DEF CaseOK, VotedAs

\* What deciding case c makes of it: d, with outcome o.
DecidedAs(c, found, o, d) ==
    /\ d = [c EXCEPT !.proposal = o, !.outcome = o, !.evidence = Evidence(c, found),
                     !.application = IF o = "approved" THEN "submitted" ELSE "rejected"]
    /\ d.proposal = o /\ d.outcome = o /\ d.evidence = Evidence(c, found)
    /\ d.application = (IF o = "approved" THEN "submitted" ELSE "rejected")
    /\ d.version = c.version /\ d.electors = c.electors
    /\ d.applicant = c.applicant /\ d.ballots = c.ballots

\* A vote that has a result decides the case.
LEMMA ResolvedIs ==
    ASSUME NEW n, NEW c \in CaseRow(n), NEW found, NEW late, Outcome(c, found, late) # "none"
    PROVE  DecidedAs(c, found, Outcome(c, found, late), Resolved(c, found, late))
<1>1. PICK o, e : o = Outcome(c, found, late) /\ e = Evidence(c, found)
  OBVIOUS
<1>2. PICK a : a = IF o = "approved" THEN "submitted" ELSE "rejected"
  OBVIOUS
<1>3. PICK d : d = [[c EXCEPT !.proposal = o, !.outcome = o, !.evidence = e] EXCEPT !.application = a]
  OBVIOUS
<1>4. Resolved(c, found, late) = d
  BY <1>1, <1>2, <1>3 DEF Resolved, Closed
<1>5. /\ d = [c EXCEPT !.proposal = o, !.outcome = o, !.evidence = e, !.application = a]
      /\ d.proposal = o /\ d.outcome = o /\ d.evidence = e /\ d.application = a
      /\ d.version = c.version /\ d.electors = c.electors
      /\ d.applicant = c.applicant /\ d.ballots = c.ballots
  BY <1>3 DEF CaseRow
<1>6. DecidedAs(c, found, o, d)
  BY <1>1, <1>2, <1>5 DEF DecidedAs
<1> QED
  BY <1>1, <1>4, <1>6

\* A vote is counted: it is decided, or goes on as it was.
LEMMA ResolvedOK ==
    ASSUME ElectorateAssumption, rules \in Seq(Policies), NEW c, CaseOK(c, rules),
           c.proposal = "voting", NEW found \in SUBSET Ballot(c), NEW late
    PROVE  /\ CaseOK(Resolved(c, found, late), rules)
           /\ Resolved(c, found, late).proposal # "awaiting_policy"
<1>1. CASE Outcome(c, found, late) = "none"
  BY <1>1 DEF Resolved
<1>2. CASE Outcome(c, found, late) # "none"
  <2>0. PICK o, d : o = Outcome(c, found, late) /\ d = Resolved(c, found, late)
    OBVIOUS
  <2>1. c \in CaseRow(Len(rules)) /\ CaseAgrees(c) /\ CaseElectorate(c)
    BY DEF CaseOK
  <2>2. rules[c.version] \in Rule /\ found \in SUBSET Members
    BY RuleBound DEF Ballot
  <2>3. o \in {"approved", "rejected", "expired"}
    BY <1>2, <2>0, <2>2, OutcomeMeans
  <2>4. Evidence(c, found) \in [approve : Nat, reject : Nat, part : Nat]
    BY <2>2, CountedType DEF Evidence
  <2>5. DecidedAs(c, found, o, d)
    BY <1>2, <2>0, <2>1, ResolvedIs
  <2>6. /\ d.proposal = o /\ d.outcome = o /\ d.evidence = Evidence(c, found)
        /\ d.application = (IF o = "approved" THEN "submitted" ELSE "rejected")
        /\ d.version = c.version /\ d.electors = c.electors
        /\ d.applicant = c.applicant /\ d.ballots = c.ballots
    BY <2>5 DEF DecidedAs
  <2>7. d \in CaseRow(Len(rules))
    BY <2>1, <2>3, <2>4, <2>5 DEF DecidedAs, CaseRow, ApplicationStatuses, ProposalStatuses
  <2>8. CaseAgrees(d)
    BY <2>3, <2>6 DEF CaseAgrees
  <2>9. CaseElectorate(d)
    BY <2>1, <2>3, <2>6 DEF CaseElectorate
  <2>10. CaseApproved(d, rules)
    <3> SUFFICES ASSUME o = "approved"
                 PROVE  /\ Cardinality(Approvers(d)) >= rules[c.version].approve
                        /\ d.evidence.approve >= rules[c.version].approve
                        /\ d.evidence.part >= rules[c.version].minimum
      BY <2>6 DEF CaseApproved
    <3>1. Approvers(d) = Approvers(c)
      BY <2>6 DEF Approvers, Latest
    <3>2. /\ Counted(c, found, Choices) >= rules[c.version].minimum
          /\ Counted(c, found, {"approve"}) >= rules[c.version].approve
      BY <2>0, <2>2, OutcomeMeans
    <3>3. /\ Cardinality(Approvers(c)) \in Nat
          /\ Counted(c, found, {"approve"}) <= Cardinality(Approvers(c))
      BY CountedApprovers
    <3>4. Counted(c, found, {"approve"}) \in Nat
      BY <2>2, CountedType
    <3>5. rules[c.version].approve \in Nat
      BY <2>2 DEF Rule
    <3>6. Cardinality(Approvers(c)) >= rules[c.version].approve
      BY <3>2, <3>3, <3>4, <3>5
    <3> QED
      BY <2>6, <3>1, <3>2, <3>6 DEF Evidence
  <2> QED
    BY <2>0, <2>3, <2>6, <2>7, <2>8, <2>9, <2>10 DEF CaseOK
<1> QED
  BY <1>1, <1>2

\* The deadline passes.
LEMMA OverdueOK ==
    ASSUME NEW rs, NEW c, CaseOK(c, rs)
    PROVE  CaseOK([c EXCEPT !.overdue = TRUE], rs)
<1> DEFINE d == [c EXCEPT !.overdue = TRUE]
<1>1. c \in CaseRow(Len(rs)) /\ CaseAgrees(c) /\ CaseElectorate(c) /\ CaseApproved(c, rs)
  BY DEF CaseOK
<1>2. /\ d.proposal = c.proposal /\ d.outcome = c.outcome /\ d.evidence = c.evidence
      /\ d.application = c.application /\ d.version = c.version
      /\ d.electors = c.electors /\ d.applicant = c.applicant /\ d.ballots = c.ballots
  BY <1>1 DEF CaseRow
<1>3. d \in CaseRow(Len(rs))
  BY <1>1 DEF CaseRow
<1>4. CaseAgrees(d) /\ CaseElectorate(d)
  BY <1>1, <1>2 DEF CaseAgrees, CaseElectorate
<1>5. Approvers(d) = Approvers(c)
  BY <1>2 DEF Approvers, Latest
<1>6. CaseApproved(d, rs)
  BY <1>1, <1>2, <1>5 DEF CaseApproved
<1> QED
  BY <1>3, <1>4, <1>6 DEF CaseOK

\* An approved case is executed, or the execution fails.
LEMMA ExecutionOK ==
    ASSUME NEW rs, NEW c, CaseOK(c, rs), c.proposal \in {"approved", "execution_failed"},
           NEW d,
           \/ d = [c EXCEPT !.proposal = "execution_failed"]
           \/ d = [c EXCEPT !.proposal = "executed", !.application = "admitted"]
    PROVE  CaseOK(d, rs) /\ d.proposal \in {"execution_failed", "executed"}
<1>1. c \in CaseRow(Len(rs)) /\ CaseAgrees(c) /\ CaseElectorate(c) /\ CaseApproved(c, rs)
  BY DEF CaseOK
<1>2. /\ \/ d.proposal = "execution_failed" /\ d.application = c.application
         \/ d.proposal = "executed" /\ d.application = "admitted"
      /\ d.outcome = c.outcome /\ d.evidence = c.evidence /\ d.version = c.version
      /\ d.electors = c.electors /\ d.applicant = c.applicant /\ d.ballots = c.ballots
  BY <1>1 DEF CaseRow
<1>3. d \in CaseRow(Len(rs))
  BY <1>1 DEF CaseRow, ProposalStatuses, ApplicationStatuses
<1>4. CaseAgrees(d) /\ CaseElectorate(d)
  BY <1>1, <1>2 DEF CaseAgrees, CaseElectorate
<1>5. Approvers(d) = Approvers(c)
  BY <1>2 DEF Approvers, Latest
<1>6. CaseApproved(d, rs)
  BY <1>1, <1>2, <1>5 DEF CaseApproved
<1> QED
  BY <1>2, <1>3, <1>4, <1>6 DEF CaseOK

\* A version is published: cases stay bound to theirs.
LEMMA GrownOK ==
    ASSUME NEW rs \in Seq(Policies), NEW p \in Policies, NEW c, CaseOK(c, rs)
    PROVE  CaseOK(c, Append(rs, p))
<1>1. c \in CaseRow(Len(rs)) /\ CaseAgrees(c) /\ CaseElectorate(c) /\ CaseApproved(c, rs)
  BY DEF CaseOK
<1>2. Len(Append(rs, p)) = Len(rs) + 1 /\ \A v \in 1..Len(rs) : Append(rs, p)[v] = rs[v]
  OBVIOUS
<1>3. c \in CaseRow(Len(Append(rs, p)))
  <2>1. 0..Len(rs) \subseteq 0..(Len(rs) + 1)
    OBVIOUS
  <2> QED
    BY <1>1, <1>2, <2>1 DEF CaseRow
<1>4. c.outcome = "approved" => c.version \in 1..Len(rs)
  BY <1>1 DEF CaseAgrees, CaseElectorate, CaseRow
<1>5. CaseApproved(c, Append(rs, p))
  BY <1>1, <1>2, <1>4 DEF CaseApproved
<1> QED
  BY <1>1, <1>3, <1>5 DEF CaseOK

-----------------------------------------------------------------------------
(* What a step preserves of the rows it does not write. *)

\* One case is changed, and stays in order.
LEMMA OneCase ==
    ASSUME IInv, NEW i \in 1..Len(cases), NEW d,
           CaseOK(d, rules), d.proposal # "awaiting_policy",
           cases' = [cases EXCEPT ![i] = d], rules' = rules, activated' = activated
    PROVE  /\ cases' \in Seq(CaseRow(Len(rules')))
           /\ Len(cases') = Len(cases)
           /\ cases'[i] = d
           /\ \A j \in 1..Len(cases) : j # i => cases'[j] = cases[j]
           /\ \A j \in 1..Len(cases') : CaseOK(cases'[j], rules')
           /\ NobodyLeftWaiting'
<1>1. cases \in Seq(CaseRow(Len(rules))) /\ d \in CaseRow(Len(rules))
  BY DEF IInv, Tables, CaseOK
<1>2. /\ cases' \in Seq(CaseRow(Len(rules)))
      /\ Len(cases') = Len(cases)
      /\ cases'[i] = d
      /\ \A j \in 1..Len(cases) : j # i => cases'[j] = cases[j]
  BY <1>1
<1>3. \A j \in 1..Len(cases') : CaseOK(cases'[j], rules')
  BY <1>2 DEF IInv
<1>4. NobodyLeftWaiting'
  <2> SUFFICES ASSUME activated # {}, NEW j \in 1..Len(cases)
               PROVE  cases'[j].proposal # "awaiting_policy"
    BY <1>2 DEF NobodyLeftWaiting
  <2> QED
    BY <1>2 DEF IInv, NobodyLeftWaiting
<1> QED
  BY <1>2, <1>3, <1>4

\* Requests go on or end; cases and versions are added, and a case whose row somebody
\* holds stays as that request relies on.
LEMMA SessionsKept ==
    ASSUME IInv, Tables',
           \A t \in Sessions : sess'[t] = sess[t] \/ sess'[t] = Idle,
           Len(rules) <= Len(rules'), Len(cases) <= Len(cases'),
           \A t \in Sessions : sess'[t].op \in Locking => Holding(sess[t], cases'[sess[t].n])
    PROVE  (\A s \in Sessions : SessionOK(sess[s]))' /\ OneHolder'
<1>1. Len(rules) \in Nat /\ Len(rules') \in Nat /\ Len(cases) \in Nat /\ Len(cases') \in Nat
  BY DEF IInv, Tables
<1>2. ASSUME NEW s \in Sessions PROVE SessionOK(sess[s])'
  <2>1. CASE sess'[s] = Idle
    BY <2>1 DEF Idle, SessionOK, Locking
  <2>2. CASE sess'[s] = sess[s]
    <3>1. SessionOK(sess[s])
      BY DEF IInv
    <3>2. sess'[s].op \in Locking => Holding(sess'[s], cases'[sess'[s].n])
      BY <2>2
    <3>3. /\ sess'[s].op = "submit" => sess'[s].member \in Members
          /\ sess'[s].op = "activate" => sess'[s].n \in 1..Len(rules')
          /\ sess'[s].op \in Locking => sess'[s].n \in 1..Len(cases')
      BY <1>1, <2>2, <3>1 DEF SessionOK
    <3> QED
      BY <3>2, <3>3 DEF SessionOK
  <2> QED
    BY <2>1, <2>2
<1>3. OneHolder'
  <2>1. \A t \in Sessions : sess'[t].op \in Locking => sess'[t] = sess[t]
    BY DEF Idle, Locking
  <2> QED
    BY <2>1 DEF IInv, OneHolder
<1> QED
  BY <1>2, <1>3

\* A request begins or goes on; the row it needs is held by nobody else.
LEMMA SessionBegun ==
    ASSUME IInv, Tables', NEW s \in Sessions, NEW r, r \in SessionRow,
           sess' = [sess EXCEPT ![s] = r], cases' = cases, Len(rules) <= Len(rules'),
           r.op = "submit" => r.member \in Members,
           r.op = "activate" => r.n \in 1..Len(rules'),
           r.op \in Locking =>
              /\ r.n \in 1..Len(cases)
              /\ Holding(r, cases[r.n])
              /\ \A t \in Sessions \ {s} : ~(sess[t].op \in Locking /\ sess[t].n = r.n)
    PROVE  (\A t \in Sessions : SessionOK(sess[t]))' /\ OneHolder'
<1>1. Len(rules) \in Nat /\ Len(rules') \in Nat
  BY DEF IInv, Tables
<1>2. sess'[s] = r /\ \A t \in Sessions \ {s} : sess'[t] = sess[t]
  BY DEF IInv, Tables
<1>3. ASSUME NEW t \in Sessions PROVE SessionOK(sess[t])'
  <2>1. CASE t = s
    BY <1>2, <2>1 DEF SessionOK
  <2>2. CASE t # s
    <3>1. SessionOK(sess[t])
      BY DEF IInv
    <3> QED
      BY <1>1, <1>2, <2>2, <3>1 DEF SessionOK
  <2> QED
    BY <2>1, <2>2
<1>4. OneHolder'
  BY <1>2 DEF IInv, OneHolder
<1> QED
  BY <1>3, <1>4

\* Neither cases nor versions change.
LEMMA CasesSame ==
    ASSUME IInv, UNCHANGED <<rules, activated, cases>>
    PROVE  /\ (\A i \in 1..Len(cases) : CaseOK(cases[i], rules))'
           /\ NobodyLeftWaiting'
           /\ rules' \in Seq(Policies) /\ activated' \subseteq 1..Len(rules')
           /\ cases' \in Seq(CaseRow(Len(rules')))
<1>1. (\A i \in 1..Len(cases) : CaseOK(cases[i], rules))'
  <2> SUFFICES ASSUME NEW i \in 1..Len(cases) PROVE CaseOK(cases[i], rules)
    OBVIOUS
  <2> QED
    BY DEF IInv
<1> QED
  BY <1>1 DEF IInv, Tables, NobodyLeftWaiting

-----------------------------------------------------------------------------
(* The steps, one lemma for each kind. *)

\* Members register, are suspended or reinstated, or lose their term.
LEMMA MemberStep ==
    ASSUME ElectorateAssumption, IInv, NEW m \in Members, Register(m) \/ Lifecycle(m)
    PROVE  IInv'
<1>1. UNCHANGED <<rules, activated, cases, sess>>
  BY DEF Register, Lifecycle
<1>2. changes' \in 0..MaxLifecycle
  BY DEF IInv, Tables, Register, Lifecycle, ElectorateAssumption
<1>3. status' \in [Members -> Statuses]
  BY DEF IInv, Tables, Register, Lifecycle, Statuses
<1>4. terms' \in [Members -> Nat] /\ OneCurrentTerm'
  <2>1. terms' = terms \/ terms' = [terms EXCEPT ![m] = 0]
    BY DEF Register, Lifecycle
  <2>2. terms \in [Members -> Nat] /\ \A n \in Members : terms[n] <= 1
    BY DEF IInv, Tables, OneCurrentTerm
  <2>3. terms' \in [Members -> Nat] /\ \A n \in Members : terms'[n] <= 1
    BY <2>1, <2>2
  <2> QED
    BY <2>3 DEF OneCurrentTerm
<1>5. Tables'
  BY <1>1, <1>2, <1>3, <1>4, CasesSame DEF IInv, Tables
<1>6. (\A s \in Sessions : SessionOK(sess[s]))' /\ OneHolder'
  <2>1. \A t \in Sessions : sess[t].op \in Locking => Holding(sess[t], cases[sess[t].n])
    BY DEF IInv, SessionOK
  <2>2. Len(rules) <= Len(rules') /\ Len(cases) <= Len(cases')
    BY <1>1 DEF IInv, Tables
  <2> QED
    BY <1>1, <1>5, <2>1, <2>2, SessionsKept
<1> QED
  BY <1>1, <1>4, <1>5, <1>6, CasesSame DEF IInv

\* A request is given up.
LEMMA RollbackStep ==
    ASSUME ElectorateAssumption, IInv, NEW s \in Sessions, Rollback(s)
    PROVE  IInv'
<1>1. /\ UNCHANGED <<status, terms, rules, activated, cases, changes>>
      /\ sess' = [sess EXCEPT ![s] = Idle]
  BY DEF Rollback, Finish, rowVars
<1>2. sess' \in [Sessions -> SessionRow]
  BY <1>1 DEF IInv, Tables, SessionRow, Idle
<1>3. Tables'
  BY <1>1, <1>2, CasesSame DEF IInv, Tables
<1>4. \A t \in Sessions : sess'[t] = sess[t] \/ sess'[t] = Idle
  BY <1>1 DEF IInv, Tables
<1>5. \A t \in Sessions : sess'[t].op \in Locking => Holding(sess[t], cases'[sess[t].n])
  BY <1>1, <1>4 DEF IInv, SessionOK, Idle, Locking
<1>6. Len(rules) <= Len(rules') /\ Len(cases) <= Len(cases')
  BY <1>1 DEF IInv, Tables
<1>7. OneCurrentTerm'
  BY <1>1 DEF IInv, OneCurrentTerm
<1> QED
  BY <1>1, <1>3, <1>4, <1>5, <1>6, <1>7, CasesSame, SessionsKept DEF IInv

\* What a new request holds.
LEMMA RequestIs ==
    ASSUME NEW op \in {"submit", "activate", "ballot", "execute"}, NEW m \in Members, NEW n \in Nat
    PROVE  /\ Request(op, m, n) \in SessionRow
           /\ Request(op, m, n).op = op /\ Request(op, m, n).member = m
           /\ Request(op, m, n).n = n /\ Request(op, m, n).choice = "none"
<1>1. PICK i : i = Idle
  OBVIOUS
<1>2. i \in SessionRow /\ i.choice = "none"
  BY <1>1 DEF Idle, SessionRow, Locking
<1>3. PICK r : r = [i EXCEPT !.op = op, !.member = m, !.n = n]
  OBVIOUS
<1>4. r \in SessionRow /\ r.op = op /\ r.member = m /\ r.n = n /\ r.choice = "none"
  BY <1>2, <1>3 DEF SessionRow, Locking
<1>5. Request(op, m, n) = r
  BY <1>1, <1>3 DEF Request
<1> QED
  BY <1>4, <1>5

\* A request begins: an application, a ballot, a finalisation or an execution; or the
\* voters are counted.
LEMMA BeginStep ==
    ASSUME ElectorateAssumption, IInv, NEW s \in Sessions,
           \/ CountVoters(s)
           \/ \E m \in Members : BeginSubmit(s, m)
           \/ \E m \in Members, i \in 1..Len(cases), c \in Choices : BeginBallot(s, m, i, c)
           \/ \E m \in Members, i \in 1..Len(cases) :
                 BeginFinalize(s, m, i) \/ BeginExecute(s, m, i)
    PROVE  IInv'
<1>0. \A i \in 1..Len(cases) : i \in Nat
  BY DEF IInv, Tables
<1>1. UNCHANGED <<status, terms, rules, activated, cases, changes>>
  BY DEF BeginSubmit, BeginBallot, BeginFinalize, BeginExecute, CountVoters, rowVars
<1>2. OneCurrentTerm'
  BY <1>1 DEF IInv, OneCurrentTerm
<1>3. Len(rules) <= Len(rules')
  BY <1>1 DEF IInv, Tables
<1>4. ASSUME NEW r \in SessionRow, sess' = [sess EXCEPT ![s] = r],
             r.op = "submit" => r.member \in Members, r.op # "activate",
             r.op \in Locking =>
                /\ r.n \in 1..Len(cases)
                /\ Holding(r, cases[r.n])
                /\ \A t \in Sessions \ {s} : ~(sess[t].op \in Locking /\ sess[t].n = r.n)
      PROVE  IInv'
  <2>1. sess' \in [Sessions -> SessionRow]
    BY <1>4 DEF IInv, Tables
  <2>2. Tables'
    BY <1>1, <2>1, CasesSame DEF IInv, Tables
  <2>3. (\A t \in Sessions : SessionOK(sess[t]))' /\ OneHolder'
    BY <1>1, <1>3, <1>4, <2>2, SessionBegun
  <2> QED
    BY <1>1, <1>2, <2>2, <2>3, CasesSame DEF IInv
<1>5. ASSUME NEW m \in Members, BeginSubmit(s, m) PROVE IInv'
  <2> DEFINE r == Request("submit", m, IF status[m] = "absent" THEN 1 ELSE 0)
  <2>1. r \in SessionRow /\ r.op = "submit" /\ r.member = m /\ r.op \notin Locking
    BY RequestIs DEF Locking
  <2>2. sess' = [sess EXCEPT ![s] = r]
    BY <1>5 DEF BeginSubmit, Begin
  <2> HIDE DEF r
  <2> QED
    BY <1>4, <2>1, <2>2
<1>6. ASSUME NEW m \in Members, NEW i \in 1..Len(cases), NEW c \in Choices,
             BeginBallot(s, m, i, c)
      PROVE  IInv'
  <2> DEFINE r == [Request("ballot", m, i) EXCEPT !.choice = c]
  <2>1. r \in SessionRow /\ r.op = "ballot" /\ r.member = m /\ r.n = i
    <3>1. PICK q : q = Request("ballot", m, i)
      OBVIOUS
    <3>2. q \in SessionRow /\ q.op = "ballot" /\ q.member = m /\ q.n = i
      BY <1>0, <3>1, RequestIs
    <3>3. r = [q EXCEPT !.choice = c]
      BY <3>1
    <3> HIDE DEF r
    <3> QED
      BY <3>2, <3>3 DEF SessionRow
  <2>2. sess' = [sess EXCEPT ![s] = r]
    BY <1>6 DEF BeginBallot, Begin
  <2>3. cases[i].proposal = "voting" /\ m \in cases[i].electors /\ Unlocked(i)
    BY <1>6 DEF BeginBallot, MayVote
  <2> HIDE DEF r
  <2>4. Holding(r, cases[r.n])
    BY <2>1, <2>3 DEF Holding
  <2> QED
    BY <1>4, <2>1, <2>2, <2>3, <2>4 DEF Unlocked
<1>7. ASSUME NEW m \in Members, NEW i \in 1..Len(cases), BeginFinalize(s, m, i) PROVE IInv'
  <2> DEFINE r == Request("ballot", m, i)
  <2>1. r \in SessionRow /\ r.op = "ballot" /\ r.n = i /\ r.choice = "none"
    BY <1>0, RequestIs
  <2>2. sess' = [sess EXCEPT ![s] = r]
    BY <1>7 DEF BeginFinalize, Begin
  <2>3. cases[i].proposal = "voting" /\ Unlocked(i)
    BY <1>7 DEF BeginFinalize
  <2> HIDE DEF r
  <2>4. Holding(r, cases[r.n])
    BY <2>1, <2>3 DEF Holding
  <2> QED
    BY <1>4, <2>1, <2>2, <2>3, <2>4 DEF Unlocked
<1>8. ASSUME NEW m \in Members, NEW i \in 1..Len(cases), BeginExecute(s, m, i) PROVE IInv'
  <2> DEFINE r == Request("execute", m, i)
  <2>1. r \in SessionRow /\ r.op = "execute" /\ r.n = i
    BY <1>0, RequestIs
  <2>2. sess' = [sess EXCEPT ![s] = r]
    BY <1>8 DEF BeginExecute, Begin
  <2>3. cases[i].proposal \in {"approved", "execution_failed"} /\ Unlocked(i)
    BY <1>8 DEF BeginExecute, Executable
  <2> HIDE DEF r
  <2>4. Holding(r, cases[r.n])
    BY <2>1, <2>3 DEF Holding
  <2> QED
    BY <1>4, <2>1, <2>2, <2>3, <2>4 DEF Unlocked
<1>9. CASE CountVoters(s)
  <2>0. PICK q : q = sess[s]
    OBVIOUS
  <2>1. q \in SessionRow /\ q.op = "ballot" /\ SessionOK(q)
    BY <1>9, <2>0 DEF CountVoters, IInv, Tables
  <2>2. q.n \in 1..Len(cases) /\ Holding(q, cases[q.n])
    BY <2>1 DEF SessionOK, Locking
  <2>3. PICK v : v = Voters(Voted(cases[q.n], q))
    OBVIOUS
  <2>4. v \in SUBSET Members /\ v \subseteq Ballot(Voted(cases[q.n], q))
    BY <2>3 DEF Voters, Ballot
  <2> DEFINE r == [q EXCEPT !.op = "resolve", !.found = v]
  <2>5. sess' = [sess EXCEPT ![s] = r]
    BY <1>9, <2>0, <2>3 DEF CountVoters, IInv, Tables, SessionRow
  <2>6. /\ r \in SessionRow /\ r.op = "resolve" /\ r.n = q.n /\ r.found = v
        /\ r.choice = q.choice /\ r.member = q.member
    BY <2>1, <2>4 DEF SessionRow, Locking
  <2> HIDE DEF r
  <2>7. Voted(cases[q.n], r) = Voted(cases[q.n], q)
    BY <2>6 DEF Voted
  <2>8. Holding(r, cases[r.n])
    BY <2>1, <2>2, <2>4, <2>6, <2>7 DEF Holding
  <2>9. \A t \in Sessions \ {s} : ~(sess[t].op \in Locking /\ sess[t].n = r.n)
    BY <2>0, <2>1, <2>6 DEF IInv, OneHolder, Locking
  <2> QED
    BY <1>4, <2>2, <2>5, <2>6, <2>8, <2>9
<1> QED
  BY <1>5, <1>6, <1>7, <1>8, <1>9

\* An application is written with its proposal: it finds the latest version, or
\* none was published.
LEMMA SubmitStep ==
    ASSUME ElectorateAssumption, IInv, NEW s \in Sessions, CommitSubmit(s)
    PROVE  IInv'
<1> DEFINE m == sess[s].member
           d == IF rules = <<>> THEN NewCase(m) ELSE Started(NewCase(m), Len(rules))
<1>1. /\ UNCHANGED <<terms, rules, activated, changes>>
      /\ sess' = [sess EXCEPT ![s] = Idle]
      /\ cases' = Append(cases, d)
      /\ status' = [status EXCEPT ![m] = "pending_review"]
      /\ sess[s].op = "submit"
  BY DEF CommitSubmit, Finish
<1>2. m \in Members
  BY <1>1 DEF IInv, SessionOK
<1>3. rules \in Seq(Policies) /\ cases \in Seq(CaseRow(Len(rules)))
  BY DEF IInv, Tables
<1>4. CaseOK(d, rules) /\ (rules # <<>> => d.proposal # "awaiting_policy")
  <2>1. CaseOK(NewCase(m), rules) /\ NewCase(m).proposal = "awaiting_policy"
    BY <1>2, <1>3, NewCaseOK
  <2>2. rules # <<>> => Len(rules) \in 1..Len(rules)
    BY <1>3
  <2> QED
    BY <1>3, <2>1, <2>2, StartedOK
<1> HIDE DEF m, d
<1>5. d \in CaseRow(Len(rules))
  BY <1>4 DEF CaseOK
<1>6. /\ cases' \in Seq(CaseRow(Len(rules)))
      /\ Len(cases') = Len(cases) + 1
      /\ cases'[Len(cases) + 1] = d
      /\ \A i \in 1..Len(cases) : cases'[i] = cases[i]
  BY <1>1, <1>3, <1>5
<1>7. \A i \in 1..Len(cases') : i \in 1..Len(cases) \/ i = Len(cases) + 1
  BY <1>3, <1>6
<1>8. (\A i \in 1..Len(cases) : CaseOK(cases[i], rules))'
  BY <1>1, <1>4, <1>6, <1>7 DEF IInv
<1>9. NobodyLeftWaiting'
  <2> SUFFICES ASSUME activated # {}, NEW i \in 1..Len(cases')
               PROVE  cases'[i].proposal # "awaiting_policy"
    BY <1>1 DEF NobodyLeftWaiting
  <2>1. rules # <<>>
    <3>1. PICK v \in 1..Len(rules) : TRUE
      BY DEF IInv, Tables
    <3> QED
      BY <1>3, <3>1
  <2> QED
    BY <1>4, <1>6, <1>7, <2>1 DEF IInv, NobodyLeftWaiting
<1>10. status' \in [Members -> Statuses] /\ sess' \in [Sessions -> SessionRow]
  BY <1>1, <1>2 DEF IInv, Tables, Statuses, SessionRow, Idle
<1>11. Tables'
  BY <1>1, <1>6, <1>10 DEF IInv, Tables
<1>12. (\A t \in Sessions : SessionOK(sess[t]))' /\ OneHolder'
  <2>1. \A t \in Sessions : sess'[t] = sess[t] \/ sess'[t] = Idle
    BY <1>1 DEF IInv, Tables
  <2>2. \A t \in Sessions : sess'[t].op \in Locking => Holding(sess[t], cases'[sess[t].n])
    BY <1>6, <2>1 DEF IInv, SessionOK, Idle, Locking
  <2>3. Len(rules) <= Len(rules') /\ Len(cases) <= Len(cases')
    BY <1>1, <1>3, <1>6
  <2> QED
    BY <1>11, <2>1, <2>2, <2>3, SessionsKept
<1>13. OneCurrentTerm'
  BY <1>1 DEF IInv, OneCurrentTerm
<1> QED
  BY <1>8, <1>9, <1>11, <1>12, <1>13 DEF IInv

\* A version is published.
LEMMA PublishStep ==
    ASSUME ElectorateAssumption, IInv, NEW s \in Sessions, NEW m \in Members,
           NEW p \in Policies, Publish(s, m, p)
    PROVE  IInv'
<1> DEFINE r == Request("activate", m, Len(rules) + 1)
<1>1. /\ UNCHANGED <<status, terms, activated, cases, changes>>
      /\ rules' = Append(rules, p)
      /\ sess' = [sess EXCEPT ![s] = r]
  BY DEF Publish, Begin
<1>2. rules \in Seq(Policies)
  BY DEF IInv, Tables
<1>3. rules' \in Seq(Policies) /\ Len(rules') = Len(rules) + 1 /\ Len(rules) \in Nat
  BY <1>1, <1>2
<1>4. r \in SessionRow /\ r.op = "activate" /\ r.n \in 1..Len(rules') /\ r.op \notin Locking
  <2>1. Len(rules) + 1 \in Nat /\ Len(rules) + 1 \in 1..Len(rules')
    BY <1>3
  <2> QED
    BY <2>1, RequestIs DEF Locking
<1> HIDE DEF r
<1>5. activated' \subseteq 1..Len(rules')
  BY <1>1, <1>3 DEF IInv, Tables
<1>6. \A i \in 1..Len(cases') : CaseOK(cases'[i], rules')
  BY <1>1, <1>2, GrownOK DEF IInv
<1>7. cases' \in Seq(CaseRow(Len(rules')))
  <2>1. \A i \in 1..Len(cases) : cases[i] \in CaseRow(Len(rules'))
    BY <1>1, <1>6 DEF CaseOK
  <2>2. cases \in Seq(CaseRow(Len(rules)))
    BY DEF IInv, Tables
  <2> QED
    BY <1>1, <2>1, <2>2
<1>8. sess' \in [Sessions -> SessionRow]
  BY <1>1, <1>4 DEF IInv, Tables
<1>9. Tables'
  BY <1>1, <1>3, <1>5, <1>7, <1>8 DEF IInv, Tables
<1>10. (\A t \in Sessions : SessionOK(sess[t]))' /\ OneHolder'
  <2>1. Len(rules) <= Len(rules')
    BY <1>3
  <2> QED
    BY <1>1, <1>4, <1>9, <2>1, SessionBegun
<1>11. NobodyLeftWaiting' /\ OneCurrentTerm'
  BY <1>1 DEF IInv, NobodyLeftWaiting, OneCurrentTerm
<1> QED
  BY <1>6, <1>9, <1>10, <1>11 DEF IInv

\* The votes that waited for a version are opened.
LEMMA ActivateStep ==
    ASSUME ElectorateAssumption, IInv, NEW s \in Sessions, Activate(s)
    PROVE  IInv'
<1> DEFINE v == sess[s].n
<1>1. /\ UNCHANGED <<status, terms, rules, changes>>
      /\ activated' = activated \cup {v}
      /\ sess' = [sess EXCEPT ![s] = Idle]
      /\ cases' = [i \in 1..Len(cases) |->
                      IF cases[i].proposal = "awaiting_policy" THEN Started(cases[i], v)
                      ELSE cases[i]]
      /\ sess[s].op = "activate"
  BY DEF Activate, Finish
<1>2. v \in 1..Len(rules)
  BY <1>1 DEF IInv, SessionOK
<1> HIDE DEF v
<1>3. rules \in Seq(Policies) /\ Len(cases) \in Nat
  BY DEF IInv, Tables
<1>4. ASSUME NEW i \in 1..Len(cases)
      PROVE  /\ CaseOK(cases'[i], rules) /\ cases'[i].proposal # "awaiting_policy"
             /\ cases[i].proposal # "awaiting_policy" => cases'[i] = cases[i]
  <2>1. CaseOK(cases[i], rules)
    BY DEF IInv
  <2>2. CASE cases[i].proposal = "awaiting_policy"
    <3>1. cases'[i] = Started(cases[i], v)
      BY <1>1, <2>2
    <3> QED
      BY <1>2, <1>3, <2>1, <2>2, <3>1, StartedOK
  <2>3. CASE cases[i].proposal # "awaiting_policy"
    BY <1>1, <2>1, <2>3
  <2> QED
    BY <2>2, <2>3
<1>5. cases' \in Seq(CaseRow(Len(rules'))) /\ Len(cases') = Len(cases)
  <2>1. \A i \in 1..Len(cases) : cases'[i] \in CaseRow(Len(rules))
    BY <1>4 DEF CaseOK
  <2>2. cases' \in [1..Len(cases) -> CaseRow(Len(rules))]
    BY <1>1, <2>1
  <2> QED
    BY <1>1, <1>3, <2>2
<1>6. (\A i \in 1..Len(cases) : CaseOK(cases[i], rules))' /\ NobodyLeftWaiting'
  BY <1>1, <1>4, <1>5 DEF NobodyLeftWaiting
<1>7. sess' \in [Sessions -> SessionRow] /\ activated' \subseteq 1..Len(rules')
  BY <1>1, <1>2 DEF IInv, Tables, SessionRow, Idle
<1>8. Tables'
  BY <1>1, <1>5, <1>7 DEF IInv, Tables
<1>9. (\A t \in Sessions : SessionOK(sess[t]))' /\ OneHolder'
  <2>1. \A t \in Sessions : sess'[t] = sess[t] \/ sess'[t] = Idle
    BY <1>1 DEF IInv, Tables
  <2>2. \A t \in Sessions : sess'[t].op \in Locking => Holding(sess[t], cases'[sess[t].n])
    <3> SUFFICES ASSUME NEW t \in Sessions, sess'[t].op \in Locking
                 PROVE  Holding(sess[t], cases'[sess[t].n])
      OBVIOUS
    <3>1. sess[t].op \in Locking
      BY <2>1 DEF Idle, Locking
    <3>2. sess[t].n \in 1..Len(cases) /\ Holding(sess[t], cases[sess[t].n])
      BY <3>1 DEF IInv, SessionOK
    <3>3. cases[sess[t].n].proposal # "awaiting_policy"
      BY <3>1, <3>2 DEF Holding, Locking
    <3> QED
      BY <1>4, <3>2, <3>3
  <2>3. Len(rules) <= Len(rules') /\ Len(cases) <= Len(cases')
    BY <1>1, <1>3, <1>5
  <2> QED
    BY <1>8, <2>1, <2>2, <2>3, SessionsKept
<1>10. OneCurrentTerm'
  BY <1>1 DEF IInv, OneCurrentTerm
<1> QED
  BY <1>6, <1>8, <1>9, <1>10 DEF IInv

\* What becomes of one case at its deadline and under a failed execution.
Moves(c, d) ==
    \/ c.proposal = "voting" /\ d = [c EXCEPT !.overdue = TRUE]
    \/ /\ c.proposal \in {"approved", "execution_failed"}
       /\ d = [c EXCEPT !.proposal = "execution_failed"]

\* A case in order stays in order, and waits no more.
LEMMA MovesOK ==
    ASSUME NEW c, CaseOK(c, rules), NEW d, Moves(c, d)
    PROVE  CaseOK(d, rules) /\ d.proposal # "awaiting_policy"
<1>1. CASE c.proposal = "voting" /\ d = [c EXCEPT !.overdue = TRUE]
  BY <1>1, OverdueOK DEF CaseOK, CaseRow
<1>2. CASE /\ c.proposal \in {"approved", "execution_failed"}
           /\ d = [c EXCEPT !.proposal = "execution_failed"]
  BY <1>2, ExecutionOK
<1> QED
  BY <1>1, <1>2 DEF Moves

\* These steps change one case, and it moves like that.
LEMMA CaseStepMeans ==
    ASSUME IInv, NEW i \in 1..Len(cases),
           Deadline(i) \/ \E m \in Operators : RefuseExecute(m, i)
    PROVE  /\ UNCHANGED <<status, terms, rules, activated, sess, changes>>
           /\ cases' = [cases EXCEPT ![i] = cases'[i]]
           /\ Moves(cases[i], cases'[i])
<1>1. CaseOK(cases[i], rules) /\ cases \in Seq(CaseRow(Len(rules)))
  BY DEF IInv, Tables
<1>2. ASSUME NEW d, cases' = [cases EXCEPT ![i] = d], Moves(cases[i], d)
      PROVE  /\ cases' = [cases EXCEPT ![i] = cases'[i]]
             /\ Moves(cases[i], cases'[i])
  <2>1. cases'[i] = d
    BY <1>1, <1>2
  <2> QED
    BY <1>2, <2>1
<1>3. CASE Deadline(i)
  <2> DEFINE d == [cases[i] EXCEPT !.overdue = TRUE]
  <2>1. /\ cases' = [cases EXCEPT ![i] = d]
        /\ UNCHANGED <<status, terms, rules, activated, sess, changes>>
    BY <1>1, <1>3 DEF Deadline
  <2>2. Moves(cases[i], d)
    BY <1>3 DEF Deadline, Moves
  <2> HIDE DEF d
  <2> QED
    BY <1>2, <2>1, <2>2
<1>4. CASE \E m \in Operators : RefuseExecute(m, i)
  <2> DEFINE d == [cases[i] EXCEPT !.proposal = "execution_failed"]
  <2>1. /\ cases' = [cases EXCEPT ![i] = d]
        /\ cases[i].proposal \in {"approved", "execution_failed"}
        /\ UNCHANGED <<status, terms, rules, activated, sess, changes>>
    BY <1>1, <1>4 DEF RefuseExecute, Fail, Executable
  <2>2. Moves(cases[i], d)
    BY <2>1 DEF Moves
  <2> HIDE DEF d
  <2> QED
    BY <1>2, <2>1, <2>2
<1> QED
  BY <1>3, <1>4

\* The deadline takes nothing away from a request that holds the row.
LEMMA HoldingOverdue ==
    ASSUME NEW n, NEW c \in CaseRow(n), NEW r, Holding(r, c),
           NEW d, d = [c EXCEPT !.overdue = TRUE]
    PROVE  Holding(r, d)
<1>1. d.proposal = c.proposal /\ d.electors = c.electors /\ d.ballots = c.ballots
  BY DEF CaseRow
<1>2. Ballot(Voted(d, r)) = Ballot(Voted(c, r))
  <2>1. CASE r.choice = "none"
    BY <1>1, <2>1 DEF Voted, Ballot
  <2>2. CASE r.choice # "none"
    <3>1. PICK b : b = [c.ballots EXCEPT ![r.member] = Append(@, r.choice)]
      OBVIOUS
    <3>2. Voted(d, r) = [d EXCEPT !.ballots = b] /\ Voted(c, r) = [c EXCEPT !.ballots = b]
      BY <1>1, <2>2, <3>1 DEF Voted, CaseRow
    <3>3. Voted(d, r).ballots = b /\ Voted(c, r).ballots = b
      BY <3>2 DEF CaseRow
    <3> QED
      BY <3>3 DEF Ballot
  <2> QED
    BY <2>1, <2>2
<1> QED
  BY <1>1, <1>2 DEF Holding

\* A deadline or a refused execution.
LEMMA CaseStep ==
    ASSUME ElectorateAssumption, IInv, NEW i \in 1..Len(cases),
           Deadline(i) \/ \E m \in Operators : RefuseExecute(m, i)
    PROVE  IInv'
<1>1. /\ UNCHANGED <<status, terms, rules, activated, sess, changes>>
      /\ cases' = [cases EXCEPT ![i] = cases'[i]]
      /\ CaseOK(cases'[i], rules) /\ cases'[i].proposal # "awaiting_policy"
  <2>1. CaseOK(cases[i], rules)
    BY DEF IInv
  <2> QED
    BY <2>1, CaseStepMeans, MovesOK
<1>2. /\ cases' \in Seq(CaseRow(Len(rules'))) /\ Len(cases') = Len(cases)
      /\ \A j \in 1..Len(cases) : j # i => cases'[j] = cases[j]
      /\ \A j \in 1..Len(cases') : CaseOK(cases'[j], rules')
      /\ NobodyLeftWaiting'
  BY <1>1, OneCase
<1>3. Tables'
  BY <1>1, <1>2 DEF IInv, Tables
<1>4. /\ cases[i] \in CaseRow(Len(rules)) /\ Len(cases) \in Nat /\ Len(rules) \in Nat
      /\ cases \in Seq(CaseRow(Len(rules)))
  BY DEF IInv, Tables
<1>5. \A t \in Sessions : sess[t].op \in Locking => Holding(sess[t], cases'[sess[t].n])
  <2> SUFFICES ASSUME NEW t \in Sessions, sess[t].op \in Locking
               PROVE  Holding(sess[t], cases'[sess[t].n])
    OBVIOUS
  <2>1. sess[t].n \in 1..Len(cases) /\ Holding(sess[t], cases[sess[t].n])
    BY DEF IInv, SessionOK
  <2>2. CASE sess[t].n # i
    BY <1>2, <2>1, <2>2
  <2>3. CASE sess[t].n = i /\ Deadline(i)
    <3>1. PICK d : d = [cases[i] EXCEPT !.overdue = TRUE]
      OBVIOUS
    <3>2. cases' = [cases EXCEPT ![i] = d]
      BY <1>4, <2>3, <3>1 DEF Deadline
    <3>3. cases'[i] = d
      BY <1>4, <3>2
    <3> QED
      BY <1>4, <2>1, <2>3, <3>1, <3>3, HoldingOverdue
  <2>4. CASE sess[t].n = i /\ \E m \in Operators : RefuseExecute(m, i)
    BY <2>4 DEF RefuseExecute, Unlocked
  <2> QED
    BY <2>2, <2>3, <2>4
<1>6. (\A t \in Sessions : SessionOK(sess[t]))' /\ OneHolder'
  BY <1>1, <1>2, <1>3, <1>4, <1>5, SessionsKept
<1>7. OneCurrentTerm'
  BY <1>1 DEF IInv, OneCurrentTerm
<1> QED
  BY <1>2, <1>3, <1>6, <1>7 DEF IInv

\* A request that holds the row of a case ends, and leaves the case in order.
LEMMA HolderEnds ==
    ASSUME ElectorateAssumption, IInv, NEW s \in Sessions, sess[s].op \in Locking,
           NEW d, CaseOK(d, rules), d.proposal # "awaiting_policy",
           cases' = [cases EXCEPT ![sess[s].n] = d],
           sess' = [sess EXCEPT ![s] = Idle], UNCHANGED <<rules, activated, changes>>,
           status' \in [Members -> Statuses], terms' \in [Members -> Nat], OneCurrentTerm'
    PROVE  IInv'
<1>0. PICK i : i = sess[s].n
  OBVIOUS
<1>1. i \in 1..Len(cases)
  BY <1>0 DEF IInv, SessionOK
<1>2. /\ cases' \in Seq(CaseRow(Len(rules'))) /\ Len(cases') = Len(cases)
      /\ \A j \in 1..Len(cases) : j # i => cases'[j] = cases[j]
      /\ \A j \in 1..Len(cases') : CaseOK(cases'[j], rules')
      /\ NobodyLeftWaiting'
  BY <1>0, <1>1, OneCase
<1>3. sess' \in [Sessions -> SessionRow]
  BY DEF IInv, Tables, SessionRow, Idle
<1>4. Tables'
  BY <1>2, <1>3 DEF IInv, Tables
<1>5. \A t \in Sessions : sess'[t] = sess[t] \/ sess'[t] = Idle
  BY DEF IInv, Tables
<1>6. \A t \in Sessions : sess'[t].op \in Locking => Holding(sess[t], cases'[sess[t].n])
  <2> SUFFICES ASSUME NEW t \in Sessions, sess'[t].op \in Locking
               PROVE  Holding(sess[t], cases'[sess[t].n])
    OBVIOUS
  <2>1. t # s /\ sess[t].op \in Locking
    BY <1>5 DEF IInv, Tables, Idle, Locking
  <2>2. sess[t].n # i
    BY <1>0, <2>1 DEF IInv, OneHolder
  <2>3. sess[t].n \in 1..Len(cases) /\ Holding(sess[t], cases[sess[t].n])
    BY <2>1 DEF IInv, SessionOK
  <2> QED
    BY <1>2, <2>2, <2>3
<1>7. (\A t \in Sessions : SessionOK(sess[t]))' /\ OneHolder'
  <2>1. Len(rules) <= Len(rules') /\ Len(cases) <= Len(cases')
    BY <1>2 DEF IInv, Tables
  <2> QED
    BY <1>4, <1>5, <1>6, <2>1, SessionsKept
<1> QED
  BY <1>2, <1>4, <1>7 DEF IInv

\* Request r decides case c, which is b with its ballot.
Counts(r, c, b) ==
    /\ r.op = "resolve" /\ r.n \in 1..Len(cases)
    /\ CaseOK(c, rules) /\ c.proposal = "voting" /\ VotedAs(c, rules, b)
    /\ r.found \in SUBSET Ballot(b)
    /\ cases' = [cases EXCEPT ![r.n] = Resolved(b, r.found, r.choice = "none")]
    /\ cases'[r.n] = Resolved(b, r.found, r.choice = "none")

\* What a request commits that counted: the case with its ballot, as the voters it found
\* decide it.
LEMMA CountMeans ==
    ASSUME ElectorateAssumption, IInv, NEW s \in Sessions, CommitCount(s),
           NEW r, r = sess[s]
    PROVE  Counts(r, cases[r.n], Voted(cases[r.n], r))
<1>0. PICK c, b : c = cases[r.n] /\ b = Voted(c, r)
  OBVIOUS
<1>1. r.op = "resolve" /\ r \in SessionRow /\ SessionOK(r)
  BY DEF CommitCount, IInv, Tables
<1>2. r.n \in 1..Len(cases) /\ Holding(r, c)
  BY <1>0, <1>1 DEF SessionOK, Locking
<1>3. CaseOK(c, rules) /\ cases \in Seq(CaseRow(Len(rules)))
  BY <1>0, <1>2 DEF IInv, Tables
<1>4. /\ c.proposal = "voting" /\ (r.choice # "none" => r.member \in c.electors)
      /\ r.found \in SUBSET Ballot(b)
  BY <1>0, <1>1, <1>2 DEF Holding
<1>5. VotedAs(c, rules, b)
  <2>1. CASE r.choice = "none"
    BY <1>0, <1>3, <1>4, <2>1 DEF Voted, VotedAs
  <2>2. CASE r.choice # "none"
    <3>1. r.choice \in Choices /\ r.member \in c.electors
      BY <1>1, <1>4, <2>2 DEF SessionRow
    <3>2. r.member \in Members
      BY <1>3, <3>1 DEF CaseOK, CaseRow
    <3> QED
      BY <1>0, <1>3, <1>4, <3>1, <3>2, VotedOK
  <2> QED
    BY <2>1, <2>2
<1>6. cases' = [cases EXCEPT ![r.n] = Resolved(b, r.found, r.choice = "none")]
  BY <1>0, <1>2, <1>3 DEF CommitCount
<1>7. cases'[r.n] = Resolved(b, r.found, r.choice = "none")
  BY <1>2, <1>3, <1>6
<1> QED
  BY <1>0, <1>1, <1>2, <1>3, <1>4, <1>5, <1>6, <1>7 DEF Counts

\* A ballot or a finalisation is committed.
LEMMA CountStep ==
    ASSUME ElectorateAssumption, IInv, NEW s \in Sessions, CommitCount(s)
    PROVE  IInv'
<1>0. PICK r, c : r = sess[s] /\ c = cases[r.n]
  OBVIOUS
<1>1. PICK b : b = Voted(c, r)
  OBVIOUS
<1>2. /\ r.op = "resolve"
      /\ CaseOK(b, rules) /\ b.proposal = "voting" /\ r.found \in SUBSET Ballot(b)
      /\ cases' = [cases EXCEPT ![r.n] = Resolved(b, r.found, r.choice = "none")]
  <2>1. Counts(r, c, b)
    BY <1>0, <1>1, CountMeans
  <2> QED
    BY <2>1 DEF Counts, VotedAs
<1>3. PICK d : d = Resolved(b, r.found, r.choice = "none")
  OBVIOUS
<1>4. CaseOK(d, rules) /\ d.proposal # "awaiting_policy"
  <2>1. rules \in Seq(Policies)
    BY DEF IInv, Tables
  <2> QED
    BY <1>2, <1>3, <2>1, ResolvedOK
<1>5. /\ UNCHANGED <<status, terms, rules, activated, changes>>
      /\ sess' = [sess EXCEPT ![s] = Idle]
  BY DEF CommitCount, Finish
<1>6. status' \in [Members -> Statuses] /\ terms' \in [Members -> Nat] /\ OneCurrentTerm'
  BY <1>5 DEF IInv, Tables, OneCurrentTerm
<1>7. sess[s].op \in Locking /\ cases' = [cases EXCEPT ![sess[s].n] = d]
  BY <1>0, <1>2, <1>3 DEF Locking
<1> QED
  BY <1>4, <1>5, <1>6, <1>7, HolderEnds

\* An execution ends behind the lock of the applicant's row: the term is made or
\* found, or the failure recorded.
LEMMA ExecuteStep ==
    ASSUME ElectorateAssumption, IInv, NEW s \in Sessions, CommitExecute(s) \/ FailExecute(s)
    PROVE  IInv'
<1> DEFINE i == sess[s].n
<1>1. /\ UNCHANGED <<rules, activated, changes>>
      /\ sess' = [sess EXCEPT ![s] = Idle]
      /\ sess[s].op = "execute" /\ sess[s].op \in Locking
  BY DEF CommitExecute, FailExecute, Finish, Locking
<1>2. /\ i \in 1..Len(cases)
      /\ cases[i].proposal \in {"approved", "execution_failed"}
  BY <1>1 DEF IInv, SessionOK, Holding
<1>3. /\ cases \in Seq(CaseRow(Len(rules))) /\ cases[i] \in CaseRow(Len(rules))
      /\ CaseOK(cases[i], rules) /\ cases[i].applicant \in Members
  <2>1. cases \in Seq(CaseRow(Len(rules))) /\ CaseOK(cases[i], rules)
    BY <1>2 DEF IInv, Tables
  <2>2. cases[i] \in CaseRow(Len(rules))
    BY <1>2, <2>1
  <2> QED
    BY <2>1, <2>2 DEF CaseRow
<1> DEFINE a == cases[i].applicant
<1>4. PICK d : /\ cases' = [cases EXCEPT ![i] = d]
               /\ \/ d = [cases[i] EXCEPT !.proposal = "execution_failed"]
                  \/ d = [cases[i] EXCEPT !.proposal = "executed", !.application = "admitted"]
  BY <1>2, <1>3 DEF CommitExecute, FailExecute, Fail
<1>5. CaseOK(d, rules) /\ d.proposal # "awaiting_policy"
  BY <1>2, <1>3, <1>4, ExecutionOK
<1>6. /\ \/ UNCHANGED <<status, terms>>
         \/ /\ terms' = [terms EXCEPT ![a] = IF @ = 0 THEN 1 ELSE @]
            /\ status' = [status EXCEPT ![a] = "admitted"]
  BY DEF CommitExecute, FailExecute, Assign
<1>7. cases' = [cases EXCEPT ![sess[s].n] = d]
  BY <1>4
<1> HIDE DEF i, a
<1>8. /\ status' \in [Members -> Statuses] /\ terms' \in [Members -> Nat]
      /\ OneCurrentTerm'
  <2>1. /\ status \in [Members -> Statuses] /\ "admitted" \in Statuses
        /\ terms \in [Members -> Nat] /\ \A n \in Members : terms[n] <= 1
    BY DEF IInv, Tables, Statuses, OneCurrentTerm
  <2>2. /\ status' \in [Members -> Statuses]
        /\ terms' \in [Members -> Nat] /\ \A n \in Members : terms'[n] <= 1
    BY <1>6, <2>1
  <2> QED
    BY <2>2 DEF OneCurrentTerm
<1> QED
  BY <1>1, <1>5, <1>7, <1>8, HolderEnds

-----------------------------------------------------------------------------
(* The theorems. *)

\* Every step keeps the invariant.
LEMMA NextIInv == ASSUME ElectorateAssumption, IInv, [Next]_vars PROVE IInv'
<1>1. CASE UNCHANGED vars
  <2>1. UNCHANGED <<status, terms, rules, activated, cases, sess, changes>>
    BY <1>1 DEF vars, rowVars
  <2>2. Tables' /\ OneHolder' /\ OneCurrentTerm'
    BY <2>1 DEF IInv, Tables, OneHolder, OneCurrentTerm
  <2>3. (\A s \in Sessions : SessionOK(sess[s]))'
    <3> SUFFICES ASSUME NEW s \in Sessions PROVE SessionOK(sess[s])'
      OBVIOUS
    <3> QED
      BY <2>1 DEF IInv, SessionOK
  <2> QED
    BY <2>1, <2>2, <2>3, CasesSame DEF IInv
<1>2. ASSUME NEW m \in Members, Register(m) \/ Lifecycle(m) PROVE IInv'
  BY <1>2, MemberStep
<1>3. ASSUME NEW s \in Sessions,
             \/ Rollback(s) \/ CommitSubmit(s) \/ Activate(s)
             \/ CommitCount(s) \/ CommitExecute(s) \/ FailExecute(s)
      PROVE  IInv'
  BY <1>3, RollbackStep, SubmitStep, ActivateStep, CountStep, ExecuteStep
<1>4. ASSUME NEW s \in Sessions,
             \/ CountVoters(s)
             \/ \E m \in Members : BeginSubmit(s, m)
             \/ \E m \in Members, i \in 1..Len(cases), c \in Choices : BeginBallot(s, m, i, c)
             \/ \E m \in Operators, i \in 1..Len(cases) :
                   BeginFinalize(s, m, i) \/ BeginExecute(s, m, i)
      PROVE  IInv'
  <2>1. Operators \subseteq Members
    BY DEF ElectorateAssumption
  <2> QED
    BY <1>4, <2>1, BeginStep
<1>5. ASSUME NEW s \in Sessions, NEW m \in Operators, NEW p \in Policies, Publish(s, m, p)
      PROVE  IInv'
  BY <1>5, PublishStep DEF ElectorateAssumption
<1>6. ASSUME NEW i \in 1..Len(cases),
             Deadline(i) \/ \E m \in Operators : RefuseExecute(m, i)
      PROVE  IInv'
  BY <1>6, CaseStep
<1> QED
  BY <1>1, <1>2, <1>3, <1>4, <1>5, <1>6 DEF Next

\* The inductive invariant holds in every reachable state of the admissions.
THEOREM SpecIInv == ElectorateAssumption => (Spec => []IInv)
<1> SUFFICES ASSUME ElectorateAssumption PROVE Spec => []IInv
  OBVIOUS
<1>1. Init => IInv
  BY InitIInv
<1>2. IInv /\ [Next]_vars => IInv'
  BY NextIInv
<1> QED
  BY <1>1, <1>2, PTL DEF Spec

\* Every reachable state is well typed: applications, proposals, policies, requests.
THEOREM TypeCorrect == ElectorateAssumption => (Spec => []TypeOK)
<1>1. IInv => TypeOK
  BY Typed DEF IInv
<1> QED
  BY <1>1, SpecIInv, PTL

\* _sync_member_application_resolution and _execute_member_admission keep application,
\* proposal and resolution telling one story.
THEOREM StoriesAgree == ElectorateAssumption => (Spec => []ApplicationAgrees)
<1>1. IInv => ApplicationAgrees
  BY DEF IInv, CaseOK, CaseAgrees, ApplicationAgrees
<1> QED
  BY <1>1, SpecIInv, PTL

\* Whoever is admitted was approved by enough distinct members of the electorate that
\* was frozen with the version, not by themselves (_resolution_outcome).
THEOREM AdmittedByVote == ElectorateAssumption => (Spec => []AdmittedByElectorate)
<1> SUFFICES ASSUME ElectorateAssumption PROVE Spec => []AdmittedByElectorate
  OBVIOUS
<1>1. IInv => AdmittedByElectorate
  <2> SUFFICES ASSUME IInv, NEW i \in 1..Len(cases),
                      cases[i].outcome = "approved", NEW c, c = cases[i],
                      NEW voters, voters = {m \in Members : c.ballots[m] # <<>>}
               PROVE  /\ c.version \in 1..Len(rules)
                      /\ Cardinality({m \in voters : Latest(c, m) = "approve"}) >=
                             rules[c.version].approve
                      /\ c.evidence.approve >= rules[c.version].approve
                      /\ c.evidence.part >= rules[c.version].minimum
                      /\ voters \subseteq c.electors \ {c.applicant}
    BY DEF AdmittedByElectorate
  <2>1. CaseOK(c, rules) /\ rules \in Seq(Policies)
    BY DEF IInv, Tables
  <2>2. c.proposal # "awaiting_policy"
    BY <2>1 DEF CaseOK, CaseAgrees
  <2>3. c.version \in 1..Len(rules)
    BY <2>1, <2>2, RuleBound
  <2>4. {m \in voters : Latest(c, m) = "approve"} = Approvers(c)
    BY DEF Approvers
  <2>5. voters \subseteq c.electors \ {c.applicant}
    BY <2>1 DEF CaseOK, CaseElectorate
  <2> QED
    BY <2>1, <2>3, <2>4, <2>5 DEF CaseOK, CaseApproved
<1> QED
  BY <1>1, SpecIInv, PTL

\* However often and by whomever executions are tried, nobody has two covenanter terms
\* (create_role_assignment), and once some version's waiting proposals were activated no
\* proposal waits for a policy.
THEOREM OneTermNobodyWaits ==
    ElectorateAssumption => (Spec => [](OneCurrentTerm /\ NobodyLeftWaiting))
<1>1. IInv => OneCurrentTerm /\ NobodyLeftWaiting
  BY DEF IInv
<1> QED
  BY <1>1, SpecIInv, PTL

-----------------------------------------------------------------------------
(* What a step may do to a case. *)

\* Besides Moves: a waiting case is started, one is decided or voted on, an approved one
\* executed.
LEMMA CaseChange ==
    ASSUME ElectorateAssumption, IInv, [Next]_vars, NEW i \in 1..Len(cases)
    PROVE  \/ cases'[i] = cases[i]
           \/ /\ cases[i].proposal = "awaiting_policy"
              /\ \E v \in 1..Len(rules) : cases'[i] = Started(cases[i], v)
           \/ Moves(cases[i], cases'[i])
           \/ \E s \in Sessions : CommitCount(s) /\ sess[s].n = i
           \/ /\ cases[i].proposal \in {"approved", "execution_failed"}
              /\ cases'[i] = [cases[i] EXCEPT !.proposal = "executed", !.application = "admitted"]
<1>1. cases \in Seq(CaseRow(Len(rules)))
  BY DEF IInv, Tables
<1>2. CASE UNCHANGED cases
  BY <1>2
<1>3. ASSUME NEW s \in Sessions, CommitSubmit(s) PROVE cases'[i] = cases[i]
  <2>1. PICK d : cases' = Append(cases, d)
    BY <1>3 DEF CommitSubmit
  <2> QED
    BY <1>1, <2>1
<1>4. ASSUME NEW s \in Sessions, Activate(s)
      PROVE  \/ cases'[i] = cases[i]
             \/ /\ cases[i].proposal = "awaiting_policy"
                /\ \E v \in 1..Len(rules) : cases'[i] = Started(cases[i], v)
  <2>1. sess[s].n \in 1..Len(rules)
    BY <1>4 DEF IInv, SessionOK, Activate
  <2>2. cases'[i] = IF cases[i].proposal = "awaiting_policy"
                       THEN Started(cases[i], sess[s].n) ELSE cases[i]
    BY <1>4 DEF Activate
  <2> QED
    BY <2>1, <2>2
<1>5. ASSUME NEW s \in Sessions, CommitExecute(s) \/ FailExecute(s)
      PROVE  \/ cases'[i] = cases[i]
             \/ Moves(cases[i], cases'[i])
             \/ /\ cases[i].proposal \in {"approved", "execution_failed"}
                /\ cases'[i] = [cases[i] EXCEPT !.proposal = "executed",
                                                !.application = "admitted"]
  <2>1. /\ sess[s].n \in 1..Len(cases)
        /\ cases[sess[s].n].proposal \in {"approved", "execution_failed"}
    BY <1>5 DEF IInv, SessionOK, Holding, Locking, CommitExecute, FailExecute
  <2>2. PICK d : /\ cases' = [cases EXCEPT ![sess[s].n] = d]
                 /\ \/ d = [cases[sess[s].n] EXCEPT !.proposal = "execution_failed"]
                    \/ d = [cases[sess[s].n] EXCEPT !.proposal = "executed",
                                                   !.application = "admitted"]
    BY <1>1, <1>5, <2>1 DEF CommitExecute, FailExecute, Fail
  <2>3. CASE i = sess[s].n
    <3>1. cases'[i] = d
      BY <1>1, <2>2, <2>3
    <3> QED
      BY <2>1, <2>2, <2>3, <3>1 DEF Moves
  <2>4. CASE i # sess[s].n
    BY <1>1, <2>2, <2>4
  <2> QED
    BY <2>3, <2>4
<1>6. ASSUME NEW j \in 1..Len(cases),
             Deadline(j) \/ \E m \in Operators : RefuseExecute(m, j)
      PROVE  cases'[i] = cases[i] \/ Moves(cases[i], cases'[i])
  <2>1. cases' = [cases EXCEPT ![j] = cases'[j]] /\ Moves(cases[j], cases'[j])
    BY <1>6, CaseStepMeans
  <2>2. CASE i = j
    BY <2>1, <2>2
  <2>3. CASE i # j
    BY <1>1, <2>1, <2>3
  <2> QED
    BY <2>2, <2>3
<1>7. \/ UNCHANGED cases
      \/ \E s \in Sessions : CommitSubmit(s)
      \/ \E s \in Sessions : Activate(s)
      \/ \E s \in Sessions : CommitExecute(s) \/ FailExecute(s)
      \/ \E s \in Sessions : CommitCount(s)
      \/ \E j \in 1..Len(cases) : Deadline(j) \/ \E m \in Operators : RefuseExecute(m, j)
  BY DEF Next, vars, rowVars, Register, Lifecycle, Rollback, BeginSubmit, Publish, BeginBallot,
         BeginFinalize, CountVoters, BeginExecute
<1>8. ASSUME NEW s \in Sessions, CommitCount(s)
      PROVE  cases'[i] = cases[i] \/ sess[s].n = i
  BY <1>1, <1>8 DEF CommitCount
<1> QED
  BY <1>2, <1>3, <1>4, <1>5, <1>6, <1>7, <1>8

\* A decided case keeps its outcome, evidence, electorate and ballots, an executed one
\* stays executed, a running vote keeps its version and electorate: no ballot,
\* finalisation, retry or new policy reopens it.
THEOREM CasesSettle == ElectorateAssumption => (Spec => [][Settled]_vars)
<1> SUFFICES ASSUME ElectorateAssumption PROVE Spec => [][Settled]_vars
  OBVIOUS
<1>1. ASSUME IInv, [Next]_vars PROVE Settled
  <2> SUFFICES ASSUME NEW i \in 1..Len(cases), NEW c, c = cases[i], NEW d, d = cases'[i]
               PROVE  /\ c.outcome # "none" =>
                            /\ d.outcome = c.outcome /\ d.evidence = c.evidence
                            /\ d.ballots = c.ballots
                      /\ c.version # 0 => d.version = c.version /\ d.electors = c.electors
                      /\ c.proposal = "executed" => d = c
    BY DEF Settled
  <2>1. /\ c \in CaseRow(Len(rules)) /\ CaseAgrees(c) /\ CaseElectorate(c)
    BY <1>1 DEF IInv, CaseOK
  <2>2. CASE d = c
    BY <2>2
  <2>3. CASE c.proposal = "awaiting_policy" /\ \E v \in 1..Len(rules) : d = Started(c, v)
    BY <2>1, <2>3 DEF CaseAgrees, CaseElectorate
  <2>4. CASE c.proposal = "voting" /\ d = [c EXCEPT !.overdue = TRUE]
    BY <2>1, <2>4 DEF CaseRow
  <2>5. ASSUME NEW s \in Sessions, CommitCount(s), sess[s].n = i
        PROVE  /\ c.outcome = "none" /\ c.proposal # "executed"
               /\ d.version = c.version /\ d.electors = c.electors
    <3>0. PICK r, b : r = sess[s] /\ b = Voted(c, r)
      OBVIOUS
    <3>1. /\ c.proposal = "voting" /\ CaseOK(b, rules) /\ b.version = c.version
          /\ b.electors = c.electors /\ d = Resolved(b, r.found, r.choice = "none")
      <4>1. Counts(r, c, b)
        BY <1>1, <2>5, <3>0, CountMeans
      <4> QED
        BY <2>5, <3>0, <4>1 DEF Counts, VotedAs
    <3>2. b \in CaseRow(Len(rules))
      BY <3>1 DEF CaseOK
    <3>3. d.version = b.version /\ d.electors = b.electors
      <4>1. CASE Outcome(b, r.found, r.choice = "none") = "none"
        BY <3>1, <4>1 DEF Resolved
      <4>2. CASE Outcome(b, r.found, r.choice = "none") # "none"
        <5>1. DecidedAs(b, r.found, Outcome(b, r.found, r.choice = "none"), d)
          BY <3>1, <3>2, <4>2, ResolvedIs
        <5> QED
          BY <5>1 DEF DecidedAs
      <4> QED
        BY <4>1, <4>2
    <3> QED
      BY <2>1, <3>1, <3>3 DEF CaseAgrees
  <2>6. CASE /\ c.proposal \in {"approved", "execution_failed"}
             /\ \/ d = [c EXCEPT !.proposal = "execution_failed"]
                \/ d = [c EXCEPT !.proposal = "executed", !.application = "admitted"]
    BY <2>1, <2>6 DEF CaseRow
  <2> QED
    BY <1>1, <2>2, <2>3, <2>4, <2>5, <2>6, CaseChange DEF Moves
<1> QED
  BY <1>1, SpecIInv, PTL DEF Spec

\* A request that has brought its ballot and now has counted did so in this step.
LEMMA CountedNow ==
    ASSUME IInv, [Next]_vars, NEW s \in Sessions, sess[s].op = "ballot", sess'[s].op = "resolve"
    PROVE  CountVoters(s)
<1>1. sess'[s] # sess[s] /\ sess'[s] # Idle /\ sess[s] # Idle
  BY DEF Idle
<1>2. sess \in [Sessions -> SessionRow]
  BY DEF IInv, Tables
<1>3. ASSUME NEW t \in Sessions, NEW r, Begin(t, r) PROVE FALSE
  BY <1>1, <1>2, <1>3 DEF Begin
<1>4. ASSUME NEW t \in Sessions, Finish(t) PROVE FALSE
  BY <1>1, <1>2, <1>4 DEF Finish
<1>5. ASSUME NEW t \in Sessions, CountVoters(t) PROVE t = s
  BY <1>1, <1>2, <1>5 DEF CountVoters
<1>6. ~UNCHANGED sess
  BY <1>1
<1>7. \/ UNCHANGED sess
      \/ \E t \in Sessions : Finish(t) \/ CountVoters(t) \/ \E r : Begin(t, r)
  BY DEF Next, vars, rowVars, Register, Lifecycle, Rollback, CommitSubmit, Activate, CommitCount,
         CommitExecute, FailExecute, BeginSubmit, Publish, BeginBallot, BeginFinalize,
         BeginExecute, Deadline, RefuseExecute
<1> QED
  BY <1>3, <1>4, <1>5, <1>6, <1>7

\* An approval counts voters who may vote when they are counted, on the ballots as they
\* stand when it is written (proposal_tally under the lock of the proposal).
THEOREM ApprovalsCountEligible == ElectorateAssumption => (Spec => [][ApprovedByEligible]_vars)
<1> SUFFICES ASSUME ElectorateAssumption PROVE Spec => [][ApprovedByEligible]_vars
  OBVIOUS
<1>1. ASSUME IInv, [Next]_vars, NEW s \in Sessions, NEW r, r = sess[s],
             NEW c, c = cases[r.n], r.op = "ballot", sess'[s].op = "resolve"
      PROVE  \A m \in sess'[s].found : MayVote(c, m)
  <2>1. CountVoters(s) /\ sess \in [Sessions -> SessionRow]
    BY <1>1, CountedNow DEF IInv, Tables
  <2>2. sess'[s].found = Voters(Voted(c, r))
    BY <1>1, <2>1 DEF CountVoters, SessionRow
  <2>3. c \in CaseRow(Len(rules))
    <3>1. r.n \in 1..Len(cases)
      BY <1>1 DEF IInv, SessionOK, Locking
    <3> QED
      BY <1>1, <3>1 DEF IInv, CaseOK
  <2>4. /\ Voted(c, r).electors = c.electors /\ Voted(c, r).version = c.version
        /\ Voted(c, r).applicant = c.applicant
    BY <2>3 DEF Voted, CaseRow
  <2> QED
    BY <2>2, <2>4 DEF Voters, MayVote
<1>2. ASSUME IInv, [Next]_vars, NEW s \in Sessions, NEW r, r = sess[s],
             NEW c, c = cases[r.n], NEW d, d = cases'[r.n],
             r.op = "resolve", d.outcome = "approved"
      PROVE  /\ r.found \subseteq {m \in Members : d.ballots[m] # <<>>}
             /\ Cardinality({m \in r.found : Latest(d, m) = "approve"})
                   >= rules[c.version].approve
  <2>1. r.n \in 1..Len(cases) /\ Holding(r, c)
    BY <1>2 DEF IInv, SessionOK, Locking
  <2>2. /\ CaseOK(c, rules) /\ c \in CaseRow(Len(rules)) /\ CaseAgrees(c)
        /\ c.proposal = "voting" /\ rules \in Seq(Policies)
    BY <1>2, <2>1 DEF IInv, Tables, CaseOK, Holding
  <2>3. CommitCount(s)
    <3>1. d # c
      BY <1>2, <2>2 DEF CaseAgrees
    <3>2. d # [c EXCEPT !.overdue = TRUE]
      BY <1>2, <2>2 DEF CaseRow, CaseAgrees
    <3>3. PICK t \in Sessions : CommitCount(t) /\ sess[t].n = r.n
      BY <1>2, <2>1, <2>2, <3>1, <3>2, CaseChange DEF Moves
    <3>4. t = s
      BY <1>2, <3>3 DEF IInv, OneHolder, CommitCount, Locking
    <3> QED
      BY <3>3, <3>4
  <2>4. PICK b : b = Voted(c, r)
    OBVIOUS
  <2>5. /\ CaseOK(b, rules) /\ b.proposal = "voting" /\ b.version = c.version
        /\ r.found \in SUBSET Ballot(b) /\ d = Resolved(b, r.found, r.choice = "none")
    <3>1. Counts(r, c, b)
      BY <1>2, <2>3, <2>4, CountMeans
    <3> QED
      BY <1>2, <3>1 DEF Counts, VotedAs
  <2>6. PICK o : o = Outcome(b, r.found, r.choice = "none")
    OBVIOUS
  <2>7. b \in CaseRow(Len(rules)) /\ b.outcome = "none"
    BY <2>5 DEF CaseOK, CaseAgrees
  <2>8. o # "none"
    BY <1>2, <2>5, <2>6, <2>7 DEF Resolved
  <2>9. d.outcome = o /\ d.ballots = b.ballots
    <3>1. DecidedAs(b, r.found, o, d)
      BY <2>5, <2>6, <2>7, <2>8, ResolvedIs
    <3> QED
      BY <3>1 DEF DecidedAs
  <2>10. Counted(b, r.found, {"approve"}) >= rules[c.version].approve
    <3>1. rules[b.version] \in Rule
      BY <2>2, <2>5, RuleBound
    <3> QED
      BY <1>2, <2>5, <2>6, <2>9, <3>1, OutcomeMeans
  <2>11. {m \in r.found : Latest(d, m) = "approve"}
           = {m \in r.found : Latest(b, m) \in {"approve"}}
    BY <2>9 DEF Latest
  <2> QED
    BY <2>5, <2>9, <2>10, <2>11 DEF Counted, Ballot
<1>3. ASSUME IInv, [Next]_vars PROVE ApprovedByEligible
  BY <1>1, <1>2, <1>3 DEF ApprovedByEligible
<1> QED
  BY <1>3, SpecIInv, PTL DEF Spec

\* No execution gives a term to a member who was suspended after it had checked
\* (create_role_assignment looks again behind the lock).
THEOREM DisabledGetNoTerm == ElectorateAssumption => (Spec => [][NoTermForDisabled]_vars)
<1>1. ASSUME IInv, [Next]_vars PROVE NoTermForDisabled
  <2>1. terms \in [Members -> Nat]
    BY <1>1 DEF IInv, Tables
  <2>2. CASE UNCHANGED terms
    BY <2>1, <2>2 DEF NoTermForDisabled
  <2>3. ASSUME NEW m \in Members, terms' = [terms EXCEPT ![m] = 0] PROVE NoTermForDisabled
    BY <2>1, <2>3 DEF NoTermForDisabled
  <2>4. ASSUME NEW s \in Sessions, CommitExecute(s) PROVE NoTermForDisabled
    <3>1. PICK a : /\ ~Disabled(a)
                   /\ terms' = [terms EXCEPT ![a] = IF @ = 0 THEN 1 ELSE @]
      BY <2>4 DEF CommitExecute, Assign
    <3>2. \A m \in Members : m # a => terms'[m] = terms[m]
      BY <2>1, <3>1
    <3> QED
      BY <2>1, <3>1, <3>2 DEF NoTermForDisabled
  <2>5. \/ UNCHANGED terms
        \/ \E m \in Members : terms' = [terms EXCEPT ![m] = 0]
        \/ \E s \in Sessions : CommitExecute(s)
    BY <1>1 DEF Next, vars, rowVars, Register, Lifecycle, Rollback, CommitSubmit, Activate,
                FailExecute, BeginSubmit, Publish, BeginExecute, BeginBallot, BeginFinalize,
                CountVoters, CommitCount, Deadline, RefuseExecute
  <2> QED
    BY <2>2, <2>3, <2>4, <2>5
<1> QED
  BY <1>1, SpecIInv, PTL DEF Spec

-----------------------------------------------------------------------------
(* DeliberatorExam *)

QuestionStatuses == {"draft", "published", "retired"}

\* Versions of questions, as they are named in requests and samples.
VersionIds == Questions \X Nat

PolicyRow == [count : Nat \ {0}, percent : 1..100, status : {"active", "retired"}]

AttemptRow == [member : Candidates, sample : SUBSET VersionIds,
               status : {"in_progress", "passed", "failed", "invalidated"},
               score : Nat, need : Nat, term : Nat]

TermRow == [member : Candidates, running : BOOLEAN]

ExamRequest == [op : {"idle", "loaded", "publishing", "policy", "exam", "grant", "appoint"},
                q : {<<>>} \cup VersionIds, seen : {"none"} \cup QuestionStatuses,
                others : SUBSET VersionIds, policy : Nat, attempt : Nat,
                member : SUBSET Candidates, score : Nat, new : Nat, percent : 0..100]

\* The rows and the requests.
ExamTables ==
    /\ bank \in [Questions -> Seq(QuestionStatuses)]
    /\ policies \in Seq(PolicyRow)
    /\ attempts \in Seq(AttemptRow)
    /\ examTerms \in Seq(TermRow)
    /\ examSess \in [Sessions -> ExamRequest]

\* What a request knows: an opened question, a policy that makes sense, a candidate, and
\* an attempt that is still open, reached its score and is nobody else's.
ExamRequests ==
    \A s \in Sessions :
        LET r == examSess[s] IN
        /\ r.op \in {"loaded", "publishing"} => r.q \in VersionIds
        /\ r.op = "policy" => r.new \in Nat \ {0} /\ r.percent \in 1..100
        /\ r.op = "exam" => \E m \in Candidates : r.member = {m}
        /\ r.op \in {"grant", "appoint"} =>
              /\ r.attempt \in 1..Len(attempts)
              /\ attempts[r.attempt].status = "in_progress"
              /\ r.score >= attempts[r.attempt].need
              /\ \A t \in Sessions : examSess[t].op \in {"grant", "appoint"} /\ examSess[t].attempt = r.attempt => t = s

\* Passed attempts and terms, one to one.
TermsEarned ==
    /\ \A a \in 1..Len(attempts) :
          /\ attempts[a].term \in 0..Len(examTerms)
          /\ attempts[a].status = "passed" <=> attempts[a].term # 0
          /\ attempts[a].status = "passed" => attempts[a].score >= attempts[a].need
    /\ \A t \in 1..Len(examTerms) : \E a \in 1..Len(attempts) : attempts[a].term = t
    /\ \A a, b \in 1..Len(attempts) :
          attempts[a].term # 0 /\ attempts[a].term = attempts[b].term => a = b

\* One running term of a member, one active policy.
OneEach ==
    /\ \A t, u \in 1..Len(examTerms) :
          /\ examTerms[t].running /\ examTerms[u].running
          /\ examTerms[t].member = examTerms[u].member
          => t = u
    /\ \A p, q \in Exam!Active : p = q

ExamInv == Exam!TypeOK /\ ExamTables /\ ExamRequests /\ TermsEarned /\ OneEach

-----------------------------------------------------------------------------
(* The operators. *)

LEMMA ExamCardinality == \A S : Exam!Cardinality(S) = Cardinality(S)
  BY DEF Cardinality, Exam!Cardinality

\* A set whose elements are equal has at most one.
LEMMA AtMostOne ==
    ASSUME NEW S, \A x, y \in S : x = y
    PROVE  Exam!Cardinality(S) <= 1
<1>1. CASE S = {}
  BY <1>1, ExamCardinality, FS_EmptySet
<1>2. CASE S # {}
  <2>1. PICK x \in S : TRUE
    BY <1>2
  <2>2. S = {x}
    BY <2>1
  <2> QED
    BY <2>2, ExamCardinality, FS_Singleton
<1> QED
  BY <1>1, <1>2

\* The passing score of an exam lies between one point and all of them.
LEMMA ScoreInRange ==
    ASSUME NEW total \in Nat \ {0}, NEW percent \in 1..100
    PROVE  Exam!PassingScore(total, percent) \in 1..total
<1> DEFINE p == total * percent
<1>1. p \in Nat /\ 1 <= p
  BY SMT
<1>2. p <= total * 100
  BY SMT
<1> HIDE DEF p
<1>3. (p + 99) \div 100 >= 1 /\ (p + 99) \div 100 <= total /\ (p + 99) \div 100 \in Int
  BY <1>1, <1>2, SMT
<1> QED
  BY <1>3 DEF Exam!PassingScore, p

\* The published versions are versions.
LEMMA PublishedVersions ==
    ASSUME ExamTables
    PROVE  Exam!Versions \subseteq VersionIds /\ Exam!Published \subseteq VersionIds
<1>1. \A q \in Questions : Len(bank[q]) \in Nat
  BY DEF ExamTables
<1> QED
  BY <1>1 DEF Exam!Versions, Exam!Published, VersionIds

\* A running term that is alone is the highest of them.
LEMMA OnlyOne ==
    ASSUME NEW S \in SUBSET Nat, NEW t \in S, \A x, y \in S : x = y
    PROVE  Exam!Max(S) = t
<1>1. t \in S /\ \A y \in S : t >= y
  OBVIOUS
<1>2. \A x \in S : x = t
  OBVIOUS
<1> QED
  BY <1>1, <1>2, Zenon DEF Exam!Max

LEMMA ExamIdle == Exam!Idle \in ExamRequest /\ Exam!Idle.op = "idle"
  BY DEF Exam!Idle, ExamRequest

\* The banks of questions there may be.
Banks == {b \in [Questions -> Seq(QuestionStatuses)] :
            \A q \in Questions : Len(b[q]) <= MaxQuestionVersions}

\* What a request may become that holds r.
RequestFits(s, r) ==
    /\ r \in ExamRequest
    /\ r.op \in {"loaded", "publishing"} => r.q \in VersionIds
    /\ r.op = "policy" => r.new \in Nat \ {0} /\ r.percent \in 1..100
    /\ r.op = "exam" => \E m \in Candidates : r.member = {m}
    /\ r.op \in {"grant", "appoint"} =>
          /\ r.attempt \in 1..Len(attempts)
          /\ attempts[r.attempt].status = "in_progress"
          /\ r.score >= attempts[r.attempt].need
          /\ \A t \in Sessions \ {s} : ~(examSess[t].op \in {"grant", "appoint"} /\ examSess[t].attempt = r.attempt)

LEMMA IdleFits == \A s : RequestFits(s, Exam!Idle)
  BY ExamIdle DEF RequestFits

\* The other requests stay what they are.
LEMMA RequestsKept ==
    ASSUME ExamTables, ExamRequests, NEW s \in Sessions, NEW r, RequestFits(s, r),
           examSess' = [examSess EXCEPT ![s] = r], UNCHANGED attempts
    PROVE  ExamRequests'
<1> SUFFICES ASSUME NEW t \in Sessions
             PROVE  /\ examSess'[t].op \in {"loaded", "publishing"} => examSess'[t].q \in VersionIds
                    /\ examSess'[t].op = "policy" => examSess'[t].new \in Nat \ {0} /\ examSess'[t].percent \in 1..100
                    /\ examSess'[t].op = "exam" => \E m \in Candidates : examSess'[t].member = {m}
                    /\ examSess'[t].op \in {"grant", "appoint"} =>
                          /\ examSess'[t].attempt \in 1..Len(attempts)
                          /\ attempts[examSess'[t].attempt].status = "in_progress"
                          /\ examSess'[t].score >= attempts[examSess'[t].attempt].need
                          /\ \A u \in Sessions : examSess'[u].op \in {"grant", "appoint"}
                                /\ examSess'[u].attempt = examSess'[t].attempt => u = t
  BY DEF ExamRequests
<1>1. CASE t = s
  BY <1>1 DEF ExamTables, RequestFits
<1>2. CASE t # s
  <2>1. examSess'[t] = examSess[t] /\ \A u \in Sessions \ {s} : examSess'[u] = examSess[u]
    BY <1>2 DEF ExamTables
  <2>2. examSess'[s] = r
    BY DEF ExamTables
  <2> QED
    BY <1>2, <2>1, <2>2 DEF ExamRequests, RequestFits
<1> QED
  BY <1>1, <1>2

\* One request moves on, the bank may change: attempts, terms and policies stay.
LEMMA RequestMoves ==
    ASSUME ExamInv, NEW s \in Sessions, NEW r, RequestFits(s, r),
           examSess' = [examSess EXCEPT ![s] = r], bank' \in Banks,
           UNCHANGED <<policies, attempts, examTerms, eligible>>
    PROVE  ExamInv'
<1>1. ExamTables'
  BY DEF ExamInv, ExamTables, RequestFits, Banks
<1>2. Exam!TypeOK'
  BY DEF ExamInv, Exam!TypeOK, Banks, QuestionStatuses
<1>3. ExamRequests'
  BY RequestsKept DEF ExamInv
<1>4. TermsEarned' /\ OneEach'
  BY DEF ExamInv, TermsEarned, OneEach, Exam!Active
<1> QED
  BY <1>1, <1>2, <1>3, <1>4 DEF ExamInv

\* No request moves: questions, eligibility and the end of a term.
LEMMA NoRequestMoves ==
    ASSUME ExamInv, bank' \in Banks, eligible' \subseteq Candidates,
           examTerms' \in Seq(TermRow), Len(examTerms') = Len(examTerms),
           \A t \in 1..Len(examTerms) : /\ examTerms'[t].member = examTerms[t].member
                                        /\ examTerms'[t].running => examTerms[t].running,
           UNCHANGED <<policies, attempts, examSess>>
    PROVE  ExamInv'
<1>1. ExamTables' /\ Exam!TypeOK'
  BY DEF ExamInv, ExamTables, Exam!TypeOK, Banks, QuestionStatuses
<1>2. ExamRequests'
  BY DEF ExamInv, ExamRequests
<1>3. TermsEarned'
  BY DEF ExamInv, TermsEarned
<1>4. OneEach'
  BY DEF ExamInv, OneEach, Exam!Active
<1> QED
  BY <1>1, <1>2, <1>3, <1>4 DEF ExamInv

-----------------------------------------------------------------------------
(* The bank of questions. *)

LEMMA BankIs == ASSUME ExamInv PROVE bank \in Banks
  BY DEF ExamInv, ExamTables, Exam!TypeOK, Banks

LEMMA BankWith ==
    ASSUME ExamInv, NEW q, NEW f, q \in Questions => f \in Seq(QuestionStatuses) /\ Len(f) <= MaxQuestionVersions
    PROVE  [bank EXCEPT ![q] = f] \in Banks
  BY BankIs DEF Banks

\* A function on 1..n is a sequence.
LEMMA SequenceIs ==
    ASSUME NEW S, NEW n \in Nat, NEW f \in [1..n -> S]
    PROVE  f \in Seq(S) /\ Len(f) = n
  OBVIOUS

\* Retiring a version keeps the others.
LEMMA VersionRetired ==
    ASSUME ExamInv, NEW q \in Questions, NEW v
    PROVE  \A f : f = [bank[q] EXCEPT ![v] = "retired"]
                     => f \in Seq(QuestionStatuses) /\ Len(f) = Len(bank[q])
<1>1. bank[q] \in Seq(QuestionStatuses) /\ "retired" \in QuestionStatuses
  BY DEF ExamInv, ExamTables, QuestionStatuses
<1> DEFINE b == bank[q]
           e == "retired"
<1>2. b \in Seq(QuestionStatuses) /\ e \in QuestionStatuses
  BY <1>1
<1> HIDE DEF b, e
<1>3. b \in [1..Len(b) -> QuestionStatuses] /\ Len(b) \in Nat
  BY <1>2
<1>4. [b EXCEPT ![v] = e] \in [1..Len(b) -> QuestionStatuses]
  BY <1>2, <1>3
<1>5. SUFFICES ASSUME NEW f, f = [b EXCEPT ![v] = e]
               PROVE  f \in Seq(QuestionStatuses) /\ Len(f) = Len(b)
  BY DEF b, e
<1>6. f \in [1..Len(b) -> QuestionStatuses]
  BY <1>4, <1>5, Zenon
<1> HIDE <1>5
<1> QED
  BY <1>3, <1>6, SequenceIs

LEMMA QuestionSteps ==
    ASSUME Exam!DeliberatorExamAssumption, ExamInv, NEW s \in Sessions,
           \/ \E x \in Exam!Versions : Exam!LoadQuestion(s, x)
           \/ Exam!BeginPublish(s) \/ Exam!CommitPublish(s) \/ Exam!CopyToDraft(s)
           \/ Exam!Retire(s) \/ Exam!Replace(s) \/ Exam!Refuse(s)
    PROVE  ExamInv'
<1> DEFINE r == examSess[s]
           q == r.q[1]
           v == r.q[2]
<1>1. bank \in Banks /\ r \in ExamRequest /\ RequestFits(s, r)
      /\ \A x \in Questions : bank[x] \in Seq(QuestionStatuses) /\ Len(bank[x]) <= MaxQuestionVersions
  BY BankIs DEF ExamInv, ExamTables, ExamRequests, RequestFits, Banks
<1>2. r.op \in {"loaded", "publishing"} => q \in Questions /\ v \in Nat /\ r.q = <<q, v>> /\ r.q \in VersionIds
  BY <1>1 DEF RequestFits, VersionIds
<1>3. MaxQuestionVersions \in Nat \ {0}
  BY DEF Exam!DeliberatorExamAssumption
<1>4. ASSUME NEW x \in Exam!Versions, Exam!LoadQuestion(s, x) PROVE ExamInv'
  <2> DEFINE y == [Exam!Idle EXCEPT !.op = "loaded", !.q = x, !.seen = Exam!Status(x)]
  <2>1. x \in VersionIds
    BY PublishedVersions DEF ExamInv
  <2>2. Exam!Status(x) \in QuestionStatuses
    <3>1. PICK p \in Questions : x \in {p} \X (1..Len(bank[p]))
      BY DEF Exam!Versions
    <3> QED
      BY <1>1, <3>1 DEF Exam!Status
  <2>4. examSess' = [examSess EXCEPT ![s] = y] /\ UNCHANGED <<bank, policies, attempts, examTerms, eligible>>
    BY <1>4 DEF Exam!LoadQuestion, Exam!Start
  <2>3. y \in ExamRequest /\ y.op = "loaded" /\ y.q = x
    <3> DEFINE i == Exam!Idle
               st == Exam!Status(x)
    <3>1. i \in ExamRequest /\ st \in QuestionStatuses
      BY <2>2, ExamIdle
    <3>2. y = [i EXCEPT !.op = "loaded", !.q = x, !.seen = st]
      OBVIOUS
    <3> HIDE DEF i, st, y
    <3> QED
      BY <2>1, <3>1, <3>2 DEF ExamRequest
  <2> HIDE DEF y
  <2>5. RequestFits(s, y)
    BY <2>1, <2>3 DEF RequestFits
  <2> QED
    BY <1>1, <2>4, <2>5, RequestMoves
<1>5. CASE Exam!BeginPublish(s)
  <2> DEFINE others == {x \in Exam!Published : x[1] = q /\ x # r.q}
             y == [r EXCEPT !.op = "publishing", !.others = others]
  <2>1. others \subseteq VersionIds
    BY PublishedVersions DEF ExamInv
  <2>2. r.op = "loaded" /\ examSess' = [examSess EXCEPT ![s] = y]
        /\ UNCHANGED <<bank, policies, attempts, examTerms, eligible>>
    BY <1>1, <1>5 DEF Exam!BeginPublish, ExamInv, ExamTables
  <2> HIDE DEF others
  <2>3. y \in ExamRequest /\ y.op = "publishing" /\ y.q = r.q
    BY <1>1, <2>1 DEF ExamRequest
  <2> HIDE DEF y
  <2>4. RequestFits(s, y)
    BY <1>2, <2>2, <2>3 DEF RequestFits
  <2> QED
    BY <1>1, <2>2, <2>4, RequestMoves
<1>6. CASE Exam!CommitPublish(s)
  <2> DEFINE f == [w \in DOMAIN bank[q] |-> IF <<q, w>> = r.q THEN "published"
                                            ELSE IF <<q, w>> \in r.others THEN "retired" ELSE bank[q][w]]
  <2>1. r.op = "publishing" /\ bank' = [bank EXCEPT ![q] = f]
        /\ examSess' = [examSess EXCEPT ![s] = Exam!Idle] /\ UNCHANGED <<policies, attempts, examTerms, eligible>>
    <3>1. r.op = "publishing" /\ examSess' = [examSess EXCEPT ![s] = Exam!Idle]
          /\ UNCHANGED <<policies, attempts, examTerms, eligible>>
      BY <1>6 DEF Exam!CommitPublish, Exam!End
    <3>2. bank' = [bank EXCEPT ![q] = f]
      BY <1>1, <1>2, <1>6, <3>1 DEF Exam!CommitPublish, Banks
    <3> QED
      BY <3>1, <3>2
  <2>2. f \in Seq(QuestionStatuses) /\ Len(f) = Len(bank[q])
    <3>1. bank[q] \in Seq(QuestionStatuses) /\ DOMAIN bank[q] = 1..Len(bank[q]) /\ Len(bank[q]) \in Nat
      BY <1>1, <1>2, <2>1
    <3>2. \A w \in 1..Len(bank[q]) : bank[q][w] \in QuestionStatuses
      BY <3>1
    <3>3. f \in [1..Len(bank[q]) -> QuestionStatuses]
      BY <3>1, <3>2 DEF QuestionStatuses
    <3> HIDE DEF f
    <3> QED
      BY <3>1, <3>3
  <2> HIDE DEF f
  <2>3. bank' \in Banks
    BY <1>1, <1>2, <2>1, <2>2, BankWith
  <2> QED
    BY <2>1, <2>3, IdleFits, RequestMoves
<1>7. CASE Exam!CopyToDraft(s)
  <2>1. /\ r.op = "loaded" /\ bank' = [bank EXCEPT ![q] = Append(bank[q], "draft")]
        /\ Len(bank[q]) < MaxQuestionVersions
        /\ examSess' = [examSess EXCEPT ![s] = Exam!Idle] /\ UNCHANGED <<policies, attempts, examTerms, eligible>>
    BY <1>1, <1>2, <1>7 DEF Exam!CopyToDraft, Exam!End, Banks
  <2>2. Append(bank[q], "draft") \in Seq(QuestionStatuses)
        /\ Len(Append(bank[q], "draft")) <= MaxQuestionVersions
    BY <1>1, <1>2, <1>3, <2>1 DEF QuestionStatuses
  <2> QED
    BY <2>1, <2>2, BankWith, IdleFits, RequestMoves
<1>8. CASE Exam!Retire(s)
  <2>1. /\ r.op = "loaded"
        /\ bank' = IF r.seen = "retired" THEN bank
                   ELSE [bank EXCEPT ![q] = [bank[q] EXCEPT ![v] = "retired"]]
        /\ examSess' = [examSess EXCEPT ![s] = Exam!Idle] /\ UNCHANGED <<policies, attempts, examTerms, eligible>>
    BY <1>1, <1>2, <1>8 DEF Exam!Retire, Exam!End, Banks
  <2> DEFINE f == [bank[q] EXCEPT ![v] = "retired"]
  <2>2. f \in Seq(QuestionStatuses) /\ Len(f) = Len(bank[q])
    BY <1>2, <2>1, VersionRetired, Zenon
  <2> HIDE DEF f
  <2>3. bank' \in Banks
    <3>1. bank' = IF r.seen = "retired" THEN bank ELSE [bank EXCEPT ![q] = f]
      BY <2>1 DEF f
    <3>2. Len(f) <= MaxQuestionVersions
      BY <1>1, <1>2, <2>1, <2>2
    <3> QED
      BY <1>1, <2>2, <3>1, <3>2, BankWith
  <2> QED
    BY <2>1, <2>3, IdleFits, RequestMoves
<1>9. CASE Exam!Replace(s)
  <2> DEFINE f == [bank[q] EXCEPT ![v] = "retired"]
  <2>1. /\ r.op = "loaded" /\ bank' = [bank EXCEPT ![q] = Append(f, "published")]
        /\ v = Len(bank[q]) /\ v < MaxQuestionVersions
        /\ examSess' = [examSess EXCEPT ![s] = Exam!Idle] /\ UNCHANGED <<policies, attempts, examTerms, eligible>>
    BY <1>1, <1>2, <1>9 DEF Exam!Replace, Exam!End, Banks
  <2>2. f \in Seq(QuestionStatuses) /\ Len(f) = Len(bank[q])
    BY <1>2, <2>1, VersionRetired, Zenon
  <2> HIDE DEF f
  <2>3. Append(f, "published") \in Seq(QuestionStatuses) /\ Len(Append(f, "published")) <= MaxQuestionVersions
    BY <1>2, <1>3, <2>1, <2>2 DEF QuestionStatuses
  <2> QED
    BY <2>1, <2>3, BankWith, IdleFits, RequestMoves
<1>10. CASE Exam!Refuse(s)
  BY <1>1, <1>10, IdleFits, RequestMoves DEF Exam!Refuse, Exam!End
<1> QED
  BY <1>4, <1>5, <1>6, <1>7, <1>8, <1>9, <1>10

LEMMA CreateQuestionStep ==
    ASSUME Exam!DeliberatorExamAssumption, ExamInv, NEW q \in Questions,
           NEW st \in {"draft", "published"}, Exam!CreateQuestion(q, st)
    PROVE  ExamInv'
<1>1. <<st>> \in Seq(QuestionStatuses) /\ Len(<<st>>) = 1
  BY DEF QuestionStatuses
<1>2. bank' = [bank EXCEPT ![q] = <<st>>] /\ UNCHANGED <<policies, attempts, examTerms, eligible, examSess>>
  BY DEF Exam!CreateQuestion
<1> DEFINE f == <<st>>
<1>3. bank' \in Banks
  <2>1. f \in Seq(QuestionStatuses) /\ Len(f) <= MaxQuestionVersions
    BY <1>1 DEF Exam!DeliberatorExamAssumption
  <2>2. bank' = [bank EXCEPT ![q] = f]
    BY <1>2
  <2> HIDE DEF f
  <2> QED
    BY <2>1, <2>2, BankWith
<1>4. eligible \subseteq Candidates /\ examTerms \in Seq(TermRow)
  BY DEF ExamInv, Exam!TypeOK, ExamTables
<1> QED
  BY <1>2, <1>3, <1>4, NoRequestMoves

-----------------------------------------------------------------------------
(* Policies. *)

LEMMA ActivePolicies ==
    ASSUME ExamTables
    PROVE  \A p \in Exam!Active : p \in Nat /\ p \in 1..Len(policies) /\ policies[p] \in PolicyRow
  BY DEF ExamTables, Exam!Active

LEMMA BeginPolicyStep ==
    ASSUME ExamInv, NEW s \in Sessions, NEW n \in 1..Exam!Cardinality(Questions), NEW pc \in 1..100,
           Exam!BeginPolicy(s, n, pc)
    PROVE  ExamInv'
<1> DEFINE old == IF Exam!Active = {} THEN 0 ELSE CHOOSE p \in Exam!Active : TRUE
           y == [Exam!Idle EXCEPT !.op = "policy", !.new = n, !.percent = pc, !.policy = old]
<1>1. examSess' = [examSess EXCEPT ![s] = y] /\ UNCHANGED <<bank, policies, attempts, examTerms, eligible>>
      /\ n >= 1
  BY DEF Exam!BeginPolicy, Exam!Start
<1>2. old \in Nat
  BY ActivePolicies DEF ExamInv
<1>3. n \in Nat \ {0}
  BY <1>1
<1> HIDE DEF old
<1>4. y \in ExamRequest /\ y.op = "policy" /\ y.new = n /\ y.percent = pc
  <2> DEFINE i == Exam!Idle
  <2>1. i \in ExamRequest
    BY ExamIdle
  <2>2. y = [i EXCEPT !.op = "policy", !.new = n, !.percent = pc, !.policy = old]
    OBVIOUS
  <2>3. n \in Nat /\ pc \in 0..100
    BY <1>3
  <2> HIDE DEF i, y
  <2>4. y.op = "policy" /\ y.new = n /\ y.percent = pc
    BY <2>1, <2>2 DEF ExamRequest
  <2>5. y \in ExamRequest
    BY <1>2, <2>1, <2>2, <2>3 DEF ExamRequest
  <2> QED
    BY <2>4, <2>5
<1> HIDE DEF y
<1>5. RequestFits(s, y)
  BY <1>3, <1>4 DEF RequestFits
<1> QED
  BY <1>1, <1>5, BankIs, RequestMoves

\* A policy is added and the others stay or retire: at most one is active.
LEMMA PolicyAdded ==
    ASSUME ExamInv, NEW made \in PolicyRow, NEW kept \in Seq(PolicyRow),
           Len(kept) = Len(policies), \A p \in 1..Len(policies) : kept[p].status # "active",
           policies' = Append(kept, made), bank' \in Banks,
           UNCHANGED <<attempts, examTerms, eligible>>,
           \/ UNCHANGED examSess
           \/ \E s \in Sessions : examSess' = [examSess EXCEPT ![s] = Exam!Idle]
    PROVE  ExamInv'
<1>1. policies' \in Seq(PolicyRow) /\ Len(policies') = Len(policies) + 1
  BY DEF ExamInv, ExamTables
<1>2. \A p \in 1..Len(policies') : policies'[p] \in PolicyRow
      /\ (p = Len(policies) + 1 \/ policies'[p].status # "active")
  BY DEF ExamInv, ExamTables
<1>3. ExamTables'
  BY <1>1, ExamIdle DEF ExamInv, ExamTables, Banks
<1>4. Exam!TypeOK'
  BY <1>1, <1>2 DEF ExamInv, Exam!TypeOK, PolicyRow, Banks, QuestionStatuses
<1>5. ExamRequests'
  <2>1. CASE UNCHANGED examSess
    BY <2>1 DEF ExamInv, ExamRequests
  <2>2. ASSUME NEW s \in Sessions, examSess' = [examSess EXCEPT ![s] = Exam!Idle] PROVE ExamRequests'
    BY <2>2, IdleFits, RequestsKept DEF ExamInv
  <2> QED
    BY <2>1, <2>2
<1>6. TermsEarned'
  BY DEF ExamInv, TermsEarned
<1>7. OneEach'
  BY <1>1, <1>2 DEF ExamInv, OneEach, Exam!Active
<1> QED
  BY <1>3, <1>4, <1>5, <1>6, <1>7 DEF ExamInv

LEMMA CommitPolicyStep ==
    ASSUME ExamInv, NEW s \in Sessions, Exam!CommitPolicy(s)
    PROVE  ExamInv'
<1> DEFINE r == examSess[s]
           kept == [p \in 1..Len(policies) |->
                      IF p = r.policy THEN [policies[p] EXCEPT !.status = "retired"] ELSE policies[p]]
           made == [count |-> r.new, percent |-> r.percent, status |-> "active"]
<1>1. /\ r.op = "policy" /\ examSess' = [examSess EXCEPT ![s] = Exam!Idle]
      /\ policies' = IF Exam!Active \ {r.policy} = {} THEN Append(kept, made) ELSE policies
      /\ UNCHANGED <<bank, attempts, examTerms, eligible>>
  BY DEF Exam!CommitPolicy, Exam!End
<1>2. made \in PolicyRow
  BY <1>1 DEF ExamInv, ExamRequests, PolicyRow
<1>3. \A p \in 1..Len(policies) : policies[p] \in PolicyRow /\ Len(policies) \in Nat
  BY DEF ExamInv, ExamTables
<1>4. kept \in [1..Len(policies) -> PolicyRow]
  BY <1>3 DEF PolicyRow
<1>5. kept \in Seq(PolicyRow) /\ Len(kept) = Len(policies)
  <2> HIDE DEF kept
  <2>1. Len(policies) \in Nat
    BY DEF ExamInv, ExamTables
  <2> QED
    BY <1>4, <2>1
<1>6. CASE Exam!Active \ {r.policy} = {}
  <2>1. \A p \in 1..Len(policies) : kept[p].status # "active"
    BY <1>3, <1>6 DEF Exam!Active, PolicyRow
  <2>2. policies' = Append(kept, made)
    BY <1>1, <1>6
  <2> HIDE DEF kept, made
  <2> QED
    BY <1>1, <1>2, <1>5, <2>1, <2>2, BankIs, PolicyAdded
<1>7. CASE Exam!Active \ {r.policy} # {}
  <2>1. UNCHANGED <<bank, policies, attempts, examTerms, eligible>>
    BY <1>1, <1>7
  <2> QED
    BY <1>1, <2>1, BankIs, IdleFits, RequestMoves
<1> QED
  BY <1>6, <1>7

LEMMA BaselineStep ==
    ASSUME Exam!DeliberatorExamAssumption, ExamInv, Exam!Baseline
    PROVE  ExamInv'
<1> DEFINE q == CHOOSE q \in Questions : TRUE
           made == [count |-> 1, percent |-> 100, status |-> "active"]
<1>1. bank' = [bank EXCEPT ![q] = <<"published">>] /\ policies' = Append(policies, made)
      /\ UNCHANGED <<attempts, examTerms, eligible, examSess>> /\ Exam!Active = {}
  BY DEF Exam!Baseline
<1> HIDE DEF q
<1>2. <<"published">> \in Seq(QuestionStatuses) /\ Len(<<"published">>) = 1
  BY DEF QuestionStatuses
<1> DEFINE f == <<"published">>
<1>3. bank' \in Banks
  <2>1. f \in Seq(QuestionStatuses) /\ Len(f) <= MaxQuestionVersions
    BY <1>2 DEF Exam!DeliberatorExamAssumption
  <2>2. bank' = [bank EXCEPT ![q] = f]
    BY <1>1
  <2> HIDE DEF f
  <2> QED
    BY <2>1, <2>2, BankWith
<1>4. made \in PolicyRow
  BY DEF PolicyRow
<1>5. policies \in Seq(PolicyRow) /\ \A p \in 1..Len(policies) : policies[p].status # "active"
  BY <1>1 DEF ExamInv, ExamTables, Exam!Active
<1> HIDE DEF made
<1> QED
  BY <1>1, <1>3, <1>4, <1>5, PolicyAdded

-----------------------------------------------------------------------------
(* Attempts. *)

LEMMA BeginExamStep ==
    ASSUME ExamInv, NEW s \in Sessions, NEW m \in Candidates, Exam!BeginExam(s, m)
    PROVE  ExamInv'
<1> DEFINE y == [Exam!Idle EXCEPT !.op = "exam", !.member = {m}]
           i == Exam!Idle
<1>1. examSess' = [examSess EXCEPT ![s] = y] /\ UNCHANGED <<bank, policies, attempts, examTerms, eligible>>
  BY DEF Exam!BeginExam, Exam!Start
<1>2. i \in ExamRequest /\ y = [i EXCEPT !.op = "exam", !.member = {m}]
  BY ExamIdle
<1> HIDE DEF i, y
<1>3. y \in ExamRequest /\ y.op = "exam" /\ y.member = {m}
  BY <1>2 DEF ExamRequest
<1>4. RequestFits(s, y)
  BY <1>3 DEF RequestFits
<1> QED
  BY <1>1, <1>4, BankIs, RequestMoves

\* An attempt begins: it is open and has no term.
LEMMA AttemptAdded ==
    ASSUME ExamInv, NEW s \in Sessions, NEW x \in AttemptRow,
           x.status = "in_progress", x.term = 0, x.need \in 1..Exam!Cardinality(x.sample),
           attempts' = Append(attempts, x), examSess' = [examSess EXCEPT ![s] = Exam!Idle],
           UNCHANGED <<bank, policies, examTerms, eligible>>
    PROVE  ExamInv'
<1> DEFINE n == Len(attempts)
<1>1. /\ n \in Nat /\ attempts' \in Seq(AttemptRow) /\ Len(attempts') = n + 1
      /\ attempts'[n + 1] = x /\ \A a \in 1..n : attempts'[a] = attempts[a]
  BY DEF ExamInv, ExamTables
<1>2. examSess'[s] = Exam!Idle /\ \A t \in Sessions : t = s \/ examSess'[t] = examSess[t]
  BY DEF ExamInv, ExamTables
<1>3. ExamTables'
  BY <1>1, ExamIdle DEF ExamInv, ExamTables
<1> HIDE DEF n
<1>4. \A a \in 1..Len(attempts') : a \in 1..n \/ a = n + 1
  BY <1>1
<1>5. Exam!TypeOK'
  <2> SUFFICES ASSUME NEW a \in 1..Len(attempts')
               PROVE  /\ attempts'[a].member \in Candidates
                      /\ attempts'[a].status \in {"in_progress", "passed", "failed", "invalidated"}
                      /\ attempts'[a].term \in 0..Len(examTerms)
                      /\ attempts'[a].need \in 1..Exam!Cardinality(attempts'[a].sample)
    BY DEF ExamInv, Exam!TypeOK
  <2>1. CASE a \in 1..n
    BY <1>1, <2>1 DEF ExamInv, Exam!TypeOK, n
  <2>2. CASE a = n + 1
    <3>1. Len(examTerms) \in Nat
      BY DEF ExamInv, ExamTables
    <3> QED
      BY <1>1, <2>2, <3>1 DEF AttemptRow
  <2> QED
    BY <1>4, <2>1, <2>2
<1>6. ExamRequests'
  <2> DEFINE i == Exam!Idle
  <2>1. i.op = "idle" /\ examSess'[s] = i
    BY <1>2, ExamIdle
  <2> HIDE DEF i
  <2>2. \A t \in Sessions : examSess'[t].op # "idle" => examSess'[t] = examSess[t]
    BY <1>2, <2>1
  <2> SUFFICES ASSUME NEW t \in Sessions
               PROVE  /\ examSess'[t].op \in {"loaded", "publishing"} => examSess'[t].q \in VersionIds
                      /\ examSess'[t].op = "policy" => examSess'[t].new \in Nat \ {0} /\ examSess'[t].percent \in 1..100
                      /\ examSess'[t].op = "exam" => \E m \in Candidates : examSess'[t].member = {m}
                      /\ examSess'[t].op \in {"grant", "appoint"} =>
                            /\ examSess'[t].attempt \in 1..Len(attempts')
                            /\ attempts'[examSess'[t].attempt].status = "in_progress"
                            /\ examSess'[t].score >= attempts'[examSess'[t].attempt].need
                            /\ \A u \in Sessions : examSess'[u].op \in {"grant", "appoint"}
                                  /\ examSess'[u].attempt = examSess'[t].attempt => u = t
    BY DEF ExamRequests
  <2>3. CASE examSess'[t] = examSess[t]
    <3>1. CASE examSess[t].op \in {"grant", "appoint"}
      <4>1. PICK a : a = examSess[t].attempt
        OBVIOUS
      <4>2. /\ a \in 1..n /\ attempts[a].status = "in_progress" /\ examSess[t].score >= attempts[a].need
            /\ \A u \in Sessions : examSess[u].op \in {"grant", "appoint"} /\ examSess[u].attempt = a => u = t
        BY <3>1, <4>1 DEF ExamInv, ExamRequests, n
      <4>3. a \in 1..Len(attempts') /\ attempts'[a] = attempts[a]
        BY <1>1, <4>2
      <4>4. \A u \in Sessions : examSess'[u].op \in {"grant", "appoint"} /\ examSess'[u].attempt = a => u = t
        BY <2>2, <4>2
      <4> QED
        BY <2>3, <3>1, <4>1, <4>2, <4>3, <4>4
    <3>2. CASE examSess[t].op \notin {"grant", "appoint"}
      BY <2>3, <3>2 DEF ExamInv, ExamRequests
    <3> QED
      BY <3>1, <3>2
  <2>4. CASE examSess'[t].op = "idle"
    BY <2>4
  <2> QED
    BY <2>2, <2>3, <2>4
<1>7. TermsEarned'
  <2>1. \A a \in 1..Len(attempts') :
          /\ attempts'[a].term \in 0..Len(examTerms)
          /\ attempts'[a].status = "passed" <=> attempts'[a].term # 0
          /\ attempts'[a].status = "passed" => attempts'[a].score >= attempts'[a].need
    <3> SUFFICES ASSUME NEW a \in 1..Len(attempts')
                 PROVE  /\ attempts'[a].term \in 0..Len(examTerms)
                        /\ attempts'[a].status = "passed" <=> attempts'[a].term # 0
                        /\ attempts'[a].status = "passed" => attempts'[a].score >= attempts'[a].need
      OBVIOUS
    <3>1. CASE a \in 1..n
      BY <1>1, <3>1 DEF ExamInv, TermsEarned, n
    <3>2. CASE a = n + 1
      <4>1. Len(examTerms) \in Nat
        BY DEF ExamInv, ExamTables
      <4> QED
        BY <1>1, <3>2, <4>1
    <3> QED
      BY <1>4, <3>1, <3>2
  <2>2. \A t \in 1..Len(examTerms) : \E a \in 1..Len(attempts') : attempts'[a].term = t
    BY <1>1 DEF ExamInv, TermsEarned, n
  <2>3. \A a, b \in 1..Len(attempts') :
          attempts'[a].term # 0 /\ attempts'[a].term = attempts'[b].term => a = b
    BY <1>1, <1>4 DEF ExamInv, TermsEarned, n
  <2> QED
    BY <2>1, <2>2, <2>3 DEF TermsEarned
<1>8. OneEach'
  BY DEF ExamInv, OneEach, Exam!Active
<1> QED
  BY <1>3, <1>5, <1>6, <1>7, <1>8 DEF ExamInv

LEMMA DrawExamStep ==
    ASSUME ExamInv, NEW s \in Sessions, Exam!DrawExam(s)
    PROVE  ExamInv'
<1> DEFINE m == CHOOSE x \in Candidates : x \in examSess[s].member
           p == CHOOSE x \in Exam!Active : TRUE
<1>1. PICK sample \in Exam!kSubset(policies[p].count, Exam!Published) :
         attempts' = Append(attempts,
             [member |-> m, sample |-> sample, status |-> "in_progress", score |-> 0,
              need |-> Exam!PassingScore(Exam!Cardinality(sample), policies[p].percent), term |-> 0])
  BY DEF Exam!DrawExam
<1>2. /\ examSess[s].op = "exam" /\ Exam!Ready
      /\ examSess' = [examSess EXCEPT ![s] = Exam!Idle] /\ UNCHANGED <<bank, policies, examTerms, eligible>>
  BY DEF Exam!DrawExam, Exam!End
<1>3. m \in Candidates
  <2>1. \E x \in Candidates : x \in examSess[s].member
    BY <1>2 DEF ExamInv, ExamRequests
  <2> QED
    BY <2>1
<1>4. policies[p] \in PolicyRow
  <2>1. p \in Exam!Active
    BY <1>2 DEF Exam!Ready
  <2> HIDE DEF p
  <2> QED
    BY <2>1, ActivePolicies DEF ExamInv
<1>5. policies[p].count \in Nat \ {0} /\ policies[p].percent \in 1..100
  BY <1>4 DEF PolicyRow
<1> HIDE DEF m, p
<1>6. sample \subseteq Exam!Published /\ Exam!Cardinality(sample) = policies[p].count
  BY <1>1 DEF Exam!kSubset
<1>7. sample \in SUBSET VersionIds
  BY <1>6, PublishedVersions DEF ExamInv
<1> DEFINE need == Exam!PassingScore(Exam!Cardinality(sample), policies[p].percent)
           x == [member |-> m, sample |-> sample, status |-> "in_progress", score |-> 0,
                 need |-> need, term |-> 0]
<1>8. need \in 1..Exam!Cardinality(sample) /\ Exam!Cardinality(sample) \in Nat
  BY <1>5, <1>6, ScoreInRange
<1>9. attempts' = Append(attempts, x)
  BY <1>1
<1> HIDE DEF need
<1>10. x \in AttemptRow /\ x.status = "in_progress" /\ x.term = 0 /\ x.need = need /\ x.sample = sample
  BY <1>3, <1>7, <1>8 DEF AttemptRow
<1> HIDE DEF x
<1> QED
  BY <1>2, <1>8, <1>9, <1>10, AttemptAdded

\* An open attempt gets its result, with or without a term.
LEMMA ExamSubmitStep ==
    ASSUME ExamInv, NEW s \in Sessions, NEW a \in 1..Len(attempts), NEW score \in Nat,
           Exam!Submit(s, a, score)
    PROVE  ExamInv'
<1> DEFINE m == attempts[a].member
           passed == Exam!Candidate(m) /\ score >= attempts[a].need
<1>1. /\ examSess[s].op = "idle" /\ attempts[a].status = "in_progress"
      /\ \A t \in Sessions : examSess[t].op \in {"grant", "appoint"} => examSess[t].attempt # a
      /\ UNCHANGED <<bank, policies, examTerms, eligible>>
  BY DEF Exam!Submit
<1>2. CASE passed
  <2> DEFINE y == [Exam!Idle EXCEPT !.op = "grant", !.attempt = a, !.member = {m}, !.score = score]
             i == Exam!Idle
  <2>1. examSess' = [examSess EXCEPT ![s] = y] /\ UNCHANGED attempts
    BY <1>2 DEF Exam!Submit
  <2>2. i \in ExamRequest /\ y = [i EXCEPT !.op = "grant", !.attempt = a, !.member = {m}, !.score = score]
    BY ExamIdle
  <2>3. m \in Candidates /\ score >= attempts[a].need /\ a \in Nat
    BY <1>2 DEF ExamInv, Exam!TypeOK
  <2> HIDE DEF i, y, m, passed
  <2>4. y.op = "grant" /\ y.attempt = a /\ y.score = score
    BY <2>2 DEF ExamRequest
  <2>5. y \in ExamRequest
    BY <2>2, <2>3 DEF ExamRequest
  <2>6. RequestFits(s, y)
    BY <1>1, <2>3, <2>4, <2>5 DEF RequestFits
  <2> QED
    BY <1>1, <2>1, <2>6, BankIs, RequestMoves
<1>3. CASE ~passed
  <2> DEFINE st == IF Exam!Candidate(m) THEN "failed" ELSE "invalidated"
             sc == IF Exam!Candidate(m) THEN score ELSE 0
  <2>1. attempts' = [attempts EXCEPT ![a].status = st, ![a].score = sc] /\ UNCHANGED examSess
    BY <1>3 DEF Exam!Submit
  <2>2. st \in {"failed", "invalidated"} /\ sc \in Nat
    OBVIOUS
  <2> HIDE DEF st, sc, m, passed
  <2>3. /\ attempts' \in Seq(AttemptRow) /\ Len(attempts') = Len(attempts)
        /\ attempts'[a] = [attempts[a] EXCEPT !.status = st, !.score = sc]
        /\ \A b \in 1..Len(attempts) : b # a => attempts'[b] = attempts[b]
    <3> DEFINE z == [attempts[a] EXCEPT !.status = st, !.score = sc]
               n == Len(attempts)
    <3>1. attempts \in [1..n -> AttemptRow] /\ n \in Nat
      BY DEF ExamInv, ExamTables
    <3>2. attempts' = [attempts EXCEPT ![a] = z]
      BY <2>1, <3>1
    <3>3. z \in AttemptRow
      BY <2>2, <3>1 DEF AttemptRow
    <3> HIDE DEF z, n
    <3>4. attempts' \in [1..n -> AttemptRow] /\ attempts'[a] = z /\ a \in 1..n
          /\ \A b \in 1..n : b # a => attempts'[b] = attempts[b]
      BY <3>1, <3>2, <3>3 DEF n
    <3>5. attempts' \in Seq(AttemptRow) /\ Len(attempts') = n
      BY <3>1, <3>4, SequenceIs
    <3> QED
      BY <3>4, <3>5 DEF z, n
  <2>4. /\ attempts'[a].status \in {"failed", "invalidated"} /\ attempts'[a].term = attempts[a].term
        /\ attempts'[a].member = attempts[a].member /\ attempts'[a].need = attempts[a].need
        /\ attempts'[a].sample = attempts[a].sample
    <3>1. attempts[a] \in AttemptRow
      BY DEF ExamInv, ExamTables
    <3> QED
      BY <2>2, <2>3, <3>1 DEF AttemptRow
  <2>5. attempts[a].term = 0
    BY <1>1 DEF ExamInv, TermsEarned
  <2> HIDE <2>1
  <2>6. ExamTables'
    BY <1>1, <2>1, <2>3 DEF ExamInv, ExamTables
  <2>7. Exam!TypeOK'
    <3> SUFFICES ASSUME NEW b \in 1..Len(attempts)
                 PROVE  /\ attempts'[b].member \in Candidates
                        /\ attempts'[b].status \in {"in_progress", "passed", "failed", "invalidated"}
                        /\ attempts'[b].term \in 0..Len(examTerms)
                        /\ attempts'[b].need \in 1..Exam!Cardinality(attempts'[b].sample)
      BY <1>1, <2>3 DEF ExamInv, Exam!TypeOK
    <3>1. /\ attempts[b].member \in Candidates
          /\ attempts[b].status \in {"in_progress", "passed", "failed", "invalidated"}
          /\ attempts[b].term \in 0..Len(examTerms)
          /\ attempts[b].need \in 1..Exam!Cardinality(attempts[b].sample)
      BY DEF ExamInv, Exam!TypeOK
    <3>2. CASE b = a
      BY <2>4, <3>1, <3>2
    <3>3. CASE b # a
      BY <2>3, <3>1, <3>3
    <3> QED
      BY <3>2, <3>3
  <2>8. ExamRequests'
    BY <1>1, <2>1, <2>3 DEF ExamInv, ExamRequests
  <2>9. TermsEarned'
    <3>1. \A b \in 1..Len(attempts) :
            /\ attempts'[b].term = attempts[b].term
            /\ attempts'[b].status = "passed" <=> attempts[b].status = "passed"
            /\ b # a => attempts'[b] = attempts[b]
      BY <1>1, <2>3, <2>4
    <3>2. attempts'[a].status # "passed"
      BY <2>4
    <3>3. \A b \in 1..Len(attempts) :
            /\ attempts[b].term \in 0..Len(examTerms)
            /\ attempts[b].status = "passed" <=> attempts[b].term # 0
            /\ attempts[b].status = "passed" => attempts[b].score >= attempts[b].need
      BY DEF ExamInv, TermsEarned
    <3>4. \A b \in 1..Len(attempts) :
            /\ attempts'[b].term \in 0..Len(examTerms)
            /\ attempts'[b].status = "passed" <=> attempts'[b].term # 0
            /\ attempts'[b].status = "passed" => attempts'[b].score >= attempts'[b].need
      BY <3>1, <3>2, <3>3
    <3>5. /\ \A t \in 1..Len(examTerms) : \E b \in 1..Len(attempts) : attempts'[b].term = t
          /\ \A b, c \in 1..Len(attempts) :
                attempts'[b].term # 0 /\ attempts'[b].term = attempts'[c].term => b = c
      BY <3>1 DEF ExamInv, TermsEarned
    <3> QED
      BY <1>1, <2>3, <3>4, <3>5 DEF TermsEarned
  <2>10. OneEach'
    BY <1>1 DEF ExamInv, OneEach, Exam!Active
  <2> QED
    BY <2>6, <2>7, <2>8, <2>9, <2>10 DEF ExamInv
<1> QED
  BY <1>2, <1>3

\* The prerequisites of the appointment hold: the request keeps the attempt it grades.
LEMMA CheckGrantStep ==
    ASSUME ExamInv, NEW s \in Sessions, Exam!CheckGrant(s)
    PROVE  ExamInv'
<1> DEFINE r == examSess[s]
           y == [r EXCEPT !.op = "appoint"]
<1>1. /\ r.op = "grant" /\ examSess' = [examSess EXCEPT ![s] = y]
      /\ UNCHANGED <<bank, policies, attempts, examTerms, eligible>>
  BY DEF Exam!CheckGrant
<1>2. r \in ExamRequest /\ \A t \in Sessions : examSess[t] \in ExamRequest
  BY DEF ExamInv, ExamTables
<1>3. /\ r.attempt \in 1..Len(attempts) /\ attempts[r.attempt].status = "in_progress"
      /\ r.score >= attempts[r.attempt].need
      /\ \A t \in Sessions : examSess[t].op \in {"grant", "appoint"} /\ examSess[t].attempt = r.attempt => t = s
  BY <1>1 DEF ExamInv, ExamRequests
<1>4. y \in ExamRequest /\ y.op = "appoint" /\ y.attempt = r.attempt /\ y.score = r.score
  BY <1>2 DEF ExamRequest
<1> HIDE DEF y
<1>5. RequestFits(s, y)
  BY <1>3, <1>4 DEF RequestFits
<1> QED
  BY <1>1, <1>5, BankIs, RequestMoves

\* The appointment: a term that runs belongs to an attempt, so the attempt that finds one
\* is invalidated; a new term belongs to nobody, so the attempt that makes one has passed.
LEMMA GrantStep ==
    ASSUME ExamInv, NEW s \in Sessions, Exam!Grant(s)
    PROVE  ExamInv'
<1> DEFINE r == examSess[s]
           a == r.attempt
           m == attempts[a].member
           n == Len(attempts)
           k == Len(examTerms)
           running == Exam!RunningTerms(m)
           t == IF running = {} THEN k + 1 ELSE Exam!Max(running)
           taken == \E b \in 1..n : b # a /\ attempts[b].term = t
           st == IF taken THEN "invalidated" ELSE "passed"
           tm == IF taken THEN 0 ELSE t
           row == [attempts[a] EXCEPT !.status = st, !.score = r.score, !.term = tm]
<1>1. /\ r.op = "appoint"
      /\ examTerms' = IF running = {} THEN Append(examTerms, [member |-> m, running |-> TRUE]) ELSE examTerms
      /\ attempts' = [attempts EXCEPT ![a].status = st, ![a].score = r.score, ![a].term = tm]
      /\ examSess' = [examSess EXCEPT ![s] = Exam!Idle]
      /\ UNCHANGED <<bank, policies, eligible>>
  BY DEF Exam!Grant, Exam!End
<1>2. /\ a \in 1..n /\ attempts[a].status = "in_progress" /\ r.score >= attempts[a].need
      /\ \A u \in Sessions : examSess[u].op \in {"grant", "appoint"} /\ examSess[u].attempt = a => u = s
  BY <1>1 DEF ExamInv, ExamRequests
<1>3. /\ attempts \in Seq(AttemptRow) /\ examTerms \in Seq(TermRow)
      /\ n \in Nat /\ k \in Nat /\ attempts[a] \in AttemptRow /\ m \in Candidates
  <2>1. attempts \in Seq(AttemptRow) /\ examTerms \in Seq(TermRow)
    BY DEF ExamInv, ExamTables
  <2>2. attempts[a] \in AttemptRow
    BY <1>2, <2>1
  <2>3. m \in Candidates
    BY <1>2 DEF ExamInv, Exam!TypeOK
  <2> QED
    BY <2>1, <2>2, <2>3
<1>4. attempts[a].term = 0
  BY <1>2 DEF ExamInv, TermsEarned
<1>5. running \subseteq 1..k /\ \A x, y \in running : x = y
  BY DEF ExamInv, OneEach, Exam!RunningTerms
\* Which of the two cases it is.
<1>6. /\ running # {} => taken /\ examTerms' = examTerms
      /\ running = {} => /\ ~taken /\ t = k + 1
                         /\ examTerms' = Append(examTerms, [member |-> m, running |-> TRUE])
  <2>1. ASSUME running # {} PROVE taken
    <3>1. PICK u \in running : TRUE
      BY <2>1
    <3>2. t = u
      BY <1>3, <1>5, <2>1, <3>1, OnlyOne
    <3>3. PICK b \in 1..n : attempts[b].term = u
      BY <1>5, <3>1 DEF ExamInv, TermsEarned
    <3>4. b # a
      BY <1>3, <1>4, <1>5, <3>1, <3>3
    <3> QED
      BY <3>2, <3>3, <3>4
  <2>2. ASSUME running = {} PROVE ~taken /\ t = k + 1
    <3>1. t = k + 1
      BY <2>2
    <3>2. \A b \in 1..n : attempts[b].term \in 0..k
      BY DEF ExamInv, TermsEarned
    <3> HIDE DEF t, running
    <3> QED
      BY <1>3, <3>1, <3>2
  <2> QED
    BY <1>1, <2>1, <2>2
<1>7. st \in {"invalidated", "passed"} /\ (st = "passed" <=> ~taken)
      /\ (taken => tm = 0) /\ (~taken => tm = t)
  OBVIOUS
<1> HIDE DEF st, tm, t, taken, running
<1>8. tm \in Nat /\ (st = "passed" => tm = k + 1 /\ examTerms' = Append(examTerms, [member |-> m, running |-> TRUE]))
      /\ (st # "passed" => tm = 0 /\ examTerms' = examTerms) /\ (st = "passed" => running = {})
  BY <1>3, <1>6, <1>7
<1>9. r.score \in Nat
  BY DEF ExamInv, ExamTables, ExamRequest
<1> DEFINE sc == r.score
<1> HIDE DEF sc, r
<1>10. /\ row \in AttemptRow /\ row.status = st /\ row.term = tm /\ row.score = sc
       /\ row.member = attempts[a].member /\ row.need = attempts[a].need /\ row.sample = attempts[a].sample
  <2>1. row = [attempts[a] EXCEPT !.status = st, !.score = sc, !.term = tm]
    BY DEF sc
  <2>2. st \in {"in_progress", "passed", "failed", "invalidated"} /\ sc \in Nat
    BY <1>7, <1>9 DEF sc
  <2> DEFINE z == attempts[a]
  <2>3. z \in AttemptRow /\ row = [z EXCEPT !.status = st, !.score = sc, !.term = tm]
    BY <1>3, <2>1
  <2> HIDE DEF z, row
  <2>4. /\ row \in AttemptRow /\ row.status = st /\ row.term = tm /\ row.score = sc
        /\ row.member = z.member /\ row.need = z.need /\ row.sample = z.sample
    BY <1>8, <2>2, <2>3 DEF AttemptRow
  <2> QED
    BY <2>4 DEF z
<1>11. /\ attempts' \in Seq(AttemptRow) /\ Len(attempts') = n /\ attempts'[a] = row
       /\ \A b \in 1..n : b # a => attempts'[b] = attempts[b]
  <2>1. attempts \in [1..n -> AttemptRow]
    BY <1>3
  <2>2. attempts' = [attempts EXCEPT ![a] = row]
    BY <1>1, <1>2, <2>1
  <2> HIDE DEF row, n
  <2>3. attempts' \in [1..n -> AttemptRow] /\ attempts'[a] = row
        /\ \A b \in 1..n : b # a => attempts'[b] = attempts[b]
    BY <1>2, <1>10, <2>1, <2>2
  <2> QED
    BY <1>3, <2>3, SequenceIs
<1> HIDE DEF row
<1>12. /\ examTerms' \in Seq(TermRow) /\ Len(examTerms') \in Nat /\ k <= Len(examTerms')
       /\ \A u \in 1..k : examTerms'[u] = examTerms[u]
       /\ st = "passed" => Len(examTerms') = k + 1 /\ examTerms'[k + 1] = [member |-> m, running |-> TRUE]
       /\ st # "passed" => Len(examTerms') = k
  <2>1. CASE st = "passed"
    <3> DEFINE new == [member |-> m, running |-> TRUE]
    <3>1. new \in TermRow /\ examTerms' = Append(examTerms, new)
      BY <1>3, <1>8, <2>1 DEF TermRow
    <3> HIDE DEF new
    <3>2. /\ examTerms' \in Seq(TermRow) /\ Len(examTerms') = k + 1 /\ examTerms'[k + 1] = new
          /\ \A u \in 1..k : examTerms'[u] = examTerms[u]
      BY <1>3, <3>1
    <3> QED
      BY <1>3, <2>1, <3>2 DEF new
  <2>2. CASE st # "passed"
    BY <1>3, <1>8, <2>2
  <2> QED
    BY <2>1, <2>2
<1>13. \A u \in 1..Len(examTerms') : u \in 1..k \/ (st = "passed" /\ u = k + 1)
  BY <1>3, <1>12
<1>14. ExamTables'
  BY <1>1, <1>11, <1>12, ExamIdle DEF ExamInv, ExamTables
<1>15. \A b \in 1..n : /\ attempts[b].member \in Candidates
                       /\ attempts[b].status \in {"in_progress", "passed", "failed", "invalidated"}
                       /\ attempts[b].term \in 0..k
                       /\ attempts[b].need \in 1..Exam!Cardinality(attempts[b].sample)
                       /\ attempts[b].status = "passed" <=> attempts[b].term # 0
                       /\ attempts[b].status = "passed" => attempts[b].score >= attempts[b].need
  BY DEF ExamInv, Exam!TypeOK, TermsEarned
<1>16. tm \in 0..Len(examTerms') /\ (st = "passed" <=> tm # 0)
  BY <1>3, <1>8, <1>12
<1>17. sc >= attempts[a].need
  BY <1>2 DEF sc, r
<1>18. Exam!TypeOK'
  <2> SUFFICES ASSUME NEW b \in 1..n
               PROVE  /\ attempts'[b].member \in Candidates
                      /\ attempts'[b].status \in {"in_progress", "passed", "failed", "invalidated"}
                      /\ attempts'[b].term \in 0..Len(examTerms')
                      /\ attempts'[b].need \in 1..Exam!Cardinality(attempts'[b].sample)
    BY <1>1, <1>11 DEF ExamInv, Exam!TypeOK
  <2>1. CASE b = a
    BY <1>7, <1>10, <1>11, <1>15, <1>16, <2>1
  <2>2. CASE b # a
    BY <1>3, <1>11, <1>12, <1>15, <2>2
  <2> QED
    BY <2>1, <2>2
<1>19. ExamRequests'
  <2> SUFFICES ASSUME NEW u \in Sessions
               PROVE  /\ examSess'[u].op \in {"loaded", "publishing"} => examSess'[u].q \in VersionIds
                      /\ examSess'[u].op = "policy" => examSess'[u].new \in Nat \ {0} /\ examSess'[u].percent \in 1..100
                      /\ examSess'[u].op = "exam" => \E x \in Candidates : examSess'[u].member = {x}
                      /\ examSess'[u].op \in {"grant", "appoint"} =>
                            /\ examSess'[u].attempt \in 1..n
                            /\ attempts'[examSess'[u].attempt].status = "in_progress"
                            /\ examSess'[u].score >= attempts'[examSess'[u].attempt].need
                            /\ \A w \in Sessions : examSess'[w].op \in {"grant", "appoint"}
                                  /\ examSess'[w].attempt = examSess'[u].attempt => w = u
    BY <1>11 DEF ExamRequests
  <2> DEFINE i == Exam!Idle
  <2>1. i.op = "idle" /\ examSess'[s] = i /\ \A w \in Sessions \ {s} : examSess'[w] = examSess[w]
    BY <1>1, ExamIdle DEF ExamInv, ExamTables
  <2> HIDE DEF i
  <2>2. \A w \in Sessions : examSess'[w].op # "idle" => w # s /\ examSess'[w] = examSess[w]
    BY <2>1
  <2>3. examSess[u].op \in {"grant", "appoint"} /\ u # s => examSess[u].attempt # a
    BY <1>2
  <2>4. CASE u = s
    BY <2>1, <2>4
  <2>5. CASE u # s
    <3>1. examSess'[u] = examSess[u]
      BY <2>1, <2>5
    <3>2. /\ examSess[u].op \in {"loaded", "publishing"} => examSess[u].q \in VersionIds
          /\ examSess[u].op = "policy" => examSess[u].new \in Nat \ {0} /\ examSess[u].percent \in 1..100
          /\ examSess[u].op = "exam" => \E x \in Candidates : examSess[u].member = {x}
          /\ examSess[u].op \in {"grant", "appoint"} =>
                /\ examSess[u].attempt \in 1..n
                /\ attempts[examSess[u].attempt].status = "in_progress"
                /\ examSess[u].score >= attempts[examSess[u].attempt].need
                /\ \A w \in Sessions : examSess[w].op \in {"grant", "appoint"} /\ examSess[w].attempt = examSess[u].attempt => w = u
      BY DEF ExamInv, ExamRequests
    <3> QED
      BY <1>11, <2>2, <2>3, <2>5, <3>1, <3>2
  <2> QED
    BY <2>4, <2>5
<1>20. TermsEarned'
  <2>1. \A b \in 1..n :
          /\ attempts'[b].term \in 0..Len(examTerms')
          /\ attempts'[b].status = "passed" <=> attempts'[b].term # 0
          /\ attempts'[b].status = "passed" => attempts'[b].score >= attempts'[b].need
    <3> SUFFICES ASSUME NEW b \in 1..n
                 PROVE  /\ attempts'[b].term \in 0..Len(examTerms')
                        /\ attempts'[b].status = "passed" <=> attempts'[b].term # 0
                        /\ attempts'[b].status = "passed" => attempts'[b].score >= attempts'[b].need
      OBVIOUS
    <3>1. CASE b = a
      BY <1>10, <1>11, <1>16, <1>17, <3>1
    <3>2. CASE b # a
      BY <1>3, <1>11, <1>12, <1>15, <3>2
    <3> QED
      BY <3>1, <3>2
  <2>2. \A u \in 1..Len(examTerms') : \E b \in 1..n : attempts'[b].term = u
    <3> SUFFICES ASSUME NEW u \in 1..Len(examTerms') PROVE \E b \in 1..n : attempts'[b].term = u
      OBVIOUS
    <3>1. CASE u \in 1..k
      <4>1. PICK b \in 1..n : attempts[b].term = u
        BY <3>1 DEF ExamInv, TermsEarned
      <4>2. b # a
        BY <1>3, <1>4, <3>1, <4>1
      <4> QED
        BY <1>11, <4>1, <4>2
    <3>2. CASE st = "passed" /\ u = k + 1
      BY <1>2, <1>8, <1>10, <1>11, <3>2
    <3> QED
      BY <1>13, <3>1, <3>2
  <2>3. \A b, c \in 1..n : attempts'[b].term # 0 /\ attempts'[b].term = attempts'[c].term => b = c
    <3>1. \A b \in 1..n : b # a => attempts'[b].term = attempts[b].term /\ attempts[b].term \in 0..k
      BY <1>11, <1>15
    <3>2. attempts'[a].term = tm /\ tm \in {0, k + 1}
      BY <1>8, <1>10, <1>11
    <3>3. \A b, c \in 1..n : attempts[b].term # 0 /\ attempts[b].term = attempts[c].term => b = c
      BY DEF ExamInv, TermsEarned
    <3> QED
      BY <1>3, <3>1, <3>2, <3>3
  <2> QED
    BY <1>11, <2>1, <2>2, <2>3 DEF TermsEarned
<1>21. OneEach'
  <2>1. \A u, w \in 1..k : /\ examTerms[u].running /\ examTerms[w].running
                           /\ examTerms[u].member = examTerms[w].member
                           => u = w
    BY DEF ExamInv, OneEach
  <2>2. st = "passed" => \A u \in 1..k : ~(examTerms[u].member = m /\ examTerms[u].running)
    BY <1>8 DEF running, Exam!RunningTerms
  <2>3. \A u, w \in 1..Len(examTerms') : /\ examTerms'[u].running /\ examTerms'[w].running
                                         /\ examTerms'[u].member = examTerms'[w].member
                                         => u = w
    <3> DEFINE new == [member |-> m, running |-> TRUE]
    <3>1. new.member = m
      OBVIOUS
    <3>2. st = "passed" => examTerms'[k + 1] = new
      BY <1>12
    <3> HIDE DEF new, m
    <3> QED
      BY <1>12, <1>13, <2>1, <2>2, <3>1, <3>2
  <2>4. \A p, q \in Exam!Active' : p = q
    BY <1>1 DEF ExamInv, OneEach, Exam!Active
  <2> QED
    BY <2>3, <2>4 DEF OneEach
<1> QED
  BY <1>14, <1>18, <1>19, <1>20, <1>21 DEF ExamInv

-----------------------------------------------------------------------------
(* The steps and the theorems. *)

LEMMA ExamIdles ==
    ASSUME ExamInv, NEW s \in Sessions, Exam!RefuseExam(s) \/ Exam!RollbackGrant(s)
    PROVE  ExamInv'
  BY BankIs, IdleFits, RequestMoves DEF Exam!RefuseExam, Exam!RollbackGrant, Exam!End

LEMMA ExamOutside ==
    ASSUME ExamInv,
           \/ \E m \in Candidates : Exam!Change(m)
           \/ \E t \in 1..Len(examTerms) : Exam!EndTerm(t)
    PROVE  ExamInv'
<1>1. bank \in Banks /\ eligible \subseteq Candidates /\ examTerms \in Seq(TermRow)
  BY BankIs DEF ExamInv, ExamTables, Exam!TypeOK
<1>2. ASSUME NEW m \in Candidates, Exam!Change(m) PROVE ExamInv'
  <2>1. eligible' \subseteq Candidates /\ UNCHANGED <<bank, policies, attempts, examTerms, examSess>>
    BY <1>1, <1>2 DEF Exam!Change
  <2> QED
    BY <1>1, <2>1, NoRequestMoves
<1>3. ASSUME NEW t \in 1..Len(examTerms), Exam!EndTerm(t) PROVE ExamInv'
  <2> DEFINE z == [examTerms[t] EXCEPT !.running = FALSE]
             n == Len(examTerms)
  <2>1. examTerms' = [examTerms EXCEPT ![t] = z] /\ UNCHANGED <<bank, policies, attempts, eligible, examSess>>
    BY <1>1, <1>3 DEF Exam!EndTerm
  <2>2. n \in Nat /\ examTerms \in [1..n -> TermRow]
    BY <1>1
  <2>3. z \in TermRow /\ z.member = examTerms[t].member /\ z.running = FALSE
    BY <2>2 DEF TermRow
  <2> HIDE DEF z, n
  <2>4. examTerms' \in [1..n -> TermRow] /\ \A u \in 1..n : examTerms'[u] = IF u = t THEN z ELSE examTerms[u]
    BY <2>1, <2>2, <2>3
  <2>5. examTerms' \in Seq(TermRow) /\ Len(examTerms') = n
    BY <2>2, <2>4, SequenceIs
  <2>6. \A u \in 1..n : /\ examTerms'[u].member = examTerms[u].member
                        /\ examTerms'[u].running => examTerms[u].running
    BY <2>3, <2>4
  <2> QED
    BY <1>1, <2>1, <2>5, <2>6, NoRequestMoves DEF n
<1> QED
  BY <1>2, <1>3

LEMMA ExamInit ==
    ASSUME Exam!DeliberatorExamAssumption, Exam!Init
    PROVE  ExamInv
<1>1. Exam!DeliberatorExamAssumption => 0 <= MaxQuestionVersions
  BY DEF Exam!DeliberatorExamAssumption
<1>2. ExamTables
  BY ExamIdle DEF Exam!Init, ExamTables
<1>3. Exam!TypeOK
  BY <1>1 DEF Exam!Init, Exam!TypeOK
<1>4. ExamRequests
  BY ExamIdle DEF Exam!Init, ExamRequests
<1>5. TermsEarned /\ OneEach
  BY DEF Exam!Init, TermsEarned, OneEach, Exam!Active
<1> QED
  BY <1>2, <1>3, <1>4, <1>5 DEF ExamInv

LEMMA ExamStep ==
    ASSUME Exam!DeliberatorExamAssumption, ExamInv, [Exam!Next]_(Exam!vars)
    PROVE  ExamInv'
<1>1. CASE Exam!Next
  <2>1. ASSUME NEW q \in Questions, NEW st \in {"draft", "published"}, Exam!CreateQuestion(q, st) PROVE ExamInv'
    BY <2>1, CreateQuestionStep
  <2>2. CASE Exam!Baseline
    BY <2>2, BaselineStep
  <2>3. ASSUME NEW s \in Sessions,
               \/ \E x \in Exam!Versions : Exam!LoadQuestion(s, x)
               \/ Exam!BeginPublish(s) \/ Exam!CommitPublish(s) \/ Exam!CopyToDraft(s)
               \/ Exam!Retire(s) \/ Exam!Replace(s) \/ Exam!Refuse(s)
        PROVE  ExamInv'
    BY <2>3, QuestionSteps
  <2>4. ASSUME NEW s \in Sessions, NEW n \in 1..Exam!Cardinality(Questions), NEW pc \in Percents,
               Exam!BeginPolicy(s, n, pc)
        PROVE  ExamInv'
    <3>1. pc \in 1..100
      BY DEF Exam!DeliberatorExamAssumption
    <3> QED
      BY <2>4, <3>1, BeginPolicyStep
  <2>5. ASSUME NEW s \in Sessions, Exam!CommitPolicy(s) PROVE ExamInv'
    BY <2>5, CommitPolicyStep
  <2>6. ASSUME NEW s \in Sessions, NEW m \in Candidates, Exam!BeginExam(s, m) PROVE ExamInv'
    BY <2>6, BeginExamStep
  <2>7. ASSUME NEW s \in Sessions, Exam!DrawExam(s) PROVE ExamInv'
    BY <2>7, DrawExamStep
  <2>8. ASSUME NEW s \in Sessions, Exam!RefuseExam(s) \/ Exam!RollbackGrant(s) PROVE ExamInv'
    BY <2>8, ExamIdles
  <2>9. ASSUME NEW s \in Sessions, NEW a \in 1..Len(attempts),
               NEW score \in 0..Exam!Cardinality(attempts[a].sample), Exam!Submit(s, a, score)
        PROVE  ExamInv'
    <3>1. score \in Nat
      OBVIOUS
    <3> QED
      BY <2>9, <3>1, ExamSubmitStep
  <2>10. ASSUME NEW s \in Sessions, Exam!CheckGrant(s) \/ Exam!Grant(s) PROVE ExamInv'
    BY <2>10, CheckGrantStep, GrantStep
  <2>11. ASSUME \/ \E m \in Candidates : Exam!Change(m)
                \/ \E t \in 1..Len(examTerms) : Exam!EndTerm(t)
         PROVE  ExamInv'
    BY <2>11, ExamOutside
  <2> QED
    BY <1>1, <2>1, <2>2, <2>3, <2>4, <2>5, <2>6, <2>7, <2>8, <2>9, <2>10, <2>11, Zenon DEF Exam!Next
<1>2. CASE UNCHANGED Exam!vars
  <2>1. UNCHANGED <<bank, policies, attempts, examTerms, eligible, examSess>>
    BY <1>2 DEF Exam!vars
  <2>2. bank' \in Banks /\ eligible' \subseteq Candidates /\ examTerms' \in Seq(TermRow)
    BY <2>1, BankIs DEF ExamInv, ExamTables, Exam!TypeOK
  <2> QED
    BY <2>1, <2>2, NoRequestMoves
<1> QED
  BY <1>1, <1>2

LEMMA ExamAlways ==
    ASSUME Exam!DeliberatorExamAssumption
    PROVE  Exam!Spec => []ExamInv
<1>1. Exam!Init => ExamInv
  BY ExamInit
<1>2. ExamInv /\ [Exam!Next]_(Exam!vars) => ExamInv'
  BY ExamStep
<1> QED
  BY <1>1, <1>2, PTL DEF Exam!Spec

\* The rows of the examination: questions, policies, attempts and terms of office.
THEOREM ExamTyped == Exam!DeliberatorExamAssumption => (Exam!Spec => []Exam!TypeOK)
<1> SUFFICES ASSUME Exam!DeliberatorExamAssumption PROVE Exam!Spec => []Exam!TypeOK
  OBVIOUS
<1>1. ExamInv => Exam!TypeOK
  BY DEF ExamInv
<1> QED
  BY <1>1, ExamAlways, PTL

\* However many attempts of a member are handed in at once, and however many policies are
\* published at once, the member has one running term of deliberator and one policy is in
\* force.
THEOREM OneTermOnePolicy ==
    Exam!DeliberatorExamAssumption
      => (Exam!Spec => []Exam!OneRunningTerm /\ []Exam!OneActivePolicy)
<1> SUFFICES ASSUME Exam!DeliberatorExamAssumption
             PROVE  Exam!Spec => []Exam!OneRunningTerm /\ []Exam!OneActivePolicy
  OBVIOUS
<1>1. ASSUME ExamInv PROVE Exam!OneRunningTerm /\ Exam!OneActivePolicy
  <2>1. ASSUME NEW m \in Candidates PROVE Exam!Cardinality(Exam!RunningTerms(m)) <= 1
    <3>1. \A x, y \in Exam!RunningTerms(m) : x = y
      BY <1>1 DEF ExamInv, OneEach, Exam!RunningTerms
    <3> QED
      BY <3>1, AtMostOne
  <2>2. Exam!Cardinality(Exam!Active) <= 1
    BY <1>1, AtMostOne DEF ExamInv, OneEach
  <2> QED
    BY <2>1, <2>2 DEF Exam!OneRunningTerm, Exam!OneActivePolicy
<1> QED
  BY <1>1, ExamAlways, PTL

\* Passed attempts and terms correspond one to one, and a passed attempt reached its
\* passing score: an attempt that meets another one's term is invalidated.
THEOREM TermsArePassed ==
    Exam!DeliberatorExamAssumption => (Exam!Spec => []Exam!PassedIffTerm)
<1> SUFFICES ASSUME Exam!DeliberatorExamAssumption PROVE Exam!Spec => []Exam!PassedIffTerm
  OBVIOUS
<1>1. ASSUME ExamInv PROVE Exam!PassedIffTerm
  <2>1. ASSUME NEW t \in 1..Len(examTerms)
        PROVE  Exam!Cardinality({a \in 1..Len(attempts) : attempts[a].term = t}) = 1
    <3>1. PICK a \in 1..Len(attempts) : attempts[a].term = t
      BY <1>1 DEF ExamInv, TermsEarned
    <3>2. t # 0
      BY <1>1 DEF ExamInv, ExamTables
    <3>3. \A b \in 1..Len(attempts) : attempts[b].term = t => b = a
      BY <1>1, <3>1, <3>2 DEF ExamInv, TermsEarned
    <3>4. {b \in 1..Len(attempts) : attempts[b].term = t} = {a}
      BY <3>1, <3>3
    <3> QED
      BY <3>4, ExamCardinality, FS_Singleton
  <2> QED
    BY <1>1, <2>1 DEF Exam!PassedIffTerm, ExamInv, TermsEarned
<1> QED
  BY <1>1, ExamAlways, PTL

\* An attempt's result is never changed again: whoever fails, passes or is invalidated
\* keeps that result through every later request on the same attempt.
THEOREM ResultsStay ==
    Exam!DeliberatorExamAssumption
      => (Exam!Spec => [][Exam!ResultFinal]_(Exam!vars))
<1> SUFFICES ASSUME Exam!DeliberatorExamAssumption
             PROVE  Exam!Spec => [][Exam!ResultFinal]_(Exam!vars)
  OBVIOUS
<1>1. ASSUME ExamInv, Exam!Next PROVE Exam!ResultFinal
  <2>1. attempts \in Seq(AttemptRow) /\ examTerms \in Seq(TermRow)
    BY <1>1 DEF ExamInv, ExamTables
  <2>2. ASSUME UNCHANGED <<attempts, examTerms>> PROVE Exam!ResultFinal
    BY <2>1, <2>2 DEF Exam!ResultFinal
  <2>3. ASSUME NEW s \in Sessions, Exam!DrawExam(s) PROVE Exam!ResultFinal
    <3>1. PICK x : attempts' = Append(attempts, x)
      BY <2>3 DEF Exam!DrawExam
    <3>2. UNCHANGED examTerms
      BY <2>3 DEF Exam!DrawExam
    <3> QED
      BY <2>1, <3>1, <3>2 DEF Exam!ResultFinal
  <2>4. ASSUME NEW s \in Sessions, NEW a \in 1..Len(attempts), NEW score \in Nat, Exam!Submit(s, a, score)
        PROVE  Exam!ResultFinal
    <3>1. attempts[a].status = "in_progress" /\ UNCHANGED examTerms
      BY <2>4 DEF Exam!Submit
    <3>2. \A b \in 1..Len(attempts) : b # a => attempts'[b] = attempts[b]
      BY <2>1, <2>4 DEF Exam!Submit
    <3> QED
      BY <2>1, <3>1, <3>2 DEF Exam!ResultFinal
  <2>5. ASSUME NEW s \in Sessions, Exam!Grant(s) PROVE Exam!ResultFinal
    <3> DEFINE a == examSess[s].attempt
    <3>1. examSess[s].op = "appoint"
      BY <2>5 DEF Exam!Grant
    <3>2. attempts[a].status = "in_progress" /\ a \in 1..Len(attempts)
      BY <1>1, <3>1 DEF ExamInv, ExamRequests
    <3>3. \A b \in 1..Len(attempts) : b # a => attempts'[b] = attempts[b]
      <4>1. PICK x, y, z : attempts' = [attempts EXCEPT ![a].status = x, ![a].score = y, ![a].term = z]
        BY <2>5 DEF Exam!Grant
      <4> HIDE DEF a
      <4> QED
        BY <2>1, <4>1
    <3> HIDE DEF a
    <3> QED
      BY <3>2, <3>3 DEF Exam!ResultFinal
  <2>6. ASSUME NEW t \in 1..Len(examTerms), Exam!EndTerm(t)
        PROVE  Exam!ResultFinal
    <3>1. UNCHANGED attempts /\ Len(examTerms') = Len(examTerms)
      BY <2>1, <2>6 DEF Exam!EndTerm
    <3> QED
      BY <2>1, <3>1 DEF Exam!ResultFinal
  <2>7. \/ UNCHANGED <<attempts, examTerms>>
        \/ \E s \in Sessions : \/ Exam!DrawExam(s) \/ Exam!Grant(s)
                               \/ \E a \in 1..Len(attempts) :
                                     \E score \in 0..Exam!Cardinality(attempts[a].sample) : Exam!Submit(s, a, score)
        \/ \E t \in 1..Len(examTerms) : Exam!EndTerm(t)
    BY <1>1, Zenon DEF Exam!Next, Exam!CreateQuestion, Exam!Baseline, Exam!LoadQuestion, Exam!BeginPublish,
       Exam!CommitPublish, Exam!CopyToDraft, Exam!Retire, Exam!Replace, Exam!Refuse, Exam!BeginPolicy,
       Exam!CommitPolicy, Exam!BeginExam, Exam!RefuseExam, Exam!CheckGrant, Exam!RollbackGrant, Exam!Change
  <2>8. ASSUME NEW n, NEW score \in 0..n PROVE score \in Nat
    OBVIOUS
  <2> QED
    BY <2>2, <2>3, <2>4, <2>5, <2>6, <2>7, <2>8, Zenon
<1>2. ASSUME ExamInv, [Exam!Next]_(Exam!vars)
      PROVE  [Exam!ResultFinal]_(Exam!vars)
  BY <1>1, <1>2
<1> QED
  BY <1>2, ExamAlways, PTL DEF Exam!Spec

-----------------------------------------------------------------------------
(* Feedback *)

Stages == Voice!CaseStatus \ {"none"}

EventRow == [post : Posts, public : BOOLEAN]

\* The SystemEvents of a case are stages it went through.
StagesRecorded == ledger \in [Cases -> Seq(Stages)]

VoiceInv == /\ Voice!TypeOK /\ StagesRecorded
            /\ Voice!LedgerTellsLifecycle /\ Voice!ResponsibleRecorded /\ Voice!HiddenIsSilent

\* A story as the SystemEvents of a case tell it.
StoryTold(st, f) ==
    /\ f \in Seq(Stages)
    /\ st = IF f = <<>> THEN "none" ELSE f[Len(f)]
    /\ f # <<>> => f[1] = "submitted"
    /\ \A i \in 1..Len(f) - 1 : f[i + 1] \in Voice!Lifecycle[f[i]]

Responsible(row) ==
    /\ (row.handler # NoOne) <=> (row.status \in {"verifying", "awaiting_response", "concluded", "closed"})
    /\ (row.concluded_by # NoOne) <=> (row.status \in {"concluded", "closed"})
    /\ row.responded_by \in {NoOne, row.subject}

LEMMA StoryExtended ==
    ASSUME NEW st, NEW f, StoryTold(st, f), NEW next \in Stages,
           IF st = "none" THEN next = "submitted" ELSE next \in Voice!Lifecycle[st]
    PROVE  StoryTold(next, Append(f, next))
<1> DEFINE g == Append(f, next)
<1>1. /\ g \in Seq(Stages) /\ Len(g) = Len(f) + 1 /\ g[Len(f) + 1] = next /\ Len(f) \in Nat
      /\ \A i \in 1..Len(f) : g[i] = f[i]
  BY DEF StoryTold
<1> HIDE DEF g
<1>2. f = <<>> => Len(f) = 0
  OBVIOUS
<1>3. f # <<>> => Len(f) \in Nat \ {0} /\ f[Len(f)] = st /\ st \in Stages
  BY <1>1 DEF StoryTold
<1>4. st = "none" => f = <<>>
  BY <1>3 DEF Stages
<1>5. f = <<>> => st = "none"
  BY DEF StoryTold
<1>6. g # <<>> /\ next = g[Len(g)]
  BY <1>1
<1>7. g[1] = "submitted"
  <2>1. CASE f = <<>>
    BY <1>1, <1>2, <1>5, <2>1
  <2>2. CASE f # <<>>
    BY <1>1, <1>3, <2>2 DEF StoryTold
  <2> QED
    BY <2>1, <2>2
<1>8. \A i \in 1..Len(g) - 1 : g[i + 1] \in Voice!Lifecycle[g[i]]
  <2> SUFFICES ASSUME NEW i \in 1..Len(f) PROVE g[i + 1] \in Voice!Lifecycle[g[i]]
    BY <1>1
  <2>1. CASE i = Len(f)
    <3>1. f # <<>> /\ st # "none"
      BY <1>1, <1>2, <1>4, <2>1
    <3> QED
      BY <1>1, <1>3, <2>1, <3>1
  <2>2. CASE i # Len(f)
    <3>1. i \in 1..Len(f) - 1 /\ g[i] = f[i] /\ g[i + 1] = f[i + 1]
      BY <1>1, <2>2
    <3> QED
      BY <3>1 DEF StoryTold
  <2> QED
    BY <2>1, <2>2
<1> QED
  BY <1>1, <1>6, <1>7, <1>8 DEF StoryTold, g

LEMMA VoiceParts ==
    VoiceInv <=> /\ Voice!TypeOK /\ Voice!HiddenIsSilent
                 /\ \A c \in Cases : StoryTold(case[c].status, ledger[c]) /\ Responsible(case[c])
<1>1. ASSUME VoiceInv PROVE \A c \in Cases : StoryTold(case[c].status, ledger[c]) /\ Responsible(case[c])
  BY <1>1 DEF VoiceInv, StagesRecorded, Voice!LedgerTellsLifecycle, Voice!ResponsibleRecorded, StoryTold,
     Responsible, Voice!Last
<1>2. ASSUME Voice!TypeOK, \A c \in Cases : StoryTold(case[c].status, ledger[c]) /\ Responsible(case[c])
      PROVE  StagesRecorded /\ Voice!LedgerTellsLifecycle /\ Voice!ResponsibleRecorded
  <2>1. StagesRecorded
    BY <1>2 DEF Voice!TypeOK, StagesRecorded, StoryTold
  <2>2. Voice!ResponsibleRecorded
    BY <1>2 DEF Voice!ResponsibleRecorded, Responsible
  <2>3. Voice!LedgerTellsLifecycle
    BY <1>2 DEF Voice!LedgerTellsLifecycle, StoryTold, Voice!Last
  <2> QED
    BY <2>1, <2>2, <2>3
<1> QED
  BY <1>1, <1>2 DEF VoiceInv

\* A request that names a post or a case.
LEMMA RequestKinds ==
    ASSUME Voice!TypeOK, NEW m \in Speakers
    PROVE  /\ request[m].op \in {"reply", "hide"}
                => request[m].post \in Posts /\ request[m].response \in 0..MaxEvents
           /\ request[m].op = "dispute" => request[m].event \in 1..MaxEvents
           /\ request[m].op \in {"start", "request_response", "conclude", "close", "respond", "withdraw"}
                => request[m].case \in Cases
<1> DEFINE r == request[m]
<1>1. r \in Voice!Requests
  BY DEF Voice!TypeOK
<1> HIDE DEF r
<1>2. \/ r.op = "idle"
      \/ r.op \in {"reply", "hide"} /\ r.post \in Posts /\ r.response \in 0..MaxEvents
      \/ r.op = "dispute" /\ r.event \in 1..MaxEvents
      \/ r.op \in Voice!HandlerOps \cup Voice!PartyOps /\ r.case \in Cases
  BY <1>1 DEF Voice!Requests, Voice!Idle
<1> QED
  BY <1>2 DEF r, Voice!HandlerOps, Voice!PartyOps

\* The parts, after a step.
LEMMA VoicePartsNext ==
    ASSUME Voice!TypeOK', Voice!HiddenIsSilent',
           \A c \in Cases : StoryTold(case'[c].status, ledger'[c]) /\ Responsible(case'[c])
    PROVE  VoiceInv'
<1>1. (VoiceInv <=> /\ Voice!TypeOK /\ Voice!HiddenIsSilent
                    /\ \A c \in Cases : StoryTold(case[c].status, ledger[c]) /\ Responsible(case[c]))'
  BY VoiceParts, PTL
<1> QED
  BY <1>1 DEF StoryTold, Responsible, Stages, Voice!CaseStatus, Voice!Lifecycle

LEMMA VoiceIdle == Voice!Idle \in Voice!Requests
  BY DEF Voice!Requests

\* The end of a request.
LEMMA RequestDone ==
    ASSUME Voice!TypeOK, NEW m \in Speakers, Voice!Done(m)
    PROVE  request' \in [Speakers -> Voice!Requests]
  BY VoiceIdle DEF Voice!TypeOK, Voice!Done

\* A public Event is written about a post that is not hidden.
LEMMA EventWritten ==
    ASSUME VoiceInv, Voice!FeedbackAssumption, NEW p \in Posts, NEW row \in Voice!CommunityFeedback,
           row.status # "hidden", post' = [post EXCEPT ![p] = row], Voice!WritePublicEvent(p),
           request' \in [Speakers -> Voice!Requests], UNCHANGED <<admins, case, ledger>>
    PROVE  VoiceInv'
<1> DEFINE new == [post |-> p, public |-> TRUE]
           n == Len(event)
<1>1. event \in Seq(EventRow) /\ n \in Nat /\ n < MaxEvents /\ event' = Append(event, new)
      /\ post \in [Posts -> Voice!CommunityFeedback] /\ MaxEvents \in Nat
  BY DEF VoiceInv, Voice!TypeOK, Voice!WritePublicEvent, EventRow, Voice!FeedbackAssumption
<1>2. new \in EventRow /\ new.post = p
  BY DEF EventRow
<1> HIDE DEF new
<1>3. /\ event' \in Seq(EventRow) /\ Len(event') = n + 1 /\ event'[n + 1] = new
      /\ \A i \in 1..n : event'[i] = event[i]
  BY <1>1, <1>2
<1>4. post' \in [Posts -> Voice!CommunityFeedback] /\ post'[p] = row
      /\ \A q \in Posts : q = p \/ post'[q] = post[q]
  BY <1>1
<1>5. Voice!TypeOK'
  BY <1>1, <1>3, <1>4 DEF VoiceInv, Voice!TypeOK, EventRow
<1>6. Voice!HiddenIsSilent'
  <2> SUFFICES ASSUME NEW i \in 1..n + 1, post'[event'[i].post].status = "hidden" PROVE ~event'[i].public
    BY <1>3 DEF Voice!HiddenIsSilent
  <2>1. i \in 1..n
    BY <1>1, <1>2, <1>3, <1>4
  <2>2. event'[i] = event[i] /\ event[i].post \in Posts
    <3>1. event'[i] = event[i] /\ event[i] \in EventRow
      BY <1>1, <1>3, <2>1
    <3> QED
      BY <3>1 DEF EventRow
  <2>3. event[i].post # p
    BY <1>4, <2>2
  <2>4. post[event[i].post].status = "hidden"
    BY <1>4, <2>2, <2>3
  <2> QED
    BY <1>1, <2>1, <2>2, <2>4 DEF VoiceInv, Voice!HiddenIsSilent
<1>7. \A c \in Cases : StoryTold(case'[c].status, ledger'[c]) /\ Responsible(case'[c])
  BY VoiceParts
<1> QED
  BY <1>5, <1>6, <1>7, VoicePartsNext

LEMMA PostSteps ==
    ASSUME VoiceInv, Voice!FeedbackAssumption, NEW m \in Speakers,
           \/ \E p \in Posts : Voice!SubmitFeedback(m, p)
           \/ \E st \in {"acknowledged", "answered", "closed"} : Voice!RespondToFeedback(m, st)
           \/ Voice!HideFeedback(m)
    PROVE  VoiceInv'
<1>1. /\ Voice!TypeOK /\ post \in [Posts -> Voice!CommunityFeedback] /\ event \in Seq(EventRow)
      /\ Len(event) \in Nat /\ Len(event) <= MaxEvents /\ request \in [Speakers -> Voice!Requests]
      /\ MaxEvents \in Nat
  BY DEF VoiceInv, Voice!TypeOK, EventRow, Voice!FeedbackAssumption
<1>2. ASSUME NEW p \in Posts, Voice!SubmitFeedback(m, p) PROVE VoiceInv'
  <2> DEFINE row == [post[p] EXCEPT !.status = "open"]
  <2>1. row \in Voice!CommunityFeedback /\ row.status = "open"
    BY <1>1 DEF Voice!CommunityFeedback, Voice!PostStatus
  <2>2. post' = [post EXCEPT ![p] = row] /\ Voice!WritePublicEvent(p) /\ UNCHANGED <<admins, case, ledger, request>>
    BY <1>1, <1>2 DEF Voice!SubmitFeedback
  <2> HIDE DEF row
  <2> QED
    BY <1>1, <2>1, <2>2, EventWritten
<1>3. ASSUME NEW st \in {"acknowledged", "answered", "closed"}, Voice!RespondToFeedback(m, st) PROVE VoiceInv'
  <2> DEFINE p == request[m].post
             row == [status |-> st, response |-> Len(event) + 1]
  <2>1. request[m].op = "reply" /\ post' = [post EXCEPT ![p] = row] /\ Voice!WritePublicEvent(p)
        /\ Voice!Done(m) /\ UNCHANGED <<admins, case, ledger>>
    BY <1>3 DEF Voice!RespondToFeedback
  <2>2. Len(event) < MaxEvents
    BY <2>1 DEF Voice!WritePublicEvent
  <2>3. row \in Voice!CommunityFeedback /\ row.status = st
    BY <1>1, <2>2 DEF Voice!CommunityFeedback, Voice!PostStatus
  <2>4. p \in Posts /\ request' \in [Speakers -> Voice!Requests]
    BY <1>1, <2>1, RequestKinds, RequestDone
  <2> HIDE DEF p, row
  <2> QED
    BY <2>1, <2>3, <2>4, EventWritten
<1>4. CASE Voice!HideFeedback(m)
  <2> DEFINE p == request[m].post
             row == [status |-> "hidden", response |-> request[m].response]
             n == Len(event)
  <2>1. request[m].op = "hide" /\ post' = [post EXCEPT ![p] = row]
        /\ event' = [i \in DOMAIN event |-> [event[i] EXCEPT !.public = event[i].public /\ event[i].post # p]]
        /\ Voice!Done(m) /\ UNCHANGED <<admins, case, ledger>>
    BY <1>4 DEF Voice!HideFeedback
  <2>2. p \in Posts /\ request[m].response \in 0..MaxEvents /\ request' \in [Speakers -> Voice!Requests]
    BY <1>1, <2>1, RequestKinds, RequestDone
  <2>3. row \in Voice!CommunityFeedback
    BY <2>2 DEF Voice!CommunityFeedback, Voice!PostStatus
  <2> HIDE DEF p, row
  <2>4. \A i \in 1..n : event[i] \in EventRow /\ n \in Nat
    BY <1>1
  <2>5. /\ event' \in [1..n -> EventRow]
        /\ \A i \in 1..n : event'[i].post = event[i].post
                           /\ (event'[i].public => event[i].public /\ event[i].post # p)
    <3>1. \A x \in EventRow, b \in BOOLEAN :
             /\ [x EXCEPT !.public = b] \in EventRow /\ [x EXCEPT !.public = b].post = x.post
             /\ [x EXCEPT !.public = b].public = b
      BY DEF EventRow
    <3>2. DOMAIN event = 1..n /\ event' = [i \in 1..n |->
             [event[i] EXCEPT !.public = event[i].public /\ event[i].post # p]]
      BY <1>1, <2>1
    <3>3. ASSUME NEW i \in 1..n
          PROVE  /\ event'[i] \in EventRow /\ event'[i].post = event[i].post
                 /\ event'[i].public => event[i].public /\ event[i].post # p
      <4> DEFINE b == event[i].public /\ event[i].post # p
                 x == event[i]
      <4>1. event'[i] = [x EXCEPT !.public = b] /\ x \in EventRow /\ b \in BOOLEAN
        BY <2>4, <3>2
      <4>2. b => event[i].public /\ event[i].post # p
        OBVIOUS
      <4> HIDE DEF b, x
      <4>3. /\ [x EXCEPT !.public = b] \in EventRow /\ [x EXCEPT !.public = b].post = x.post
            /\ [x EXCEPT !.public = b].public = b
        BY <3>1, <4>1, Zenon
      <4>4. event'[i] \in EventRow /\ event'[i].post = x.post /\ event'[i].public = b
        BY <4>1, <4>3, Zenon
      <4> QED
        BY <4>2, <4>4 DEF x
    <3>4. event' \in [1..n -> EventRow]
      BY <3>2, <3>3, Zenon
    <3> QED
      BY <3>3, <3>4
  <2>6. event' \in Seq(EventRow) /\ Len(event') = n
    <3> HIDE DEF n
    <3> QED
      BY <1>1, <2>5 DEF n
  <2>7. post' \in [Posts -> Voice!CommunityFeedback] /\ \A q \in Posts : q = p \/ post'[q] = post[q]
    BY <1>1, <2>1, <2>2, <2>3
  <2>8. Voice!TypeOK'
    BY <1>1, <2>1, <2>2, <2>6, <2>7 DEF Voice!TypeOK, EventRow
  <2>9. Voice!HiddenIsSilent'
    <3> SUFFICES ASSUME NEW i \in 1..n, post'[event'[i].post].status = "hidden" PROVE ~event'[i].public
      BY <2>6 DEF Voice!HiddenIsSilent
    <3>1. event'[i].post = event[i].post /\ event[i].post \in Posts
      BY <2>4, <2>5 DEF EventRow
    <3>2. CASE event[i].post = p
      BY <2>5, <3>2
    <3>3. CASE event[i].post # p
      <4>1. post[event[i].post].status = "hidden"
        BY <2>7, <3>1, <3>3
      <4>2. ~event[i].public
        BY <1>1, <4>1 DEF VoiceInv, Voice!HiddenIsSilent
      <4> QED
        BY <2>5, <4>2
    <3> QED
      BY <3>2, <3>3
  <2>10. \A c \in Cases : StoryTold(case'[c].status, ledger'[c]) /\ Responsible(case'[c])
    BY <2>1, VoiceParts
  <2> QED
    BY <2>8, <2>9, <2>10, VoicePartsNext
<1> QED
  BY <1>2, <1>3, <1>4

\* Steps that only begin or drop a request, or change who administers.
LEMMA RequestSteps ==
    ASSUME VoiceInv, Voice!FeedbackAssumption, NEW m \in Speakers,
           \/ Voice!AdminChanges(m)
           \/ \E p \in Posts, o \in {"reply", "hide"} : Voice!OpenPost(m, p, o)
           \/ \E i \in DOMAIN event : Voice!OpenEvent(m, i)
           \/ \E c \in Cases, o \in Voice!HandlerOps \cup Voice!PartyOps : Voice!OpenCase(m, c, o)
           \/ Voice!Abandon(m)
    PROVE  VoiceInv'
<1>1. /\ Voice!TypeOK /\ post \in [Posts -> Voice!CommunityFeedback] /\ event \in Seq(EventRow)
      /\ Len(event) <= MaxEvents /\ request \in [Speakers -> Voice!Requests] /\ admins \subseteq Speakers
  BY DEF VoiceInv, Voice!TypeOK, EventRow
<1>2. ASSUME admins' \subseteq Speakers, request' \in [Speakers -> Voice!Requests],
             UNCHANGED <<post, event, case, ledger>>
      PROVE  VoiceInv'
  <2>1. Voice!TypeOK' /\ Voice!HiddenIsSilent'
    BY <1>2 DEF VoiceInv, Voice!TypeOK, Voice!HiddenIsSilent
  <2>2. \A c \in Cases : StoryTold(case'[c].status, ledger'[c]) /\ Responsible(case'[c])
    BY <1>2, VoiceParts
  <2> QED
    BY <2>1, <2>2, VoicePartsNext
<1>3. CASE Voice!AdminChanges(m)
  BY <1>1, <1>2, <1>3 DEF Voice!AdminChanges
<1>4. ASSUME NEW p \in Posts, NEW o \in {"reply", "hide"}, Voice!OpenPost(m, p, o) PROVE VoiceInv'
  <2> DEFINE r == [op |-> o, post |-> p, response |-> post[p].response]
  <2>1. post[p].response \in 0..MaxEvents
    BY <1>1 DEF Voice!CommunityFeedback
  <2>2. r \in Voice!Requests
    BY <2>1 DEF Voice!Requests
  <2>3. request' = [request EXCEPT ![m] = r] /\ UNCHANGED <<admins, post, event, case, ledger>>
    BY <1>4 DEF Voice!OpenPost
  <2> HIDE DEF r
  <2> QED
    BY <1>1, <1>2, <2>2, <2>3
<1>5. ASSUME NEW i \in DOMAIN event, Voice!OpenEvent(m, i) PROVE VoiceInv'
  <2> DEFINE r == [op |-> "dispute", event |-> i]
  <2>1. i \in 1..MaxEvents
    <3>1. i \in 1..Len(event) /\ Len(event) \in Nat
      BY <1>1
    <3> QED
      BY <1>1, <3>1 DEF Voice!FeedbackAssumption
  <2>2. r \in Voice!Requests
    BY <2>1 DEF Voice!Requests
  <2>3. request' = [request EXCEPT ![m] = r] /\ UNCHANGED <<admins, post, event, case, ledger>>
    BY <1>5 DEF Voice!OpenEvent
  <2> HIDE DEF r
  <2> QED
    BY <1>1, <1>2, <2>2, <2>3
<1>6. ASSUME NEW c \in Cases, NEW o \in Voice!HandlerOps \cup Voice!PartyOps, Voice!OpenCase(m, c, o)
      PROVE  VoiceInv'
  <2> DEFINE r == [op |-> o, case |-> c]
  <2>1. r \in Voice!Requests
    BY DEF Voice!Requests
  <2>2. request' = [request EXCEPT ![m] = r] /\ UNCHANGED <<admins, post, event, case, ledger>>
    BY <1>6 DEF Voice!OpenCase
  <2> HIDE DEF r
  <2> QED
    BY <1>1, <1>2, <2>1, <2>2
<1>7. CASE Voice!Abandon(m)
  BY <1>1, <1>2, <1>7, RequestDone DEF Voice!Abandon
<1> QED
  BY <1>3, <1>4, <1>5, <1>6, <1>7

-----------------------------------------------------------------------------
(* The cases. *)

\* A case moves to its next stage, and the ledger says so.
LEMMA CaseMoves ==
    ASSUME VoiceInv, NEW m \in Speakers, NEW c \in Cases, NEW row \in Voice!EventFeedback,
           row.status \in Stages, Responsible(row),
           IF case[c].status = "none" THEN row.status = "submitted"
                                      ELSE row.status \in Voice!Lifecycle[case[c].status],
           case' = [case EXCEPT ![c] = row], ledger' = [ledger EXCEPT ![c] = Append(ledger[c], row.status)],
           Voice!Done(m), UNCHANGED <<admins, post, event>>
    PROVE  VoiceInv'
<1> DEFINE st == row.status
           f == ledger[c]
           g == Append(f, st)
<1>1. /\ Voice!TypeOK /\ case \in [Cases -> Voice!EventFeedback]
      /\ ledger \in [Cases -> Seq(Voice!CaseStatus)] /\ request' \in [Speakers -> Voice!Requests]
  BY RequestDone DEF VoiceInv, Voice!TypeOK
<1>2. /\ StoryTold(case[c].status, f) /\ Responsible(case[c])
      /\ \A d \in Cases : StoryTold(case[d].status, ledger[d]) /\ Responsible(case[d])
  BY VoiceParts
<1>3. StoryTold(st, g)
  BY <1>2, StoryExtended
<1>4. g \in Seq(Voice!CaseStatus)
  BY <1>1 DEF Stages
<1>5. ledger' = [ledger EXCEPT ![c] = g]
  OBVIOUS
<1> HIDE DEF g, f, st
<1>6. /\ case'[c] = row /\ ledger'[c] = g
      /\ \A d \in Cases : d = c \/ (case'[d] = case[d] /\ ledger'[d] = ledger[d])
  BY <1>1, <1>5
<1>7. \A d \in Cases : StoryTold(case'[d].status, ledger'[d]) /\ Responsible(case'[d])
  <2> SUFFICES ASSUME NEW d \in Cases PROVE StoryTold(case'[d].status, ledger'[d]) /\ Responsible(case'[d])
    OBVIOUS
  <2>1. CASE d = c
    <3>1. case'[d].status = st
      BY <1>6, <2>1 DEF st
    <3> QED
      BY <1>3, <1>6, <2>1, <3>1
  <2>2. CASE d # c
    <3>1. case'[d] = case[d] /\ ledger'[d] = ledger[d]
      BY <1>6, <2>2
    <3> QED
      BY <1>2, <3>1
  <2> QED
    BY <2>1, <2>2
<1>8. Voice!TypeOK'
  BY <1>1, <1>4, <1>5 DEF Voice!TypeOK
<1>9. Voice!HiddenIsSilent'
  BY DEF VoiceInv, Voice!HiddenIsSilent
<1> QED
  BY <1>7, <1>8, <1>9, VoicePartsNext

\* Rows of cases.
LEMMA CaseRows ==
    ASSUME NEW row \in Voice!EventFeedback, NEW st \in Voice!CaseStatus,
           NEW h \in Speakers \cup {NoOne}, NEW w \in Speakers \cup {NoOne}, NEW d \in Speakers \cup {NoOne}
    PROVE  /\ [row EXCEPT !.status = st, !.handler = h] \in Voice!EventFeedback
           /\ [row EXCEPT !.status = st, !.responded_by = w] \in Voice!EventFeedback
           /\ [row EXCEPT !.status = st, !.concluded_by = d] \in Voice!EventFeedback
           /\ [row EXCEPT !.status = st] \in Voice!EventFeedback
  BY DEF Voice!EventFeedback

LEMMA SubmitCase ==
    ASSUME VoiceInv, Voice!FeedbackAssumption, NEW m \in Speakers, NEW c \in Cases, NEW subject \in Speakers \cup {NoOne},
           Voice!SubmitEventFeedback(m, c, subject)
    PROVE  VoiceInv'
<1> DEFINE e == request[m].event
           row == [Voice!NoCase EXCEPT !.status = "submitted", !.event = e, !.submitted_by = m,
                                       !.subject = subject]
<1>1. /\ request[m].op = "dispute" /\ case[c].status = "none" /\ case' = [case EXCEPT ![c] = row]
      /\ ledger' = [ledger EXCEPT ![c] = Append(ledger[c], "submitted")]
      /\ Voice!Done(m) /\ UNCHANGED <<admins, post, event>>
  BY DEF Voice!SubmitEventFeedback, VoiceInv, Voice!TypeOK
<1>2. e \in 1..MaxEvents
  BY <1>1, RequestKinds DEF VoiceInv
<1> HIDE DEF e
<1>4. row \in Voice!EventFeedback /\ row.status = "submitted" /\ row.handler = NoOne
      /\ row.responded_by = NoOne /\ row.concluded_by = NoOne
  <2> DEFINE i == Voice!NoCase
  <2>1. i \in Voice!EventFeedback /\ i.handler = NoOne /\ i.responded_by = NoOne /\ i.concluded_by = NoOne
    BY DEF Voice!NoCase, Voice!EventFeedback, Voice!CaseStatus, Voice!FeedbackAssumption
  <2>2. row = [i EXCEPT !.status = "submitted", !.event = e, !.submitted_by = m, !.subject = subject]
    OBVIOUS
  <2>3. e \in 0..MaxEvents
    BY <1>2
  <2> HIDE DEF i, row
  <2> QED
    BY <2>1, <2>2, <2>3 DEF Voice!EventFeedback, Voice!CaseStatus
<1> HIDE DEF row
<1>5. row.status \in Stages /\ Responsible(row)
  BY <1>4 DEF Stages, Voice!CaseStatus, Responsible
<1> QED
  BY <1>1, <1>4, <1>5, CaseMoves

LEMMA CaseSteps ==
    ASSUME VoiceInv, Voice!FeedbackAssumption, NEW m \in Speakers,
           \/ Voice!StartVerification(m) \/ Voice!RequestResponse(m) \/ Voice!Respond(m)
           \/ Voice!Conclude(m) \/ Voice!Close(m) \/ Voice!Withdraw(m)
    PROVE  VoiceInv'
<1> DEFINE c == request[m].case
           row == case[c]
<1>1. Voice!TypeOK /\ m # NoOne
  BY DEF VoiceInv, Voice!FeedbackAssumption
<1>2. c \in Cases
  BY <1>1, RequestKinds DEF Voice!StartVerification, Voice!RequestResponse, Voice!Respond, Voice!Conclude,
     Voice!Close, Voice!Withdraw
<1>3. row \in Voice!EventFeedback /\ Responsible(row)
  BY <1>1, <1>2, VoiceParts DEF Voice!TypeOK
\* What a legal move does.
<1>4. ASSUME NEW new \in Voice!EventFeedback, Voice!Move(m, new), Responsible(new),
             row.status # "none", new.status \in Voice!Lifecycle[row.status], new.status \in Stages
      PROVE  VoiceInv'
  <2>1. /\ case' = [case EXCEPT ![c] = new] /\ ledger' = [ledger EXCEPT ![c] = Append(ledger[c], new.status)]
        /\ Voice!Done(m) /\ UNCHANGED <<admins, post, event>>
    BY <1>1, <1>2, <1>4 DEF Voice!Move, Voice!TypeOK
  <2> QED
    BY <1>2, <1>4, <2>1, CaseMoves
<1>5. CASE Voice!StartVerification(m)
  <2> DEFINE new == [row EXCEPT !.status = "verifying", !.handler = m]
  <2>1. row.status = "submitted" /\ Voice!Move(m, new)
    BY <1>5 DEF Voice!StartVerification
  <2> HIDE DEF row
  <2>2. new \in Voice!EventFeedback /\ new.status = "verifying" /\ new.handler = m
        /\ new.concluded_by = row.concluded_by /\ new.responded_by = row.responded_by
        /\ new.subject = row.subject
    BY <1>3 DEF Voice!EventFeedback, Voice!CaseStatus
  <2> HIDE DEF new
  <2>3. Responsible(new) /\ new.status \in Stages /\ new.status \in Voice!Lifecycle[row.status]
    BY <1>1, <1>3, <2>1, <2>2 DEF Responsible, Stages, Voice!CaseStatus, Voice!Lifecycle
  <2> QED
    BY <1>4, <2>1, <2>2, <2>3
<1>6. CASE Voice!RequestResponse(m)
  <2> DEFINE new == [row EXCEPT !.status = "awaiting_response", !.handler = m]
  <2>1. row.status = "verifying" /\ Voice!Move(m, new)
    BY <1>6 DEF Voice!RequestResponse
  <2> HIDE DEF row
  <2>2. new \in Voice!EventFeedback /\ new.status = "awaiting_response" /\ new.handler = m
        /\ new.concluded_by = row.concluded_by /\ new.responded_by = row.responded_by
        /\ new.subject = row.subject
    BY <1>3 DEF Voice!EventFeedback, Voice!CaseStatus
  <2> HIDE DEF new
  <2>3. Responsible(new) /\ new.status \in Stages /\ new.status \in Voice!Lifecycle[row.status]
    BY <1>1, <1>3, <2>1, <2>2 DEF Responsible, Stages, Voice!CaseStatus, Voice!Lifecycle
  <2> QED
    BY <1>4, <2>1, <2>2, <2>3
<1>7. CASE Voice!Respond(m)
  <2> DEFINE new == [row EXCEPT !.status = "verifying", !.responded_by = m]
  <2>1. row.status = "awaiting_response" /\ row.subject = m /\ Voice!Move(m, new)
    BY <1>7 DEF Voice!Respond
  <2> HIDE DEF row
  <2>2. new \in Voice!EventFeedback /\ new.status = "verifying" /\ new.handler = row.handler
        /\ new.concluded_by = row.concluded_by /\ new.responded_by = m
        /\ new.subject = row.subject
    BY <1>3 DEF Voice!EventFeedback, Voice!CaseStatus
  <2> HIDE DEF new
  <2>3. Responsible(new) /\ new.status \in Stages /\ new.status \in Voice!Lifecycle[row.status]
    BY <1>1, <1>3, <2>1, <2>2 DEF Responsible, Stages, Voice!CaseStatus, Voice!Lifecycle
  <2> QED
    BY <1>4, <2>1, <2>2, <2>3
<1>8. CASE Voice!Conclude(m)
  <2> DEFINE new == [row EXCEPT !.status = "concluded", !.concluded_by = m]
  <2>1. row.status \in {"verifying", "awaiting_response"} /\ Voice!Move(m, new)
    BY <1>8 DEF Voice!Conclude
  <2> HIDE DEF row
  <2>2. new \in Voice!EventFeedback /\ new.status = "concluded" /\ new.handler = row.handler
        /\ new.concluded_by = m /\ new.responded_by = row.responded_by
        /\ new.subject = row.subject
    BY <1>3 DEF Voice!EventFeedback, Voice!CaseStatus
  <2> HIDE DEF new
  <2>3. Responsible(new) /\ new.status \in Stages /\ new.status \in Voice!Lifecycle[row.status]
    BY <1>1, <1>3, <2>1, <2>2 DEF Responsible, Stages, Voice!CaseStatus, Voice!Lifecycle
  <2> QED
    BY <1>4, <2>1, <2>2, <2>3
<1>9. ASSUME NEW st \in {"closed", "withdrawn"}, Voice!Move(m, [row EXCEPT !.status = st]),
             row.status = IF st = "closed" THEN "concluded" ELSE "submitted"
      PROVE  VoiceInv'
  <2> DEFINE new == [row EXCEPT !.status = st]
  <2>1. Voice!Move(m, new)
    BY <1>9
  <2> HIDE DEF row
  <2>2. new \in Voice!EventFeedback /\ new.status = st /\ new.handler = row.handler
        /\ new.concluded_by = row.concluded_by /\ new.responded_by = row.responded_by
        /\ new.subject = row.subject
    BY <1>3 DEF Voice!EventFeedback, Voice!CaseStatus
  <2> HIDE DEF new
  <2>3. Responsible(new) /\ new.status \in Stages /\ new.status \in Voice!Lifecycle[row.status]
    BY <1>1, <1>3, <1>9, <2>2 DEF Responsible, Stages, Voice!CaseStatus, Voice!Lifecycle
  <2>4. row.status # "none"
    BY <1>9
  <2> QED
    BY <1>4, <2>1, <2>2, <2>3, <2>4
<1>10. CASE Voice!Close(m)
  BY <1>9, <1>10 DEF Voice!Close
<1>11. CASE Voice!Withdraw(m)
  BY <1>9, <1>11 DEF Voice!Withdraw
<1> QED
  BY <1>5, <1>6, <1>7, <1>8, <1>10, <1>11

LEMMA VoiceInit ==
    ASSUME Voice!FeedbackAssumption, Voice!Init
    PROVE  VoiceInv
<1>1. /\ admins \subseteq Speakers /\ event = <<>>
      /\ post = [p \in Posts |-> [status |-> "none", response |-> 0]]
      /\ case = [c \in Cases |-> Voice!NoCase] /\ ledger = [c \in Cases |-> <<>>]
      /\ request = [m \in Speakers |-> Voice!Idle] /\ MaxEvents \in Nat
  BY DEF Voice!Init, Voice!FeedbackAssumption
<1>2. Voice!NoCase \in Voice!EventFeedback /\ Responsible(Voice!NoCase) /\ Voice!NoCase.status = "none"
  BY <1>1 DEF Voice!NoCase, Voice!EventFeedback, Voice!CaseStatus, Responsible
<1>3. [status |-> "none", response |-> 0] \in Voice!CommunityFeedback
  BY <1>1 DEF Voice!CommunityFeedback, Voice!PostStatus
<1>4. Voice!TypeOK
  BY <1>1, <1>2, <1>3, VoiceIdle DEF Voice!TypeOK
<1>5. StoryTold("none", <<>>)
  BY DEF StoryTold
<1>6. Voice!HiddenIsSilent
  BY <1>1 DEF Voice!HiddenIsSilent
<1>7. \A c \in Cases : StoryTold(case[c].status, ledger[c]) /\ Responsible(case[c])
  BY <1>1, <1>2, <1>5
<1> QED
  BY <1>4, <1>6, <1>7, VoiceParts

LEMMA VoiceStep ==
    ASSUME Voice!FeedbackAssumption, VoiceInv, [Voice!Next]_(Voice!vars)
    PROVE  VoiceInv'
<1>1. CASE Voice!Next
  BY <1>1, PostSteps, RequestSteps, SubmitCase, CaseSteps, Zenon DEF Voice!Next
<1>2. CASE UNCHANGED Voice!vars
  <2>1. UNCHANGED <<admins, post, event, case, ledger, request>>
    BY <1>2 DEF Voice!vars
  <2>2. Voice!TypeOK' /\ Voice!HiddenIsSilent'
    BY <2>1 DEF VoiceInv, Voice!TypeOK, Voice!HiddenIsSilent
  <2>3. \A c \in Cases : StoryTold(case'[c].status, ledger'[c]) /\ Responsible(case'[c])
    BY <2>1, VoiceParts
  <2> QED
    BY <2>2, <2>3, VoicePartsNext
<1> QED
  BY <1>1, <1>2

LEMMA VoiceAlways ==
    ASSUME Voice!FeedbackAssumption
    PROVE  Voice!Spec => []VoiceInv
<1>1. Voice!Init => VoiceInv
  BY VoiceInit
<1>2. VoiceInv /\ [Voice!Next]_(Voice!vars) => VoiceInv'
  BY VoiceStep
<1> QED
  BY <1>1, <1>2, PTL DEF Voice!Spec

\* The rows of feedback and of cases, the public Events and the requests.
THEOREM FeedbackTyped == Voice!FeedbackAssumption => (Voice!Spec => []Voice!TypeOK)
<1> SUFFICES ASSUME Voice!FeedbackAssumption PROVE Voice!Spec => []Voice!TypeOK
  OBVIOUS
<1>1. VoiceInv => Voice!TypeOK
  BY DEF VoiceInv
<1> QED
  BY <1>1, VoiceAlways, PTL

\* The SystemEvents of a case tell its whole life, whichever requests raced for its row,
\* and who answers for it is on the row whenever the stage needs it.
THEOREM CasesTold ==
    Voice!FeedbackAssumption
      => (Voice!Spec => []Voice!LedgerTellsLifecycle /\ []Voice!ResponsibleRecorded)
<1> SUFFICES ASSUME Voice!FeedbackAssumption
             PROVE  Voice!Spec => []Voice!LedgerTellsLifecycle /\ []Voice!ResponsibleRecorded
  OBVIOUS
<1>1. VoiceInv => Voice!LedgerTellsLifecycle /\ Voice!ResponsibleRecorded
  BY DEF VoiceInv
<1> QED
  BY <1>1, VoiceAlways, PTL

\* While an entry is hidden no public Event speaks of it, also when it was hidden by a
\* request that had loaded it before the latest reply.
THEOREM HiddenStaysSilent == Voice!FeedbackAssumption => (Voice!Spec => []Voice!HiddenIsSilent)
<1> SUFFICES ASSUME Voice!FeedbackAssumption PROVE Voice!Spec => []Voice!HiddenIsSilent
  OBVIOUS
<1>1. VoiceInv => Voice!HiddenIsSilent
  BY DEF VoiceInv
<1> QED
  BY <1>1, VoiceAlways, PTL

\* A conclusion is published once: a concluded case is closed and nothing else.
THEOREM ConclusionsStand ==
    Voice!FeedbackAssumption => (Voice!Spec => [][Voice!ConclusionFinal]_(Voice!vars))
<1> SUFFICES ASSUME Voice!FeedbackAssumption
             PROVE  Voice!Spec => [][Voice!ConclusionFinal]_(Voice!vars)
  OBVIOUS
<1>1. ASSUME VoiceInv, Voice!Next PROVE Voice!ConclusionFinal
  <2>1. /\ Voice!TypeOK /\ case \in [Cases -> Voice!EventFeedback]
        /\ \A c \in Cases : Responsible(case[c])
    BY <1>1, VoiceParts DEF VoiceInv, Voice!TypeOK
  <2>2. \A row \in Voice!EventFeedback :
          /\ [row EXCEPT !.status = row.status] = row
          /\ [[row EXCEPT !.status = "closed"] EXCEPT !.status = row.status] = row
    BY DEF Voice!EventFeedback
  <2>3. ASSUME NEW c \in Cases, case'[c] = case[c] \/ case'[c] = [case[c] EXCEPT !.status = "closed"]
        PROVE  [case'[c] EXCEPT !.status = case[c].status] = case[c]
    <3> DEFINE row == case[c]
    <3>1. row \in Voice!EventFeedback
      BY <2>1
    <3>2. case'[c] = row \/ case'[c] = [row EXCEPT !.status = "closed"]
      BY <2>3
    <3> HIDE DEF row
    <3>3. [case'[c] EXCEPT !.status = row.status] = row
      BY <2>2, <3>1, <3>2, Zenon
    <3> QED
      BY <3>3 DEF row
  <2>4. ASSUME UNCHANGED case PROVE Voice!ConclusionFinal
    BY <2>3, <2>4 DEF Voice!ConclusionFinal
  <2>5. ASSUME NEW c \in Cases, NEW new, case' = [case EXCEPT ![c] = new],
               case[c].status \notin {"concluded", "closed"}
        PROVE  Voice!ConclusionFinal
    <3>1. case[c].concluded_by = NoOne
      BY <2>1, <2>5 DEF Responsible
    <3>2. \A d \in Cases : d # c => case'[d] = case[d]
      BY <2>1, <2>5
    <3> QED
      BY <2>3, <3>1, <3>2 DEF Voice!ConclusionFinal
  <2>6. ASSUME NEW m \in Speakers, Voice!Close(m) PROVE Voice!ConclusionFinal
    <3>1. case' = [case EXCEPT ![request[m].case] = [case[request[m].case] EXCEPT !.status = "closed"]]
      BY <2>6 DEF Voice!Close, Voice!Move
    <3>2. \A d \in Cases : case'[d] = case[d] \/ case'[d] = [case[d] EXCEPT !.status = "closed"]
      BY <2>1, <3>1
    <3> QED
      BY <2>3, <3>2 DEF Voice!ConclusionFinal
  <2>7. ASSUME NEW m \in Speakers, NEW c \in Cases, NEW subject, Voice!SubmitEventFeedback(m, c, subject)
        PROVE  Voice!ConclusionFinal
    <3>1. PICK new : case' = [case EXCEPT ![c] = new]
      BY <2>7 DEF Voice!SubmitEventFeedback
    <3>2. case[c].status \notin {"concluded", "closed"}
      BY <2>7 DEF Voice!SubmitEventFeedback
    <3> QED
      BY <2>5, <3>1, <3>2, Zenon
  <2>8. ASSUME NEW m \in Speakers,
               \/ Voice!StartVerification(m) \/ Voice!RequestResponse(m) \/ Voice!Respond(m)
               \/ Voice!Conclude(m) \/ Voice!Withdraw(m)
        PROVE  Voice!ConclusionFinal
    <3>1. request[m].case \in Cases
      BY <2>1, <2>8, RequestKinds DEF Voice!StartVerification, Voice!RequestResponse, Voice!Respond,
         Voice!Conclude, Voice!Withdraw
    <3>2. PICK new : case' = [case EXCEPT ![request[m].case] = new]
      BY <2>8, Zenon DEF Voice!StartVerification, Voice!RequestResponse, Voice!Respond,
         Voice!Conclude, Voice!Withdraw, Voice!Move
    <3>3. case[request[m].case].status \notin {"concluded", "closed"}
      BY <2>8 DEF Voice!StartVerification, Voice!RequestResponse, Voice!Respond,
         Voice!Conclude, Voice!Withdraw
    <3> QED
      BY <2>5, <3>1, <3>2, <3>3, Zenon
  <2>9. \/ UNCHANGED case
        \/ \E m \in Speakers : \/ Voice!Close(m)
                               \/ \E c \in Cases, subject \in Speakers \cup {NoOne} :
                                     Voice!SubmitEventFeedback(m, c, subject)
                               \/ Voice!StartVerification(m) \/ Voice!RequestResponse(m) \/ Voice!Respond(m)
                               \/ Voice!Conclude(m) \/ Voice!Withdraw(m)
    BY <1>1, Zenon DEF Voice!Next, Voice!AdminChanges, Voice!SubmitFeedback, Voice!OpenPost,
       Voice!RespondToFeedback, Voice!HideFeedback, Voice!OpenEvent, Voice!OpenCase, Voice!Abandon
  <2> QED
    BY <2>4, <2>6, <2>7, <2>8, <2>9, Zenon
<1>2. ASSUME VoiceInv, [Voice!Next]_(Voice!vars) PROVE [Voice!ConclusionFinal]_(Voice!vars)
  BY <1>1, <1>2
<1> QED
  BY <1>2, VoiceAlways, PTL DEF Voice!Spec

-----------------------------------------------------------------------------
(* RiskDesk *)

RiskInv == Risk!TypeOK /\ Risk!LastReviewTold

LEMMA RiskTyped ==
    ASSUME Risk!TypeOK, [Risk!Next]_(Risk!vars)
    PROVE  Risk!TypeOK'
<1>1. CASE UNCHANGED Risk!vars
  BY <1>1 DEF Risk!vars, Risk!riskVars, Risk!challengeVars, Risk!TypeOK
<1>2. ASSUME NEW a \in Administrators, Risk!LoadRule(a) PROVE Risk!TypeOK'
  BY <1>2 DEF Risk!LoadRule, Risk!challengeVars, Risk!TypeOK
<1>3. ASSUME NEW a \in Administrators, NEW new \in [Risk!Fields -> Risk!Values], Risk!UpdateRiskRule(a, new)
      PROVE  Risk!TypeOK'
  BY <1>3 DEF Risk!UpdateRiskRule, Risk!challengeVars, Risk!TypeOK
<1>4. CASE Risk!EvaluateAllRisks \/ Risk!StockMoves
  BY <1>4 DEF Risk!EvaluateAllRisks, Risk!EnsureBuiltinRiskRules, Risk!StockMoves, Risk!challengeVars,
     Risk!TypeOK, Risk!Values
<1>5. ASSUME NEW c \in Challenges, Risk!SubmitChallenge(c) \/ Risk!AnnounceChallenge(c) \/ Risk!Crash(c)
      PROVE  Risk!TypeOK'
  <2>1. CASE Risk!SubmitChallenge(c)
    BY <2>1 DEF Risk!SubmitChallenge, Risk!riskVars, Risk!TypeOK
  <2>2. CASE Risk!AnnounceChallenge(c)
    <3>1. Append(log[c], "submitted") \in Seq({"submitted"} \cup Risk!Reviewed)
      BY DEF Risk!TypeOK
    <3>2. log' = [log EXCEPT ![c] = Append(log[c], "submitted")] /\ filing' = filing \ {c}
          /\ UNCHANGED <<rule, loaded, low, alerts, evaluation, challenge>>
      BY <2>2 DEF Risk!AnnounceChallenge, Risk!riskVars, Risk!TypeOK
    <3> QED
      BY <3>1, <3>2 DEF Risk!TypeOK
  <2>3. CASE Risk!Crash(c)
    BY <2>3 DEF Risk!Crash, Risk!riskVars, Risk!TypeOK
  <2> QED
    BY <1>5, <2>1, <2>2, <2>3
<1>6. ASSUME NEW c \in Challenges, NEW d \in Risk!Reviewed, Risk!ReviewChallenge(c, d)
      PROVE  Risk!TypeOK'
  BY <1>6 DEF Risk!ReviewChallenge, Risk!riskVars, Risk!TypeOK, Risk!Reviewed
<1> QED
  BY <1>1, <1>2, <1>3, <1>4, <1>5, <1>6 DEF Risk!Next

LEMMA RiskTold ==
    ASSUME RiskInv, [Risk!Next]_(Risk!vars)
    PROVE  Risk!LastReviewTold'
<1>1. /\ challenge \in [Challenges -> {"none", "submitted"} \cup Risk!Reviewed]
      /\ log \in [Challenges -> Seq({"submitted"} \cup Risk!Reviewed)]
  BY DEF RiskInv, Risk!TypeOK
<1>2. CASE UNCHANGED <<challenge, log>>
  BY <1>2 DEF RiskInv, Risk!LastReviewTold
\* A challenge that is not touched is told as before.
<1>3. ASSUME NEW c \in Challenges,
             \A d \in Challenges \ {c} : challenge'[d] = challenge[d] /\ log'[d] = log[d],
             challenge'[c] \in Risk!Reviewed =>
               \E i \in 1..Len(log'[c]) : /\ log'[c][i] = challenge'[c]
                                          /\ \A j \in i + 1..Len(log'[c]) : log'[c][j] \notin Risk!Reviewed
      PROVE  Risk!LastReviewTold'
  <2> SUFFICES ASSUME NEW d \in Challenges, challenge'[d] \in Risk!Reviewed
               PROVE  \E i \in 1..Len(log'[d]) : /\ log'[d][i] = challenge'[d]
                                                 /\ \A j \in i + 1..Len(log'[d]) : log'[d][j] \notin Risk!Reviewed
    BY DEF Risk!LastReviewTold, Risk!Reviewed
  <2>1. CASE d = c
    BY <1>3, <2>1
  <2>2. CASE d # c
    BY <1>3, <2>2 DEF RiskInv, Risk!LastReviewTold
  <2> QED
    BY <2>1, <2>2
<1>4. ASSUME NEW c \in Challenges, Risk!SubmitChallenge(c) PROVE Risk!LastReviewTold'
  <2>1. challenge' = [challenge EXCEPT ![c] = "submitted"] /\ UNCHANGED log
    BY <1>4 DEF Risk!SubmitChallenge
  <2> QED
    BY <1>1, <1>3, <2>1 DEF Risk!Reviewed
<1>5. ASSUME NEW c \in Challenges, Risk!AnnounceChallenge(c) PROVE Risk!LastReviewTold'
  <2> DEFINE f == log[c]
             g == Append(f, "submitted")
  <2>1. log' = [log EXCEPT ![c] = g] /\ UNCHANGED challenge
    BY <1>1, <1>5 DEF Risk!AnnounceChallenge
  <2>2. /\ Len(f) \in Nat /\ Len(g) = Len(f) + 1 /\ g[Len(f) + 1] = "submitted"
        /\ \A i \in 1..Len(f) : g[i] = f[i]
    BY <1>1
  <2>3. ASSUME challenge[c] \in Risk!Reviewed
        PROVE  \E i \in 1..Len(g) : /\ g[i] = challenge[c]
                                    /\ \A j \in i + 1..Len(g) : g[j] \notin Risk!Reviewed
    <3>1. PICK i \in 1..Len(f) : f[i] = challenge[c] /\ \A j \in i + 1..Len(f) : f[j] \notin Risk!Reviewed
      BY <2>3 DEF RiskInv, Risk!LastReviewTold
    <3> HIDE DEF f, g
    <3>2. \A j \in i + 1..Len(g) : g[j] \notin Risk!Reviewed
      BY <2>2, <3>1 DEF Risk!Reviewed
    <3> QED
      BY <2>2, <3>1, <3>2
  <2> HIDE DEF g
  <2>4. log'[c] = g /\ \A d \in Challenges \ {c} : log'[d] = log[d]
    BY <1>1, <2>1
  <2> QED
    BY <1>3, <2>1, <2>3, <2>4
<1>6. ASSUME NEW c \in Challenges, NEW d \in Risk!Reviewed, Risk!ReviewChallenge(c, d) PROVE Risk!LastReviewTold'
  <2> DEFINE f == log[c]
             g == Append(f, d)
  <2>1. log' = [log EXCEPT ![c] = g] /\ challenge' = [challenge EXCEPT ![c] = d]
    BY <1>1, <1>6 DEF Risk!ReviewChallenge
  <2>2. Len(f) \in Nat /\ Len(g) = Len(f) + 1 /\ g[Len(f) + 1] = d
    BY <1>1
  <2> HIDE DEF g, f
  <2>3. /\ log'[c] = g /\ challenge'[c] = d
        /\ \A e \in Challenges \ {c} : log'[e] = log[e] /\ challenge'[e] = challenge[e]
    BY <1>1, <2>1
  <2>4. \E i \in 1..Len(g) : /\ g[i] = d /\ \A j \in i + 1..Len(g) : g[j] \notin Risk!Reviewed
    BY <2>2
  <2> QED
    BY <1>3, <2>3, <2>4
<1>7. CASE Risk!Next
  <2>1. \/ UNCHANGED <<challenge, log>>
        \/ \E c \in Challenges : \/ Risk!SubmitChallenge(c) \/ Risk!AnnounceChallenge(c)
                                 \/ \E d \in Risk!Reviewed : Risk!ReviewChallenge(c, d)
    BY <1>7 DEF Risk!Next, Risk!LoadRule, Risk!UpdateRiskRule, Risk!EvaluateAllRisks, Risk!StockMoves,
       Risk!Crash, Risk!challengeVars
  <2> QED
    BY <1>2, <1>4, <1>5, <1>6, <2>1
<1>8. CASE UNCHANGED Risk!vars
  BY <1>2, <1>8 DEF Risk!vars, Risk!challengeVars
<1> QED
  BY <1>7, <1>8

LEMMA RiskStays == Risk!Init /\ [][Risk!Next]_(Risk!vars) => []RiskInv
<1>1. Risk!Init => RiskInv
  <2> SUFFICES ASSUME Risk!Init PROVE RiskInv
    OBVIOUS
  <2>1. Risk!TypeOK
    <3>1. <<>> \in Seq({"submitted"} \cup Risk!Reviewed)
      OBVIOUS
    <3> QED
      BY <3>1 DEF Risk!Init, Risk!TypeOK, Risk!Values
  <2>2. Risk!LastReviewTold
    BY DEF Risk!Init, Risk!LastReviewTold, Risk!Reviewed
  <2> QED
    BY <2>1, <2>2 DEF RiskInv
<1>2. RiskInv /\ [Risk!Next]_(Risk!vars) => RiskInv'
  BY RiskTyped, RiskTold DEF RiskInv
<1> QED
  BY <1>1, <1>2, PTL

LEMMA RiskAlways == Risk!Spec => []RiskInv
BY RiskStays, PTL DEF Risk!Spec

\* Rules and their edits, evaluations, challenges and their events.
THEOREM RiskDeskTyped == Risk!Spec => []Risk!TypeOK
<1>1. RiskInv => Risk!TypeOK
  BY DEF RiskInv
<1> QED
  BY <1>1, RiskAlways, PTL

\* A decided challenge stands as its latest recorded review says, also when the review
\* overtakes the event of the submission or that event is lost in a crash.
THEOREM ReviewsTold == Risk!Spec => []Risk!LastReviewTold
<1>1. RiskInv => Risk!LastReviewTold
  BY DEF RiskInv
<1> QED
  BY <1>1, RiskAlways, PTL

LEMMA EditsKeep ==
    Risk!Init /\ [][Risk!Next]_(Risk!vars) => [][Risk!EditsKeepOthers]_(Risk!vars)
<1>1. ASSUME RiskInv, Risk!Next PROVE Risk!EditsKeepOthers
  <2>1. loaded \in [Administrators -> [Risk!Fields -> Risk!Values] \cup {NothingLoaded}]
    BY <1>1 DEF RiskInv, Risk!TypeOK
  <2> SUFFICES ASSUME NEW a \in Administrators, loaded[a] # NothingLoaded, loaded'[a] = NothingLoaded,
                      NEW f \in Risk!Fields, rule'[f] # rule[f]
               PROVE  rule'[f] # loaded[a][f]
    BY DEF Risk!EditsKeepOthers
  \* Only the edit itself lets go of the rule that it loaded.
  <2>2. \E new \in [Risk!Fields -> Risk!Values] : Risk!UpdateRiskRule(a, new)
    <3>1. \A b \in Administrators : ~Risk!LoadRule(b)
      BY <2>1 DEF Risk!LoadRule
    <3>2. \A b \in Administrators : \A new : Risk!UpdateRiskRule(b, new) => b = a
      BY <2>1 DEF Risk!UpdateRiskRule
    <3>3. \E b \in Administrators, new \in [Risk!Fields -> Risk!Values] : Risk!UpdateRiskRule(b, new)
      <4>1. ~UNCHANGED loaded
        OBVIOUS
      <4> QED
        BY <1>1, <3>1, <4>1, Zenon DEF Risk!Next, Risk!EvaluateAllRisks, Risk!StockMoves, Risk!SubmitChallenge,
           Risk!AnnounceChallenge, Risk!Crash, Risk!ReviewChallenge, Risk!riskVars
    <3> QED
      BY <3>2, <3>3, Zenon
  <2>3. PICK new \in [Risk!Fields -> Risk!Values] : Risk!UpdateRiskRule(a, new)
    BY <2>2
  <2>4. rule'[f] = IF new[f] # loaded[a][f] THEN new[f] ELSE rule[f]
    BY <2>3 DEF Risk!UpdateRiskRule
  <2> QED
    BY <2>4
<1>2. ASSUME RiskInv, [Risk!Next]_(Risk!vars) PROVE [Risk!EditsKeepOthers]_(Risk!vars)
  BY <1>1, <1>2
<1> QED
  BY <1>2, RiskStays, PTL

\* Edits computed from rules loaded earlier lose no other edit: what an edit leaves as it
\* was loaded keeps what others have made of it since.
THEOREM EditsLoseNothing == Risk!Spec => [][Risk!EditsKeepOthers]_(Risk!vars)
BY EditsKeep, PTL DEF Risk!Spec

-----------------------------------------------------------------------------
(* The parts together: Community. *)

\* A behaviour of the community is a behaviour of each part.
LEMMA PartsBehave ==
    CommunitySpec => /\ Spec /\ Exam!Spec /\ Voice!Spec
                     /\ Risk!Init /\ [][Risk!Next]_(Risk!vars)
<1>1. CommunityInit => Init /\ Exam!Init /\ Voice!Init /\ Risk!Init
  BY DEF CommunityInit
<1>2. ASSUME [CommunityNext]_communityVars
      PROVE  /\ [Next]_vars
             /\ [Exam!Next]_(Exam!vars)
             /\ [Voice!Next]_(Voice!vars)
             /\ [Risk!Next]_(Risk!vars)
  <2>1. UNCHANGED examVars => UNCHANGED Exam!vars
    BY DEF examVars, Exam!vars
  <2>2. UNCHANGED feedbackVars => UNCHANGED Voice!vars
    BY DEF feedbackVars, Voice!vars
  <2>3. UNCHANGED riskVars => UNCHANGED Risk!vars
    BY DEF riskVars, Risk!vars, Risk!riskVars, Risk!challengeVars
  <2>4. UNCHANGED communityVars => UNCHANGED <<vars, examVars, feedbackVars, riskVars>>
    BY DEF communityVars
  <2> QED
    BY <1>2, <2>1, <2>2, <2>3, <2>4 DEF CommunityNext
<1> QED
  BY <1>1, <1>2, PTL DEF CommunitySpec, Spec, Exam!Spec, Voice!Spec

\* Admission (Electorate): one story of every application, enough electors behind every
\* approval, one term for a member, nobody left waiting for a policy.
THEOREM AdmissionIsSound == CommunitySpec => []AdmissionSound
<1>1. TypeOK /\ ApplicationAgrees /\ AdmittedByElectorate /\ (OneCurrentTerm /\ NobodyLeftWaiting)
        => AdmissionSound
  BY DEF AdmissionSound
<1> QED
  BY <1>1, PartsBehave, CommunityAssumption, TypeCorrect, StoriesAgree, AdmittedByVote,
     OneTermNobodyWaits, PTL

\* Appointment (DeliberatorExam): passed attempts and terms correspond, one running term
\* for a member, one policy in force.
THEOREM AppointmentIsSound == CommunitySpec => []AppointmentSound
<1>1. Exam!TypeOK /\ Exam!OneRunningTerm /\ Exam!OneActivePolicy /\ Exam!PassedIffTerm
        => AppointmentSound
  BY DEF AppointmentSound, Exam!AppointmentSound
<1> QED
  BY <1>1, PartsBehave, CommunityAssumption, ExamTyped, OneTermOnePolicy, TermsArePassed, PTL

\* Feedback and RiskDesk: what is recorded and what is public tell what happened to a case
\* and to a challenge.
THEOREM RecordIsTold == CommunitySpec => []RecordTold
<1>1. Voice!TypeOK /\ Voice!LedgerTellsLifecycle /\ Voice!ResponsibleRecorded /\ Voice!HiddenIsSilent
        => Voice!RecordTold
  BY DEF Voice!RecordTold
<1>2. RiskInv => Risk!RecordTold
  BY DEF RiskInv, Risk!RecordTold
<1>3. Voice!RecordTold /\ Risk!RecordTold => RecordTold
  BY DEF RecordTold
<1> QED
  BY <1>1, <1>2, <1>3, PartsBehave, CommunityAssumption, FeedbackTyped, CasesTold, HiddenStaysSilent,
     RiskStays, PTL

\* What is decided stays decided: an approval rests on the ballots of those who might vote
\* when they were counted, an attempt keeps its result and a case its conclusion, and an
\* edit of a rule loses no other.
THEOREM DecisionsAreFinal == CommunitySpec => DecisionsHold
<1> DEFINE Decided == /\ [ApprovedByEligible /\ Settled /\ NoTermForDisabled]_vars
                      /\ [Exam!ResultFinal]_examVars
                      /\ [Voice!ConclusionFinal]_feedbackVars
                      /\ [Risk!EditsKeepOthers]_riskVars
<1>1. ASSUME [Settled]_vars, [ApprovedByEligible]_vars, [NoTermForDisabled]_vars,
             [Exam!ResultFinal]_(Exam!vars),
             [Voice!ConclusionFinal]_(Voice!vars), [Risk!EditsKeepOthers]_(Risk!vars)
      PROVE  [Decided]_communityVars
  <2>1. UNCHANGED Exam!vars => UNCHANGED examVars
    BY DEF examVars, Exam!vars
  <2>2. UNCHANGED Voice!vars => UNCHANGED feedbackVars
    BY DEF feedbackVars, Voice!vars
  <2>3. UNCHANGED Risk!vars => UNCHANGED riskVars
    BY DEF riskVars, Risk!vars, Risk!riskVars, Risk!challengeVars
  <2> QED
    BY <1>1, <2>1, <2>2, <2>3
<1> QED
  BY <1>1, PartsBehave, CommunityAssumption, CasesSettle, ApprovalsCountEligible, DisabledGetNoTerm,
     ResultsStay, ConclusionsStand, EditsKeep, PTL DEF DecisionsHold

=============================================================================

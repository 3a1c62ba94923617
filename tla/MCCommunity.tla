---------------------------- MODULE MCCommunity ----------------------------
(***************************************************************************)
(* Small instances of Community.  The parts share no state, so a property  *)
(* of one of them holds of all together when it holds of that one alone:   *)
(* focus says which of them acts, the others rest in their initial state.  *)
(* Electorate acts in three instances, DeliberatorExam and Feedback in two *)
(* each, within different bounds, none beyond the bounds of Community.     *)
(***************************************************************************)
EXTENDS Community, TLC

CONSTANTS
    m1, m2, a1,          \* two founders, of whom m1 is an operator; an applicant
    s1, s2,              \* concurrent requests
    q1, q2,              \* exam questions
    f1, f2,              \* members who give and handle feedback
    p1, c1               \* a feedback entry; a case or a challenge

VARIABLE focus

\* Two approvals among covenanters, quorum two, undecided expires.
Strict == [selector |-> {"covenanter"}, approve |-> 2, reject |-> 1, minimum |-> 2,
           unresolved |-> "expired"]
\* Anybody may vote, one approval of two voters suffices, undecided is rejected.
Open == [selector |-> {"covenanter", "contributor"}, approve |-> 1, reject |-> 1,
         minimum |-> 2, unresolved |-> "rejected"]

\* One voter decides.
Light == [Open EXCEPT !.minimum = 1]

MCPolicies == {Strict, Open, Light}

\* One application under two policies that follow one another.
Admission == INSTANCE Electorate WITH
    Policies <- {Strict, Open},
    MaxCases <- 1, MaxVersions <- 2, MaxRevisions <- 1, MaxLifecycle <- 1

\* One application whose voters change their minds, under either policy.
Ballots == INSTANCE Electorate WITH
    Policies <- {Strict, Open},
    MaxCases <- 1, MaxVersions <- 1, MaxRevisions <- 2, MaxLifecycle <- 1

\* Two applications, of one member or of two, each decided by one voter.
Rivals == INSTANCE Electorate WITH
    Policies <- {Light}, MaxCases <- 2, MaxVersions <- 1, MaxRevisions <- 1, MaxLifecycle <- 0

\* Two attempts at one examination.
Attempts == INSTANCE DeliberatorExam WITH
    Members <- Candidates, Percents <- {50, 100},
    MaxVersions <- 1, MaxPolicies <- 1, MaxAttempts <- 2, MaxReplaced <- 0,
    MaxChanges <- 2, MaxTerms <- 1,
    terms <- examTerms, sess <- examSess, changes <- examChanges

\* Two versions of one question and two policies.
Bank == INSTANCE DeliberatorExam WITH
    Members <- Candidates, Questions <- {q1}, Percents <- {60},
    MaxVersions <- 2, MaxPolicies <- 2, MaxAttempts <- 1, MaxReplaced <- 1,
    MaxChanges <- 0, MaxTerms <- 0,
    terms <- examTerms, sess <- examSess, changes <- examChanges

\* Feedback that is answered and hidden, with an Event for each.
Announcements == INSTANCE Feedback WITH Members <- Speakers, Cases <- {}

\* A case about an Event that may be hidden meanwhile.
Disputes == INSTANCE Feedback WITH Members <- Speakers, MaxEvents <- 1

MCInit ==
    /\ focus \in {"admission", "ballots", "rivals", "exam", "bank", "feedback", "case",
                 "risk"}
    /\ CommunityInit
    /\ focus \notin {"feedback", "case"} => admins = {}

MCNext ==
    \/ /\ focus = "admission" /\ Admission!Next
       /\ UNCHANGED <<focus, examVars, feedbackVars, riskVars>>
    \/ /\ focus = "ballots" /\ Ballots!Next
       /\ UNCHANGED <<focus, examVars, feedbackVars, riskVars>>
    \/ /\ focus = "rivals" /\ Rivals!Next
       /\ UNCHANGED <<focus, examVars, feedbackVars, riskVars>>
    \/ /\ focus = "exam" /\ Attempts!Next
       /\ UNCHANGED <<focus, vars, feedbackVars, riskVars>>
    \/ /\ focus = "bank" /\ Bank!Next
       /\ UNCHANGED <<focus, vars, feedbackVars, riskVars>>
    \/ /\ focus = "feedback" /\ Announcements!Next
       /\ UNCHANGED <<focus, vars, examVars, riskVars>>
    \/ /\ focus = "case" /\ Disputes!Next
       /\ UNCHANGED <<focus, vars, examVars, riskVars>>
    \/ /\ focus = "risk" /\ Risk!Next
       /\ UNCHANGED <<focus, vars, examVars, feedbackVars>>

MCSpec == MCInit /\ [][MCNext]_<<focus, communityVars>>

Symmetry == Permutations({s1, s2}) \cup Permutations({f1, f2})

=============================================================================

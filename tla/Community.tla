----------------------------- MODULE Community -----------------------------
(***************************************************************************)
(* What members decide about one another: admission by ballot              *)
(* (Electorate), the deliberator examination, feedback and its cases, risk *)
(* rules and challenges.  In the code the four parts use tables of their   *)
(* own, so they share no state here either: a step of the community is a   *)
(* step of one of them.                                                    *)
(***************************************************************************)
EXTENDS Electorate

CONSTANTS
    Candidates, Questions, Percents, MaxQuestionVersions, MaxPolicies, MaxAttempts,
    MaxReplaced, MaxChanges, MaxTerms,                             \* of DeliberatorExam
    Speakers, Posts, Cases, NoOne, MaxEvents, MaxStages,           \* of Feedback
    Administrators, Challenges, MaxReviews, NothingLoaded          \* of RiskDesk

VARIABLES
    bank, policies, attempts, examTerms, eligible, examSess, replaced, examChanges, ended,
    admins, post, event, case, ledger, request,                    \* of Feedback
    rule, loaded, low, alerts, evaluation, challenge, filing, log  \* of RiskDesk

Exam == INSTANCE DeliberatorExam WITH
    Members <- Candidates, MaxVersions <- MaxQuestionVersions,
    terms <- examTerms, sess <- examSess, changes <- examChanges

Voice == INSTANCE Feedback WITH Members <- Speakers

Risk == INSTANCE RiskDesk

ASSUME CommunityAssumption ==
    /\ ElectorateAssumption
    /\ Exam!DeliberatorExamAssumption
    /\ Voice!FeedbackAssumption
    /\ Risk!RiskDeskAssumption

---------------------------------------------------------------------------
(* The four parts side by side *)

examVars == <<bank, policies, attempts, examTerms, eligible, examSess, replaced, examChanges, ended>>
feedbackVars == <<admins, post, event, case, ledger, request>>
riskVars == <<rule, loaded, low, alerts, evaluation, challenge, filing, log>>
communityVars == <<vars, examVars, feedbackVars, riskVars>>

CommunityInit == Init /\ Exam!Init /\ Voice!Init /\ Risk!Init

CommunityNext ==
    \/ Next /\ UNCHANGED <<examVars, feedbackVars, riskVars>>
    \/ Exam!Next /\ UNCHANGED <<vars, feedbackVars, riskVars>>
    \/ Voice!Next /\ UNCHANGED <<vars, examVars, riskVars>>
    \/ Risk!Next /\ UNCHANGED <<vars, examVars, feedbackVars>>

CommunitySpec == CommunityInit /\ [][CommunityNext]_communityVars

---------------------------------------------------------------------------
(* The properties of the parts *)

\* Appointment (DeliberatorExam): passed attempts and terms correspond one to one, a
\* member has one running term however attempts are submitted at once, and publishers
\* at once leave one policy in force.
AppointmentSound == Exam!AppointmentSound

\* What the public is told (Feedback, RiskDesk): the events of a case tell its whole
\* life and who answers for it, whichever requests raced for it; no public Event speaks
\* of a hidden entry; a decided challenge stands as its latest recorded review says,
\* also when the review overtakes the event of the submission or a crash loses it.
RecordTold == Voice!RecordTold /\ Risk!RecordTold

\* What is decided stays decided, and is decided by those who may: an approval counts
\* members who may vote when they are counted, on the ballots as they stand when it is
\* written; no term for a disabled member; no change of a result, of a settled case or of
\* a conclusion; no edit of a rule that undoes another one.
DecisionsHold ==
    [][/\ [ApprovedByEligible /\ Settled /\ NoTermForDisabled]_vars
       /\ [Exam!ResultFinal]_examVars
       /\ [Voice!ConclusionFinal]_feedbackVars
       /\ [Risk!EditsKeepOthers]_riskVars]_communityVars

=============================================================================

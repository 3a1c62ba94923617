------------------------------ MODULE RiskDesk ------------------------------
(***************************************************************************)
(* Risk rules and their evaluation (core/risk_services.py, command         *)
(* evaluate_risks, workspace/risk_views.py) and the public challenges to   *)
(* an offer (core/procurement_challenge_services.py).                      *)
(*                                                                         *)
(* evaluate_resource_risks names models.F, which the module does not       *)
(* import: it raises NameError before the first alert.  No other code      *)
(* calls trigger_risk_alert, so the alert services never find an alert to  *)
(* work on, and alerts stays empty.                                        *)
(***************************************************************************)
EXTENDS Naturals, Sequences

CONSTANTS
  Administrators,  \* members who edit rules and review challenges
  Challenges,      \* challenges that may be submitted
  MaxReviews,      \* bound on the reviews of one challenge
  NothingLoaded    \* no edit request in progress

RiskDeskAssumption == MaxReviews \in Nat

Fields == {"severity", "status"}     \* a built-in field and one BUILTIN_RULES leaves out
Reviewed == {"accepted", "rejected", "resolved"}

VARIABLES
  rule,        \* [Fields -> "builtin" or "edited"], the low-stock rule
  loaded,      \* [Administrators -> the rule as the edit request loaded it]
  low,         \* the stock of the resource is at or under its warning threshold
  alerts,      \* the RiskAlert rows
  evaluation,  \* how the last evaluate_risks ended
  challenge,   \* [Challenges -> status]
  filing,      \* challenges inserted whose event is still to be appended
  log          \* [Challenges -> the stages of its SystemEvents]

riskVars == <<rule, loaded, low, alerts, evaluation>>
challengeVars == <<challenge, filing, log>>
vars == <<riskVars, challengeVars>>

Values == {"builtin", "edited"}

TypeOK ==
  /\ rule \in [Fields -> Values]
  /\ loaded \in [Administrators -> [Fields -> Values] \cup {NothingLoaded}]
  /\ low \in BOOLEAN /\ alerts \subseteq {"low-stock"}
  /\ evaluation \in {"none", "failed"}
  /\ challenge \in [Challenges -> {"none", "submitted"} \cup Reviewed]
  /\ filing \subseteq {c \in Challenges : challenge[c] # "none"}
  /\ log \in [Challenges -> Seq({"submitted"} \cup Reviewed)]

Init ==
  /\ rule = [f \in Fields |-> "builtin"]
  /\ loaded = [a \in Administrators |-> NothingLoaded]
  /\ low = FALSE /\ alerts = {} /\ evaluation = "none"
  /\ challenge = [c \in Challenges |-> "none"]
  /\ filing = {}
  /\ log = [c \in Challenges |-> <<>>]

(***************************************************************************)
(* Rules.                                                                  *)
(***************************************************************************)
LoadRule(a) ==
  /\ loaded[a] = NothingLoaded
  /\ loaded' = [loaded EXCEPT ![a] = rule]
  /\ UNCHANGED <<rule, low, alerts, evaluation, challengeVars>>

\* A plausible bug: the loaded rule is saved without update_fields.
UpdateWholeRule(a, new) ==
  /\ loaded[a] # NothingLoaded /\ new # loaded[a]
  /\ rule' = new
  /\ loaded' = [loaded EXCEPT ![a] = NothingLoaded]
  /\ UNCHANGED <<low, alerts, evaluation, challengeVars>>

\* The fields in which the form differs from the loaded rule are written, and only they.
UpdateRiskRule(a, new) ==
  /\ loaded[a] # NothingLoaded /\ new # loaded[a]
  /\ rule' = [f \in Fields |-> IF new[f] # loaded[a][f] THEN new[f] ELSE rule[f]]
  /\ loaded' = [loaded EXCEPT ![a] = NothingLoaded]
  /\ UNCHANGED <<low, alerts, evaluation, challengeVars>>

\* update_or_create writes every field of the built-in definition back.
EnsureBuiltinRiskRules == [rule EXCEPT !["severity"] = "builtin"]

\* The rules are committed first; then the evaluation of the resources raises.
EvaluateAllRisks ==
  /\ rule' = EnsureBuiltinRiskRules
  /\ evaluation' = "failed"
  /\ UNCHANGED <<loaded, low, alerts, challengeVars>>

StockMoves ==
  /\ low' = ~low
  /\ UNCHANGED <<rule, loaded, alerts, evaluation, challengeVars>>

(***************************************************************************)
(* Challenges.                                                             *)
(***************************************************************************)
\* submit_procurement_challenge has no transaction: the row, then the event.
SubmitChallenge(c) ==
  /\ challenge[c] = "none"
  /\ challenge' = [challenge EXCEPT ![c] = "submitted"]
  /\ filing' = filing \cup {c}
  /\ UNCHANGED <<riskVars, log>>

AnnounceChallenge(c) ==
  /\ c \in filing
  /\ log' = [log EXCEPT ![c] = Append(@, "submitted")]
  /\ filing' = filing \ {c}
  /\ UNCHANGED <<riskVars, challenge>>

Crash(c) ==
  /\ c \in filing
  /\ filing' = filing \ {c}
  /\ UNCHANGED <<riskVars, challenge, log>>

\* A plausible bug: the decision is not recorded again when it changes.
ReviewChallengeQuietly(c, decision) ==
  /\ challenge[c] # "none" /\ Len(log[c]) < MaxReviews
  /\ challenge' = [challenge EXCEPT ![c] = decision]
  /\ log' = IF challenge[c] = "submitted"
            THEN [log EXCEPT ![c] = Append(@, decision)] ELSE log
  /\ UNCHANGED <<riskVars, filing>>

\* One transaction, with the row locked; a decided challenge may be decided again.
ReviewChallenge(c, decision) ==
  /\ challenge[c] # "none" /\ Len(log[c]) < MaxReviews
  /\ challenge' = [challenge EXCEPT ![c] = decision]
  /\ log' = [log EXCEPT ![c] = Append(@, decision)]
  /\ UNCHANGED <<riskVars, filing>>

Next ==
  \/ \E a \in Administrators : LoadRule(a)
  \/ \E a \in Administrators, new \in [Fields -> Values] : UpdateRiskRule(a, new)
  \/ EvaluateAllRisks
  \/ StockMoves
  \/ \E c \in Challenges : SubmitChallenge(c) \/ AnnounceChallenge(c) \/ Crash(c)
  \/ \E c \in Challenges, d \in Reviewed : ReviewChallenge(c, d)

\* evaluate_risks is run again and again.
Spec == Init /\ [][Next]_vars /\ WF_vars(EvaluateAllRisks)

(***************************************************************************)
(* Properties.                                                             *)
(***************************************************************************)
\* An edit of a rule loses no other edit: although edits are computed from rules loaded
\* earlier, a field that its form leaves as it was loaded keeps what others have made of
\* it since (risk_rule_update); what an edit changes was not loaded that way.
EditsKeepOthers ==
  \A a \in Administrators :
    loaded[a] # NothingLoaded /\ loaded'[a] = NothingLoaded =>
      \A f \in Fields : rule'[f] # rule[f] => rule'[f] # loaded[a][f]

\* A decided challenge stands as its latest recorded review says, also when the review
\* overtakes the event of the submission or that event is lost in a crash.
LastReviewTold ==
  \A c \in Challenges : challenge[c] \in Reviewed =>
    \E i \in 1 .. Len(log[c]) :
      /\ log[c][i] = challenge[c]
      /\ \A j \in i + 1 .. Len(log[c]) : log[c][j] \notin Reviewed

\* What is recorded of a challenge: it stands as its latest recorded review says.
RecordTold == TypeOK /\ LastReviewTold

-----------------------------------------------------------------------------
(* What the repository says of itself and the code does not keep: the runs do *)
(* not check these, the README says how each fails.                           *)

\* evaluate_risks is to "Evaluate all risk rules and create/update RiskAlerts": a
\* resource that stays low is alerted.
LowStockAlerted == <>[]low => <>(alerts # {})

=============================================================================

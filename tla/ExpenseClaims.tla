--------------------------- MODULE ExpenseClaims ---------------------------
(***************************************************************************)
(* Reimbursement: core/finance_services.py, the evidence files of          *)
(* core/attachment_services.py and the requests of                         *)
(* workspace/finance_views.py.                                             *)
(*                                                                         *)
(* A request loads the ExpenseClaim before the service opens its           *)
(* transaction.  The service checks that copy and never reads the row      *)
(* again, so a request is at least two steps: load and check, commit.      *)
(* Payments and uploads also write evidence objects to a store that is no  *)
(* part of the database transaction, one at a time, and delete them again  *)
(* when the transaction fails.                                             *)
(***************************************************************************)
EXTENDS Naturals, Sequences, FiniteSets

CONSTANTS
    Sessions,      \* concurrent requests
    Claims,        \* claim ids (uuid4)
    Members,
    Claimants,     \* members who are neither suspended nor exited
    Reviewers,     \* holders of finance.review
    Payers,        \* holders of finance.pay
    Publishers,    \* holders of finance.publish_public_attachments
    Readers,       \* holders of a permission that opens private evidence
    Objects,       \* keys of stored evidence objects
    NoMember,
    NoClaim,
    NoObject,
    MaxFiles       \* ATTACHMENT_MAX_FILES

ASSUME ClaimsAssumption ==
    /\ Claimants \cup Reviewers \cup Payers \cup Publishers \cup Readers
          \subseteq Members
    /\ Reviewers \cup Payers \subseteq Readers
    /\ NoMember \notin Members
    /\ NoClaim \notin Claims
    /\ NoObject \notin Objects
    /\ MaxFiles \in Nat \ {0}

VARIABLES
    claims,        \* claim -> its status and claimant
    reviews,       \* FinanceReview rows
    payments,      \* FinanceTransaction rows with their PaymentExecution
    withdrawals,   \* claims with an expense-claim-withdrawn event (primary key)
    links,         \* ExpenseClaimAttachment rows with their Attachment
    objects,       \* what the object store holds
    lost,          \* history: objects whose request died before it could clean up
    sess           \* session -> the request it serves

dbVars == <<claims, reviews, payments, withdrawals, links>>
vars == <<claims, reviews, payments, withdrawals, links, objects, lost, sess>>

-----------------------------------------------------------------------------
(* Requests. *)

Idle == [pc |-> "idle", op |-> "none", claim |-> NoClaim, actor |-> NoMember,
         arg |-> "none", source |-> NoObject, left |-> 0, files |-> {}]

Request(pc, op, c, m, arg, source, left) ==
    [pc |-> pc, op |-> op, claim |-> c, actor |-> m, arg |-> arg,
     source |-> source, left |-> left, files |-> {}]

Begin(s, r) ==
    /\ sess[s] = Idle
    /\ sess' = [sess EXCEPT ![s] = r]
    /\ UNCHANGED <<dbVars, objects, lost>>

Finish(s) == sess' = [sess EXCEPT ![s] = Idle]

Ready(s, op) == sess[s].pc = "commit" /\ sess[s].op = op

\* The payment whose rows for claim c are inserted and not yet committed.
PayingNow(s, c) ==
    sess[s].op = "pay" /\ sess[s].claim = c /\ sess[s].pc \in {"store", "commit"}

\* Those rows' foreign keys keep the claim row locked against an UPDATE.
RowFree(c) == \A s \in Sessions : ~PayingNow(s, c)

AwaitingReview == {"submitted", "under_review"}

-----------------------------------------------------------------------------
(* The claim is loaded and checked; nothing below looks at it again. *)

BeginSubmit(s) ==
    \E c \in Claims, m \in Claimants, n \in 1..MaxFiles :
        /\ claims[c].status = "absent"
        /\ \A t \in Sessions : sess[t].claim # c
        /\ Begin(s, Request("store", "submit", c, m, "expense_evidence", NoObject, n))

BeginReview(s) ==
    \E c \in Claims, m \in Reviewers, d \in {"approved", "rejected"} :
        /\ claims[c].claimant # m
        /\ claims[c].status \in AwaitingReview
        /\ Begin(s, Request("commit", "review", c, m, d, NoObject, 0))

\* A plausible bug: the claim's status is not looked at.
PayUnapproved(s) ==
    \E c \in Claims, m \in Payers, n \in 1..MaxFiles :
        /\ claims[c].claimant # m
        /\ claims[c].status # "absent"
        /\ Begin(s, Request("insert", "pay", c, m, "payment_evidence", NoObject, n))

BeginPay(s) ==
    \E c \in Claims, m \in Payers, n \in 1..MaxFiles :
        /\ claims[c].claimant # m
        /\ claims[c].status = "approved"
        /\ Begin(s, Request("insert", "pay", c, m, "payment_evidence", NoObject, n))

BeginWithdraw(s) ==
    \E c \in Claims :
        /\ claims[c].status \in AwaitingReview
        /\ Begin(s, Request("commit", "withdraw", c, claims[c].claimant, "none",
                            NoObject, 0))

\* A public copy is made of a private attachment of the claim.
BeginPublish(s) ==
    \E l \in links, m \in Publishers :
        /\ l.purpose # "public_material"
        /\ Begin(s, Request("store", "attach", l.claim, m, "public_material",
                            l.object, 1))

\* A correction replaces a private attachment; it keeps its purpose.
BeginCorrect(s) ==
    \E l \in links, m \in Members :
        /\ l.purpose # "public_material"
        /\ m = claims[l.claim].claimant \/ m \in Readers
        /\ Begin(s, Request("store", "attach", l.claim, m, l.purpose, l.object, 1))

-----------------------------------------------------------------------------
(* Inside the transaction. *)

\* The backend accepts, and FinanceTransaction and PaymentExecution are inserted.
\* PaymentExecution.claim is one-to-one: the insert waits for an open payment of
\* the claim and fails when one is committed.
InsertPayment(s) ==
    LET c == sess[s].claim
    IN  /\ sess[s].pc = "insert"
        /\ RowFree(c)
        /\ \A i \in DOMAIN payments : payments[i].claim # c
        /\ sess' = [sess EXCEPT ![s].pc = "store"]
        /\ UNCHANGED <<dbVars, objects, lost>>

\* save_immutable for the next file of the batch, under a new key.
StoreObject(s) ==
    \E k \in Objects \ objects :
        /\ sess[s].pc = "store"
        /\ objects' = objects \cup {k}
        /\ sess' = [sess EXCEPT ![s].files = @ \cup {k}, ![s].left = @ - 1,
                                ![s].pc = IF sess[s].left = 1 THEN "commit" ELSE "store"]
        /\ UNCHANGED <<dbVars, lost>>

\* The Attachment and link rows of the files this request stored.
NewLinks(r) ==
    {[object |-> k, claim |-> r.claim, purpose |-> r.arg, source |-> r.source] :
        k \in r.files}

CommitSubmit(s) ==
    LET r == sess[s]
    IN  /\ Ready(s, "submit")
        /\ claims' = [claims EXCEPT ![r.claim] =
                        [status |-> "submitted", claimant |-> r.actor]]
        /\ links' = links \cup NewLinks(r)
        /\ Finish(s)
        /\ UNCHANGED <<reviews, payments, withdrawals, objects, lost>>

\* A plausible bug: every decision approves.
ReviewApproves(s) ==
    LET r == sess[s]
    IN  /\ Ready(s, "review")
        /\ RowFree(r.claim)
        /\ claims' = [claims EXCEPT ![r.claim].status = "approved"]
        /\ reviews' = reviews \cup
                {[claim |-> r.claim, reviewer |-> r.actor, decision |-> r.arg]}
        /\ Finish(s)
        /\ UNCHANGED <<payments, withdrawals, links, objects, lost>>

CommitReview(s) ==
    LET r == sess[s]
    IN  /\ Ready(s, "review")
        /\ RowFree(r.claim)
        /\ claims' = [claims EXCEPT ![r.claim].status = r.arg]
        /\ reviews' = reviews \cup
                {[claim |-> r.claim, reviewer |-> r.actor, decision |-> r.arg]}
        /\ Finish(s)
        /\ UNCHANGED <<payments, withdrawals, links, objects, lost>>

CommitPay(s) ==
    LET r == sess[s]
    IN  /\ Ready(s, "pay")
        /\ payments' = Append(payments, [claim |-> r.claim, payer |-> r.actor])
        /\ claims' = [claims EXCEPT ![r.claim].status = "paid"]
        /\ links' = links \cup NewLinks(r)
        /\ Finish(s)
        /\ UNCHANGED <<reviews, withdrawals, objects, lost>>

CommitWithdraw(s) ==
    LET c == sess[s].claim
    IN  /\ Ready(s, "withdraw")
        /\ RowFree(c)
        /\ c \notin withdrawals
        /\ claims' = [claims EXCEPT ![c].status = "withdrawn"]
        /\ withdrawals' = withdrawals \cup {c}
        /\ Finish(s)
        /\ UNCHANGED <<reviews, payments, links, objects, lost>>

\* publish_expense_attachment_copy and correct_expense_attachment.
CommitAttach(s) ==
    /\ Ready(s, "attach")
    /\ links' = links \cup NewLinks(sess[s])
    /\ Finish(s)
    /\ UNCHANGED <<claims, reviews, payments, withdrawals, objects, lost>>

\* A plausible bug: the compensating delete is missing.
FailWithoutCleanup(s) ==
    /\ sess[s] # Idle
    /\ Finish(s)
    /\ UNCHANGED <<dbVars, objects, lost>>

\* Any exception: the database rolls back and the stored files are deleted.
Fail(s) ==
    /\ sess[s] # Idle
    /\ objects' = objects \ sess[s].files
    /\ Finish(s)
    /\ UNCHANGED <<dbVars, lost>>

\* The process dies: the database rolls back, nobody deletes the files.
Crash(s) ==
    /\ sess[s] # Idle
    /\ lost' = lost \cup sess[s].files
    /\ Finish(s)
    /\ UNCHANGED <<dbVars, objects>>

-----------------------------------------------------------------------------
NoSuchClaim == [status |-> "absent", claimant |-> NoMember]

Init ==
    /\ claims = [c \in Claims |-> NoSuchClaim]
    /\ reviews = {}
    /\ payments = <<>>
    /\ withdrawals = {}
    /\ links = {}
    /\ objects = {}
    /\ lost = {}
    /\ sess = [s \in Sessions |-> Idle]

SessionStep(s) ==
    \/ BeginSubmit(s) \/ BeginReview(s) \/ BeginPay(s) \/ BeginWithdraw(s)
    \/ BeginPublish(s) \/ BeginCorrect(s)
    \/ InsertPayment(s) \/ StoreObject(s)
    \/ CommitSubmit(s) \/ CommitReview(s) \/ CommitPay(s) \/ CommitWithdraw(s)
    \/ CommitAttach(s)
    \/ Fail(s) \/ Crash(s)

Next == \E s \in Sessions : SessionStep(s)

Spec == Init /\ [][Next]_vars

-----------------------------------------------------------------------------
(* Properties. *)

Purposes == {"expense_evidence", "payment_evidence", "public_material"}

\* Every variable has its type.
TypeOK ==
    /\ claims \in [Claims ->
          [status : AwaitingReview \cup {"approved", "rejected", "paid", "withdrawn"},
           claimant : Members] \cup {NoSuchClaim}]
    /\ reviews \subseteq [claim : Claims, reviewer : Members,
                          decision : {"approved", "rejected"}]
    /\ payments \in Seq([claim : Claims, payer : Members])
    /\ withdrawals \subseteq Claims
    /\ links \subseteq [object : Objects, claim : Claims, purpose : Purposes,
                        source : Objects \cup {NoObject}]
    /\ objects \subseteq Objects
    /\ lost \subseteq objects
    /\ sess \in [Sessions ->
          [pc : {"idle", "insert", "store", "commit"},
           op : {"none", "submit", "review", "pay", "withdraw", "attach"},
           claim : Claims \cup {NoClaim}, actor : Members \cup {NoMember},
           arg : Purposes \cup {"none", "approved", "rejected"},
           source : Objects \cup {NoObject}, left : Nat,
           files : SUBSET Objects]]

ApprovedBy(c, m) == [claim |-> c, reviewer |-> m, decision |-> "approved"] \in reviews

\* mark_expense_claim_paid: a claim is paid at most once, by somebody other than
\* its claimant, after somebody other than its claimant approved it, and with
\* payment evidence on file; also when two payers, or a payer and a late review,
\* act on copies they loaded earlier.
PaidOnceAfterApproval ==
    \A i \in DOMAIN payments :
        LET c == payments[i].claim
        IN  /\ \A j \in DOMAIN payments : payments[j].claim = c => i = j
            /\ payments[i].payer # claims[c].claimant
            /\ \E m \in Reviewers : m # claims[c].claimant /\ ApprovedBy(c, m)
            /\ \E l \in links : l.claim = c /\ l.purpose = "payment_evidence"

\* Whatever status a claim ends up with, the record that justifies it exists.
StatusJustified ==
    \A c \in Claims :
        /\ claims[c].status \in {"approved", "rejected"}
              => \E r \in reviews : r.claim = c /\ r.decision = claims[c].status
        /\ claims[c].status = "paid"
              => \E i \in DOMAIN payments : payments[i].claim = c
        /\ claims[c].status = "withdrawn" => c \in withdrawals

\* "compensate evidence objects on rollback": an attachment row never points to a
\* missing object, and an object without a row belongs to a request that is still
\* running or was left behind by a crash.
EvidenceMatchesRows ==
    /\ \A l \in links : l.object \in objects
    /\ \A k \in objects :
          \/ \E l \in links : l.object = k
          \/ \E s \in Sessions : k \in sess[s].files
          \/ k \in lost

-----------------------------------------------------------------------------
(* What the repository says of itself and the code does not keep: the runs do *)
(* not check these, the README says how each fails.                           *)

\* "Only APPROVED claims can be marked paid" (mark_expense_claim_paid): the claim
\* is approved when the payment commits.
PaidFromApproved ==
    [][\A c \in Claims :
         claims'[c].status = "paid" /\ payments' # payments
         /\ payments'[Len(payments')].claim = c
         => claims[c].status = "approved"]_vars

=============================================================================

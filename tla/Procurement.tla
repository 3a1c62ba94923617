---------------------------- MODULE Procurement ----------------------------
(***************************************************************************)
(* Supplier offers from submission to stock: core/procurement_services.py, *)
(* the approval slots of core/proposal_services.py, the stock adjustments  *)
(* of core/resource_services.py, and the requests of                       *)
(* workspace/proposal_views.py that pick the approval role.                *)
(*                                                                         *)
(* A quote has one PROCUREMENT_ACCEPTANCE proposal, created with it; every *)
(* service but submit_resource_offer locks the row it decides on           *)
(* (proposal, quote, resource) before it reads it, so it is one step.      *)
(* Three things are read earlier: the number of offers a member made       *)
(* today, the role the approval page picks for the member, and the whole   *)
(* Resource row that the inventory edit page saves again.                  *)
(***************************************************************************)
EXTENDS Integers, Sequences, FiniteSetsExt

CONSTANTS
    Sessions,      \* concurrent requests
    Quotes,        \* quote ids (uuid4)
    Members,
    Governors,     \* members for whom member_can_administer holds
    Finance,       \* members for whom is_finance_reviewer holds
    Tiers,         \* approval tiers offers are given: amounts that lead to them
    Quantities,    \* available_quantity of an offer
    Deltas,        \* manual stock adjustments
    OpeningStock,
    DailyLimit,    \* DAILY_OFFER_LIMIT_PER_RESOURCE
    LastDay,       \* bound on calendar days
    MaxAdjust,     \* bound on manual adjustments
    NoQuote,
    NoMember,
    NoRole

Roles == {"governance", "finance", "second_governance"}

ASSUME ProcurementAssumption ==
    /\ Governors \cup Finance \subseteq Members
    /\ Tiers \subseteq {"single", "standard", "major"}
    /\ Quantities \subseteq Nat \ {0}
    /\ Deltas \subseteq Int
    /\ OpeningStock \in Nat
    /\ DailyLimit \in Nat \ {0}
    /\ LastDay \in Nat
    /\ MaxAdjust \in Nat
    /\ NoQuote \notin Quotes
    /\ NoMember \notin Members
    /\ NoRole \notin Roles

VARIABLES
    quotes,        \* quote -> SupplierQuote
    proposals,     \* quote -> status of its acceptance proposal
    decisions,     \* ApprovalDecision rows
    stock,         \* Resource.current_stock
    accepts,       \* Resource.accepts_offers
    adjusted,      \* ResourceTransaction rows: quantity_delta, and the quote if any
    credentials,   \* quotes with a provider_delivery_completed grant (dedupe key)
    stamps,        \* created_at/submitted_at and resolved_at, oldest first
    sess,          \* session -> the request it serves
    day            \* timezone.localdate()

rowVars == <<quotes, proposals, decisions, stock, accepts, adjusted, credentials, stamps>>
vars == <<rowVars, sess, day>>

-----------------------------------------------------------------------------
(* Approval slots. *)

\* proposal_required_role_groups for a procurement acceptance.
RoleGroups(tier) ==
    IF tier = "single" THEN {{"governance", "finance"}}
    ELSE IF tier = "standard" THEN {{"governance"}, {"finance"}}
    ELSE {{"governance"}, {"finance"}, {"second_governance"}}

RequiredRoles(q) == UNION RoleGroups(quotes[q].tier)

\* _member_role_for_proposal.
MemberRoles(m) ==
    (IF m \in Governors THEN {"governance", "second_governance"} ELSE {})
    \cup (IF m \in Finance THEN {"finance"} ELSE {})

Approvals(q) == {d \in decisions : d.quote = q /\ d.decision = "approved"}
ApprovedRoles(q) == {d.role : d \in Approvals(q)}

\* member_available_approval_roles.
AvailableRoles(m, q) ==
    LET already == {d.role : d \in {e \in decisions : e.quote = q /\ e.member = m}}
    IN  UNION {(g \cap MemberRoles(m)) \ already :
                 g \in {h \in RoleGroups(quotes[q].tier) : h \cap ApprovedRoles(q) = {}}}

\* The page takes the first: groups in slot order, sorted within a group.
PickedRole(m, q) ==
    LET avail == AvailableRoles(m, q)
    IN  IF quotes[q].tier = "single"
        THEN IF "finance" \in avail THEN "finance" ELSE "governance"
        ELSE IF "governance" \in avail THEN "governance"
        ELSE IF "finance" \in avail THEN "finance" ELSE "second_governance"

\* A plausible bug: one person may fill several slots.
ApproveSeveral(m, q, role) ==
    /\ proposals[q] = "submitted"
    /\ role \in RequiredRoles(q) \cap MemberRoles(m)
    /\ role = "second_governance" => "finance" \in ApprovedRoles(q)
    /\ role = "finance" => "governance" \in ApprovedRoles(q)

\* A plausible bug: finance waits for the second governance slot, which waits for it.
MayApproveCircular(m, q, role) ==
    /\ proposals[q] = "submitted"
    /\ role \in RequiredRoles(q) \cap MemberRoles(m)
    /\ \A d \in Approvals(q) : d.member # m
    /\ role = "second_governance" => "finance" \in ApprovedRoles(q)
    /\ role = "finance" => RequiredRoles(q) \ {"finance"} \subseteq ApprovedRoles(q)

\* The checks of approve_proposal, made with the proposal locked.
MayApprove(m, q, role) ==
    /\ proposals[q] = "submitted"
    /\ role \in RequiredRoles(q) \cap MemberRoles(m)
    /\ \A d \in Approvals(q) : d.member # m
    /\ role = "second_governance" => "finance" \in ApprovedRoles(q)
    /\ role = "finance" => "governance" \in ApprovedRoles(q)

\* The checks of reject_proposal; (proposal, approver, role) is unique.
MayReject(m, q, role) ==
    /\ proposals[q] = "submitted"
    /\ role \in RequiredRoles(q) \cap MemberRoles(m)
    /\ \A d \in decisions : ~(d.quote = q /\ d.member = m /\ d.role = role)

\* proposal_is_approved once these roles have approved.
AllSlotsFilled(q, roles) == \A g \in RoleGroups(quotes[q].tier) : g \cap roles # {}

-----------------------------------------------------------------------------
(* Sessions. *)

Idle == [op |-> "none", quote |-> NoQuote, member |-> NoMember, role |-> NoRole,
         stock |-> 0]

Request(op, q, m, role) ==
    [Idle EXCEPT !.op = op, !.quote = q, !.member = m, !.role = role]

Begin(s, r) ==
    /\ sess[s] = Idle
    /\ sess' = [sess EXCEPT ![s] = r]
    /\ UNCHANGED <<rowVars, day>>

Finish(s) == sess' = [sess EXCEPT ![s] = Idle]

\* A DomainError, an IntegrityError or a crash.
Rollback(s) ==
    /\ sess[s] # Idle
    /\ Finish(s)
    /\ UNCHANGED <<rowVars, day>>

-----------------------------------------------------------------------------
(* submit_resource_offer. *)

OffersToday(m) == {q \in Quotes : quotes[q].by = m /\ quotes[q].day = day}

\* The flag and the anti-spam count are read without a lock.
BeginSubmit(s) ==
    \E q \in Quotes, m \in Members :
        /\ accepts
        /\ quotes[q].status = "absent"
        /\ \A t \in Sessions : ~(sess[t].op = "submit" /\ sess[t].quote = q)
        /\ Cardinality(OffersToday(m)) < DailyLimit
        /\ Begin(s, Request("submit", q, m, NoRole))

\* The quote and its acceptance proposal are written together; a donation costs
\* nothing (compute_procurement_approval_tier).
CommitSubmit(s) ==
    \E tier \in Tiers, n \in Quantities, donation \in BOOLEAN :
        /\ sess[s].op = "submit"
        /\ donation => tier = "single"
        /\ quotes' = [quotes EXCEPT ![sess[s].quote] =
                        [status |-> "submitted", by |-> sess[s].member, tier |-> tier,
                         amount |-> n, donation |-> donation, receipt |-> "pending",
                         day |-> day]]
        /\ proposals' = [proposals EXCEPT ![sess[s].quote] = "submitted"]
        /\ stamps' = Append(stamps, <<sess[s].quote, "submitted">>)
        /\ Finish(s)
        /\ UNCHANGED <<decisions, stock, accepts, adjusted, credentials, day>>

-----------------------------------------------------------------------------
(* Approval, rejection and execution of the proposal. *)

\* approval_proposal_approve and _reject pick the role before the lock.
BeginDecision(s) ==
    \E q \in Quotes, m \in Governors \cup Finance, op \in {"approve", "reject"} :
        /\ proposals[q] # "absent"
        /\ AvailableRoles(m, q) # {}
        /\ Begin(s, Request(op, q, m, PickedRole(m, q)))

Decision(r, decision) ==
    [quote |-> r.quote, member |-> r.member, role |-> r.role, decision |-> decision]

approve_proposal(s) ==
    LET r == sess[s]
        last == AllSlotsFilled(r.quote, ApprovedRoles(r.quote) \cup {r.role})
    IN  /\ r.op = "approve"
        /\ MayApprove(r.member, r.quote, r.role)
        /\ decisions' = decisions \cup {Decision(r, "approved")}
        /\ proposals' = IF last THEN [proposals EXCEPT ![r.quote] = "approved"]
                                ELSE proposals
        /\ stamps' = IF last THEN Append(stamps, <<r.quote, "approved">>) ELSE stamps
        /\ Finish(s)
        /\ UNCHANGED <<quotes, stock, accepts, adjusted, credentials, day>>

\* A plausible bug: the rejection is not passed on to the quote.
RejectProposalOnly(s) ==
    LET r == sess[s]
    IN  /\ r.op = "reject"
        /\ MayReject(r.member, r.quote, r.role)
        /\ decisions' = decisions \cup {Decision(r, "rejected")}
        /\ proposals' = [proposals EXCEPT ![r.quote] = "rejected"]
        /\ Finish(s)
        /\ UNCHANGED <<quotes, stock, accepts, adjusted, credentials, stamps, day>>

\* The proposal is rejected and with it, through reject_resource_offer, its quote.
reject_proposal(s) ==
    LET r == sess[s]
    IN  /\ r.op = "reject"
        /\ MayReject(r.member, r.quote, r.role)
        /\ quotes[r.quote].status = "submitted"
        /\ decisions' = decisions \cup {Decision(r, "rejected")}
        /\ proposals' = [proposals EXCEPT ![r.quote] = "rejected"]
        /\ quotes' = [quotes EXCEPT ![r.quote].status = "rejected"]
        /\ Finish(s)
        /\ UNCHANGED <<stock, accepts, adjusted, credentials, stamps, day>>

\* _execute_procurement_acceptance accepts the quote unless it already is.
execute_proposal(q, m) ==
    /\ m \in Governors \cup Finance
    /\ proposals[q] = "approved"
    /\ quotes[q].status \in {"submitted", "accepted"}
    /\ quotes' = [quotes EXCEPT ![q].status = "accepted"]
    /\ proposals' = [proposals EXCEPT ![q] = "executed"]
    /\ UNCHANGED <<decisions, stock, accepts, adjusted, credentials, stamps, sess, day>>

-----------------------------------------------------------------------------
(* Receipt, payment and stock. *)

\* record_resource_adjustment: the Resource row is locked while it is changed.
AdjustStock(delta, q) ==
    /\ stock + delta >= 0
    /\ stock' = stock + delta
    /\ adjusted' = adjusted \cup {[n |-> Cardinality(adjusted), delta |-> delta, quote |-> q]}

\* quote_is_ready_for_receipt; quotes older than the proposals have none.
ReadyForReceipt(q) ==
    quotes[q].status = "accepted" /\ proposals[q] \in {"absent", "executed"}

\* A plausible bug: a quote that was received can be received again.
ReceiveAgain(q, result) ==
    /\ ReadyForReceipt(q)
    /\ quotes' = [quotes EXCEPT ![q].receipt = result]
    /\ IF result = "accepted" THEN AdjustStock(quotes[q].amount, q)
                              ELSE UNCHANGED <<stock, adjusted>>
    /\ UNCHANGED <<proposals, decisions, accepts, credentials, stamps, sess, day>>

\* delivered_at is set with receipt, so the two checks on them are one.
record_offer_receipt(q, result) ==
    /\ ReadyForReceipt(q)
    /\ quotes[q].receipt = "pending"
    /\ quotes' = [quotes EXCEPT ![q].receipt = result]
    /\ IF result = "accepted" THEN AdjustStock(quotes[q].amount, q)
                              ELSE UNCHANGED <<stock, adjusted>>
    /\ UNCHANGED <<proposals, decisions, accepts, credentials, stamps, sess, day>>

\* A plausible bug: the receipt is not asked for.
PayUnreceived(q) ==
    /\ quotes[q].status = "accepted"
    /\ quotes' = [quotes EXCEPT ![q].status = "fulfilled"]
    /\ credentials' = credentials \cup {q}
    /\ UNCHANGED <<proposals, decisions, stock, accepts, adjusted, stamps, sess, day>>

\* A bought quote is paid in the step that fulfils it, a donation needs no payment
\* from the start: payment_status is told by status and donation.
mark_offer_paid_or_donated(q) ==
    /\ quotes[q].status = "accepted"
    /\ quotes[q].receipt = "accepted"
    /\ quotes' = [quotes EXCEPT ![q].status = "fulfilled"]
    /\ credentials' = credentials \cup {q}
    /\ UNCHANGED <<proposals, decisions, stock, accepts, adjusted, stamps, sess, day>>

\* An operator's own adjustment from the inventory page.
ManualAdjustment ==
    /\ Cardinality({t \in adjusted : t.quote = NoQuote}) < MaxAdjust
    /\ \E delta \in Deltas : AdjustStock(delta, NoQuote)
    /\ UNCHANGED <<quotes, proposals, decisions, accepts, credentials, stamps, sess, day>>

\* inventory_edit loads the Resource, and saves every column of it: the stock it
\* loaded as well as the flag the form sets.
BeginEdit(s) == Begin(s, [Idle EXCEPT !.op = "edit", !.stock = stock])

CommitEdit(s) ==
    /\ sess[s].op = "edit"
    /\ stock' = sess[s].stock
    /\ accepts' \in BOOLEAN
    /\ Finish(s)
    /\ UNCHANGED <<quotes, proposals, decisions, adjusted, credentials, stamps, day>>

Midnight ==
    /\ day < LastDay
    /\ day' = day + 1
    /\ UNCHANGED <<rowVars, sess>>

-----------------------------------------------------------------------------
NoOffer == [status |-> "absent", by |-> NoMember, tier |-> "single", amount |-> 0,
            donation |-> FALSE, receipt |-> "pending", day |-> 0]

Init ==
    /\ quotes = [q \in Quotes |-> NoOffer]
    /\ proposals = [q \in Quotes |-> "absent"]
    /\ decisions = {}
    /\ stock = OpeningStock
    /\ accepts = TRUE
    /\ adjusted = {}
    /\ credentials = {}
    /\ stamps = <<>>
    /\ sess = [s \in Sessions |-> Idle]
    /\ day = 0

SessionStep(s) ==
    \/ BeginSubmit(s) \/ CommitSubmit(s)
    \/ BeginDecision(s) \/ approve_proposal(s) \/ reject_proposal(s)
    \/ BeginEdit(s) \/ CommitEdit(s)
    \/ Rollback(s)

QuoteStep(q) ==
    \/ \E m \in Members : execute_proposal(q, m)
    \/ \E result \in {"accepted", "rejected"} : record_offer_receipt(q, result)
    \/ mark_offer_paid_or_donated(q)

Next ==
    \/ \E s \in Sessions : SessionStep(s)
    \/ \E q \in Quotes : QuoteStep(q)
    \/ ManualAdjustment
    \/ Midnight

Spec == Init /\ [][Next]_vars

-----------------------------------------------------------------------------
(* Properties. *)

\* Every variable has its type.
TypeOK ==
    /\ quotes \in [Quotes ->
          [status : {"submitted", "accepted", "rejected", "fulfilled"}, by : Members,
           tier : Tiers, amount : Nat \ {0}, donation : BOOLEAN,
           receipt : {"pending", "accepted", "rejected"}, day : 0..LastDay]
          \cup {NoOffer}]
    /\ proposals \in [Quotes -> {"absent", "submitted", "approved", "rejected", "executed"}]
    /\ decisions \subseteq [quote : Quotes, member : Members, role : Roles,
                            decision : {"approved", "rejected"}]
    /\ stock \in Nat
    /\ accepts \in BOOLEAN
    /\ \A t \in adjusted : t.delta \in Int /\ t.quote \in Quotes \cup {NoQuote}
    /\ credentials \subseteq Quotes
    /\ stamps \in Seq(Quotes \X {"submitted", "approved"})
    /\ sess \in [Sessions ->
          [op : {"none", "submit", "approve", "reject", "edit"},
           quote : Quotes \cup {NoQuote}, member : Members \cup {NoMember},
           role : Roles \cup {NoRole}, stock : Nat]]
    /\ day \in 0..LastDay

\* A quote and its proposal tell the same story: accepted exactly when executed,
\* rejected exactly when rejected, although the two rows are locked separately.
ProposalAgrees ==
    \A q \in Quotes :
        /\ proposals[q] = "absent" <=> quotes[q].status = "absent"
        /\ proposals[q] \in {"submitted", "approved"} <=> quotes[q].status = "submitted"
        /\ proposals[q] = "rejected" <=> quotes[q].status = "rejected"
        /\ proposals[q] = "executed" <=> quotes[q].status \in {"accepted", "fulfilled"}

\* "Same person cannot fill multiple roles in this proposal": whatever is bought
\* was approved in every slot of its tier, each time by another member who holds
\* the role, and was rejected by nobody.
BoughtWithAllSlots ==
    \A q \in Quotes : proposals[q] \in {"approved", "executed"} =>
        /\ AllSlotsFilled(q, ApprovedRoles(q))
        /\ \A d, e \in Approvals(q) : d.member = e.member => d = e
        /\ \A d \in decisions : d.quote = q =>
              d.decision = "approved" /\ d.role \in MemberRoles(d.member)

\* A delivery is booked into the stock once and in full, exactly when it was
\* received and only after its acceptance was executed (record_offer_receipt).
StockFollowsReceipts ==
    \A q \in Quotes :
        LET mine == {t \in adjusted : t.quote = q}
        IN  IF quotes[q].receipt = "accepted"
            THEN /\ Cardinality(mine) = 1
                 /\ \A t \in mine : t.delta = quotes[q].amount
                 /\ proposals[q] = "executed"
            ELSE mine = {}

\* A supplier is paid and credited with a delivery exactly when it was received.
CreditedOnlyDelivered ==
    /\ credentials = {q \in Quotes : quotes[q].status = "fulfilled"}
    /\ \A q \in credentials : quotes[q].receipt = "accepted"

-----------------------------------------------------------------------------
(* What the repository says of itself and the code does not keep: the runs do *)
(* not check these, the README says how each fails.                           *)

\* "SINGLE (any one of governance / finance)": on a submitted single-tier proposal
\* that nobody has decided yet, the role the page picks for a governance or
\* finance member is one approve_proposal accepts.
SingleByAnyOne ==
    \A q \in Quotes, m \in Governors \cup Finance :
        /\ proposals[q] = "submitted"
        /\ quotes[q].tier = "single"
        /\ Approvals(q) = {}
        => MayApprove(m, q, PickedRole(m, q))

\* "every stock movement is recorded via ResourceTransaction" (inventory_edit): the
\* stock is what was there first plus the recorded movements.
StockIsRecorded ==
    stock = OpeningStock + MapThenSumSet(LAMBDA t : t.delta, adjusted)

\* "Maximum offers a single member may submit per resource per calendar day."
OffersWithinLimit ==
    \A m \in Members, d \in 0..LastDay :
        Cardinality({q \in Quotes : quotes[q].by = m /\ quotes[q].day = d}) <= DailyLimit

=============================================================================

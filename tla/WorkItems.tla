----------------------------- MODULE WorkItems -----------------------------
(***************************************************************************)
(* The work lists of workspace/work_item_context.py for procurement: which *)
(* proposals and quotes the database predicates count for which member,    *)
(* and which of them the lists have room for.  The predicates repeat, in   *)
(* SQL, what the approval page and the services decide in Python;          *)
(* Procurement has those.  Proposals of other kinds, which take places in  *)
(* the two proposal lists too, are not modelled.                           *)
(***************************************************************************)
EXTENDS Procurement

CONSTANT DisplayLimit      \* MATTER_DISPLAY_LIMIT

ASSUME WorkItemsAssumption == DisplayLimit \in Nat \ {0}

\* _approval_exists: a decision in this role, by anybody, that approved.
ApprovedIn(q, role) ==
    \E d \in decisions : d.quote = q /\ d.role = role /\ d.decision = "approved"

\* _approval_exists with approver_id: any decision of the member in this role.
ActedIn(m, q, role) ==
    \E d \in decisions : d.quote = q /\ d.role = role /\ d.member = m

OpenSlot(m, q, role) == ~ApprovedIn(q, role) /\ ~ActedIn(m, q, role)

\* Plausible bug: the second governance slot is not offered.
ActionableOnce(m, q) ==
    /\ proposals[q] = "submitted"
    /\ \/ quotes[q].tier = "single" /\ ~ApprovedIn(q, "governance") /\ ~ApprovedIn(q, "finance")
          /\ (m \in Governors \/ m \in Finance)
       \/ quotes[q].tier \in {"standard", "major"}
          /\ \/ m \in Governors /\ OpenSlot(m, q, "governance")
             \/ m \in Finance /\ OpenSlot(m, q, "finance")

\* _actionable_proposal_queryset.
Actionable(m, q) ==
    /\ proposals[q] = "submitted"
    /\ \/ /\ quotes[q].tier = "single"
          /\ ~ApprovedIn(q, "governance") /\ ~ApprovedIn(q, "finance")
          /\ \/ m \in Governors /\ ~ActedIn(m, q, "governance")
             \/ m \in Finance /\ ~ActedIn(m, q, "finance")
       \/ /\ quotes[q].tier \in {"standard", "major"}
          /\ \/ m \in Governors /\ OpenSlot(m, q, "governance")
             \/ m \in Finance /\ OpenSlot(m, q, "finance")
       \/ /\ quotes[q].tier = "major"
          /\ m \in Governors /\ OpenSlot(m, q, "second_governance")

Executable(q) == proposals[q] = "approved"

\* Plausible bug: the receipt status is left out.
ReceivableTwice(q) ==
    quotes[q].status = "accepted" /\ proposals[q] \in {"absent", "executed"}

\* receipt_queryset: the latest acceptance proposal is missing or executed.
Receivable(q) ==
    /\ quotes[q].status = "accepted"
    /\ quotes[q].receipt = "pending"
    /\ proposals[q] \in {"absent", "executed"}

\* payment_queryset: payment_status is PENDING of what is bought and not yet paid.
Payable(q) ==
    /\ quotes[q].status = "accepted"
    /\ quotes[q].receipt = "accepted"
    /\ ~quotes[q].donation

\* The counts of _governance_worksets: what waits for the member.
Pending(m, q) ==
    IF m \notin Governors \cup Finance THEN {}
    ELSE {i \in {"approval", "execute", "receipt", "payment"} :
            CASE i = "approval" -> Actionable(m, q)
              [] i = "execute"  -> Executable(q)
              [] i = "receipt"  -> Receivable(q)
              [] i = "payment"  -> Payable(q)}

\* What a list is ordered by, newest first.
Stamp(i) == IF i = "execute" THEN "approved" ELSE "submitted"

Newer(p, q, stamp) ==
    \E j, k \in 1..Len(stamps) :
        j < k /\ stamps[j] = <<q, stamp>> /\ stamps[k] = <<p, stamp>>

\* Plausible bug: the oldest entries are shown, as a queue would.
FirstPlaces(m, q, i) ==
    Cardinality({p \in Quotes : i \in Pending(m, p) /\ Newer(q, p, Stamp(i))}) < DisplayLimit

\* The slice [:MATTER_DISPLAY_LIMIT] of a list.
HasPlace(m, q, i) ==
    Cardinality({p \in Quotes : i \in Pending(m, p) /\ Newer(p, q, Stamp(i))}) < DisplayLimit

\* The lists build_member_work_items shows.
Items(m, q) == {i \in Pending(m, q) : HasPlace(m, q, i)}

-----------------------------------------------------------------------------
(* Properties. *)

\* The approval page offers the member a role on the proposal.
Offered(m, q) == proposals[q] = "submitted" /\ AvailableRoles(m, q) # {}

\* The work list and the approval page agree: a proposal is counted for approval
\* exactly for the members to whom the page offers a role, and it is listed unless
\* the page offers them DisplayLimit newer ones (_actionable_proposal_queryset against
\* member_available_approval_roles).
ListMatchesPage ==
    \A m \in Members, q \in Quotes :
        /\ "approval" \in Pending(m, q) <=> Offered(m, q)
        /\ "approval" \in Items(m, q) <=>
              /\ Offered(m, q)
              /\ Cardinality({p \in Quotes : Offered(m, p) /\ Newer(p, q, "submitted")})
                    < DisplayLimit

\* A quote asks for one thing at a time, and for the same thing of everybody.
OneItemPerQuote ==
    \A q \in Quotes : Cardinality(UNION {Pending(m, q) : m \in Members}) <= 1

\* A purchase that is not rejected, refused on delivery or paid; a donation only
\* until it is received.
Open(q) ==
    \/ quotes[q].status = "submitted"
    \/ quotes[q].status = "accepted" /\ quotes[q].receipt = "pending"
    \/ quotes[q].status = "accepted" /\ quotes[q].receipt = "accepted" /\ ~quotes[q].donation

\* The member can do what one of these items asks for; an approval in the role the
\* page would pick.
CanMove(m, q, items) ==
    \/ items \cap {"execute", "receipt", "payment"} # {}
    \/ "approval" \in items /\ MayApprove(m, q, PickedRole(m, q))

\* No purchase is forgotten: an open one is counted for at least one member who can
\* move it, whatever slots are filled by whom, and while any is open the lists, short
\* as they are, show one of them to a member who can move it.
SomebodyCanMoveIt ==
    /\ \A q \in Quotes : Open(q) => \E m \in Members : CanMove(m, q, Pending(m, q))
    /\ (\E q \in Quotes : Open(q)) =>
          \E m \in Members, q \in Quotes : CanMove(m, q, Items(m, q))

\* The work lists of all members together: each shows exactly what the pages let its
\* member do, no quote twice, and nothing is stuck.
WorkListsComplete == ListMatchesPage /\ OneItemPerQuote /\ SomebodyCanMoveIt

-----------------------------------------------------------------------------
(* What the repository says of itself and the code does not keep: the runs do *)
(* not check these, the README says how each fails.                           *)

\* "Each inner set represents one required slot" (proposal_required_role_groups): a slot
\* takes one approval, so that no member's single approval is spent on a filled slot.
SlotFilledOnce ==
    \A q \in Quotes : \A g \in RoleGroups(quotes[q].tier) :
        Cardinality({d \in Approvals(q) : d.role \in g}) <= 1

\* The payment list has a label for donations ("confirm completion", "donation
\* completed"): one that was received and not yet completed is on it.
DonationsListed ==
    \A q \in Quotes : quotes[q].status = "accepted" /\ quotes[q].receipt = "accepted" =>
        \E m \in Members : "payment" \in Pending(m, q)

=============================================================================

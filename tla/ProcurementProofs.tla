-------------------------- MODULE ProcurementProofs --------------------------
(***************************************************************************)
(* Proofs about Procurement and its work lists, for any sets of quotes,    *)
(* members, sessions and amounts.  A quote and its proposal are two rows   *)
(* that no step changes against each other: the status of one tells the    *)
(* status of the other (ProposalAgrees), and every other invariant leans   *)
(* on that.  A decision is taken on a role that was picked before the lock *)
(* (RequestOK says what such a request is worth), so the slots are counted *)
(* from the rows themselves (ApprovalInv).                                 *)
(***************************************************************************)
EXTENDS WorkItems, FiniteSetTheorems, TLAPS

QuoteStatus == {"submitted", "accepted", "rejected", "fulfilled"}

Offer == [status : QuoteStatus, by : Members, tier : Tiers, amount : Nat \ {0},
          donation : BOOLEAN, receipt : {"pending", "accepted", "rejected"}, day : 0..LastDay]

RequestRecord ==
    [op : {"none", "submit", "approve", "reject", "edit"},
     quote : Quotes \cup {NoQuote}, member : Members \cup {NoMember},
     role : Roles \cup {NoRole}, stock : Nat]

DecisionRow == [quote : Quotes, member : Members, role : Roles,
                decision : {"approved", "rejected"}]

StampRow == Quotes \X {"submitted", "approved"}

ProposalStatus == {"absent", "submitted", "approved", "rejected", "executed"}

\* What the type invariant says, in these names.
LEMMA Typed ==
    TypeOK <=>
      /\ quotes \in [Quotes -> Offer \cup {NoOffer}]
      /\ proposals \in [Quotes -> ProposalStatus]
      /\ decisions \subseteq DecisionRow
      /\ stock \in Nat
      /\ accepts \in BOOLEAN
      /\ \A t \in adjusted : t.delta \in Int /\ t.quote \in Quotes \cup {NoQuote}
      /\ credentials \subseteq Quotes
      /\ stamps \in Seq(StampRow)
      /\ sess \in [Sessions -> RequestRecord]
      /\ day \in 0..LastDay
BY DEF TypeOK, Offer, QuoteStatus, ProposalStatus, DecisionRow, RequestRecord, StampRow

-----------------------------------------------------------------------------
(* The inductive invariant. *)

\* An offer that is being submitted has a fresh id; a decision is about a
\* proposal that exists, by somebody who may decide, in a role of theirs.
RequestOK ==
    \A s \in Sessions :
        /\ sess[s].op = "submit" =>
              /\ sess[s].quote \in Quotes /\ sess[s].member \in Members
              /\ quotes[sess[s].quote].status = "absent"
              /\ \A t \in Sessions \ {s} :
                    ~(sess[t].op = "submit" /\ sess[t].quote = sess[s].quote)
        /\ sess[s].op \in {"approve", "reject"} =>
              /\ sess[s].quote \in Quotes /\ sess[s].member \in Members
              /\ sess[s].role \in Roles
              /\ quotes[sess[s].quote].status # "absent"

\* The decisions on a proposal: none before it is submitted, only approvals until
\* it is rejected, each by another member, enough of them once it is approved.
ApprovalOf(q) ==
    /\ proposals[q] = "absent" => \A d \in decisions : d.quote # q
    /\ proposals[q] # "rejected" =>
          \A d \in decisions : d.quote = q => d.decision = "approved"
    /\ \A d, e \in Approvals(q) : d.member = e.member => d = e
    /\ proposals[q] \in {"approved", "executed"} => AllSlotsFilled(q, ApprovedRoles(q))

ApprovalInv ==
    /\ \A q \in Quotes : ApprovalOf(q)
    /\ \A d \in decisions : d.role \in MemberRoles(d.member)

IInv ==
    /\ TypeOK
    /\ RequestOK
    /\ ProposalAgrees
    /\ ApprovalInv
    /\ StockFollowsReceipts
    /\ CreditedOnlyDelivered

\* Nothing has happened yet.
LEMMA InitIInv == ASSUME Init PROVE IInv
<1> USE ProcurementAssumption
<1>1. TypeOK
  BY Typed DEF Init, Idle, RequestRecord, ProposalStatus
<1>2. RequestOK
  BY DEF Init, Idle, RequestOK
<1>3. ProposalAgrees
  BY DEF Init, ProposalAgrees, NoOffer
<1>4. ApprovalInv
  BY DEF Init, ApprovalInv, ApprovalOf, Approvals
<1>5. StockFollowsReceipts
  BY DEF Init, StockFollowsReceipts, NoOffer
<1>6. CreditedOnlyDelivered
  BY DEF Init, CreditedOnlyDelivered, NoOffer
<1> QED
  BY <1>1, <1>2, <1>3, <1>4, <1>5, <1>6 DEF IInv

-----------------------------------------------------------------------------
(* What a step that leaves most rows alone preserves. *)

\* Requests go on or end, and no offer appears.
LEMMA RequestSame ==
    ASSUME RequestOK,
           \A t \in Sessions : sess'[t] = sess[t] \/ sess'[t] = Idle,
           \A q \in Quotes : quotes'[q].status = "absent" <=> quotes[q].status = "absent"
    PROVE  RequestOK'
<1> SUFFICES ASSUME NEW s \in Sessions
             PROVE  /\ sess'[s].op = "submit" =>
                          /\ sess'[s].quote \in Quotes /\ sess'[s].member \in Members
                          /\ quotes'[sess'[s].quote].status = "absent"
                          /\ \A t \in Sessions \ {s} :
                                ~(sess'[t].op = "submit" /\ sess'[t].quote = sess'[s].quote)
                    /\ sess'[s].op \in {"approve", "reject"} =>
                          /\ sess'[s].quote \in Quotes /\ sess'[s].member \in Members
                          /\ sess'[s].role \in Roles
                          /\ quotes'[sess'[s].quote].status # "absent"
  BY DEF RequestOK
<1>1. CASE sess'[s] = Idle
  BY <1>1 DEF Idle
<1>2. CASE sess'[s] = sess[s]
  <2>1. /\ sess[s].op = "submit" =>
              /\ sess[s].quote \in Quotes /\ sess[s].member \in Members
              /\ quotes[sess[s].quote].status = "absent"
              /\ \A t \in Sessions \ {s} :
                    ~(sess[t].op = "submit" /\ sess[t].quote = sess[s].quote)
        /\ sess[s].op \in {"approve", "reject"} =>
              /\ sess[s].quote \in Quotes /\ sess[s].member \in Members
              /\ sess[s].role \in Roles
              /\ quotes[sess[s].quote].status # "absent"
    BY DEF RequestOK
  <2>2. \A t \in Sessions : sess'[t].op = "submit" => sess'[t] = sess[t]
    BY DEF Idle
  <2> QED
    BY <1>2, <2>1, <2>2
<1> QED
  BY <1>1, <1>2

\* No decision is taken, and a proposal is at most executed.
LEMMA ApprovalSame ==
    ASSUME ApprovalInv, decisions' = decisions,
           \A q \in Quotes : quotes'[q].tier = quotes[q].tier,
           \A q \in Quotes : \/ proposals'[q] = proposals[q]
                             \/ proposals[q] = "approved" /\ proposals'[q] = "executed"
    PROVE  ApprovalInv'
<1>1. \A q \in Quotes : ApprovalOf(q)'
  <2> SUFFICES ASSUME NEW q \in Quotes PROVE ApprovalOf(q)'
    OBVIOUS
  <2>1. ApprovalOf(q)
    BY DEF ApprovalInv
  <2>2. Approvals(q)' = Approvals(q) /\ ApprovedRoles(q)' = ApprovedRoles(q)
    BY DEF Approvals, ApprovedRoles
  <2>3. \A roles : AllSlotsFilled(q, roles)' <=> AllSlotsFilled(q, roles)
    BY DEF AllSlotsFilled, RoleGroups
  <2> QED
    BY <2>1, <2>2, <2>3 DEF ApprovalOf
<1> QED
  BY <1>1 DEF ApprovalInv, MemberRoles

\* No stock movement, and nothing is received.
LEMMA StockSame ==
    ASSUME StockFollowsReceipts, adjusted' = adjusted,
           \A q \in Quotes : /\ quotes'[q].receipt = quotes[q].receipt
                             /\ quotes'[q].amount = quotes[q].amount
                             /\ proposals[q] = "executed" => proposals'[q] = "executed"
    PROVE  StockFollowsReceipts'
<1> SUFFICES ASSUME NEW q \in Quotes
             PROVE  LET mine == {t \in adjusted' : t.quote = q}
                    IN  IF quotes'[q].receipt = "accepted"
                        THEN /\ Cardinality(mine) = 1
                             /\ \A t \in mine : t.delta = quotes'[q].amount
                             /\ proposals'[q] = "executed"
                        ELSE mine = {}
  BY DEF StockFollowsReceipts
<1>1. LET mine == {t \in adjusted : t.quote = q}
      IN  IF quotes[q].receipt = "accepted"
          THEN /\ Cardinality(mine) = 1
               /\ \A t \in mine : t.delta = quotes[q].amount
               /\ proposals[q] = "executed"
          ELSE mine = {}
  BY DEF StockFollowsReceipts
<1> QED
  BY <1>1

\* Nobody is paid.
LEMMA CreditSame ==
    ASSUME CreditedOnlyDelivered, credentials' = credentials,
           \A q \in Quotes : /\ quotes'[q].status = "fulfilled" <=> quotes[q].status = "fulfilled"
                             /\ quotes[q].receipt = "accepted" => quotes'[q].receipt = "accepted"
    PROVE  CreditedOnlyDelivered'
BY DEF CreditedOnlyDelivered

\* A session ends.
LEMMA FinishFacts ==
    ASSUME TypeOK, NEW s \in Sessions, Finish(s)
    PROVE  /\ sess' \in [Sessions -> RequestRecord]
           /\ sess'[s] = Idle
           /\ \A t \in Sessions \ {s} : sess'[t] = sess[t]
BY Typed DEF Finish, Idle, RequestRecord

\* A quote's status is overwritten.
LEMMA StatusUpdate ==
    ASSUME TypeOK, NEW q \in Quotes, quotes[q].status # "absent",
           NEW st \in QuoteStatus, quotes' = [quotes EXCEPT ![q].status = st]
    PROVE  /\ quotes' \in [Quotes -> Offer \cup {NoOffer}]
           /\ \A p \in Quotes \ {q} : quotes'[p] = quotes[p]
           /\ quotes'[q].status = st
           /\ \A p \in Quotes : /\ quotes'[p].tier = quotes[p].tier
                                /\ quotes'[p].amount = quotes[p].amount
                                /\ quotes'[p].receipt = quotes[p].receipt
<1>1. quotes \in [Quotes -> Offer \cup {NoOffer}]
  BY Typed
<1>2. quotes[q] \in Offer
  BY <1>1 DEF NoOffer
<1>3. quotes'[q] = [quotes[q] EXCEPT !.status = st]
  BY <1>1
<1>4. /\ quotes'[q] \in Offer /\ quotes'[q].status = st
      /\ quotes'[q].tier = quotes[q].tier /\ quotes'[q].amount = quotes[q].amount
      /\ quotes'[q].receipt = quotes[q].receipt
  BY <1>2, <1>3 DEF Offer
<1> QED
  BY <1>1, <1>4

\* A quote's receipt is overwritten.
LEMMA ReceiptUpdate ==
    ASSUME TypeOK, NEW q \in Quotes, quotes[q].status # "absent",
           NEW rc \in {"accepted", "rejected"}, quotes' = [quotes EXCEPT ![q].receipt = rc]
    PROVE  /\ quotes' \in [Quotes -> Offer \cup {NoOffer}]
           /\ \A p \in Quotes \ {q} : quotes'[p] = quotes[p]
           /\ quotes'[q].receipt = rc
           /\ \A p \in Quotes : /\ quotes'[p].tier = quotes[p].tier
                                /\ quotes'[p].amount = quotes[p].amount
                                /\ quotes'[p].status = quotes[p].status
           /\ quotes[q].amount \in Nat
<1>1. quotes \in [Quotes -> Offer \cup {NoOffer}]
  BY Typed
<1>2. quotes[q] \in Offer
  BY <1>1 DEF NoOffer
<1>3. quotes'[q] = [quotes[q] EXCEPT !.receipt = rc]
  BY <1>1
<1>4. /\ quotes'[q] \in Offer /\ quotes'[q].receipt = rc
      /\ quotes'[q].tier = quotes[q].tier /\ quotes'[q].amount = quotes[q].amount
      /\ quotes'[q].status = quotes[q].status /\ quotes[q].amount \in Nat
  BY <1>2, <1>3 DEF Offer
<1> QED
  BY <1>1, <1>4

-----------------------------------------------------------------------------
(* The steps: requests begin and end without touching a row. *)

\* The fields of a new request.
LEMMA RequestFields ==
    ASSUME NEW op, NEW q, NEW m, NEW role
    PROVE  LET r == Request(op, q, m, role)
           IN  r.op = op /\ r.quote = q /\ r.member = m /\ r.role = role /\ r.stock = 0
BY DEF Request, Idle

\* Rows that do not change keep their invariants.
LEMMA RowsSame ==
    ASSUME IInv, UNCHANGED rowVars
    PROVE  ProposalAgrees' /\ ApprovalInv' /\ StockFollowsReceipts' /\ CreditedOnlyDelivered'
<1>1. UNCHANGED <<quotes, proposals, decisions, stock, accepts, adjusted, credentials, stamps>>
  BY DEF rowVars
<1>2. ProposalAgrees'
  BY <1>1 DEF IInv, ProposalAgrees
<1>3. ApprovalInv'
  BY <1>1, ApprovalSame DEF IInv
<1>4. StockFollowsReceipts' /\ CreditedOnlyDelivered'
  BY <1>1, StockSame, CreditSame DEF IInv
<1> QED
  BY <1>2, <1>3, <1>4

\* The role the page picks is one the member holds.
LEMMA PickedRoleHeld ==
    ASSUME NEW m, NEW q
    PROVE  PickedRole(m, q) \in Roles
BY DEF PickedRole, Roles

\* submit_resource_offer reads the flag and counts before it writes.
LEMMA BeginSubmitStep ==
    ASSUME IInv, NEW s \in Sessions, BeginSubmit(s)
    PROVE  IInv'
<1>0. /\ sess \in [Sessions -> RequestRecord] /\ NoRole \in Roles \cup {NoRole}
      /\ sess[s] = Idle
  BY Typed DEF IInv, BeginSubmit, Begin
<1>1. PICK q \in Quotes, m \in Members :
        /\ quotes[q].status = "absent"
        /\ \A t \in Sessions : ~(sess[t].op = "submit" /\ sess[t].quote = q)
        /\ Begin(s, Request("submit", q, m, NoRole))
  BY DEF BeginSubmit
<1> DEFINE r == Request("submit", q, m, NoRole)
<1>2. r.op = "submit" /\ r.quote = q /\ r.member = m
  BY RequestFields
<1>3. r \in RequestRecord
  BY DEF Request, Idle, RequestRecord
<1> HIDE DEF r
<1>4. /\ sess' = [sess EXCEPT ![s] = r] /\ UNCHANGED <<rowVars, day>>
      /\ UNCHANGED <<quotes, proposals, decisions, stock, accepts, adjusted, credentials, stamps, day>>
  BY <1>1 DEF Begin, r, rowVars
<1>5. sess'[s] = r /\ \A t \in Sessions \ {s} : sess'[t] = sess[t]
  BY <1>0, <1>4
<1>6. TypeOK'
  <2>1. sess' \in [Sessions -> RequestRecord]
    BY <1>0, <1>3, <1>4
  <2> QED
    BY <1>4, <2>1 DEF IInv, TypeOK, RequestRecord
<1>7. RequestOK'
  <2>1. \A t \in Sessions \ {s} :
          /\ sess[t].op = "submit" =>
                /\ sess[t].quote \in Quotes /\ sess[t].member \in Members
                /\ quotes[sess[t].quote].status = "absent"
                /\ \A u \in Sessions \ {t} :
                      ~(sess[u].op = "submit" /\ sess[u].quote = sess[t].quote)
          /\ sess[t].op \in {"approve", "reject"} =>
                /\ sess[t].quote \in Quotes /\ sess[t].member \in Members
                /\ sess[t].role \in Roles
                /\ quotes[sess[t].quote].status # "absent"
    BY DEF IInv, RequestOK
  <2> QED
    BY <1>1, <1>2, <1>4, <1>5, <2>1 DEF RequestOK
<1> QED
  BY <1>4, <1>6, <1>7, RowsSame DEF IInv

\* The approval page picks the role before approve_proposal or reject_proposal
\* locks the proposal.
LEMMA BeginDecisionStep ==
    ASSUME IInv, NEW s \in Sessions, BeginDecision(s)
    PROVE  IInv'
<1>0. /\ sess \in [Sessions -> RequestRecord] /\ sess[s] = Idle
  BY Typed DEF IInv, BeginDecision, Begin
<1>1. PICK q \in Quotes, m \in Governors \cup Finance, op \in {"approve", "reject"} :
        /\ proposals[q] # "absent"
        /\ Begin(s, Request(op, q, m, PickedRole(m, q)))
  BY DEF BeginDecision
<1> DEFINE r == Request(op, q, m, PickedRole(m, q))
<1>2. r.op = op /\ r.quote = q /\ r.member = m /\ r.role \in Roles /\ m \in Members
  BY RequestFields, PickedRoleHeld, ProcurementAssumption
<1>3. r \in RequestRecord
  BY <1>2, PickedRoleHeld DEF Request, Idle, RequestRecord
<1> HIDE DEF r
<1>4. /\ sess' = [sess EXCEPT ![s] = r] /\ UNCHANGED <<rowVars, day>>
      /\ UNCHANGED <<quotes, proposals, decisions, stock, accepts, adjusted, credentials, stamps, day>>
  BY <1>1 DEF Begin, r, rowVars
<1>5. sess'[s] = r /\ \A t \in Sessions \ {s} : sess'[t] = sess[t]
  BY <1>0, <1>4
<1>6. TypeOK'
  <2>1. sess' \in [Sessions -> RequestRecord]
    BY <1>0, <1>3, <1>4
  <2> QED
    BY <1>4, <2>1 DEF IInv, TypeOK, RequestRecord
<1>7. RequestOK'
  <2>1. \A t \in Sessions \ {s} :
          /\ sess[t].op = "submit" =>
                /\ sess[t].quote \in Quotes /\ sess[t].member \in Members
                /\ quotes[sess[t].quote].status = "absent"
                /\ \A u \in Sessions \ {t} :
                      ~(sess[u].op = "submit" /\ sess[u].quote = sess[t].quote)
          /\ sess[t].op \in {"approve", "reject"} =>
                /\ sess[t].quote \in Quotes /\ sess[t].member \in Members
                /\ sess[t].role \in Roles
                /\ quotes[sess[t].quote].status # "absent"
    BY DEF IInv, RequestOK
  <2>2. quotes[q].status # "absent"
    BY <1>1 DEF IInv, ProposalAgrees
  <2> QED
    BY <1>2, <1>4, <1>5, <2>1, <2>2 DEF RequestOK
<1> QED
  BY <1>4, <1>6, <1>7, RowsSame DEF IInv

\* inventory_edit loads the row; a request is rolled back; a day ends.
LEMMA QuietStep ==
    ASSUME IInv, \/ \E s \in Sessions : BeginEdit(s) \/ Rollback(s)
                 \/ Midnight
                 \/ UNCHANGED vars
    PROVE  IInv'
<1>0. /\ sess \in [Sessions -> RequestRecord] /\ stock \in Nat /\ day \in 0..LastDay
      /\ LastDay \in Nat
  BY Typed, ProcurementAssumption DEF IInv
<1>1. UNCHANGED rowVars /\ UNCHANGED <<quotes, proposals, decisions, stock, accepts,
                                       adjusted, credentials, stamps>>
  BY DEF BeginEdit, Begin, Rollback, Midnight, vars, rowVars
<1>2. day' \in 0..LastDay
  BY <1>0 DEF BeginEdit, Begin, Rollback, Midnight, vars
<1>3. sess' \in [Sessions -> RequestRecord]
  <2>1. ASSUME NEW s \in Sessions, BeginEdit(s)
        PROVE  sess' \in [Sessions -> RequestRecord]
    <3>1. [Idle EXCEPT !.op = "edit", !.stock = stock] \in RequestRecord
      BY <1>0 DEF Idle, RequestRecord
    <3> QED
      BY <1>0, <2>1, <3>1 DEF BeginEdit, Begin
  <2>2. ASSUME NEW s \in Sessions, Rollback(s)
        PROVE  sess' \in [Sessions -> RequestRecord]
    BY <2>2, FinishFacts DEF IInv, Rollback
  <2> QED
    BY <1>0, <2>1, <2>2 DEF Midnight, vars
<1>4. TypeOK'
  BY <1>1, <1>2, <1>3 DEF IInv, TypeOK, RequestRecord
<1>5. RequestOK'
  <2>1. ASSUME NEW s \in Sessions, BeginEdit(s)
        PROVE  RequestOK'
    <3>1. /\ sess'[s].op = "edit" /\ \A t \in Sessions \ {s} : sess'[t] = sess[t]
          /\ sess[s].op = "none"
      BY <1>0, <2>1 DEF BeginEdit, Begin, Idle
    <3>2. \A t \in Sessions \ {s} :
            /\ sess[t].op = "submit" =>
                  /\ sess[t].quote \in Quotes /\ sess[t].member \in Members
                  /\ quotes[sess[t].quote].status = "absent"
                  /\ \A u \in Sessions \ {t} :
                        ~(sess[u].op = "submit" /\ sess[u].quote = sess[t].quote)
            /\ sess[t].op \in {"approve", "reject"} =>
                  /\ sess[t].quote \in Quotes /\ sess[t].member \in Members
                  /\ sess[t].role \in Roles
                  /\ quotes[sess[t].quote].status # "absent"
      BY DEF IInv, RequestOK
    <3> QED
      BY <1>1, <3>1, <3>2 DEF RequestOK
  <2>2. ASSUME NEW s \in Sessions, Rollback(s)
        PROVE  RequestOK'
    BY <1>1, <2>2, FinishFacts, RequestSame DEF IInv, Rollback
  <2>3. CASE sess' = sess
    BY <1>1, <2>3, RequestSame DEF IInv
  <2> QED
    BY <2>1, <2>2, <2>3 DEF Midnight, vars
<1> QED
  BY <1>1, <1>4, <1>5, RowsSame DEF IInv

-----------------------------------------------------------------------------
(* The steps that write. *)

\* submit_resource_offer writes the quote and its proposal together.
LEMMA SubmitStep ==
    ASSUME IInv, NEW s \in Sessions, CommitSubmit(s)
    PROVE  IInv'
<1> DEFINE q == sess[s].quote
<1>1. PICK tier \in Tiers, n \in Quantities, donation \in BOOLEAN :
        /\ sess[s].op = "submit"
        /\ quotes' = [quotes EXCEPT ![q] =
                        [status |-> "submitted", by |-> sess[s].member, tier |-> tier,
                         amount |-> n, donation |-> donation, receipt |-> "pending",
                         day |-> day]]
        /\ proposals' = [proposals EXCEPT ![q] = "submitted"]
        /\ stamps' = Append(stamps, <<q, "submitted">>)
        /\ Finish(s)
        /\ UNCHANGED <<decisions, stock, accepts, adjusted, credentials, day>>
  BY DEF CommitSubmit
<1>2. /\ q \in Quotes /\ sess[s].member \in Members /\ quotes[q].status = "absent"
      /\ \A t \in Sessions \ {s} : ~(sess[t].op = "submit" /\ sess[t].quote = q)
  BY <1>1 DEF IInv, RequestOK
<1>3. /\ quotes \in [Quotes -> Offer \cup {NoOffer}] /\ day \in 0..LastDay
      /\ proposals \in [Quotes -> ProposalStatus]
      /\ n \in Nat \ {0}
  BY Typed, ProcurementAssumption DEF IInv
<1> DEFINE new == [status |-> "submitted", by |-> sess[s].member, tier |-> tier,
                   amount |-> n, donation |-> donation, receipt |-> "pending",
                         day |-> day]
<1>4. new \in Offer /\ new.status = "submitted" /\ new.receipt = "pending"
  BY <1>2, <1>3 DEF Offer, QuoteStatus
<1> HIDE DEF new
<1>5. /\ quotes' \in [Quotes -> Offer \cup {NoOffer}]
      /\ quotes'[q] = new /\ \A p \in Quotes \ {q} : quotes'[p] = quotes[p]
  BY <1>1, <1>2, <1>3, <1>4 DEF new
<1>6. /\ proposals' \in [Quotes -> ProposalStatus]
      /\ proposals'[q] = "submitted" /\ \A p \in Quotes \ {q} : proposals'[p] = proposals[p]
  BY <1>1, <1>2, <1>3 DEF ProposalStatus
<1>7. /\ sess' \in [Sessions -> RequestRecord] /\ sess'[s] = Idle
      /\ \A t \in Sessions \ {s} : sess'[t] = sess[t]
  BY <1>1, FinishFacts DEF IInv
<1>8. quotes[q] = NoOffer /\ proposals[q] = "absent"
  BY <1>2, <1>3 DEF IInv, ProposalAgrees, Offer, QuoteStatus
<1> HIDE DEF q
<1>9. TypeOK'
  <2>1. stamps' \in Seq(StampRow)
    <3>1. stamps \in Seq(StampRow) /\ <<q, "submitted">> \in StampRow
      BY <1>2, Typed DEF IInv, StampRow
    <3> QED
      BY <1>1, <3>1
  <2> QED
    BY <1>1, <1>5, <1>6, <1>7, <2>1 DEF IInv, TypeOK, Offer, QuoteStatus, ProposalStatus,
                                        RequestRecord, StampRow
<1>10. RequestOK'
  <2> SUFFICES ASSUME NEW t \in Sessions
               PROVE  /\ sess'[t].op = "submit" =>
                            /\ sess'[t].quote \in Quotes /\ sess'[t].member \in Members
                            /\ quotes'[sess'[t].quote].status = "absent"
                            /\ \A u \in Sessions \ {t} :
                                  ~(sess'[u].op = "submit" /\ sess'[u].quote = sess'[t].quote)
                      /\ sess'[t].op \in {"approve", "reject"} =>
                            /\ sess'[t].quote \in Quotes /\ sess'[t].member \in Members
                            /\ sess'[t].role \in Roles
                            /\ quotes'[sess'[t].quote].status # "absent"
    BY DEF RequestOK
  <2>1. CASE t = s
    BY <1>7, <2>1 DEF Idle
  <2>2. CASE t # s
    <3>1. /\ sess[t].op = "submit" =>
                /\ sess[t].quote \in Quotes /\ sess[t].member \in Members
                /\ quotes[sess[t].quote].status = "absent"
                /\ \A u \in Sessions \ {t} :
                      ~(sess[u].op = "submit" /\ sess[u].quote = sess[t].quote)
          /\ sess[t].op \in {"approve", "reject"} =>
                /\ sess[t].quote \in Quotes /\ sess[t].member \in Members
                /\ sess[t].role \in Roles
                /\ quotes[sess[t].quote].status # "absent"
      BY DEF IInv, RequestOK
    <3>2. sess[t].op = "submit" => sess[t].quote # q
      BY <1>2, <2>2 DEF q
    <3>3. sess'[t] = sess[t] /\ \A u \in Sessions : sess'[u].op = "submit" => sess'[u] = sess[u]
      BY <1>7, <2>2 DEF Idle
    <3> QED
      BY <1>4, <1>5, <3>1, <3>2, <3>3
  <2> QED
    BY <2>1, <2>2
<1>11. ProposalAgrees'
  BY <1>2, <1>4, <1>5, <1>6 DEF IInv, ProposalAgrees
<1>12. ApprovalInv'
  <2> SUFFICES ASSUME NEW p \in Quotes PROVE ApprovalOf(p)'
    BY <1>1 DEF IInv, ApprovalInv, MemberRoles
  <2>0. ApprovalOf(p) /\ Approvals(p)' = Approvals(p) /\ ApprovedRoles(p)' = ApprovedRoles(p)
    BY <1>1 DEF IInv, ApprovalInv, Approvals, ApprovedRoles
  <2>1. CASE p = q
    BY <1>1, <1>2, <1>6, <1>8, <2>0, <2>1 DEF ApprovalOf
  <2>2. CASE p # q
    <3>1. AllSlotsFilled(p, ApprovedRoles(p))' <=> AllSlotsFilled(p, ApprovedRoles(p))
      BY <1>5, <2>0, <2>2 DEF AllSlotsFilled, RoleGroups
    <3> QED
      BY <1>1, <1>6, <2>0, <2>2, <3>1 DEF ApprovalOf
  <2> QED
    BY <2>1, <2>2
<1>13. StockFollowsReceipts'
  <2> SUFFICES ASSUME NEW p \in Quotes
               PROVE  LET mine == {t \in adjusted' : t.quote = p}
                      IN  IF quotes'[p].receipt = "accepted"
                          THEN /\ Cardinality(mine) = 1
                               /\ \A t \in mine : t.delta = quotes'[p].amount
                               /\ proposals'[p] = "executed"
                          ELSE mine = {}
    BY DEF StockFollowsReceipts
  <2>1. LET mine == {t \in adjusted : t.quote = p}
        IN  IF quotes[p].receipt = "accepted"
            THEN /\ Cardinality(mine) = 1
                 /\ \A t \in mine : t.delta = quotes[p].amount
                 /\ proposals[p] = "executed"
            ELSE mine = {}
    BY DEF IInv, StockFollowsReceipts
  <2>2. CASE p = q
    BY <1>1, <1>4, <1>5, <1>8, <2>1, <2>2
  <2>3. CASE p # q
    BY <1>1, <1>5, <1>6, <2>1, <2>3
  <2> QED
    BY <2>2, <2>3
<1>14. CreditedOnlyDelivered'
  BY <1>1, <1>2, <1>4, <1>5, <1>8, CreditSame DEF IInv, NoOffer
<1> QED
  BY <1>9, <1>10, <1>11, <1>12, <1>13, <1>14 DEF IInv

\* approve_proposal: one more slot, and the proposal is approved with the last one.
LEMMA ApproveStep ==
    ASSUME IInv, NEW s \in Sessions, approve_proposal(s)
    PROVE  IInv'
<1> DEFINE r == sess[s]
           q == sess[s].quote
           d0 == Decision(sess[s], "approved")
<1>1. /\ sess[s].op = "approve"
      /\ MayApprove(r.member, q, r.role)
      /\ decisions' = decisions \cup {d0}
      /\ proposals' = IF AllSlotsFilled(q, ApprovedRoles(q) \cup {r.role})
                      THEN [proposals EXCEPT ![q] = "approved"] ELSE proposals
      /\ stamps' = Append(stamps, <<q, "approved">>) \/ stamps' = stamps
      /\ Finish(s)
      /\ UNCHANGED <<quotes, stock, accepts, adjusted, credentials, day>>
  BY DEF approve_proposal
<1>2. q \in Quotes /\ r.member \in Members /\ r.role \in Roles
  BY <1>1 DEF IInv, RequestOK
<1>3. /\ d0 \in DecisionRow /\ d0.quote = q /\ d0.member = r.member
      /\ d0.role = r.role /\ d0.decision = "approved"
  BY <1>2 DEF Decision, DecisionRow
<1>4. /\ proposals[q] = "submitted" /\ r.role \in MemberRoles(r.member)
      /\ \A d \in Approvals(q) : d.member # r.member
  BY <1>1 DEF MayApprove
<1> HIDE DEF d0
<1>5. /\ proposals' \in [Quotes -> ProposalStatus]
      /\ \A p \in Quotes \ {q} : proposals'[p] = proposals[p]
      /\ proposals'[q] \in {"submitted", "approved"}
      /\ proposals'[q] = "approved" => AllSlotsFilled(q, ApprovedRoles(q) \cup {r.role})
  BY <1>1, <1>2, <1>4, Typed DEF IInv, ProposalStatus
<1>6. /\ sess' \in [Sessions -> RequestRecord] /\ sess'[s] = Idle
      /\ \A t \in Sessions \ {s} : sess'[t] = sess[t]
  BY <1>1, FinishFacts DEF IInv
<1>7. TypeOK'
  <2>1. decisions' \subseteq DecisionRow
    BY <1>1, <1>3, Typed DEF IInv
  <2>2. stamps' \in Seq(StampRow)
    <3>1. stamps \in Seq(StampRow) /\ <<q, "approved">> \in StampRow
      BY <1>2, Typed DEF IInv, StampRow
    <3> QED
      BY <1>1, <3>1
  <2> QED
    BY <1>1, <1>5, <1>6, <2>1, <2>2
    DEF IInv, TypeOK, DecisionRow, ProposalStatus, RequestRecord, StampRow
<1>8. RequestOK'
  BY <1>1, <1>6, RequestSame DEF IInv
<1>9. ProposalAgrees'
  BY <1>1, <1>2, <1>4, <1>5 DEF IInv, ProposalAgrees
<1>10. ApprovalInv'
  <2>1. \A d \in decisions' : d.role \in MemberRoles(d.member)
    BY <1>1, <1>3, <1>4 DEF IInv, ApprovalInv
  <2>2. ASSUME NEW p \in Quotes PROVE ApprovalOf(p)'
    <3>0. ApprovalOf(p)
      BY DEF IInv, ApprovalInv
    <3>1. CASE p # q
      <4>1. Approvals(p)' = Approvals(p) /\ ApprovedRoles(p)' = ApprovedRoles(p)
        BY <1>1, <1>3, <3>1 DEF Approvals, ApprovedRoles
      <4>2. AllSlotsFilled(p, ApprovedRoles(p))' <=> AllSlotsFilled(p, ApprovedRoles(p))
        BY <1>1, <4>1 DEF AllSlotsFilled, RoleGroups
      <4> QED
        BY <1>1, <1>3, <1>5, <3>0, <3>1, <4>1, <4>2 DEF ApprovalOf
    <3>2. CASE p = q
      <4>1. /\ Approvals(p)' = Approvals(p) \cup {d0}
            /\ ApprovedRoles(p)' = ApprovedRoles(p) \cup {r.role}
        BY <1>1, <1>3, <3>2 DEF Approvals, ApprovedRoles
      <4>2. AllSlotsFilled(p, ApprovedRoles(p))'
               <=> AllSlotsFilled(p, ApprovedRoles(p) \cup {r.role})
        BY <1>1, <4>1 DEF AllSlotsFilled, RoleGroups
      <4>3. \A d, e \in Approvals(p)' : d.member = e.member => d = e
        BY <1>3, <1>4, <3>0, <3>2, <4>1 DEF ApprovalOf
      <4>4. \A d \in decisions' : d.quote = p => d.decision = "approved"
        BY <1>1, <1>3, <1>4, <3>0, <3>2 DEF ApprovalOf
      <4> QED
        BY <1>5, <3>2, <4>2, <4>3, <4>4 DEF ApprovalOf
    <3> QED
      BY <3>1, <3>2
  <2> QED
    BY <2>1, <2>2 DEF ApprovalInv, MemberRoles
<1>11. StockFollowsReceipts'
  BY <1>1, <1>4, <1>5, StockSame DEF IInv
<1>12. CreditedOnlyDelivered'
  BY <1>1, CreditSame DEF IInv
<1> QED
  BY <1>7, <1>8, <1>9, <1>10, <1>11, <1>12 DEF IInv

\* reject_proposal rejects the quote with its proposal.
LEMMA RejectStep ==
    ASSUME IInv, NEW s \in Sessions, reject_proposal(s)
    PROVE  IInv'
<1> DEFINE r == sess[s]
           q == sess[s].quote
           d0 == Decision(sess[s], "rejected")
<1>1. /\ sess[s].op = "reject"
      /\ MayReject(r.member, q, r.role)
      /\ quotes[q].status = "submitted"
      /\ decisions' = decisions \cup {d0}
      /\ proposals' = [proposals EXCEPT ![q] = "rejected"]
      /\ quotes' = [quotes EXCEPT ![q].status = "rejected"]
      /\ Finish(s)
      /\ UNCHANGED <<stock, accepts, adjusted, credentials, stamps, day>>
  BY DEF reject_proposal
<1>2. q \in Quotes /\ r.member \in Members /\ r.role \in Roles
  BY <1>1 DEF IInv, RequestOK
<1>3. /\ d0 \in DecisionRow /\ d0.quote = q /\ d0.member = r.member
      /\ d0.role = r.role /\ d0.decision = "rejected"
  BY <1>2 DEF Decision, DecisionRow
<1>4. proposals[q] = "submitted" /\ r.role \in MemberRoles(r.member)
  BY <1>1 DEF MayReject
<1> HIDE DEF d0
<1>5. /\ proposals' \in [Quotes -> ProposalStatus]
      /\ \A p \in Quotes \ {q} : proposals'[p] = proposals[p]
      /\ proposals'[q] = "rejected"
  BY <1>1, <1>2, Typed DEF IInv, ProposalStatus
<1>6. /\ quotes' \in [Quotes -> Offer \cup {NoOffer}]
      /\ \A p \in Quotes \ {q} : quotes'[p] = quotes[p]
      /\ quotes'[q].status = "rejected"
      /\ \A p \in Quotes : /\ quotes'[p].tier = quotes[p].tier
                           /\ quotes'[p].amount = quotes[p].amount
                           /\ quotes'[p].receipt = quotes[p].receipt
  BY <1>1, <1>2, StatusUpdate DEF IInv, QuoteStatus
<1>7. /\ sess' \in [Sessions -> RequestRecord] /\ sess'[s] = Idle
      /\ \A t \in Sessions \ {s} : sess'[t] = sess[t]
  BY <1>1, FinishFacts DEF IInv
<1>8. TypeOK'
  <2>1. decisions' \subseteq DecisionRow
    BY <1>1, <1>3, Typed DEF IInv
  <2> QED
    BY <1>1, <1>5, <1>6, <1>7, <2>1
    DEF IInv, TypeOK, DecisionRow, ProposalStatus, RequestRecord, Offer, QuoteStatus
<1>9. RequestOK'
  BY <1>1, <1>6, <1>7, RequestSame DEF IInv
<1>10. ProposalAgrees'
  BY <1>2, <1>5, <1>6 DEF IInv, ProposalAgrees
<1>11. ApprovalInv'
  <2>1. \A d \in decisions' : d.role \in MemberRoles(d.member)
    BY <1>1, <1>3, <1>4 DEF IInv, ApprovalInv
  <2>2. ASSUME NEW p \in Quotes PROVE ApprovalOf(p)'
    <3>0. ApprovalOf(p)
      BY DEF IInv, ApprovalInv
    <3>1. Approvals(p)' = Approvals(p) /\ ApprovedRoles(p)' = ApprovedRoles(p)
      BY <1>1, <1>3 DEF Approvals, ApprovedRoles
    <3>2. AllSlotsFilled(p, ApprovedRoles(p))' <=> AllSlotsFilled(p, ApprovedRoles(p))
      BY <1>6, <3>1 DEF AllSlotsFilled, RoleGroups
    <3>3. CASE p # q
      BY <1>1, <1>3, <1>5, <3>0, <3>1, <3>2, <3>3 DEF ApprovalOf
    <3>4. CASE p = q
      BY <1>5, <3>0, <3>1, <3>4 DEF ApprovalOf
    <3> QED
      BY <3>3, <3>4
  <2> QED
    BY <2>1, <2>2 DEF ApprovalInv, MemberRoles
<1>12. StockFollowsReceipts'
  BY <1>1, <1>4, <1>5, <1>6, StockSame DEF IInv
<1>13. CreditedOnlyDelivered'
  BY <1>1, <1>6, CreditSame DEF IInv
<1> QED
  BY <1>8, <1>9, <1>10, <1>11, <1>12, <1>13 DEF IInv

\* execute_proposal accepts the quote of an approved proposal.
LEMMA ExecuteStep ==
    ASSUME IInv, NEW q \in Quotes, NEW m \in Members, execute_proposal(q, m)
    PROVE  IInv'
<1>1. /\ proposals[q] = "approved"
      /\ quotes' = [quotes EXCEPT ![q].status = "accepted"]
      /\ proposals' = [proposals EXCEPT ![q] = "executed"]
      /\ UNCHANGED <<decisions, stock, accepts, adjusted, credentials, stamps, sess, day>>
  BY DEF execute_proposal
<1>2. quotes[q].status = "submitted"
  BY <1>1 DEF IInv, ProposalAgrees
<1>3. /\ proposals' \in [Quotes -> ProposalStatus]
      /\ \A p \in Quotes \ {q} : proposals'[p] = proposals[p]
      /\ proposals'[q] = "executed"
  BY <1>1, Typed DEF IInv, ProposalStatus
<1>4. /\ quotes' \in [Quotes -> Offer \cup {NoOffer}]
      /\ \A p \in Quotes \ {q} : quotes'[p] = quotes[p]
      /\ quotes'[q].status = "accepted"
      /\ \A p \in Quotes : /\ quotes'[p].tier = quotes[p].tier
                           /\ quotes'[p].amount = quotes[p].amount
                           /\ quotes'[p].receipt = quotes[p].receipt
  BY <1>1, <1>2, StatusUpdate DEF IInv, QuoteStatus
<1>5. TypeOK'
  BY <1>1, <1>3, <1>4 DEF IInv, TypeOK, ProposalStatus, Offer, QuoteStatus
<1>6. RequestOK'
  BY <1>1, <1>2, <1>4, RequestSame DEF IInv
<1>7. ProposalAgrees'
  BY <1>3, <1>4 DEF IInv, ProposalAgrees
<1>8. ApprovalInv'
  BY <1>1, <1>3, <1>4, ApprovalSame DEF IInv
<1>9. StockFollowsReceipts'
  BY <1>1, <1>3, <1>4, StockSame DEF IInv
<1>10. CreditedOnlyDelivered'
  BY <1>1, <1>2, <1>4, CreditSame DEF IInv
<1> QED
  BY <1>5, <1>6, <1>7, <1>8, <1>9, <1>10 DEF IInv

\* A stock movement keeps the types and adds one row.
LEMMA AdjustFacts ==
    ASSUME TypeOK, NEW delta \in Int, NEW q \in Quotes \cup {NoQuote}, AdjustStock(delta, q)
    PROVE  /\ stock' \in Nat
           /\ \E x : /\ adjusted' = adjusted \cup {x}
                     /\ x.delta = delta /\ x.quote = q
           /\ \A t \in adjusted' : t.delta \in Int /\ t.quote \in Quotes \cup {NoQuote}
<1>1. stock \in Nat /\ \A t \in adjusted : t.delta \in Int /\ t.quote \in Quotes \cup {NoQuote}
  BY Typed
<1>2. stock' \in Nat
  BY <1>1 DEF AdjustStock
<1> DEFINE x == [n |-> Cardinality(adjusted), delta |-> delta, quote |-> q]
<1>3. x.delta = delta /\ x.quote = q /\ adjusted' = adjusted \cup {x}
  BY DEF AdjustStock
<1> HIDE DEF x
<1> QED
  BY <1>1, <1>2, <1>3

\* A movement that belongs to no other quote leaves the others' movements alone.
LEMMA StockOthers ==
    ASSUME StockFollowsReceipts, NEW q \in Quotes \cup {NoQuote}, NEW x, x.quote = q,
           adjusted' = adjusted \cup {x}, NEW p \in Quotes \ {q},
           quotes'[p].receipt = quotes[p].receipt, quotes'[p].amount = quotes[p].amount,
           proposals' = proposals
    PROVE  LET mine == {t \in adjusted' : t.quote = p}
           IN  IF quotes'[p].receipt = "accepted"
               THEN /\ Cardinality(mine) = 1
                    /\ \A t \in mine : t.delta = quotes'[p].amount
                    /\ proposals'[p] = "executed"
               ELSE mine = {}
<1>1. LET mine == {t \in adjusted : t.quote = p}
      IN  IF quotes[p].receipt = "accepted"
          THEN /\ Cardinality(mine) = 1
               /\ \A t \in mine : t.delta = quotes[p].amount
               /\ proposals[p] = "executed"
          ELSE mine = {}
  BY DEF StockFollowsReceipts
<1>2. {t \in adjusted' : t.quote = p} = {t \in adjusted : t.quote = p}
  OBVIOUS
<1> QED
  BY <1>1, <1>2

\* record_offer_receipt: a delivery is received once, and booked if it is accepted.
LEMMA ReceiptStep ==
    ASSUME IInv, NEW q \in Quotes, NEW result \in {"accepted", "rejected"},
           record_offer_receipt(q, result)
    PROVE  IInv'
<1>1. /\ quotes[q].status = "accepted"
      /\ proposals[q] = "executed"
      /\ quotes[q].receipt = "pending"
      /\ quotes' = [quotes EXCEPT ![q].receipt = result]
      /\ IF result = "accepted" THEN AdjustStock(quotes[q].amount, q)
                                ELSE UNCHANGED <<stock, adjusted>>
      /\ UNCHANGED <<proposals, decisions, accepts, credentials, stamps, sess, day>>
  BY DEF record_offer_receipt, ReadyForReceipt, IInv, ProposalAgrees
<1>2. /\ quotes' \in [Quotes -> Offer \cup {NoOffer}]
      /\ \A p \in Quotes \ {q} : quotes'[p] = quotes[p]
      /\ quotes'[q].receipt = result
      /\ \A p \in Quotes : /\ quotes'[p].tier = quotes[p].tier
                           /\ quotes'[p].amount = quotes[p].amount
                           /\ quotes'[p].status = quotes[p].status
      /\ quotes[q].amount \in Nat
  BY <1>1, ReceiptUpdate DEF IInv
<1>3. {t \in adjusted : t.quote = q} = {}
  BY <1>1 DEF IInv, StockFollowsReceipts
<1>4. /\ stock' \in Nat
      /\ \A t \in adjusted' : t.delta \in Int /\ t.quote \in Quotes \cup {NoQuote}
      /\ result = "accepted" => \E x : /\ adjusted' = adjusted \cup {x}
                                       /\ x.delta = quotes[q].amount /\ x.quote = q
      /\ result # "accepted" => adjusted' = adjusted
  <2>1. CASE result = "accepted"
    BY <1>1, <1>2, <2>1, AdjustFacts DEF IInv
  <2>2. CASE result # "accepted"
    BY <1>1, <2>2, Typed DEF IInv
  <2> QED
    BY <2>1, <2>2
<1>5. TypeOK'
  BY <1>1, <1>2, <1>4 DEF IInv, TypeOK, Offer, QuoteStatus
<1>6. RequestOK'
  BY <1>1, <1>2, RequestSame DEF IInv
<1>7. ProposalAgrees'
  BY <1>1, <1>2 DEF IInv, ProposalAgrees
<1>8. ApprovalInv'
  BY <1>1, <1>2, ApprovalSame DEF IInv
<1>9. StockFollowsReceipts'
  <2>1. CASE result = "accepted"
    <3>1. PICK x : /\ adjusted' = adjusted \cup {x}
                   /\ x.delta = quotes[q].amount /\ x.quote = q
      BY <1>4, <2>1
    <3>2. {t \in adjusted' : t.quote = q} = {x}
      BY <1>3, <3>1
    <3>3. Cardinality({x}) = 1
      BY FS_Singleton
    <3>4. ASSUME NEW p \in Quotes
          PROVE  LET mine == {t \in adjusted' : t.quote = p}
                 IN  IF quotes'[p].receipt = "accepted"
                     THEN /\ Cardinality(mine) = 1
                          /\ \A t \in mine : t.delta = quotes'[p].amount
                          /\ proposals'[p] = "executed"
                     ELSE mine = {}
      <4>1. CASE p = q
        <5>1. /\ {t \in adjusted' : t.quote = p} = {x}
              /\ x.delta = quotes'[p].amount /\ proposals'[p] = "executed"
              /\ quotes'[p].receipt = "accepted"
          BY <1>1, <1>2, <2>1, <3>1, <3>2, <4>1
        <5> QED
          BY <3>3, <5>1
      <4>2. CASE p # q
        BY <1>1, <1>2, <3>1, <4>2, StockOthers DEF IInv
      <4> QED
        BY <4>1, <4>2
    <3> QED
      BY <3>4 DEF StockFollowsReceipts
  <2>2. CASE result # "accepted"
    <3>1. ASSUME NEW p \in Quotes
          PROVE  LET mine == {t \in adjusted' : t.quote = p}
                 IN  IF quotes'[p].receipt = "accepted"
                     THEN /\ Cardinality(mine) = 1
                          /\ \A t \in mine : t.delta = quotes'[p].amount
                          /\ proposals'[p] = "executed"
                     ELSE mine = {}
      <4>1. LET mine == {t \in adjusted : t.quote = p}
            IN  IF quotes[p].receipt = "accepted"
                THEN /\ Cardinality(mine) = 1
                     /\ \A t \in mine : t.delta = quotes[p].amount
                     /\ proposals[p] = "executed"
                ELSE mine = {}
        BY DEF IInv, StockFollowsReceipts
      <4>2. CASE p = q
        BY <1>2, <1>3, <1>4, <2>2, <4>2
      <4>3. CASE p # q
        BY <1>1, <1>2, <1>4, <2>2, <4>1, <4>3
      <4> QED
        BY <4>2, <4>3
    <3> QED
      BY <3>1 DEF StockFollowsReceipts
  <2> QED
    BY <2>1, <2>2
<1>10. CreditedOnlyDelivered'
  BY <1>1, <1>2, CreditSame DEF IInv
<1> QED
  BY <1>5, <1>6, <1>7, <1>8, <1>9, <1>10 DEF IInv

\* mark_offer_paid_or_donated: the quote is fulfilled, the supplier credited.
LEMMA PayStep ==
    ASSUME IInv, NEW q \in Quotes, mark_offer_paid_or_donated(q)
    PROVE  IInv'
<1>1. /\ quotes[q].status = "accepted" /\ quotes[q].receipt = "accepted"
      /\ quotes' = [quotes EXCEPT ![q].status = "fulfilled"]
      /\ credentials' = credentials \cup {q}
      /\ UNCHANGED <<proposals, decisions, stock, accepts, adjusted, stamps, sess, day>>
  BY DEF mark_offer_paid_or_donated
<1>2. /\ quotes' \in [Quotes -> Offer \cup {NoOffer}]
      /\ \A p \in Quotes \ {q} : quotes'[p] = quotes[p]
      /\ quotes'[q].status = "fulfilled"
      /\ \A p \in Quotes : /\ quotes'[p].tier = quotes[p].tier
                           /\ quotes'[p].amount = quotes[p].amount
                           /\ quotes'[p].receipt = quotes[p].receipt
  BY <1>1, StatusUpdate DEF IInv, QuoteStatus
<1>3. TypeOK'
  BY <1>1, <1>2 DEF IInv, TypeOK, Offer, QuoteStatus
<1>4. RequestOK'
  BY <1>1, <1>2, RequestSame DEF IInv
<1>5. ProposalAgrees'
  BY <1>1, <1>2 DEF IInv, ProposalAgrees
<1>6. ApprovalInv'
  BY <1>1, <1>2, ApprovalSame DEF IInv
<1>7. StockFollowsReceipts'
  BY <1>1, <1>2, StockSame DEF IInv
<1>8. CreditedOnlyDelivered'
  BY <1>1, <1>2 DEF IInv, CreditedOnlyDelivered
<1> QED
  BY <1>3, <1>4, <1>5, <1>6, <1>7, <1>8 DEF IInv

\* The inventory pages move the stock, and no delivery's movement.
LEMMA InventoryStep ==
    ASSUME IInv, ManualAdjustment \/ \E s \in Sessions : CommitEdit(s)
    PROVE  IInv'
<1>1. CASE ManualAdjustment
  <2>1. PICK delta \in Deltas : AdjustStock(delta, NoQuote)
    BY <1>1 DEF ManualAdjustment
  <2>2. UNCHANGED <<quotes, proposals, decisions, accepts, credentials, stamps, sess, day>>
    BY <1>1 DEF ManualAdjustment
  <2>3. /\ stock' \in Nat
        /\ \A t \in adjusted' : t.delta \in Int /\ t.quote \in Quotes \cup {NoQuote}
        /\ \E x : adjusted' = adjusted \cup {x} /\ x.quote = NoQuote
    BY <2>1, AdjustFacts, ProcurementAssumption DEF IInv
  <2>4. TypeOK' /\ RequestOK'
    BY <2>2, <2>3, RequestSame DEF IInv, TypeOK
  <2>5. ProposalAgrees' /\ ApprovalInv' /\ CreditedOnlyDelivered'
    BY <2>2, ApprovalSame, CreditSame DEF IInv, ProposalAgrees
  <2>6. StockFollowsReceipts'
    <3>1. PICK x : adjusted' = adjusted \cup {x} /\ x.quote = NoQuote
      BY <2>3
    <3>2. ASSUME NEW p \in Quotes
          PROVE  LET mine == {t \in adjusted' : t.quote = p}
                 IN  IF quotes'[p].receipt = "accepted"
                     THEN /\ Cardinality(mine) = 1
                          /\ \A t \in mine : t.delta = quotes'[p].amount
                          /\ proposals'[p] = "executed"
                     ELSE mine = {}
      <4>1. /\ p \in Quotes \ {NoQuote} /\ NoQuote \in Quotes \cup {NoQuote}
            /\ quotes'[p] = quotes[p] /\ proposals' = proposals
        BY <2>2, ProcurementAssumption
      <4>2. StockFollowsReceipts
        BY DEF IInv
      <4> QED
        BY <3>1, <4>1, <4>2, StockOthers
    <3> QED
      BY <3>2 DEF StockFollowsReceipts
  <2> QED
    BY <2>4, <2>5, <2>6 DEF IInv
<1>2. ASSUME NEW s \in Sessions, CommitEdit(s)
      PROVE  IInv'
  <2>1. /\ stock' = sess[s].stock /\ accepts' \in BOOLEAN /\ Finish(s)
        /\ UNCHANGED <<quotes, proposals, decisions, adjusted, credentials, stamps, day>>
    BY <1>2 DEF CommitEdit
  <2>2. /\ sess' \in [Sessions -> RequestRecord] /\ sess'[s] = Idle
        /\ \A t \in Sessions \ {s} : sess'[t] = sess[t]
    BY <2>1, FinishFacts DEF IInv
  <2>3. stock' \in Nat
    BY <2>1, Typed DEF IInv, RequestRecord
  <2>4. TypeOK'
    BY <2>1, <2>2, <2>3 DEF IInv, TypeOK, RequestRecord
  <2>5. RequestOK'
    BY <2>1, <2>2, RequestSame DEF IInv
  <2>6. ProposalAgrees' /\ ApprovalInv' /\ StockFollowsReceipts' /\ CreditedOnlyDelivered'
    BY <2>1, ApprovalSame, StockSame, CreditSame DEF IInv, ProposalAgrees
  <2> QED
    BY <2>4, <2>5, <2>6 DEF IInv
<1> QED
  BY <1>1, <1>2

\* Every step keeps the invariant: one lemma per action.
LEMMA NextStep == ASSUME IInv, [Next]_vars PROVE IInv'
BY BeginSubmitStep, BeginDecisionStep, QuietStep, SubmitStep, ApproveStep, RejectStep,
   ExecuteStep, ReceiptStep, PayStep, InventoryStep
DEF Next, SessionStep, QuoteStep

-----------------------------------------------------------------------------
(* Theorems. *)

\* The inductive invariant holds of every behaviour.
THEOREM SpecIInv == Spec => []IInv
<1>1. Init => IInv
  BY InitIInv
<1>2. IInv /\ [Next]_vars => IInv'
  BY NextStep
<1> QED
  BY <1>1, <1>2, PTL DEF Spec

\* Every variable keeps its type; in particular the stock never becomes negative,
\* although the edit page writes back a stock it read earlier.
THEOREM TypeCorrect == Spec => []TypeOK
<1>1. IInv => TypeOK
  BY DEF IInv
<1> QED
  BY <1>1, SpecIInv, PTL

\* A quote and its proposal tell the same story, for any number of quotes and
\* requests.
THEOREM QuoteFollowsProposal == Spec => []ProposalAgrees
<1>1. IInv => ProposalAgrees
  BY DEF IInv
<1> QED
  BY <1>1, SpecIInv, PTL

\* approve_proposal, "Same person cannot fill multiple roles in this proposal":
\* nothing is bought without every slot of its tier, each by another member.
THEOREM SlotsFilled == Spec => []BoughtWithAllSlots
<1>1. IInv => BoughtWithAllSlots
  BY DEF IInv, ApprovalInv, ApprovalOf, BoughtWithAllSlots
<1> QED
  BY <1>1, SpecIInv, PTL

\* record_offer_receipt books a delivery once, in full, and after its acceptance.
THEOREM DeliveriesBooked == Spec => []StockFollowsReceipts
<1>1. IInv => StockFollowsReceipts
  BY DEF IInv
<1> QED
  BY <1>1, SpecIInv, PTL

\* mark_offer_paid_or_donated pays and credits what was received, nothing else.
THEOREM DeliveriesCredited == Spec => []CreditedOnlyDelivered
<1>1. IInv => CreditedOnlyDelivered
  BY DEF IInv
<1> QED
  BY <1>1, SpecIInv, PTL

-----------------------------------------------------------------------------
(* The work lists. *)

\* The SQL of _actionable_proposal_queryset and the Python of
\* member_available_approval_roles say the same of every proposal, so that the list
\* holds the newest ones the page offers, and a quote asks for one thing at a time.
THEOREM ListsMatchPages == Spec => [](ListMatchesPage /\ OneItemPerQuote)
<1>1. ASSUME IInv, NEW m \in Members, NEW q \in Quotes
      PROVE  "approval" \in Pending(m, q) <=> Offered(m, q)
  <2> SUFFICES "approval" \in Pending(m, q)
                  <=> proposals[q] = "submitted" /\ AvailableRoles(m, q) # {}
    BY DEF Offered
  <2> DEFINE already == {d.role : d \in {e \in decisions : e.quote = q /\ e.member = m}}
  <2>1. quotes[q].tier \in {"single", "standard", "major"}
    <3>1. quotes[q] \in Offer \/ quotes[q] = NoOffer
      BY <1>1, Typed DEF IInv
    <3>2. CASE quotes[q] \in Offer
      BY <3>2, ProcurementAssumption DEF Offer
    <3>3. CASE quotes[q] = NoOffer
      BY <3>3 DEF NoOffer
    <3> QED
      BY <3>1, <3>2, <3>3
  <2>2. \A role : /\ role \in ApprovedRoles(q) <=> ApprovedIn(q, role)
                  /\ role \in already <=> ActedIn(m, q, role)
    BY DEF ApprovedRoles, Approvals, ApprovedIn, ActedIn
  <2>3. "approval" \in Pending(m, q) <=> Actionable(m, q)
    BY DEF Pending, Actionable
  <2>4. AvailableRoles(m, q) # {} <=>
          \E g \in RoleGroups(quotes[q].tier), role \in MemberRoles(m) :
             g \cap ApprovedRoles(q) = {} /\ role \in g /\ role \notin already
    BY DEF AvailableRoles
  <2> HIDE DEF already
  <2>5. CASE quotes[q].tier = "single"
    <3>1. RoleGroups(quotes[q].tier) = {{"governance", "finance"}}
      BY <2>5 DEF RoleGroups
    <3>2. Actionable(m, q) <=>
            /\ proposals[q] = "submitted"
            /\ ~ApprovedIn(q, "governance") /\ ~ApprovedIn(q, "finance")
            /\ \/ m \in Governors /\ ~ActedIn(m, q, "governance")
               \/ m \in Finance /\ ~ActedIn(m, q, "finance")
      BY <2>5 DEF Actionable
    <3> QED
      BY <2>2, <2>3, <2>4, <3>1, <3>2 DEF MemberRoles
  <2>6. CASE quotes[q].tier = "standard"
    <3>1. RoleGroups(quotes[q].tier) = {{"governance"}, {"finance"}}
      BY <2>6 DEF RoleGroups
    <3>2. Actionable(m, q) <=>
            /\ proposals[q] = "submitted"
            /\ \/ m \in Governors /\ OpenSlot(m, q, "governance")
               \/ m \in Finance /\ OpenSlot(m, q, "finance")
      BY <2>6 DEF Actionable
    <3> QED
      BY <2>2, <2>3, <2>4, <3>1, <3>2 DEF MemberRoles, OpenSlot
  <2>7. CASE quotes[q].tier = "major"
    <3>1. RoleGroups(quotes[q].tier) = {{"governance"}, {"finance"}, {"second_governance"}}
      BY <2>7 DEF RoleGroups
    <3>2. Actionable(m, q) <=>
            /\ proposals[q] = "submitted"
            /\ \/ m \in Governors /\ OpenSlot(m, q, "governance")
               \/ m \in Finance /\ OpenSlot(m, q, "finance")
               \/ m \in Governors /\ OpenSlot(m, q, "second_governance")
      BY <2>7 DEF Actionable
    <3> QED
      BY <2>2, <2>3, <2>4, <3>1, <3>2 DEF MemberRoles, OpenSlot
  <2> QED
    BY <2>1, <2>5, <2>6, <2>7
<1>2. IInv => ListMatchesPage
  <2> SUFFICES ASSUME IInv, NEW m \in Members, NEW q \in Quotes
               PROVE  /\ "approval" \in Pending(m, q) <=> Offered(m, q)
                      /\ "approval" \in Items(m, q) <=>
                            /\ Offered(m, q)
                            /\ Cardinality({p \in Quotes : Offered(m, p)
                                                /\ Newer(p, q, "submitted")}) < DisplayLimit
    BY DEF ListMatchesPage
  <2>1. \A p \in Quotes : "approval" \in Pending(m, p) <=> Offered(m, p)
    BY <1>1
  <2>2. {p \in Quotes : "approval" \in Pending(m, p) /\ Newer(p, q, "submitted")}
           = {p \in Quotes : Offered(m, p) /\ Newer(p, q, "submitted")}
    BY <2>1
  <2>3. "approval" \in Items(m, q) <=>
          "approval" \in Pending(m, q) /\ HasPlace(m, q, "approval")
    BY DEF Items
  <2>4. HasPlace(m, q, "approval") <=>
          Cardinality({p \in Quotes : "approval" \in Pending(m, p)
                                         /\ Newer(p, q, "submitted")}) < DisplayLimit
    BY DEF HasPlace, Stamp
  <2> QED
    BY <2>1, <2>2, <2>3, <2>4
<1>3. IInv => OneItemPerQuote
  <2> SUFFICES ASSUME IInv, NEW q \in Quotes
               PROVE  Cardinality(UNION {Pending(m, q) : m \in Members}) <= 1
    BY DEF OneItemPerQuote
  <2> DEFINE I == UNION {Pending(m, q) : m \in Members}
  <2>1. \A i \in I : /\ i = "approval" => proposals[q] = "submitted"
                     /\ i = "execute" => proposals[q] = "approved"
                     /\ i = "receipt" => proposals[q] = "executed" /\ quotes[q].receipt = "pending"
                     /\ i = "payment" => proposals[q] = "executed" /\ quotes[q].receipt = "accepted"
                     /\ i \in {"approval", "execute", "receipt", "payment"}
    BY DEF Pending, Actionable, Executable, Receivable, Payable, IInv, ProposalAgrees
  <2>2. \A i, j \in I : i = j
    BY <2>1
  <2> HIDE DEF I
  <2>3. CASE I = {}
    BY <2>3, FS_EmptySet DEF I
  <2>4. CASE I # {}
    <3>1. PICK i \in I : TRUE
      BY <2>4
    <3>2. I = {i}
      BY <2>2, <3>1
    <3>3. Cardinality({i}) = 1
      BY FS_Singleton
    <3> QED
      BY <3>2, <3>3 DEF I
  <2> QED
    BY <2>3, <2>4
<1> QED
  BY <1>2, <1>3, SpecIInv, PTL

=============================================================================

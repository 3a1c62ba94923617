---------------------------- MODULE MemberCredits ----------------------------
(***************************************************************************)
(* What members and administrators do with credits that were already paid  *)
(* out: transfers, passive deductions, redemption orders and reversals     *)
(* (core/credit_services.py), called concurrently.                         *)
(*                                                                         *)
(* A service call is a database transaction run by a session.  It looks    *)
(* its idempotency key up without a lock, then waits for one row lock      *)
(* (select_for_update on the spender's account, the order or the original  *)
(* row), checks under that lock, and posts and commits.  Other sessions'   *)
(* commits may fall between those steps.                                   *)
(*                                                                         *)
(* The shared locks an insert takes on the rows its foreign keys name, and *)
(* the lock on the end of the event chain, are left out: they only delay   *)
(* or refuse (Rollback) a commit the module allows.                        *)
(***************************************************************************)
EXTENDS CreditLedger, FiniteSetsExt

CONSTANTS
    Sessions,      \* concurrent requests
    Members,       \* members, also the names of their credit accounts
    Keys,          \* idempotency keys clients choose
    FreshIds,      \* uuid4 order ids, for orders created without a key
    Amounts,       \* credit amounts requests ask for
    Merchants,     \* active cash-settlement merchants with a settlement_rate
    NoMerchant,
    Opening        \* balances before the modelled history starts

SystemAccounts == {"frozen", "burn"}
OrderIds == Keys \cup FreshIds      \* a keyed order's id is a hash of its key

ASSUME MemberCreditsAssumption ==
    /\ Accounts = Members \cup SystemAccounts
    /\ Members \cap SystemAccounts = {}
    /\ NoKey \notin Keys
    /\ NoOrder \notin OrderIds
    /\ Amounts \subseteq Nat \ {0}
    /\ Opening \in [Accounts -> Nat]
    /\ NoMerchant \notin Merchants
    \* The server draws a fresh id (uuid4) when it creates the order: no key names
    \* it before, nor is it the id (uuid5) of a key.
    /\ \A o \in FreshIds : <<"freeze", o>> \notin Keys
    /\ Keys \cap FreshIds = {}

VARIABLES
    orders,        \* order_id -> RedemptionOrder
    settlements,   \* orders with a MerchantSettlementRecord
    sess,          \* session -> the request it serves
    forced         \* history: credits a member lost to deductions and reversals

vars == <<rows, balance, orders, settlements, sess, forced>>

-----------------------------------------------------------------------------
(* Requests and sessions. *)

Idle == [pc |-> "idle", op |-> "none", who |-> NoAccount, peer |-> NoAccount,
         amount |-> 0, key |-> NoKey, ref |-> 0]

Request(op, who, peer, amount, key, ref) ==
    [pc |-> "lock", op |-> op, who |-> who, peer |-> peer,
     amount |-> amount, key |-> key, ref |-> ref]

\* The row a request locks with select_for_update.
Resource(r) ==
    IF r.op \in {"transfer", "redeem"} THEN <<"account", r.who>>
    ELSE IF r.op = "reverse" THEN <<"row", r.ref>>
    ELSE <<"order", r.ref>>

\* A plausible bug: the service reads without select_for_update.
LockNotTaken(r) == TRUE

\* No transaction that is still open holds the row lock r is waiting for.
LockFree(r) ==
    \A t \in Sessions : sess[t].pc = "post" => Resource(sess[t]) # Resource(r)

Begin(s, r) ==
    /\ sess[s] = Idle
    /\ sess' = [sess EXCEPT ![s] = r]
    /\ UNCHANGED <<rows, balance, orders, settlements, forced>>

Finish(s) == sess' = [sess EXCEPT ![s] = Idle]

-----------------------------------------------------------------------------
(* Redemption orders. *)

Absent == [status |-> "absent", member |-> NoAccount, amount |-> 0,
           merchant |-> NoMerchant]

Open == {"pending", "disputed"}

ConsumeRow(o, m, a, key) ==
    [type |-> "consume", amount |-> a, source |-> m, target |-> "frozen",
     task |-> NoTask, order |-> o, reverses |-> 0,
     key |-> IF key = NoKey THEN <<"freeze", o>> ELSE key]

UnfreezeRow(o, key) ==
    [type |-> "unfreeze", amount |-> orders[o].amount, source |-> "frozen",
     target |-> orders[o].member, task |-> NoTask, order |-> o, reverses |-> 0,
     key |-> IF key = NoKey THEN <<"unfreeze", o>> ELSE key]

BurnRow(o, key) ==
    [type |-> "burn", amount |-> orders[o].amount, source |-> "frozen",
     target |-> "burn", task |-> NoTask, order |-> o, reverses |-> 0,
     key |-> IF key = NoKey THEN <<"burn", o>> ELSE key]

-----------------------------------------------------------------------------
(* The checks the services make once they hold their lock. *)

\* balance > 0 and balance - amount >= 0, in transfer_member_credits.
MayTransfer(r) == balance[r.who] > 0 /\ balance[r.who] - r.amount >= 0

\* The same test in create_redemption_order.
MayRedeem(r) == balance[r.who] > 0 /\ balance[r.who] >= r.amount

\* Plausible bugs: a terminal state is missing from the refusals.
CancelIgnoresFulfilled(r) == orders[r.ref].status # "cancelled"
FulfillIgnoresCancelled(r) == orders[r.ref].status # "fulfilled"

\* cancel_redemption_order and fulfill_redemption_order return an order that is
\* already in the state they lead to and refuse every other closed one.
MayCancel(r) == orders[r.ref].status \in Open
MayFulfill(r) == orders[r.ref].status \in Open

\* A disputed order is returned as it is; closed ones are refused.
MayReport(r) == orders[r.ref].status = "pending"

\* A plausible bug: the existing reversal is not looked for.
ReverseUnchecked(r) == TRUE

\* Only one posted reversal may exist for an original.
MayReverse(r) == \A j \in DOMAIN rows : rows[j].reverses # r.ref

Admitted(r) ==
    \/ r.op = "transfer" /\ MayTransfer(r)
    \/ r.op = "redeem"   /\ MayRedeem(r)
    \/ r.op = "cancel"   /\ MayCancel(r)
    \/ r.op = "fulfill"  /\ MayFulfill(r)
    \/ r.op = "report"   /\ MayReport(r)
    \/ r.op = "reverse"  /\ MayReverse(r)

-----------------------------------------------------------------------------
(* Requests arrive.  A keyed request whose row is already there is answered  *)
(* from that row (or refused) and changes nothing.  Spending, and reversing  *)
(* without a key, are not asked for once the ledger holds MaxRows rows, the  *)
(* bound of the model.                                                       *)

RequestTransfer(s) ==
    \E m, n \in Members, a \in Amounts, k \in Keys \cup {NoKey} :
        /\ m # n
        /\ ~HasRow("transfer", k)
        /\ Len(rows) < MaxRows
        /\ Begin(s, Request("transfer", m, n, a, k, 0))

RequestRedemption(s) ==
    \E m \in Members, a \in Amounts, k \in Keys \cup {NoKey},
       c \in Merchants \cup {NoMerchant} :
        /\ ~HasRow("consume", k)
        /\ Len(rows) < MaxRows
        /\ Begin(s, Request("redeem", m, c, a, k, 0))

\* A plausible bug: the order is not looked up before the service is called.
RequestOnAnyOrder(s) ==
    \E o \in OrderIds, op \in {"cancel", "fulfill", "report"},
       k \in Keys \cup {NoKey} :
        /\ op = "report" => k = NoKey
        /\ Begin(s, Request(op, NoAccount, NoAccount, 0, k, o))

\* Cancelling and fulfilling take a key; nothing is looked up by it beforehand.
RequestOnOrder(s) ==
    \E o \in OrderIds, op \in {"cancel", "fulfill", "report"},
       k \in Keys \cup {NoKey} :
        /\ orders[o] # Absent
        /\ op = "report" => k = NoKey
        /\ Begin(s, Request(op, NoAccount, NoAccount, 0, k, o))

RequestReversal(s) ==
    \E i \in DOMAIN rows, k \in Keys \cup {NoKey} :
        /\ k = NoKey => Len(rows) < MaxRows
        /\ Begin(s, Request("reverse", NoAccount, NoAccount, 0, k, i))

-----------------------------------------------------------------------------
(* The lock is granted, and the request is checked under it. *)

Acquire(s) ==
    /\ sess[s].pc = "lock"
    /\ LockFree(sess[s])
    /\ Admitted(sess[s])
    /\ sess' = [sess EXCEPT ![s].pc = "post"]
    /\ UNCHANGED <<rows, balance, orders, settlements, forced>>

Decline(s) ==
    /\ sess[s].pc = "lock"
    /\ LockFree(sess[s])
    /\ ~Admitted(sess[s])
    /\ Finish(s)
    /\ UNCHANGED <<rows, balance, orders, settlements, forced>>

-----------------------------------------------------------------------------
(* The transaction posts and commits. *)

Posting(s, op) == sess[s].pc = "post" /\ sess[s].op = op

CommitTransfer(s) ==
    LET r == sess[s]
    IN  /\ Posting(s, "transfer")
        /\ Post([type |-> "transfer", amount |-> r.amount, source |-> r.who,
                 target |-> r.peer, task |-> NoTask, order |-> NoOrder,
                 reverses |-> 0, key |-> r.key])
        /\ Finish(s)
        /\ UNCHANGED <<orders, settlements, forced>>

\* The order's id is fixed by the key, or fresh.  get_or_create may find the
\* order of a concurrent duplicate, which must belong to the same member.
CommitRedemption(s) ==
    LET r == sess[s]
    IN  /\ Posting(s, "redeem")
        /\ \E o \in (IF r.key = NoKey THEN FreshIds ELSE {r.key}) :
              /\ r.key = NoKey => orders[o] = Absent
              /\ orders[o] # Absent => orders[o].member = r.who
              /\ Post(ConsumeRow(o, r.who, r.amount, r.key))
              /\ orders' = IF orders[o] # Absent THEN orders
                           ELSE [orders EXCEPT ![o] =
                                   [status |-> "pending", member |-> r.who,
                                    amount |-> r.amount, merchant |-> r.peer]]
        /\ Finish(s)
        /\ UNCHANGED <<settlements, forced>>

\* The row may be one that was posted for another order under the same key: the
\* order is closed all the same.
CommitCancel(s) ==
    LET o == sess[s].ref
    IN  /\ Posting(s, "cancel")
        /\ Post(UnfreezeRow(o, sess[s].key))
        /\ orders' = [orders EXCEPT ![o].status = "cancelled"]
        /\ Finish(s)
        /\ UNCHANGED <<settlements, forced>>

\* Burning, the status and the merchant's settlement record are one commit.
CommitFulfill(s) ==
    LET o == sess[s].ref
    IN  /\ Posting(s, "fulfill")
        /\ Post(BurnRow(o, sess[s].key))
        /\ orders' = [orders EXCEPT ![o].status = "fulfilled"]
        /\ settlements' = IF orders[o].merchant \in Merchants
                          THEN settlements \cup {o} ELSE settlements
        /\ Finish(s)
        /\ UNCHANGED forced

CommitReport(s) ==
    /\ Posting(s, "report")
    /\ orders' = [orders EXCEPT ![sess[s].ref].status = "disputed"]
    /\ Finish(s)
    /\ UNCHANGED <<rows, balance, settlements, forced>>

ReversalRow(i, key) ==
    [type |-> "reversal", amount |-> rows[i].amount, source |-> rows[i].target,
     target |-> rows[i].source, task |-> NoTask, order |-> NoOrder,
     reverses |-> i, key |-> key]

\* A member loses `a` credits without having spent them.
ForcedLoss(acct, a) ==
    forced' = IF acct \in Members THEN [forced EXCEPT ![acct] = @ + a] ELSE forced

\* post_credit_transaction, then reverses_transaction is set on the row it
\* returned: a row found through the key is pointed at the new original.
CommitReversal(s) ==
    LET r == sess[s]
        row == ReversalRow(r.ref, r.key)
    IN  /\ Posting(s, "reverse")
        /\ \/ /\ IsNew(row)
              /\ Insert(row)
              /\ ForcedLoss(row.source, row.amount)
           \/ /\ IsReplay(row)
              /\ rows' = [i \in DOMAIN rows |->
                            IF i \in RowsWithKey(r.key)
                            THEN [rows[i] EXCEPT !.reverses = r.ref] ELSE rows[i]]
              /\ UNCHANGED <<balance, forced>>
        /\ Finish(s)
        /\ UNCHANGED <<orders, settlements>>

\* append_event fails, the key belongs to another movement, the order belongs
\* to another member, or the process dies: nothing of the transaction remains.
Rollback(s) ==
    /\ sess[s].pc = "post"
    /\ Finish(s)
    /\ UNCHANGED <<rows, balance, orders, settlements, forced>>

\* passive_deduct_member_credits reads no balance and takes no lock.
PassiveDeduct ==
    \E m \in Members, a \in Amounts, k \in Keys \cup {NoKey} :
        LET row == [type |-> "correction", amount |-> a, source |-> m,
                    target |-> "burn", task |-> NoTask, order |-> NoOrder,
                    reverses |-> 0, key |-> k]
        IN  /\ IsNew(row)
            /\ Insert(row)
            /\ ForcedLoss(m, a)
            /\ UNCHANGED <<orders, settlements, sess>>

-----------------------------------------------------------------------------
Init ==
    /\ rows = <<>>
    /\ balance = Opening
    /\ orders = [o \in OrderIds |-> Absent]
    /\ settlements = {}
    /\ sess = [s \in Sessions |-> Idle]
    /\ forced = [m \in Members |-> 0]

SessionStep(s) ==
    \/ RequestTransfer(s) \/ RequestRedemption(s) \/ RequestOnOrder(s)
    \/ RequestReversal(s)
    \/ Acquire(s) \/ Decline(s)
    \/ CommitTransfer(s) \/ CommitRedemption(s) \/ CommitCancel(s)
    \/ CommitFulfill(s) \/ CommitReport(s) \/ CommitReversal(s)
    \/ Rollback(s)

Next == PassiveDeduct \/ \E s \in Sessions : SessionStep(s)

Spec == Init /\ [][Next]_vars

-----------------------------------------------------------------------------
(* Properties. *)

RowKeys == Keys \cup {NoKey} \cup ({"freeze", "unfreeze", "burn"} \X OrderIds)

Row == [type : TransactionTypes, amount : Nat \ {0}, source : Accounts,
        target : Accounts, task : {NoTask}, order : OrderIds \cup {NoOrder},
        reverses : Nat, key : RowKeys]

Order == [status : {"pending", "disputed", "cancelled", "fulfilled"},
          member : Members, amount : Nat \ {0},
          merchant : Merchants \cup {NoMerchant}]

SpendRequest ==
    [pc : {"lock", "post"}, op : {"transfer"}, who : Members, peer : Members,
     amount : Nat \ {0}, key : Keys \cup {NoKey}, ref : {0}]
RedeemRequest ==
    [pc : {"lock", "post"}, op : {"redeem"}, who : Members,
     peer : Merchants \cup {NoMerchant}, amount : Nat \ {0},
     key : Keys \cup {NoKey}, ref : {0}]
OrderRequest ==
    [pc : {"lock", "post"}, op : {"cancel", "fulfill", "report"},
     who : {NoAccount}, peer : {NoAccount}, amount : {0},
     key : Keys \cup {NoKey}, ref : OrderIds]
ReverseRequest ==
    [pc : {"lock", "post"}, op : {"reverse"}, who : {NoAccount},
     peer : {NoAccount}, amount : {0}, key : Keys \cup {NoKey},
     ref : Nat \ {0}]

\* Every variable has its type; a reversal request names a posted row, an order
\* request an existing order.
TypeOK ==
    /\ rows \in Seq(Row)
    /\ balance \in [Accounts -> Int]
    /\ orders \in [OrderIds -> Order \cup {Absent}]
    /\ settlements \subseteq OrderIds
    /\ sess \in [Sessions -> {Idle} \cup SpendRequest \cup RedeemRequest
                              \cup OrderRequest \cup ReverseRequest]
    /\ forced \in [Members -> Nat]
    /\ \A s \in Sessions :
          /\ sess[s].op = "reverse" => sess[s].ref \in DOMAIN rows
          /\ sess[s].op \in {"cancel", "fulfill", "report"}
                => orders[sess[s].ref] # Absent

\* "concurrent transfers cannot overdraw" (transfer_member_credits, and the
\* over-freeze comment in create_redemption_order): however requests interleave,
\* a member is below zero by no more than deductions and reversals took.
ActiveSpendCovered == \A m \in Members : balance[m] + forced[m] >= 0

OrderRowTypes == {"consume", "unfreeze", "burn"}

\* A row of the type was posted for the order.
HasOrderRow(o, type) == \E i \in DOMAIN rows : rows[i].type = type /\ rows[i].order = o

\* A row of the type that was posted for another order under a client's key, and
\* that post_credit_transaction takes for the one this order asks for.
ReplayedFor(o, type) ==
    \E i \in DOMAIN rows :
        /\ rows[i].type = type /\ rows[i].order # o /\ rows[i].key \in Keys
        /\ rows[i].amount = orders[o].amount
        /\ type = "unfreeze" => rows[i].target = orders[o].member

\* The rows of an order say what its status says, and a settlement record is kept
\* of exactly the orders fulfilled with a merchant.  A closed order has no closing
\* row of its own only where its request reused another order's key.
SettledAsStatus(o) ==
    /\ orders[o] # Absent <=> HasOrderRow(o, "consume")
    /\ HasOrderRow(o, "unfreeze") => orders[o].status = "cancelled"
    /\ HasOrderRow(o, "burn") => orders[o].status = "fulfilled"
    /\ orders[o].status = "cancelled" =>
          HasOrderRow(o, "unfreeze") \/ ReplayedFor(o, "unfreeze")
    /\ orders[o].status = "fulfilled" =>
          HasOrderRow(o, "burn") \/ ReplayedFor(o, "burn")
    /\ o \in settlements <=> /\ orders[o].status = "fulfilled"
                             /\ orders[o].merchant \in Merchants

\* No order has two rows of one type.
OneRowEach ==
    \A i, j \in DOMAIN rows :
        /\ rows[i].type \in OrderRowTypes
        /\ rows[i].type = rows[j].type /\ rows[i].order = rows[j].order
        => i = j

\* An order's credits are frozen once and leave the frozen account at most once:
\* back to the member of a cancelled order, burnt for a fulfilled one.
OrderSettledOnce == OneRowEach /\ \A o \in OrderIds : SettledAsStatus(o)

\* What a row adds to (or takes from) the account.
Moved(acct, row) ==
    IF row.target = acct THEN row.amount
    ELSE IF row.source = acct THEN -row.amount
    ELSE 0

Reversals == {i \in DOMAIN rows : rows[i].type = "reversal"}
ReversalNet(acct) ==
    SumFunctionOnSet([i \in DOMAIN rows |-> Moved(acct, rows[i])], Reversals)

OpenOrders == {o \in OrderIds : orders[o].status \in Open}

\* Orders closed by another order's row: nothing took their credits out.
Stranded ==
    {o \in OrderIds : /\ orders[o].status \in {"cancelled", "fulfilled"}
                      /\ ~HasOrderRow(o, "unfreeze") /\ ~HasOrderRow(o, "burn")}

HeldOrders == OpenOrders \cup Stranded
HeldTotal == SumFunctionOnSet([o \in OrderIds |-> orders[o].amount], HeldOrders)

\* The frozen account holds exactly what the open (pending or disputed) orders
\* froze, what orders closed under a reused key left behind, and what reversals
\* moved: no race, rollback or other retry leaks frozen credits.
FrozenBacksOrders ==
    balance["frozen"] = Opening["frozen"] + ReversalNet("frozen") + HeldTotal

\* "Only one posted reversal may exist for a given original"
\* (reverse_credit_transaction), also when two reversals race.
ReversedOnce ==
    \A i, j \in DOMAIN rows :
        rows[i].reverses # 0 /\ rows[i].reverses = rows[j].reverses => i = j

\* The guards "a reversed order cannot be cancelled / fulfilled" in
\* cancel_redemption_order and fulfill_redemption_order: once the row that froze
\* an order's credits has been reversed, the order is not settled as well.
ReversedOrderStaysOpen ==
    [][\A o \in OrderIds :
         orders[o].status \in Open /\ orders'[o].status \in {"cancelled", "fulfilled"}
         => ~\E i, j \in DOMAIN rows :
               /\ rows[i].type = "consume" /\ rows[i].order = o
               /\ rows[j].reverses = i]_vars

-----------------------------------------------------------------------------
(* What the repository says of itself and the code does not keep: no run      *)
(* checks it, the README says how it fails.                                   *)

\* post_credit_transaction: "Semantically inconsistent retries raise DomainError".
\* The rows do not say which order they are for, so a key used for one order is
\* accepted for another, which is closed with its credits left where they were.
RetriesMatch == Stranded = {}

=============================================================================

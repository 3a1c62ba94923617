------------------------- MODULE MemberCreditsProofs -------------------------
(***************************************************************************)
(* Proofs about MemberCredits, for any sets of members, sessions, keys and *)
(* orders.  A session that has checked a balance keeps the account locked  *)
(* until it commits; the inductive invariant says so (LockExclusive) and   *)
(* says what the check is still worth when the session commits             *)
(* (SpendGuarded): other sessions can only have taken credits by force.    *)
(***************************************************************************)
EXTENDS MemberCredits, SequenceTheorems, FiniteSetTheorems, WellFoundedInduction, TLAPS

\* Two open transactions never hold the same row lock.
LockExclusive ==
    \A s, t \in Sessions :
        s # t /\ sess[s].pc = "post" /\ sess[t].pc = "post"
        => Resource(sess[s]) # Resource(sess[t])

\* A balance checked under the lock still covers the spending at commit time,
\* up to what deductions and reversals took meanwhile.
SpendGuarded ==
    \A s \in Sessions :
        sess[s].pc = "post" /\ sess[s].op \in {"transfer", "redeem"}
        => balance[sess[s].who] + forced[sess[s].who] >= sess[s].amount

Requests == {Idle} \cup SpendRequest \cup RedeemRequest \cup OrderRequest
            \cup ReverseRequest

-----------------------------------------------------------------------------
(* Rows and postings. *)

\* An inserted row keeps the ledger typed and removes no row.
LEMMA InsertType ==
    ASSUME rows \in Seq(Row), balance \in [Accounts -> Int],
           NEW row \in Row, Insert(row)
    PROVE  /\ rows' \in Seq(Row)
           /\ balance' \in [Accounts -> Int]
           /\ DOMAIN rows \subseteq DOMAIN rows'
           /\ \A a \in Accounts : balance'[a] = BalanceAfter(row, a)
<1>1. rows' \in Seq(Row) /\ DOMAIN rows \subseteq DOMAIN rows'
  BY DEF Insert
<1>2. \A a \in Accounts : BalanceAfter(row, a) \in Int
  BY DEF BalanceAfter, Row
<1> QED
  BY <1>1, <1>2 DEF Insert

\* So does posting: it inserts the row or leaves the ledger alone.
LEMMA PostType ==
    ASSUME rows \in Seq(Row), balance \in [Accounts -> Int],
           NEW row \in Row, Post(row)
    PROVE  /\ rows' \in Seq(Row)
           /\ balance' \in [Accounts -> Int]
           /\ DOMAIN rows \subseteq DOMAIN rows'
           /\ \/ \A a \in Accounts : balance'[a] = BalanceAfter(row, a)
              \/ balance' = balance
BY InsertType DEF Post, ledgerVars

-----------------------------------------------------------------------------
(* Type correctness. *)

\* The rows the services post are rows of the ledger.
LEMMA OrderRowsTyped ==
    ASSUME TypeOK, NEW o \in OrderIds, orders[o] # Absent, NEW k \in Keys \cup {NoKey}
    PROVE  UnfreezeRow(o, k) \in Row /\ BurnRow(o, k) \in Row
<1>1. orders[o] \in Order
  BY DEF TypeOK
<1> QED
  BY <1>1, MemberCreditsAssumption
  DEF UnfreezeRow, BurnRow, Row, Order, RowKeys, TransactionTypes, SystemAccounts

\* The row that freezes an order's credits.
LEMMA ConsumeRowTyped ==
    ASSUME NEW o \in OrderIds, NEW m \in Members, NEW a \in Nat \ {0},
           NEW k \in Keys \cup {NoKey}
    PROVE  ConsumeRow(o, m, a, k) \in Row
BY MemberCreditsAssumption
DEF ConsumeRow, Row, RowKeys, TransactionTypes, SystemAccounts

\* The row that reverses a posted row.
LEMMA ReversalRowTyped ==
    ASSUME TypeOK, NEW i \in DOMAIN rows, NEW k \in Keys \cup {NoKey}
    PROVE  ReversalRow(i, k) \in Row
<1>1. rows[i] \in Row /\ i \in Nat
  BY DEF TypeOK
<1> QED
  BY <1>1, MemberCreditsAssumption
  DEF ReversalRow, Row, RowKeys, TransactionTypes

\* An idle session that begins a well-formed request.
LEMMA BeginType ==
    ASSUME TypeOK, NEW s \in Sessions, NEW r \in Requests, Begin(s, r),
           r.op = "reverse" => r.ref \in DOMAIN rows,
           r.op \in {"cancel", "fulfill", "report"} => orders[r.ref] # Absent
    PROVE  TypeOK'
BY DEF TypeOK, Begin, Requests

\* A session that ends, with the other variables typed and nothing removed.
LEMMA FinishType ==
    ASSUME TypeOK, NEW s \in Sessions, Finish(s),
           rows' \in Seq(Row), balance' \in [Accounts -> Int],
           orders' \in [OrderIds -> Order \cup {Absent}],
           settlements' \subseteq OrderIds,
           forced' \in [Members -> Nat],
           DOMAIN rows \subseteq DOMAIN rows',
           \A o \in OrderIds : orders[o] # Absent => orders'[o] # Absent
    PROVE  TypeOK'
<1>1. sess' = [sess EXCEPT ![s] = Idle]
  BY DEF Finish
<1>2. sess' \in [Sessions -> Requests]
  BY <1>1 DEF TypeOK, Requests
<1>3. ASSUME NEW t \in Sessions
      PROVE  /\ sess'[t].op = "reverse" => sess'[t].ref \in DOMAIN rows'
             /\ sess'[t].op \in {"cancel", "fulfill", "report"}
                  => orders'[sess'[t].ref] # Absent
  <2>1. CASE t = s
    BY <1>1, <2>1 DEF TypeOK, Idle
  <2>2. CASE t # s
    <3>1. sess'[t] = sess[t]
      BY <1>1, <2>2 DEF TypeOK
    <3>2. sess[t].op \in {"cancel", "fulfill", "report"} => sess[t].ref \in OrderIds
      BY DEF TypeOK, Idle, SpendRequest, RedeemRequest, OrderRequest, ReverseRequest
    <3> QED
      BY <3>1, <3>2 DEF TypeOK
  <2> QED
    BY <2>1, <2>2
<1> QED
  BY <1>2, <1>3 DEF TypeOK, Requests

\* The forced losses of members are natural numbers.
LEMMA ForcedLossType ==
    ASSUME forced \in [Members -> Nat], NEW acct, NEW a \in Nat, ForcedLoss(acct, a)
    PROVE  forced' \in [Members -> Nat]
BY DEF ForcedLoss

\* A session in its posting step and what it refers to.
LEMMA PostingType ==
    ASSUME TypeOK, NEW s \in Sessions, NEW op, Posting(s, op)
    PROVE  /\ op = "transfer" => sess[s] \in SpendRequest
           /\ op = "redeem" => sess[s] \in RedeemRequest
           /\ op \in {"cancel", "fulfill", "report"} =>
                /\ sess[s].ref \in OrderIds /\ orders[sess[s].ref] # Absent
                /\ sess[s].key \in Keys \cup {NoKey}
           /\ op = "reverse" =>
                sess[s].ref \in DOMAIN rows /\ sess[s].key \in Keys \cup {NoKey}
<1>1. sess[s].op = op /\ sess[s].pc = "post"
  BY DEF Posting
<1>2. sess[s] \in SpendRequest \cup RedeemRequest \cup OrderRequest \cup ReverseRequest
  BY <1>1 DEF TypeOK, Idle
<1>3. /\ op = "transfer" => sess[s] \in SpendRequest
      /\ op = "redeem" => sess[s] \in RedeemRequest
      /\ op \in {"cancel", "fulfill", "report"} => sess[s] \in OrderRequest
      /\ op = "reverse" => sess[s] \in ReverseRequest
  BY <1>1, <1>2 DEF SpendRequest, RedeemRequest, OrderRequest, ReverseRequest
<1>4. /\ op \in {"cancel", "fulfill", "report"} => orders[sess[s].ref] # Absent
      /\ op = "reverse" => sess[s].ref \in DOMAIN rows
  BY <1>1 DEF TypeOK
<1> QED
  BY <1>3, <1>4 DEF OrderRequest, ReverseRequest

\* Changing the status of an existing order keeps the orders typed.
LEMMA StatusType ==
    ASSUME TypeOK, NEW o \in OrderIds, orders[o] # Absent,
           NEW st \in {"disputed", "cancelled", "fulfilled"},
           orders' = [orders EXCEPT ![o].status = st]
    PROVE  /\ orders' \in [OrderIds -> Order \cup {Absent}]
           /\ \A p \in OrderIds : orders[p] # Absent => orders'[p] # Absent
<1>1. orders[o] \in Order
  BY DEF TypeOK
<1>2. [orders[o] EXCEPT !.status = st] \in Order
  BY <1>1 DEF Order
<1>3. [orders[o] EXCEPT !.status = st] # Absent
  BY <1>2 DEF Order, Absent
<1>4. orders' = [orders EXCEPT ![o] = [orders[o] EXCEPT !.status = st]]
  BY DEF TypeOK
<1> QED
  BY <1>2, <1>3, <1>4 DEF TypeOK

\* Every step keeps the types: one case per action.
LEMMA TypeStep ==
    ASSUME TypeOK, [Next]_vars
    PROVE  TypeOK'
<1> USE MemberCreditsAssumption
<1>1. CASE PassiveDeduct
  <2>1. PICK m \in Members, a \in Amounts, k \in Keys \cup {NoKey} :
          /\ Insert([type |-> "correction", amount |-> a, source |-> m,
                     target |-> "burn", task |-> NoTask, order |-> NoOrder,
                     reverses |-> 0, key |-> k])
          /\ ForcedLoss(m, a)
          /\ UNCHANGED <<orders, settlements, sess>>
    BY <1>1 DEF PassiveDeduct
  <2>2. [type |-> "correction", amount |-> a, source |-> m, target |-> "burn",
         task |-> NoTask, order |-> NoOrder, reverses |-> 0, key |-> k] \in Row
    BY DEF Row, RowKeys, TransactionTypes, SystemAccounts
  <2>3. /\ rows' \in Seq(Row)
        /\ balance' \in [Accounts -> Int]
        /\ DOMAIN rows \subseteq DOMAIN rows'
    BY <2>1, <2>2, InsertType DEF TypeOK
  <2>4. forced' \in [Members -> Nat]
    BY <2>1, ForcedLossType DEF TypeOK
  <2> QED
    BY <2>1, <2>3, <2>4 DEF TypeOK
<1>2. ASSUME NEW s \in Sessions, SessionStep(s)
      PROVE  TypeOK'
  <2>1. CASE RequestTransfer(s)
    <3>1. PICK m, n \in Members, a \in Amounts, k \in Keys \cup {NoKey} :
            Begin(s, Request("transfer", m, n, a, k, 0))
      BY <2>1 DEF RequestTransfer
    <3>2. Request("transfer", m, n, a, k, 0) \in SpendRequest
      BY DEF Request, SpendRequest
    <3> QED
      BY <3>1, <3>2, BeginType DEF Requests, SpendRequest
  <2>2. CASE RequestRedemption(s)
    <3>1. PICK m \in Members, a \in Amounts, k \in Keys \cup {NoKey},
               c \in Merchants \cup {NoMerchant} :
            Begin(s, Request("redeem", m, c, a, k, 0))
      BY <2>2 DEF RequestRedemption
    <3>2. Request("redeem", m, c, a, k, 0) \in RedeemRequest
      BY DEF Request, RedeemRequest
    <3> QED
      BY <3>1, <3>2, BeginType DEF Requests, RedeemRequest
  <2>3. CASE RequestOnOrder(s)
    <3>1. PICK o \in OrderIds, op \in {"cancel", "fulfill", "report"},
               k \in Keys \cup {NoKey} :
            /\ orders[o] # Absent
            /\ Begin(s, Request(op, NoAccount, NoAccount, 0, k, o))
      BY <2>3 DEF RequestOnOrder
    <3>2. /\ Request(op, NoAccount, NoAccount, 0, k, o) \in OrderRequest
          /\ Request(op, NoAccount, NoAccount, 0, k, o).ref = o
      BY DEF Request, OrderRequest
    <3> QED
      BY <3>1, <3>2, BeginType DEF Requests, OrderRequest
  <2>4. CASE RequestReversal(s)
    <3>1. PICK i \in DOMAIN rows, k \in Keys \cup {NoKey} :
            Begin(s, Request("reverse", NoAccount, NoAccount, 0, k, i))
      BY <2>4 DEF RequestReversal
    <3>2. i \in Nat \ {0}
      BY DEF TypeOK
    <3>3. /\ Request("reverse", NoAccount, NoAccount, 0, k, i) \in ReverseRequest
          /\ Request("reverse", NoAccount, NoAccount, 0, k, i).ref = i
      BY <3>2 DEF Request, ReverseRequest
    <3> QED
      BY <3>1, <3>3, BeginType DEF Requests, ReverseRequest
  <2>5. CASE Acquire(s)
    <3>1. [sess[s] EXCEPT !.pc = "post"] \in Requests
      <4>1. sess[s] \in Requests /\ sess[s].pc = "lock"
        BY <2>5 DEF TypeOK, Acquire, Requests
      <4>2. sess[s] # Idle
        BY <4>1 DEF Idle
      <4>3. CASE sess[s] \in SpendRequest
        BY <4>3 DEF SpendRequest, Requests
      <4>4. CASE sess[s] \in RedeemRequest
        BY <4>4 DEF RedeemRequest, Requests
      <4>5. CASE sess[s] \in OrderRequest
        BY <4>5 DEF OrderRequest, Requests
      <4>6. CASE sess[s] \in ReverseRequest
        BY <4>6 DEF ReverseRequest, Requests
      <4> QED
        BY <4>1, <4>2, <4>3, <4>4, <4>5, <4>6 DEF Requests
    <3>2. /\ [sess[s] EXCEPT !.pc = "post"].op = sess[s].op
          /\ [sess[s] EXCEPT !.pc = "post"].ref = sess[s].ref
      BY DEF TypeOK, Idle, SpendRequest, RedeemRequest, OrderRequest, ReverseRequest
    <3>3. sess' = [sess EXCEPT ![s] = [sess[s] EXCEPT !.pc = "post"]]
      BY <2>5 DEF Acquire, TypeOK
    <3> QED
      BY <2>5, <3>1, <3>2, <3>3 DEF TypeOK, Acquire, Requests
  <2>6. CASE Decline(s) \/ Rollback(s)
    BY <2>6, FinishType DEF Decline, Rollback, TypeOK
  <2>7. CASE CommitTransfer(s)
    <3>1. sess[s] \in SpendRequest
      BY <2>7, PostingType DEF CommitTransfer
    <3> DEFINE row == [type |-> "transfer", amount |-> sess[s].amount,
                       source |-> sess[s].who, target |-> sess[s].peer,
                       task |-> NoTask, order |-> NoOrder, reverses |-> 0,
                       key |-> sess[s].key]
    <3>2. row \in Row
      BY <3>1 DEF SpendRequest, Row, RowKeys, TransactionTypes
    <3>3. Post(row)
      BY <2>7 DEF CommitTransfer
    <3> QED
      BY <2>7, <3>2, <3>3, PostType, FinishType DEF CommitTransfer, TypeOK
  <2>8. CASE CommitRedemption(s)
    <3>1. sess[s] \in RedeemRequest
      BY <2>8, PostingType DEF CommitRedemption
    <3>2. PICK o \in (IF sess[s].key = NoKey THEN FreshIds ELSE {sess[s].key}) :
            /\ Post(ConsumeRow(o, sess[s].who, sess[s].amount, sess[s].key))
            /\ orders' = IF orders[o] # Absent THEN orders
                         ELSE [orders EXCEPT ![o] =
                                 [status |-> "pending", member |-> sess[s].who,
                                  amount |-> sess[s].amount, merchant |-> sess[s].peer]]
      BY <2>8 DEF CommitRedemption
    <3>3. o \in OrderIds
      BY <3>1 DEF RedeemRequest, OrderIds
    <3>4. ConsumeRow(o, sess[s].who, sess[s].amount, sess[s].key) \in Row
      BY <3>1, <3>3, ConsumeRowTyped DEF RedeemRequest
    <3> DEFINE new == [status |-> "pending", member |-> sess[s].who,
                       amount |-> sess[s].amount, merchant |-> sess[s].peer]
    <3>5. new \in Order /\ new # Absent
      BY <3>1 DEF Order, RedeemRequest, Absent
    <3>6. /\ orders' \in [OrderIds -> Order \cup {Absent}]
          /\ \A p \in OrderIds : orders[p] # Absent => orders'[p] # Absent
      BY <3>2, <3>3, <3>5 DEF TypeOK
    <3> QED
      BY <2>8, <3>2, <3>4, <3>6, PostType, FinishType DEF CommitRedemption, TypeOK
  <2>9. CASE CommitCancel(s)
    <3>1. /\ sess[s].ref \in OrderIds /\ orders[sess[s].ref] # Absent
          /\ sess[s].key \in Keys \cup {NoKey}
      BY <2>9, PostingType DEF CommitCancel
    <3> QED
      BY <2>9, <3>1, OrderRowsTyped, StatusType, PostType, FinishType
      DEF CommitCancel, TypeOK
  <2>10. CASE CommitFulfill(s)
    <3>1. /\ sess[s].ref \in OrderIds /\ orders[sess[s].ref] # Absent
          /\ sess[s].key \in Keys \cup {NoKey}
      BY <2>10, PostingType DEF CommitFulfill
    <3>2. settlements' \subseteq OrderIds
      BY <2>10, <3>1 DEF CommitFulfill, TypeOK
    <3> QED
      BY <2>10, <3>1, <3>2, OrderRowsTyped, StatusType, PostType, FinishType
      DEF CommitFulfill, TypeOK
  <2>11. CASE CommitReport(s)
    <3>1. sess[s].ref \in OrderIds /\ orders[sess[s].ref] # Absent
      BY <2>11, PostingType DEF CommitReport
    <3> QED
      BY <2>11, <3>1, StatusType, FinishType DEF CommitReport, TypeOK
  <2>12. CASE CommitReversal(s)
    <3>1. /\ sess[s].ref \in DOMAIN rows
          /\ sess[s].key \in Keys \cup {NoKey}
      BY <2>12, PostingType DEF CommitReversal
    <3> DEFINE row == ReversalRow(sess[s].ref, sess[s].key)
    <3>2. row \in Row /\ row.amount \in Nat
      BY <3>1, ReversalRowTyped DEF Row
    <3>3. CASE Insert(row) /\ ForcedLoss(row.source, row.amount)
      BY <2>12, <3>2, <3>3, InsertType, ForcedLossType, FinishType
      DEF CommitReversal, TypeOK
    <3>4. CASE /\ rows' = [i \in DOMAIN rows |->
                             IF i \in RowsWithKey(sess[s].key)
                             THEN [rows[i] EXCEPT !.reverses = sess[s].ref]
                             ELSE rows[i]]
               /\ UNCHANGED <<balance, forced>>
      <4>1. \A i \in DOMAIN rows : [rows[i] EXCEPT !.reverses = sess[s].ref] \in Row
        <5>1. sess[s].ref \in Nat
          BY <3>1 DEF TypeOK
        <5>2. \A x \in Row : [x EXCEPT !.reverses = sess[s].ref] \in Row
          BY <5>1 DEF Row
        <5> QED
          BY <5>2 DEF TypeOK
      <4>2. /\ Len(rows) \in Nat
            /\ rows' \in [1..Len(rows) -> Row]
            /\ DOMAIN rows' = DOMAIN rows
        BY <3>4, <4>1 DEF TypeOK
      <4>3. rows' \in Seq(Row)
        BY <4>2, SeqDef
      <4> QED
        BY <2>12, <3>4, <4>2, <4>3, FinishType DEF CommitReversal, TypeOK
    <3> QED
      BY <2>12, <3>3, <3>4 DEF CommitReversal
  <2> QED
    BY <1>2, <2>1, <2>2, <2>3, <2>4, <2>5, <2>6, <2>7, <2>8, <2>9, <2>10, <2>11,
       <2>12 DEF SessionStep
<1>3. CASE UNCHANGED vars
  BY <1>3 DEF vars, TypeOK
<1> QED
  BY <1>1, <1>2, <1>3 DEF Next

-----------------------------------------------------------------------------
(* Spending is covered. *)

IInv ==
    /\ TypeOK
    /\ LockExclusive
    /\ SpendGuarded
    /\ ActiveSpendCovered

\* The initial state satisfies the inductive invariant.
LEMMA InitIInv == ASSUME Init PROVE IInv
<1> USE MemberCreditsAssumption
<1>1. TypeOK
  BY DEF Init, TypeOK, Idle
<1>2. LockExclusive /\ SpendGuarded
  BY DEF Init, Idle, LockExclusive, SpendGuarded
<1>3. ActiveSpendCovered
  BY DEF Init, ActiveSpendCovered
<1> QED
  BY <1>1, <1>2, <1>3 DEF IInv

\* How a step may change the sessions: one of them begins, is granted its lock
\* after a check, or ends.
LEMMA SessionChange ==
    ASSUME TypeOK, [Next]_vars
    PROVE  \/ sess' = sess
           \/ \E s \in Sessions : \/ \E r : Begin(s, r) /\ r.pc = "lock"
                                  \/ Acquire(s)
                                  \/ Finish(s)
<1>1. CASE PassiveDeduct \/ UNCHANGED vars
  BY <1>1 DEF PassiveDeduct, vars
<1>2. ASSUME NEW s \in Sessions, SessionStep(s)
      PROVE  (\E r : Begin(s, r) /\ r.pc = "lock") \/ Acquire(s) \/ Finish(s)
  <2>1. CASE RequestTransfer(s) \/ RequestRedemption(s) \/ RequestOnOrder(s)
             \/ RequestReversal(s)
    <3>1. \A op, who, peer, amount, key, ref :
            Request(op, who, peer, amount, key, ref).pc = "lock"
      BY DEF Request
    <3> QED
      BY <2>1, <3>1 DEF RequestTransfer, RequestRedemption, RequestOnOrder,
                        RequestReversal
  <2>2. CASE Decline(s) \/ CommitTransfer(s) \/ CommitRedemption(s)
             \/ CommitCancel(s) \/ CommitFulfill(s) \/ CommitReport(s)
             \/ CommitReversal(s) \/ Rollback(s)
    BY <2>2 DEF Decline, CommitTransfer, CommitRedemption, CommitCancel,
                CommitFulfill, CommitReport, CommitReversal, Rollback
  <2> QED
    BY <1>2, <2>1, <2>2 DEF SessionStep
<1> QED
  BY <1>1, <1>2 DEF Next

\* select_for_update: no step leaves two posting sessions with the same row lock.
LEMMA LockStep ==
    ASSUME TypeOK, LockExclusive, [Next]_vars
    PROVE  LockExclusive'
<1>1. CASE sess' = sess
  BY <1>1 DEF LockExclusive, Resource
<1>2. ASSUME NEW s \in Sessions, NEW r, Begin(s, r), r.pc = "lock"
      PROVE  LockExclusive'
  BY <1>2 DEF LockExclusive, Resource, Begin, TypeOK
<1>3. ASSUME NEW s \in Sessions, Finish(s)
      PROVE  LockExclusive'
  BY <1>3 DEF LockExclusive, Resource, Finish, TypeOK, Idle
<1>4. ASSUME NEW s \in Sessions, Acquire(s)
      PROVE  LockExclusive'
  <2>1. \A t \in Sessions : t # s => sess'[t] = sess[t]
    BY <1>4 DEF Acquire, TypeOK
  <2>2. Resource(sess'[s]) = Resource(sess[s])
    <3>1. /\ sess'[s].op = sess[s].op
          /\ sess'[s].who = sess[s].who
          /\ sess'[s].ref = sess[s].ref
      BY <1>4 DEF Acquire, TypeOK, Idle, SpendRequest, RedeemRequest,
                  OrderRequest, ReverseRequest
    <3> QED
      BY <3>1 DEF Resource
  <2>3. \A t \in Sessions : sess[t].pc = "post" => Resource(sess[t]) # Resource(sess[s])
    BY <1>4 DEF Acquire, LockFree
  <2>4. ASSUME NEW t \in Sessions, NEW u \in Sessions, t # u,
               sess'[t].pc = "post", sess'[u].pc = "post"
        PROVE  Resource(sess'[t]) # Resource(sess'[u])
    <3>1. CASE t # s /\ u # s
      BY <2>1, <2>4, <3>1 DEF LockExclusive
    <3>2. CASE t = s \/ u = s
      BY <2>1, <2>2, <2>3, <2>4, <3>2
    <3> QED
      BY <3>1, <3>2
  <2> QED
    BY <2>4 DEF LockExclusive, Resource
<1> QED
  BY <1>1, <1>2, <1>3, <1>4, SessionChange

\* What a member could cover if nothing had been taken by force.
Worth(m) == balance[m] + forced[m]

\* One row moves a member's worth by what it says.
LEMMA InsertWorth ==
    ASSUME TypeOK, NEW row \in Row, Insert(row), NEW m \in Members,
           forced'[m] = forced[m]
    PROVE  /\ row.source # m => Worth(m)' >= Worth(m)
           /\ Worth(m)' >= Worth(m) - row.amount
<1>1. m \in Accounts /\ balance[m] \in Int /\ forced[m] \in Nat
  BY MemberCreditsAssumption DEF TypeOK
<1>2. balance'[m] = BalanceAfter(row, m)
  BY <1>1, InsertType DEF TypeOK
<1>3. row.amount \in Nat
  BY DEF Row
<1> QED
  BY <1>1, <1>2, <1>3 DEF BalanceAfter, Worth

\* Posting moves a member's worth by the row it inserts, or not at all.
LEMMA PostWorth ==
    ASSUME TypeOK, NEW row \in Row, Post(row), NEW m \in Members,
           forced' = forced
    PROVE  /\ row.source # m => Worth(m)' >= Worth(m)
           /\ Worth(m)' >= Worth(m) - row.amount
<1>1. CASE Insert(row)
  BY <1>1, InsertWorth
<1>2. CASE UNCHANGED ledgerVars
  <2>1. balance[m] \in Int /\ forced[m] \in Nat /\ row.amount \in Nat
    BY MemberCreditsAssumption DEF TypeOK, Row
  <2> QED
    BY <1>2, <2>1 DEF ledgerVars, Worth
<1> QED
  BY <1>1, <1>2 DEF Post

\* A row that takes credits by force takes no worth.
LEMMA ForcedWorth ==
    ASSUME TypeOK, NEW row \in Row, Insert(row), ForcedLoss(row.source, row.amount),
           NEW m \in Members
    PROVE  Worth(m)' >= Worth(m)
<1>1. m \in Accounts /\ balance[m] \in Int /\ forced[m] \in Nat
  BY MemberCreditsAssumption DEF TypeOK
<1>2. balance'[m] = BalanceAfter(row, m)
  BY <1>1, InsertType DEF TypeOK
<1>3. row.amount \in Nat
  BY DEF Row
<1>4. forced'[m] = IF row.source = m THEN forced[m] + row.amount ELSE forced[m]
  BY DEF ForcedLoss, TypeOK
<1> QED
  BY <1>1, <1>2, <1>3, <1>4 DEF BalanceAfter, Worth

\* A member's worth falls only when a session that holds the member's account
\* lock commits its spending.
SpendsFor(s, m) ==
    /\ sess[s].pc = "post" /\ sess[s].op \in {"transfer", "redeem"}
    /\ sess[s].who = m

\* A step takes worth from a member only if it commits that member's own spending.
LEMMA WorthStep ==
    ASSUME TypeOK, [Next]_vars, NEW m \in Members
    PROVE  \/ Worth(m)' >= Worth(m)
           \/ \E s \in Sessions : /\ SpendsFor(s, m)
                                  /\ Finish(s)
                                  /\ Worth(m)' >= Worth(m) - sess[s].amount
<1> USE MemberCreditsAssumption
<1>0. balance[m] \in Int /\ forced[m] \in Nat
  BY DEF TypeOK
<1>1. CASE balance' = balance /\ forced' = forced
  BY <1>0, <1>1 DEF Worth
<1>2. CASE PassiveDeduct
  <2>1. PICK n \in Members, a \in Amounts, k \in Keys \cup {NoKey} :
          /\ Insert([type |-> "correction", amount |-> a, source |-> n,
                     target |-> "burn", task |-> NoTask, order |-> NoOrder,
                     reverses |-> 0, key |-> k])
          /\ ForcedLoss(n, a)
    BY <1>2 DEF PassiveDeduct
  <2> DEFINE row == [type |-> "correction", amount |-> a, source |-> n,
                     target |-> "burn", task |-> NoTask, order |-> NoOrder,
                     reverses |-> 0, key |-> k]
  <2>2. row \in Row /\ row.source = n /\ row.amount = a
    BY DEF Row, RowKeys, TransactionTypes, SystemAccounts
  <2>3. Insert(row) /\ ForcedLoss(row.source, row.amount)
    BY <2>1, <2>2
  <2> HIDE DEF row
  <2> QED
    BY <2>2, <2>3, ForcedWorth
<1>3. ASSUME NEW s \in Sessions, CommitTransfer(s)
      PROVE  \/ Worth(m)' >= Worth(m)
             \/ /\ SpendsFor(s, m) /\ Finish(s)
                /\ Worth(m)' >= Worth(m) - sess[s].amount
  <2>1. sess[s] \in SpendRequest
    BY <1>3, PostingType DEF CommitTransfer
  <2> DEFINE row == [type |-> "transfer", amount |-> sess[s].amount,
                     source |-> sess[s].who, target |-> sess[s].peer,
                     task |-> NoTask, order |-> NoOrder, reverses |-> 0,
                     key |-> sess[s].key]
  <2>2. row \in Row /\ row.source = sess[s].who /\ row.amount = sess[s].amount
    BY <2>1 DEF SpendRequest, Row, RowKeys, TransactionTypes
  <2>3. Post(row) /\ forced' = forced
    BY <1>3 DEF CommitTransfer
  <2> HIDE DEF row
  <2>4. /\ row.source # m => Worth(m)' >= Worth(m)
        /\ Worth(m)' >= Worth(m) - row.amount
    BY <2>2, <2>3, PostWorth
  <2> QED
    BY <1>3, <2>2, <2>4 DEF SpendsFor, CommitTransfer, Posting
<1>4. ASSUME NEW s \in Sessions, CommitRedemption(s)
      PROVE  \/ Worth(m)' >= Worth(m)
             \/ /\ SpendsFor(s, m) /\ Finish(s)
                /\ Worth(m)' >= Worth(m) - sess[s].amount
  <2>1. sess[s] \in RedeemRequest
    BY <1>4, PostingType DEF CommitRedemption
  <2>2. PICK o \in (IF sess[s].key = NoKey THEN FreshIds ELSE {sess[s].key}) :
          Post(ConsumeRow(o, sess[s].who, sess[s].amount, sess[s].key))
    BY <1>4 DEF CommitRedemption
  <2>3. o \in OrderIds
    BY <2>1 DEF RedeemRequest, OrderIds
  <2> DEFINE row == ConsumeRow(o, sess[s].who, sess[s].amount, sess[s].key)
  <2>4. row \in Row
    BY <2>1, <2>3, ConsumeRowTyped DEF RedeemRequest
  <2>5. row.source = sess[s].who /\ row.amount = sess[s].amount
    BY DEF ConsumeRow
  <2>6. forced' = forced
    BY <1>4 DEF CommitRedemption
  <2> HIDE DEF row
  <2>7. /\ row.source # m => Worth(m)' >= Worth(m)
        /\ Worth(m)' >= Worth(m) - row.amount
    BY <2>2, <2>4, <2>6, PostWorth DEF row
  <2> QED
    BY <1>4, <2>5, <2>7 DEF SpendsFor, CommitRedemption, Posting
<1>5. ASSUME NEW s \in Sessions, CommitCancel(s) \/ CommitFulfill(s)
      PROVE  Worth(m)' >= Worth(m)
  <2>1. /\ sess[s].ref \in OrderIds /\ orders[sess[s].ref] # Absent
        /\ sess[s].key \in Keys \cup {NoKey}
    BY <1>5, PostingType DEF CommitCancel, CommitFulfill
  <2>2. /\ UnfreezeRow(sess[s].ref, sess[s].key) \in Row
        /\ UnfreezeRow(sess[s].ref, sess[s].key).source # m
        /\ BurnRow(sess[s].ref, sess[s].key) \in Row
        /\ BurnRow(sess[s].ref, sess[s].key).source # m
    BY <2>1, OrderRowsTyped DEF UnfreezeRow, BurnRow, SystemAccounts
  <2> QED
    BY <1>5, <2>2, PostWorth DEF CommitCancel, CommitFulfill
<1>6. ASSUME NEW s \in Sessions, CommitReversal(s)
      PROVE  Worth(m)' >= Worth(m)
  <2>1. sess[s].ref \in DOMAIN rows /\ sess[s].key \in Keys \cup {NoKey}
    BY <1>6, PostingType DEF CommitReversal
  <2>2. ReversalRow(sess[s].ref, sess[s].key) \in Row
    BY <2>1, ReversalRowTyped
  <2> QED
    BY <1>0, <1>6, <2>2, ForcedWorth DEF CommitReversal, Worth
<1> QED
  BY <1>1, <1>2, <1>3, <1>4, <1>5, <1>6
  DEF Next, SessionStep, vars, RequestTransfer, RequestRedemption, RequestOnOrder,
      RequestReversal, Begin, Acquire, Decline, CommitReport, Rollback

\* While a session holds a member's account row, what it checked stays covered;
\* so spending leaves nobody below zero.
LEMMA SpendStep ==
    ASSUME IInv, [Next]_vars
    PROVE  SpendGuarded' /\ ActiveSpendCovered'
<1> USE MemberCreditsAssumption DEF IInv
<1>0. /\ \A m \in Members : Worth(m) \in Int /\ balance[m] \in Int /\ forced[m] \in Nat
      /\ \A s \in Sessions : sess[s].op \in {"transfer", "redeem"}
            => sess[s].who \in Members /\ sess[s].amount \in Nat
  <2>1. \A m \in Members : Worth(m) \in Int /\ balance[m] \in Int /\ forced[m] \in Nat
    BY DEF TypeOK, Worth
  <2>2. \A r \in Requests : r.op \in {"transfer", "redeem"}
            => r.who \in Members /\ r.amount \in Nat
    BY DEF Requests, Idle, SpendRequest, RedeemRequest, OrderRequest, ReverseRequest
  <2>3. \A s \in Sessions : sess[s] \in Requests
    BY DEF TypeOK, Requests
  <2> QED
    BY <2>1, <2>2, <2>3
<1>t. TypeOK'
  BY TypeStep
<1>1. \A m \in Members : Worth(m)' \in Int /\ Worth(m) >= 0
  BY <1>t, <1>0 DEF TypeOK, Worth, ActiveSpendCovered
<1>2. \A s \in Sessions : \A m \in Members : SpendsFor(s, m) => Worth(m) >= sess[s].amount
  BY DEF SpendsFor, SpendGuarded, Worth
<1>3. ActiveSpendCovered'
  <2> SUFFICES ASSUME NEW m \in Members PROVE Worth(m)' >= 0
    BY DEF ActiveSpendCovered, Worth
  <2>1. CASE Worth(m)' >= Worth(m)
    BY <2>1, <1>0, <1>1
  <2>2. CASE \E s \in Sessions : SpendsFor(s, m) /\ Worth(m)' >= Worth(m) - sess[s].amount
    <3>1. PICK s \in Sessions : SpendsFor(s, m) /\ Worth(m)' >= Worth(m) - sess[s].amount
      BY <2>2
    <3>2. sess[s].amount \in Nat
      BY <3>1, <1>0 DEF SpendsFor
    <3>3. Worth(m) \in Int /\ Worth(m)' \in Int /\ Worth(m) >= sess[s].amount
      BY <3>1, <1>0, <1>1, <1>2
    <3> QED
      BY <3>1, <3>2, <3>3
  <2> QED
    BY <2>1, <2>2, WorthStep
<1>4. SpendGuarded'
  <2> SUFFICES ASSUME NEW t \in Sessions, sess'[t].pc = "post",
                      sess'[t].op \in {"transfer", "redeem"}
               PROVE  balance'[sess'[t].who] + forced'[sess'[t].who] >= sess'[t].amount
    BY DEF SpendGuarded
  <2>1. CASE Acquire(t)
    <3>1. /\ sess'[t].op = sess[t].op /\ sess'[t].who = sess[t].who
          /\ sess'[t].amount = sess[t].amount
      BY <2>1 DEF Acquire, TypeOK, Idle, SpendRequest, RedeemRequest,
                  OrderRequest, ReverseRequest
    <3>2. balance' = balance /\ forced' = forced
      BY <2>1 DEF Acquire
    <3>3. balance[sess[t].who] >= sess[t].amount
      BY <2>1, <3>1, <1>0 DEF Acquire, Admitted, MayTransfer, MayRedeem
    <3> QED
      BY <3>1, <3>2, <3>3, <1>0 DEF Worth
  <2>2. CASE sess'[t] = sess[t]
    <3>0. PICK m \in Members : m = sess[t].who
      BY <2>2, <1>0
    <3>1. m = sess[t].who /\ sess[t].amount \in Nat /\ SpendsFor(t, m)
      BY <2>2, <3>0, <1>0 DEF SpendsFor
    <3>2. Worth(m) >= sess[t].amount /\ Worth(m) \in Int /\ Worth(m)' \in Int
      BY <3>1, <1>0, <1>1, <1>2
    <3>3. ~\E s \in Sessions : SpendsFor(s, m) /\ Finish(s)
      <4> SUFFICES ASSUME NEW s \in Sessions, SpendsFor(s, m), Finish(s) PROVE FALSE
        OBVIOUS
      <4>1. s # t
        BY <2>2 DEF Finish, TypeOK, Idle
      <4>2. Resource(sess[s]) = Resource(sess[t])
        BY <3>1 DEF SpendsFor, Resource
      <4> QED
        BY <4>1, <4>2, <3>1 DEF LockExclusive, SpendsFor
    <3>4. Worth(m)' >= Worth(m)
      BY <3>1, <3>3, WorthStep
    <3> QED
      BY <2>2, <3>2, <3>4, <3>1 DEF Worth
  <2>3. Acquire(t) \/ sess'[t] = sess[t]
    BY SessionChange DEF Begin, Acquire, Finish, TypeOK, Idle
  <2> QED
    BY <2>1, <2>2, <2>3
<1> QED
  BY <1>3, <1>4

\* The inductive invariant holds of every behaviour.
THEOREM SpecIInv == Spec => []IInv
<1>1. Init => IInv
  BY InitIInv
<1>2. IInv /\ [Next]_vars => IInv'
  BY TypeStep, LockStep, SpendStep DEF IInv
<1> QED
  BY <1>1, <1>2, PTL DEF Spec

\* Every variable keeps its type and every request keeps referring to rows and
\* orders that exist (core/credit_services.py deletes neither).
THEOREM TypeCorrect == Spec => []TypeOK
<1>1. IInv => TypeOK
  BY DEF IInv
<1> QED
  BY <1>1, SpecIInv, PTL

\* transfer_member_credits and create_redemption_order never overdraw, whatever
\* the interleaving: a member is below zero only by what was taken by force.
THEOREM SpendingCovered == Spec => []ActiveSpendCovered
<1>1. IInv => ActiveSpendCovered
  BY DEF IInv
<1> QED
  BY <1>1, SpecIInv, PTL

-----------------------------------------------------------------------------
(* Idempotency keys. *)

\* A row with a new key, or without one, keeps the keys unique.
LEMMA InsertKeepsKeys ==
    ASSUME rows \in Seq(Row), OneRowPerKey, NEW row \in Row, IsNew(row), Insert(row)
    PROVE  OneRowPerKey'
<1>1. /\ Len(rows) \in Nat
      /\ DOMAIN rows = 1..Len(rows)
      /\ DOMAIN rows' = 1..(Len(rows) + 1)
      /\ \A i \in DOMAIN rows : rows'[i] = rows[i]
      /\ rows'[Len(rows) + 1] = row
  BY DEF Insert
<1>2. \A i \in DOMAIN rows : row.key # NoKey => rows[i].key # row.key
  BY DEF IsNew, RowsWithKey
<1> QED
  BY <1>1, <1>2 DEF OneRowPerKey

\* Every step keeps the keys unique.
LEMMA KeyStep ==
    ASSUME TypeOK, OneRowPerKey, [Next]_vars
    PROVE  OneRowPerKey'
<1> USE MemberCreditsAssumption
<1>1. CASE rows' = rows
  BY <1>1 DEF OneRowPerKey
<1>2. ASSUME NEW row \in Row, Post(row)
      PROVE  OneRowPerKey'
  <2>1. CASE IsNew(row) /\ Insert(row)
    BY <2>1, InsertKeepsKeys DEF TypeOK
  <2>2. CASE UNCHANGED ledgerVars
    BY <2>2, <1>1 DEF ledgerVars
  <2> QED
    BY <1>2, <2>1, <2>2 DEF Post
<1>3. CASE PassiveDeduct
  <2>1. PICK n \in Members, a \in Amounts, k \in Keys \cup {NoKey} :
          /\ IsNew([type |-> "correction", amount |-> a, source |-> n,
                    target |-> "burn", task |-> NoTask, order |-> NoOrder,
                    reverses |-> 0, key |-> k])
          /\ Insert([type |-> "correction", amount |-> a, source |-> n,
                     target |-> "burn", task |-> NoTask, order |-> NoOrder,
                     reverses |-> 0, key |-> k])
    BY <1>3 DEF PassiveDeduct
  <2>2. [type |-> "correction", amount |-> a, source |-> n, target |-> "burn",
         task |-> NoTask, order |-> NoOrder, reverses |-> 0, key |-> k] \in Row
    BY DEF Row, RowKeys, TransactionTypes, SystemAccounts
  <2> QED
    BY <2>1, <2>2, InsertKeepsKeys DEF TypeOK
<1>4. ASSUME NEW s \in Sessions, CommitTransfer(s)
      PROVE  OneRowPerKey'
  <2>1. sess[s] \in SpendRequest
    BY <1>4, PostingType DEF CommitTransfer
  <2>2. [type |-> "transfer", amount |-> sess[s].amount, source |-> sess[s].who,
         target |-> sess[s].peer, task |-> NoTask, order |-> NoOrder,
         reverses |-> 0, key |-> sess[s].key] \in Row
    BY <2>1 DEF SpendRequest, Row, RowKeys, TransactionTypes
  <2> QED
    BY <1>4, <2>2, <1>2 DEF CommitTransfer
<1>5. ASSUME NEW s \in Sessions, CommitRedemption(s)
      PROVE  OneRowPerKey'
  <2>1. sess[s] \in RedeemRequest
    BY <1>5, PostingType DEF CommitRedemption
  <2>2. PICK o \in (IF sess[s].key = NoKey THEN FreshIds ELSE {sess[s].key}) :
          Post(ConsumeRow(o, sess[s].who, sess[s].amount, sess[s].key))
    BY <1>5 DEF CommitRedemption
  <2>3. o \in OrderIds
    BY <2>1 DEF RedeemRequest, OrderIds
  <2>4. ConsumeRow(o, sess[s].who, sess[s].amount, sess[s].key) \in Row
    BY <2>1, <2>3, ConsumeRowTyped DEF RedeemRequest
  <2> QED
    BY <2>2, <2>4, <1>2
<1>6. ASSUME NEW s \in Sessions, CommitCancel(s) \/ CommitFulfill(s)
      PROVE  OneRowPerKey'
  <2>1. /\ sess[s].ref \in OrderIds /\ orders[sess[s].ref] # Absent
        /\ sess[s].key \in Keys \cup {NoKey}
    BY <1>6, PostingType DEF CommitCancel, CommitFulfill
  <2> QED
    BY <1>6, <2>1, <1>2, OrderRowsTyped DEF CommitCancel, CommitFulfill
<1>7. ASSUME NEW s \in Sessions, CommitReversal(s)
      PROVE  OneRowPerKey'
  <2>1. sess[s].ref \in DOMAIN rows /\ sess[s].key \in Keys \cup {NoKey}
    BY <1>7, PostingType DEF CommitReversal
  <2> DEFINE row == ReversalRow(sess[s].ref, sess[s].key)
  <2>2. row \in Row
    BY <2>1, ReversalRowTyped
  <2>3. CASE IsNew(row) /\ Insert(row)
    BY <2>2, <2>3, InsertKeepsKeys DEF TypeOK
  <2>4. CASE rows' = [i \in DOMAIN rows |->
                        IF i \in RowsWithKey(sess[s].key)
                        THEN [rows[i] EXCEPT !.reverses = sess[s].ref]
                        ELSE rows[i]]
    <3>1. \A x \in Row : [x EXCEPT !.reverses = sess[s].ref].key = x.key
      BY DEF Row
    <3>2. DOMAIN rows' = DOMAIN rows /\ \A i \in DOMAIN rows : rows'[i].key = rows[i].key
      BY <2>4, <3>1 DEF TypeOK
    <3> QED
      BY <3>2 DEF OneRowPerKey
  <2> QED
    BY <1>7, <2>3, <2>4 DEF CommitReversal
<1> QED
  BY <1>1, <1>3, <1>4, <1>5, <1>6, <1>7
  DEF Next, SessionStep, vars, RequestTransfer, RequestRedemption, RequestOnOrder,
      RequestReversal, Begin, Acquire, Decline, CommitReport, Rollback

\* post_credit_transaction's promise of at most one row per idempotency key.
THEOREM KeysUnique == Spec => []OneRowPerKey
<1>1. Init => OneRowPerKey
  BY DEF Init, OneRowPerKey
<1>2. TypeOK /\ OneRowPerKey /\ [Next]_vars => OneRowPerKey'
  BY KeyStep
<1> QED
  BY <1>1, <1>2, TypeCorrect, PTL DEF Spec

-----------------------------------------------------------------------------
(* Reversals. *)

\* What a reversal checked under the row lock is still true when it commits.
ReverseGuarded ==
    \A s \in Sessions :
        Posting(s, "reverse") => \A j \in DOMAIN rows : rows[j].reverses # sess[s].ref

ReverseInv == ReverseGuarded /\ ReversedOnce

\* Only a reversal makes a row refer to another: the other rows are inserted
\* with reverses = 0.
LEMMA RowsChange ==
    ASSUME TypeOK, [Next]_vars
    PROVE  \/ rows' = rows
           \/ \E row \in Row : row.reverses = 0 /\ Insert(row)
           \/ \E s \in Sessions : CommitReversal(s)
<1> USE MemberCreditsAssumption
<1>1. ASSUME NEW row \in Row, Post(row)
      PROVE  rows' = rows \/ Insert(row)
  BY <1>1 DEF Post, ledgerVars
<1>2. CASE PassiveDeduct
  <2>1. PICK n \in Members, a \in Amounts, k \in Keys \cup {NoKey} :
          Insert([type |-> "correction", amount |-> a, source |-> n,
                  target |-> "burn", task |-> NoTask, order |-> NoOrder,
                  reverses |-> 0, key |-> k])
    BY <1>2 DEF PassiveDeduct
  <2> DEFINE row == [type |-> "correction", amount |-> a, source |-> n,
                     target |-> "burn", task |-> NoTask, order |-> NoOrder,
                     reverses |-> 0, key |-> k]
  <2>2. row \in Row /\ row.reverses = 0
    BY DEF Row, RowKeys, TransactionTypes, SystemAccounts
  <2> QED
    BY <2>1, <2>2
<1>3. ASSUME NEW s \in Sessions, CommitTransfer(s)
      PROVE  rows' = rows \/ \E row \in Row : row.reverses = 0 /\ Insert(row)
  <2>1. sess[s] \in SpendRequest
    BY <1>3, PostingType DEF CommitTransfer
  <2> DEFINE row == [type |-> "transfer", amount |-> sess[s].amount,
                     source |-> sess[s].who, target |-> sess[s].peer,
                     task |-> NoTask, order |-> NoOrder, reverses |-> 0,
                     key |-> sess[s].key]
  <2>2. row \in Row /\ row.reverses = 0
    BY <2>1 DEF SpendRequest, Row, RowKeys, TransactionTypes
  <2>3. Post(row)
    BY <1>3 DEF CommitTransfer
  <2> HIDE DEF row
  <2> QED
    BY <2>2, <2>3, <1>1
<1>4. ASSUME NEW s \in Sessions, CommitRedemption(s)
      PROVE  rows' = rows \/ \E row \in Row : row.reverses = 0 /\ Insert(row)
  <2>1. sess[s] \in RedeemRequest
    BY <1>4, PostingType DEF CommitRedemption
  <2>2. PICK o \in (IF sess[s].key = NoKey THEN FreshIds ELSE {sess[s].key}) :
          Post(ConsumeRow(o, sess[s].who, sess[s].amount, sess[s].key))
    BY <1>4 DEF CommitRedemption
  <2>3. o \in OrderIds
    BY <2>1 DEF RedeemRequest, OrderIds
  <2> DEFINE row == ConsumeRow(o, sess[s].who, sess[s].amount, sess[s].key)
  <2>4. row \in Row
    BY <2>1, <2>3, ConsumeRowTyped DEF RedeemRequest
  <2>5. row.reverses = 0
    BY DEF ConsumeRow
  <2> HIDE DEF row
  <2> QED
    BY <2>2, <2>4, <2>5, <1>1 DEF row
<1>5. ASSUME NEW s \in Sessions, CommitCancel(s) \/ CommitFulfill(s)
      PROVE  rows' = rows \/ \E row \in Row : row.reverses = 0 /\ Insert(row)
  <2>1. /\ sess[s].ref \in OrderIds /\ orders[sess[s].ref] # Absent
        /\ sess[s].key \in Keys \cup {NoKey}
    BY <1>5, PostingType DEF CommitCancel, CommitFulfill
  <2>2. /\ UnfreezeRow(sess[s].ref, sess[s].key) \in Row
        /\ UnfreezeRow(sess[s].ref, sess[s].key).reverses = 0
        /\ BurnRow(sess[s].ref, sess[s].key) \in Row
        /\ BurnRow(sess[s].ref, sess[s].key).reverses = 0
    BY <2>1, OrderRowsTyped DEF UnfreezeRow, BurnRow
  <2> QED
    BY <1>5, <2>2, <1>1 DEF CommitCancel, CommitFulfill
<1> QED
  BY <1>2, <1>3, <1>4, <1>5
  DEF Next, SessionStep, vars, RequestTransfer, RequestRedemption, RequestOnOrder,
      RequestReversal, Begin, Acquire, Decline, CommitReport, Rollback

\* An inserted row, next to the rows that were there.
LEMMA InsertedRows ==
    ASSUME rows \in Seq(Row), NEW row \in Row, Insert(row)
    PROVE  /\ DOMAIN rows' = DOMAIN rows \cup {Len(rows) + 1}
           /\ Len(rows) + 1 \notin DOMAIN rows
           /\ \A i \in DOMAIN rows : rows'[i] = rows[i]
           /\ rows'[Len(rows) + 1] = row
BY DEF Insert

\* A session's next posting step: it was granted its lock now, or it is the one
\* that was already there.
LEMMA StillPosting ==
    ASSUME TypeOK, [Next]_vars, NEW t \in Sessions, sess'[t].pc = "post"
    PROVE  Acquire(t) \/ sess'[t] = sess[t]
BY SessionChange DEF Begin, Acquire, Finish, TypeOK, Idle

\* Granting a lock changes nothing in the request it admits.
LEMMA AcquireFields ==
    ASSUME TypeOK, NEW s \in Sessions, Acquire(s)
    PROVE  /\ sess'[s].op = sess[s].op /\ sess'[s].ref = sess[s].ref
           /\ UNCHANGED <<rows, balance, orders, settlements, forced>>
           /\ Admitted(sess[s])
BY DEF Acquire, TypeOK, Idle, SpendRequest, RedeemRequest, OrderRequest,
       ReverseRequest

\* The commit of a reversal: one row, new or found through its key, now refers
\* to the original.
LEMMA ReversalRows ==
    ASSUME TypeOK, OneRowPerKey, NEW s \in Sessions, CommitReversal(s)
    PROVE  /\ Posting(s, "reverse") /\ Finish(s)
           /\ DOMAIN rows \subseteq DOMAIN rows'
           /\ \E n \in DOMAIN rows' :
                 /\ rows'[n].reverses = sess[s].ref
                 /\ DOMAIN rows' \subseteq DOMAIN rows \cup {n}
                 /\ \A i \in DOMAIN rows \ {n} : rows'[i] = rows[i]
<1>1. sess[s].ref \in DOMAIN rows /\ sess[s].key \in Keys \cup {NoKey}
  BY PostingType DEF CommitReversal
<1> DEFINE row == ReversalRow(sess[s].ref, sess[s].key)
<1>2. row \in Row /\ row.reverses = sess[s].ref /\ row.key = sess[s].key
  BY <1>1, ReversalRowTyped DEF ReversalRow
<1> HIDE DEF row
<1>3. CASE Insert(row)
  <2>1. /\ DOMAIN rows' = DOMAIN rows \cup {Len(rows) + 1}
        /\ Len(rows) + 1 \notin DOMAIN rows
        /\ \A i \in DOMAIN rows : rows'[i] = rows[i]
        /\ rows'[Len(rows) + 1] = row
    BY <1>2, <1>3, InsertedRows DEF TypeOK
  <2> QED
    BY <1>2, <2>1 DEF CommitReversal
<1>4. CASE /\ IsReplay(row)
           /\ rows' = [i \in DOMAIN rows |->
                         IF i \in RowsWithKey(sess[s].key)
                         THEN [rows[i] EXCEPT !.reverses = sess[s].ref]
                         ELSE rows[i]]
  <2>1. PICK n \in RowsWithKey(sess[s].key) : TRUE
    BY <1>2, <1>4 DEF IsReplay
  <2>2. n \in DOMAIN rows /\ RowsWithKey(sess[s].key) = {n}
    BY <2>1 DEF RowsWithKey, OneRowPerKey
  <2>3. rows[n] \in Row
    BY <2>2 DEF TypeOK
  <2>4. rows'[n] = [rows[n] EXCEPT !.reverses = sess[s].ref]
    BY <1>4, <2>2
  <2>5. rows'[n].reverses = sess[s].ref
    BY <2>3, <2>4 DEF Row
  <2> QED
    BY <1>4, <2>2, <2>5 DEF CommitReversal
<1> QED
  BY <1>3, <1>4 DEF CommitReversal, row

\* The row lock keeps the check of one reversal true until it commits.
LEMMA ReverseStep ==
    ASSUME TypeOK, LockExclusive, OneRowPerKey, ReverseInv, [Next]_vars
    PROVE  ReverseInv'
<1>0. /\ \A s \in Sessions : Posting(s, "reverse") => sess[s].ref \in Nat \ {0}
      /\ rows \in Seq(Row)
  BY PostingType DEF TypeOK
<1>1. \A t \in Sessions :
        Posting(t, "reverse")' =>
          /\ sess'[t].ref = sess[t].ref
          /\ \A j \in DOMAIN rows : rows[j].reverses # sess[t].ref
          /\ (Posting(t, "reverse") /\ sess'[t] = sess[t]) \/ Acquire(t)
  <2> SUFFICES ASSUME NEW t \in Sessions, Posting(t, "reverse")'
               PROVE  /\ sess'[t].ref = sess[t].ref
                      /\ \A j \in DOMAIN rows : rows[j].reverses # sess[t].ref
                      /\ (Posting(t, "reverse") /\ sess'[t] = sess[t]) \/ Acquire(t)
    OBVIOUS
  <2>1. CASE Acquire(t)
    BY <2>1, AcquireFields DEF Posting, Admitted, MayReverse
  <2>2. CASE sess'[t] = sess[t]
    BY <2>2 DEF Posting, ReverseInv, ReverseGuarded
  <2> QED
    BY <2>1, <2>2, StillPosting DEF Posting
<1>2. CASE rows' = rows
  BY <1>1, <1>2 DEF ReverseInv, ReverseGuarded, ReversedOnce
<1>3. ASSUME NEW row \in Row, row.reverses = 0, Insert(row)
      PROVE  ReverseInv'
  <2>1. /\ DOMAIN rows' = DOMAIN rows \cup {Len(rows) + 1}
        /\ \A i \in DOMAIN rows : rows'[i] = rows[i]
        /\ rows'[Len(rows) + 1].reverses = 0
    BY <1>0, <1>3, InsertedRows
  <2>2. ReversedOnce'
    BY <2>1 DEF ReverseInv, ReversedOnce
  <2>3. \A t \in Sessions : Posting(t, "reverse")' => sess'[t].ref # 0
    <3>1. \A t \in Sessions : Acquire(t) => rows' = rows
      BY AcquireFields
    <3>2. rows' # rows
      BY <1>0, <1>3, InsertedRows
    <3> QED
      BY <1>0, <1>1, <3>1, <3>2
  <2> QED
    BY <1>1, <2>1, <2>2, <2>3 DEF ReverseInv, ReverseGuarded
<1>4. ASSUME NEW s \in Sessions, CommitReversal(s)
      PROVE  ReverseInv'
  <2>1. /\ Posting(s, "reverse") /\ Finish(s)
        /\ DOMAIN rows \subseteq DOMAIN rows'
    BY <1>4, ReversalRows
  <2>2. PICK n \in DOMAIN rows' :
          /\ rows'[n].reverses = sess[s].ref
          /\ DOMAIN rows' \subseteq DOMAIN rows \cup {n}
          /\ \A i \in DOMAIN rows \ {n} : rows'[i] = rows[i]
    BY <1>4, ReversalRows
  <2>3. \A j \in DOMAIN rows : rows[j].reverses # sess[s].ref
    BY <2>1 DEF ReverseInv, ReverseGuarded
  <2>4. ReversedOnce'
    BY <2>2, <2>3 DEF ReverseInv, ReversedOnce
  <2>5. \A t \in Sessions : Posting(t, "reverse")' =>
          /\ sess'[t].ref = sess[t].ref /\ sess[t].ref # sess[s].ref
    <3> SUFFICES ASSUME NEW t \in Sessions, Posting(t, "reverse")'
                 PROVE  sess[t].ref # sess[s].ref
      BY <1>1
    <3>1. sess'[s] = Idle
      BY <2>1 DEF Finish, TypeOK
    <3>2. t # s
      BY <3>1 DEF Posting, Idle
    <3>3. sess'[t] = sess[t]
      BY <2>1, <3>2 DEF Finish, TypeOK
    <3> QED
      BY <2>1, <3>2, <3>3 DEF LockExclusive, Posting, Resource
  <2> QED
    BY <1>1, <2>2, <2>4, <2>5 DEF ReverseInv, ReverseGuarded
<1> QED
  BY <1>2, <1>3, <1>4, RowsChange

\* reverse_credit_transaction: "Only one posted reversal may exist for a given
\* original", however many requests reverse it at once.
THEOREM ReversalsUnique == Spec => []ReversedOnce
<1>1. Init => ReverseInv
  BY DEF Init, Idle, Posting, ReverseInv, ReverseGuarded, ReversedOnce
<1>2. IInv /\ OneRowPerKey /\ ReverseInv /\ [Next]_vars => ReverseInv'
  BY ReverseStep DEF IInv
<1>3. ReverseInv => ReversedOnce
  BY DEF ReverseInv
<1> QED
  BY <1>1, <1>2, <1>3, SpecIInv, KeysUnique, PTL DEF Spec

-----------------------------------------------------------------------------
(* Orders. *)

\* The key of a row that moves an order's credits says which order it is, unless a
\* client chose it.
KeyNamesOrder(row) ==
    /\ row.type = "consume" =>
          \/ row.order \in Keys /\ row.key = row.order
          \/ row.order \in FreshIds /\ row.key = <<"freeze", row.order>>
    /\ row.type = "unfreeze" => row.key \in Keys \/ row.key = <<"unfreeze", row.order>>
    /\ row.type = "burn" => row.key \in Keys \/ row.key = <<"burn", row.order>>

KeysNameOrders == \A i \in DOMAIN rows : KeyNamesOrder(rows[i])

\* An order checked under its row lock is as it was when the request commits.
OrderGuarded ==
    \A s \in Sessions : sess[s].pc = "post" =>
        /\ sess[s].op \in {"cancel", "fulfill"} => orders[sess[s].ref].status \in Open
        /\ sess[s].op = "report" => orders[sess[s].ref].status = "pending"

OrderInv == KeysNameOrders /\ OrderGuarded /\ OrderSettledOnce

\* The rows stay, but for the originals they reverse.
RowsStay ==
    \A i \in DOMAIN rows :
        /\ i \in DOMAIN rows'
        /\ rows'[i].type = rows[i].type /\ rows'[i].order = rows[i].order
        /\ rows'[i].key = rows[i].key /\ rows'[i].amount = rows[i].amount
        /\ rows'[i].target = rows[i].target

\* No row for an order appeared or went.
SameOrderRows ==
    \A o, type : type \in OrderRowTypes => (HasOrderRow(o, type)' <=> HasOrderRow(o, type))

\* An inserted row counts for the order it names.
LEMMA InsertOrderRow ==
    ASSUME TypeOK, KeysNameOrders, OneRowEach, NEW row \in Row, KeyNamesOrder(row),
           row.type \notin OrderRowTypes \/ ~HasOrderRow(row.order, row.type),
           Insert(row)
    PROVE  /\ KeysNameOrders' /\ OneRowEach' /\ RowsStay
           /\ \A o, type : HasOrderRow(o, type)' <=>
                  HasOrderRow(o, type) \/ (row.type = type /\ row.order = o)
<1>1. /\ DOMAIN rows' = DOMAIN rows \cup {Len(rows) + 1}
      /\ Len(rows) + 1 \notin DOMAIN rows
      /\ \A i \in DOMAIN rows : rows'[i] = rows[i]
      /\ rows'[Len(rows) + 1] = row
  BY InsertedRows DEF TypeOK
<1>2. KeysNameOrders' /\ RowsStay
  BY <1>1 DEF KeysNameOrders, KeyNamesOrder, RowsStay
<1>3. ASSUME row.type \in OrderRowTypes, NEW i \in DOMAIN rows,
             rows[i].type = row.type, rows[i].order = row.order
      PROVE  FALSE
  BY <1>3 DEF HasOrderRow
<1>4. OneRowEach'
  BY <1>1, <1>3 DEF OneRowEach
<1> QED
  BY <1>1, <1>2, <1>4 DEF HasOrderRow

\* Rows of other types, and a reversal that is pointed at another row, count for
\* no order.
LEMMA OtherRows ==
    ASSUME TypeOK, KeysNameOrders, OneRowEach,
           \/ rows' = rows
           \/ \E row \in Row : row.type \notin OrderRowTypes /\ Insert(row)
           \/ DOMAIN rows' = DOMAIN rows /\ RowsStay
    PROVE  KeysNameOrders' /\ OneRowEach' /\ RowsStay /\ SameOrderRows
<1>1. CASE rows' = rows
  BY <1>1 DEF KeysNameOrders, OneRowEach, RowsStay, SameOrderRows, HasOrderRow
<1>2. ASSUME NEW row \in Row, row.type \notin OrderRowTypes, Insert(row)
      PROVE  KeysNameOrders' /\ OneRowEach' /\ RowsStay /\ SameOrderRows
  <2>1. KeyNamesOrder(row)
    BY <1>2 DEF KeyNamesOrder, OrderRowTypes
  <2> QED
    BY <1>2, <2>1, InsertOrderRow DEF SameOrderRows
<1>3. CASE DOMAIN rows' = DOMAIN rows /\ RowsStay
  <2>1. \A i \in DOMAIN rows : /\ rows'[i].type = rows[i].type
                               /\ rows'[i].order = rows[i].order
                               /\ rows'[i].key = rows[i].key
    BY <1>3 DEF RowsStay
  <2>2. KeysNameOrders'
    BY <1>3, <2>1 DEF KeysNameOrders, KeyNamesOrder
  <2>3. OneRowEach'
    BY <1>3, <2>1 DEF OneRowEach
  <2>4. SameOrderRows
    BY <1>3, <2>1 DEF SameOrderRows, HasOrderRow
  <2> QED
    BY <1>3, <2>2, <2>3, <2>4
<1> QED
  BY <1>1, <1>2, <1>3

\* The requests on orders that commit, and what they make of the order.
Settles(s, o) ==
    /\ sess[s].pc = "post" /\ sess[s].op \in {"cancel", "fulfill", "report"}
    /\ sess[s].ref = o /\ Finish(s)

\* An existing order changes only when the session that holds its row commits.
LEMMA OrdersChange ==
    ASSUME TypeOK, [Next]_vars, NEW o \in OrderIds, orders'[o] # orders[o]
    PROVE  orders[o] = Absent \/ \E s \in Sessions : Settles(s, o)
<1>1. ASSUME NEW s \in Sessions, CommitRedemption(s)
      PROVE  orders[o] = Absent
  BY <1>1 DEF CommitRedemption, TypeOK
<1>2. ASSUME NEW s \in Sessions,
             CommitCancel(s) \/ CommitFulfill(s) \/ CommitReport(s)
      PROVE  Settles(s, o)
  BY <1>2 DEF CommitCancel, CommitFulfill, CommitReport, Settles, Posting, TypeOK
<1> QED
  BY <1>1, <1>2
  DEF Next, SessionStep, vars, PassiveDeduct, RequestTransfer, RequestRedemption,
      RequestOnOrder, RequestReversal, Begin, Acquire, Decline, CommitTransfer,
      CommitReversal, Rollback

\* The order's row lock keeps what was checked true.
LEMMA OrderGuardStep ==
    ASSUME TypeOK, LockExclusive, OrderGuarded, [Next]_vars
    PROVE  OrderGuarded'
<1> SUFFICES ASSUME NEW t \in Sessions, sess'[t].pc = "post"
             PROVE  /\ sess'[t].op \in {"cancel", "fulfill"}
                          => orders'[sess'[t].ref].status \in Open
                    /\ sess'[t].op = "report"
                          => orders'[sess'[t].ref].status = "pending"
  BY DEF OrderGuarded
<1>1. CASE Acquire(t)
  BY <1>1, AcquireFields DEF Admitted, MayCancel, MayFulfill, MayReport
<1>2. CASE sess'[t] = sess[t] /\ sess[t].op \in {"cancel", "fulfill", "report"}
  <2>1. sess[t].ref \in OrderIds /\ orders[sess[t].ref] # Absent
    BY <1>2, PostingType DEF Posting
  <2>2. ~\E s \in Sessions : Settles(s, sess[t].ref)
    <3> SUFFICES ASSUME NEW s \in Sessions, Settles(s, sess[t].ref) PROVE FALSE
      OBVIOUS
    <3>1. s # t
      BY <1>2 DEF Settles, Finish, TypeOK, Idle
    <3>2. Resource(sess[s]) = Resource(sess[t])
      BY <1>2 DEF Settles, Resource
    <3> QED
      BY <1>2, <3>1, <3>2 DEF LockExclusive, Settles
  <2>3. orders'[sess[t].ref] = orders[sess[t].ref]
    BY <2>1, <2>2, OrdersChange
  <2> QED
    BY <1>2, <2>3 DEF OrderGuarded
<1>3. CASE sess'[t] = sess[t] /\ sess[t].op \notin {"cancel", "fulfill", "report"}
  BY <1>3
<1> QED
  BY <1>1, <1>2, <1>3, StillPosting

\* What an order says goes on being said while its rows stay and it is untouched.
LEMMA OrderKept ==
    ASSUME NEW o \in OrderIds, SettledAsStatus(o), RowsStay,
           orders'[o] = orders[o], o \in settlements' <=> o \in settlements,
           \A type \in OrderRowTypes : HasOrderRow(o, type)' <=> HasOrderRow(o, type)
    PROVE  SettledAsStatus(o)'
<1>1. /\ HasOrderRow(o, "consume")' <=> HasOrderRow(o, "consume")
      /\ HasOrderRow(o, "unfreeze")' <=> HasOrderRow(o, "unfreeze")
      /\ HasOrderRow(o, "burn")' <=> HasOrderRow(o, "burn")
  BY DEF OrderRowTypes
<1>2. \A type : ReplayedFor(o, type) => ReplayedFor(o, type)'
  BY DEF ReplayedFor, RowsStay
<1> QED
  BY <1>1, <1>2 DEF SettledAsStatus

\* A step that touches no order and posts no row for one settles nothing.
LEMMA NothingSettled ==
    ASSUME OrderSettledOnce, UNCHANGED <<orders, settlements>>, RowsStay, OneRowEach',
           SameOrderRows
    PROVE  OrderSettledOnce'
BY OrderKept DEF OrderSettledOnce, SameOrderRows

\* create_redemption_order freezes the credits of a new order, or finds the row, and
\* with it the order, of an earlier call.
Freezes(s, o, row) ==
    /\ o \in OrderIds /\ orders[o] = Absent /\ ~HasOrderRow(o, "consume")
    /\ row \in Row /\ row.type = "consume" /\ row.order = o /\ KeyNamesOrder(row)
    /\ row.amount = sess[s].amount /\ row.source \in Members /\ row.target = "frozen"
    /\ Insert(row)
    /\ orders' = [orders EXCEPT ![o] =
                    [status |-> "pending", member |-> sess[s].who,
                     amount |-> sess[s].amount, merchant |-> sess[s].peer]]

LEMMA Freezing ==
    ASSUME TypeOK, KeysNameOrders, OrderSettledOnce, NEW s \in Sessions,
           CommitRedemption(s)
    PROVE  \/ UNCHANGED <<rows, balance, orders>>
           \/ \E o, row : Freezes(s, o, row)
<1> USE MemberCreditsAssumption
<1>1. sess[s] \in RedeemRequest
  BY PostingType DEF CommitRedemption
<1>2. PICK o \in (IF sess[s].key = NoKey THEN FreshIds ELSE {sess[s].key}) :
        /\ sess[s].key = NoKey => orders[o] = Absent
        /\ Post(ConsumeRow(o, sess[s].who, sess[s].amount, sess[s].key))
        /\ orders' = IF orders[o] # Absent THEN orders
                     ELSE [orders EXCEPT ![o] =
                             [status |-> "pending", member |-> sess[s].who,
                              amount |-> sess[s].amount, merchant |-> sess[s].peer]]
  BY DEF CommitRedemption
<1>3. o \in OrderIds /\ sess[s].key \in Keys \cup {NoKey}
  BY <1>1 DEF RedeemRequest, OrderIds
<1> DEFINE row == ConsumeRow(o, sess[s].who, sess[s].amount, sess[s].key)
<1>4. row \in Row
  BY <1>1, <1>3, ConsumeRowTyped DEF RedeemRequest
<1>5. /\ row.type = "consume" /\ row.order = o /\ row.amount = sess[s].amount
      /\ row.source \in Members /\ row.target = "frozen"
      /\ row.key = IF sess[s].key = NoKey THEN <<"freeze", o>> ELSE sess[s].key
  BY <1>1 DEF ConsumeRow, RedeemRequest
<1>6. KeyNamesOrder(row)
  BY <1>3 DEF KeyNamesOrder, ConsumeRow
<1>7. Post(row)
  BY <1>2
<1> HIDE DEF row
<1>8. orders[o] # Absent <=> HasOrderRow(o, "consume")
  BY <1>3 DEF OrderSettledOnce, SettledAsStatus
<1>9. CASE IsNew(row) /\ Insert(row)
  <2>1. ~HasOrderRow(o, "consume")
    <3> SUFFICES ASSUME HasOrderRow(o, "consume") PROVE FALSE
      OBVIOUS
    <3>1. PICK i \in DOMAIN rows : rows[i].type = "consume" /\ rows[i].order = o
      BY DEF HasOrderRow
    <3>2. sess[s].key = o /\ o \in Keys
      BY <1>2, <1>3, <1>8
    <3>3. KeyNamesOrder(rows[i])
      BY DEF KeysNameOrders
    <3>4. rows[i].key = o
      BY <3>1, <3>2, <3>3 DEF KeyNamesOrder
    <3>5. row.key = o /\ o # NoKey
      BY <1>5, <3>2
    <3> QED
      BY <1>9, <3>4, <3>5 DEF IsNew, RowsWithKey
  <2>2. Freezes(s, o, row)
    BY <1>2, <1>3, <1>4, <1>5, <1>6, <1>8, <1>9, <2>1 DEF Freezes
  <2> QED
    BY <2>2
<1>10. CASE IsReplay(row) /\ UNCHANGED ledgerVars
  <2>1. PICK i \in DOMAIN rows : rows[i].key = row.key /\ rows[i].type = row.type
    BY <1>10 DEF IsReplay, RowsWithKey, SameMovement
  <2>2. KeyNamesOrder(rows[i])
    BY DEF KeysNameOrders
  <2>3. \A p \in FreshIds : <<"freeze", p>> \notin Keys
    OBVIOUS
  <2>4. rows[i].order = o
    BY <1>5, <1>6, <2>1, <2>2, <2>3 DEF KeyNamesOrder
  <2>5. HasOrderRow(o, "consume")
    BY <1>5, <2>1, <2>4 DEF HasOrderRow
  <2> QED
    BY <1>2, <1>8, <1>10, <2>5 DEF ledgerVars
<1> QED
  BY <1>7, <1>9, <1>10 DEF Post

\* The credits are frozen in the commit that makes the order.
LEMMA RedemptionStep ==
    ASSUME TypeOK, KeysNameOrders, OrderSettledOnce, NEW s \in Sessions,
           CommitRedemption(s)
    PROVE  KeysNameOrders' /\ OrderSettledOnce'
<1>1. settlements' = settlements /\ OneRowEach
  BY DEF CommitRedemption, OrderSettledOnce
<1>2. CASE UNCHANGED <<rows, balance, orders>>
  BY <1>1, <1>2, OtherRows, NothingSettled
<1>3. ASSUME NEW o, NEW row, Freezes(s, o, row)
      PROVE  KeysNameOrders' /\ OrderSettledOnce'
  <2>1. /\ KeysNameOrders' /\ OneRowEach' /\ RowsStay
        /\ \A p, type : HasOrderRow(p, type)' <=>
              HasOrderRow(p, type) \/ (row.type = type /\ row.order = p)
    BY <1>1, <1>3, InsertOrderRow DEF Freezes
  <2>2. /\ \A p \in OrderIds \ {o} : orders'[p] = orders[p]
        /\ orders'[o].status = "pending" /\ orders[o] = Absent
        /\ o \in OrderIds /\ row.type = "consume" /\ row.order = o
    BY <1>3 DEF Freezes, TypeOK
  <2>3. ASSUME NEW p \in OrderIds \ {o} PROVE SettledAsStatus(p)'
    BY <1>1, <2>1, <2>2, OrderKept DEF OrderSettledOnce
  <2>4. SettledAsStatus(o)'
    <3>1. SettledAsStatus(o)
      BY <2>2 DEF OrderSettledOnce
    <3>2. /\ ~HasOrderRow(o, "unfreeze")' /\ ~HasOrderRow(o, "burn")'
          /\ HasOrderRow(o, "consume")' /\ o \notin settlements'
      BY <1>1, <2>1, <2>2, <3>1 DEF SettledAsStatus, Absent
    <3> QED
      BY <2>2, <3>2 DEF SettledAsStatus, Absent
  <2> QED
    BY <2>1, <2>3, <2>4 DEF OrderSettledOnce
<1> QED
  BY <1>2, <1>3, Freezing

\* cancel_redemption_order and fulfill_redemption_order close an order that no row
\* has closed: with a row of its own, or with what a client's key stands for.
Closes(o, ty, st, row) ==
    /\ o \in OrderIds /\ orders[o] \in Order /\ orders[o].status \in Open
    /\ ~HasOrderRow(o, "unfreeze") /\ ~HasOrderRow(o, "burn")
    /\ \/ ty = "unfreeze" /\ st = "cancelled"
       \/ ty = "burn" /\ st = "fulfilled"
    /\ orders' = [orders EXCEPT ![o].status = st]
    /\ o \in settlements' <=> st = "fulfilled" /\ orders[o].merchant \in Merchants
    /\ \A p \in OrderIds \ {o} : p \in settlements' <=> p \in settlements
    /\ row \in Row /\ row.type = ty /\ row.order = o /\ KeyNamesOrder(row)
    /\ row.amount = orders[o].amount /\ row.source = "frozen" /\ row.target # "frozen"
    /\ \/ Insert(row)
       \/ rows' = rows /\ balance' = balance /\ ReplayedFor(o, ty)

LEMMA Closing ==
    ASSUME TypeOK, KeysNameOrders, OrderGuarded, OrderSettledOnce, NEW s \in Sessions,
           CommitCancel(s) \/ CommitFulfill(s)
    PROVE  \E o, ty, st, row : Closes(o, ty, st, row)
<1> USE MemberCreditsAssumption
<1>1. PICK o \in OrderIds, k \in Keys \cup {NoKey} : o = sess[s].ref /\ k = sess[s].key
  BY PostingType DEF CommitCancel, CommitFulfill
<1>2. orders[o] # Absent /\ orders[o].status \in Open
  BY <1>1, PostingType DEF CommitCancel, CommitFulfill, Posting, OrderGuarded
<1>3. orders[o] \in Order
  BY <1>2 DEF TypeOK
<1>4. SettledAsStatus(o)
  BY DEF OrderSettledOnce
<1>5. /\ ~HasOrderRow(o, "unfreeze") /\ ~HasOrderRow(o, "burn") /\ o \notin settlements
  BY <1>2, <1>4 DEF SettledAsStatus, Open
<1>6. UnfreezeRow(o, k) \in Row /\ BurnRow(o, k) \in Row
  BY <1>2, OrderRowsTyped
<1>7. /\ UnfreezeRow(o, k).type = "unfreeze" /\ BurnRow(o, k).type = "burn"
      /\ UnfreezeRow(o, k).order = o /\ BurnRow(o, k).order = o
      /\ UnfreezeRow(o, k).key = (IF k = NoKey THEN <<"unfreeze", o>> ELSE k)
      /\ BurnRow(o, k).key = (IF k = NoKey THEN <<"burn", o>> ELSE k)
      /\ UnfreezeRow(o, k).amount = orders[o].amount
      /\ BurnRow(o, k).amount = orders[o].amount
      /\ UnfreezeRow(o, k).source = "frozen" /\ BurnRow(o, k).source = "frozen"
      /\ UnfreezeRow(o, k).target # "frozen" /\ BurnRow(o, k).target # "frozen"
      /\ UnfreezeRow(o, k).target = orders[o].member
  BY <1>3 DEF UnfreezeRow, BurnRow, Order, SystemAccounts
<1>8. KeyNamesOrder(UnfreezeRow(o, k)) /\ KeyNamesOrder(BurnRow(o, k))
  BY <1>7 DEF KeyNamesOrder
<1>9. ASSUME NEW row, NEW ty \in {"unfreeze", "burn"},
             \/ row = UnfreezeRow(o, k) /\ ty = "unfreeze"
             \/ row = BurnRow(o, k) /\ ty = "burn",
             Post(row)
      PROVE  Insert(row) \/ (rows' = rows /\ balance' = balance /\ ReplayedFor(o, ty))
  <2>1. CASE IsReplay(row) /\ UNCHANGED ledgerVars
    <3>1. PICK i \in DOMAIN rows :
            /\ rows[i].key = row.key /\ rows[i].type = ty
            /\ rows[i].amount = row.amount /\ rows[i].target = row.target
      BY <1>7, <1>9, <2>1 DEF IsReplay, RowsWithKey, SameMovement
    <3>2. KeyNamesOrder(rows[i])
      BY DEF KeysNameOrders
    <3>3. rows[i].order # o
      BY <1>5, <3>1 DEF HasOrderRow
    <3>4. rows[i].key \in Keys
      BY <1>7, <1>9, <3>1, <3>2, <3>3 DEF KeyNamesOrder
    <3> QED
      BY <1>7, <1>9, <2>1, <3>1, <3>3, <3>4 DEF ReplayedFor, ledgerVars
  <2> QED
    BY <1>9, <2>1 DEF Post
<1>10. CASE CommitCancel(s)
  <2>1. /\ Post(UnfreezeRow(o, k))
        /\ orders' = [orders EXCEPT ![o].status = "cancelled"]
        /\ settlements' = settlements
    BY <1>1, <1>10 DEF CommitCancel
  <2>2. \/ Insert(UnfreezeRow(o, k))
        \/ rows' = rows /\ balance' = balance /\ ReplayedFor(o, "unfreeze")
    BY <1>9, <2>1
  <2>3. Closes(o, "unfreeze", "cancelled", UnfreezeRow(o, k))
    BY <1>2, <1>3, <1>5, <1>6, <1>7, <1>8, <2>1, <2>2 DEF Closes
  <2> QED
    BY <2>3
<1>11. CASE CommitFulfill(s)
  <2>1. /\ Post(BurnRow(o, k))
        /\ orders' = [orders EXCEPT ![o].status = "fulfilled"]
        /\ settlements' = IF orders[o].merchant \in Merchants
                          THEN settlements \cup {o} ELSE settlements
    BY <1>1, <1>11 DEF CommitFulfill
  <2>2. \/ Insert(BurnRow(o, k))
        \/ rows' = rows /\ balance' = balance /\ ReplayedFor(o, "burn")
    BY <1>9, <2>1
  <2>3. Closes(o, "burn", "fulfilled", BurnRow(o, k))
    BY <1>2, <1>3, <1>5, <1>6, <1>7, <1>8, <2>1, <2>2 DEF Closes
  <2> QED
    BY <2>3
<1> QED
  BY <1>10, <1>11

\* The closed order, and the others.
LEMMA ClosedOrder ==
    ASSUME TypeOK, NEW o, NEW ty, NEW st, NEW row, Closes(o, ty, st, row)
    PROVE  /\ \A p \in OrderIds \ {o} : orders'[p] = orders[p]
           /\ orders'[o] # Absent /\ orders'[o].status = st
           /\ orders'[o].amount = orders[o].amount
           /\ orders'[o].member = orders[o].member
           /\ orders'[o].merchant = orders[o].merchant
<1>1. o \in OrderIds /\ orders[o] \in Order /\ st \in {"cancelled", "fulfilled"}
  BY DEF Closes
<1>2. orders'[o] = [orders[o] EXCEPT !.status = st]
  BY <1>1 DEF Closes, TypeOK
<1>3. /\ orders'[o].status = st /\ orders'[o].amount = orders[o].amount
      /\ orders'[o].member = orders[o].member
      /\ orders'[o].merchant = orders[o].merchant
  BY <1>1, <1>2 DEF Order
<1>4. \A p \in OrderIds \ {o} : orders'[p] = orders[p]
  BY <1>1 DEF Closes, TypeOK
<1> QED
  BY <1>1, <1>3, <1>4 DEF Absent

\* Closing leaves an order settled as its status says.
LEMMA SettleStep ==
    ASSUME TypeOK, KeysNameOrders, OrderGuarded, OrderSettledOnce, NEW s \in Sessions,
           CommitCancel(s) \/ CommitFulfill(s)
    PROVE  KeysNameOrders' /\ OrderSettledOnce'
<1>1. PICK o, ty, st, row : Closes(o, ty, st, row)
  BY Closing
<1>2. /\ \A p \in OrderIds \ {o} : orders'[p] = orders[p]
      /\ orders'[o] # Absent /\ orders'[o].status = st
      /\ orders'[o].amount = orders[o].amount /\ orders'[o].member = orders[o].member
      /\ orders'[o].merchant = orders[o].merchant
  BY <1>1, ClosedOrder
<1>3. /\ o \in OrderIds /\ orders[o] \in Order /\ row.type = ty /\ row.order = o
      /\ \/ ty = "unfreeze" /\ st = "cancelled"
         \/ ty = "burn" /\ st = "fulfilled"
      /\ ~HasOrderRow(o, "unfreeze") /\ ~HasOrderRow(o, "burn")
      /\ o \in settlements' <=> st = "fulfilled" /\ orders[o].merchant \in Merchants
      /\ \A p \in OrderIds \ {o} : p \in settlements' <=> p \in settlements
  BY <1>1 DEF Closes
<1>4. HasOrderRow(o, "consume")
  BY <1>3 DEF OrderSettledOnce, SettledAsStatus, Order, Absent
<1>5. /\ KeysNameOrders' /\ OneRowEach' /\ RowsStay
      /\ \A p, type : HasOrderRow(p, type)' =>
            HasOrderRow(p, type) \/ (type = ty /\ p = o)
      /\ \A p, type : HasOrderRow(p, type) => HasOrderRow(p, type)'
      /\ HasOrderRow(o, ty)' \/ ReplayedFor(o, ty)
  <2>0. OneRowEach
    BY DEF OrderSettledOnce
  <2>1. CASE Insert(row)
    <3>1. row \in Row /\ KeyNamesOrder(row) /\ ~HasOrderRow(row.order, row.type)
      BY <1>1, <1>3 DEF Closes
    <3> QED
      BY <1>3, <2>0, <2>1, <3>1, InsertOrderRow
  <2>2. CASE rows' = rows /\ ReplayedFor(o, ty)
    BY <2>0, <2>2 DEF KeysNameOrders, OneRowEach, RowsStay, HasOrderRow
  <2> QED
    BY <1>1, <2>1, <2>2 DEF Closes
<1>6. ReplayedFor(o, ty) => ReplayedFor(o, ty)'
  BY <1>2, <1>5 DEF ReplayedFor, RowsStay
<1>7. SettledAsStatus(o)'
  BY <1>2, <1>3, <1>4, <1>5, <1>6 DEF SettledAsStatus
<1>8. ASSUME NEW p \in OrderIds \ {o} PROVE SettledAsStatus(p)'
  BY <1>2, <1>3, <1>5, OrderKept DEF OrderSettledOnce
<1> QED
  BY <1>5, <1>7, <1>8 DEF OrderSettledOnce

\* report_redemption_failure moves nothing: the order stays open.
LEMMA ReportStep ==
    ASSUME TypeOK, KeysNameOrders, OrderGuarded, OrderSettledOnce, NEW s \in Sessions,
           CommitReport(s)
    PROVE  KeysNameOrders' /\ OrderSettledOnce'
<1>0. PICK o \in OrderIds : o = sess[s].ref
  BY PostingType DEF CommitReport
<1>1. orders[o] # Absent /\ orders[o].status = "pending"
  BY <1>0, PostingType DEF CommitReport, Posting, OrderGuarded
<1>2. /\ \A p \in OrderIds \ {o} : orders'[p] = orders[p]
      /\ orders'[o].status = "disputed" /\ orders'[o] # Absent
      /\ rows' = rows /\ settlements' = settlements
  BY <1>0, <1>1, StatusType DEF CommitReport, TypeOK, Order
<1>3. KeysNameOrders' /\ OneRowEach' /\ RowsStay
  BY <1>2, OtherRows DEF OrderSettledOnce
<1>6. \A p, type : HasOrderRow(p, type)' <=> HasOrderRow(p, type)
  BY <1>2 DEF HasOrderRow
<1>4. ASSUME NEW p \in OrderIds \ {o} PROVE SettledAsStatus(p)'
  BY <1>2, <1>3, <1>6, OrderKept DEF OrderSettledOnce
<1>5. SettledAsStatus(o)'
  <2>1. SettledAsStatus(o)
    BY DEF OrderSettledOnce
  <2>2. /\ HasOrderRow(o, "consume")' /\ ~HasOrderRow(o, "unfreeze")'
        /\ ~HasOrderRow(o, "burn")' /\ o \notin settlements'
    BY <1>1, <1>2, <1>6, <2>1 DEF SettledAsStatus
  <2> QED
    BY <1>2, <2>2 DEF SettledAsStatus
<1> QED
  BY <1>3, <1>4, <1>5 DEF OrderSettledOnce

\* Every step settles an order once or not at all.
LEMMA OrderStep ==
    ASSUME TypeOK, LockExclusive, OrderInv, [Next]_vars
    PROVE  OrderInv'
<1> USE MemberCreditsAssumption DEF OrderInv
<1>1. ASSUME UNCHANGED <<orders, settlements>>,
             \/ rows' = rows
             \/ \E row \in Row : row.type \notin OrderRowTypes /\ Insert(row)
             \/ DOMAIN rows' = DOMAIN rows /\ RowsStay
      PROVE  KeysNameOrders' /\ OrderSettledOnce'
  <2>1. OneRowEach
    BY DEF OrderSettledOnce
  <2> QED
    BY <1>1, <2>1, OtherRows, NothingSettled
<1>2. CASE PassiveDeduct
  <2>1. PICK n \in Members, a \in Amounts, k \in Keys \cup {NoKey} :
          Insert([type |-> "correction", amount |-> a, source |-> n,
                  target |-> "burn", task |-> NoTask, order |-> NoOrder,
                  reverses |-> 0, key |-> k])
    BY <1>2 DEF PassiveDeduct
  <2> DEFINE row == [type |-> "correction", amount |-> a, source |-> n,
                     target |-> "burn", task |-> NoTask, order |-> NoOrder,
                     reverses |-> 0, key |-> k]
  <2>2. row \in Row /\ row.type \notin OrderRowTypes
    BY DEF Row, RowKeys, TransactionTypes, SystemAccounts, OrderRowTypes
  <2>3. UNCHANGED <<orders, settlements>>
    BY <1>2 DEF PassiveDeduct
  <2> HIDE DEF row
  <2>4. Insert(row)
    BY <2>1 DEF row
  <2> QED
    BY <1>1, <2>2, <2>3, <2>4, OrderGuardStep
<1>3. ASSUME NEW s \in Sessions, CommitTransfer(s)
      PROVE  KeysNameOrders' /\ OrderSettledOnce'
  <2>1. sess[s] \in SpendRequest
    BY <1>3, PostingType DEF CommitTransfer
  <2> DEFINE row == [type |-> "transfer", amount |-> sess[s].amount,
                     source |-> sess[s].who, target |-> sess[s].peer,
                     task |-> NoTask, order |-> NoOrder, reverses |-> 0,
                     key |-> sess[s].key]
  <2>2. row \in Row /\ row.type \notin OrderRowTypes
    BY <2>1 DEF SpendRequest, Row, RowKeys, TransactionTypes, OrderRowTypes
  <2>3. Post(row) /\ UNCHANGED <<orders, settlements>>
    BY <1>3 DEF CommitTransfer
  <2> HIDE DEF row
  <2> QED
    BY <1>1, <2>2, <2>3 DEF Post, ledgerVars
<1>4. ASSUME NEW s \in Sessions, CommitReversal(s)
      PROVE  KeysNameOrders' /\ OrderSettledOnce'
  <2>1. sess[s].ref \in DOMAIN rows /\ sess[s].key \in Keys \cup {NoKey}
    BY <1>4, PostingType DEF CommitReversal
  <2> DEFINE row == ReversalRow(sess[s].ref, sess[s].key)
  <2>2. row \in Row /\ row.type \notin OrderRowTypes
    BY <2>1, ReversalRowTyped DEF ReversalRow, OrderRowTypes
  <2>3. UNCHANGED <<orders, settlements>>
    BY <1>4 DEF CommitReversal
  <2>4. CASE Insert(row)
    <3> HIDE DEF row
    <3> QED
      BY <1>1, <2>2, <2>3, <2>4
  <2>5. CASE rows' = [i \in DOMAIN rows |->
                        IF i \in RowsWithKey(sess[s].key)
                        THEN [rows[i] EXCEPT !.reverses = sess[s].ref]
                        ELSE rows[i]]
    <3>1. \A x \in Row : LET y == [x EXCEPT !.reverses = sess[s].ref]
                         IN  /\ y.type = x.type /\ y.order = x.order /\ y.key = x.key
                             /\ y.amount = x.amount /\ y.target = x.target
      BY DEF Row
    <3>2. DOMAIN rows' = DOMAIN rows /\ RowsStay
      BY <2>5, <3>1 DEF TypeOK, RowsStay
    <3> QED
      BY <1>1, <2>3, <3>2
  <2> QED
    BY <1>4, <2>4, <2>5 DEF CommitReversal
<1>5. ASSUME UNCHANGED <<rows, orders, settlements>>
      PROVE  KeysNameOrders' /\ OrderSettledOnce'
  BY <1>1, <1>5
<1> QED
  BY <1>2, <1>3, <1>4, <1>5, RedemptionStep, SettleStep, ReportStep, OrderGuardStep
  DEF Next, SessionStep, vars, RequestTransfer, RequestRedemption, RequestOnOrder,
      RequestReversal, Begin, Acquire, Decline, Rollback

\* The inductive invariant of the orders, as a theorem of its own.
LEMMA OrdersInvariant == Spec => []OrderInv
<1>1. Init => OrderInv
  <2> SUFFICES ASSUME Init PROVE OrderInv
    OBVIOUS
  <2>1. KeysNameOrders /\ OrderGuarded
    BY DEF Init, Idle, KeysNameOrders, OrderGuarded
  <2>2. OrderSettledOnce
    BY DEF Init, OrderSettledOnce, OneRowEach, SettledAsStatus, HasOrderRow, Absent
  <2> QED
    BY <2>1, <2>2 DEF OrderInv
<1>2. IInv /\ OrderInv /\ [Next]_vars => OrderInv'
  BY OrderStep DEF IInv
<1> QED
  BY <1>1, <1>2, SpecIInv, PTL DEF Spec

\* An order's credits are frozen once and leave the frozen account at most once, as
\* its status says, whatever is retried, raced or rolled back; only a key that was
\* another order's closes an order without moving them.
THEOREM OrdersSettled == Spec => []OrderSettledOnce
<1>1. OrderInv => OrderSettledOnce
  BY DEF OrderInv
<1> QED
  BY <1>1, OrdersInvariant, PTL

-----------------------------------------------------------------------------
(***************************************************************************)
(* Sums over finite sets.  SumFunctionOnSet(f, S) takes one element after  *)
(* another, each time the one CHOOSE names; so that the order does not     *)
(* matter is proved here once, by taking a minimal counterexample.         *)
(***************************************************************************)

\* The element that is counted first.
First(T) == CHOOSE x \in T : TRUE

\* g is the table of the sums of f over the subsets of S.
SumTable(g, f, S) ==
    g = [T \in SUBSET S |-> IF T = {} THEN 0 ELSE f[First(T)] + g[T \ {First(T)}]]

\* The summands over S are integers; the table of their sums is one of integers and
\* gives the sums over all subsets.
IntOn(f, S) == \A x \in S : f[x] \in Int
IntTable(g, f, S) == SumTable(g, f, S) /\ g \in [SUBSET S -> Int]
SumsBy(g, f, S) == IntTable(g, f, S) /\ \A T \in SUBSET S : SumFunctionOnSet(f, T) = g[T]

\* Two tables agree below X, a table recurs at T, one more summand adds its value.
Agree(g, h, X) == \A T \in SUBSET X : g[T] = h[T]
Recurs(g, f, T) ==
    /\ T = {} => g[T] = 0
    /\ T # {} => g[T] = f[First(T)] + g[T \ {First(T)}]
Adds(g, f, D) == \A T \in SUBSET D : \A y \in D \ T : g[T \cup {y}] = g[T] + f[y]

\* T is a member of B none of whose proper subsets is.
Minimal(T, B) == T \in B /\ \A U \in B : U \subseteq T => U = T

\* SumFunctionOnSet, spelt out.
LEMMA SumDef ==
    ASSUME NEW f, NEW S
    PROVE  SumFunctionOnSet(f, S) = (CHOOSE g : SumTable(g, f, S))[S]
BY DEF SumFunctionOnSet, FoldFunctionOnSet, MapThenFoldSet, SumTable, First

\* A set of finite sets that is not empty has a minimal element.
LEMMA MinimalSubset ==
    ASSUME NEW S, IsFiniteSet(S), NEW B \in SUBSET (SUBSET S), B # {}
    PROVE  \E T : Minimal(T, B)
<1>1. IsWellFoundedOn(StrictSubsetOrdering(S), SUBSET S)
  BY FS_StrictSubsetOrderingWellFounded, FS_FiniteSubsetsOfFinite
<1>2. PICK T \in B : \A U \in B : ~(<<U, T>> \in StrictSubsetOrdering(S))
  BY <1>1, WFMin
<1> QED
  BY <1>2 DEF StrictSubsetOrdering, Minimal

\* The first element is one of the set.
LEMMA FirstIn == \A T : T # {} => First(T) \in T
BY DEF First

\* What a table says of one set.
LEMMA TableAt ==
    ASSUME NEW g, NEW f, NEW S, SumTable(g, f, S), NEW T \in SUBSET S
    PROVE  Recurs(g, f, T)
BY DEF SumTable, Recurs

\* Tables of the same summands agree where both are defined.
LEMMA SumTablesAgree ==
    ASSUME NEW f, NEW g, NEW h, NEW S, NEW R, IsFiniteSet(S), SumTable(g, f, S), SumTable(h, f, R)
    PROVE  Agree(g, h, S \cap R)
<1> DEFINE B == {T \in SUBSET (S \cap R) : g[T] # h[T]}
<1>1. ASSUME B # {} PROVE FALSE
  <2>1. B \in SUBSET (SUBSET S)
    OBVIOUS
  <2>2. PICK T : Minimal(T, B)
    <3> HIDE DEF B
    <3> QED
      BY <1>1, <2>1, MinimalSubset, Zenon
  <2>3. T \in SUBSET (S \cap R) /\ g[T] # h[T]
    BY <2>2 DEF Minimal
  <2>4. /\ T = {} => g[T] = 0 /\ h[T] = 0
        /\ T # {} => /\ g[T] = f[First(T)] + g[T \ {First(T)}]
                     /\ h[T] = f[First(T)] + h[T \ {First(T)}]
    <3>1. T \in SUBSET S /\ T \in SUBSET R
      BY <2>3
    <3> HIDE DEF B
    <3>2. Recurs(g, f, T) /\ Recurs(h, f, T)
      BY <3>1, TableAt, Zenon
    <3> QED
      BY <3>2 DEF Recurs
  <2>5. T # {} => g[T \ {First(T)}] = h[T \ {First(T)}]
    <3> SUFFICES ASSUME T # {} PROVE g[T \ {First(T)}] = h[T \ {First(T)}]
      OBVIOUS
    <3> DEFINE U == T \ {First(T)}
    <3>1. U \subseteq T /\ U # T /\ U \in SUBSET (S \cap R)
      BY <2>3, FirstIn
    <3>2. U \notin B
      BY <2>2, <3>1 DEF Minimal
    <3> HIDE DEF U
    <3>3. g[U] = h[U]
      BY <3>1, <3>2
    <3> QED
      BY <3>3 DEF U
  <2> HIDE DEF B
  <2> QED
    BY <2>3, <2>4, <2>5
<1> QED
  BY <1>1 DEF Agree

\* One step of a table: the tables of the smaller sets give the table of T.
LEMMA TableStep ==
    ASSUME NEW f, NEW T, IsFiniteSet(T), IntOn(f, T),
           \A U \in SUBSET T : U # T => \E g : IntTable(g, f, U)
    PROVE  \E g : IntTable(g, f, T)
<1> DEFINE tab(U) == CHOOSE g : IntTable(g, f, U)
           step(U) == f[First(U)] + tab(U \ {First(U)})[U \ {First(U)}]
           h == [U \in SUBSET T |-> IF U = {} THEN 0 ELSE step(U)]
<1>1. \A U \in SUBSET T : U # T => IntTable(tab(U), f, U)
  BY Zenon
<1> HIDE DEF tab
<1>2. \A U \in SUBSET T : U # T => SumTable(tab(U), f, U) /\ tab(U) \in [SUBSET U -> Int]
  BY <1>1, Zenon DEF IntTable
<1>3. ASSUME NEW U \in SUBSET T, U # {}
      PROVE  /\ U \ {First(U)} \in SUBSET T /\ U \ {First(U)} # T
             /\ First(U) \in T /\ step(U) \in Int
  <2>1. First(U) \in U
    BY <1>3, FirstIn
  <2> DEFINE V == U \ {First(U)}
  <2>2. V \in SUBSET T /\ V # T /\ V \in SUBSET V
    BY <2>1
  <2>3. f[First(U)] \in Int
    BY <2>1 DEF IntOn
  <2> HIDE DEF V
  <2>4. tab(V) \in [SUBSET V -> Int]
    BY <1>2, <2>2
  <2>5. tab(V)[V] \in Int
    BY <2>2, <2>4
  <2>6. f[First(U)] + tab(V)[V] \in Int
    BY <2>3, <2>5
  <2>7. step(U) \in Int
    BY <2>6 DEF V
  <2> QED
    BY <2>1, <2>2, <2>7 DEF V
<1> HIDE DEF step
<1>4. \A U \in SUBSET T : /\ U = {} => h[U] = 0
                          /\ U # {} => h[U] = step(U)
  OBVIOUS
<1>5. h \in [SUBSET T -> Int]
  BY <1>3
<1>6. h = [U \in SUBSET T |-> h[U]]
  OBVIOUS
<1> HIDE DEF h
<1>7. ASSUME NEW U \in SUBSET T, U # T PROVE h[U] = tab(U)[U]
  <2>1. SumTable(tab(U), f, U) /\ U \in SUBSET U
    BY <1>2, <1>7
  <2>2. /\ U = {} => tab(U)[U] = 0
        /\ U # {} => tab(U)[U] = f[First(U)] + tab(U)[U \ {First(U)}]
    <3>1. Recurs(tab(U), f, U)
      BY <2>1, TableAt, Zenon
    <3> QED
      BY <3>1 DEF Recurs
  <2>3. CASE U = {}
    BY <1>4, <2>2, <2>3
  <2>4. CASE U # {}
    <3> DEFINE V == U \ {First(U)}
    <3>1. V \in SUBSET (U \cap V) /\ V \in SUBSET T /\ V # T
      BY <1>3, <2>4
    <3>2. SumTable(tab(V), f, V) /\ IsFiniteSet(U)
      <4> HIDE DEF V
      <4> QED
        BY <1>2, <3>1, FS_Subset
    <3>3. tab(U)[V] = tab(V)[V]
      <4> HIDE DEF V
      <4>1. Agree(tab(U), tab(V), U \cap V)
        BY <2>1, <3>2, SumTablesAgree, Zenon
      <4> QED
        BY <3>1, <4>1 DEF Agree
    <3>4. h[U] = f[First(U)] + tab(V)[V]
      BY <1>4, <2>4 DEF step
    <3>5. tab(U)[U] = f[First(U)] + tab(U)[V]
      BY <2>2, <2>4
    <3> HIDE DEF V
    <3> QED
      BY <3>3, <3>4, <3>5
  <2> QED
    BY <2>3, <2>4
<1>8. ASSUME NEW U \in SUBSET T, U # {}
      PROVE  h[U] = f[First(U)] + h[U \ {First(U)}]
  <2> DEFINE V == U \ {First(U)}
  <2>1. V \in SUBSET T /\ V # T
    BY <1>3, <1>8
  <2>2. h[U] = f[First(U)] + tab(V)[V]
    BY <1>4, <1>8 DEF step
  <2>3. h[V] = tab(V)[V]
    <3> HIDE DEF V
    <3> QED
      BY <1>7, <2>1
  <2> QED
    BY <2>2, <2>3
<1>9. h = [U \in SUBSET T |-> IF U = {} THEN 0 ELSE f[First(U)] + h[U \ {First(U)}]]
  BY <1>4, <1>6, <1>8
<1>10. IntTable(h, f, T)
  BY <1>5, <1>9, Zenon DEF IntTable, SumTable
<1> QED
  BY <1>10, Zenon

\* Integer summands over a finite set have a table.
LEMMA TableExists ==
    ASSUME NEW S, IsFiniteSet(S), NEW f, IntOn(f, S)
    PROVE  \E g : IntTable(g, f, S)
<1> DEFINE Good(T) == \E g : IntTable(g, f, T)
           B == {T \in SUBSET S : ~Good(T)}
<1>1. ASSUME B # {} PROVE FALSE
  <2> HIDE DEF Good
  <2>1. B \in SUBSET (SUBSET S)
    OBVIOUS
  <2>2. PICK T : Minimal(T, B)
    <3> HIDE DEF B
    <3> QED
      BY <1>1, <2>1, MinimalSubset, Zenon
  <2>3. T \in SUBSET S /\ ~Good(T)
    BY <2>2 DEF Minimal
  <2>4. \A U \in SUBSET T : U # T => Good(U)
    BY <2>2, <2>3 DEF Minimal
  <2>5. IsFiniteSet(T) /\ IntOn(f, T)
    BY <2>3, FS_Subset DEF IntOn
  <2> HIDE DEF B
  <2>6. Good(T)
    BY <2>4, <2>5, TableStep, Zenon DEF Good
  <2> QED
    BY <2>3, <2>6
<1>2. S \in SUBSET S /\ S \notin B
  BY <1>1
<1>3. Good(S)
  <2> HIDE DEF Good
  <2> QED
    BY <1>2
<1> QED
  BY <1>3

\* The table the sums over the subsets of a finite set are taken from.
LEMMA SumIs ==
    ASSUME NEW S, IsFiniteSet(S), NEW f, IntOn(f, S)
    PROVE  \E g : SumsBy(g, f, S)
<1>1. PICK g : IntTable(g, f, S)
  BY TableExists, Zenon
<1>2. ASSUME NEW T \in SUBSET S PROVE SumFunctionOnSet(f, T) = g[T]
  <2>1. IsFiniteSet(T) /\ IntOn(f, T)
    BY FS_Subset DEF IntOn
  <2>2. \E h : SumTable(h, f, T)
    BY <2>1, TableExists, Zenon DEF IntTable
  <2> DEFINE h == CHOOSE k : SumTable(k, f, T)
  <2>3. SumTable(h, f, T)
    BY <2>2, Zenon
  <2>4. SumFunctionOnSet(f, T) = h[T]
    BY SumDef
  <2> HIDE DEF h
  <2>5. Agree(h, g, T \cap S)
    BY <1>1, <2>1, <2>3, SumTablesAgree, Zenon DEF IntTable
  <2>6. T \in SUBSET (T \cap S)
    OBVIOUS
  <2> QED
    BY <2>4, <2>5, <2>6 DEF Agree
<1>3. SumsBy(g, f, S)
  BY <1>1, <1>2, Zenon DEF SumsBy
<1> QED
  BY <1>3, Zenon

\* A sum over nothing is 0.
LEMMA SumEmpty == ASSUME NEW f PROVE SumFunctionOnSet(f, {}) = 0
<1>1. IsFiniteSet({}) /\ IntOn(f, {})
  BY FS_EmptySet DEF IntOn
<1>2. PICK g : SumsBy(g, f, {})
  BY <1>1, SumIs, Zenon
<1>3. SumTable(g, f, {}) /\ SumFunctionOnSet(f, {}) = g[{}] /\ {} \in SUBSET {}
  BY <1>2 DEF SumsBy, IntTable
<1> QED
  BY <1>3, TableAt DEF Recurs

\* Sums of integers are integers.
LEMMA SumInt ==
    ASSUME NEW S, IsFiniteSet(S), NEW f, IntOn(f, S)
    PROVE  SumFunctionOnSet(f, S) \in Int
<1>1. PICK g : SumsBy(g, f, S)
  BY SumIs, Zenon
<1>2. SumFunctionOnSet(f, S) = g[S] /\ g \in [SUBSET S -> Int]
  BY <1>1 DEF SumsBy, IntTable
<1> QED
  BY <1>2

\* In a table, one more summand adds its value.
LEMMA TableAdds ==
    ASSUME NEW D, IsFiniteSet(D), NEW f, IntOn(f, D), NEW g, IntTable(g, f, D)
    PROVE  Adds(g, f, D)
<1> DEFINE AddsTo(T) == \A y \in D \ T : g[T \cup {y}] = g[T] + f[y]
           B == {T \in SUBSET D : ~AddsTo(T)}
<1>1. ASSUME B # {} PROVE FALSE
  <2> HIDE DEF AddsTo
  <2>1. B \in SUBSET (SUBSET D)
    OBVIOUS
  <2>2. PICK T : Minimal(T, B)
    <3> HIDE DEF B
    <3> QED
      BY <1>1, <2>1, MinimalSubset, Zenon
  <2>3. T \in SUBSET D /\ ~AddsTo(T)
    BY <2>2 DEF Minimal
  <2>4. \A U \in SUBSET D : U \subseteq T /\ U # T => AddsTo(U)
    BY <2>2 DEF Minimal
  <2> HIDE DEF B
  <2>5. PICK y \in D \ T : g[T \cup {y}] # g[T] + f[y]
    BY <2>3 DEF AddsTo
  <2>6. \A U \in SUBSET D : g[U] \in Int
    BY DEF IntTable
  <2>7. \A x \in D : f[x] \in Int
    BY DEF IntOn
  <2> DEFINE E == T \cup {y}
             z == First(E)
  <2>8. E \in SUBSET D /\ E # {} /\ z \in E /\ z \in D
    BY <2>3, FirstIn
  <2>9. g[E] = f[z] + g[E \ {z}]
    <3> HIDE DEF E
    <3>1. SumTable(g, f, D)
      BY DEF IntTable
    <3> HIDE DEF z
    <3>2. Recurs(g, f, E)
      BY <2>8, <3>1, TableAt, Zenon
    <3> QED
      BY <2>8, <3>2 DEF z, Recurs
  <2>10. CASE z = y
    <3>1. E \ {z} = T
      BY <2>10
    <3> HIDE DEF z, E
    <3>2. g[E] = f[y] + g[T] /\ g[T] \in Int /\ f[y] \in Int
      BY <2>3, <2>6, <2>7, <2>9, <2>10, <3>1
    <3>3. g[E] # g[T] + f[y]
      BY <2>5 DEF E
    <3> QED
      BY <3>2, <3>3
  <2>11. CASE z # y
    <3> DEFINE U == T \ {z}
    <3>1. U \in SUBSET D /\ U \subseteq T /\ U # T /\ y \in D \ U /\ z \in D \ U
      BY <2>3, <2>8, <2>11
    <3>2. E \ {z} = U \cup {y} /\ T = U \cup {z}
      BY <2>8, <2>11
    <3> HIDE DEF U, z, E
    <3>3. AddsTo(U)
      BY <2>4, <3>1
    <3>4. g[U \cup {y}] = g[U] + f[y] /\ g[U \cup {z}] = g[U] + f[z]
      BY <3>1, <3>3 DEF AddsTo
    <3>5. g[E] = f[z] + (g[U] + f[y]) /\ g[T] = g[U] + f[z]
      BY <2>9, <3>2, <3>4
    <3>6. g[U] \in Int /\ f[y] \in Int /\ f[z] \in Int
      BY <2>6, <2>7, <2>8, <3>1
    <3>7. g[E] = g[T] + f[y]
      BY <3>5, <3>6
    <3> QED
      BY <2>5, <3>7 DEF E
  <2> QED
    BY <2>10, <2>11
<1> QED
  <2> HIDE DEF AddsTo
  <2>1. \A T \in SUBSET D : AddsTo(T)
    BY <1>1
  <2> QED
    BY <2>1 DEF AddsTo, Adds

\* One more summand adds its value.
LEMMA SumAdd ==
    ASSUME NEW S, IsFiniteSet(S), NEW x, x \notin S, NEW f, IntOn(f, S \cup {x})
    PROVE  SumFunctionOnSet(f, S \cup {x}) = SumFunctionOnSet(f, S) + f[x]
<1> DEFINE D == S \cup {x}
<1>1. IsFiniteSet(D) /\ IntOn(f, D) /\ S \in SUBSET D /\ D \in SUBSET D /\ x \in D \ S
  BY FS_AddElement
<1> HIDE DEF D
<1>2. PICK g : SumsBy(g, f, D)
  BY <1>1, SumIs, Zenon
<1>3. IntTable(g, f, D)
  BY <1>2 DEF SumsBy
<1>4. Adds(g, f, D)
  BY <1>1, <1>3, TableAdds, Zenon
<1>5. g[S \cup {x}] = g[S] + f[x]
  BY <1>1, <1>4 DEF Adds
<1>6. SumFunctionOnSet(f, S) = g[S] /\ SumFunctionOnSet(f, D) = g[D]
  BY <1>1, <1>2 DEF SumsBy
<1> QED
  BY <1>5, <1>6 DEF D

\* Equal summands have equal sums.
LEMMA SumCong ==
    ASSUME NEW S, IsFiniteSet(S), NEW f, NEW h, IntOn(f, S), \A x \in S : h[x] = f[x]
    PROVE  SumFunctionOnSet(h, S) = SumFunctionOnSet(f, S)
<1>1. IntOn(h, S)
  BY DEF IntOn
<1>2. PICK g : SumsBy(g, f, S)
  BY SumIs, Zenon
<1>3. PICK k : SumsBy(k, h, S)
  BY <1>1, SumIs, Zenon
<1>4. SumTable(g, f, S) /\ SumTable(k, h, S)
  BY <1>2, <1>3, Zenon DEF SumsBy, IntTable
<1>5. SumTable(k, f, S)
  <2>1. k = [T \in SUBSET S |-> IF T = {} THEN 0 ELSE h[First(T)] + k[T \ {First(T)}]]
    BY <1>4, Zenon DEF SumTable
  <2>2. \A T \in SUBSET S : T # {} => h[First(T)] = f[First(T)]
    BY FirstIn
  <2>3. k = [T \in SUBSET S |-> IF T = {} THEN 0 ELSE f[First(T)] + k[T \ {First(T)}]]
    BY <2>1, <2>2
  <2> QED
    BY <2>3, Zenon DEF SumTable
<1>6. Agree(g, k, S \cap S)
  BY <1>4, <1>5, SumTablesAgree, Zenon
<1>7. S \in SUBSET S /\ S \in SUBSET (S \cap S)
  OBVIOUS
<1>8. SumFunctionOnSet(f, S) = g[S] /\ SumFunctionOnSet(h, S) = k[S]
  BY <1>2, <1>3, <1>7, Zenon DEF SumsBy
<1> QED
  BY <1>6, <1>7, <1>8 DEF Agree

\* With x the sum over S has grown by the value of x.
Grows(h, f, S, x) == SumFunctionOnSet(h, S \cup {x}) = SumFunctionOnSet(f, S) + h[x]

\* A new summand adds its value to a sum whose other summands stay what they were.
LEMMA SumGrows ==
    ASSUME NEW S, IsFiniteSet(S), NEW x, x \notin S, NEW f, NEW h, IntOn(f, S),
           h[x] \in Int, \A y \in S : h[y] = f[y]
    PROVE  Grows(h, f, S, x)
<1>1. IntOn(h, S \cup {x})
  BY DEF IntOn
<1>2. SumFunctionOnSet(h, S \cup {x}) = SumFunctionOnSet(h, S) + h[x]
  BY <1>1, SumAdd, Zenon
<1>3. SumFunctionOnSet(h, S) = SumFunctionOnSet(f, S)
  BY SumCong, Zenon
<1> QED
  BY <1>2, <1>3 DEF Grows

-----------------------------------------------------------------------------
(* What the frozen account holds. *)

\* No row moves credits from the frozen account to itself.
NoIdleMove ==
    \A i \in DOMAIN rows : ~(rows[i].source = "frozen" /\ rows[i].target = "frozen")

FrozenInv == IsFiniteSet(HeldOrders) /\ NoIdleMove /\ FrozenBacksOrders

\* What the rows say each of them moved is an integer.
LEMMA MovesType ==
    ASSUME rows \in Seq(Row)
    PROVE  /\ IsFiniteSet(Reversals)
           /\ IntOn([i \in DOMAIN rows |-> Moved("frozen", rows[i])], Reversals)
           /\ ReversalNet("frozen") \in Int
<1>1. Len(rows) \in Nat /\ Reversals \in SUBSET (1..Len(rows))
  BY DEF Reversals
<1>2. IsFiniteSet(Reversals)
  <2>1. IsFiniteSet(1..Len(rows))
    BY <1>1, FS_Interval
  <2> QED
    BY <1>1, <2>1, FS_Subset, Zenon
<1>3. \A i \in DOMAIN rows : Moved("frozen", rows[i]) \in Int
  <2>1. \A row \in Row : Moved("frozen", row) \in Int
    BY DEF Moved, Row
  <2> QED
    BY <2>1
<1> DEFINE f == [i \in DOMAIN rows |-> Moved("frozen", rows[i])]
<1>4. IntOn(f, Reversals)
  BY <1>3 DEF IntOn, Reversals
<1> HIDE DEF f
<1>5. SumFunctionOnSet(f, Reversals) \in Int
  BY <1>2, <1>4, SumInt
<1> QED
  BY <1>2, <1>4, <1>5 DEF f, ReversalNet

\* An inserted reversal adds to what reversals moved what it moves itself; other
\* rows add nothing.
LEMMA InsertMoves ==
    ASSUME TypeOK, NEW row \in Row, Insert(row), NoIdleMove,
           ~(row.source = "frozen" /\ row.target = "frozen")
    PROVE  /\ NoIdleMove'
           /\ balance'["frozen"] = balance["frozen"] + Moved("frozen", row)
           /\ ReversalNet("frozen")' =
                ReversalNet("frozen")
                + (IF row.type = "reversal" THEN Moved("frozen", row) ELSE 0)
<1>1. /\ DOMAIN rows' = DOMAIN rows \cup {Len(rows) + 1}
      /\ Len(rows) + 1 \notin DOMAIN rows
      /\ \A i \in DOMAIN rows : rows'[i] = rows[i]
      /\ rows'[Len(rows) + 1] = row
  BY InsertedRows DEF TypeOK
<1>2. NoIdleMove'
  BY <1>1 DEF NoIdleMove
<1>3. balance'["frozen"] = balance["frozen"] + Moved("frozen", row)
  <2>1. "frozen" \in Accounts /\ balance["frozen"] \in Int /\ row.amount \in Nat
    BY MemberCreditsAssumption DEF TypeOK, SystemAccounts, Row
  <2>2. balance'["frozen"] = BalanceAfter(row, "frozen")
    BY <2>1, InsertType DEF TypeOK
  <2> QED
    BY <2>1, <2>2 DEF BalanceAfter, Moved
<1> DEFINE f == [i \in DOMAIN rows |-> Moved("frozen", rows[i])]
           h == [i \in DOMAIN rows' |-> Moved("frozen", rows'[i])]
           n == Len(rows) + 1
<1>4. /\ IsFiniteSet(Reversals) /\ IntOn(f, Reversals) /\ ReversalNet("frozen") \in Int
      /\ ReversalNet("frozen") = SumFunctionOnSet(f, Reversals)
      /\ ReversalNet("frozen")' = SumFunctionOnSet(h, Reversals')
  BY MovesType DEF TypeOK, ReversalNet
<1>5. \A i \in Reversals : h[i] = f[i]
  BY <1>1 DEF Reversals
<1>6. CASE row.type = "reversal"
  <2>1. Reversals' = Reversals \cup {n} /\ n \notin Reversals
    BY <1>1, <1>6 DEF Reversals
  <2>2. h[n] = Moved("frozen", row) /\ Moved("frozen", row) \in Int
    BY <1>1 DEF Moved, Row
  <2> HIDE DEF f, h, n
  <2>4. h[n] \in Int
    BY <2>2
  <2>3. Grows(h, f, Reversals, n)
    BY <1>4, <1>5, <2>1, <2>4, SumGrows, Zenon
  <2> QED
    BY <1>2, <1>3, <1>4, <1>6, <2>1, <2>2, <2>3 DEF Grows
<1>7. CASE row.type # "reversal"
  <2>1. Reversals' = Reversals
    BY <1>1, <1>7 DEF Reversals
  <2> HIDE DEF f, h, n
  <2>2. SumFunctionOnSet(h, Reversals) = SumFunctionOnSet(f, Reversals)
    BY <1>4, <1>5, SumCong, Zenon
  <2> QED
    BY <1>2, <1>3, <1>4, <1>7, <2>1, <2>2
<1> QED
  BY <1>6, <1>7

\* Rows that move what they moved keep the sum.
LEMMA SameMoves ==
    ASSUME TypeOK, NoIdleMove, DOMAIN rows' = DOMAIN rows,
           \A i \in DOMAIN rows :
              /\ rows'[i].type = rows[i].type /\ rows'[i].amount = rows[i].amount
              /\ rows'[i].source = rows[i].source /\ rows'[i].target = rows[i].target
    PROVE  NoIdleMove' /\ ReversalNet("frozen")' = ReversalNet("frozen")
<1>1. NoIdleMove'
  BY DEF NoIdleMove
<1> DEFINE f == [i \in DOMAIN rows |-> Moved("frozen", rows[i])]
           h == [i \in DOMAIN rows' |-> Moved("frozen", rows'[i])]
<1>2. /\ IsFiniteSet(Reversals) /\ IntOn(f, Reversals)
      /\ ReversalNet("frozen") = SumFunctionOnSet(f, Reversals)
      /\ ReversalNet("frozen")' = SumFunctionOnSet(h, Reversals')
  BY MovesType DEF TypeOK, ReversalNet
<1>3. Reversals' = Reversals
  BY DEF Reversals
<1>4. \A i \in Reversals : h[i] = f[i]
  BY DEF Reversals, Moved
<1> HIDE DEF f, h
<1>5. SumFunctionOnSet(h, Reversals) = SumFunctionOnSet(f, Reversals)
  BY <1>2, <1>4, SumCong, Zenon
<1> QED
  BY <1>1, <1>2, <1>3, <1>5

\* The credits of the held orders add up to an integer.
LEMMA HeldType ==
    ASSUME orders \in [OrderIds -> Order \cup {Absent}], IsFiniteSet(HeldOrders)
    PROVE  /\ IntOn([o \in OrderIds |-> orders[o].amount], HeldOrders)
           /\ HeldTotal \in Int
<1> DEFINE f == [o \in OrderIds |-> orders[o].amount]
<1>1. \A o \in OrderIds : orders[o].amount \in Int
  BY DEF Order, Absent
<1>2. IntOn(f, HeldOrders)
  BY <1>1 DEF IntOn, HeldOrders, OpenOrders, Stranded
<1> HIDE DEF f
<1>3. SumFunctionOnSet(f, HeldOrders) \in Int
  BY <1>2, SumInt
<1> QED
  BY <1>2, <1>3 DEF f, HeldTotal

\* An order that opens adds its amount.
LEMMA OrderOpens ==
    ASSUME TypeOK, TypeOK', IsFiniteSet(HeldOrders), NEW o \in OrderIds,
           o \notin HeldOrders, HeldOrders' = HeldOrders \cup {o},
           \A p \in OrderIds \ {o} : orders'[p] = orders[p]
    PROVE  IsFiniteSet(HeldOrders)' /\ HeldTotal' = HeldTotal + orders'[o].amount
<1> DEFINE f == [p \in OrderIds |-> orders[p].amount]
           h == [p \in OrderIds |-> orders'[p].amount]
<1>2. IntOn(f, HeldOrders) /\ HeldTotal = SumFunctionOnSet(f, HeldOrders)
      /\ HeldTotal' = SumFunctionOnSet(h, HeldOrders')
  BY HeldType DEF TypeOK, HeldTotal
<1>3. h[o] = orders'[o].amount /\ orders'[o].amount \in Int
  BY DEF TypeOK, Order, Absent
<1>4. \A p \in HeldOrders : h[p] = f[p]
  BY DEF HeldOrders, OpenOrders, Stranded
<1>5. IsFiniteSet(HeldOrders \cup {o})
  BY FS_AddElement
<1> HIDE DEF f, h
<1>7. h[o] \in Int
  BY <1>3
<1>6. Grows(h, f, HeldOrders, o)
  BY <1>2, <1>4, <1>7, SumGrows, Zenon
<1> QED
  BY <1>2, <1>3, <1>5, <1>6 DEF Grows

\* An order that lets go of its credits takes its amount with it.
LEMMA OrderCloses ==
    ASSUME TypeOK, TypeOK', IsFiniteSet(HeldOrders), NEW o \in OrderIds,
           o \notin HeldOrders', HeldOrders = HeldOrders' \cup {o},
           \A p \in OrderIds \ {o} : orders'[p] = orders[p]
    PROVE  IsFiniteSet(HeldOrders)' /\ HeldTotal = HeldTotal' + orders[o].amount
<1>2. IsFiniteSet(HeldOrders')
  BY FS_Subset
<1> DEFINE f == [p \in OrderIds |-> orders[p].amount]
           h == [p \in OrderIds |-> orders'[p].amount]
<1>3. HeldTotal = SumFunctionOnSet(f, HeldOrders)
      /\ HeldTotal' = SumFunctionOnSet(h, HeldOrders')
  BY DEF HeldTotal
<1>4. f[o] = orders[o].amount /\ orders[o].amount \in Int
  BY DEF TypeOK, Order, Absent
<1>5. \A p \in OrderIds : orders'[p].amount \in Int
  BY DEF TypeOK, Order, Absent
<1>6. IntOn(h, HeldOrders') /\ \A p \in HeldOrders' : f[p] = h[p]
  BY <1>5 DEF HeldOrders, OpenOrders, Stranded, IntOn
<1> HIDE DEF f, h
<1>7. f[o] \in Int
  BY <1>4
<1>8. Grows(f, h, HeldOrders', o)
  BY <1>2, <1>6, <1>7, SumGrows, Zenon
<1> QED
  BY <1>2, <1>3, <1>4, <1>8 DEF Grows

\* While the same orders hold the same credits, the sum stays.
LEMMA OrdersKept ==
    ASSUME TypeOK, IsFiniteSet(HeldOrders), HeldOrders' = HeldOrders,
           \A p \in OrderIds : orders'[p].amount = orders[p].amount
    PROVE  IsFiniteSet(HeldOrders)' /\ HeldTotal' = HeldTotal
<1> DEFINE f == [p \in OrderIds |-> orders[p].amount]
           h == [p \in OrderIds |-> orders'[p].amount]
<1>2. IntOn(f, HeldOrders) /\ HeldTotal = SumFunctionOnSet(f, HeldOrders)
      /\ HeldTotal' = SumFunctionOnSet(h, HeldOrders')
  BY HeldType DEF TypeOK, HeldTotal
<1>3. \A p \in HeldOrders : h[p] = f[p]
  BY DEF HeldOrders, OpenOrders, Stranded
<1> HIDE DEF f, h
<1>4. SumFunctionOnSet(h, HeldOrders) = SumFunctionOnSet(f, HeldOrders)
  BY <1>2, <1>3, SumCong, Zenon
<1> QED
  BY <1>2, <1>4

\* Which orders hold credits depends on the statuses and on the closing rows.
LEMMA HeldSame ==
    ASSUME orders' = orders,
           \A o \in OrderIds :
              /\ HasOrderRow(o, "unfreeze")' <=> HasOrderRow(o, "unfreeze")
              /\ HasOrderRow(o, "burn")' <=> HasOrderRow(o, "burn")
    PROVE  HeldOrders' = HeldOrders /\ HeldTotal' = HeldTotal
<1>1. HeldOrders' = HeldOrders
  BY DEF HeldOrders, OpenOrders, Stranded
<1> QED
  BY <1>1 DEF HeldTotal

\* The frozen account and the sums it is compared with are integers.
LEMMA FrozenTypes ==
    ASSUME TypeOK, IsFiniteSet(HeldOrders)
    PROVE  /\ balance["frozen"] \in Int /\ Opening["frozen"] \in Int
           /\ ReversalNet("frozen") \in Int /\ HeldTotal \in Int
<1>1. "frozen" \in Accounts
  BY MemberCreditsAssumption DEF SystemAccounts
<1>2. balance["frozen"] \in Int /\ Opening["frozen"] \in Int
  BY <1>1, MemberCreditsAssumption DEF TypeOK
<1>3. ReversalNet("frozen") \in Int
  BY MovesType DEF TypeOK
<1>4. HeldTotal \in Int
  BY HeldType DEF TypeOK
<1> QED
  BY <1>2, <1>3, <1>4

\* The same, to be used of the next state too.
LEMMA HeldTypes == TypeOK /\ IsFiniteSet(HeldOrders) => HeldTotal \in Int
BY FrozenTypes

\* A step that touches neither the ledger nor the orders keeps the balance backed.
LEMMA FrozenUntouched ==
    ASSUME FrozenInv, UNCHANGED <<rows, balance, orders>>
    PROVE  FrozenInv'
<1>1. HeldOrders' = HeldOrders /\ HeldTotal' = HeldTotal
  BY DEF HeldOrders, HeldTotal, OpenOrders, Stranded, HasOrderRow
<1>2. ReversalNet("frozen")' = ReversalNet("frozen")
  BY DEF ReversalNet, Reversals
<1> QED
  BY <1>1, <1>2 DEF FrozenInv, NoIdleMove, FrozenBacksOrders

\* So does a row that reverses another or stays clear of the frozen account.
LEMMA FrozenInsert ==
    ASSUME TypeOK, FrozenInv, NEW row \in Row, Insert(row), orders' = orders,
           ~(row.source = "frozen" /\ row.target = "frozen"),
           row.type \notin OrderRowTypes,
           row.type = "reversal" \/ Moved("frozen", row) = 0
    PROVE  FrozenInv'
<1>0. \A o, type : type \in {"unfreeze", "burn"} =>
         (HasOrderRow(o, type)' <=> HasOrderRow(o, type))
  BY InsertedRows DEF HasOrderRow, OrderRowTypes, TypeOK
<1>1. HeldOrders' = HeldOrders /\ HeldTotal' = HeldTotal
  BY <1>0, HeldSame
<1>2. /\ NoIdleMove'
      /\ balance'["frozen"] = balance["frozen"] + Moved("frozen", row)
      /\ ReversalNet("frozen")' =
           ReversalNet("frozen")
           + (IF row.type = "reversal" THEN Moved("frozen", row) ELSE 0)
  BY InsertMoves DEF FrozenInv
<1>3. Moved("frozen", row) \in Int
  BY DEF Moved, Row
<1>4. /\ balance["frozen"] \in Int /\ Opening["frozen"] \in Int
      /\ ReversalNet("frozen") \in Int /\ HeldTotal \in Int
  BY FrozenTypes DEF FrozenInv
<1>5. FrozenBacksOrders'
  BY <1>1, <1>2, <1>3, <1>4 DEF FrozenInv, FrozenBacksOrders
<1> QED
  BY <1>1, <1>2, <1>5 DEF FrozenInv

\* create_redemption_order: what the new row freezes is what the new order holds.
LEMMA FrozenRedemption ==
    ASSUME TypeOK, TypeOK', OrderInv, FrozenInv, NEW s \in Sessions, CommitRedemption(s)
    PROVE  FrozenInv'
<1>1. CASE UNCHANGED <<rows, balance, orders>>
  BY <1>1, FrozenUntouched
<1>2. ASSUME NEW o, NEW row, Freezes(s, o, row)
      PROVE  FrozenInv'
  <2>0. sess[s] \in RedeemRequest
    BY PostingType DEF CommitRedemption
  <2>1. /\ o \in OrderIds /\ orders[o] = Absent /\ row \in Row /\ Insert(row)
        /\ row.type = "consume" /\ row.order = o /\ row.source \in Members
        /\ row.target = "frozen" /\ row.amount = sess[s].amount
    BY <1>2 DEF Freezes
  <2>2. /\ orders'[o].status = "pending" /\ orders'[o].amount = sess[s].amount
        /\ \A p \in OrderIds \ {o} : orders'[p] = orders[p]
    BY <1>2 DEF Freezes, TypeOK
  <2>3. \A p, type : type \in {"unfreeze", "burn"} =>
           (HasOrderRow(p, type)' <=> HasOrderRow(p, type))
    <3>1. /\ DOMAIN rows' = DOMAIN rows \cup {Len(rows) + 1}
          /\ \A i \in DOMAIN rows : rows'[i] = rows[i]
          /\ rows'[Len(rows) + 1] = row
      BY <2>1, InsertedRows DEF TypeOK
    <3> QED
      BY <2>1, <3>1 DEF HasOrderRow
  <2>4. o \notin HeldOrders /\ HeldOrders' = HeldOrders \cup {o}
    BY <2>1, <2>2, <2>3 DEF HeldOrders, OpenOrders, Stranded, Open, Absent
  <2>5. IsFiniteSet(HeldOrders)' /\ HeldTotal' = HeldTotal + sess[s].amount
    BY <2>1, <2>2, <2>4, OrderOpens DEF FrozenInv
  <2>6. /\ row.source # "frozen"
        /\ Moved("frozen", row) = sess[s].amount /\ sess[s].amount \in Int
    BY <2>0, <2>1, MemberCreditsAssumption DEF Moved, SystemAccounts, RedeemRequest
  <2>7. /\ NoIdleMove' /\ ReversalNet("frozen")' = ReversalNet("frozen") + 0
        /\ balance'["frozen"] = balance["frozen"] + sess[s].amount
    BY <2>1, <2>6, InsertMoves DEF FrozenInv
  <2>8. /\ balance["frozen"] \in Int /\ Opening["frozen"] \in Int
        /\ ReversalNet("frozen") \in Int /\ HeldTotal \in Int
    BY FrozenTypes DEF FrozenInv
  <2>9. FrozenBacksOrders'
    BY <2>5, <2>6, <2>7, <2>8 DEF FrozenInv, FrozenBacksOrders
  <2> QED
    BY <2>5, <2>7, <2>9 DEF FrozenInv
<1> QED
  BY <1>1, <1>2, Freezing DEF OrderInv

\* cancel_redemption_order and fulfill_redemption_order: the credits leave with the
\* order's own row.  Closed by another order's row, the order is stranded with them.
LEMMA FrozenSettle ==
    ASSUME TypeOK, TypeOK', OrderInv, FrozenInv, NEW s \in Sessions,
           CommitCancel(s) \/ CommitFulfill(s)
    PROVE  FrozenInv'
<1>1. PICK o, ty, st, row : Closes(o, ty, st, row)
  BY Closing DEF OrderInv
<1>2. /\ \A p \in OrderIds \ {o} : orders'[p] = orders[p]
      /\ orders'[o].status = st /\ orders'[o].amount = orders[o].amount
  BY <1>1, ClosedOrder
<1>3. /\ o \in OrderIds /\ orders[o] \in Order /\ orders[o].status \in Open
      /\ st \in {"cancelled", "fulfilled"} /\ ty \in {"unfreeze", "burn"}
      /\ ~HasOrderRow(o, "unfreeze") /\ ~HasOrderRow(o, "burn")
      /\ row \in Row /\ row.type = ty /\ row.order = o
      /\ row.amount = orders[o].amount /\ row.source = "frozen" /\ row.target # "frozen"
  BY <1>1 DEF Closes
<1>4. o \in HeldOrders /\ orders'[o].status \notin Open
  BY <1>2, <1>3 DEF HeldOrders, OpenOrders, Open
<1>5. CASE Insert(row)
  <2>1. \A p, type : HasOrderRow(p, type)' <=>
           HasOrderRow(p, type) \/ (row.type = type /\ row.order = p)
    <3>1. /\ DOMAIN rows' = DOMAIN rows \cup {Len(rows) + 1}
          /\ \A i \in DOMAIN rows : rows'[i] = rows[i]
          /\ rows'[Len(rows) + 1] = row
      BY <1>3, <1>5, InsertedRows DEF TypeOK
    <3> QED
      BY <3>1 DEF HasOrderRow
  <2>2. o \notin HeldOrders'
    BY <1>3, <1>4, <2>1 DEF HeldOrders, OpenOrders, Stranded
  <2>3. \A p \in OrderIds \ {o} : p \in HeldOrders' <=> p \in HeldOrders
    BY <1>2, <1>3, <2>1 DEF HeldOrders, OpenOrders, Stranded
  <2>4. HeldOrders \subseteq OrderIds /\ HeldOrders' \subseteq OrderIds
    BY DEF HeldOrders, OpenOrders, Stranded
  <2>5. HeldOrders = HeldOrders' \cup {o}
    BY <1>4, <2>3, <2>4
  <2>6. IsFiniteSet(HeldOrders)' /\ HeldTotal = HeldTotal' + orders[o].amount
    BY <1>2, <1>3, <2>2, <2>5, OrderCloses DEF FrozenInv
  <2>7. Moved("frozen", row) = -orders[o].amount /\ orders[o].amount \in Int
    BY <1>3 DEF Moved, Order
  <2>8. /\ NoIdleMove' /\ ReversalNet("frozen")' = ReversalNet("frozen") + 0
        /\ balance'["frozen"] = balance["frozen"] + Moved("frozen", row)
    BY <1>3, <1>5, InsertMoves DEF FrozenInv
  <2>9. /\ balance["frozen"] \in Int /\ Opening["frozen"] \in Int
        /\ ReversalNet("frozen") \in Int /\ HeldTotal \in Int
    BY FrozenTypes DEF FrozenInv
  <2>10. HeldTotal' \in Int
    <3>1. (TypeOK /\ IsFiniteSet(HeldOrders) => HeldTotal \in Int)'
      BY HeldTypes, PTL
    <3> QED
      BY <2>6, <3>1
  <2>11. FrozenBacksOrders'
    BY <2>6, <2>7, <2>8, <2>9, <2>10 DEF FrozenInv, FrozenBacksOrders
  <2> QED
    BY <2>6, <2>8, <2>11 DEF FrozenInv
<1>6. CASE rows' = rows /\ balance' = balance
  <2>1. \A p, type : HasOrderRow(p, type)' <=> HasOrderRow(p, type)
    BY <1>6 DEF HasOrderRow
  <2>2. \A p \in OrderIds \ {o} : p \in HeldOrders' <=> p \in HeldOrders
    BY <1>2, <2>1 DEF HeldOrders, OpenOrders, Stranded
  <2>3. o \in HeldOrders'
    BY <1>2, <1>3, <2>1 DEF HeldOrders, Stranded
  <2>4. HeldOrders \subseteq OrderIds /\ HeldOrders' \subseteq OrderIds
    BY DEF HeldOrders, OpenOrders, Stranded
  <2>5. HeldOrders' = HeldOrders
    BY <1>4, <2>2, <2>3, <2>4
  <2>6. IsFiniteSet(HeldOrders)' /\ HeldTotal' = HeldTotal
    BY <1>2, <2>5, OrdersKept DEF FrozenInv
  <2>7. ReversalNet("frozen")' = ReversalNet("frozen")
    BY <1>6 DEF ReversalNet, Reversals
  <2> QED
    BY <1>6, <2>6, <2>7 DEF FrozenInv, NoIdleMove, FrozenBacksOrders
<1> QED
  BY <1>1, <1>5, <1>6 DEF Closes

\* report_redemption_failure leaves the order open with what it holds.
LEMMA FrozenReport ==
    ASSUME TypeOK, OrderInv, FrozenInv, NEW s \in Sessions, CommitReport(s)
    PROVE  FrozenInv'
<1> DEFINE o == sess[s].ref
<1>1. o \in OrderIds /\ orders[o] # Absent /\ orders[o].status = "pending"
  BY PostingType DEF CommitReport, Posting, OrderInv, OrderGuarded
<1>2. orders[o] \in Order
  BY <1>1 DEF TypeOK
<1>3. orders'[o] = [orders[o] EXCEPT !.status = "disputed"]
      /\ \A p \in OrderIds \ {o} : orders'[p] = orders[p]
  BY <1>1 DEF CommitReport, TypeOK
<1>4. orders'[o].status = "disputed" /\ orders'[o].amount = orders[o].amount
  BY <1>2, <1>3 DEF Order
<1> HIDE DEF o
<1>5. \A p \in OrderIds : /\ orders'[p].status \in Open <=> orders[p].status \in Open
                          /\ orders'[p].amount = orders[p].amount
  BY <1>1, <1>3, <1>4 DEF Open
<1>7. rows' = rows /\ balance' = balance
  BY DEF CommitReport
<1>9. HeldOrders' = HeldOrders
  <2>1. \A p, type : HasOrderRow(p, type)' <=> HasOrderRow(p, type)
    BY <1>7 DEF HasOrderRow
  <2>2. \A p \in OrderIds : p \in Stranded' <=> p \in Stranded
    BY <1>1, <1>3, <1>4, <2>1 DEF Stranded
  <2>3. Stranded' = Stranded
    BY <2>2 DEF Stranded
  <2> QED
    BY <1>5, <2>3 DEF HeldOrders, OpenOrders
<1>6. IsFiniteSet(HeldOrders)' /\ HeldTotal' = HeldTotal
  BY <1>5, <1>9, OrdersKept DEF FrozenInv
<1>8. ReversalNet("frozen")' = ReversalNet("frozen")
  BY <1>7 DEF ReversalNet, Reversals
<1> QED
  BY <1>6, <1>7, <1>8 DEF FrozenInv, NoIdleMove, FrozenBacksOrders

\* reverse_credit_transaction: the reversal counts as one, and pointing a row at
\* another original moves nothing.
LEMMA FrozenReversal ==
    ASSUME TypeOK, FrozenInv, NEW s \in Sessions, CommitReversal(s)
    PROVE  FrozenInv'
<1>1. sess[s].ref \in DOMAIN rows /\ sess[s].key \in Keys \cup {NoKey}
  BY PostingType DEF CommitReversal
<1> DEFINE row == ReversalRow(sess[s].ref, sess[s].key)
<1>2. row \in Row
  BY <1>1, ReversalRowTyped
<1>3. /\ row.type = "reversal" /\ row.type \notin OrderRowTypes
      /\ ~(row.source = "frozen" /\ row.target = "frozen")
  BY <1>1 DEF ReversalRow, FrozenInv, NoIdleMove, OrderRowTypes
<1>4. orders' = orders
  BY DEF CommitReversal
<1>5. CASE Insert(row)
  <2> HIDE DEF row
  <2> QED
    BY <1>2, <1>3, <1>4, <1>5, FrozenInsert
<1>6. CASE /\ rows' = [i \in DOMAIN rows |->
                         IF i \in RowsWithKey(sess[s].key)
                         THEN [rows[i] EXCEPT !.reverses = sess[s].ref]
                         ELSE rows[i]]
           /\ balance' = balance
  <2>1. \A x \in Row : LET y == [x EXCEPT !.reverses = sess[s].ref]
                       IN  /\ y.type = x.type /\ y.amount = x.amount
                           /\ y.source = x.source /\ y.target = x.target
                           /\ y.order = x.order
    BY DEF Row
  <2>2. /\ DOMAIN rows' = DOMAIN rows
        /\ \A i \in DOMAIN rows :
             /\ rows'[i].type = rows[i].type /\ rows'[i].amount = rows[i].amount
             /\ rows'[i].source = rows[i].source /\ rows'[i].target = rows[i].target
             /\ rows'[i].order = rows[i].order
    BY <1>6, <2>1 DEF TypeOK
  <2>3. NoIdleMove' /\ ReversalNet("frozen")' = ReversalNet("frozen")
    BY <2>2, SameMoves DEF FrozenInv
  <2>5. \A o, type : HasOrderRow(o, type)' <=> HasOrderRow(o, type)
    BY <2>2 DEF HasOrderRow
  <2>4. HeldOrders' = HeldOrders /\ HeldTotal' = HeldTotal
    BY <1>4, <2>5, HeldSame
  <2> QED
    BY <1>6, <2>3, <2>4 DEF FrozenInv, FrozenBacksOrders
<1> QED
  BY <1>5, <1>6 DEF CommitReversal

\* Every step keeps the frozen account backed by the open orders.
LEMMA FrozenStep ==
    ASSUME TypeOK, OrderInv, FrozenInv, [Next]_vars
    PROVE  FrozenInv'
<1> USE MemberCreditsAssumption
<1>t. TypeOK'
  BY TypeStep
<1>1. CASE PassiveDeduct
  <2>1. PICK n \in Members, a \in Amounts, k \in Keys \cup {NoKey} :
          Insert([type |-> "correction", amount |-> a, source |-> n,
                  target |-> "burn", task |-> NoTask, order |-> NoOrder,
                  reverses |-> 0, key |-> k])
    BY <1>1 DEF PassiveDeduct
  <2> DEFINE row == [type |-> "correction", amount |-> a, source |-> n,
                     target |-> "burn", task |-> NoTask, order |-> NoOrder,
                     reverses |-> 0, key |-> k]
  <2>2. /\ row \in Row /\ row.source # "frozen" /\ Moved("frozen", row) = 0
        /\ row.type \notin OrderRowTypes
    BY DEF Row, RowKeys, TransactionTypes, SystemAccounts, Moved, OrderRowTypes
  <2>3. orders' = orders
    BY <1>1 DEF PassiveDeduct
  <2> HIDE DEF row
  <2>4. Insert(row)
    BY <2>1 DEF row
  <2> QED
    BY <2>2, <2>3, <2>4, FrozenInsert
<1>2. ASSUME NEW s \in Sessions, CommitTransfer(s)
      PROVE  FrozenInv'
  <2>1. sess[s] \in SpendRequest
    BY <1>2, PostingType DEF CommitTransfer
  <2> DEFINE row == [type |-> "transfer", amount |-> sess[s].amount,
                     source |-> sess[s].who, target |-> sess[s].peer,
                     task |-> NoTask, order |-> NoOrder, reverses |-> 0,
                     key |-> sess[s].key]
  <2>2. /\ row \in Row /\ row.source # "frozen" /\ Moved("frozen", row) = 0
        /\ row.type \notin OrderRowTypes
    BY <2>1 DEF SpendRequest, Row, RowKeys, TransactionTypes, SystemAccounts, Moved,
                OrderRowTypes
  <2>3. Post(row) /\ orders' = orders
    BY <1>2 DEF CommitTransfer
  <2> HIDE DEF row
  <2> QED
    BY <2>2, <2>3, FrozenInsert, FrozenUntouched DEF Post, ledgerVars
<1>3. ASSUME UNCHANGED <<rows, balance, orders>> PROVE FrozenInv'
  BY <1>3, FrozenUntouched
<1> QED
  BY <1>t, <1>1, <1>2, <1>3, FrozenRedemption, FrozenSettle, FrozenReport, FrozenReversal
  DEF Next, SessionStep, vars, RequestTransfer, RequestRedemption, RequestOnOrder,
      RequestReversal, Begin, Acquire, Decline, Rollback

\* At first nothing is open and nothing has been reversed.
LEMMA InitFrozen == ASSUME Init PROVE FrozenInv
<1>1. Reversals = {} /\ HeldOrders = {} /\ NoIdleMove
  BY DEF Init, Reversals, HeldOrders, OpenOrders, Stranded, NoIdleMove, Absent, Open
<1>2. ReversalNet("frozen") = 0 /\ HeldTotal = 0
  BY <1>1, SumEmpty DEF ReversalNet, HeldTotal
<1>3. "frozen" \in Accounts /\ Opening["frozen"] \in Int
  BY MemberCreditsAssumption DEF SystemAccounts
<1>4. FrozenBacksOrders
  BY <1>2, <1>3 DEF Init, FrozenBacksOrders
<1> QED
  BY <1>1, <1>4, FS_EmptySet DEF FrozenInv

\* The frozen account holds what the open orders froze and what orders closed under a
\* reused key left there, reversals apart, whatever is raced, rolled back or reversed.
THEOREM FrozenIsBacked == Spec => []FrozenBacksOrders
<1>1. Init => FrozenInv
  BY InitFrozen
<1>2. TypeOK /\ OrderInv /\ FrozenInv /\ [Next]_vars => FrozenInv'
  BY FrozenStep
<1>3. FrozenInv => FrozenBacksOrders
  BY DEF FrozenInv
<1> QED
  BY <1>1, <1>2, <1>3, TypeCorrect, OrdersInvariant, PTL DEF Spec

=============================================================================

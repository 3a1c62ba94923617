-------------------------- MODULE TaskBudgetProofs --------------------------
(***************************************************************************)
(* Proofs about TaskBudget, for any sets of tasks, members, sessions, keys *)
(* and amounts.  Everything a service reads under a row lock must still be *)
(* true when it commits: the inductive invariant says who can hold which   *)
(* lock (TaskExclusive, PoolExclusive, TailExclusive) and what the holder  *)
(* knows (HeldTask, PoolCovered).                                          *)
(***************************************************************************)
EXTENDS TaskBudget, SequenceTheorems, TLAPS

\* A running request names a task; amounts asked for are not zero; and only the
\* waiting points the services really have are used.
RequestOK ==
    \A s \in Sessions :
        /\ sess[s].op = "none" <=> sess[s].pc = "idle"
        /\ sess[s].op # "none" => sess[s].task \in Tasks
        /\ sess[s].op \in {"lock", "unlock"} => sess[s].amount # 0
        /\ sess[s].op = "create" => sess[s].pc = "want_pool"
        /\ sess[s].op \in {"publish", "review"} => sess[s].pc # "want_pool"

\* One transaction at a time holds a Task row, the pool row, the event tail.
TaskExclusive ==
    \A s, u \in Sessions, t \in Tasks : HoldsTask(s, t) /\ HoldsTask(u, t) => s = u
PoolExclusive == \A s, u \in Sessions : HoldsPool(s) /\ HoldsPool(u) => s = u
TailExclusive == \A s, u \in Sessions : HoldsTail(s) /\ HoldsTail(u) => s = u

\* What a request has read of its task, and may rely on until it commits.
Knows(r) ==
    /\ r.op = "create" => tasks[r.task].status = "absent"
    /\ r.op = "fund" /\ r.pc \in {"want_pool", "commit"}
          => tasks[r.task].status = "draft"
    /\ r.op = "publish" /\ r.pc = "commit"
          => /\ tasks[r.task].status = "draft"
             /\ r.task \in Rewarded => balance[r.task] >= Reward[r.task]
    /\ r.op = "review" /\ r.pc = "commit"
          => tasks[r.task].status = "pending_review"

HeldTask == \A s \in Sessions : Knows(sess[s])

\* The pool covers what the holder of its row is about to lock.
PoolCovered ==
    \A s \in Sessions : HoldsPool(s) => balance[Pool] >= sess[s].amount

IInv ==
    /\ TypeOK
    /\ RequestOK
    /\ TaskExclusive
    /\ PoolExclusive
    /\ TailExclusive
    /\ HeldTask
    /\ PoolCovered
    /\ PoolNeverOverspent
    /\ PaidOnceIfAccepted

SessionRecord ==
    [pc : {"idle", "want_task", "want_pool", "commit"},
     op : {"none", "lock", "unlock", "fund", "publish", "create", "review"},
     task : Tasks \cup {NoTask}, amount : Nat, key : Keys \cup {NoKey},
     accept : BOOLEAN, genesis : BOOLEAN]

TaskRecord ==
    [status : {"absent", "draft", "open", "closed"}, assignee : {NoAccount}]
    \cup [status : {"claimed", "pending_review", "accepted", "rejected"},
          assignee : Members]

-----------------------------------------------------------------------------
(* Rows and postings. *)

\* An inserted row is the last one, and moves the balances it names.
LEMMA InsertFacts ==
    ASSUME rows \in Seq(Row), balance \in [Accounts -> Int],
           NEW row \in Row, Insert(row)
    PROVE  /\ rows' \in Seq(Row)
           /\ balance' \in [Accounts -> Int]
           /\ Len(rows) \in Nat
           /\ DOMAIN rows = 1..Len(rows)
           /\ DOMAIN rows' = 1..(Len(rows) + 1)
           /\ \A i \in DOMAIN rows : rows'[i] = rows[i]
           /\ rows'[Len(rows) + 1] = row
           /\ \A a \in Accounts : balance'[a] = BalanceAfter(row, a)
<1>1. /\ rows' \in Seq(Row)
      /\ Len(rows) \in Nat
      /\ DOMAIN rows = 1..Len(rows)
      /\ DOMAIN rows' = 1..(Len(rows) + 1)
      /\ \A i \in DOMAIN rows : rows'[i] = rows[i]
      /\ rows'[Len(rows) + 1] = row
  BY DEF Insert
<1>2. \A a \in Accounts : BalanceAfter(row, a) \in Int
  BY DEF BalanceAfter, Row
<1> QED
  BY <1>1, <1>2 DEF Insert

\* Posting inserts the row or leaves the ledger alone; the balances of accounts
\* the row does not take from do not fall.
LEMMA PostFacts ==
    ASSUME rows \in Seq(Row), balance \in [Accounts -> Int],
           NEW row \in Row, Post(row)
    PROVE  /\ rows' \in Seq(Row)
           /\ balance' \in [Accounts -> Int]
           /\ \A a \in Accounts : row.source # a => balance'[a] >= balance[a]
           /\ \A a \in Accounts : balance'[a] >= balance[a] - row.amount
<1>1. row.amount \in Nat /\ \A a \in Accounts : balance[a] \in Int
  BY DEF Row
<1>2. CASE Insert(row)
  <2>1. /\ rows' \in Seq(Row) /\ balance' \in [Accounts -> Int]
        /\ \A a \in Accounts : balance'[a] = BalanceAfter(row, a)
    BY <1>2, InsertFacts
  <2>2. ASSUME NEW a \in Accounts
        PROVE  /\ row.source # a => balance'[a] >= balance[a]
               /\ balance'[a] >= balance[a] - row.amount
    <3>1. balance'[a] = balance[a] + (IF a = row.target THEN row.amount ELSE 0)
                                   - (IF a = row.source THEN row.amount ELSE 0)
      BY <2>1 DEF BalanceAfter
    <3>2. balance[a] \in Int /\ row.amount \in Nat
      BY <1>1
    <3> QED
      BY <3>1, <3>2
  <2> QED
    BY <2>1, <2>2
<1>3. CASE UNCHANGED ledgerVars
  BY <1>1, <1>3 DEF ledgerVars
<1> QED
  BY <1>2, <1>3 DEF Post

\* A row without a key is never taken for a replay.
LEMMA KeylessPost ==
    ASSUME NEW row, row.key = NoKey, Post(row)
    PROVE  Insert(row)
BY DEF Post, IsReplay, RowsWithKey

\* The rows of the budget services are rows of the ledger.
LEMMA BudgetRowTyped ==
    ASSUME NEW type \in TransactionTypes, NEW a \in Nat \ {0},
           NEW source \in Accounts \cup {NoAccount},
           NEW target \in Accounts \cup {NoAccount},
           NEW t \in Tasks \cup {NoTask},
           NEW key \in Keys \cup {NoKey} \cup ({"task-reward"} \X Tasks)
    PROVE  /\ BudgetRow(type, a, source, target, t, key) \in Row
           /\ BudgetRow(type, a, source, target, t, key).type = type
           /\ BudgetRow(type, a, source, target, t, key).amount = a
           /\ BudgetRow(type, a, source, target, t, key).source = source
           /\ BudgetRow(type, a, source, target, t, key).target = target
           /\ BudgetRow(type, a, source, target, t, key).task = t
           /\ BudgetRow(type, a, source, target, t, key).key = key
BY DEF BudgetRow, Row

\* Locking a budget for a task, and giving it back.
LEMMA LockRowTyped ==
    ASSUME NEW t \in Tasks, NEW a \in Nat \ {0}, NEW key \in Keys \cup {NoKey}
    PROVE  /\ LockRow(t, a, key) \in Row /\ UnlockRow(t, a, key) \in Row
           /\ LockRow(t, a, key).type = "lock" /\ UnlockRow(t, a, key).type = "unlock"
           /\ LockRow(t, a, key).source = Pool /\ UnlockRow(t, a, key).source = t
           /\ LockRow(t, a, key).target = t /\ UnlockRow(t, a, key).target = Pool
           /\ LockRow(t, a, key).amount = a /\ UnlockRow(t, a, key).amount = a
           /\ LockRow(t, a, key).key = key
           /\ t \in Accounts /\ Pool \in Accounts /\ t # Pool
<1>1. t \in Accounts /\ Pool \in Accounts /\ t # Pool
  BY TaskBudgetAssumption
<1>2. "lock" \in TransactionTypes /\ "unlock" \in TransactionTypes
  BY DEF TransactionTypes
<1> QED
  BY <1>1, <1>2, BudgetRowTyped DEF LockRow, UnlockRow

\* Paying the reward of a task somebody has worked on.
LEMMA RewardRowTyped ==
    ASSUME TypeOK, NEW t \in Tasks, tasks[t].status = "pending_review", Reward[t] > 0,
           NEW source \in {t, Pool}
    PROVE  /\ RewardRow(t, source) \in Row
           /\ RewardRow(t, source).type = "task_reward"
           /\ RewardRow(t, source).source = source
           /\ RewardRow(t, source).target = tasks[t].assignee
           /\ RewardRow(t, source).amount = Reward[t]
           /\ RewardRow(t, source).task = t
<1>1. Reward[t] \in Nat \ {0} /\ source \in Accounts
  BY TaskBudgetAssumption
<1>2. tasks[t].assignee \in Accounts
  BY TaskBudgetAssumption DEF TypeOK
<1>3. "task_reward" \in TransactionTypes
  BY DEF TransactionTypes
<1> QED
  BY <1>1, <1>2, <1>3, BudgetRowTyped DEF RewardRow

-----------------------------------------------------------------------------
(* What the steps that post do to the ledger. *)

\* A posting that pays no reward leaves the reward rows of every task alone.
LEMMA OrdinaryPost ==
    ASSUME rows \in Seq(Row), balance \in [Accounts -> Int], NEW row \in Row,
           row.type # "task_reward", Post(row), NEW t \in Tasks
    PROVE  /\ RewardRows(t)' = RewardRows(t)
           /\ \A i \in RewardRows(t) : rows'[i] = rows[i]
<1>1. CASE Insert(row)
  <2>1. /\ Len(rows) \in Nat
        /\ DOMAIN rows = 1..Len(rows)
        /\ DOMAIN rows' = 1..(Len(rows) + 1)
        /\ \A i \in DOMAIN rows : rows'[i] = rows[i]
        /\ rows'[Len(rows) + 1] = row
    BY <1>1, InsertFacts
  <2>2. DOMAIN rows' = DOMAIN rows \cup {Len(rows) + 1}
    BY <2>1
  <2> QED
    BY <2>1, <2>2 DEF RewardRows
<1>2. CASE UNCHANGED ledgerVars
  BY <1>2 DEF ledgerVars, RewardRows
<1> QED
  BY <1>1, <1>2 DEF Post

\* The first reward of a task is a new row, to its assignee.
LEMMA RewardPost ==
    ASSUME TypeOK, NEW t \in Tasks, tasks[t].status = "pending_review",
           Reward[t] > 0, RewardRows(t) = {},
           NEW source \in {t, Pool}, Post(RewardRow(t, source))
    PROVE  /\ RewardRows(t)' = {Len(rows) + 1}
           /\ rows'[Len(rows) + 1].target = tasks[t].assignee
           /\ \A u \in Tasks \ {t} : /\ RewardRows(u)' = RewardRows(u)
                                     /\ \A i \in RewardRows(u) : rows'[i] = rows[i]
<1> DEFINE row == RewardRow(t, source)
<1>1. /\ row \in Row /\ row.type = "task_reward" /\ row.task = t
      /\ row.target = tasks[t].assignee
  BY RewardRowTyped
<1> HIDE DEF row
<1>2. ~IsReplay(row)
  BY <1>1 DEF IsReplay, RowsWithKey, SameMovement, RewardRows
<1>3. Insert(row)
  BY <1>2 DEF Post, row
<1>4. /\ Len(rows) \in Nat
      /\ DOMAIN rows = 1..Len(rows)
      /\ DOMAIN rows' = 1..(Len(rows) + 1)
      /\ \A i \in DOMAIN rows : rows'[i] = rows[i]
      /\ rows'[Len(rows) + 1] = row
  BY <1>1, <1>3, InsertFacts DEF TypeOK
<1>5. DOMAIN rows' = DOMAIN rows \cup {Len(rows) + 1}
  BY <1>4
<1>6. RewardRows(t)' = {Len(rows) + 1}
  BY <1>1, <1>4, <1>5 DEF RewardRows
<1>7. ASSUME NEW u \in Tasks \ {t}
      PROVE  /\ RewardRows(u)' = RewardRows(u)
             /\ \A i \in RewardRows(u) : rows'[i] = rows[i]
  BY <1>1, <1>4, <1>5 DEF RewardRows
<1> QED
  BY <1>1, <1>4, <1>6, <1>7

\* issue_credits_to_pool.
LEMMA IssueFacts ==
    ASSUME TypeOK, Issue
    PROVE  /\ rows' \in Seq(Row) /\ balance' \in [Accounts -> Int]
           /\ balance'[Pool] >= balance[Pool]
           /\ \A t \in Tasks : /\ balance'[t] >= balance[t]
                               /\ RewardRows(t)' = RewardRows(t)
                               /\ \A i \in RewardRows(t) : rows'[i] = rows[i]
<1>1. PICK a \in Amounts, k \in Keys :
        Post(BudgetRow("issuance", a, NoAccount, Pool, NoTask, k))
  BY DEF Issue, Post
<1> DEFINE row == BudgetRow("issuance", a, NoAccount, Pool, NoTask, k)
<1>2. Pool \in Accounts /\ Tasks \subseteq Accounts /\ NoAccount \notin Accounts
  BY TaskBudgetAssumption, LedgerAssumption
<1>3. row \in Row /\ row.type = "issuance" /\ row.source = NoAccount
  <2>1. "issuance" \in TransactionTypes /\ a \in Nat \ {0}
    BY TaskBudgetAssumption DEF TransactionTypes
  <2> QED
    BY <1>2, <2>1, BudgetRowTyped
<1> HIDE DEF row
<1>4. Post(row)
  BY <1>1 DEF row
<1>5. /\ rows' \in Seq(Row) /\ balance' \in [Accounts -> Int]
      /\ \A b \in Accounts : row.source # b => balance'[b] >= balance[b]
  BY <1>3, <1>4, PostFacts DEF TypeOK
<1> QED
  BY <1>2, <1>3, <1>4, <1>5, OrdinaryPost DEF TypeOK

\* Locking a budget takes from the pool, and unlocking it from the task.
LEMMA LockFacts ==
    ASSUME TypeOK, NEW t \in Tasks, NEW a \in Nat \ {0}, NEW k \in Keys \cup {NoKey},
           Post(LockRow(t, a, k))
    PROVE  /\ rows' \in Seq(Row) /\ balance' \in [Accounts -> Int]
           /\ balance'[Pool] >= balance[Pool] - a
           /\ k = NoKey => balance'[t] = balance[t] + a
           /\ \A u \in Tasks : /\ balance'[u] >= balance[u]
                               /\ RewardRows(u)' = RewardRows(u)
                               /\ \A i \in RewardRows(u) : rows'[i] = rows[i]
<1> DEFINE row == LockRow(t, a, k)
<1>1. /\ row \in Row /\ row.type = "lock" /\ row.source = Pool /\ row.target = t
      /\ row.amount = a /\ row.key = k
      /\ t \in Accounts /\ Pool \in Accounts /\ t # Pool
  BY LockRowTyped
<1>2. Tasks \subseteq Accounts \ {Pool}
  BY TaskBudgetAssumption
<1>3. Post(row)
  OBVIOUS
<1> HIDE DEF row
<1>4. /\ rows' \in Seq(Row) /\ balance' \in [Accounts -> Int]
      /\ \A b \in Accounts : row.source # b => balance'[b] >= balance[b]
      /\ \A b \in Accounts : balance'[b] >= balance[b] - row.amount
  BY <1>1, <1>3, PostFacts DEF TypeOK
<1>5. ASSUME k = NoKey PROVE balance'[t] = balance[t] + a
  <2>1. Insert(row)
    BY <1>1, <1>3, <1>5, KeylessPost
  <2>2. balance'[t] = BalanceAfter(row, t) /\ balance[t] \in Int
    BY <1>1, <2>1, InsertFacts DEF TypeOK
  <2> QED
    BY <1>1, <2>2 DEF BalanceAfter
<1> QED
  BY <1>1, <1>2, <1>3, <1>4, <1>5, OrdinaryPost DEF TypeOK

\* unlock_unused_task_credit_budget gives back to the pool.
LEMMA UnlockFacts ==
    ASSUME TypeOK, NEW t \in Tasks, NEW a \in Nat \ {0}, NEW k \in Keys \cup {NoKey},
           Post(UnlockRow(t, a, k))
    PROVE  /\ rows' \in Seq(Row) /\ balance' \in [Accounts -> Int]
           /\ balance'[Pool] >= balance[Pool]
           /\ \A u \in Tasks \ {t} : balance'[u] >= balance[u]
           /\ \A u \in Tasks : /\ RewardRows(u)' = RewardRows(u)
                               /\ \A i \in RewardRows(u) : rows'[i] = rows[i]
<1> DEFINE row == UnlockRow(t, a, k)
<1>1. /\ row \in Row /\ row.type = "unlock" /\ row.source = t
      /\ t \in Accounts /\ Pool \in Accounts /\ t # Pool
  BY LockRowTyped
<1>2. Tasks \subseteq Accounts \ {Pool}
  BY TaskBudgetAssumption
<1>3. Post(row)
  OBVIOUS
<1> HIDE DEF row
<1>4. /\ rows' \in Seq(Row) /\ balance' \in [Accounts -> Int]
      /\ \A b \in Accounts : row.source # b => balance'[b] >= balance[b]
  BY <1>1, <1>3, PostFacts DEF TypeOK
<1> QED
  BY <1>1, <1>2, <1>3, <1>4, OrdinaryPost DEF TypeOK

\* Paying a reward takes it from the task, or from the pool.
LEMMA RewardFacts ==
    ASSUME TypeOK, NEW t \in Tasks, tasks[t].status = "pending_review",
           Reward[t] > 0, NEW source \in {t, Pool}, Post(RewardRow(t, source))
    PROVE  /\ rows' \in Seq(Row) /\ balance' \in [Accounts -> Int]
           /\ source = t => balance'[Pool] >= balance[Pool]
           /\ balance'[Pool] >= balance[Pool] - Reward[t]
           /\ \A u \in Tasks \ {t} : balance'[u] >= balance[u]
<1> DEFINE row == RewardRow(t, source)
<1>1. row \in Row /\ row.source = source /\ row.amount = Reward[t]
  BY RewardRowTyped
<1>2. Tasks \subseteq Accounts \ {Pool} /\ Pool \in Accounts
  BY TaskBudgetAssumption
<1>3. Post(row)
  OBVIOUS
<1> HIDE DEF row
<1>4. /\ rows' \in Seq(Row) /\ balance' \in [Accounts -> Int]
      /\ \A b \in Accounts : row.source # b => balance'[b] >= balance[b]
      /\ \A b \in Accounts : balance'[b] >= balance[b] - row.amount
  BY <1>1, <1>3, PostFacts DEF TypeOK
<1> QED
  BY <1>1, <1>2, <1>4

\* What reverse_credit_transaction posts is a row of no task.
LEMMA ReversalRowTyped ==
    ASSUME TypeOK, NEW i \in DOMAIN rows, NEW k \in Keys \cup {NoKey}
    PROVE  /\ ReversalRow(i, k) \in Row
           /\ ReversalRow(i, k).type = "reversal"
           /\ ReversalRow(i, k).source \notin Tasks
           /\ ReversalRow(i, k).reverses \in Nat
<1>1. rows[i] \in Row /\ i \in Nat
  BY DEF TypeOK
<1>2. Residue \in Accounts /\ Residue \notin Tasks
  BY TaskBudgetAssumption
<1>3. \A a \in Accounts \cup {NoAccount} : /\ Unattributed(a) \in Accounts \cup {NoAccount}
                                          /\ Unattributed(a) \notin Tasks
  BY <1>2 DEF Unattributed
<1>4. "reversal" \in TransactionTypes
  BY DEF TransactionTypes
<1> QED
  BY <1>1, <1>3, <1>4 DEF ReversalRow, Row

\* A reversal leaves every task's budget and payment alone; what it takes from the
\* pool is counted.
LEMMA ReverseFacts ==
    ASSUME TypeOK, Reverse
    PROVE  /\ rows' \in Seq(Row) /\ balance' \in [Accounts -> Int]
           /\ reversed' \in Nat
           /\ \/ balance'[Pool] >= balance[Pool] /\ reversed' = reversed
              \/ PoolFree /\ balance'[Pool] + reversed' >= balance[Pool] + reversed
           /\ \A t \in Tasks : /\ balance'[t] >= balance[t]
                               /\ RewardRows(t)' = RewardRows(t)
                               /\ \A i \in RewardRows(t) :
                                    rows'[i].target = rows[i].target
<1>0. PICK i \in DOMAIN rows, k \in Keys \cup {NoKey} :
        PostReversal(ReversalRow(i, k)) \/ Repoint(ReversalRow(i, k))
  BY DEF Reverse
<1>1. PICK row \in Row : /\ row.type = "reversal" /\ row.source \notin Tasks
                         /\ row.reverses \in Nat
                         /\ PostReversal(row) \/ Repoint(row)
  BY <1>0, ReversalRowTyped
<1>2. /\ Pool \in Accounts /\ Tasks \subseteq Accounts
      /\ \A a \in Accounts : balance[a] \in Int
      /\ reversed \in Nat /\ row.amount \in Nat
  BY TaskBudgetAssumption DEF TypeOK, Row
<1>3. CASE PostReversal(row)
  <2>0. /\ Insert(row)
        /\ Pool \in {row.source, row.target} => PoolFree
        /\ reversed' = reversed + (IF row.source = Pool THEN row.amount ELSE 0)
    BY <1>3 DEF PostReversal
  <2>1. Post(row)
    BY <1>3 DEF PostReversal, Post
  <2>2. /\ rows' \in Seq(Row) /\ balance' \in [Accounts -> Int]
        /\ \A b \in Accounts : row.source # b => balance'[b] >= balance[b]
        /\ \A b \in Accounts : balance'[b] >= balance[b] - row.amount
    BY <2>1, PostFacts DEF TypeOK
  <2>3. balance'[Pool] \in Int
    BY <1>2, <2>2
  <2>4. reversed' \in Nat
    BY <1>2, <2>0
  <2>5. CASE row.source = Pool
    <3>1. PoolFree /\ reversed' = reversed + row.amount
      BY <2>0, <2>5
    <3>2. balance'[Pool] + reversed' >= balance[Pool] + reversed
      BY <1>2, <2>2, <2>3, <3>1
    <3> QED
      BY <1>1, <1>2, <2>1, <2>2, <2>4, <2>5, <3>1, <3>2, OrdinaryPost DEF TypeOK
  <2>6. CASE row.source # Pool
    <3>1. balance'[Pool] >= balance[Pool] /\ reversed' = reversed
      BY <1>2, <2>0, <2>2, <2>6
    <3> QED
      BY <1>1, <1>2, <2>1, <2>2, <2>4, <2>6, <3>1, OrdinaryPost DEF TypeOK
  <2> QED
    BY <2>5, <2>6
<1>4. CASE Repoint(row)
  <2>1. PICK j \in DOMAIN rows : /\ SameMovement(rows[j], row)
                                 /\ rows' = [rows EXCEPT ![j].reverses = row.reverses]
                                 /\ UNCHANGED <<balance, reversed>>
    BY <1>4 DEF Repoint, RowsWithKey
  <2>2. rows \in Seq(Row) /\ rows[j] \in Row
    BY DEF TypeOK
  <2>3. [rows[j] EXCEPT !.reverses = row.reverses] \in Row
    BY <1>1, <2>2 DEF Row
  <2>4. rows' \in Seq(Row) /\ DOMAIN rows' = DOMAIN rows
    BY <2>1, <2>2, <2>3
  <2>5. \A m \in DOMAIN rows : /\ rows'[m].type = rows[m].type
                                /\ rows'[m].task = rows[m].task
                                /\ rows'[m].target = rows[m].target
    BY <2>1, <2>2 DEF Row
  <2>6. \A t \in Tasks : RewardRows(t)' = RewardRows(t)
    BY <2>4, <2>5 DEF RewardRows
  <2>7. \A t \in Tasks : \A m \in RewardRows(t) : rows'[m].target = rows[m].target
    BY <2>5 DEF RewardRows
  <2>8. balance' = balance /\ reversed' = reversed
    BY <2>1
  <2> QED
    BY <1>2, <2>4, <2>6, <2>7, <2>8 DEF TypeOK
<1> QED
  BY <1>1, <1>3, <1>4

-----------------------------------------------------------------------------
(* Sessions. *)

\* A request that has just begun holds no Task and no pool lock.
Fresh(r) ==
    /\ r \in SessionRecord
    /\ r.task \in Tasks
    /\ \/ r.op \in {"fund", "publish", "review"} /\ r.pc = "want_task"
       \/ r.op = "lock" /\ r.pc = "want_pool" /\ r.amount # 0
       \/ r.op = "unlock" /\ r.pc = "commit" /\ r.amount # 0
       \/ /\ r.op = "create" /\ r.pc = "want_pool"
          /\ TailFree /\ tasks[r.task].status = "absent"

Granted(s) == CheckLock(s) \/ FundDraft(s) \/ CheckFund(s) \/ CheckPublish(s)
              \/ CheckReview(s)

\* How a step may change the sessions: one of them begins, is granted a lock, or
\* ends.
LEMMA SessionChange ==
    ASSUME [Next]_vars
    PROVE  \/ sess' = sess
           \/ \E s \in Sessions : \/ \E r : Begin(s, r) /\ Fresh(r)
                                  \/ Granted(s)
                                  \/ Finish(s)
<1>0. \A pc \in {"want_task", "want_pool", "commit"},
         op \in {"lock", "unlock", "fund", "publish", "create", "review"},
         t \in Tasks, a \in Nat, k \in Keys \cup {NoKey} :
            /\ Request(pc, op, t, a, k) \in SessionRecord
            /\ Request(pc, op, t, a, k).pc = pc
            /\ Request(pc, op, t, a, k).op = op
            /\ Request(pc, op, t, a, k).task = t
            /\ Request(pc, op, t, a, k).amount = a
  BY DEF Request, SessionRecord
<1>1. CASE Issue \/ Reverse \/ UNCHANGED vars \/ \E t \in Tasks : TaskStep(t)
  BY <1>1 DEF Issue, Reverse, vars, TaskStep, create_task_draft, submit_labor, close_task,
              claim_task, assign_task, OnTaskRow
<1>2. ASSUME NEW s \in Sessions, SessionStep(s)
      PROVE  (\E r : Begin(s, r) /\ Fresh(r)) \/ Granted(s) \/ Finish(s)
  <2>1. CASE RequestLock(s)
    <3>1. PICK t \in Tasks, a \in Amounts, k \in Keys :
            Begin(s, Request("want_pool", "lock", t, a, k))
      BY <2>1 DEF RequestLock
    <3>2. a \in Nat /\ a # 0
      BY TaskBudgetAssumption
    <3> QED
      BY <1>0, <3>1, <3>2 DEF Fresh
  <2>2. CASE CheckUnlock(s)
    <3>1. PICK t \in Tasks, a \in Amounts, k \in Keys :
            Begin(s, Request("commit", "unlock", t, a, k))
      BY <2>2 DEF CheckUnlock
    <3>2. a \in Nat /\ a # 0
      BY TaskBudgetAssumption
    <3> QED
      BY <1>0, <3>1, <3>2 DEF Fresh
  <2>3. CASE RequestFund(s) \/ RequestPublish(s)
    BY <1>0, <2>3 DEF RequestFund, RequestPublish, Fresh
  <2>4. CASE BeginCreate(s)
    <3>1. PICK t \in Tasks : /\ TailFree /\ tasks[t].status = "absent"
                             /\ Begin(s, Request("want_pool", "create", t, 0, NoKey))
      BY <2>4 DEF BeginCreate
    <3> QED
      BY <1>0, <3>1 DEF Fresh
  <2>5. CASE RequestReview(s)
    <3>1. PICK t \in Tasks, acc \in BOOLEAN, gen \in BOOLEAN :
            Begin(s, [Request("want_task", "review", t, 0, NoKey)
                        EXCEPT !.accept = acc, !.genesis = gen])
      BY <2>5 DEF RequestReview
    <3> DEFINE r == [Request("want_task", "review", t, 0, NoKey)
                        EXCEPT !.accept = acc, !.genesis = gen]
    <3>2. /\ r \in SessionRecord /\ r.task = t
          /\ r.op = "review" /\ r.pc = "want_task"
      BY DEF Request, SessionRecord
    <3> HIDE DEF r
    <3> QED
      BY <3>1, <3>2 DEF Fresh, r
  <2>6. CASE CommitLock(s) \/ CommitUnlock(s) \/ CommitFund(s) \/ CommitPublish(s)
             \/ CommitCreate(s) \/ CommitAccept(s) \/ CommitReject(s) \/ Rollback(s)
    BY <2>6 DEF CommitLock, CommitUnlock, CommitFund, CommitPublish, CommitCreate,
                CommitAccept, CommitReject, Rollback
  <2> QED
    BY <1>2, <2>1, <2>2, <2>3, <2>4, <2>5, <2>6 DEF SessionStep, Granted
<1> QED
  BY <1>1, <1>2 DEF Next

\* What a granted lock changes in its session: where it stands and, for a
\* funding, the shortfall it found.
LEMMA GrantedFacts ==
    ASSUME TypeOK, RequestOK, NEW s \in Sessions, Granted(s)
    PROVE  /\ UNCHANGED <<rows, balance, tasks, genesis, reversed>>
           /\ sess'[s] \in SessionRecord
           /\ sess' = [sess EXCEPT ![s] = sess'[s]]
           /\ \A u \in Sessions \ {s} : sess'[u] = sess[u]
           /\ sess'[s].op = sess[s].op /\ sess'[s].task = sess[s].task
           /\ \/ /\ sess[s].op = "lock" /\ sess'[s].pc = "commit"
                 /\ PoolFree /\ sess'[s].amount = sess[s].amount
                 /\ balance[Pool] >= sess'[s].amount
              \/ /\ sess[s].op = "fund" /\ sess'[s].pc = "want_pool"
                 /\ TaskFree(sess[s].task) /\ tasks[sess[s].task].status = "draft"
              \/ /\ sess[s].op = "fund" /\ sess'[s].pc = "commit"
                 /\ sess[s].pc = "want_pool"
                 /\ PoolFree /\ balance[Pool] >= sess'[s].amount
              \/ /\ sess[s].op = "publish" /\ sess'[s].pc = "commit"
                 /\ TaskFree(sess[s].task) /\ tasks[sess[s].task].status = "draft"
                 /\ sess[s].task \in Rewarded
                      => balance[sess[s].task] >= Reward[sess[s].task]
              \/ /\ sess[s].op = "review" /\ sess'[s].pc = "commit"
                 /\ TaskFree(sess[s].task)
                 /\ tasks[sess[s].task].status = "pending_review"
<1>0. sess[s] \in SessionRecord /\ sess \in [Sessions -> SessionRecord]
  BY DEF TypeOK, SessionRecord
<1>1. ASSUME NEW pc \in {"want_pool", "commit"}, Advance(s, pc)
      PROVE  /\ UNCHANGED <<rows, balance, tasks, genesis, reversed>>
             /\ sess'[s] = [sess[s] EXCEPT !.pc = pc]
             /\ sess'[s] \in SessionRecord
             /\ sess' = [sess EXCEPT ![s] = sess'[s]]
             /\ \A u \in Sessions \ {s} : sess'[u] = sess[u]
             /\ sess'[s].op = sess[s].op /\ sess'[s].task = sess[s].task
             /\ sess'[s].amount = sess[s].amount /\ sess'[s].pc = pc
  BY <1>0, <1>1 DEF Advance, SessionRecord
<1>2. CASE CheckLock(s)
  BY <1>1, <1>2 DEF CheckLock, At
<1>3. CASE FundDraft(s)
  BY <1>1, <1>3 DEF FundDraft, At
<1>4. CASE CheckPublish(s)
  BY <1>1, <1>4 DEF CheckPublish, At
<1>5. CASE CheckReview(s)
  BY <1>1, <1>5 DEF CheckReview, At
<1>6. CASE CheckFund(s)
  <2> DEFINE n == Shortfall(sess[s].task)
  <2>1. sess' = [sess EXCEPT ![s].pc = "commit", ![s].amount = n]
    BY <1>6 DEF CheckFund
  <2>2. n \in Nat
    <3>1. sess[s].task \in Tasks
      BY <1>6 DEF CheckFund, At, RequestOK
    <3> QED
      BY <3>1, TaskBudgetAssumption DEF Shortfall, TypeOK
  <2> HIDE DEF n
  <2>3. sess'[s] = [sess[s] EXCEPT !.pc = "commit", !.amount = n]
    BY <1>0, <2>1
  <2>4. sess'[s] \in SessionRecord /\ sess'[s].amount = n
    BY <1>0, <2>2, <2>3 DEF SessionRecord
  <2> QED
    BY <1>0, <1>6, <2>1, <2>3, <2>4 DEF CheckFund, At, n, SessionRecord
<1> QED
  BY <1>2, <1>3, <1>4, <1>5, <1>6 DEF Granted


\* Sessions stay typed, and requests well formed.
LEMMA RequestStep ==
    ASSUME TypeOK, RequestOK, [Next]_vars
    PROVE  sess' \in [Sessions -> SessionRecord] /\ RequestOK'
<1>0. sess \in [Sessions -> SessionRecord] /\ Idle \in SessionRecord
  BY DEF TypeOK, SessionRecord, Idle
<1>1. CASE sess' = sess
  BY <1>0, <1>1 DEF RequestOK
<1>2. ASSUME NEW s \in Sessions, NEW r, Begin(s, r), Fresh(r)
      PROVE  sess' \in [Sessions -> SessionRecord] /\ RequestOK'
  BY <1>0, <1>2 DEF Begin, Fresh, RequestOK
<1>3. ASSUME NEW s \in Sessions, Finish(s)
      PROVE  sess' \in [Sessions -> SessionRecord] /\ RequestOK'
  BY <1>0, <1>3 DEF Finish, RequestOK, Idle
<1>4. ASSUME NEW s \in Sessions, Granted(s)
      PROVE  sess' \in [Sessions -> SessionRecord] /\ RequestOK'
  <2>1. sess' \in [Sessions -> SessionRecord]
    BY <1>0, <1>4, GrantedFacts
  <2>2. /\ sess[s].op \in {"lock", "fund", "publish", "review"}
        /\ sess'[s].pc \in {"want_pool", "commit"}
        /\ sess'[s].op \in {"publish", "review"} => sess'[s].pc # "want_pool"
        /\ sess'[s].op = "lock" => sess'[s].amount = sess[s].amount
        /\ sess'[s].op = sess[s].op /\ sess'[s].task = sess[s].task
        /\ \A u \in Sessions \ {s} : sess'[u] = sess[u]
    BY <1>4, GrantedFacts
  <2> QED
    BY <2>1, <2>2 DEF RequestOK
<1> QED
  BY <1>1, <1>2, <1>3, <1>4, SessionChange

\* select_for_update and the tail of the event chain: no step leaves two
\* transactions with the same lock.
LEMMA ExclusiveStep ==
    ASSUME TypeOK, RequestOK, TaskExclusive, PoolExclusive, TailExclusive, [Next]_vars
    PROVE  TaskExclusive' /\ PoolExclusive' /\ TailExclusive'
<1>0. sess \in [Sessions -> SessionRecord]
  BY DEF TypeOK, SessionRecord
<1>1. CASE sess' = sess
  BY <1>1 DEF TaskExclusive, PoolExclusive, TailExclusive, HoldsTask, HoldsPool, HoldsTail
<1>2. ASSUME NEW s \in Sessions, NEW r, Begin(s, r), Fresh(r)
      PROVE  TaskExclusive' /\ PoolExclusive' /\ TailExclusive'
  <2>1. sess'[s] = r /\ \A u \in Sessions \ {s} : sess'[u] = sess[u]
    BY <1>0, <1>2 DEF Begin
  <2>2. /\ \A t \in Tasks : ~HoldsTask(s, t)'
        /\ ~HoldsPool(s)'
        /\ HoldsTail(s)' => TailFree
    BY <1>2, <2>1 DEF Fresh, HoldsTask, HoldsPool, HoldsTail
  <2>3. \A u \in Sessions \ {s} :
          /\ \A t \in Tasks : HoldsTask(u, t)' <=> HoldsTask(u, t)
          /\ HoldsPool(u)' <=> HoldsPool(u)
          /\ HoldsTail(u)' <=> HoldsTail(u)
    BY <2>1 DEF HoldsTask, HoldsPool, HoldsTail
  <2> QED
    BY <2>2, <2>3 DEF TaskExclusive, PoolExclusive, TailExclusive, TailFree
<1>3. ASSUME NEW s \in Sessions, Finish(s)
      PROVE  TaskExclusive' /\ PoolExclusive' /\ TailExclusive'
  BY <1>0, <1>3
  DEF Finish, Idle, TaskExclusive, PoolExclusive, TailExclusive, HoldsTask, HoldsPool,
      HoldsTail
<1>4. ASSUME NEW s \in Sessions, Granted(s)
      PROVE  TaskExclusive' /\ PoolExclusive' /\ TailExclusive'
  <2>1. /\ sess'[s].op = sess[s].op /\ sess'[s].task = sess[s].task
        /\ \A u \in Sessions \ {s} : sess'[u] = sess[u]
    BY <1>4, GrantedFacts
  <2>2. /\ \A t \in Tasks : HoldsTask(s, t)' => TaskFree(t) \/ HoldsTask(s, t)
        /\ HoldsPool(s)' => PoolFree
        /\ ~HoldsTail(s)'
    BY <1>4, GrantedFacts DEF HoldsTask, HoldsPool, HoldsTail
  <2>3. \A u \in Sessions \ {s} :
          /\ \A t \in Tasks : HoldsTask(u, t)' <=> HoldsTask(u, t)
          /\ HoldsPool(u)' <=> HoldsPool(u)
          /\ HoldsTail(u)' <=> HoldsTail(u)
    BY <2>1 DEF HoldsTask, HoldsPool, HoldsTail
  <2>4. TaskExclusive'
    BY <2>2, <2>3 DEF TaskExclusive, TaskFree
  <2>5. PoolExclusive' /\ TailExclusive'
    BY <2>2, <2>3 DEF PoolExclusive, TailExclusive, PoolFree
  <2> QED
    BY <2>4, <2>5
<1> QED
  BY <1>1, <1>2, <1>3, <1>4, SessionChange

-----------------------------------------------------------------------------
(* What a step does to the tasks, the budgets and the pool. *)

\* A task changes, or its budget falls, only in a transaction that holds its row
\* (or is still creating it), or while nobody does.
Touched(t) ==
    \/ tasks'[t] = tasks[t] /\ balance'[t] >= balance[t]
    \/ TaskFree(t) /\ TailFree
    \/ \E s \in Sessions : /\ Finish(s) /\ sess[s].task = t
                           /\ HoldsTask(s, t) \/ HoldsTail(s)

\* The pool falls only in a transaction that holds its row, by what was checked
\* against it, or while nobody does.
PoolTouched ==
    \/ balance'[Pool] >= balance[Pool] /\ genesis' = genesis /\ reversed' = reversed
    \/ PoolFree /\ balance'[Pool] + genesis' + reversed' >= 0
    \/ \E s \in Sessions : /\ Finish(s) /\ HoldsPool(s)
                           /\ genesis' = genesis /\ reversed' = reversed
                           /\ balance'[Pool] >= balance[Pool] - sess[s].amount

Effects ==
    /\ rows' \in Seq(Row)
    /\ balance' \in [Accounts -> Int]
    /\ tasks' \in [Tasks -> TaskRecord]
    /\ genesis' \in Nat /\ reversed' \in Nat
    /\ \A t \in Tasks : Touched(t)
    /\ PoolTouched
    /\ PaidOnceIfAccepted'

\* What IInv says of the variables, ready for use.
LEMMA Typed ==
    ASSUME TypeOK
    PROVE  /\ rows \in Seq(Row)
           /\ balance \in [Accounts -> Int]
           /\ tasks \in [Tasks -> TaskRecord]
           /\ genesis \in Nat /\ reversed \in Nat
           /\ balance[Pool] \in Int
           /\ \A t \in Tasks : balance[t] \in Int /\ Reward[t] \in Nat
BY TaskBudgetAssumption DEF TypeOK, TaskRecord

\* A step that pays no reward and accepts no task keeps the payments right.
LEMMA UnpaidStep ==
    ASSUME PaidOnceIfAccepted,
           \A t \in Tasks : /\ RewardRows(t)' = RewardRows(t)
                            /\ \A i \in RewardRows(t) : rows'[i].target = rows[i].target
                            /\ \/ tasks'[t] = tasks[t]
                               \/ tasks[t].status # "accepted" /\ tasks'[t].status # "accepted"
    PROVE  PaidOnceIfAccepted'
<1> SUFFICES ASSUME NEW t \in Tasks
             PROVE  /\ RewardRows(t)' # {} <=> tasks'[t].status = "accepted" /\ Reward[t] > 0
                    /\ \A i, j \in RewardRows(t)' : i = j
                    /\ \A i \in RewardRows(t)' : rows'[i].target = tasks'[t].assignee
  BY DEF PaidOnceIfAccepted
<1>1. /\ RewardRows(t) # {} <=> tasks[t].status = "accepted" /\ Reward[t] > 0
      /\ \A i, j \in RewardRows(t) : i = j
      /\ \A i \in RewardRows(t) : rows[i].target = tasks[t].assignee
  BY DEF PaidOnceIfAccepted
<1>2. /\ RewardRows(t)' = RewardRows(t)
      /\ \A i \in RewardRows(t) : rows'[i].target = rows[i].target
      /\ \/ tasks'[t] = tasks[t]
         \/ tasks[t].status # "accepted" /\ tasks'[t].status # "accepted"
  OBVIOUS
<1> QED
  BY <1>1, <1>2

\* Steps that change no row and no task.
LEMMA QuietEffects ==
    ASSUME IInv, UNCHANGED <<rows, balance, tasks, genesis, reversed>>
    PROVE  Effects
<1>1. PaidOnceIfAccepted'
  BY DEF IInv, PaidOnceIfAccepted, RewardRows
<1>2. \A t \in Tasks : balance[t] >= balance[t]
  BY Typed DEF IInv
<1>3. balance[Pool] >= balance[Pool]
  BY Typed DEF IInv
<1> QED
  BY <1>1, <1>2, <1>3, Typed DEF IInv, Effects, Touched, PoolTouched

\* issue_credits_to_pool.
LEMMA IssueEffects ==
    ASSUME IInv, Issue
    PROVE  Effects
<1>1. tasks' = tasks /\ genesis' = genesis /\ reversed' = reversed
  BY DEF Issue
<1>2. PaidOnceIfAccepted'
  BY <1>1, IssueFacts, UnpaidStep DEF IInv
<1> QED
  BY <1>1, <1>2, IssueFacts, Typed DEF IInv, Effects, Touched, PoolTouched

\* reverse_credit_transaction.
LEMMA ReverseEffects ==
    ASSUME IInv, Reverse
    PROVE  Effects
<1>1. tasks' = tasks /\ genesis' = genesis
  BY DEF Reverse
<1>2. PaidOnceIfAccepted'
  BY <1>1, ReverseFacts, UnpaidStep DEF IInv
<1>3. rows' \in Seq(Row) /\ balance' \in [Accounts -> Int] /\ reversed' \in Nat
  BY ReverseFacts DEF IInv
<1>4. PoolTouched
  <2>1. /\ balance'[Pool] \in Int /\ balance[Pool] \in Int
        /\ genesis \in Nat /\ reversed \in Nat
        /\ balance[Pool] + genesis + reversed >= 0
    BY <1>3, Typed, TaskBudgetAssumption DEF IInv, PoolNeverOverspent
  <2>2. CASE balance'[Pool] >= balance[Pool] /\ reversed' = reversed
    BY <1>1, <2>2 DEF PoolTouched
  <2>3. CASE PoolFree /\ balance'[Pool] + reversed' >= balance[Pool] + reversed
    <3>1. balance'[Pool] + genesis' + reversed' >= 0
      BY <1>1, <1>3, <2>1, <2>3
    <3> QED
      BY <2>3, <3>1 DEF PoolTouched
  <2> QED
    BY <2>2, <2>3, ReverseFacts DEF IInv
<1>5. \A t \in Tasks : Touched(t)
  BY <1>1, ReverseFacts DEF IInv, Touched
<1> QED
  BY <1>1, <1>2, <1>3, <1>4, <1>5, Typed DEF IInv, Effects

\* lock_task_credit_budget.
LEMMA LockEffects ==
    ASSUME IInv, NEW s \in Sessions, CommitLock(s)
    PROVE  Effects
<1> DEFINE t == sess[s].task
           a == sess[s].amount
           k == sess[s].key
<1>1. /\ t \in Tasks /\ a \in Nat \ {0} /\ k \in Keys \cup {NoKey}
      /\ Post(LockRow(t, a, k))
      /\ tasks' = tasks /\ genesis' = genesis /\ reversed' = reversed
      /\ HoldsPool(s) /\ Finish(s)
  BY DEF CommitLock, At, HoldsPool, IInv, RequestOK, TypeOK
<1> HIDE DEF t, k
<1>2. /\ rows' \in Seq(Row) /\ balance' \in [Accounts -> Int]
      /\ balance'[Pool] >= balance[Pool] - a
      /\ \A u \in Tasks : /\ balance'[u] >= balance[u]
                          /\ RewardRows(u)' = RewardRows(u)
                          /\ \A i \in RewardRows(u) : rows'[i] = rows[i]
  BY <1>1, LockFacts DEF IInv
<1>3. PaidOnceIfAccepted'
  BY <1>1, <1>2, UnpaidStep DEF IInv
<1> QED
  BY <1>1, <1>2, <1>3, Typed DEF IInv, Effects, Touched, PoolTouched

\* unlock_unused_task_credit_budget.
LEMMA UnlockEffects ==
    ASSUME IInv, NEW s \in Sessions, CommitUnlock(s)
    PROVE  Effects
<1> DEFINE t == sess[s].task
           a == sess[s].amount
           k == sess[s].key
<1>1. /\ t \in Tasks /\ a \in Nat \ {0} /\ k \in Keys \cup {NoKey}
      /\ Post(UnlockRow(t, a, k))
      /\ tasks' = tasks /\ genesis' = genesis /\ reversed' = reversed
      /\ TaskFree(t) /\ TailFree
  BY DEF CommitUnlock, At, IInv, RequestOK, TypeOK
<1> HIDE DEF t, k, a
<1>2. /\ rows' \in Seq(Row) /\ balance' \in [Accounts -> Int]
      /\ balance'[Pool] >= balance[Pool]
      /\ \A u \in Tasks \ {t} : balance'[u] >= balance[u]
      /\ \A u \in Tasks : /\ RewardRows(u)' = RewardRows(u)
                          /\ \A i \in RewardRows(u) : rows'[i] = rows[i]
  BY <1>1, UnlockFacts DEF IInv
<1>3. PaidOnceIfAccepted'
  BY <1>1, <1>2, UnpaidStep DEF IInv
<1>4. \A u \in Tasks : Touched(u)
  BY <1>1, <1>2 DEF Touched
<1> QED
  BY <1>1, <1>2, <1>3, <1>4, Typed DEF IInv, Effects, PoolTouched


\* Saving a new status in one Task row.
LEMMA StatusFacts ==
    ASSUME TypeOK, NEW t \in Tasks,
           NEW st \in {"draft", "open", "closed", "pending_review", "accepted", "rejected"},
           st \in {"draft", "open", "closed"}
              => tasks[t].status \in {"absent", "draft", "open", "closed"},
           st \in {"pending_review", "accepted", "rejected"}
              => tasks[t].status \in {"claimed", "pending_review", "accepted", "rejected"},
           tasks' = [tasks EXCEPT ![t].status = st]
    PROVE  /\ tasks' \in [Tasks -> TaskRecord]
           /\ tasks'[t].status = st
           /\ tasks'[t].assignee = tasks[t].assignee
           /\ \A u \in Tasks \ {t} : tasks'[u] = tasks[u]
<1>1. tasks \in [Tasks -> TaskRecord]
  BY Typed
<1>2. /\ [tasks[t] EXCEPT !.status = st] \in TaskRecord
      /\ [tasks[t] EXCEPT !.status = st].status = st
      /\ [tasks[t] EXCEPT !.status = st].assignee = tasks[t].assignee
  BY <1>1 DEF TaskRecord
<1> QED
  BY <1>1, <1>2

\* fund_and_publish_task: the shortfall is locked and the draft opened.
LEMMA FundEffects ==
    ASSUME IInv, NEW s \in Sessions, CommitFund(s)
    PROVE  Effects
<1> DEFINE t == sess[s].task
           a == sess[s].amount
<1>1. /\ t \in Tasks /\ a \in Nat
      /\ tasks[t].status = "draft"
      /\ HoldsPool(s) /\ HoldsTask(s, t) /\ Finish(s)
      /\ genesis' = genesis /\ reversed' = reversed
      /\ tasks' = [tasks EXCEPT ![t].status = "open"]
  BY DEF CommitFund, At, HoldsPool, HoldsTask, IInv, RequestOK, TypeOK, HeldTask, Knows
<1>2. /\ rows' \in Seq(Row) /\ balance' \in [Accounts -> Int]
      /\ balance'[Pool] >= balance[Pool] - a
      /\ \A u \in Tasks : /\ balance'[u] >= balance[u]
                          /\ RewardRows(u)' = RewardRows(u)
                          /\ \A i \in RewardRows(u) : rows'[i] = rows[i]
  <2>1. CASE a > 0 /\ Post(LockRow(t, a, NoKey))
    BY <1>1, <2>1, LockFacts DEF IInv
  <2>2. CASE UNCHANGED ledgerVars
    BY <1>1, <2>2, Typed DEF IInv, ledgerVars, RewardRows
  <2> QED
    BY <2>1, <2>2 DEF CommitFund
<1>3. /\ tasks' \in [Tasks -> TaskRecord] /\ tasks'[t].status = "open"
      /\ \A u \in Tasks \ {t} : tasks'[u] = tasks[u]
  BY <1>1, StatusFacts DEF IInv
<1>4. PaidOnceIfAccepted'
  BY <1>1, <1>2, <1>3, UnpaidStep DEF IInv
<1>5. \A u \in Tasks : Touched(u)
  BY <1>1, <1>2, <1>3 DEF Touched
<1> QED
  BY <1>1, <1>2, <1>3, <1>4, <1>5, Typed DEF IInv, Effects, PoolTouched

\* A service that saves one Task row, and accepts nothing.
LEMMA SaveEffects ==
    ASSUME IInv, NEW t \in Tasks,
           NEW st \in {"draft", "open", "closed", "pending_review", "rejected"},
           st \in {"draft", "open", "closed"}
              => tasks[t].status \in {"absent", "draft", "open"},
           st \in {"pending_review", "rejected"}
              => tasks[t].status \in {"claimed", "pending_review"},
           tasks' = [tasks EXCEPT ![t].status = st],
           UNCHANGED <<rows, balance, genesis, reversed>>,
           \/ TaskFree(t) /\ TailFree
           \/ \E s \in Sessions : /\ Finish(s) /\ sess[s].task = t
                                  /\ HoldsTask(s, t) \/ HoldsTail(s)
    PROVE  Effects
<1>1. /\ tasks' \in [Tasks -> TaskRecord] /\ tasks'[t].status = st
      /\ \A u \in Tasks \ {t} : tasks'[u] = tasks[u]
  BY StatusFacts DEF IInv
<1>2. \A u \in Tasks : RewardRows(u)' = RewardRows(u)
  BY DEF RewardRows
<1>3. PaidOnceIfAccepted'
  BY <1>1, <1>2, UnpaidStep DEF IInv
<1>4. \A u \in Tasks : Touched(u)
  BY <1>1, Typed DEF IInv, Touched
<1> QED
  BY <1>1, <1>3, <1>4, Typed DEF IInv, Effects, PoolTouched

\* publish_task opens a funded draft.
LEMMA PublishEffects ==
    ASSUME IInv, NEW s \in Sessions, CommitPublish(s)
    PROVE  Effects
<1> DEFINE t == sess[s].task
<1>1. /\ t \in Tasks
      /\ tasks[t].status = "draft"
      /\ HoldsTask(s, t) /\ Finish(s)
      /\ UNCHANGED <<rows, balance, genesis, reversed>>
      /\ tasks' = [tasks EXCEPT ![t].status = "open"]
  BY DEF CommitPublish, At, HoldsTask, IInv, RequestOK, HeldTask, Knows
<1> HIDE DEF t
<1> QED
  BY <1>1, SaveEffects DEF t

\* review_task rejects: nothing is paid.
LEMMA RejectEffects ==
    ASSUME IInv, NEW s \in Sessions, CommitReject(s)
    PROVE  Effects
<1> DEFINE t == sess[s].task
<1>1. /\ t \in Tasks
      /\ tasks[t].status = "pending_review"
      /\ HoldsTask(s, t) /\ Finish(s)
      /\ UNCHANGED <<rows, balance, genesis, reversed>>
      /\ tasks' = [tasks EXCEPT ![t].status = "rejected"]
  BY DEF CommitReject, At, HoldsTask, IInv, RequestOK, HeldTask, Knows
<1> HIDE DEF t
<1> QED
  BY <1>1, SaveEffects DEF t

\* create_task_with_funding: a draft, or an open task with its budget locked.
LEMMA CreateEffects ==
    ASSUME IInv, NEW s \in Sessions, CommitCreate(s)
    PROVE  Effects
<1> DEFINE t == sess[s].task
           a == Shortfall(t)
<1>1. /\ t \in Tasks
      /\ tasks[t].status = "absent"
      /\ HoldsTail(s) /\ Finish(s) /\ PoolFree
      /\ genesis' = genesis /\ reversed' = reversed
  BY DEF CommitCreate, At, HoldsTail, IInv, RequestOK, HeldTask, Knows
<1>2. a \in Nat
  BY <1>1, Typed DEF IInv, Shortfall
<1>3. CASE /\ tasks' = [tasks EXCEPT ![t].status = "draft"]
           /\ UNCHANGED ledgerVars
  BY <1>1, <1>3, SaveEffects DEF ledgerVars
<1>4. CASE /\ tasks' = [tasks EXCEPT ![t].status = "open"]
           /\ UNCHANGED ledgerVars
  BY <1>1, <1>4, SaveEffects DEF ledgerVars
<1>5. CASE /\ tasks' = [tasks EXCEPT ![t].status = "open"]
           /\ balance[Pool] >= a /\ a > 0
           /\ Post(LockRow(t, a, NoKey))
  <2> HIDE DEF a
  <2>1. /\ tasks' \in [Tasks -> TaskRecord] /\ tasks'[t].status = "open"
        /\ \A u \in Tasks \ {t} : tasks'[u] = tasks[u]
    BY <1>1, <1>5, StatusFacts DEF IInv
  <2>2. /\ rows' \in Seq(Row) /\ balance' \in [Accounts -> Int]
        /\ balance'[Pool] >= balance[Pool] - a
        /\ \A u \in Tasks : /\ balance'[u] >= balance[u]
                            /\ RewardRows(u)' = RewardRows(u)
                            /\ \A i \in RewardRows(u) : rows'[i] = rows[i]
    BY <1>1, <1>2, <1>5, LockFacts DEF IInv
  <2>3. PaidOnceIfAccepted'
    BY <1>1, <2>1, <2>2, UnpaidStep DEF IInv
  <2>4. \A u \in Tasks : Touched(u)
    BY <1>1, <2>1, <2>2 DEF Touched
  <2>5. balance'[Pool] + genesis' + reversed' >= 0
    <3>1. balance'[Pool] \in Int /\ balance[Pool] \in Int /\ genesis \in Nat
          /\ reversed \in Nat
      BY <2>2, Typed, TaskBudgetAssumption DEF IInv
    <3> QED
      BY <1>1, <1>2, <1>5, <2>2, <3>1
  <2> QED
    BY <1>1, <2>1, <2>2, <2>3, <2>4, <2>5, Typed DEF IInv, Effects, PoolTouched
<1>6. balance[Pool] >= a \/ balance[Pool] < a
  BY <1>2, Typed DEF IInv
<1> QED
  BY <1>3, <1>4, <1>5, <1>6 DEF CommitCreate


\* review_task accepts: the reward is paid with the status, once.
LEMMA AcceptEffects ==
    ASSUME IInv, NEW s \in Sessions, CommitAccept(s)
    PROVE  Effects
<1>0. PICK t \in Tasks : t = sess[s].task
  BY DEF CommitAccept, At, IInv, RequestOK
<1>1. /\ t \in Tasks
      /\ tasks[t].status = "pending_review"
      /\ HoldsTask(s, t) /\ Finish(s)
      /\ tasks' = [tasks EXCEPT ![t].status = "accepted"]
  BY <1>0 DEF CommitAccept, At, HoldsTask, IInv, HeldTask, Knows
<1>2. /\ tasks' \in [Tasks -> TaskRecord] /\ tasks'[t].status = "accepted"
      /\ tasks'[t].assignee = tasks[t].assignee
      /\ \A u \in Tasks \ {t} : tasks'[u] = tasks[u]
  BY <1>1, StatusFacts DEF IInv
<1>3. RewardRows(t) = {} /\ Reward[t] \in Nat
  BY <1>1, TaskBudgetAssumption DEF IInv, PaidOnceIfAccepted
<1>r. reversed' = reversed /\ reversed \in Nat
  BY Typed DEF CommitAccept, IInv
<1>4. \A u \in Tasks \ {t} :
        /\ RewardRows(u) # {} <=> tasks'[u].status = "accepted" /\ Reward[u] > 0
        /\ \A i, j \in RewardRows(u) : i = j
        /\ \A i \in RewardRows(u) : rows[i].target = tasks'[u].assignee
  BY <1>2 DEF IInv, PaidOnceIfAccepted
<1>5. CASE Reward[t] = 0 /\ UNCHANGED <<rows, balance, genesis, reversed>>
  <2>1. \A u \in Tasks : RewardRows(u)' = RewardRows(u)
    BY <1>5 DEF RewardRows
  <2>2. PaidOnceIfAccepted'
    <3> SUFFICES ASSUME NEW u \in Tasks
                 PROVE  /\ RewardRows(u)' # {}
                              <=> tasks'[u].status = "accepted" /\ Reward[u] > 0
                        /\ \A i, j \in RewardRows(u)' : i = j
                        /\ \A i \in RewardRows(u)' : rows'[i].target = tasks'[u].assignee
      BY DEF PaidOnceIfAccepted
    <3>1. CASE u = t
      BY <1>3, <1>5, <2>1, <3>1
    <3>2. CASE u # t
      BY <1>4, <1>5, <2>1, <3>2
    <3> QED
      BY <3>1, <3>2
  <2>3. \A u \in Tasks : Touched(u)
    BY <1>0, <1>1, <1>2, <1>5, Typed DEF IInv, Touched
  <2> QED
    BY <1>r, <1>2, <1>5, <2>2, <2>3, Typed DEF IInv, Effects, PoolTouched
<1>6. ASSUME NEW source \in {t, Pool}, Reward[t] > 0, Post(RewardRow(t, source))
      PROVE  /\ PaidOnceIfAccepted'
             /\ rows' \in Seq(Row) /\ balance' \in [Accounts -> Int]
             /\ \A u \in Tasks : Touched(u)
             /\ source = t => balance'[Pool] >= balance[Pool]
             /\ balance'[Pool] >= balance[Pool] - Reward[t]
  <2>1. /\ RewardRows(t)' = {Len(rows) + 1}
        /\ rows'[Len(rows) + 1].target = tasks[t].assignee
        /\ \A u \in Tasks \ {t} : /\ RewardRows(u)' = RewardRows(u)
                                  /\ \A i \in RewardRows(u) : rows'[i] = rows[i]
    BY <1>1, <1>3, <1>6, RewardPost DEF IInv
  <2>2. /\ rows' \in Seq(Row) /\ balance' \in [Accounts -> Int]
        /\ source = t => balance'[Pool] >= balance[Pool]
        /\ balance'[Pool] >= balance[Pool] - Reward[t]
        /\ \A u \in Tasks \ {t} : balance'[u] >= balance[u]
    BY <1>1, <1>6, RewardFacts DEF IInv
  <2>3. PaidOnceIfAccepted'
    <3> SUFFICES ASSUME NEW u \in Tasks
                 PROVE  /\ RewardRows(u)' # {}
                              <=> tasks'[u].status = "accepted" /\ Reward[u] > 0
                        /\ \A i, j \in RewardRows(u)' : i = j
                        /\ \A i \in RewardRows(u)' : rows'[i].target = tasks'[u].assignee
      BY DEF PaidOnceIfAccepted
    <3>1. CASE u = t
      BY <1>2, <1>6, <2>1, <3>1
    <3>2. CASE u # t
      BY <1>4, <2>1, <3>2
    <3> QED
      BY <3>1, <3>2
  <2>4. \A u \in Tasks : Touched(u)
    BY <1>0, <1>1, <1>2, <2>2 DEF Touched
  <2> QED
    BY <2>2, <2>3, <2>4
<1>7. CASE Reward[t] > 0 /\ Post(RewardRow(t, t)) /\ genesis' = genesis
  BY <1>r, <1>2, <1>6, <1>7, Typed DEF IInv, Effects, PoolTouched
<1>8. CASE /\ Reward[t] > 0 /\ Post(RewardRow(t, Pool)) /\ PoolFree
           /\ genesis' = genesis + Reward[t]
  <2>1. balance'[Pool] + genesis' + reversed' >= 0 /\ genesis' \in Nat
    <3>1. balance[Pool] \in Int /\ genesis \in Nat
      BY Typed DEF IInv
    <3>2. balance' \in [Accounts -> Int] /\ balance'[Pool] >= balance[Pool] - Reward[t]
      BY <1>6, <1>8
    <3>3. balance'[Pool] \in Int
      BY <3>2, TaskBudgetAssumption
    <3>4. balance[Pool] + genesis + reversed >= 0
      BY DEF IInv, PoolNeverOverspent
    <3> QED
      BY <1>r, <1>3, <1>8, <3>1, <3>2, <3>3, <3>4
  <2> QED
    BY <1>r, <1>2, <1>6, <1>8, <2>1 DEF Effects, PoolTouched
<1> QED
  BY <1>0, <1>5, <1>7, <1>8 DEF CommitAccept

\* The member's workflow: each service saves the one Task row it locked.
LEMMA WorkflowEffects ==
    ASSUME IInv, NEW t \in Tasks, TaskStep(t)
    PROVE  Effects
<1>1. UNCHANGED <<rows, balance, genesis, reversed>> /\ TaskFree(t) /\ TailFree
  BY DEF TaskStep, create_task_draft, submit_labor, close_task, claim_task,
         assign_task, OnTaskRow
<1>2. CASE create_task_draft(t)
  BY <1>1, <1>2, SaveEffects DEF create_task_draft, OnTaskRow
<1>3. CASE submit_labor(t)
  BY <1>1, <1>3, SaveEffects DEF submit_labor, OnTaskRow
<1>4. CASE close_task(t)
  BY <1>1, <1>4, SaveEffects DEF close_task, OnTaskRow
<1>5. ASSUME NEW m \in Members, claim_task(t, m) \/ assign_task(t, m)
      PROVE  Effects
  <2>1. /\ tasks[t].status = "open"
        /\ tasks' = [tasks EXCEPT ![t] = [status |-> "claimed", assignee |-> m]]
    BY <1>5 DEF claim_task, assign_task, OnTaskRow
  <2>2. [status |-> "claimed", assignee |-> m] \in TaskRecord
    BY DEF TaskRecord
  <2>3. /\ tasks' \in [Tasks -> TaskRecord] /\ tasks'[t].status = "claimed"
        /\ \A u \in Tasks \ {t} : tasks'[u] = tasks[u]
    BY <2>1, <2>2, Typed DEF IInv
  <2>4. \A u \in Tasks : RewardRows(u)' = RewardRows(u)
    BY <1>1 DEF RewardRows
  <2>5. PaidOnceIfAccepted'
    BY <1>1, <2>1, <2>3, <2>4, UnpaidStep DEF IInv
  <2>6. \A u \in Tasks : Touched(u)
    BY <1>1, <2>3, Typed DEF IInv, Touched
  <2> QED
    BY <1>1, <2>3, <2>5, <2>6, Typed DEF IInv, Effects, PoolTouched
<1> QED
  BY <1>2, <1>3, <1>4, <1>5 DEF TaskStep

\* Every step has these effects.
LEMMA StepEffects ==
    ASSUME IInv, [Next]_vars
    PROVE  Effects
<1>1. CASE Issue
  BY <1>1, IssueEffects
<1>r. CASE Reverse
  BY <1>r, ReverseEffects
<1>2. CASE UNCHANGED vars
  BY <1>2, QuietEffects DEF vars
<1>3. CASE \E t \in Tasks : TaskStep(t)
  BY <1>3, WorkflowEffects
<1>4. ASSUME NEW s \in Sessions, SessionStep(s)
      PROVE  Effects
  <2>1. CASE UNCHANGED <<rows, balance, tasks, genesis, reversed>>
    BY <2>1, QuietEffects
  <2>2. \/ CommitLock(s) \/ CommitUnlock(s) \/ CommitFund(s) \/ CommitPublish(s)
        \/ CommitCreate(s) \/ CommitAccept(s) \/ CommitReject(s)
        \/ UNCHANGED <<rows, balance, tasks, genesis, reversed>>
    BY <1>4 DEF SessionStep, RequestLock, CheckLock, CheckUnlock, RequestFund, FundDraft,
                CheckFund, RequestPublish, CheckPublish, BeginCreate, RequestReview,
                CheckReview, Rollback, Begin, Advance
  <2> QED
    BY <2>1, <2>2, LockEffects, UnlockEffects, FundEffects, PublishEffects,
       CreateEffects, AcceptEffects, RejectEffects
<1> QED
  BY <1>1, <1>r, <1>2, <1>3, <1>4 DEF Next

-----------------------------------------------------------------------------
(* What was read under a lock is still true at the commit. *)

\* No step of another transaction takes away what a session knows of its task.
LEMMA HeldStep ==
    ASSUME IInv, [Next]_vars
    PROVE  HeldTask'
<1>0. /\ sess \in [Sessions -> SessionRecord]
      /\ \A u \in Sessions : sess[u].op # "none" => sess[u].task \in Tasks
      /\ \A t \in Tasks : Touched(t)
      /\ \A t \in Tasks : balance[t] \in Int /\ balance'[t] \in Int /\ Reward[t] \in Nat
  <2>1. Effects
    BY StepEffects
  <2>2. \A t \in Tasks : balance'[t] \in Int
    BY <2>1, TaskBudgetAssumption DEF Effects
  <2> QED
    BY <2>1, <2>2, Typed DEF IInv, TypeOK, SessionRecord, RequestOK, Effects
<1>1. ASSUME NEW u \in Sessions, sess'[u] = sess[u], sess[u].op # "none",
             NEW t \in Tasks, sess[u].task = t,
             tasks'[t] = tasks[t], balance'[t] >= balance[t]
      PROVE  Knows(sess[u])'
  BY <1>0, <1>1 DEF IInv, HeldTask, Knows
<1>2. ASSUME NEW u \in Sessions, sess'[u] = sess[u], sess[u].op # "none"
      PROVE  Knows(sess[u])'
  <2>0. PICK t \in Tasks : t = sess[u].task
    BY <1>0, <1>2
  <2>1. CASE tasks'[t] = tasks[t] /\ balance'[t] >= balance[t]
    BY <1>1, <1>2, <2>0, <2>1
  <2>2. CASE TaskFree(t) /\ TailFree
    <3>1. ~HoldsTask(u, t) /\ ~HoldsTail(u)
      BY <2>2 DEF TaskFree, TailFree
    <3>2. sess[u].op # "create"
      BY <3>1 DEF HoldsTail, IInv, RequestOK
    <3> QED
      BY <1>2, <2>0, <3>1, <3>2 DEF HoldsTask, Knows
  <2>3. CASE \E s \in Sessions : /\ Finish(s) /\ sess[s].task = t
                                 /\ HoldsTask(s, t) \/ HoldsTail(s)
    <3>1. PICK s \in Sessions : /\ Finish(s) /\ sess[s].task = t
                                /\ HoldsTask(s, t) \/ HoldsTail(s)
      BY <2>3
    <3>2. s # u
      BY <1>0, <1>2, <3>1 DEF Finish, Idle
    <3>3. CASE HoldsTask(s, t)
      <4>1. ~HoldsTask(u, t)
        BY <3>2, <3>3 DEF IInv, TaskExclusive
      <4>2. tasks[t].status \in {"draft", "pending_review"}
        BY <3>1, <3>3 DEF IInv, HeldTask, Knows, HoldsTask, RequestOK
      <4>3. sess[u].op # "create"
        BY <2>0, <4>2 DEF IInv, HeldTask, Knows
      <4> QED
        BY <1>2, <2>0, <4>1, <4>3 DEF HoldsTask, Knows
    <3>4. CASE HoldsTail(s)
      <4>1. tasks[t].status = "absent"
        BY <3>1, <3>4 DEF IInv, HeldTask, Knows, HoldsTail
      <4>2. ~HoldsTask(u, t)
        BY <2>0, <4>1 DEF IInv, HeldTask, Knows, HoldsTask, RequestOK
      <4>3. sess[u].op # "create"
        BY <3>2, <3>4 DEF IInv, TailExclusive, HoldsTail, RequestOK
      <4> QED
        BY <1>2, <2>0, <4>2, <4>3 DEF HoldsTask, Knows
    <3> QED
      BY <3>1, <3>3, <3>4
  <2>4. Touched(t)
    BY <1>0
  <2> QED
    BY <2>1, <2>2, <2>3, <2>4 DEF Touched
<1>3. ASSUME NEW u \in Sessions, sess'[u].op = "none"
      PROVE  Knows(sess[u])'
  BY <1>3 DEF Knows
<1>4. ASSUME NEW u \in Sessions, sess'[u] = sess[u]
      PROVE  Knows(sess[u])'
  BY <1>2, <1>3, <1>4
<1>5. CASE sess' = sess
  BY <1>4, <1>5 DEF HeldTask
<1>6. ASSUME NEW s \in Sessions, NEW r, Begin(s, r), Fresh(r)
      PROVE  HeldTask'
  <2>1. /\ sess'[s] = r /\ \A u \in Sessions \ {s} : sess'[u] = sess[u]
        /\ tasks' = tasks /\ balance' = balance
    BY <1>0, <1>6 DEF Begin
  <2>2. Knows(sess[s])'
    BY <1>6, <2>1 DEF Knows, Fresh
  <2> QED
    BY <1>4, <2>1, <2>2 DEF HeldTask
<1>7. ASSUME NEW s \in Sessions, Finish(s)
      PROVE  HeldTask'
  <2>1. sess'[s].op = "none" /\ \A u \in Sessions \ {s} : sess'[u] = sess[u]
    BY <1>0, <1>7 DEF Finish, Idle
  <2> QED
    BY <1>3, <1>4, <2>1 DEF HeldTask
<1>8. ASSUME NEW s \in Sessions, Granted(s)
      PROVE  HeldTask'
  <2>1. /\ \A u \in Sessions \ {s} : sess'[u] = sess[u]
        /\ tasks' = tasks /\ balance' = balance
    BY <1>8, GrantedFacts DEF IInv
  <2>2. Knows(sess[s])'
    BY <1>8, <2>1, GrantedFacts DEF IInv, Knows, HeldTask
  <2> QED
    BY <1>4, <2>1, <2>2 DEF HeldTask
<1> QED
  BY <1>5, <1>6, <1>7, <1>8, SessionChange

\* While a session holds the pool row, the pool covers what it will lock; so
\* only genesis rewards and reversals overdraw it.
LEMMA PoolStep ==
    ASSUME IInv, [Next]_vars
    PROVE  PoolCovered' /\ PoolNeverOverspent'
<1>0. /\ sess \in [Sessions -> SessionRecord]
      /\ PoolTouched
      /\ balance[Pool] \in Int /\ balance'[Pool] \in Int
      /\ genesis \in Nat /\ genesis' \in Nat /\ reversed \in Nat /\ reversed' \in Nat
      /\ \A s \in Sessions : sess[s].amount \in Nat
  BY StepEffects, Typed, TaskBudgetAssumption DEF IInv, TypeOK, SessionRecord, Effects
<1>1. PoolNeverOverspent'
  <2>1. CASE \E s \in Sessions : /\ HoldsPool(s)
                                 /\ genesis' = genesis /\ reversed' = reversed
                                 /\ balance'[Pool] >= balance[Pool] - sess[s].amount
    <3>1. PICK s \in Sessions : /\ HoldsPool(s)
                                /\ genesis' = genesis /\ reversed' = reversed
                                /\ balance'[Pool] >= balance[Pool] - sess[s].amount
      BY <2>1
    <3>2. balance[Pool] >= sess[s].amount /\ sess[s].amount \in Nat
      BY <1>0, <3>1 DEF IInv, PoolCovered
    <3> QED
      BY <1>0, <3>1, <3>2 DEF PoolNeverOverspent
  <2>2. CASE /\ balance'[Pool] >= balance[Pool]
             /\ genesis' = genesis /\ reversed' = reversed
    BY <1>0, <2>2 DEF IInv, PoolNeverOverspent
  <2> QED
    BY <1>0, <2>1, <2>2 DEF PoolTouched, PoolNeverOverspent
<1>2. ASSUME NEW u \in Sessions, sess'[u] = sess[u], HoldsPool(u)'
      PROVE  balance'[Pool] >= sess'[u].amount
  <2>1. HoldsPool(u) /\ balance[Pool] >= sess[u].amount
    BY <1>2 DEF HoldsPool, IInv, PoolCovered
  <2>2. ~PoolFree
    BY <2>1 DEF PoolFree
  <2>3. ASSUME NEW s \in Sessions, Finish(s), HoldsPool(s)
        PROVE  FALSE
    <3>1. s = u
      BY <2>1, <2>3 DEF IInv, PoolExclusive
    <3> QED
      BY <1>0, <1>2, <2>1, <2>3, <3>1 DEF Finish, Idle, HoldsPool
  <2>4. balance'[Pool] >= balance[Pool]
    BY <1>0, <2>2, <2>3 DEF PoolTouched
  <2> QED
    BY <1>0, <1>2, <2>1, <2>4
<1>3. CASE sess' = sess
  <2> SUFFICES ASSUME NEW u \in Sessions, HoldsPool(u)'
               PROVE  balance'[Pool] >= sess'[u].amount
    BY <1>1 DEF PoolCovered
  <2>1. sess'[u] = sess[u]
    BY <1>3
  <2> QED
    BY <1>2, <2>1
<1>4. ASSUME NEW s \in Sessions, NEW r, Begin(s, r), Fresh(r)
      PROVE  PoolCovered'
  <2>1. sess'[s] = r /\ \A u \in Sessions \ {s} : sess'[u] = sess[u]
    BY <1>0, <1>4 DEF Begin
  <2>2. ~HoldsPool(s)'
    BY <1>4, <2>1 DEF HoldsPool, Fresh
  <2> QED
    BY <1>2, <2>1, <2>2 DEF PoolCovered
<1>5. ASSUME NEW s \in Sessions, Finish(s)
      PROVE  PoolCovered'
  <2>1. ~HoldsPool(s)' /\ \A u \in Sessions \ {s} : sess'[u] = sess[u]
    BY <1>0, <1>5 DEF Finish, Idle, HoldsPool
  <2> QED
    BY <1>2, <2>1 DEF PoolCovered
<1>6. ASSUME NEW s \in Sessions, Granted(s)
      PROVE  PoolCovered'
  <2>1. /\ \A u \in Sessions \ {s} : sess'[u] = sess[u]
        /\ balance' = balance
        /\ HoldsPool(s)' => balance[Pool] >= sess'[s].amount
    BY <1>6, GrantedFacts DEF IInv, HoldsPool
  <2> QED
    BY <1>2, <2>1 DEF PoolCovered
<1> QED
  BY <1>1, <1>3, <1>4, <1>5, <1>6, SessionChange

-----------------------------------------------------------------------------
(* The theorems. *)

\* The inductive invariant holds of every behaviour.
THEOREM SpecIInv == Spec => []IInv
<1>1. Init => IInv
  <2> SUFFICES ASSUME Init PROVE IInv
    OBVIOUS
  <2>1. TypeOK
    BY TaskBudgetAssumption DEF Init, TypeOK, Idle, Unassigned
  <2>2. RequestOK /\ TaskExclusive /\ PoolExclusive /\ TailExclusive /\ HeldTask
        /\ PoolCovered
    BY DEF Init, Idle, RequestOK, TaskExclusive, PoolExclusive, TailExclusive, HeldTask,
           Knows, PoolCovered, HoldsTask, HoldsPool, HoldsTail
  <2>3. PoolNeverOverspent
    BY TaskBudgetAssumption DEF Init, PoolNeverOverspent
  <2>4. PaidOnceIfAccepted
    BY DEF Init, PaidOnceIfAccepted, RewardRows, Unassigned
  <2> QED
    BY <2>1, <2>2, <2>3, <2>4 DEF IInv
<1>2. IInv /\ [Next]_vars => IInv'
  <2> SUFFICES ASSUME IInv, [Next]_vars PROVE IInv'
    OBVIOUS
  <2>1. Effects /\ sess' \in [Sessions -> SessionRecord] /\ RequestOK'
    BY StepEffects, RequestStep DEF IInv
  <2>2. TypeOK'
    BY <2>1 DEF Effects, TypeOK, TaskRecord, SessionRecord
  <2>3. TaskExclusive' /\ PoolExclusive' /\ TailExclusive'
    BY ExclusiveStep DEF IInv
  <2> QED
    BY <2>1, <2>2, <2>3, HeldStep, PoolStep DEF IInv, Effects
<1> QED
  BY <1>1, <1>2, PTL DEF Spec

\* Every variable keeps its type, and a task has an assignee from its claim on:
\* review_task never meets a task without one.
THEOREM TypeCorrect == Spec => []TypeOK
<1>1. IInv => TypeOK
  BY DEF IInv
<1> QED
  BY <1>1, SpecIInv, PTL

\* lock_task_credit_budget and the funded publications never spend more than the
\* issuance pool holds, however many of them run; only genesis rewards and
\* reversals do, and by no more than they took.
THEOREM PoolSafe == Spec => []PoolNeverOverspent
<1>1. IInv => PoolNeverOverspent
  BY DEF IInv
<1> QED
  BY <1>1, SpecIInv, PTL

\* review_task pays an accepted task once, to its assignee, and no other task.
THEOREM PaidOnce == Spec => []PaidOnceIfAccepted
<1>1. IInv => PaidOnceIfAccepted
  BY DEF IInv
<1> QED
  BY <1>1, SpecIInv, PTL


\* publish_task, fund_and_publish_task and create_task_with_funding open a task
\* with base points only with its whole reward budgeted: the Task row keeps unlocks and rewards out
\* between the check and the commit.
THEOREM PublicationFunded == Spec => FundedPublication
<1>1. ASSUME IInv, [Next]_vars, NEW t \in Rewarded,
             tasks[t].status # "open", tasks'[t].status = "open"
      PROVE  balance'[t] >= Reward[t]
  <2> t \in Tasks
    BY TaskBudgetAssumption
  <2>0. /\ tasks \in [Tasks -> TaskRecord] /\ balance[t] \in Int /\ Reward[t] \in Nat
    BY <1>1, Typed DEF IInv
  <2>1. ASSUME NEW s \in Sessions, CommitFund(s)
        PROVE  balance'[t] >= Reward[t]
    BY <1>1, <2>0, <2>1 DEF CommitFund
  <2>2. ASSUME NEW s \in Sessions, CommitPublish(s)
        PROVE  balance'[t] >= Reward[t]
    <3>1. sess[s].task = t /\ balance' = balance
      BY <1>1, <2>0, <2>2 DEF CommitPublish
    <3> QED
      BY <1>1, <2>2, <3>1 DEF CommitPublish, At, IInv, HeldTask, Knows
  <2>3. ASSUME NEW s \in Sessions, CommitCreate(s)
        PROVE  balance'[t] >= Reward[t]
    <3>1. sess[s].task = t
      BY <1>1, <2>0, <2>3 DEF CommitCreate
    <3>2. tasks'[t].status = "open" => tasks' # [tasks EXCEPT ![t].status = "draft"]
      BY <2>0 DEF TaskRecord
    <3>3. CASE Shortfall(t) > 0 /\ Post(LockRow(t, Shortfall(t), NoKey))
      <4>1. balance'[t] = balance[t] + Shortfall(t)
        <5>1. Shortfall(t) \in Nat \ {0}
          BY <2>0, <3>3 DEF Shortfall
        <5> QED
          BY <1>1, <3>3, <5>1, LockFacts DEF IInv
      <4> QED
        BY <2>0, <4>1 DEF Shortfall
    <3>4. CASE ~(Shortfall(t) > 0) /\ UNCHANGED ledgerVars
      BY <2>0, <3>4 DEF Shortfall, ledgerVars
    <3> QED
      BY <1>1, <2>3, <3>1, <3>2, <3>3, <3>4 DEF CommitCreate
  <2>4. ASSUME NEW u \in Tasks, TaskStep(u)
        PROVE  FALSE
    <3>1. \/ \E st \in {"draft", "pending_review", "closed"} :
               tasks' = [tasks EXCEPT ![u].status = st]
          \/ \E m \in Members :
               tasks' = [tasks EXCEPT ![u] = [status |-> "claimed", assignee |-> m]]
      BY <2>4 DEF TaskStep, create_task_draft, submit_labor, close_task,
                  claim_task, assign_task
    <3> QED
      BY <1>1, <2>0, <3>1 DEF TaskRecord
  <2>5. ASSUME NEW s \in Sessions, CommitAccept(s) \/ CommitReject(s)
        PROVE  FALSE
    <3>1. \E st \in {"accepted", "rejected"} :
            tasks' = [tasks EXCEPT ![sess[s].task].status = st]
      BY <2>5 DEF CommitAccept, CommitReject
    <3> QED
      BY <1>1, <2>0, <3>1 DEF TaskRecord
  <2>6. tasks' # tasks
    BY <1>1
  <2> QED
    BY <1>1, <2>1, <2>2, <2>3, <2>4, <2>5, <2>6
    DEF Next, vars, SessionStep, Issue, Reverse, RequestLock, CheckLock, CommitLock, CheckUnlock,
        CommitUnlock, RequestFund, FundDraft, CheckFund, RequestPublish, CheckPublish,
        BeginCreate, RequestReview, CheckReview, Rollback, Begin, Advance
<1>2. IInv /\ [Next]_vars
      => [\A t \in Rewarded : tasks[t].status # "open" /\ tasks'[t].status = "open"
                            => balance'[t] >= Reward[t]]_vars
  BY <1>1
<1> QED
  BY <1>2, SpecIInv, PTL DEF Spec, FundedPublication

\* A finished task never changes again and a claimed one keeps its member (all of
\* core/tasks), although reviews and publications act on what they read earlier.
THEOREM TasksForward == Spec => TaskForward
<1>1. ASSUME IInv, [Next]_vars, NEW t \in Tasks
      PROVE  /\ tasks[t].status \in {"closed", "accepted", "rejected"}
                   => tasks'[t] = tasks[t]
             /\ tasks[t].assignee # NoAccount => tasks'[t].assignee = tasks[t].assignee
  <2>0. tasks \in [Tasks -> TaskRecord]
    BY <1>1, Typed DEF IInv
  <2>1. CASE tasks' = tasks
    BY <2>1
  <2>2. ASSUME NEW u \in Tasks, NEW st, tasks' = [tasks EXCEPT ![u].status = st],
               tasks[u].status \notin {"closed", "accepted", "rejected"}
        PROVE  /\ tasks[t].status \in {"closed", "accepted", "rejected"}
                     => tasks'[t] = tasks[t]
               /\ tasks[t].assignee # NoAccount => tasks'[t].assignee = tasks[t].assignee
    BY <2>0, <2>2 DEF TaskRecord
  <2>3. ASSUME NEW s \in Sessions,
               \/ CommitFund(s) \/ CommitPublish(s) \/ CommitCreate(s)
               \/ CommitAccept(s) \/ CommitReject(s)
        PROVE  \E u \in Tasks : /\ \E st : tasks' = [tasks EXCEPT ![u].status = st]
                                /\ tasks[u].status \notin {"closed", "accepted", "rejected"}
    <3>1. /\ sess[s].task \in Tasks
          /\ tasks[sess[s].task].status \notin {"closed", "accepted", "rejected"}
      BY <1>1, <2>3 DEF IInv, RequestOK, HeldTask, Knows, CommitFund, CommitPublish,
                        CommitCreate, CommitAccept, CommitReject, At
    <3>2. \E st : tasks' = [tasks EXCEPT ![sess[s].task].status = st]
      BY <2>3 DEF CommitFund, CommitPublish, CommitCreate, CommitAccept, CommitReject
    <3> QED
      BY <3>1, <3>2
  <2>4. ASSUME NEW u \in Tasks, create_task_draft(u) \/ submit_labor(u) \/ close_task(u)
        PROVE  /\ \E st : tasks' = [tasks EXCEPT ![u].status = st]
               /\ tasks[u].status \notin {"closed", "accepted", "rejected"}
    BY <2>4 DEF create_task_draft, submit_labor, close_task, OnTaskRow
  <2>5. ASSUME NEW u \in Tasks, NEW m \in Members, claim_task(u, m) \/ assign_task(u, m)
        PROVE  /\ tasks[t].status \in {"closed", "accepted", "rejected"}
                     => tasks'[t] = tasks[t]
               /\ tasks[t].assignee # NoAccount => tasks'[t].assignee = tasks[t].assignee
    <3>1. /\ tasks[u].status = "open"
          /\ tasks' = [tasks EXCEPT ![u] = [status |-> "claimed", assignee |-> m]]
      BY <2>5 DEF claim_task, assign_task, OnTaskRow
    <3>2. tasks[u].assignee = NoAccount
      BY <2>0, <3>1 DEF TaskRecord
    <3> QED
      BY <2>0, <3>1, <3>2
  <2>6. \/ tasks' = tasks
        \/ \E s \in Sessions : \/ CommitFund(s) \/ CommitPublish(s) \/ CommitCreate(s)
                               \/ CommitAccept(s) \/ CommitReject(s)
        \/ \E u \in Tasks : TaskStep(u)
    BY <1>1
    DEF Next, vars, SessionStep, Issue, Reverse, RequestLock, CheckLock, CommitLock, CheckUnlock,
        CommitUnlock, RequestFund, FundDraft, CheckFund, RequestPublish, CheckPublish,
        BeginCreate, RequestReview, CheckReview, Rollback, Begin, Advance
  <2>7. CASE \E u \in Tasks : TaskStep(u)
    BY <2>2, <2>4, <2>5, <2>7 DEF TaskStep
  <2> QED
    BY <2>1, <2>2, <2>3, <2>6, <2>7
<1>2. IInv /\ [Next]_vars
      => [\A t \in Tasks :
            /\ tasks[t].status \in {"closed", "accepted", "rejected"}
                 => tasks'[t] = tasks[t]
            /\ tasks[t].assignee # NoAccount
                 => tasks'[t].assignee = tasks[t].assignee]_vars
  BY <1>1
<1> QED
  BY <1>2, SpecIInv, PTL DEF Spec, TaskForward

=============================================================================

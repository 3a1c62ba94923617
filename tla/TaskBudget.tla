----------------------------- MODULE TaskBudget -----------------------------
(***************************************************************************)
(* Tasks and the credits that pay for them: core/tasks (authoring,         *)
(* funding, member_workflow, review) and the issuance-pool half of         *)
(* core/credit_services.py, called concurrently.                           *)
(*                                                                         *)
(* The task_locked account is split by task: task_locked_credit_balance(t) *)
(* is the balance of account t.  It counts the rows that carry the task;   *)
(* reversals carry none, so what they move is a part of its own, Residue.  *)
(* Sessions run the services that wait for   *)
(* a row lock or read a balance before they commit; they lock the Task     *)
(* row, then the issuance-pool row, and last the tail of the event chain   *)
(* (append_event), except that create_task_with_funding appends its        *)
(* TASK_CREATED event, and so holds the tail, before it asks for the pool. *)
(* Inserting a CreditTransaction needs shared locks on the Task and the    *)
(* accounts its foreign keys name, so it waits for whoever locked them.    *)
(* Services that only look at the Task row they lock are single steps.     *)
(***************************************************************************)
EXTENDS CreditLedger, FiniteSets

CONSTANTS
    Sessions,      \* concurrent requests
    Tasks,
    Members,
    Assignable,    \* members whose status is admitted or active
    Keys,          \* idempotency keys from the budget page
    MaxReversals,  \* bound on the reversals inserted
    Amounts,       \* amounts administrators issue, lock and unlock
    Rewarded,      \* tasks with base_points > 0
    Reward         \* task -> task_expected_reward (base_points x coefficient)

Pool == "issuance_pool"
Residue == "task_locked of no task"

ASSUME TaskBudgetAssumption ==
    /\ Accounts = Tasks \cup Members \cup {Pool, Residue}
    /\ Tasks \cap Members = {}
    /\ {Pool, Residue} \cap (Tasks \cup Members) = {}
    /\ Assignable \subseteq Members
    /\ NoKey \notin Keys
    /\ MaxReversals \in Nat
    /\ Amounts \subseteq Nat \ {0}
    /\ Reward \in [Tasks -> Nat]
    /\ Rewarded \subseteq Tasks
    /\ \A t \in Tasks \ Rewarded : Reward[t] = 0

VARIABLES
    tasks,         \* task -> its status and assignee
    sess,          \* session -> the request it serves
    genesis,       \* history: credits drawn from the pool without a budget
    reversed       \* history: credits reversals took out of the pool

vars == <<rows, balance, tasks, sess, genesis, reversed>>

-----------------------------------------------------------------------------
(* Rows. *)

BudgetRow(type, amount, source, target, task, key) ==
    [type |-> type, amount |-> amount, source |-> source, target |-> target,
     task |-> task, order |-> NoOrder, reverses |-> 0, key |-> key]

LockRow(t, a, key)   == BudgetRow("lock", a, Pool, t, t, key)
UnlockRow(t, a, key) == BudgetRow("unlock", a, t, Pool, t, key)
RewardRow(t, source) ==
    BudgetRow("task_reward", Reward[t], source, tasks[t].assignee, t,
              <<"task-reward", t>>)

-----------------------------------------------------------------------------
(* Sessions and the row locks they hold. *)

Idle == [pc |-> "idle", op |-> "none", task |-> NoTask, amount |-> 0,
         key |-> NoKey, accept |-> FALSE, genesis |-> FALSE]

Request(pc, op, t, a, key) ==
    [pc |-> pc, op |-> op, task |-> t, amount |-> a, key |-> key,
     accept |-> FALSE, genesis |-> FALSE]

At(s, op, pc) == sess[s].op = op /\ sess[s].pc = pc

HoldsTask(s, t) ==
    /\ sess[s].task = t
    /\ sess[s].op \in {"fund", "publish", "review"}
    /\ sess[s].pc \in {"want_pool", "commit"}

HoldsPool(s) == sess[s].pc = "commit" /\ sess[s].op \in {"lock", "fund"}

\* lock_task_credit_budget locks the task_locked account with the pool.
HoldsLocked(s) == At(s, "lock", "commit")

\* The created task's event is appended but not committed.
HoldsTail(s) == sess[s].pc = "want_pool" /\ sess[s].op = "create"

\* Plausible bugs: select_for_update is missing.
TaskLockNotTaken(t) == TRUE
PoolLockNotTaken == TRUE

TaskFree(t) == \A s \in Sessions : ~HoldsTask(s, t)
PoolFree == \A s \in Sessions : ~HoldsPool(s)
LockedFree == \A s \in Sessions : ~HoldsLocked(s)
TailFree == \A s \in Sessions : ~HoldsTail(s)

Begin(s, r) ==
    /\ sess[s] = Idle
    /\ sess' = [sess EXCEPT ![s] = r]
    /\ UNCHANGED <<rows, balance, tasks, genesis, reversed>>

Advance(s, pc) ==
    /\ sess' = [sess EXCEPT ![s].pc = pc]
    /\ UNCHANGED <<rows, balance, tasks, genesis, reversed>>

Finish(s) == sess' = [sess EXCEPT ![s] = Idle]

\* A DomainError, a failing append_event, a lock timeout, a deadlock victim or a
\* crash: the transaction leaves nothing behind.
Rollback(s) ==
    /\ sess[s] # Idle
    /\ Finish(s)
    /\ UNCHANGED <<rows, balance, tasks, genesis, reversed>>

-----------------------------------------------------------------------------
(* issue_credits_to_pool, lock_task_credit_budget, unlock_unused_... *)

\* No balance is involved; the row names the pool.
Issue ==
    \E a \in Amounts, k \in Keys :
        LET row == BudgetRow("issuance", a, NoAccount, Pool, NoTask, k)
        IN  /\ PoolFree
            /\ TailFree
            /\ IsNew(row)
            /\ Insert(row)
            /\ UNCHANGED <<tasks, sess, genesis, reversed>>

RequestLock(s) ==
    \E t \in Tasks, a \in Amounts, k \in Keys :
        /\ tasks[t].status # "absent"
        /\ Begin(s, Request("want_pool", "lock", t, a, k))

\* With the pool row locked: the key, then the pool's balance.
CheckLock(s) ==
    /\ At(s, "lock", "want_pool")
    /\ PoolFree
    /\ ~HasRow("lock", sess[s].key)
    /\ balance[Pool] >= sess[s].amount
    /\ Advance(s, "commit")

CommitLock(s) ==
    /\ At(s, "lock", "commit")
    /\ TaskFree(sess[s].task)
    /\ TailFree
    /\ Post(LockRow(sess[s].task, sess[s].amount, sess[s].key))
    /\ Finish(s)
    /\ UNCHANGED <<tasks, genesis, reversed>>

\* The key and the remaining budget are read without any lock, and not again.
CheckUnlock(s) ==
    \E t \in Tasks, a \in Amounts, k \in Keys :
        /\ tasks[t].status # "absent"
        /\ ~HasRow("unlock", k)
        /\ a <= balance[t]
        /\ Begin(s, Request("commit", "unlock", t, a, k))

CommitUnlock(s) ==
    /\ At(s, "unlock", "commit")
    /\ PoolFree
    /\ LockedFree
    /\ TaskFree(sess[s].task)
    /\ TailFree
    /\ Post(UnlockRow(sess[s].task, sess[s].amount, sess[s].key))
    /\ Finish(s)
    /\ UNCHANGED <<tasks, genesis, reversed>>

-----------------------------------------------------------------------------
(* fund_and_publish_task, publish_task and create_task_with_funding. *)

Shortfall(t) == IF Reward[t] > balance[t] THEN Reward[t] - balance[t] ELSE 0

RequestFund(s) ==
    \E t \in Tasks :
        /\ tasks[t].status # "absent"
        /\ Begin(s, Request("want_task", "fund", t, 0, NoKey))

FundDraft(s) ==
    /\ At(s, "fund", "want_task")
    /\ TaskFree(sess[s].task)
    /\ tasks[sess[s].task].status = "draft"
    /\ Advance(s, "want_pool")

\* With the Task and the pool row locked the shortfall is fixed; a pool that
\* cannot cover it ends the request with the draft untouched (a Rollback).
CheckFund(s) ==
    LET t == sess[s].task
    IN  /\ At(s, "fund", "want_pool")
        /\ PoolFree
        /\ balance[Pool] >= Shortfall(t)
        /\ sess' = [sess EXCEPT ![s].pc = "commit", ![s].amount = Shortfall(t)]
        /\ UNCHANGED <<rows, balance, tasks, genesis, reversed>>

\* The missing credits are locked, publish_task reads the budget once more (the
\* Task lock has kept unlocks out), and the draft is opened: all or nothing.
CommitFund(s) ==
    LET t == sess[s].task
    IN  /\ At(s, "fund", "commit")
        /\ TailFree
        /\ IF sess[s].amount > 0
           THEN LockedFree /\ Post(LockRow(t, sess[s].amount, NoKey))
           ELSE UNCHANGED ledgerVars
        /\ t \in Rewarded => balance'[t] >= Reward[t]
        /\ tasks' = [tasks EXCEPT ![t].status = "open"]
        /\ Finish(s)
        /\ UNCHANGED <<genesis, reversed>>

RequestPublish(s) ==
    \E t \in Tasks :
        /\ tasks[t].status # "absent"
        /\ Begin(s, Request("want_task", "publish", t, 0, NoKey))

\* A task without base points needs no budget, and its budget is not read.
CheckPublish(s) ==
    LET t == sess[s].task
    IN  /\ At(s, "publish", "want_task")
        /\ TaskFree(t)
        /\ tasks[t].status = "draft"
        /\ t \in Rewarded => balance[t] >= Reward[t]
        /\ Advance(s, "commit")

CommitPublish(s) ==
    /\ At(s, "publish", "commit")
    /\ TailFree
    /\ tasks' = [tasks EXCEPT ![sess[s].task].status = "open"]
    /\ Finish(s)
    /\ UNCHANGED <<rows, balance, genesis, reversed>>

\* The draft and its event are written; from here the tail is held.
BeginCreate(s) ==
    \E t \in Tasks :
        /\ TailFree
        /\ tasks[t].status = "absent"
        /\ \A u \in Sessions : ~(sess[u].op = "create" /\ sess[u].task = t)
        /\ Begin(s, Request("want_pool", "create", t, 0, NoKey))

\* A pool that cannot cover the reward commits the draft alone.
CommitCreate(s) ==
    LET t == sess[s].task
    IN  /\ At(s, "create", "want_pool")
        /\ PoolFree
        /\ IF balance[Pool] < Shortfall(t)
           THEN /\ tasks' = [tasks EXCEPT ![t].status = "draft"]
                /\ UNCHANGED ledgerVars
           ELSE /\ tasks' = [tasks EXCEPT ![t].status = "open"]
                /\ IF Shortfall(t) > 0
                   THEN Post(LockRow(t, Shortfall(t), NoKey))
                   ELSE UNCHANGED ledgerVars
        /\ Finish(s)
        /\ UNCHANGED <<genesis, reversed>>

-----------------------------------------------------------------------------
(* The member's workflow: one Task row locked, checked and saved. *)

OnTaskRow(t, status) ==
    /\ TaskFree(t)
    /\ TailFree
    /\ tasks[t].status \in status
    /\ UNCHANGED <<rows, balance, sess, genesis, reversed>>

create_task_draft(t) ==
    /\ OnTaskRow(t, {"absent"})
    /\ tasks' = [tasks EXCEPT ![t].status = "draft"]

claim_task(t, m) ==
    /\ OnTaskRow(t, {"open"})
    /\ tasks' = [tasks EXCEPT ![t] = [status |-> "claimed", assignee |-> m]]

assign_task(t, m) ==
    /\ m \in Assignable
    /\ OnTaskRow(t, {"open"})
    /\ tasks' = [tasks EXCEPT ![t] = [status |-> "claimed", assignee |-> m]]

submit_labor(t) ==
    /\ OnTaskRow(t, {"claimed"})
    /\ tasks' = [tasks EXCEPT ![t].status = "pending_review"]

close_task(t) ==
    /\ OnTaskRow(t, {"draft", "open"})
    /\ tasks' = [tasks EXCEPT ![t].status = "closed"]

-----------------------------------------------------------------------------
(* review_task and post_task_reward_credit_transaction. *)

RequestReview(s) ==
    \E t \in Tasks, acc, gen \in BOOLEAN :
        /\ tasks[t].status # "absent"
        /\ gen => acc
        /\ Begin(s, [Request("want_task", "review", t, 0, NoKey)
                        EXCEPT !.accept = acc, !.genesis = gen])

\* A plausible bug: a rejected submission can be reviewed again.
ReviewRejected(s) ==
    /\ At(s, "review", "want_task")
    /\ TaskFree(sess[s].task)
    /\ tasks[sess[s].task].status \in {"pending_review", "rejected"}
    /\ Advance(s, "commit")

CheckReview(s) ==
    /\ At(s, "review", "want_task")
    /\ TaskFree(sess[s].task)
    /\ tasks[sess[s].task].status = "pending_review"
    /\ Advance(s, "commit")

\* The reward leaves the task's budget, which must cover it, or under the
\* genesis exception the pool, whose balance is not looked at.  TASK_REVIEWED is
\* appended first, so the tail is held while the budget is read.
CommitAccept(s) ==
    LET t == sess[s].task
    IN  /\ At(s, "review", "commit")
        /\ TailFree
        /\ sess[s].accept
        /\ tasks' = [tasks EXCEPT ![t].status = "accepted"]
        /\ \/ Reward[t] = 0 /\ UNCHANGED <<rows, balance, genesis>>
           \/ /\ Reward[t] > 0 /\ ~sess[s].genesis
              /\ balance[t] >= Reward[t]
              /\ LockedFree
              /\ Post(RewardRow(t, t))
              /\ UNCHANGED genesis
           \/ /\ Reward[t] > 0 /\ sess[s].genesis
              /\ PoolFree
              /\ Post(RewardRow(t, Pool))
              /\ genesis' = genesis + Reward[t]
        /\ Finish(s)
        /\ UNCHANGED reversed

CommitReject(s) ==
    /\ At(s, "review", "commit")
    /\ TailFree
    /\ ~sess[s].accept
    /\ tasks' = [tasks EXCEPT ![sess[s].task].status = "rejected"]
    /\ Finish(s)
    /\ UNCHANGED <<rows, balance, genesis, reversed>>

-----------------------------------------------------------------------------
(* reverse_credit_transaction, of any row. *)

\* The mirrored row carries no related_task.
Unattributed(account) == IF account \in Tasks THEN Residue ELSE account

ReversalRow(i, key) ==
    [type |-> "reversal", amount |-> rows[i].amount,
     source |-> Unattributed(rows[i].target), target |-> Unattributed(rows[i].source),
     task |-> NoTask, order |-> NoOrder, reverses |-> i, key |-> key]

Reversals == {i \in DOMAIN rows : rows[i].type = "reversal"}

\* A new reversal waits for the accounts it names; no balance is looked at.
PostReversal(row) ==
    /\ Cardinality(Reversals) < MaxReversals
    /\ IsNew(row)
    /\ TailFree
    /\ Pool \in {row.source, row.target} => PoolFree
    /\ Residue \in {row.source, row.target} => LockedFree
    /\ Insert(row)
    /\ reversed' = reversed + (IF row.source = Pool THEN row.amount ELSE 0)

\* The row posted for the same movement under the key is taken for this reversal.
Repoint(row) ==
    \E j \in RowsWithKey(row.key) :
        /\ SameMovement(rows[j], row)
        /\ rows' = [rows EXCEPT ![j].reverses = row.reverses]
        /\ UNCHANGED <<balance, reversed>>

\* The lock on the original row keeps other reversals of it out until the commit,
\* so this is one step (MemberCredits lets reversals race for that lock).
Reverse ==
    \E i \in DOMAIN rows, k \in Keys \cup {NoKey} :
        LET row == ReversalRow(i, k)
        IN  /\ \A j \in DOMAIN rows : rows[j].reverses # i
            /\ PostReversal(row) \/ Repoint(row)
            /\ UNCHANGED <<tasks, sess, genesis>>

-----------------------------------------------------------------------------
Unassigned == [status |-> "absent", assignee |-> NoAccount]

Init ==
    /\ rows = <<>>
    /\ balance = [a \in Accounts |-> 0]
    /\ tasks = [t \in Tasks |-> Unassigned]
    /\ sess = [s \in Sessions |-> Idle]
    /\ genesis = 0
    /\ reversed = 0

SessionStep(s) ==
    \/ RequestLock(s) \/ CheckLock(s) \/ CommitLock(s)
    \/ CheckUnlock(s) \/ CommitUnlock(s)
    \/ RequestFund(s) \/ FundDraft(s) \/ CheckFund(s) \/ CommitFund(s)
    \/ RequestPublish(s) \/ CheckPublish(s) \/ CommitPublish(s)
    \/ BeginCreate(s) \/ CommitCreate(s)
    \/ RequestReview(s) \/ CheckReview(s) \/ CommitAccept(s) \/ CommitReject(s)
    \/ Rollback(s)

TaskStep(t) ==
    \/ create_task_draft(t) \/ submit_labor(t) \/ close_task(t)
    \/ \E m \in Members : claim_task(t, m) \/ assign_task(t, m)

Next ==
    \/ Issue
    \/ Reverse
    \/ \E s \in Sessions : SessionStep(s)
    \/ \E t \in Tasks : TaskStep(t)

Spec == Init /\ [][Next]_vars

-----------------------------------------------------------------------------
(* Properties. *)

Row == [type : TransactionTypes, amount : Nat \ {0},
        source : Accounts \cup {NoAccount}, target : Accounts \cup {NoAccount},
        task : Tasks \cup {NoTask}, order : {NoOrder}, reverses : Nat,
        key : Keys \cup {NoKey} \cup ({"task-reward"} \X Tasks)]

\* Every variable has its type, and a task has an assignee from the moment it is
\* claimed: review_task's "Cannot review a task without an assignee" is never hit.
TypeOK ==
    /\ rows \in Seq(Row)
    /\ balance \in [Accounts -> Int]
    /\ tasks \in [Tasks ->
          [status : {"absent", "draft", "open", "closed"}, assignee : {NoAccount}]
          \cup [status : {"claimed", "pending_review", "accepted", "rejected"},
                assignee : Members]]
    /\ sess \in [Sessions ->
          [pc : {"idle", "want_task", "want_pool", "commit"},
           op : {"none", "lock", "unlock", "fund", "publish", "create", "review"},
           task : Tasks \cup {NoTask}, amount : Nat, key : Keys \cup {NoKey},
           accept : BOOLEAN, genesis : BOOLEAN]]
    /\ genesis \in Nat
    /\ reversed \in Nat

\* "避免并发超额使用发行池": budget locks and funded publications together never
\* spend more than the issuance pool holds; only genesis rewards and reversals,
\* which look at no balance, can overdraw it, and by no more than they took.
PoolNeverOverspent == balance[Pool] + genesis + reversed >= 0

RewardRows(t) == {i \in DOMAIN rows : rows[i].type = "task_reward" /\ rows[i].task = t}

\* A task is paid for exactly when it has been accepted and is worth something,
\* once, to its assignee, whatever reviews race on it.
PaidOnceIfAccepted ==
    \A t \in Tasks :
        /\ RewardRows(t) # {} <=> tasks[t].status = "accepted" /\ Reward[t] > 0
        /\ \A i, j \in RewardRows(t) : i = j
        /\ \A i \in RewardRows(t) : rows[i].target = tasks[t].assignee

\* "Lock only the missing reward budget and publish a draft atomically", and
\* "prevents publishing reward-bearing tasks with no budget" (publish_task): when
\* a task with base points is opened its full reward is budgeted, although the budget was read
\* earlier and unlocks do not ask for the Task lock themselves.
FundedPublication ==
    [][\A t \in Rewarded :
         tasks[t].status # "open" /\ tasks'[t].status = "open"
         => balance'[t] >= Reward[t]]_vars

\* A task leaves "draft" and "open" only once: closed, rejected and accepted
\* tasks stay as they are, and a claimed task never returns to the pool of open
\* ones (all of core/tasks).
TaskForward ==
    [][\A t \in Tasks :
         /\ tasks[t].status \in {"closed", "accepted", "rejected"}
              => tasks'[t] = tasks[t]
         /\ tasks[t].assignee # NoAccount => tasks'[t].assignee = tasks[t].assignee]_vars

-----------------------------------------------------------------------------
(* What the repository says of itself and the code does not keep: the runs do *)
(* not check these, the README says how each fails.                           *)

\* task_locked_credit_balance: "Callers that use this value for authority
\* decisions (e.g. publish_task, unlock) should be inside a transaction that
\* protects the underlying rows", so that no more is taken out of a task's budget
\* than was locked for it.
BudgetNeverNegative == \A t \in Tasks : balance[t] >= 0

=============================================================================

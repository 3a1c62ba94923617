---------------------------- MODULE CreditLedger ----------------------------
(***************************************************************************)
(* The double-entry credit ledger of core/credit_services.py: the posted   *)
(* CreditTransaction rows and post_credit_transaction, the sole write path *)
(* to them.  Rows are never deleted and never leave status "posted", so    *)
(* credit_balance(account), a sum over rows in the code, is kept here as   *)
(* the running total `balance` of the committed rows.                      *)
(*                                                                         *)
(* A step of this module is the commit of one database transaction.  Under *)
(* READ COMMITTED nobody sees an uncommitted row, and an insert that meets *)
(* an uncommitted row with the same unique idempotency key waits for that  *)
(* transaction to end; so looking the key up, inserting, and looking it up *)
(* again after an IntegrityError come to one decision at commit time.      *)
(***************************************************************************)
EXTENDS Integers, Sequences

CONSTANTS
    Accounts,      \* credit accounts that hold a balance
    NoAccount,     \* a NULL source_account or target_account
    NoKey,         \* a NULL (or blank) idempotency_key
    NoTask,        \* a NULL related_task
    NoOrder,       \* no order_id in the row's metadata
    MaxRows        \* bound on the posted rows of a behaviour

ASSUME LedgerAssumption ==
    /\ NoAccount \notin Accounts
    /\ MaxRows \in Nat

VARIABLES
    rows,          \* the posted CreditTransaction rows, in commit order
    balance        \* credit_balance of every account

ledgerVars == <<rows, balance>>

TransactionTypes ==
    {"issuance", "lock", "unlock", "task_reward", "transfer", "consume",
     "unfreeze", "burn", "correction", "reversal"}

-----------------------------------------------------------------------------
(* Idempotency keys. *)

\* The fields _assert_idempotent_match compares in post_credit_transaction.
SameMovement(old, new) ==
    /\ old.type = new.type
    /\ old.amount = new.amount
    /\ old.source = new.source
    /\ old.target = new.target
    /\ old.task = new.task

\* The posted rows that already carry the key.
RowsWithKey(key) == {i \in DOMAIN rows : key # NoKey /\ rows[i].key = key}

\* The fast path of a service: a posted row of its own type with the key.
HasRow(type, key) == \E i \in RowsWithKey(key) : rows[i].type = type

\* A plausible bug: only rows of the same type are looked at, and the column is
\* not unique.
IsNewOfItsType(row) == ~HasRow(row.type, row.key)

IsNew(row) == RowsWithKey(row.key) = {}

\* The same request was already posted: the existing row is returned.
IsReplay(row) == \E i \in RowsWithKey(row.key) : SameMovement(rows[i], row)

-----------------------------------------------------------------------------
(* Posting. *)

\* credit_balance of account a once the row is counted too.
BalanceAfter(row, a) ==
    balance[a] + (IF a = row.target THEN row.amount ELSE 0)
               - (IF a = row.source THEN row.amount ELSE 0)

Insert(row) ==
    /\ Len(rows) < MaxRows
    /\ rows' = Append(rows, row)
    /\ balance' = [a \in Accounts |-> BalanceAfter(row, a)]

\* post_credit_transaction: insert a new row, or hand back the row that was
\* posted for the same request.  A key that belongs to another movement raises
\* DomainError, which rolls the caller's transaction back: not a case of Post.
Post(row) ==
    \/ IsNew(row) /\ Insert(row)
    \/ IsReplay(row) /\ UNCHANGED ledgerVars

-----------------------------------------------------------------------------
(* What every user of the ledger relies on. *)

\* "a non-null idempotency_key guarantees at most one row per key": retries and
\* concurrent duplicates of a request never move credits twice.
OneRowPerKey ==
    \A i, j \in DOMAIN rows :
        rows[i].key # NoKey /\ rows[i].key = rows[j].key => i = j

=============================================================================

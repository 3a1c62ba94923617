---------------------------- MODULE EventLedger ----------------------------
(***************************************************************************)
(* The hash-chained system event ledger of core/event_ledger.py.           *)
(*                                                                         *)
(* append_event runs inside the transaction of the service that calls it,  *)
(* which may append several events before it commits.  It reads the last   *)
(* row with select_for_update, and inserts the next one.  A transaction    *)
(* that waited for the row lock is handed the row it waited for, although  *)
(* the holder may have appended behind it meanwhile: the insert then meets *)
(* the unique seq, and append_event tries again, three times at most.  On  *)
(* an empty table there is no row to lock and only the unique seq decides. *)
(* Row locks, waits and scans are those of the database (InnoDB at READ    *)
(* COMMITTED).                                                             *)
(***************************************************************************)
EXTENDS Naturals, Sequences

CONSTANTS
    Txns,          \* database transactions
    Bodies,        \* what an event says: type, subject and payload
    NoBody,
    MaxAttempts,   \* tries of append_event
    MaxBatch,      \* bound on the events of one transaction
    MaxEvents      \* bound on the chain at which no more appends begin

ASSUME LedgerAssumption ==
    /\ NoBody \notin Bodies
    /\ MaxAttempts \in Nat \ {0}
    /\ MaxBatch \in Nat
    /\ MaxEvents \in Nat

VARIABLES
    chain,         \* the committed SystemEvent rows, by seq
    txn            \* transaction -> its uncommitted rows and its append_event

vars == <<chain, txn>>

-----------------------------------------------------------------------------
(* Rows and locks. *)

\* compute_event_hash_v2 without collisions: a hash is what it commits to, namely
\* seq and content of its row and, through prev_hash, of every row before it.
EventHash(seq, body, prev) == Append(prev, <<seq, body>>)

NoHash == <<>>     \* the empty prev_hash of the first event

Fresh == [pc |-> "idle", pending |-> <<>>, body |-> NoBody, attempt |-> 0,
          on |-> 0, tail |-> [seq |-> 0, hash |-> NoHash], locked |-> {}]

\* A row's seq, body, prev_hash and event_hash.
Row(seq, body, prev) ==
    [seq |-> seq, body |-> body, prev |-> prev, hash |-> EventHash(seq, body, prev)]

HasRows(t) == txn[t].pending # <<>>

\* The seqs of a transaction's uncommitted rows.
PendingSeqs(t) == {txn[t].pending[j].seq : j \in DOMAIN txn[t].pending}

\* Somebody else inserted the row and has not committed, or read it for update.
LockedByOther(t, n) == \E u \in Txns \ {t} : n \in txn[u].locked \cup PendingSeqs(u)

\* Some transaction has the row with this seq in the table.
InTable(n) == n \in DOMAIN chain \/ \E u \in Txns : n \in PendingSeqs(u)

\* The last row of the table, committed or not; 0 when it is empty.
LastRow(n) ==
    /\ n = 0 \/ InTable(n)
    /\ \A u \in Txns : \A k \in PendingSeqs(u) : k <= n
    /\ Len(chain) <= n

RowAt(t, n) ==
    IF n \in DOMAIN chain THEN chain[n] ELSE txn[t].pending[Len(txn[t].pending)]

\* select_for_update returns row n: its seq and hash are what the next row needs.
Read(t, n) ==
    txn' = [txn EXCEPT
        ![t].pc = "insert",
        ![t].tail = IF n = 0 THEN [seq |-> 0, hash |-> NoHash]
                    ELSE [seq |-> n, hash |-> RowAt(t, n).hash],
        ![t].locked = IF n = 0 THEN @ ELSE @ \cup {n}]

-----------------------------------------------------------------------------
(* append_event. *)

Begin(t) ==
    \E b \in Bodies :
        /\ txn[t].pc \in {"idle", "work"}
        /\ Len(chain) < MaxEvents
        /\ Len(txn[t].pending) < MaxBatch
        /\ txn' = [txn EXCEPT ![t].pc = "scan", ![t].body = b, ![t].attempt = 1]
        /\ UNCHANGED chain

\* order_by("-seq").first() for update: the last row is returned, or waited for.
Scan(t) ==
    \E n \in 0..(Len(chain) + MaxBatch) :
        /\ txn[t].pc = "scan"
        /\ LastRow(n)
        /\ \/ ~LockedByOther(t, n) /\ Read(t, n)
           \/ /\ LockedByOther(t, n)
              /\ txn' = [txn EXCEPT ![t].pc = "wait", ![t].on = n]
        /\ UNCHANGED chain

\* The lock is granted.  A committed row is returned even if it is no longer the
\* last one; if the row was rolled back the scan goes on to the one before it.
Wake(t) ==
    LET n == txn[t].on
    IN  /\ txn[t].pc = "wait"
        /\ ~LockedByOther(t, n)
        /\ IF n \in DOMAIN chain \/ n = 0
           THEN Read(t, n)
           ELSE txn' = [txn EXCEPT ![t].on = Len(chain)]
        /\ UNCHANGED chain

\* A plausible bug: seq is not unique.
InsertDuplicate(t) ==
    LET r == txn[t]
        row == Row(r.tail.seq + 1, r.body, r.tail.hash)
    IN  /\ r.pc = "insert"
        /\ txn' = [txn EXCEPT ![t].pc = "work", ![t].pending = Append(@, row)]
        /\ UNCHANGED chain

\* A row of another open transaction with the same seq makes the insert wait.
Insert(t) ==
    LET r == txn[t]
        row == Row(r.tail.seq + 1, r.body, r.tail.hash)
    IN  /\ r.pc = "insert"
        /\ ~InTable(row.seq)
        /\ txn' = [txn EXCEPT ![t].pc = "work", ![t].pending = Append(@, row)]
        /\ UNCHANGED chain

\* A plausible bug: the attempts are not counted against the limit.
RetryUnbounded(t) ==
    /\ txn[t].pc = "insert"
    /\ txn[t].tail.seq + 1 \in DOMAIN chain
    /\ txn' = [txn EXCEPT ![t].pc = "scan", ![t].attempt = @ + 1]
    /\ UNCHANGED chain

\* A plausible bug: the same insert is tried again for ever.
RetrySameRow(t) ==
    /\ txn[t].pc = "insert"
    /\ txn[t].tail.seq + 1 \in DOMAIN chain
    /\ txn[t].attempt < MaxAttempts
    /\ UNCHANGED vars

\* IntegrityError: the savepoint is rolled back, row locks are kept.
Retry(t) ==
    /\ txn[t].pc = "insert"
    /\ txn[t].tail.seq + 1 \in DOMAIN chain
    /\ txn[t].attempt < MaxAttempts
    /\ txn' = [txn EXCEPT ![t].pc = "scan", ![t].attempt = @ + 1]
    /\ UNCHANGED chain

\* The last IntegrityError is raised and the caller's transaction rolls back.
GiveUp(t) ==
    /\ txn[t].pc = "insert"
    /\ txn[t].tail.seq + 1 \in DOMAIN chain
    /\ txn[t].attempt = MaxAttempts
    /\ txn' = [txn EXCEPT ![t] = Fresh]
    /\ UNCHANGED chain

-----------------------------------------------------------------------------
(* The calling service. *)

\* A plausible bug: the last row's hash is lost when the events are stored.
CommitUnlinked(t) ==
    /\ txn[t].pc = "work"
    /\ chain' = chain \o [j \in DOMAIN txn[t].pending |->
                            [txn[t].pending[j] EXCEPT !.prev = NoHash]]
    /\ txn' = [txn EXCEPT ![t] = Fresh]

\* A plausible bug: the stored events replace what was there.
CommitReplacing(t) ==
    /\ txn[t].pc = "work"
    /\ chain' = txn[t].pending
    /\ txn' = [txn EXCEPT ![t] = Fresh]

Commit(t) ==
    /\ txn[t].pc = "work"
    /\ chain' = chain \o txn[t].pending
    /\ txn' = [txn EXCEPT ![t] = Fresh]

\* An exception or a crash anywhere in the service.
Abort(t) ==
    /\ txn[t].pc # "idle"
    /\ txn' = [txn EXCEPT ![t] = Fresh]
    /\ UNCHANGED chain

-----------------------------------------------------------------------------
Init ==
    /\ chain = <<>>
    /\ txn = [t \in Txns |-> Fresh]

TxnStep(t) ==
    \/ Begin(t) \/ Scan(t) \/ Wake(t) \/ Insert(t) \/ Retry(t) \/ GiveUp(t)
    \/ Commit(t) \/ Abort(t)

Next == \E t \in Txns : TxnStep(t)

Spec == Init /\ [][Next]_vars

\* A running request does not stop by itself, and the database grants a lock to
\* the transactions that wait for it in their order.
Fairness ==
    \A t \in Txns :
        /\ WF_vars(Scan(t))
        /\ SF_vars(Wake(t))
        /\ SF_vars(Insert(t) \/ Retry(t) \/ GiveUp(t))
        /\ WF_vars(Commit(t))

FairSpec == Spec /\ Fairness

-----------------------------------------------------------------------------
(* Properties. *)

PrevHash(rows, i) == IF i = 1 THEN NoHash ELSE rows[i - 1].hash

\* verify_event_chain: seq counts from one without a gap, every row names the
\* hash of the row before it, and carries the hash of its own content.
Verifies(rows) ==
    \A i \in DOMAIN rows :
        rows[i] = Row(i, rows[i].body, PrevHash(rows, i))

Hashes == Seq(Nat \X Bodies)

Rows == [seq : Nat, body : Bodies, prev : Hashes, hash : Hashes]

Transactions ==
    [pc : {"idle", "work", "scan", "wait", "insert"}, pending : Seq(Rows),
     body : Bodies \cup {NoBody}, attempt : 0..MaxAttempts, on : Nat,
     tail : [seq : Nat, hash : Hashes], locked : SUBSET Nat]

\* Every variable has its type, and a transaction that appends has a body.
TypeOK ==
    /\ chain \in Seq(Rows)
    /\ txn \in [Txns -> Transactions]
    /\ \A t \in Txns : txn[t].pc # "idle" => txn[t].body \in Bodies

\* verify_event_chain() holds of the committed rows at all times, although
\* transactions read a last row that is no longer the last one.
ChainVerifies == Verifies(chain)

\* At most one open transaction has rows in the table: the chain cannot fork.
SingleWriter == \A t, u \in Txns : HasRows(t) /\ HasRows(u) => t = u

Log == INSTANCE EventLog WITH log <- [i \in DOMAIN chain |-> chain[i].body]

\* "Append one immutable system event": the ledger implements the append-only log.
ImplementsLog == Log!Spec

\* No deadlock and no endless retry among appenders: a transaction that appends
\* commits or fails.
AppendsEnd == \A t \in Txns : txn[t].pc # "idle" ~> txn[t].pc = "idle"

=============================================================================

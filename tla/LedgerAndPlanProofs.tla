---------------------- MODULE LedgerAndPlanProofs ----------------------
(***************************************************************************)
(* Proofs about the system event ledger (EventLedger) and about the engine *)
(* that runs plans in the lab (PlanSimulation, as the part Engine of Lab). *)
(* The two share no state; they share a module and two lemmas on sets.     *)
(*                                                                         *)
(* EventLedger, for any number of transactions and events: the committed   *)
(* chain always verifies, it never forks, and the ledger implements the    *)
(* append-only log.  The argument rests on the unique seq, not on the row  *)
(* locks: a transaction that read a last row that is no longer the last    *)
(* one cannot insert behind it.                                            *)
(*                                                                         *)
(* PlanSimulation, for any plan, world and number of runs: EngineInv gives *)
(* every run its place in its revision's story.  The hard part is the      *)
(* closure of a stage, which completes its ancestors one level at a time;  *)
(* it is followed upwards, along parents, which are finitely many.         *)
(***************************************************************************)
EXTENDS EventLedger, Lab, Integers, SequenceTheorems, FiniteSetTheorems,
        WellFoundedInduction, TLAPS

---------------------------------------------------------------------------
(* The event ledger *)

\* The hash the j-th uncommitted row of p must name, behind the rows of c.
LinkHash(c, p, j) ==
    IF j > 1 THEN p[j - 1].hash
    ELSE IF c = <<>> THEN NoHash ELSE c[Len(c)].hash

\* The rows of p continue the rows of c.
Continues(c, p) ==
    \A j \in DOMAIN p : p[j] = Row(Len(c) + j, p[j].body, LinkHash(c, p, j))

\* What a transaction inserted continues the committed chain.
PendingContinue == \A t \in Txns : Continues(chain, txn[t].pending)

\* The last row a transaction has read: none, a committed one, or its own last.
TailKnown(t) ==
    \/ txn[t].tail.seq = 0 /\ txn[t].tail.hash = NoHash
    \/ /\ txn[t].tail.seq \in DOMAIN chain
       /\ txn[t].tail.hash = chain[txn[t].tail.seq].hash
    \/ /\ txn[t].pending # <<>>
       /\ txn[t].tail.seq = Len(chain) + Len(txn[t].pending)
       /\ txn[t].tail.hash = txn[t].pending[Len(txn[t].pending)].hash

TailsKnown == \A t \in Txns : txn[t].pc = "insert" => TailKnown(t)

\* The inductive invariant.
IInv == TypeOK /\ ChainVerifies /\ PendingContinue /\ SingleWriter /\ TailsKnown

-----------------------------------------------------------------------------
\* Appending the next row to the rows p that continue c.
LEMMA AppendContinues ==
    ASSUME NEW c \in Seq(Rows), NEW p \in Seq(Rows), Continues(c, p),
           NEW b \in Bodies, NEW h \in Hashes, h = LinkHash(c, p, Len(p) + 1)
    PROVE  /\ Append(p, Row(Len(c) + Len(p) + 1, b, h)) \in Seq(Rows)
           /\ Continues(c, Append(p, Row(Len(c) + Len(p) + 1, b, h)))
<1> DEFINE e == Row(Len(c) + Len(p) + 1, b, h)
           q == Append(p, e)
<1>1. e \in Rows /\ e.body = b
  BY DEF Row, Rows, EventHash, Hashes
<1>2. /\ q \in Seq(Rows)
      /\ Len(q) = Len(p) + 1
      /\ \A j \in 1..Len(p) : q[j] = p[j]
      /\ q[Len(p) + 1] = e
      /\ DOMAIN q = 1..(Len(p) + 1)
      /\ DOMAIN p = 1..Len(p)
      /\ Len(p) \in Nat /\ Len(c) \in Nat
  BY <1>1
<1> HIDE DEF q
<1>3. \A j \in DOMAIN q : q[j] = Row(Len(c) + j, q[j].body, LinkHash(c, q, j))
  <2> SUFFICES ASSUME NEW j \in DOMAIN q
               PROVE  q[j] = Row(Len(c) + j, q[j].body, LinkHash(c, q, j))
    OBVIOUS
  <2>1. CASE j = Len(p) + 1
    <3>1. LinkHash(c, q, j) = h
      BY <1>2, <2>1 DEF LinkHash
    <3>2. Len(c) + j = Len(c) + Len(p) + 1
      BY <1>2, <2>1
    <3> QED BY <1>1, <1>2, <2>1, <3>1, <3>2 DEF e
  <2>2. CASE j # Len(p) + 1
    <3>1. j \in DOMAIN p /\ q[j] = p[j]
      BY <1>2, <2>2
    <3>2. LinkHash(c, q, j) = LinkHash(c, p, j)
      BY <1>2, <2>2 DEF LinkHash
    <3> QED BY <3>1, <3>2 DEF Continues
  <2> QED BY <2>1, <2>2
<1> QED BY <1>2, <1>3 DEF Continues, q

\* Committing rows that continue a chain that verifies.
LEMMA CommitVerifies ==
    ASSUME NEW c \in Seq(Rows), NEW p \in Seq(Rows), Verifies(c), Continues(c, p)
    PROVE  /\ c \o p \in Seq(Rows)
           /\ Verifies(c \o p)
           /\ Len(c \o p) = Len(c) + Len(p)
           /\ \A i \in DOMAIN c : i \in DOMAIN (c \o p) /\ (c \o p)[i] = c[i]
<1> DEFINE d == c \o p
<1>1. /\ d \in Seq(Rows)
      /\ Len(d) = Len(c) + Len(p)
      /\ \A i \in 1..Len(c) : d[i] = c[i]
      /\ \A i \in (Len(c) + 1)..Len(d) : d[i] = p[i - Len(c)]
      /\ DOMAIN d = 1..Len(d) /\ DOMAIN c = 1..Len(c) /\ DOMAIN p = 1..Len(p)
      /\ Len(c) \in Nat /\ Len(p) \in Nat /\ Len(d) \in Nat
  OBVIOUS
<1> HIDE DEF d
<1>2. ASSUME NEW i \in DOMAIN d
      PROVE  d[i] = Row(i, d[i].body, PrevHash(d, i))
  <2>1. CASE i <= Len(c)
    <3>1. i \in DOMAIN c /\ d[i] = c[i] /\ PrevHash(d, i) = PrevHash(c, i)
      BY <1>1, <2>1 DEF PrevHash
    <3> QED BY <3>1 DEF Verifies
  <2>2. CASE i > Len(c)
    <3>0. PICK j \in DOMAIN p : j = i - Len(c)
      BY <1>1, <2>2
    <3>a. i \in (Len(c) + 1)..Len(d) /\ Len(c) + j = i /\ j \in Nat
      BY <1>1, <2>2, <3>0
    <3>1. d[i] = p[j] /\ Len(c) + j = i
      BY <1>1, <3>0, <3>a
    <3>2. PrevHash(d, i) = LinkHash(c, p, j)
      <4>1. CASE j > 1
        <5>1. i - 1 \in (Len(c) + 1)..Len(d) /\ (i - 1) - Len(c) = j - 1 /\ i # 1
          BY <1>1, <3>a, <4>1
        <5>2. d[i - 1] = p[j - 1]
          BY <1>1, <5>1
        <5> QED BY <4>1, <5>1, <5>2 DEF PrevHash, LinkHash
      <4>2. CASE j = 1 /\ c = <<>>
        BY <1>1, <3>0, <4>2 DEF PrevHash, LinkHash
      <4>3. CASE j = 1 /\ c # <<>>
        <5>1. Len(c) > 0
          BY <1>1, <4>3, EmptySeq
        <5>2. i = Len(c) + 1
          BY <1>1, <3>a, <4>3
        <5>3. i # 1 /\ i - 1 = Len(c) /\ Len(c) \in 1..Len(c)
          BY <1>1, <5>1, <5>2
        <5>4. d[i - 1] = c[Len(c)]
          BY <1>1, <5>3
        <5> QED BY <4>3, <5>3, <5>4 DEF PrevHash, LinkHash
      <4> QED BY <1>1, <3>0, <4>1, <4>2, <4>3
    <3> QED BY <3>1, <3>2 DEF Continues
  <2> QED BY <1>1, <2>1, <2>2
<1> QED BY <1>1, <1>2 DEF Verifies, d

-----------------------------------------------------------------------------
\* The first uncommitted row of a transaction has the seq behind the chain, and
\* its last one the highest.
LEMMA PendingRange ==
    ASSUME TypeOK, PendingContinue, NEW t \in Txns
    PROVE  PendingSeqs(t) = (Len(chain) + 1)..(Len(chain) + Len(txn[t].pending))
<1>1. /\ Len(chain) \in Nat
      /\ Len(txn[t].pending) \in Nat
      /\ DOMAIN txn[t].pending = 1..Len(txn[t].pending)
  BY DEF TypeOK, Transactions
<1>2. PICK p : p = txn[t].pending
  OBVIOUS
<1>3. ASSUME NEW j \in DOMAIN p PROVE p[j].seq = Len(chain) + j
  <2>1. p[j] = Row(Len(chain) + j, p[j].body, LinkHash(chain, p, j))
    BY <1>2 DEF PendingContinue, Continues
  <2>2. \A n, b, h : Row(n, b, h).seq = n
    BY DEF Row
  <2> QED BY <2>1, <2>2
<1>4. PendingSeqs(t) = {p[j].seq : j \in DOMAIN p}
  BY <1>2 DEF PendingSeqs
<1>5. \A j \in DOMAIN p : p[j].seq \in (Len(chain) + 1)..(Len(chain) + Len(p))
  BY <1>1, <1>2, <1>3
<1>6. ASSUME NEW n \in (Len(chain) + 1)..(Len(chain) + Len(p))
      PROVE  \E j \in DOMAIN p : p[j].seq = n
  <2>1. n - Len(chain) \in DOMAIN p /\ Len(chain) + (n - Len(chain)) = n
    BY <1>1, <1>2
  <2> QED BY <1>3, <2>1
<1> QED BY <1>2, <1>4, <1>5, <1>6

\* A transaction that has not begun.
LEMMA FreshType == Fresh \in Transactions
BY LedgerAssumption DEF Fresh, Transactions, NoHash, Hashes

\* Storing a new record for one transaction keeps the types.
LEMMA StoreType ==
    ASSUME TypeOK, NEW t \in Txns, NEW r \in Transactions, r.body \in Bodies,
           UNCHANGED chain, txn' = [txn EXCEPT ![t] = r]
    PROVE  TypeOK' /\ txn'[t] = r /\ \A u \in Txns : u # t => txn'[u] = txn[u]
BY DEF TypeOK, Transactions

\* The initial state.
LEMMA InitIInv == Init => IInv
<1> SUFFICES ASSUME Init PROVE IInv
  OBVIOUS
<1>1. TypeOK
  <2>1. Fresh.pc = "idle"
    BY DEF Fresh
  <2> QED BY <2>1, FreshType DEF Init, TypeOK, Transactions
<1>2. chain = <<>> /\ \A t \in Txns : txn[t].pending = <<>> /\ txn[t].pc = "idle"
  BY DEF Init, Fresh
<1> QED BY <1>1, <1>2 DEF IInv, ChainVerifies, Verifies, PendingContinue, Continues,
              SingleWriter, HasRows, TailsKnown

-----------------------------------------------------------------------------
\* A step that leaves the chain and every pending row alone keeps the invariant
\* if it leaves a known tail.
LEMMA ReadStep ==
    ASSUME IInv, TypeOK', UNCHANGED chain,
           \A t \in Txns : txn'[t].pending = txn[t].pending,
           TailsKnown'
    PROVE  IInv'
BY DEF IInv, ChainVerifies, Verifies, PrevHash, PendingContinue, SingleWriter, HasRows

\* A transaction that ends without committing.
LEMMA DropStep ==
    ASSUME IInv, NEW t \in Txns, txn' = [txn EXCEPT ![t] = Fresh], UNCHANGED chain
    PROVE  IInv'
<1>1. Fresh \in Transactions
  BY FreshType
<1>2. Fresh.pc = "idle" /\ Fresh.pending = <<>>
  BY DEF Fresh
<1> HIDE DEF Fresh
<1>3. TypeOK'
  BY <1>1, <1>2 DEF IInv, TypeOK, Transactions
<1>4. \A u \in Txns : txn'[u] = IF u = t THEN Fresh ELSE txn[u]
  BY DEF IInv, TypeOK, Transactions
<1>5. PendingContinue'
  BY <1>2, <1>4 DEF IInv, PendingContinue, Continues
<1>6. SingleWriter'
  BY <1>2, <1>4 DEF IInv, SingleWriter, HasRows
<1>7. TailsKnown'
  BY <1>2, <1>4 DEF IInv, TailsKnown, TailKnown
<1> QED BY <1>3, <1>5, <1>6, <1>7 DEF IInv, ChainVerifies, Verifies

\* What select_for_update returns is a known last row.
LEMMA ReadKnown ==
    ASSUME IInv, NEW t \in Txns, NEW n \in Nat, Read(t, n), UNCHANGED chain,
           txn[t].body \in Bodies,
           \/ n = 0
           \/ n \in DOMAIN chain
           \/ /\ txn[t].pending # <<>>
              /\ n = Len(chain) + Len(txn[t].pending)
    PROVE  IInv'
<1>0. TypeOK
  BY DEF IInv
<1>1. /\ Len(chain) \in Nat /\ DOMAIN chain = 1..Len(chain)
      /\ Len(txn[t].pending) \in Nat
      /\ txn[t].pending # <<>> =>
            /\ Len(txn[t].pending) > 0
            /\ txn[t].pending[Len(txn[t].pending)] \in Rows
      /\ \A i \in DOMAIN chain : chain[i] \in Rows
  BY <1>0 DEF TypeOK, Transactions
<1> DEFINE tl == IF n = 0 THEN [seq |-> 0, hash |-> NoHash]
                 ELSE [seq |-> n, hash |-> RowAt(t, n).hash]
<1>2. tl \in [seq : Nat, hash : Hashes]
  <2>1. CASE n = 0
    BY <2>1 DEF NoHash, Hashes
  <2>2. CASE n # 0
    <3>1. RowAt(t, n) \in Rows
      BY <1>1, <2>2 DEF RowAt
    <3>2. RowAt(t, n).hash \in Hashes
      BY <3>1 DEF Rows
    <3> QED BY <2>2, <3>2
  <2> QED BY <2>1, <2>2
<1>3. /\ tl.seq = n
      /\ n = 0 => tl.hash = NoHash
      /\ n \in DOMAIN chain => tl.hash = chain[n].hash
      /\ n # 0 /\ n \notin DOMAIN chain =>
            tl.hash = txn[t].pending[Len(txn[t].pending)].hash
  BY <1>1 DEF RowAt
<1> HIDE DEF tl
<1>4. txn' = [txn EXCEPT ![t].pc = "insert", ![t].tail = tl,
                         ![t].locked = IF n = 0 THEN @ ELSE @ \cup {n}]
  BY DEF Read, tl
<1>a. PICK l : l = (IF n = 0 THEN txn[t].locked ELSE txn[t].locked \cup {n})
  OBVIOUS
<1>b. PICK r : r = [txn[t] EXCEPT !.pc = "insert", !.tail = tl, !.locked = l]
  OBVIOUS
<1>c. txn[t] \in Transactions /\ l \subseteq Nat
  BY <1>0, <1>a DEF TypeOK, Transactions
<1>d. /\ r \in Transactions /\ r.pc = "insert" /\ r.tail = tl
      /\ r.pending = txn[t].pending /\ r.body = txn[t].body
  BY <1>2, <1>b, <1>c DEF Transactions
<1>e. txn' = [txn EXCEPT ![t] = r]
  BY <1>4, <1>a, <1>b
<1>6. TypeOK' /\ txn'[t] = r /\ \A u \in Txns : u # t => txn'[u] = txn[u]
  BY <1>0, <1>d, <1>e, StoreType
<1>5. /\ txn'[t].pc = "insert" /\ txn'[t].tail = tl
      /\ \A u \in Txns : txn'[u].pending = txn[u].pending
      /\ \A u \in Txns : u # t => txn'[u] = txn[u]
  BY <1>d, <1>6
<1>7. TailsKnown'
  <2>1. TailKnown(t)'
    BY <1>1, <1>3, <1>5 DEF TailKnown
  <2>2. ASSUME NEW u \in Txns, u # t, txn'[u].pc = "insert" PROVE TailKnown(u)'
    BY <1>5, <2>2 DEF IInv, TailsKnown, TailKnown
  <2> QED BY <2>1, <2>2 DEF TailsKnown
<1> QED BY <1>5, <1>6, <1>7, ReadStep

-----------------------------------------------------------------------------
\* A scan returns a known last row or waits.
LEMMA ScanStep == ASSUME IInv, NEW t \in Txns, Scan(t) PROVE IInv'
<1>0. TypeOK /\ PendingContinue
  BY DEF IInv
<1>1. PICK n \in 0..(Len(chain) + MaxBatch) :
        /\ LastRow(n)
        /\ \/ ~LockedByOther(t, n) /\ Read(t, n)
           \/ /\ LockedByOther(t, n)
              /\ txn' = [txn EXCEPT ![t].pc = "wait", ![t].on = n]
  BY DEF Scan
<1>2. txn[t].pc = "scan" /\ UNCHANGED chain /\ txn[t].body \in Bodies
  BY <1>0 DEF Scan, TypeOK, Transactions
<1>3. n \in Nat /\ Len(chain) \in Nat /\ Len(txn[t].pending) \in Nat
  BY <1>0, LedgerAssumption DEF TypeOK, Transactions
<1>4. CASE ~LockedByOther(t, n) /\ Read(t, n)
  <2>1. ASSUME n # 0, n \notin DOMAIN chain
        PROVE  txn[t].pending # <<>> /\ n = Len(chain) + Len(txn[t].pending)
    <3>1. PICK u \in Txns : n \in PendingSeqs(u)
      BY <1>1, <2>1 DEF LastRow, InTable
    <3>2. u = t
      BY <1>4, <3>1 DEF LockedByOther
    <3>3. n \in (Len(chain) + 1)..(Len(chain) + Len(txn[t].pending))
      BY <1>0, <3>1, <3>2, PendingRange
    <3>4. Len(chain) + Len(txn[t].pending) \in PendingSeqs(t)
      BY <1>0, <1>3, <3>3, PendingRange
    <3>5. Len(chain) + Len(txn[t].pending) <= n
      BY <1>1, <3>4 DEF LastRow
    <3>6. Len(txn[t].pending) > 0
      BY <1>3, <3>3
    <3> QED BY <1>3, <3>3, <3>5, <3>6
  <2> QED BY <1>2, <1>3, <1>4, <2>1, ReadKnown
<1>5. CASE txn' = [txn EXCEPT ![t].pc = "wait", ![t].on = n]
  <2>a. PICK r : r = [txn[t] EXCEPT !.pc = "wait", !.on = n]
    OBVIOUS
  <2>b. /\ r \in Transactions /\ r.pc = "wait"
        /\ r.pending = txn[t].pending /\ r.body = txn[t].body
    BY <1>0, <1>3, <2>a DEF TypeOK, Transactions
  <2>1. TypeOK' /\ txn'[t] = r /\ \A u \in Txns : u # t => txn'[u] = txn[u]
    <3>1. txn' = [txn EXCEPT ![t] = r]
      BY <1>5, <2>a
    <3>2. r.body \in Bodies /\ UNCHANGED chain
      BY <1>2, <2>b
    <3> QED BY <1>0, <2>b, <3>1, <3>2, StoreType
  <2>2. /\ txn'[t].pc = "wait"
        /\ \A u \in Txns : txn'[u].pending = txn[u].pending
        /\ \A u \in Txns : u # t => txn'[u] = txn[u]
    BY <2>b, <2>1
  <2>3. TailsKnown'
    BY <1>2, <2>2 DEF IInv, TailsKnown, TailKnown
  <2> QED BY <1>2, <2>1, <2>2, <2>3, ReadStep
<1> QED BY <1>1, <1>4, <1>5

\* A granted lock returns a committed row or moves on to another one.
LEMMA WakeStep == ASSUME IInv, NEW t \in Txns, Wake(t) PROVE IInv'
<1>0. TypeOK
  BY DEF IInv
<1>1. /\ txn[t].pc = "wait" /\ UNCHANGED chain /\ txn[t].body \in Bodies
      /\ txn[t].on \in Nat /\ Len(chain) \in Nat
  BY <1>0 DEF Wake, TypeOK, Transactions
<1>2. CASE txn[t].on \in DOMAIN chain \/ txn[t].on = 0
  BY <1>1, <1>2, ReadKnown DEF Wake
<1>3. CASE ~(txn[t].on \in DOMAIN chain \/ txn[t].on = 0)
  <2>0. txn' = [txn EXCEPT ![t].on = Len(chain)]
    BY <1>3 DEF Wake
  <2>a. PICK r : r = [txn[t] EXCEPT !.on = Len(chain)]
    OBVIOUS
  <2>b. /\ r \in Transactions /\ r.pc = "wait"
        /\ r.pending = txn[t].pending /\ r.body = txn[t].body
    BY <1>0, <1>1, <2>a DEF TypeOK, Transactions
  <2>1. TypeOK' /\ txn'[t] = r /\ \A u \in Txns : u # t => txn'[u] = txn[u]
    <3>1. txn' = [txn EXCEPT ![t] = r]
      BY <2>0, <2>a
    <3>2. r.body \in Bodies /\ UNCHANGED chain
      BY <1>1, <2>b
    <3> QED BY <1>0, <2>b, <3>1, <3>2, StoreType
  <2>2. /\ txn'[t].pc = "wait"
        /\ \A u \in Txns : txn'[u].pending = txn[u].pending
        /\ \A u \in Txns : u # t => txn'[u] = txn[u]
    BY <2>b, <2>1
  <2>3. TailsKnown'
    BY <1>1, <2>2 DEF IInv, TailsKnown, TailKnown
  <2> QED BY <1>1, <2>1, <2>2, <2>3, ReadStep
<1> QED BY <1>2, <1>3

\* The unique seq lets only the row behind the chain, or behind the writer's own
\* last row, in.
LEMMA InsertStep == ASSUME IInv, NEW t \in Txns, Insert(t) PROVE IInv'
<1>0. TypeOK /\ PendingContinue /\ SingleWriter /\ TailKnown(t)
  BY DEF IInv, TailsKnown, Insert
<1> DEFINE p == txn[t].pending
           h == txn[t].tail.hash
           n == txn[t].tail.seq + 1
           e == Row(n, txn[t].body, h)
<1>1. /\ txn[t].pc = "insert" /\ UNCHANGED chain /\ txn[t].body \in Bodies
      /\ ~InTable(n)
      /\ txn' = [txn EXCEPT ![t].pc = "work", ![t].pending = Append(@, e)]
  BY <1>0 DEF Insert, TypeOK, Transactions, Row
<1>2. /\ chain \in Seq(Rows) /\ p \in Seq(Rows) /\ h \in Hashes
      /\ Len(chain) \in Nat /\ Len(p) \in Nat /\ DOMAIN chain = 1..Len(chain)
      /\ txn[t].tail.seq \in Nat
  BY <1>0 DEF TypeOK, Transactions
<1>3. /\ n = Len(chain) + Len(p) + 1
      /\ h = LinkHash(chain, p, Len(p) + 1)
      /\ \A u \in Txns : u # t => txn[u].pending = <<>>
  <2>1. n \notin DOMAIN chain /\ \A u \in Txns : n \notin PendingSeqs(u)
    BY <1>1 DEF InTable
  <2>2. CASE txn[t].tail.seq = Len(chain) /\
             (Len(chain) = 0 => h = NoHash) /\
             (Len(chain) # 0 => h = chain[Len(chain)].hash)
    <3>1. ASSUME NEW u \in Txns PROVE txn[u].pending = <<>>
      <4>1. Len(txn[u].pending) \in Nat /\ txn[u].pending \in Seq(Rows)
        BY <1>0 DEF TypeOK, Transactions
      <4>2. Len(chain) + 1 \notin
              (Len(chain) + 1)..(Len(chain) + Len(txn[u].pending))
        BY <1>0, <2>1, <2>2, PendingRange
      <4>3. Len(txn[u].pending) = 0
        BY <1>2, <4>1, <4>2
      <4> QED BY <4>1, <4>3, EmptySeq
    <3>2. Len(p) = 0
      BY <3>1
    <3>3. chain = <<>> <=> Len(chain) = 0
      BY <1>2, EmptySeq
    <3> QED BY <1>2, <2>2, <3>1, <3>2, <3>3 DEF LinkHash
  <2>3. CASE p # <<>> /\ txn[t].tail.seq = Len(chain) + Len(p) /\ h = p[Len(p)].hash
    <3>1. Len(p) > 0
      BY <1>2, <2>3, EmptySeq
    <3>2. \A u \in Txns : u # t => txn[u].pending = <<>>
      BY <1>0, <2>3 DEF SingleWriter, HasRows
    <3> QED BY <1>2, <2>3, <3>1, <3>2 DEF LinkHash
  <2>4. CASE txn[t].tail.seq = 0 /\ h = NoHash
    BY <1>2, <2>1, <2>2, <2>4
  <2>5. CASE txn[t].tail.seq \in DOMAIN chain /\ h = chain[txn[t].tail.seq].hash
    <3>1. txn[t].tail.seq = Len(chain) /\ Len(chain) # 0
      BY <1>2, <2>1, <2>5
    <3> QED BY <2>2, <2>5, <3>1
  <2> QED BY <1>0, <2>3, <2>4, <2>5 DEF TailKnown
<1>4. Append(p, e) \in Seq(Rows) /\ Continues(chain, Append(p, e))
  BY <1>0, <1>1, <1>2, <1>3, AppendContinues DEF PendingContinue
<1>5. PICK q : q = Append(p, e)
  OBVIOUS
<1> HIDE DEF p, h, n, e
<1>6. txn' = [txn EXCEPT ![t].pc = "work", ![t].pending = q]
  BY <1>1, <1>5 DEF p
<1>7. /\ TypeOK'
      /\ txn'[t].pending = q /\ txn'[t].pc = "work"
      /\ \A u \in Txns : u # t => txn'[u] = txn[u]
  <2>1. PICK r : r = [txn[t] EXCEPT !.pc = "work", !.pending = q]
    OBVIOUS
  <2>2. /\ r \in Transactions /\ r.pc = "work"
        /\ r.pending = q /\ r.body = txn[t].body
    BY <1>0, <1>4, <1>5, <2>1 DEF TypeOK, Transactions
  <2>3. TypeOK' /\ txn'[t] = r /\ \A u \in Txns : u # t => txn'[u] = txn[u]
    <3>1. txn' = [txn EXCEPT ![t] = r]
      BY <1>6, <2>1
    <3>2. r.body \in Bodies /\ UNCHANGED chain
      BY <1>1, <2>2
    <3> QED BY <1>0, <2>2, <3>1, <3>2, StoreType
  <2> QED BY <2>2, <2>3
<1>8. PendingContinue'
  BY <1>0, <1>1, <1>4, <1>5, <1>7 DEF PendingContinue
<1>9. SingleWriter'
  BY <1>3, <1>7 DEF SingleWriter, HasRows
<1>10. TailsKnown'
  BY <1>1, <1>7 DEF IInv, TailsKnown, TailKnown
<1> QED BY <1>1, <1>7, <1>8, <1>9, <1>10 DEF IInv, ChainVerifies, Verifies

\* The writer's rows become part of the chain; nobody else has rows.
LEMMA CommitStep == ASSUME IInv, NEW t \in Txns, Commit(t) PROVE IInv'
<1>0. TypeOK /\ PendingContinue /\ SingleWriter /\ Verifies(chain)
  BY DEF IInv, ChainVerifies
<1> DEFINE p == txn[t].pending
<1>1. p \in Seq(Rows) /\ chain \in Seq(Rows)
  BY <1>0 DEF TypeOK, Transactions
<1>2. chain' = chain \o p /\ txn' = [txn EXCEPT ![t] = Fresh]
  BY DEF Commit
<1>3. CASE p = <<>>
  <2>1. chain' = chain
    BY <1>1, <1>2, <1>3
  <2> QED BY <1>2, <2>1, DropStep
<1>4. CASE p # <<>>
  <2>1. /\ chain' \in Seq(Rows) /\ Verifies(chain')
        /\ \A i \in DOMAIN chain : i \in DOMAIN chain' /\ chain'[i] = chain[i]
    BY <1>0, <1>1, <1>2, CommitVerifies DEF PendingContinue
  <2>2. Fresh \in Transactions
    BY FreshType
  <2>3. Fresh.pc = "idle" /\ Fresh.pending = <<>>
    BY DEF Fresh
  <2> HIDE DEF Fresh
  <2>4. TypeOK'
    BY <1>0, <1>2, <2>1, <2>2, <2>3 DEF TypeOK, Transactions
  <2>5. \A u \in Txns : txn'[u] = IF u = t THEN Fresh ELSE txn[u]
    BY <1>0, <1>2 DEF TypeOK, Transactions
  <2>6. \A u \in Txns : u # t => txn[u].pending = <<>>
    BY <1>0, <1>4 DEF SingleWriter, HasRows
  <2>7. \A u \in Txns : txn'[u].pending = <<>>
    BY <2>3, <2>5, <2>6
  <2>8. PendingContinue' /\ SingleWriter'
    BY <2>7 DEF PendingContinue, Continues, SingleWriter, HasRows
  <2>9. TailsKnown'
    BY <2>1, <2>3, <2>5, <2>6 DEF IInv, TailsKnown, TailKnown
  <2> QED BY <2>1, <2>4, <2>8, <2>9 DEF IInv, ChainVerifies
<1> QED BY <1>3, <1>4

\* Every step keeps the invariant.
LEMMA NextIInv == IInv /\ [Next]_vars => IInv'
<1> SUFFICES ASSUME IInv, [Next]_vars PROVE IInv'
  OBVIOUS
<1>0. TypeOK
  BY DEF IInv
<1>1. ASSUME NEW t \in Txns, Begin(t) PROVE IInv'
  <2>0. PICK b \in Bodies :
          txn' = [txn EXCEPT ![t].pc = "scan", ![t].body = b, ![t].attempt = 1]
    BY <1>1 DEF Begin
  <2>a. PICK r : r = [txn[t] EXCEPT !.pc = "scan", !.body = b, !.attempt = 1]
    OBVIOUS
  <2>b. /\ r \in Transactions /\ r.pc = "scan"
        /\ r.pending = txn[t].pending /\ r.body = b
    <3>1. 1 \in 0..MaxAttempts
      BY LedgerAssumption
    <3>2. txn[t] \in Transactions
      BY <1>0 DEF TypeOK
    <3> QED BY <2>a, <3>1, <3>2 DEF Transactions
  <2>c. txn' = [txn EXCEPT ![t] = r]
    BY <2>0, <2>a
  <2>d. UNCHANGED chain
    BY <1>1 DEF Begin
  <2>1. /\ TypeOK' /\ UNCHANGED chain
        /\ txn'[t] = r /\ \A u \in Txns : u # t => txn'[u] = txn[u]
    BY <1>0, <2>b, <2>c, <2>d, StoreType
  <2>2. /\ txn'[t].pc = "scan"
        /\ \A u \in Txns : txn'[u].pending = txn[u].pending
        /\ \A u \in Txns : u # t => txn'[u] = txn[u]
    BY <2>b, <2>1
  <2>3. TailsKnown'
    BY <2>1, <2>2 DEF IInv, TailsKnown, TailKnown
  <2> QED BY <2>1, <2>2, <2>3, ReadStep
<1>2. ASSUME NEW t \in Txns, Retry(t) PROVE IInv'
  <2>a. PICK a \in 0..MaxAttempts : a = txn[t].attempt + 1
    BY <1>0, <1>2, LedgerAssumption DEF TypeOK, Transactions, Retry
  <2>b. PICK r : r = [txn[t] EXCEPT !.pc = "scan", !.attempt = a]
    OBVIOUS
  <2>c. /\ r \in Transactions /\ r.pc = "scan"
        /\ r.pending = txn[t].pending /\ r.body = txn[t].body
    BY <1>0, <2>b DEF TypeOK, Transactions
  <2>d. txn[t].body \in Bodies /\ txn' = [txn EXCEPT ![t] = r]
    BY <1>0, <1>2, <2>a, <2>b DEF Retry, TypeOK, Transactions
  <2>1. /\ TypeOK' /\ UNCHANGED chain
        /\ txn'[t] = r /\ \A u \in Txns : u # t => txn'[u] = txn[u]
    BY <1>0, <1>2, <2>c, <2>d, StoreType DEF Retry
  <2>2. /\ txn'[t].pc = "scan"
        /\ \A u \in Txns : txn'[u].pending = txn[u].pending
        /\ \A u \in Txns : u # t => txn'[u] = txn[u]
    BY <2>c, <2>1
  <2>3. TailsKnown'
    BY <2>1, <2>2 DEF IInv, TailsKnown, TailKnown
  <2> QED BY <2>1, <2>2, <2>3, ReadStep
<1>3. ASSUME NEW t \in Txns, GiveUp(t) \/ Abort(t) PROVE IInv'
  BY <1>3, DropStep DEF GiveUp, Abort
<1>4. CASE UNCHANGED vars
  BY <1>4, <1>0, ReadStep DEF vars, IInv, TypeOK, Transactions, TailsKnown, TailKnown
<1> QED BY <1>1, <1>2, <1>3, <1>4, ScanStep, WakeStep, InsertStep, CommitStep
        DEF Next, TxnStep

\* The invariant holds of every behaviour.
THEOREM SpecIInv == Spec => []IInv
<1> QED BY InitIInv, NextIInv, PTL DEF Spec

\* verify_event_chain() holds of the committed rows in every state, whatever the
\* number of transactions and the interleaving of their reads and inserts.
THEOREM ChainAlwaysVerifies == Spec => []ChainVerifies
<1>1. IInv => ChainVerifies
  BY DEF IInv
<1> QED BY <1>1, SpecIInv, PTL

\* At most one open transaction has rows in the table: the chain does not fork.
THEOREM NeverForks == Spec => []SingleWriter
<1>1. IInv => SingleWriter
  BY DEF IInv
<1> QED BY <1>1, SpecIInv, PTL

\* Type correctness.
THEOREM TypeCorrect == Spec => []TypeOK
<1>1. IInv => TypeOK
  BY DEF IInv
<1> QED BY <1>1, SpecIInv, PTL

-----------------------------------------------------------------------------
BodiesOf(c) == [i \in DOMAIN c |-> c[i].body]

\* The bodies of a sequence of rows are a sequence of the same length.
LEMMA BodiesType ==
    ASSUME NEW c \in Seq(Rows)
    PROVE  BodiesOf(c) \in Seq(Bodies) /\ Len(BodiesOf(c)) = Len(c)
<1>0. Len(c) \in Nat /\ DOMAIN c = 1..Len(c) /\ \A i \in 1..Len(c) : c[i] \in Rows
  OBVIOUS
<1>a. \A r \in Rows : r.body \in Bodies
  BY DEF Rows
<1>1. Len(c) \in Nat /\ DOMAIN c = 1..Len(c) /\ \A i \in 1..Len(c) : c[i].body \in Bodies
  BY <1>0, <1>a
<1>2. PICK n \in Nat : n = Len(c)
  BY <1>1
<1>3. BodiesOf(c) \in [1..n -> Bodies]
  BY <1>1, <1>2 DEF BodiesOf
<1>4. BodiesOf(c) \in Seq(Bodies)
  BY <1>2, <1>3, SeqDef
<1>5. DOMAIN BodiesOf(c) = 1..n
  BY <1>3
<1>6. DOMAIN BodiesOf(c) = 1..Len(BodiesOf(c)) /\ Len(BodiesOf(c)) \in Nat
  BY <1>4
<1> QED BY <1>2, <1>4, <1>5, <1>6

\* The ledger implements the append-only log: committed events are never changed,
\* removed or reordered, and a transaction's events arrive together.
THEOREM LedgerImplementsLog == Spec => ImplementsLog
<1>1. Init => Log!Init
  BY DEF Init, Log!Init
<1>2. IInv /\ [Next]_vars => [Log!Append_events]_([i \in DOMAIN chain |-> chain[i].body])
  <2> SUFFICES ASSUME IInv, [Next]_vars
               PROVE  [Log!Append_events]_([i \in DOMAIN chain |-> chain[i].body])
    OBVIOUS
  <2>0. TypeOK /\ PendingContinue /\ Verifies(chain)
    BY DEF IInv, ChainVerifies
  <2>1. CASE chain' = chain
    BY <2>1
  <2>2. ASSUME NEW t \in Txns, Commit(t), chain' # chain
        PROVE  Log!Append_events
    <3> DEFINE p == txn[t].pending
    <3>1. /\ p \in Seq(Rows) /\ chain \in Seq(Rows) /\ chain' = chain \o p
          /\ Continues(chain, p)
      BY <2>0, <2>2 DEF TypeOK, Transactions, Commit, PendingContinue
    <3>2. /\ chain' \in Seq(Rows) /\ Len(chain') = Len(chain) + Len(p)
          /\ \A i \in DOMAIN chain : i \in DOMAIN chain' /\ chain'[i] = chain[i]
      BY <2>0, <3>1, CommitVerifies
    <3>3. Len(p) > 0
      BY <2>2, <3>1, EmptySeq
    <3>4. /\ BodiesOf(chain') \in Seq(Bodies)
          /\ Len(BodiesOf(chain')) > Len(BodiesOf(chain))
      <4>1. /\ Len(BodiesOf(chain')) = Len(chain') /\ BodiesOf(chain') \in Seq(Bodies)
            /\ Len(BodiesOf(chain)) = Len(chain)
        BY <3>1, <3>2, BodiesType
      <4>2. Len(chain) \in Nat /\ Len(p) \in Nat
        BY <3>1
      <4> QED BY <3>2, <3>3, <4>1, <4>2
    <3>5. \A i \in DOMAIN BodiesOf(chain) : BodiesOf(chain')[i] = BodiesOf(chain)[i]
      BY <3>2 DEF BodiesOf
    <3> QED BY <3>4, <3>5 DEF Log!Append_events, BodiesOf
  <2>3. \/ chain' = chain
        \/ \E t \in Txns : Commit(t)
    BY DEF Next, TxnStep, vars, Begin, Scan, Wake, Insert, Retry, GiveUp, Abort
  <2> QED BY <2>1, <2>2, <2>3
<1> QED BY <1>1, <1>2, SpecIInv, PTL DEF Spec, ImplementsLog, Log!Spec

-----------------------------------------------------------------------------
(* The engine, instantiated as Engine.  What is said of a run is said of its *)
(* row x, with the nodes and dependencies of its revision.                   *)

LEMMA EngineFinite == \A S : Engine!IsFiniteSet(S) <=> IsFiniteSet(S)
BY DEF IsFiniteSet, Engine!IsFiniteSet

LEMMA EngineCardinality == \A S : Engine!Cardinality(S) = Cardinality(S)
BY DEF Cardinality, Engine!Cardinality

\* A finite set of natural numbers that is not empty has a least and a greatest element.
Least(x, S) == x \in S /\ \A y \in S : x <= y
Greatest(x, S) == x \in S /\ \A y \in S : x >= y
Bounded(S) == \E x, y \in S : Least(x, S) /\ Greatest(y, S)

LEMMA FiniteBounded ==
    ASSUME NEW S \in SUBSET Nat, S # {}, IsFiniteSet(S)
    PROVE  Bounded(S)
<1> DEFINE B == {U \in SUBSET S : U # {} /\ ~Bounded(U)}
<1> SUFFICES ASSUME ~Bounded(S) PROVE FALSE
  OBVIOUS
<1>1. S \in B
  OBVIOUS
<1>2. IsWellFoundedOn(StrictSubsetOrdering(S), SUBSET S)
  BY FS_StrictSubsetOrderingWellFounded, FS_FiniteSubsetsOfFinite
<1>3. PICK T \in B : \A U \in B : ~(<<U, T>> \in StrictSubsetOrdering(S))
  <2> HIDE DEF B
  <2>1. B \subseteq SUBSET S
    BY DEF B
  <2> QED
    BY <1>1, <1>2, <2>1, WFMin
<1>4. PICK x \in T : TRUE
  OBVIOUS
<1> DEFINE U == T \ {x}
<1>5. x \in Nat /\ U \in SUBSET Nat
  OBVIOUS
<1>6. CASE U = {}
  <2>1. Least(x, T) /\ Greatest(x, T)
    BY <1>5, <1>6 DEF Least, Greatest
  <2> QED
    BY <2>1 DEF Bounded
<1>7. CASE U # {}
  <2>1. U \notin B
    BY <1>3 DEF StrictSubsetOrdering
  <2>2. Bounded(U)
    BY <1>7, <2>1
  <2>3. PICK a, b \in U : Least(a, U) /\ Greatest(b, U)
    BY <2>2 DEF Bounded
  <2>4. \A y \in T : y = x \/ y \in U
    OBVIOUS
  <2> DEFINE lo == IF x <= a THEN x ELSE a
             hi == IF x >= b THEN x ELSE b
  <2>5. a \in Nat /\ b \in Nat
    BY <1>5
  <2>6. Least(lo, T)
    BY <1>5, <2>3, <2>4, <2>5 DEF Least
  <2>7. Greatest(hi, T)
    BY <1>5, <2>3, <2>4, <2>5 DEF Greatest
  <2> QED
    BY <2>6, <2>7 DEF Bounded, Least, Greatest
<1> QED
  BY <1>6, <1>7

\* A set of natural numbers that is not empty has a least element.
LEMMA LeastNatural ==
    ASSUME NEW S \in SUBSET Nat, S # {}
    PROVE  \E x \in S : \A y \in S : x <= y
<1>1. PICK n \in S : TRUE
  OBVIOUS
<1> DEFINE T == {y \in S : y <= n}
<1>2. T \in SUBSET (0..n) /\ n \in Nat /\ T \in SUBSET Nat /\ n \in T
  <2>1. n \in Nat
    OBVIOUS
  <2>2. \A y \in T : y \in 0..n
    BY <2>1
  <2>3. n \in T
    BY <2>1
  <2> HIDE DEF T
  <2> QED
    BY <2>1, <2>2, <2>3
<1>3. IsFiniteSet(T)
  <2>1. IsFiniteSet(0..n)
    BY <1>2, FS_Interval
  <2> QED
    BY <1>2, <2>1, FS_Subset
<1>4. PICK x \in T : Least(x, T)
  <2> HIDE DEF T
  <2> QED
    BY <1>2, <1>3, FiniteBounded DEF Bounded
<1>5. \A y \in S : x <= y
  <2> SUFFICES ASSUME NEW y \in S PROVE x <= y
    OBVIOUS
  <2>1. CASE y <= n
    BY <1>4, <2>1 DEF Least
  <2>2. CASE ~(y <= n)
    BY <1>2, <2>2
  <2> QED
    BY <2>1, <2>2
<1> QED
  BY <1>5

\* A function defined by a recursion over 0..n exists.
Follows(f, n, a, g) == f = [k \in 0..n |-> IF k = 0 THEN a ELSE g[<<k, f[k - 1]>>]]

LEMMA RecursionWorks ==
    ASSUME NEW S, NEW a \in S, NEW g \in [Nat \X S -> S], NEW n \in Nat
    PROVE  \E f \in [0..n -> S] : Follows(f, n, a, g)
<1> DEFINE Fails == {m \in 0..n : \A f \in [0..m -> S] : ~Follows(f, m, a, g)}
<1> SUFFICES ASSUME Fails # {} PROVE FALSE
  BY n \in 0..n
<1>1. Fails \in SUBSET Nat
  OBVIOUS
<1>2. PICK m \in Fails : \A y \in Fails : m <= y
  <2> HIDE DEF Fails
  <2> QED
    BY <1>1, LeastNatural
<1>3. m \in Nat /\ m \in 0..n
  OBVIOUS
<1>4. m # 0
  <2> SUFFICES ASSUME m = 0 PROVE FALSE
    OBVIOUS
  <2> DEFINE f == [k \in 0..0 |-> a]
  <2>1. f \in [0..m -> S]
    OBVIOUS
  <2>2. f = [k \in 0..m |-> IF k = 0 THEN a ELSE g[<<k, f[k - 1]>>]]
    OBVIOUS
  <2> QED
    BY <1>2, <2>1, <2>2 DEF Follows
<1>5. m - 1 \in Nat /\ m - 1 \in 0..n /\ m - 1 \notin Fails
  BY <1>2, <1>3, <1>4
<1>6. PICK f \in [0..(m - 1) -> S] : Follows(f, m - 1, a, g)
  BY <1>5
<1> DEFINE h == [k \in 0..m |-> IF k = m THEN g[<<m, f[m - 1]>>] ELSE f[k]]
<1>7. f[m - 1] \in S /\ g[<<m, f[m - 1]>>] \in S
  BY <1>3, <1>5
<1>8. h \in [0..m -> S]
  BY <1>3, <1>7
<1>9. \A k \in 0..m : h[k] = IF k = 0 THEN a ELSE g[<<k, h[k - 1]>>]
  <2> SUFFICES ASSUME NEW k \in 0..m PROVE h[k] = IF k = 0 THEN a ELSE g[<<k, h[k - 1]>>]
    OBVIOUS
  <2>1. CASE k = m
    <3>1. h[m - 1] = f[m - 1]
      BY <1>3, <1>4
    <3> QED
      BY <2>1, <3>1, <1>4, <1>3
  <2>2. CASE k # m
    <3>1. k \in 0..(m - 1) /\ h[k] = f[k]
      BY <2>2, <1>3
    <3>2. f[k] = IF k = 0 THEN a ELSE g[<<k, f[k - 1]>>]
      BY <1>6, <3>1, Zenon DEF Follows
    <3>3. k # 0 => k - 1 \in 0..m /\ k - 1 # m
      BY <1>3
    <3> QED
      BY <3>1, <3>2, <3>3
  <2> QED
    BY <2>1, <2>2
<1>10. Follows(h, m, a, g)
  <2> HIDE DEF h
  <2>1. h = [k \in 0..m |-> h[k]]
    BY <1>8
  <2>2. h = [k \in 0..m |-> IF k = 0 THEN a ELSE g[<<k, h[k - 1]>>]]
    BY <1>9, <2>1
  <2> QED
    BY <2>2 DEF Follows
<1> QED
  BY <1>2, <1>8, <1>10

-----------------------------------------------------------------------------
(* Stages complete upward.                                                  *)

Required(N, p) == {d \in DOMAIN N : N[d].parent = p /\ N[d].required}
Over(st, d) == st[d] \in {"completed", "skipped"}

\* F is what completes above p: stages, whose required children are done or in F; and
\* whatever has its children done, from p on, is in it.
FinishedFrom(F, N, st, p) ==
    /\ \A q \in F : q \in DOMAIN N /\ \E d \in DOMAIN N : N[d].parent = q
    /\ \A q \in F : \A d \in Required(N, q) : Over(st, d) \/ d \in F
    /\ \A q \in DOMAIN N :
         /\ q = p \/ \E u \in F : N[u].parent = q
         /\ Required(N, q) # {}
         /\ \A d \in Required(N, q) : Over(st, d) \/ d \in F
         => q \in F

ReadyAt(N, st, up, k) ==
    /\ up[k] \in DOMAIN st
    /\ Required(N, up[k]) # {}
    /\ \A d \in Required(N, up[k]) : Over(st, d) \/ (k > 0 /\ d = up[k - 1])

AboveOf(N, st, u) == IF u \in DOMAIN st THEN N[u].parent ELSE u
Climbs(N, st, h, up) == \A k \in 1..h : up[k] = AboveOf(N, st, up[k - 1])

\* Two places of the way up that agree go on alike.
LEMMA WaysAgree ==
    ASSUME NEW N, NEW st, NEW h \in Nat, NEW up, Climbs(N, st, h, up),
           NEW i \in 0..h, NEW j \in 0..h, i < j, up[i] = up[j]
    PROVE  up[h - (j - i)] = up[h]
<1> DEFINE Differ == {m \in 0..(h - j) : up[i + m] # up[j + m]}
<1>1. CASE Differ = {}
  <2>1. h - j \in 0..(h - j)
    OBVIOUS
  <2>2. up[i + (h - j)] = up[j + (h - j)]
    BY <1>1, <2>1
  <2>3. i + (h - j) = h - (j - i) /\ j + (h - j) = h
    OBVIOUS
  <2> QED
    BY <2>2, <2>3
<1>2. CASE Differ # {}
  <2>1. Differ \in SUBSET Nat
    OBVIOUS
  <2>2. PICK m \in Differ : \A y \in Differ : m <= y
    <3> HIDE DEF Differ
    <3> QED
      BY <1>2, <2>1, LeastNatural
  <2>3. m \in 0..(h - j) /\ up[i + m] # up[j + m]
    OBVIOUS
  <2>4. m # 0
    BY <2>3
  <2>5. m - 1 \in 0..(h - j) /\ m - 1 \notin Differ
    <3>1. m - 1 \in 0..(h - j) /\ ~(m <= m - 1)
      BY <2>3, <2>4
    <3> HIDE DEF Differ
    <3> QED
      BY <2>2, <3>1
  <2>6. up[i + (m - 1)] = up[j + (m - 1)]
    BY <2>5
  <2>7. /\ i + m \in 1..h /\ j + m \in 1..h
        /\ (i + m) - 1 = i + (m - 1) /\ (j + m) - 1 = j + (m - 1)
    BY <2>3, <2>4
  <2>8. up[i + m] = AboveOf(N, st, up[(i + m) - 1]) /\ up[j + m] = AboveOf(N, st, up[(j + m) - 1])
    BY <2>7 DEF Climbs
  <2> QED
    BY <2>3, <2>6, <2>7, <2>8
<1> QED
  BY <1>1, <1>2

\* A way up that is longer than there are stages passes its end earlier.
LEMMA WayBends ==
    ASSUME NEW N, NEW st, NEW h \in Nat, NEW up, NEW T, IsFiniteSet(T), Cardinality(T) = h,
           Climbs(N, st, h, up), \A k \in 0..h : up[k] \in T
    PROVE  \E m \in 0..h : m < h /\ up[m] = up[h]
<1> DEFINE f == [k \in 0..h |-> up[k]]
<1>1. f \in [0..h -> T]
  BY Zenon
<1>2. IsFiniteSet(0..h) /\ Cardinality(0..h) = h + 1
  BY FS_Interval
<1>3. Cardinality(T) < Cardinality(0..h)
  BY <1>2
<1>4. \E a, b \in 0..h : a # b /\ f[a] = f[b]
  <2> HIDE DEF f
  <2> QED
    BY <1>1, <1>2, <1>3, FS_PigeonHole
<1>5. PICK a, b \in 0..h : a # b /\ up[a] = up[b]
  BY <1>4
<1>6. PICK i, j \in 0..h : i < j /\ up[i] = up[j]
  <2>1. a < b \/ b < a
    BY <1>5
  <2> QED
    BY <1>5, <2>1, Zenon
<1>7. up[h - (j - i)] = up[h]
  <2> HIDE DEF f
  <2> QED
    BY <1>6, WaysAgree
<1>8. h - (j - i) \in 0..h /\ h - (j - i) < h
  BY <1>6
<1> QED
  BY <1>7, <1>8

StagesOf(N, st) == {q \in DOMAIN st : N[q].kind = "stage"}
StageParents(N) ==
    \A q \in DOMAIN N : N[q].parent \in DOMAIN N => N[N[q].parent].kind = "stage"

LEMMA ClimbSound ==
    ASSUME NEW N, NEW st, NEW p, NEW h \in Nat, NEW up, NEW c,
           DOMAIN st = DOMAIN N,
           c \in DOMAIN N, p = N[c].parent,
           IsFiniteSet(StagesOf(N, st)), h = Cardinality(StagesOf(N, st)),
           StageParents(N), up[0] = p, Climbs(N, st, h, up)
    PROVE  FinishedFrom({up[k] : k \in {i \in 0..h : \A j \in 0..i : ReadyAt(N, st, up, j)}},
                        N, st, p)
<1> DEFINE I == {i \in 0..h : \A j \in 0..i : ReadyAt(N, st, up, j)}
           F == {up[k] : k \in I}
           Stages == StagesOf(N, st)
<1>1. \A k \in I : \A j \in 0..k : j \in I /\ ReadyAt(N, st, up, j) /\ k \in Nat /\ k <= h
  OBVIOUS
<1>2. \A k \in I : k \in I /\ ReadyAt(N, st, up, k) /\ k \in Nat /\ k <= h
  OBVIOUS
<1>3. \A k \in I : /\ up[k] \in DOMAIN N
                   /\ \E d \in DOMAIN N : N[d].parent = up[k]
                   /\ up[k] \in Stages
  <2> HIDE DEF I
  <2> SUFFICES ASSUME NEW k \in I
               PROVE  /\ up[k] \in DOMAIN N
                      /\ \E d \in DOMAIN N : N[d].parent = up[k]
                      /\ up[k] \in Stages
    OBVIOUS
  <2>1. up[k] \in DOMAIN N
    BY <1>2 DEF ReadyAt
  <2>2. \E d \in DOMAIN N : N[d].parent = up[k]
    <3>1. CASE k = 0
      BY <3>1
    <3>2. CASE k # 0
      <4>1. k - 1 \in 0..k /\ k \in 1..h
        BY <1>2, <3>2
      <4>2. up[k - 1] \in DOMAIN st
        BY <1>1, <4>1 DEF ReadyAt
      <4> QED
        BY <4>1, <4>2 DEF AboveOf, Climbs
    <3> QED
      BY <3>1, <3>2
  <2>3. up[k] \in Stages
    BY <2>1, <2>2, Zenon DEF StagesOf, StageParents
  <2> QED
    BY <2>1, <2>2, <2>3
<1>4. \A k \in I : k < h => up[k + 1] = N[up[k]].parent
  <2> SUFFICES ASSUME NEW k \in I, k < h PROVE up[k + 1] = N[up[k]].parent
    OBVIOUS
  <2>1. k + 1 \in 1..h /\ (k + 1) - 1 = k /\ up[k] \in DOMAIN st
    BY <1>2 DEF ReadyAt
  <2> QED
    BY <2>1, Zenon DEF AboveOf, Climbs
<1>5. h \notin I \/ \E m \in I : m < h /\ up[m] = up[h]
  <2> SUFFICES ASSUME h \in I PROVE \E m \in I : m < h /\ up[m] = up[h]
    OBVIOUS
  <2>1. \A k \in 0..h : up[k] \in Stages
    BY <1>1, <1>3
  <2>2. IsFiniteSet(Stages) /\ Cardinality(Stages) = h
    OBVIOUS
  <2>4. PICK m \in 0..h : m < h /\ up[m] = up[h]
    <3> HIDE DEF I, F, Stages
    <3> QED
      BY <2>1, <2>2, WayBends
  <2>5. m \in I
    BY <1>1, <2>4
  <2> QED
    BY <2>4, <2>5
<1> HIDE DEF I
<1>6. \A k \in I : \A d \in Required(N, up[k]) : Over(st, d) \/ d \in F
  <2> SUFFICES ASSUME NEW k \in I, NEW d \in Required(N, up[k]), ~Over(st, d)
               PROVE  d \in F
    OBVIOUS
  <2>1. k > 0 /\ d = up[k - 1]
    BY <1>2 DEF ReadyAt
  <2>2. k - 1 \in I
    <3>1. k - 1 \in 0..k
      BY <1>2, <2>1
    <3> QED
      BY <1>1, <3>1
  <2> QED
    BY <2>1, <2>2
<1>7. ASSUME NEW q \in DOMAIN N, Required(N, q) # {},
             q = p \/ \E u \in F : N[u].parent = q,
             \A d \in Required(N, q) : Over(st, d) \/ d \in F
      PROVE  q \in F
  <2>1. I # {} => 0 \in I
    <3> SUFFICES ASSUME NEW k \in I PROVE 0 \in I
      OBVIOUS
    <3>1. 0 \in 0..k
      BY <1>2
    <3> QED
      BY <1>1, <3>1
  <2>2. CASE q = p
    <3>1. CASE I # {}
      BY <2>1, <2>2, <3>1
    <3>2. CASE I = {}
      <4>1. \A d \in Required(N, q) : Over(st, d)
        BY <1>7, <3>2
      <4>2. ReadyAt(N, st, up, 0)
        BY <1>7, <2>2, <4>1 DEF ReadyAt
      <4>3. 0 \in I
        BY <4>2 DEF I
      <4> QED
        BY <2>2, <4>3
    <3> QED
      BY <3>1, <3>2
  <2>3. CASE \E u \in F : N[u].parent = q
    <3>1. PICK k0 \in I : N[up[k0]].parent = q
      BY <2>3
    <3>2. PICK k \in I : k < h /\ N[up[k]].parent = q
      <4>1. CASE k0 < h
        BY <3>1, <4>1
      <4>2. CASE k0 = h
        BY <1>5, <3>1, <4>2
      <4>3. k0 < h \/ k0 = h
        BY <1>2
      <4> QED
        BY <4>1, <4>2, <4>3
    <3>3. up[k + 1] = q /\ k \in Nat
      BY <1>2, <1>4, <3>2
    <3>4. CASE \E j \in I : N[up[j]].parent = q /\ j # k
      <4>1. PICK j \in I : N[up[j]].parent = q /\ j # k
        BY <3>4
      <4>2. CASE j < k
        <5>1. j + 1 \in 0..k /\ j < h
          <6>1. j \in Nat /\ k \in Nat /\ k < h
            BY <1>2, <3>2
          <6> QED
            BY <4>2, <6>1
        <5>2. up[j + 1] = q
          BY <1>4, <4>1, <5>1
        <5> QED
          BY <1>1, <5>1, <5>2
      <4>3. CASE j > k
        <5>1. k + 1 \in 0..j
          BY <1>2, <4>3
        <5> QED
          BY <1>1, <3>3, <5>1
      <4>4. j \in Nat /\ k \in Nat
        BY <1>2
      <4> QED
        BY <4>1, <4>2, <4>3, <4>4
    <3>5. CASE \A j \in I : N[up[j]].parent = q => j = k
      <4>1. \A d \in Required(N, q) : Over(st, d) \/ d = up[k]
        BY <1>7, <3>5 DEF Required
      <4>2. (k + 1) - 1 = k /\ k + 1 > 0 /\ k + 1 \in 0..h
        BY <3>2, <3>3
      <4>3. ReadyAt(N, st, up, k + 1)
        BY <1>7, <3>3, <4>1, <4>2 DEF ReadyAt
      <4>4. \A j \in 0..(k + 1) : ReadyAt(N, st, up, j)
        <5>1. \A j \in 0..(k + 1) : j \in 0..k \/ j = k + 1
          BY <3>3
        <5> QED
          BY <1>1, <4>3, <5>1
      <4>5. k + 1 \in I
        BY <4>2, <4>4 DEF I
      <4> QED
        BY <3>3, <4>5
    <3> QED
      BY <3>4, <3>5
  <2> QED
    BY <1>7, <2>2, <2>3
<1>8. \A q \in F : q \in DOMAIN N /\ \E d \in DOMAIN N : N[d].parent = q
  BY <1>3
<1>9. \A q \in F : \A d \in Required(N, q) : Over(st, d) \/ d \in F
  BY <1>6
<1>10. FinishedFrom(F, N, st, p)
  <2> HIDE DEF F
  <2> QED
    BY <1>7, <1>8, <1>9 DEF FinishedFrom
<1> QED
  BY <1>10 DEF I

\* CompleteStages completes such a set of stages.
Completing(F, st) == [q \in DOMAIN st |-> IF q \in F THEN "completed" ELSE st[q]]

\* Codes of nodes and what a revision says of its nodes.
NodeCodes == Engine!Codes \ {Engine!NoParent}
NodesSound(N) ==
    /\ DOMAIN N \subseteq NodeCodes /\ IsFiniteSet(DOMAIN N)
    /\ N \in [DOMAIN N -> Engine!PlanNode]
    /\ Engine!ParentsAreStages(N)

LEMMA NodeFields ==
    ASSUME NEW N, NodesSound(N), NEW c \in DOMAIN N
    PROVE  /\ c \in NodeCodes
           /\ N[c] \in Engine!PlanNode
           /\ N[c] = [sequence |-> N[c].sequence, kind |-> N[c].kind, parent |-> N[c].parent,
                      status |-> N[c].status, required |-> N[c].required, cost |-> N[c].cost,
                      duration |-> N[c].duration, people |-> N[c].people,
                      skills |-> N[c].skills, resources |-> N[c].resources,
                      closures |-> N[c].closures]
           /\ N[c].sequence \in Nat /\ N[c].kind \in {"stage", "work"}
           /\ N[c].parent \in Engine!Codes /\ N[c].required \in BOOLEAN
           /\ N[c].status \in {"planned", "completed", "cancelled"}
           /\ N[c].cost \in Nat /\ N[c].duration \in Nat /\ N[c].people \in Nat
<1>1. N[c] \in Engine!PlanNode /\ c \in NodeCodes
  BY Zenon DEF NodesSound
<1> QED
  BY <1>1 DEF Engine!PlanNode

LEMMA ParentIsStage ==
    ASSUME NEW N, NodesSound(N), NEW c \in DOMAIN N
    PROVE  \/ N[c].parent = Engine!NoParent /\ N[c].parent \notin DOMAIN N
           \/ /\ N[c].parent \in DOMAIN N
              /\ N[N[c].parent].kind = "stage"
              /\ N[N[c].parent].status = "completed" /\ N[c].required => N[c].status # "planned"
<1>1. Engine!NoParent \notin DOMAIN N
  BY Zenon DEF NodesSound, NodeCodes
<1> QED
  BY <1>1, Zenon DEF NodesSound, Engine!ParentsAreStages

LEMMA StagesFinish ==
    ASSUME NEW x, NEW st, NEW c,
           NodesSound(planRevisions[x.revision].nodes),
           DOMAIN st = DOMAIN planRevisions[x.revision].nodes,
           c \in DOMAIN st
    PROVE  LET N == planRevisions[x.revision].nodes IN
           \E F : /\ FinishedFrom(F, N, st, N[c].parent)
                  /\ Engine!CompleteStages(x, st, N[c].parent) = Completing(F, st)
<1> DEFINE N == planRevisions[x.revision].nodes
           p == N[c].parent
           height == Engine!Cardinality({q \in DOMAIN st : N[q].kind = "stage"})
           up[k \in 0..height] ==
             IF k = 0 THEN p
             ELSE IF up[k - 1] \in DOMAIN st THEN N[up[k - 1]].parent ELSE up[k - 1]
           Ready(k) == /\ up[k] \in DOMAIN st
                       /\ Engine!Children(x, up[k]) # {}
                       /\ \A d \in Engine!Children(x, up[k]) :
                            \/ st[d] \in {"completed", "skipped"}
                            \/ k > 0 /\ d = up[k - 1]
           finished == {up[k] : k \in {i \in 0..height : \A j \in 0..i : Ready(j)}}
<1>1. Engine!CompleteStages(x, st, p)
        = [q \in DOMAIN st |-> IF q \in finished THEN "completed" ELSE st[q]]
  BY DEF Engine!CompleteStages, Engine!Nodes
<1> HIDE DEF N
<1>2. IsFiniteSet(StagesOf(N, st))
  <2>1. IsFiniteSet(DOMAIN st)
    BY DEF NodesSound, N
  <2>2. StagesOf(N, st) \subseteq DOMAIN st
    BY DEF StagesOf
  <2> HIDE DEF N
  <2> QED
    BY <2>1, <2>2, FS_Subset
<1>3. height \in Nat /\ height = Cardinality(StagesOf(N, st))
  BY <1>2, EngineCardinality, FS_CardinalityType DEF StagesOf
<1> HIDE DEF height
<1>4. up = [k \in 0..height |-> IF k = 0 THEN p ELSE AboveOf(N, st, up[k - 1])]
  <2> DEFINE S == Engine!Codes
             g == [z \in Nat \X S |-> IF z[2] \in DOMAIN st THEN N[z[2]].parent ELSE z[2]]
             G(f) == [k \in 0..height |->
                        IF k = 0 THEN p
                        ELSE IF f[k - 1] \in DOMAIN st THEN N[f[k - 1]].parent ELSE f[k - 1]]
  <2>1. \A q \in DOMAIN st : N[q].parent \in S
    BY NodeFields DEF N
  <2>2. p \in S /\ g \in [Nat \X S -> S]
    BY <2>1
  <2>3. PICK f \in [0..height -> S] : Follows(f, height, p, g)
    <3> HIDE DEF g, S, p
    <3> QED
      BY <1>3, <2>2, RecursionWorks
  <2>4. f = G(f)
    <3>1. f = [k \in 0..height |-> IF k = 0 THEN p ELSE g[<<k, f[k - 1]>>]]
      BY <2>3, Zenon DEF Follows
    <3>2. \A k \in 0..height : k # 0 =>
            g[<<k, f[k - 1]>>] = IF f[k - 1] \in DOMAIN st THEN N[f[k - 1]].parent ELSE f[k - 1]
      <4> SUFFICES ASSUME NEW k \in 0..height, k # 0
                   PROVE  g[<<k, f[k - 1]>>]
                            = IF f[k - 1] \in DOMAIN st THEN N[f[k - 1]].parent ELSE f[k - 1]
        OBVIOUS
      <4>1. k - 1 \in 0..height /\ k \in Nat
        BY <1>3
      <4>2. f[k - 1] \in S
        BY <4>1
      <4> QED
        BY <4>1, <4>2
    <3> HIDE DEF g
    <3> QED
      BY <3>1, <3>2
  <2>5. up = CHOOSE u : u = G(u)
    BY DEF up
  <2>6. up = G(up)
    <3> HIDE DEF up, G
    <3> QED
      BY <2>4, <2>5
  <2> QED
    BY <2>6 DEF AboveOf
<1> HIDE DEF up
<1>5. up[0] = p /\ Climbs(N, st, height, up)
  <2>1. \A k \in 0..height : up[k] = IF k = 0 THEN p ELSE AboveOf(N, st, up[k - 1])
    BY <1>4
  <2>2. \A k \in 1..height : k \in 0..height /\ k # 0
    BY <1>3
  <2> QED
    BY <1>3, <2>1, <2>2 DEF Climbs
<1>6. \A k : Ready(k) <=> ReadyAt(N, st, up, k)
  BY DEF Engine!Children, Engine!Nodes, Required, ReadyAt, Over, N
<1>7. StageParents(N)
  BY ParentIsStage DEF N, StageParents
<1> HIDE DEF Ready
<1>8. finished = {up[k] : k \in {i \in 0..height : \A j \in 0..i : ReadyAt(N, st, up, j)}}
  BY <1>6
<1> HIDE DEF finished
<1>9. FinishedFrom(finished, N, st, p)
  <2>1. DOMAIN st = DOMAIN N /\ c \in DOMAIN N
    BY DEF N
  <2>2. p = N[c].parent
    OBVIOUS
  <2> HIDE DEF p
  <2>3. FinishedFrom({up[k] : k \in {i \in 0..height : \A j \in 0..i : ReadyAt(N, st, up, j)}},
                     N, st, p)
    BY <1>2, <1>3, <1>5, <1>7, <2>1, <2>2, ClimbSound
  <2> QED
    BY <1>8, <2>3, Zenon
<1> QED
  BY <1>1, <1>9 DEF Completing, N

-----------------------------------------------------------------------------
(* What the turns of a run report.                                          *)

TurnKinds == {"node", "failed", "completed", "paused", "aborted"}
TurnRows == [kind : TurnKinds, node : Engine!Codes \cup {<<>>}, day : Int]

CostOf(N, t) == IF t.kind = "node" THEN N[t.node].cost ELSE 0
ReportedIn(N, ts) ==
    LET cost(i) == IF ts[i].kind = "node" THEN N[ts[i].node].cost ELSE 0
        sum[i \in 0..Len(ts)] == IF i = 0 THEN 0 ELSE sum[i - 1] + cost(i)
    IN sum[Len(ts)]

Sums(f, N, ts) == f[0] = 0 /\ \A i \in 1..Len(ts) : f[i] = f[i - 1] + CostOf(N, ts[i])
TurnsIn(N, ts) ==
    /\ ts \in Seq(TurnRows)
    /\ \A i \in DOMAIN ts : ts[i].kind = "node" => ts[i].node \in DOMAIN N

LEMMA ReportedIsSum ==
    \A x : Engine!Reported(x) = ReportedIn(planRevisions[x.revision].nodes, x.turns)
BY DEF Engine!Reported, Engine!Nodes, ReportedIn

LEMMA SumsAgree ==
    ASSUME NEW N, NEW ts, Len(ts) \in Nat, NEW f, NEW g, Sums(f, N, ts), Sums(g, N, ts)
    PROVE  f[Len(ts)] = g[Len(ts)]
<1> DEFINE Differ == {m \in 0..Len(ts) : f[m] # g[m]}
<1> SUFFICES ASSUME Differ # {} PROVE FALSE
  BY Len(ts) \in 0..Len(ts)
<1>1. Differ \in SUBSET Nat
  OBVIOUS
<1>2. PICK m \in Differ : \A y \in Differ : m <= y
  <2> HIDE DEF Differ
  <2> QED
    BY <1>1, LeastNatural
<1>3. m \in 0..Len(ts) /\ f[m] # g[m]
  OBVIOUS
<1>4. m # 0
  BY <1>3 DEF Sums
<1>5. m \in 1..Len(ts) /\ m - 1 \in 0..Len(ts) /\ ~(m <= m - 1)
  BY <1>3, <1>4
<1>6. m - 1 \notin Differ
  <2> HIDE DEF Differ
  <2> QED
    BY <1>2, <1>5
<1>7. f[m - 1] = g[m - 1]
  BY <1>5, <1>6
<1> QED
  BY <1>3, <1>5, <1>7 DEF Sums

LEMMA CostIsNatural ==
    ASSUME NEW N, NodesSound(N), NEW ts, TurnsIn(N, ts), NEW i \in 1..Len(ts)
    PROVE  CostOf(N, ts[i]) \in Nat
<1>1. i \in DOMAIN ts
  BY DEF TurnsIn
<1>2. ts[i].kind = "node" => N[ts[i].node].cost \in Nat
  BY <1>1, NodeFields DEF TurnsIn
<1> QED
  BY <1>2 DEF CostOf

LEMMA SumsExist ==
    ASSUME NEW N, NodesSound(N), NEW ts, TurnsIn(N, ts)
    PROVE  /\ Len(ts) \in Nat
           /\ \E f \in [0..Len(ts) -> Nat] : Sums(f, N, ts) /\ ReportedIn(N, ts) = f[Len(ts)]
<1> DEFINE n == Len(ts)
           g == [z \in Nat \X Nat |-> IF z[1] \in 1..n THEN z[2] + CostOf(N, ts[z[1]]) ELSE 0]
           G(f) == [i \in 0..n |->
                      IF i = 0 THEN 0
                      ELSE f[i - 1] + (IF ts[i].kind = "node" THEN N[ts[i].node].cost ELSE 0)]
           sum[i \in 0..n] ==
             IF i = 0 THEN 0
             ELSE sum[i - 1] + (IF ts[i].kind = "node" THEN N[ts[i].node].cost ELSE 0)
<1>1. n \in Nat
  BY DEF TurnsIn
<1>2. \A i \in 1..n : CostOf(N, ts[i]) \in Nat
  BY CostIsNatural
<1> HIDE DEF n
<1>3. g \in [Nat \X Nat -> Nat]
  BY <1>2
<1>4. PICK f \in [0..n -> Nat] : Follows(f, n, 0, g)
  <2> HIDE DEF g
  <2> QED
    BY <1>1, <1>3, RecursionWorks
<1>5. \A i \in 0..n : f[i] = IF i = 0 THEN 0 ELSE g[<<i, f[i - 1]>>]
  <2> HIDE DEF g
  <2>1. f = [i \in 0..n |-> IF i = 0 THEN 0 ELSE g[<<i, f[i - 1]>>]]
    BY <1>4, Zenon DEF Follows
  <2> QED
    BY <2>1
<1>6. \A i \in 0..n : i # 0 => g[<<i, f[i - 1]>>] = f[i - 1] + CostOf(N, ts[i])
  <2> SUFFICES ASSUME NEW i \in 0..n, i # 0
               PROVE  g[<<i, f[i - 1]>>] = f[i - 1] + CostOf(N, ts[i])
    OBVIOUS
  <2>1. i - 1 \in 0..n /\ i \in Nat /\ i \in 1..n
    BY <1>1
  <2>2. f[i - 1] \in Nat
    BY <2>1
  <2> QED
    BY <2>1, <2>2
<1> HIDE DEF g
<1>7. f = G(f)
  <2>1. \A i \in 0..n : f[i] = IF i = 0 THEN 0 ELSE f[i - 1] + CostOf(N, ts[i])
    BY <1>5, <1>6
  <2>2. f = [i \in 0..n |-> f[i]]
    OBVIOUS
  <2>3. f = [i \in 0..n |-> IF i = 0 THEN 0 ELSE f[i - 1] + CostOf(N, ts[i])]
    BY <2>1, <2>2
  <2> QED
    BY <2>3 DEF CostOf
<1>8. sum = CHOOSE u : u = G(u)
  BY DEF sum
<1>9. sum = G(sum)
  <2> HIDE DEF sum, G
  <2> QED
    BY <1>7, <1>8
<1>10. ReportedIn(N, ts) = sum[n]
  BY DEF ReportedIn, n
<1> HIDE DEF sum
<1>11. Sums(sum, N, ts) /\ Sums(f, N, ts)
  <2>1. \A i \in 0..n : sum[i] = IF i = 0 THEN 0 ELSE sum[i - 1] + CostOf(N, ts[i])
    BY <1>9 DEF CostOf
  <2>2. \A i \in 1..n : i \in 0..n /\ i # 0
    BY <1>1
  <2>3. 0 \in 0..n
    BY <1>1
  <2> QED
    BY <1>5, <1>6, <2>1, <2>2, <2>3 DEF Sums, n
<1>12. sum[n] = f[n]
  BY <1>1, <1>11, SumsAgree DEF n
<1> QED
  BY <1>1, <1>10, <1>11, <1>12 DEF n

LEMMA ReportedGrows ==
    ASSUME NEW N, NodesSound(N), NEW ts, TurnsIn(N, ts), NEW t \in TurnRows,
           t.kind = "node" => t.node \in DOMAIN N
    PROVE  /\ TurnsIn(N, Append(ts, t))
           /\ ReportedIn(N, ts) \in Nat
           /\ ReportedIn(N, Append(ts, t)) = ReportedIn(N, ts) + CostOf(N, t)
<1> DEFINE n == Len(ts)
           us == Append(ts, t)
<1>1. n \in Nat /\ us \in Seq(TurnRows) /\ Len(us) = n + 1 /\ us[n + 1] = t
      /\ \A i \in 1..n : us[i] = ts[i]
  BY DEF TurnsIn
<1>2. TurnsIn(N, us)
  <2>1. \A i \in DOMAIN us : i \in 1..n \/ i = n + 1
    BY <1>1
  <2>2. \A i \in 1..n : i \in DOMAIN ts
    BY DEF TurnsIn
  <2> HIDE DEF us, n
  <2> QED
    BY <1>1, <2>1, <2>2 DEF TurnsIn
<1> HIDE DEF us, n
<1>3. PICK f \in [0..n -> Nat] : Sums(f, N, ts) /\ ReportedIn(N, ts) = f[n]
  BY SumsExist DEF n
<1>4. PICK h \in [0..(n + 1) -> Nat] : Sums(h, N, us) /\ ReportedIn(N, us) = h[n + 1]
  BY <1>1, <1>2, SumsExist
<1>5. h[n + 1] = h[n] + CostOf(N, t)
  <2>1. n + 1 \in 1..Len(us) /\ (n + 1) - 1 = n
    BY <1>1
  <2> QED
    BY <1>1, <1>4, <2>1 DEF Sums
<1>6. Sums(h, N, ts)
  <2>1. \A i \in 1..n : i \in 1..Len(us) /\ us[i] = ts[i]
    BY <1>1
  <2> QED
    BY <1>4, <2>1 DEF Sums, n
<1>7. h[n] = f[n]
  BY <1>1, <1>3, <1>6, SumsAgree DEF n
<1>8. f[n] \in Nat
  BY <1>1
<1> QED
  BY <1>2, <1>3, <1>4, <1>5, <1>7, <1>8 DEF us

LEMMA ReportedFirst == ASSUME NEW N, NodesSound(N) PROVE ReportedIn(N, <<>>) = 0
<1>1. TurnsIn(N, <<>>)
  BY DEF TurnsIn
<1>2. PICK f \in [0..Len(<<>>) -> Nat] : Sums(f, N, <<>>) /\ ReportedIn(N, <<>>) = f[Len(<<>>)]
  BY <1>1, SumsExist
<1> QED
  BY <1>2 DEF Sums

-----------------------------------------------------------------------------
(* What stays true of the rows of the engine.                               *)

RevisionRows ==
    [nodes : UNION {[C -> Engine!PlanNode] : C \in SUBSET NodeCodes},
     deps : SUBSET (Engine!Codes \X Engine!Codes),
     requirements : SUBSET (Engine!Codes \X STRING),
     status : {"draft", "published", "retired"}, change : Nat]
RunRows ==
    [revision : Nat, status : Engine!Statuses, day : Int,
     states : UNION {[C -> Engine!StateStatuses] : C \in SUBSET NodeCodes},
     initial : Nat, remaining : Int, spent : Int,
     people : Nat, skills : SUBSET STRING, tired : BOOLEAN,
     turns : Seq(TurnRows), failures : Seq([node : Engine!Codes, type : Engine!FailureTypes])]
DriverRows == [pc : {"loop", "break", "pausing", "done"}, steps : Nat, limit : Nat \ {0}]
OperationRows ==
    [nodes : Seq([code : NodeCodes, node : Engine!PlanNode]),
     deps : SUBSET (Engine!Codes \X Engine!Codes),
     requirements : SUBSET (Engine!Codes \X STRING),
     durations : SUBSET (Engine!Codes \X Nat)]
ChangeRows ==
    [run : Nat, revision : Nat, status : {"draft", "applied", "rejected"}, applied : Nat,
     operations : OperationRows]
DeskRows == [run : Nat, remaining : Int, spent : Int, day : Int]

EndedStatuses == {"failed", "completed", "paused", "aborted"}
TurnsOf(x, kind) == {i \in DOMAIN x.turns : x.turns[i].kind = kind}

\* The states of the nodes of a run, against its revision.
Settled(x, N) == \A c \in DOMAIN N : N[c].status # "planned" => Over(x.states, c)
Earned(x, N) ==
    \A c \in DOMAIN N : N[c].kind # "stage" /\ x.states[c] = "completed" =>
        N[c].status = "completed" \/ \E j \in TurnsOf(x, "node") : x.turns[j].node = c
Leaves(x, N) ==
    \A i \in TurnsOf(x, "node") :
        LET c == x.turns[i].node IN c \in DOMAIN N /\ N[c].required /\ N[c].kind # "stage"
InOrderOf(x, N, D) ==
    \A i \in TurnsOf(x, "node") : \A d \in DOMAIN N : <<x.turns[i].node, d>> \in D =>
        \/ N[d].status = "completed"
        \/ \E j \in TurnsOf(x, "node") : j < i /\ x.turns[j].node = d
        \/ N[d].kind = "stage"
StagesBacked(x, N) ==
    \A p \in DOMAIN N : N[p].kind = "stage" /\ x.states[p] = "completed" =>
        \A d \in Required(N, p) : Over(x.states, d)
StagesClosed(x, N) ==
    \A i \in TurnsOf(x, "node") : LET p == N[x.turns[i].node].parent IN
        p \in DOMAIN N /\ (\A d \in Required(N, p) : Over(x.states, d))
            => x.states[p] = "completed"
Accounted(x, N) ==
    TurnsOf(x, "aborted") = {} =>
        /\ x.spent + x.remaining = x.initial
        /\ x.remaining >= 0
        /\ x.spent = ReportedIn(N, x.turns)

Story(x, N, D) ==
    /\ DOMAIN x.states = DOMAIN N
    /\ Settled(x, N) /\ Earned(x, N) /\ Leaves(x, N) /\ InOrderOf(x, N, D)
    /\ StagesBacked(x, N) /\ StagesClosed(x, N) /\ Accounted(x, N)

Driving(x, d) ==
    /\ d.steps > 0 => x.status # "draft"
    /\ d.pc \in {"break", "done"} => x.status \in EndedStatuses

\* A run has not failed, or it failed once and its driver is past the loop.
NotFailed(r, x, cs) ==
    /\ x.failures = <<>> /\ TurnsOf(x, "failed") = {} /\ x.status # "failed"
    /\ \A k \in DOMAIN cs : cs[k].run # r
FailedOnce(r, x, cs) ==
    /\ Len(x.failures) = 1
    /\ \E i \in DOMAIN x.turns : TurnsOf(x, "failed") = {i}
    /\ \E k \in DOMAIN cs : \A m \in DOMAIN cs : cs[m].run = r <=> m = k
    /\ x.failures[1].node \in DOMAIN x.states
    /\ x.states[x.failures[1].node] = "failed"
Failing(r, x, d, cs) ==
    NotFailed(r, x, cs) \/ (d.pc # "loop" /\ FailedOnce(r, x, cs))

\* A change set speaks of the revision its run ran; what it adds hangs under open stages.
Suits(o, N) ==
    \A i \in DOMAIN o.nodes : LET n == o.nodes[i].node IN
        /\ n.status = "planned"
        /\ n.parent # Engine!NoParent =>
             n.parent \in DOMAIN N /\ N[n.parent].kind = "stage" /\ N[n.parent].status # "completed"
ChangeSound(k, y, xs, vs) ==
    /\ y.run \in DOMAIN xs
    /\ y.revision \in DOMAIN vs /\ y.revision = xs[y.run].revision
    /\ DOMAIN vs[y.revision].nodes # {}
    /\ Suits(y.operations, vs[y.revision].nodes)
    /\ y.status = "applied" =>
         y.applied \in DOMAIN vs /\ y.applied # 1 /\ vs[y.applied].change = k
RevisionSound(v, z, cs) ==
    /\ NodesSound(z.nodes)
    /\ IF v = 1 THEN z.change = 0
       ELSE z.change \in DOMAIN cs /\ cs[z.change].status # "draft" /\ cs[z.change].applied = v
OneBaseline(vs) ==
    \E v \in DOMAIN vs : \A w \in DOMAIN vs : vs[w].status = "published" <=> w = v
RunSound(r, x, d, cs, vs) ==
    /\ x.revision \in DOMAIN vs
    /\ Story(x, vs[x.revision].nodes, vs[x.revision].deps)
    /\ Driving(x, d)
    /\ Failing(r, x, d, cs)

EngineRows ==
    /\ world \in Situations
    /\ planRevisions \in Seq(RevisionRows) /\ planRevisions # <<>>
    /\ planRuns \in Seq(RunRows)
    /\ drivers \in Seq(DriverRows) /\ Len(drivers) = Len(planRuns)
    /\ planChanges \in Seq(ChangeRows)
    /\ desk = Engine!Idle \/ (desk \in DeskRows /\ desk.run \in DOMAIN planRuns)

EngineInv ==
    /\ EngineRows
    /\ OneBaseline(planRevisions)
    /\ \A v \in DOMAIN planRevisions : RevisionSound(v, planRevisions[v], planChanges)
    /\ \A k \in DOMAIN planChanges : ChangeSound(k, planChanges[k], planRuns, planRevisions)
    /\ \A r \in DOMAIN planRuns :
         RunSound(r, planRuns[r], drivers[r], planChanges, planRevisions)

-----------------------------------------------------------------------------
(* Rows.                                                                    *)

LEMMA RunFields ==
    ASSUME NEW x \in RunRows
    PROVE  /\ x = [revision |-> x.revision, status |-> x.status, day |-> x.day,
                   states |-> x.states, initial |-> x.initial, remaining |-> x.remaining,
                   spent |-> x.spent, people |-> x.people, skills |-> x.skills,
                   tired |-> x.tired, turns |-> x.turns, failures |-> x.failures]
           /\ x.revision \in Nat /\ x.status \in Engine!Statuses /\ x.day \in Int
           /\ x.initial \in Nat /\ x.remaining \in Int /\ x.spent \in Int
           /\ x.people \in Nat /\ x.skills \in SUBSET STRING /\ x.tired \in BOOLEAN
           /\ x.turns \in Seq(TurnRows)
           /\ x.failures \in Seq([node : Engine!Codes, type : Engine!FailureTypes])
           /\ DOMAIN x.states \subseteq NodeCodes
           /\ x.states \in [DOMAIN x.states -> Engine!StateStatuses]
<1> DEFINE Maps == UNION {[C -> Engine!StateStatuses] : C \in SUBSET NodeCodes}
<1>1. x \in [revision : Nat, status : Engine!Statuses, day : Int, states : Maps,
             initial : Nat, remaining : Int, spent : Int,
             people : Nat, skills : SUBSET STRING, tired : BOOLEAN, turns : Seq(TurnRows),
             failures : Seq([node : Engine!Codes, type : Engine!FailureTypes])]
  BY DEF RunRows
<1>2. \A f \in Maps : DOMAIN f \subseteq NodeCodes /\ f \in [DOMAIN f -> Engine!StateStatuses]
  OBVIOUS
<1> HIDE DEF Maps
<1> QED
  BY <1>1, <1>2

LEMMA MakeRun ==
    ASSUME NEW x, NEW C \in SUBSET NodeCodes, x.states \in [C -> Engine!StateStatuses],
           x = [revision |-> x.revision, status |-> x.status, day |-> x.day,
                states |-> x.states, initial |-> x.initial, remaining |-> x.remaining,
                spent |-> x.spent, people |-> x.people, skills |-> x.skills,
                tired |-> x.tired, turns |-> x.turns, failures |-> x.failures],
           x.revision \in Nat, x.status \in Engine!Statuses, x.day \in Int,
           x.initial \in Nat, x.remaining \in Int, x.spent \in Int,
           x.people \in Nat, x.skills \in SUBSET STRING, x.tired \in BOOLEAN,
           x.turns \in Seq(TurnRows),
           x.failures \in Seq([node : Engine!Codes, type : Engine!FailureTypes])
    PROVE  x \in RunRows
<1> DEFINE Maps == UNION {[B -> Engine!StateStatuses] : B \in SUBSET NodeCodes}
<1>1. x.states \in Maps
  OBVIOUS
<1> HIDE DEF Maps
<1>2. x \in [revision : Nat, status : Engine!Statuses, day : Int, states : Maps,
             initial : Nat, remaining : Int, spent : Int,
             people : Nat, skills : SUBSET STRING, tired : BOOLEAN, turns : Seq(TurnRows),
             failures : Seq([node : Engine!Codes, type : Engine!FailureTypes])]
  BY <1>1
<1> QED
  BY <1>2 DEF RunRows, Maps

\* What a step at one run has to keep.
LEMMA RunStep ==
    ASSUME EngineInv, NEW r \in DOMAIN planRuns, NEW y \in RunRows, NEW d \in DriverRows,
           UNCHANGED <<world, planRevisions>>,
           planRuns' = [planRuns EXCEPT ![r] = y],
           drivers' = [drivers EXCEPT ![r] = d],
           y.revision = planRuns[r].revision,
           RunSound(r, y, d, planChanges', planRevisions),
           \/ planChanges' = planChanges
           \/ \E z \in ChangeRows :
                /\ planChanges' = Append(planChanges, z)
                /\ z.run = r /\ z.status = "draft"
                /\ ChangeSound(Len(planChanges) + 1, z, planRuns, planRevisions),
           \/ desk' = Engine!Idle \/ desk' = desk
           \/ desk' \in DeskRows /\ desk'.run \in DOMAIN planRuns
    PROVE  EngineInv'
<1>1. /\ planRuns' \in Seq(RunRows) /\ DOMAIN planRuns' = DOMAIN planRuns
      /\ Len(planRuns') = Len(planRuns) /\ planRuns'[r] = y
      /\ \A q \in DOMAIN planRuns : q # r => planRuns'[q] = planRuns[q]
  BY DEF EngineInv, EngineRows
<1>2. /\ drivers' \in Seq(DriverRows) /\ Len(drivers') = Len(drivers) /\ drivers'[r] = d
      /\ DOMAIN drivers = DOMAIN planRuns
      /\ \A q \in DOMAIN planRuns : q # r => drivers'[q] = drivers[q]
  BY DEF EngineInv, EngineRows
<1>3. /\ planChanges' \in Seq(ChangeRows) /\ DOMAIN planChanges \subseteq DOMAIN planChanges'
      /\ \A k \in DOMAIN planChanges : planChanges'[k] = planChanges[k]
      /\ \A k \in DOMAIN planChanges' \ DOMAIN planChanges :
            /\ planChanges'[k].run = r
            /\ ChangeSound(k, planChanges'[k], planRuns, planRevisions)
  <2>1. CASE planChanges' = planChanges
    BY <2>1 DEF EngineInv, EngineRows
  <2>2. CASE planChanges' # planChanges
    <3>1. PICK z \in ChangeRows :
            /\ planChanges' = Append(planChanges, z)
            /\ z.run = r
            /\ ChangeSound(Len(planChanges) + 1, z, planRuns, planRevisions)
      BY <2>2
    <3>2. planChanges \in Seq(ChangeRows)
      BY DEF EngineInv, EngineRows
    <3>3. /\ planChanges' \in Seq(ChangeRows)
          /\ DOMAIN planChanges = 1..Len(planChanges) /\ Len(planChanges) \in Nat
          /\ DOMAIN planChanges' = 1..(Len(planChanges) + 1)
          /\ planChanges'[Len(planChanges) + 1] = z
          /\ \A k \in DOMAIN planChanges : planChanges'[k] = planChanges[k]
      BY <3>1, <3>2
    <3>4. \A k \in DOMAIN planChanges' \ DOMAIN planChanges : k = Len(planChanges) + 1
      BY <3>3
    <3>5. DOMAIN planChanges \subseteq DOMAIN planChanges'
      BY <3>3
    <3> QED
      BY <3>1, <3>3, <3>4, <3>5
  <2> QED
    BY <2>1, <2>2
<1>4. EngineRows'
  BY <1>1, <1>2, <1>3 DEF EngineInv, EngineRows
<1>5. OneBaseline(planRevisions)'
  BY DEF EngineInv, OneBaseline
<1>6. \A v \in DOMAIN planRevisions : RevisionSound(v, planRevisions[v], planChanges')
  BY <1>3 DEF EngineInv, RevisionSound
<1>7. \A k \in DOMAIN planChanges' : ChangeSound(k, planChanges'[k], planRuns', planRevisions)
  <2> SUFFICES ASSUME NEW k \in DOMAIN planChanges'
               PROVE  ChangeSound(k, planChanges'[k], planRuns', planRevisions)
    OBVIOUS
  <2>1. ChangeSound(k, planChanges'[k], planRuns, planRevisions)
    BY <1>3 DEF EngineInv
  <2>2. \A q \in DOMAIN planRuns : planRuns'[q].revision = planRuns[q].revision
    BY <1>1
  <2> QED
    BY <1>1, <2>1, <2>2 DEF ChangeSound
<1>8. \A q \in DOMAIN planRuns' : RunSound(q, planRuns'[q], drivers'[q], planChanges', planRevisions)
  <2> SUFFICES ASSUME NEW q \in DOMAIN planRuns, q # r
               PROVE  RunSound(q, planRuns[q], drivers[q], planChanges', planRevisions)
    BY <1>1, <1>2
  <2>1. RunSound(q, planRuns[q], drivers[q], planChanges, planRevisions)
    BY DEF EngineInv
  <2>2. NotFailed(q, planRuns[q], planChanges) => NotFailed(q, planRuns[q], planChanges')
    BY <1>3 DEF NotFailed
  <2>3. FailedOnce(q, planRuns[q], planChanges) => FailedOnce(q, planRuns[q], planChanges')
    <3> SUFFICES ASSUME NEW k \in DOMAIN planChanges,
                        \A m \in DOMAIN planChanges : planChanges[m].run = q <=> m = k
                 PROVE  \E kk \in DOMAIN planChanges' :
                          \A m \in DOMAIN planChanges' : planChanges'[m].run = q <=> m = kk
      BY DEF FailedOnce
    <3> QED
      BY <1>3
  <2> QED
    BY <2>1, <2>2, <2>3 DEF RunSound, Failing
<1> QED
  BY <1>4, <1>5, <1>6, <1>7, <1>8 DEF EngineInv

-----------------------------------------------------------------------------
(* Steps that complete no node.                                             *)

LEMMA TurnAdded ==
    ASSUME NEW ts \in Seq(TurnRows), NEW t \in TurnRows
    PROVE  /\ Append(ts, t) \in Seq(TurnRows)
           /\ Len(ts) \in Nat /\ DOMAIN ts = 1..Len(ts) /\ DOMAIN Append(ts, t) = 1..(Len(ts) + 1)
           /\ DOMAIN ts \subseteq DOMAIN Append(ts, t)
           /\ Len(ts) + 1 \in DOMAIN Append(ts, t) /\ Len(ts) + 1 \notin DOMAIN ts
           /\ Append(ts, t)[Len(ts) + 1] = t
           /\ \A i \in DOMAIN ts : Append(ts, t)[i] = ts[i] /\ i < Len(ts) + 1
           /\ \A i \in DOMAIN Append(ts, t) : i \in DOMAIN ts \/ i = Len(ts) + 1
OBVIOUS

Adds(x, y, t) ==
    x.turns \in Seq(TurnRows) /\ t \in TurnRows /\ y.turns = Append(x.turns, t)

LEMMA TurnsAdded ==
    ASSUME NEW x, NEW y, NEW t, Adds(x, y, t), NEW kind
    PROVE  /\ t.kind = kind => TurnsOf(y, kind) = TurnsOf(x, kind) \cup {Len(x.turns) + 1}
           /\ t.kind # kind => TurnsOf(y, kind) = TurnsOf(x, kind)
BY TurnAdded DEF TurnsOf, Adds

LEMMA StoryTurns ==
    ASSUME NEW N, NEW D, NEW x \in RunRows, Story(x, N, D)
    PROVE  TurnsIn(N, x.turns)
BY RunFields DEF Story, Leaves, TurnsOf, TurnsIn

\* A turn that reports no node goes with states in which the same nodes are done.
LEMMA QuietStory ==
    ASSUME NEW N, NodesSound(N), NEW D, NEW x \in RunRows, Story(x, N, D), NEW y \in RunRows,
           NEW t \in TurnRows, t.kind # "node", y.turns = Append(x.turns, t),
           DOMAIN y.states = DOMAIN x.states,
           \A q \in DOMAIN N : /\ Over(y.states, q) <=> Over(x.states, q)
                               /\ y.states[q] = "completed" <=> x.states[q] = "completed",
           \/ t.kind = "aborted"
           \/ y.spent = x.spent /\ y.remaining = x.remaining /\ y.initial = x.initial
    PROVE  Story(y, N, D)
<1>1. x.turns \in Seq(TurnRows)
  BY RunFields
<1>2. Adds(x, y, t) /\ TurnsOf(y, "node") = TurnsOf(x, "node")
  <2>1. Adds(x, y, t)
    BY <1>1 DEF Adds
  <2> QED
    BY <2>1, TurnsAdded
<1>3. \A i \in TurnsOf(x, "node") : y.turns[i] = x.turns[i]
  BY <1>1, TurnAdded DEF TurnsOf
<1>4. DOMAIN y.states = DOMAIN N /\ Settled(y, N) /\ Earned(y, N) /\ Leaves(y, N)
  <2>1. DOMAIN y.states = DOMAIN N /\ Settled(y, N)
    BY DEF Story, Settled
  <2>2. Earned(y, N)
    <3>1. Earned(x, N)
      BY DEF Story
    <3> SUFFICES ASSUME NEW c \in DOMAIN N, N[c].kind # "stage", y.states[c] = "completed",
                        N[c].status # "completed"
                 PROVE  \E j \in TurnsOf(y, "node") : y.turns[j].node = c
      BY DEF Earned
    <3>2. PICK j \in TurnsOf(x, "node") : x.turns[j].node = c
      BY <3>1 DEF Earned
    <3> QED
      BY <1>2, <1>3, <3>2
  <2>3. Leaves(y, N)
    <3>1. \A i \in TurnsOf(x, "node") :
            x.turns[i].node \in DOMAIN N /\ N[x.turns[i].node].required
              /\ N[x.turns[i].node].kind # "stage"
      BY DEF Story, Leaves
    <3>2. \A i \in TurnsOf(y, "node") : i \in TurnsOf(x, "node") /\ y.turns[i] = x.turns[i]
      BY <1>2, <1>3
    <3> QED
      BY <3>1, <3>2, Zenon DEF Leaves
  <2> QED
    BY <2>1, <2>2, <2>3
<1>5. InOrderOf(y, N, D)
  <2> SUFFICES ASSUME NEW i \in TurnsOf(y, "node"), NEW d \in DOMAIN N,
                      <<y.turns[i].node, d>> \in D,
                      N[d].status # "completed", N[d].kind # "stage"
               PROVE  \E j \in TurnsOf(y, "node") : j < i /\ y.turns[j].node = d
    BY DEF InOrderOf
  <2>1. i \in TurnsOf(x, "node") /\ y.turns[i] = x.turns[i]
    BY <1>2, <1>3
  <2>2. PICK j \in TurnsOf(x, "node") : j < i /\ x.turns[j].node = d
    BY <2>1 DEF Story, InOrderOf
  <2> QED
    BY <1>2, <1>3, <2>2
<1>6. StagesBacked(y, N)
  BY DEF Story, StagesBacked, Required
<1>7. StagesClosed(y, N)
  <2> SUFFICES ASSUME NEW i \in TurnsOf(y, "node"),
                      N[y.turns[i].node].parent \in DOMAIN N,
                      \A d \in Required(N, N[y.turns[i].node].parent) : Over(y.states, d)
               PROVE  y.states[N[y.turns[i].node].parent] = "completed"
    BY DEF StagesClosed
  <2>1. i \in TurnsOf(x, "node") /\ y.turns[i] = x.turns[i]
    BY <1>2, <1>3
  <2>2. \A d \in Required(N, N[x.turns[i].node].parent) : Over(x.states, d)
    BY <2>1 DEF Required
  <2> QED
    BY <2>1, <2>2 DEF Story, StagesClosed
<1>8. Accounted(y, N)
  <2> SUFFICES ASSUME TurnsOf(y, "aborted") = {} PROVE Accounted(y, N)
    BY DEF Accounted
  <2>1. TurnsOf(x, "aborted") = {} /\ t.kind # "aborted"
    <3>1. CASE t.kind = "aborted"
      <4>1. TurnsOf(y, "aborted") = TurnsOf(x, "aborted") \cup {Len(x.turns) + 1}
        BY <1>2, <3>1, TurnsAdded
      <4> QED
        BY <4>1
    <3>2. CASE t.kind # "aborted"
      BY <1>2, <3>2, TurnsAdded
    <3> QED
      BY <3>1, <3>2
  <2>2. ReportedIn(N, y.turns) = ReportedIn(N, x.turns)
    <3>1. ReportedIn(N, Append(x.turns, t)) = ReportedIn(N, x.turns) + CostOf(N, t)
          /\ ReportedIn(N, x.turns) \in Nat
      BY StoryTurns, ReportedGrows
    <3>2. CostOf(N, t) = 0
      BY DEF CostOf
    <3> QED
      BY <3>1, <3>2
  <2> QED
    BY <2>1, <2>2 DEF Story, Accounted
<1> QED
  BY <1>4, <1>5, <1>6, <1>7, <1>8 DEF Story

LEMMA QuietFailing ==
    ASSUME NEW r, NEW x \in RunRows, NEW y \in RunRows, NEW d, NEW e, NEW cs,
           Failing(r, x, d, cs), NEW t \in TurnRows, t.kind # "failed",
           y.turns = Append(x.turns, t), y.states = x.states, y.failures = x.failures,
           y.status # "failed", d.pc # "loop" => e.pc # "loop"
    PROVE  Failing(r, y, e, cs)
<1>1. x.turns \in Seq(TurnRows)
  BY RunFields
<1>2. TurnsOf(y, "failed") = TurnsOf(x, "failed")
  <2>1. Adds(x, y, t)
    BY <1>1 DEF Adds
  <2> QED
    BY <2>1, TurnsAdded
<1>3. DOMAIN x.turns \subseteq DOMAIN y.turns
  BY <1>1, TurnAdded
<1> QED
  BY <1>2, <1>3 DEF Failing, NotFailed, FailedOnce

LEMMA EngineRowFields ==
    ASSUME EngineInv, NEW r \in DOMAIN planRuns
    PROVE  /\ planRuns[r] \in RunRows /\ drivers[r] \in DriverRows
           /\ r \in Nat /\ r # 0
           /\ planRuns[r].revision \in DOMAIN planRevisions
           /\ RunSound(r, planRuns[r], drivers[r], planChanges, planRevisions)
           /\ NodesSound(planRevisions[planRuns[r].revision].nodes)
           /\ planRevisions' = planRevisions => planRevisions'[planRuns[r].revision]
                                                  = planRevisions[planRuns[r].revision]
<1>1. r \in 1..Len(planRuns) /\ r \in 1..Len(drivers)
  BY DEF EngineInv, EngineRows
<1>2. RunSound(r, planRuns[r], drivers[r], planChanges, planRevisions)
  BY DEF EngineInv
<1>3. planRuns[r].revision \in DOMAIN planRevisions
  BY <1>2 DEF RunSound
<1>4. NodesSound(planRevisions[planRuns[r].revision].nodes)
  BY <1>3 DEF EngineInv, RevisionSound
<1> QED
  BY <1>1, <1>2, <1>3, <1>4 DEF EngineInv, EngineRows

LEMMA DriverFields ==
    ASSUME NEW d \in DriverRows
    PROVE  /\ d = [pc |-> d.pc, steps |-> d.steps, limit |-> d.limit]
           /\ d.pc \in {"loop", "break", "pausing", "done"}
           /\ d.steps \in Nat /\ d.limit \in Nat /\ d.limit > 0
BY DEF DriverRows

\* A turn without a node, that changes the status of its run.
StatusTurn(x, y, t) ==
    /\ y.states = x.states /\ y.failures = x.failures /\ y.turns = Append(x.turns, t)
    /\ y.initial = x.initial /\ y.revision = x.revision
    /\ y.status \in EndedStatuses \ {"failed"}
    /\ t \in TurnRows /\ t.kind \notin {"node", "failed"}
    /\ t.kind = "aborted" \/ (y.spent = x.spent /\ y.remaining = x.remaining)

LEMMA StatusStep ==
    ASSUME EngineInv, NEW r \in DOMAIN planRuns, NEW y \in RunRows, NEW t,
           StatusTurn(planRuns[r], y, t),
           NEW d \in DriverRows, drivers[r].pc # "loop" => d.pc # "loop",
           UNCHANGED <<world, planRevisions, planChanges>>,
           planRuns' = [planRuns EXCEPT ![r] = y],
           drivers' = [drivers EXCEPT ![r] = d],
           \/ desk' = Engine!Idle \/ desk' = desk
           \/ desk' \in DeskRows /\ desk'.run \in DOMAIN planRuns
    PROVE  EngineInv'
<1> DEFINE x == planRuns[r]
           V == planRevisions[x.revision]
<1>1. x \in RunRows /\ RunSound(r, x, drivers[r], planChanges, planRevisions) /\ NodesSound(V.nodes)
  BY EngineRowFields
<1>2. Story(y, V.nodes, V.deps)
  <2>1. Story(x, V.nodes, V.deps)
    BY <1>1 DEF RunSound
  <2> HIDE DEF x, V
  <2> QED
    BY <1>1, <2>1, QuietStory DEF StatusTurn, x
<1>3. Driving(y, d)
  BY DEF Driving, StatusTurn, EndedStatuses
<1>4. Failing(r, y, d, planChanges)
  <2>1. Failing(r, x, drivers[r], planChanges)
    BY <1>1 DEF RunSound
  <2> HIDE DEF x
  <2>2. y.status # "failed"
    BY DEF StatusTurn
  <2> QED
    BY <1>1, <2>1, <2>2, QuietFailing DEF StatusTurn, x
<1>5. RunSound(r, y, d, planChanges', planRevisions)
  BY <1>1, <1>2, <1>3, <1>4 DEF RunSound, StatusTurn
<1>6. y.revision = planRuns[r].revision
  BY DEF StatusTurn
<1> QED
  BY <1>5, <1>6, RunStep

\* The row after such a turn.
Marked(x, s, t) == [x EXCEPT !.status = s, !.turns = Append(x.turns, t)]
Restored(x, s, rem, sp, t) ==
    [x EXCEPT !.status = s, !.remaining = rem, !.spent = sp, !.turns = Append(x.turns, t)]

LEMMA MarkedRow ==
    ASSUME NEW x \in RunRows, NEW s \in EndedStatuses \ {"failed"},
           NEW t \in TurnRows, t.kind \notin {"node", "failed"}
    PROVE  /\ Marked(x, s, t) \in RunRows /\ StatusTurn(x, Marked(x, s, t), t)
           /\ \A rem, sp \in Int : t.kind = "aborted" =>
                 /\ Restored(x, s, rem, sp, t) \in RunRows
                 /\ StatusTurn(x, Restored(x, s, rem, sp, t), t)
<1> DEFINE Maps == UNION {[C -> Engine!StateStatuses] : C \in SUBSET NodeCodes}
           Ts == Seq(TurnRows)
           Fs == Seq([node : Engine!Codes, type : Engine!FailureTypes])
           Ss == Engine!Statuses
           Ks == SUBSET STRING
           us == Append(x.turns, t)
           Columns == [revision : Nat, status : Ss, day : Int, states : Maps, initial : Nat,
                       remaining : Int, spent : Int, people : Nat, skills : Ks,
                       tired : BOOLEAN, turns : Ts, failures : Fs]
<1>1. s \in Ss
  BY DEF EndedStatuses, Engine!Statuses
<1>2. us \in Ts
  BY RunFields
<1>3. Columns = RunRows
  BY DEF RunRows
<1>4. x \in Columns
  BY <1>3
<1> HIDE DEF Maps, Ts, Fs, Ss, Ks, us
<1> DEFINE y == [x EXCEPT !.status = s, !.turns = us]
<1>5. /\ y \in Columns
      /\ y.states = x.states /\ y.failures = x.failures /\ y.turns = us
      /\ y.initial = x.initial /\ y.revision = x.revision /\ y.status = s
      /\ y.spent = x.spent /\ y.remaining = x.remaining
  BY <1>1, <1>2, <1>4
<1>6. Marked(x, s, t) = y
  BY DEF Marked, us
<1> HIDE DEF y, Columns
<1>7. Marked(x, s, t) \in RunRows /\ StatusTurn(x, Marked(x, s, t), t)
  BY <1>3, <1>5, <1>6 DEF StatusTurn, us
<1>8. ASSUME NEW rem \in Int, NEW sp \in Int, t.kind = "aborted"
      PROVE  /\ Restored(x, s, rem, sp, t) \in RunRows
             /\ StatusTurn(x, Restored(x, s, rem, sp, t), t)
  <2> DEFINE z == [x EXCEPT !.status = s, !.remaining = rem, !.spent = sp, !.turns = us]
  <2>1. /\ z \in Columns
        /\ z.states = x.states /\ z.failures = x.failures /\ z.turns = us
        /\ z.initial = x.initial /\ z.revision = x.revision /\ z.status = s
    BY <1>1, <1>2, <1>4 DEF Columns
  <2>2. Restored(x, s, rem, sp, t) = z
    BY DEF Restored, us
  <2> HIDE DEF z
  <2> QED
    BY <1>3, <1>8, <2>1, <2>2 DEF StatusTurn, us
<1> QED
  BY <1>7, <1>8

LEMMA TurnIs ==
    ASSUME NEW kind \in TurnKinds, NEW c \in Engine!Codes \cup {<<>>}, NEW day \in Int
    PROVE  /\ Engine!Turn(kind, c, day) \in TurnRows
           /\ Engine!Turn(kind, c, day).kind = kind /\ Engine!Turn(kind, c, day).node = c
BY DEF Engine!Turn, TurnRows

LEMMA EmptyTurn ==
    ASSUME NEW kind \in TurnKinds, NEW day \in Int
    PROVE  Engine!Turn(kind, <<>>, day) \in TurnRows /\ Engine!Turn(kind, <<>>, day).kind = kind
<1>1. <<>> \in Engine!Codes \cup {<<>>}
  OBVIOUS
<1> QED
  BY <1>1, TurnIs

LEMMA TurnKindsAre == {"completed", "paused", "aborted"} \subseteq TurnKinds
BY DEF TurnKinds

LEMMA DriverMoves ==
    ASSUME EngineInv, NEW r \in DOMAIN planRuns
    PROVE  /\ Engine!LastStep(r) =>
                \E d \in DriverRows : drivers' = [drivers EXCEPT ![r] = d] /\ d.pc = "break"
           /\ Engine!CountStep(r) =>
                \E d \in DriverRows : drivers' = [drivers EXCEPT ![r] = d] /\ d.pc = drivers[r].pc
<1> DEFINE e == drivers[r]
           n == e.steps + 1
           d == [e EXCEPT !.steps = n, !.pc = "break"]
           c == [e EXCEPT !.steps = n]
<1>1. e \in DriverRows
  BY EngineRowFields
<1>2. Engine!LastStep(r) => drivers' = [drivers EXCEPT ![r] = d]
  BY DEF Engine!LastStep
<1>3. Engine!CountStep(r) => drivers' = [drivers EXCEPT ![r] = c]
  BY DEF Engine!CountStep
<1> HIDE DEF e
<1>4. n \in Nat
  BY <1>1, DriverFields
<1> HIDE DEF n
<1>5. d \in DriverRows /\ d.pc = "break"
  BY <1>1, <1>4 DEF DriverRows
<1>6. c \in DriverRows /\ c.pc = e.pc
  BY <1>1, <1>4 DEF DriverRows
<1> HIDE DEF d, c
<1> QED
  BY <1>2, <1>3, <1>5, <1>6 DEF e, n

LEMMA CompleteRunStep ==
    ASSUME EngineInv, NEW r \in DOMAIN planRuns, Engine!CompleteRun(r)
    PROVE  EngineInv'
<1> DEFINE x == planRuns[r]
           t == Engine!Turn("completed", <<>>, x.day)
           y == Marked(x, "completed", t)
<1>1. x \in RunRows
  BY EngineRowFields
<1>2. t \in TurnRows /\ t.kind = "completed"
  <2>1. x.day \in Int /\ "completed" \in TurnKinds
    BY <1>1, RunFields, TurnKindsAre
  <2> QED
    BY <2>1, EmptyTurn
<1>3. y \in RunRows /\ StatusTurn(x, y, t)
  <2> HIDE DEF t, x
  <2>1. "completed" \in EndedStatuses \ {"failed"}
    BY DEF EndedStatuses
  <2> QED
    BY <1>1, <1>2, <2>1, MarkedRow
<1>4. PICK d \in DriverRows : drivers' = [drivers EXCEPT ![r] = d] /\ d.pc = "break"
  BY DriverMoves DEF Engine!CompleteRun
<1>5. planRuns' = [planRuns EXCEPT ![r] = y]
  BY DEF Engine!CompleteRun, Marked
<1>6. UNCHANGED <<world, planRevisions, planChanges, desk>>
  BY DEF Engine!CompleteRun
<1> HIDE DEF y, t
<1> QED
  BY <1>3, <1>4, <1>5, <1>6, StatusStep

LEMMA PauseRunStep ==
    ASSUME EngineInv, NEW r \in DOMAIN planRuns, Engine!PauseRun(r)
    PROVE  EngineInv'
<1> DEFINE x == planRuns[r]
           t == Engine!Turn("paused", <<>>, x.day)
           y == Marked(x, "paused", t)
           d == [pc |-> "done", steps |-> drivers[r].steps, limit |-> drivers[r].limit]
<1>1. x \in RunRows /\ drivers[r] \in DriverRows
  BY EngineRowFields
<1>2. t \in TurnRows /\ t.kind = "paused"
  <2>1. x.day \in Int /\ "paused" \in TurnKinds
    BY <1>1, RunFields, TurnKindsAre
  <2> QED
    BY <2>1, EmptyTurn
<1>3. y \in RunRows /\ StatusTurn(x, y, t)
  <2> HIDE DEF t, x
  <2>1. "paused" \in EndedStatuses \ {"failed"}
    BY DEF EndedStatuses
  <2> QED
    BY <1>1, <1>2, <2>1, MarkedRow
<1>4. d \in DriverRows
  BY <1>1 DEF DriverRows
<1>5. planRuns' = [planRuns EXCEPT ![r] = y]
  <2>1. planRuns' = [planRuns EXCEPT ![r] = [x EXCEPT !.status = "paused",
                                                      !.turns = Append(x.turns, t)]]
    BY DEF Engine!PauseRun
  <2>2. [x EXCEPT !.status = "paused", !.turns = Append(x.turns, t)] = y
    BY DEF Marked
  <2> QED
    BY <2>1, <2>2
<1>6. drivers' = [drivers EXCEPT ![r] = d]
  <2>1. drivers' = [drivers EXCEPT ![r] = [drivers[r] EXCEPT !.pc = "done"]]
    BY DEF Engine!PauseRun
  <2>2. [drivers[r] EXCEPT !.pc = "done"] = d
    BY <1>1, DriverFields
  <2> QED
    BY <2>1, <2>2
<1>7. UNCHANGED <<world, planRevisions, planChanges, desk>>
  BY DEF Engine!PauseRun
<1>8. d.pc # "loop"
  OBVIOUS
<1> HIDE DEF y, d, t
<1> QED
  BY <1>3, <1>4, <1>5, <1>6, <1>7, <1>8, StatusStep

LEMMA AbortRunStep ==
    ASSUME EngineInv, Engine!AbortRun
    PROVE  EngineInv'
<1> DEFINE r == desk.run
           x == planRuns[r]
           t == Engine!Turn("aborted", <<>>, desk.day)
           y == Restored(x, "aborted", desk.remaining, desk.spent, t)
<1>1. desk \in DeskRows /\ r \in DOMAIN planRuns
  BY DEF EngineInv, EngineRows, Engine!AbortRun
<1>2. x \in RunRows /\ drivers[r] \in DriverRows
  BY <1>1, EngineRowFields
<1>3. desk.remaining \in Int /\ desk.spent \in Int /\ desk.day \in Int
  BY <1>1 DEF DeskRows
<1>4. t \in TurnRows /\ t.kind = "aborted"
  <2>1. "aborted" \in TurnKinds
    BY TurnKindsAre
  <2> QED
    BY <1>3, <2>1, EmptyTurn
<1>5. y \in RunRows /\ StatusTurn(x, y, t)
  <2> HIDE DEF t, x
  <2>1. "aborted" \in EndedStatuses \ {"failed"}
    BY DEF EndedStatuses
  <2> QED
    BY <1>2, <1>3, <1>4, <2>1, MarkedRow
<1>6. planRuns' = [planRuns EXCEPT ![r] = y]
  <2>1. planRuns' = [planRuns EXCEPT ![r] = [x EXCEPT !.status = "aborted",
                                                      !.remaining = desk.remaining,
                                                      !.spent = desk.spent,
                                                      !.turns = Append(x.turns, t)]]
    BY DEF Engine!AbortRun
  <2>2. [x EXCEPT !.status = "aborted", !.remaining = desk.remaining, !.spent = desk.spent,
                  !.turns = Append(x.turns, t)] = y
    BY DEF Restored
  <2> QED
    BY <2>1, <2>2
<1>7. drivers' = [drivers EXCEPT ![r] = drivers[r]]
  <2>1. drivers' = drivers
    BY DEF Engine!AbortRun
  <2>2. drivers = [drivers EXCEPT ![r] = drivers[r]]
    BY DEF EngineInv, EngineRows
  <2> QED
    BY <2>1, <2>2
<1>8. UNCHANGED <<world, planRevisions, planChanges>> /\ desk' = Engine!Idle
  BY DEF Engine!AbortRun
<1> HIDE DEF y, t, r
<1> QED
  BY <1>1, <1>2, <1>5, <1>6, <1>7, <1>8, StatusStep

\* A step that touches no run.
LEMMA SameRun ==
    ASSUME EngineInv, NEW r \in DOMAIN planRuns, NEW d \in DriverRows,
           Driving(planRuns[r], d), drivers[r].pc # "loop" => d.pc # "loop",
           UNCHANGED <<world, planRevisions, planRuns, planChanges>>,
           drivers' = [drivers EXCEPT ![r] = d],
           \/ desk' = desk
           \/ desk' \in DeskRows /\ desk'.run \in DOMAIN planRuns
    PROVE  EngineInv'
<1> DEFINE x == planRuns[r]
<1>1. x \in RunRows /\ RunSound(r, x, drivers[r], planChanges, planRevisions)
  BY EngineRowFields
<1>2. RunSound(r, x, d, planChanges', planRevisions)
  BY <1>1 DEF RunSound, Failing
<1>3. planRuns' = [planRuns EXCEPT ![r] = x]
  BY DEF EngineInv, EngineRows
<1> HIDE DEF x
<1>4. x.revision = planRuns[r].revision
  BY DEF x
<1> QED
  BY <1>1, <1>2, <1>3, <1>4, RunStep

LEMMA LeaveLoopStep ==
    ASSUME EngineInv, NEW r \in DOMAIN planRuns, Engine!LeaveLoop(r)
    PROVE  EngineInv'
<1> DEFINE x == planRuns[r]
           d == [pc |-> IF drivers[r].steps >= drivers[r].limit /\ x.status = "running"
                        THEN "pausing" ELSE "done",
                 steps |-> drivers[r].steps, limit |-> drivers[r].limit]
<1>1. x \in RunRows /\ drivers[r] \in DriverRows /\ Driving(x, drivers[r])
  BY EngineRowFields DEF RunSound
<1>2. d \in DriverRows
  BY <1>1 DEF DriverRows
<1>3. drivers' = [drivers EXCEPT ![r] = d]
  <2>1. drivers' = [drivers EXCEPT ![r] =
          [drivers[r] EXCEPT !.pc = IF drivers[r].steps >= drivers[r].limit /\ x.status = "running"
                                    THEN "pausing" ELSE "done"]]
    BY DEF Engine!LeaveLoop
  <2>2. [drivers[r] EXCEPT !.pc = IF drivers[r].steps >= drivers[r].limit /\ x.status = "running"
                                  THEN "pausing" ELSE "done"] = d
    BY <1>1, DriverFields
  <2> QED
    BY <2>1, <2>2
<1>4. UNCHANGED <<world, planRevisions, planRuns, planChanges, desk>>
  BY DEF Engine!LeaveLoop
<1>5. Driving(x, d)
  <2>1. x.status \in Engine!Statuses
    BY <1>1, RunFields
  <2>2. drivers[r].steps \in Nat /\ drivers[r].limit \in Nat /\ drivers[r].limit > 0
    BY <1>1, DriverFields
  <2>3. d.pc = "done" => x.status \in EndedStatuses
    <3>1. CASE drivers[r].pc = "break"
      BY <1>1, <3>1 DEF Driving
    <3>2. CASE drivers[r].pc = "loop" /\ x.status \in {"failed", "completed", "paused"}
      BY <3>2 DEF EndedStatuses
    <3>3. CASE drivers[r].pc = "loop" /\ drivers[r].steps >= drivers[r].limit
      <4>1. x.status # "draft"
        BY <1>1, <2>2, <3>3 DEF Driving
      <4> QED
        BY <2>1, <3>3, <4>1 DEF Engine!Statuses, EndedStatuses
    <3> QED
      BY <3>1, <3>2, <3>3 DEF Engine!LeaveLoop
  <2> QED
    BY <1>1, <2>3 DEF Driving
<1>6. d.pc # "loop"
  OBVIOUS
<1> HIDE DEF d
<1> QED
  BY <1>2, <1>3, <1>4, <1>5, <1>6, SameRun

LEMMA BeginAbortStep ==
    ASSUME EngineInv, NEW r \in DOMAIN planRuns, Engine!BeginAbort(r)
    PROVE  EngineInv'
<1>1. planRuns[r] \in RunRows /\ drivers[r] \in DriverRows /\ Driving(planRuns[r], drivers[r])
      /\ r \in Nat
  BY EngineRowFields DEF RunSound
<1>2. UNCHANGED <<world, planRevisions, planRuns, drivers, planChanges>>
  BY DEF Engine!BeginAbort
<1>3. desk' \in DeskRows /\ desk'.run \in DOMAIN planRuns
  <2>1. planRuns[r].remaining \in Int /\ planRuns[r].spent \in Int /\ planRuns[r].day \in Int
    BY <1>1, RunFields
  <2> QED
    BY <1>1, <2>1 DEF Engine!BeginAbort, DeskRows
<1>4. drivers' = [drivers EXCEPT ![r] = drivers[r]]
  BY <1>2 DEF EngineInv, EngineRows
<1> QED
  BY <1>1, <1>2, <1>3, <1>4, SameRun

LEMMA ChangeWorldStep ==
    ASSUME EngineInv, Engine!ChangeWorld
    PROVE  EngineInv'
<1>1. world' \in Situations /\ UNCHANGED <<planRevisions, planRuns, drivers, planChanges, desk>>
  BY DEF Engine!ChangeWorld
<1> QED
  BY <1>1 DEF EngineInv, EngineRows, OneBaseline

-----------------------------------------------------------------------------
(* A run begins.                                                            *)

LEMMA RevisionFields ==
    ASSUME EngineInv, NEW v \in DOMAIN planRevisions
    PROVE  /\ v \in Nat /\ v # 0 /\ NodesSound(planRevisions[v].nodes)
           /\ RevisionSound(v, planRevisions[v], planChanges)
BY DEF EngineInv, EngineRows, RevisionSound

FirstStates(N) == [c \in DOMAIN N |-> Engine!InitialState(N[c])]
FirstRow(v, N, w) ==
    [revision |-> v, status |-> "draft", day |-> 1, states |-> FirstStates(N),
     initial |-> w.budget, remaining |-> w.budget, spent |-> 0,
     people |-> w.people, skills |-> w.skills, tired |-> w.tired,
     turns |-> <<>>, failures |-> <<>>]

LEMMA FirstStory ==
    ASSUME NEW N, NodesSound(N), NEW D, NEW v, NEW w, w.budget \in Nat
    PROVE  Story(FirstRow(v, N, w), N, D)
<1> DEFINE x == FirstRow(v, N, w)
<1>1. /\ x.states = FirstStates(N) /\ x.turns = <<>> /\ x.spent = 0
      /\ x.remaining = w.budget /\ x.initial = w.budget
  BY DEF FirstRow
<1> HIDE DEF x
<1>2. \A kind : TurnsOf(x, kind) = {}
  BY <1>1 DEF TurnsOf
<1>3. DOMAIN x.states = DOMAIN N /\ \A c \in DOMAIN N : x.states[c] = Engine!InitialState(N[c])
  BY <1>1 DEF FirstStates
<1>4. \A c \in DOMAIN N : /\ Over(x.states, c) <=> N[c].status # "planned"
                          /\ x.states[c] = "completed" <=> N[c].status = "completed"
  BY <1>3, NodeFields DEF Engine!InitialState, Over
<1>5. StagesBacked(x, N)
  <2> SUFFICES ASSUME NEW p \in DOMAIN N, x.states[p] = "completed", NEW d \in Required(N, p)
               PROVE  Over(x.states, d)
    BY DEF StagesBacked
  <2>1. d \in DOMAIN N /\ N[d].parent = p /\ N[d].required /\ N[p].status = "completed"
    BY <1>4 DEF Required
  <2>2. N[d].status # "planned"
    BY <2>1, ParentIsStage
  <2> QED
    BY <1>4, <2>1, <2>2
<1>6. Accounted(x, N)
  BY <1>1, ReportedFirst DEF Accounted
<1> QED
  BY <1>2, <1>3, <1>4, <1>5, <1>6
     DEF Story, Settled, Earned, Leaves, InOrderOf, StagesClosed, x

LEMMA FirstIsRow ==
    ASSUME NEW N, NodesSound(N), NEW v \in Nat,
           NEW w \in [budget : Nat, people : Nat, skills : SUBSET STRING,
                      tired : BOOLEAN, stock : Nat]
    PROVE  FirstRow(v, N, w) \in RunRows
<1> DEFINE x == FirstRow(v, N, w)
           C == DOMAIN N
<1>1. C \in SUBSET NodeCodes
  BY DEF NodesSound
<1>2. FirstStates(N) \in [C -> Engine!StateStatuses]
  <2>1. \A c \in C : Engine!InitialState(N[c]) \in Engine!StateStatuses
    BY NodeFields DEF Engine!InitialState, Engine!StateStatuses
  <2> QED
    BY <2>1 DEF FirstStates
<1>3. /\ x = [revision |-> x.revision, status |-> x.status, day |-> x.day,
              states |-> x.states, initial |-> x.initial, remaining |-> x.remaining,
              spent |-> x.spent, people |-> x.people, skills |-> x.skills,
              tired |-> x.tired, turns |-> x.turns, failures |-> x.failures]
      /\ x.revision = v /\ x.status = "draft" /\ x.day = 1 /\ x.states = FirstStates(N)
      /\ x.initial = w.budget /\ x.remaining = w.budget /\ x.spent = 0 /\ x.people = w.people
      /\ x.skills = w.skills /\ x.tired = w.tired /\ x.turns = <<>> /\ x.failures = <<>>
  BY DEF FirstRow
<1> HIDE DEF x, C
<1>4. w.budget \in Nat /\ w.people \in Nat /\ w.skills \in SUBSET STRING /\ w.tired \in BOOLEAN
  OBVIOUS
<1>5. /\ x.status \in Engine!Statuses
      /\ x.turns \in Seq(TurnRows)
      /\ x.failures \in Seq([node : Engine!Codes, type : Engine!FailureTypes])
  BY <1>3 DEF Engine!Statuses
<1>6. /\ x.revision \in Nat /\ x.day \in Int /\ x.initial \in Nat /\ x.remaining \in Int
      /\ x.spent \in Int /\ x.people \in Nat /\ x.skills \in SUBSET STRING
      /\ x.tired \in BOOLEAN
  BY <1>3, <1>4
<1>7. x.states \in [C -> Engine!StateStatuses]
  BY <1>2, <1>3
<1>8. x \in RunRows
  BY <1>1, <1>3, <1>5, <1>6, <1>7, MakeRun
<1> QED
  BY <1>8 DEF x

LEMMA CreateRunStep ==
    ASSUME Engine!PlanSimulationAssumption, EngineInv, NEW limit \in Limits,
           Engine!CreateRun(limit)
    PROVE  EngineInv'
<1>1. PICK v \in Engine!Baseline :
        planRuns' = Append(planRuns, FirstRow(v, planRevisions[v].nodes, world))
  BY DEF Engine!CreateRun, FirstRow, FirstStates
<1> DEFINE N == planRevisions[v].nodes
           x == FirstRow(v, N, world)
           d == [pc |-> "loop", steps |-> 0, limit |-> limit]
           n == Len(planRuns) + 1
<1>2. v \in DOMAIN planRevisions /\ v \in Nat /\ NodesSound(N)
  BY RevisionFields DEF Engine!Baseline
<1>3. world \in [budget : Nat, people : Nat, skills : SUBSET STRING,
                 tired : BOOLEAN, stock : Nat]
  BY DEF EngineInv, EngineRows, Engine!PlanSimulationAssumption
<1>4. x \in RunRows /\ Story(x, N, planRevisions[v].deps)
  <2>1. world.budget \in Nat
    BY <1>3
  <2> HIDE DEF N
  <2> QED
    BY <1>2, <1>3, <2>1, FirstIsRow, FirstStory
<1>5. d \in DriverRows /\ drivers' = Append(drivers, d)
      /\ UNCHANGED <<world, planRevisions, planChanges, desk>>
  BY DEF Engine!CreateRun, DriverRows, Engine!PlanSimulationAssumption
<1>6. /\ Len(planRuns) \in Nat /\ Len(drivers) = Len(planRuns)
      /\ DOMAIN planRuns = 1..Len(planRuns) /\ DOMAIN drivers = 1..Len(planRuns)
      /\ planRuns \in Seq(RunRows) /\ drivers \in Seq(DriverRows)
  BY DEF EngineInv, EngineRows
<1>7. /\ x.revision = v /\ x.failures = <<>> /\ x.turns = <<>> /\ x.status = "draft"
      /\ d.steps = 0 /\ d.pc = "loop"
  BY DEF FirstRow
<1> HIDE DEF x, d, N
<1>8. /\ planRuns' \in Seq(RunRows) /\ DOMAIN planRuns' = 1..n /\ planRuns'[n] = x
      /\ \A q \in DOMAIN planRuns : planRuns'[q] = planRuns[q]
      /\ drivers' \in Seq(DriverRows) /\ Len(drivers') = Len(planRuns') /\ drivers'[n] = d
      /\ \A q \in DOMAIN planRuns : drivers'[q] = drivers[q]
  BY <1>1, <1>4, <1>5, <1>6 DEF x, N
<1>9. DOMAIN planRuns \subseteq DOMAIN planRuns' /\ n \notin DOMAIN planRuns
      /\ \A q \in DOMAIN planRuns' : q \in DOMAIN planRuns \/ q = n
  BY <1>6, <1>8
<1>10. EngineRows'
  BY <1>5, <1>8, <1>9 DEF EngineInv, EngineRows
<1>11. RunSound(n, x, d, planChanges, planRevisions)
  <2>1. \A k \in DOMAIN planChanges : planChanges[k].run # n
    BY <1>9 DEF EngineInv, ChangeSound
  <2>2. NotFailed(n, x, planChanges)
    BY <1>7, <2>1 DEF NotFailed, TurnsOf
  <2> QED
    BY <1>2, <1>4, <1>7, <2>2 DEF RunSound, Driving, Failing, N
<1>12. \A q \in DOMAIN planRuns' :
          RunSound(q, planRuns'[q], drivers'[q], planChanges, planRevisions)
  BY <1>8, <1>9, <1>11 DEF EngineInv
<1>13. \A k \in DOMAIN planChanges : ChangeSound(k, planChanges[k], planRuns', planRevisions)
  BY <1>8, <1>9 DEF EngineInv, ChangeSound
<1> QED
  BY <1>5, <1>10, <1>12, <1>13 DEF EngineInv

-----------------------------------------------------------------------------
(* A node completes.                                                        *)

LEMMA NextIsExecutable ==
    ASSUME NEW x, NodesSound(planRevisions[x.revision].nodes), Engine!Executable(x) # {}
    PROVE  LET N == planRevisions[x.revision].nodes
               c == Engine!NextExecutable(x)
           IN  c \in DOMAIN N /\ N[c].required /\ N[c].kind # "stage" /\ ~Over(x.states, c)
<1> DEFINE N == planRevisions[x.revision].nodes
           E == Engine!Executable(x)
           S == {N[d].sequence : d \in E}
<1>1. \A d \in E : d \in DOMAIN N /\ N[d].required /\ N[d].kind # "stage" /\ ~Over(x.states, d)
  BY DEF Engine!Executable, Engine!Nodes, Engine!Done, Over
<1> HIDE DEF N, E
<1>2. \A d \in E : N[d].sequence \in Nat
  BY <1>1, NodeFields DEF N
<1>3. S \in SUBSET Nat /\ S # {}
  BY <1>2 DEF E
<1>4. PICK s \in S : \A y \in S : s <= y
  <2> HIDE DEF S
  <2> QED
    BY <1>3, LeastNatural
<1>5. PICK e \in E : \A d \in E : N[e].sequence <= N[d].sequence
  BY <1>4
<1>6. Engine!NextExecutable(x)
        = CHOOSE a \in E : \A d \in E : N[a].sequence <= N[d].sequence
  BY DEF Engine!NextExecutable, Engine!Nodes, E, N
<1>7. Engine!NextExecutable(x) \in E
  BY <1>5, <1>6
<1> QED
  BY <1>1, <1>7 DEF N

LEMMA FreeNode ==
    ASSUME NEW x, NEW c, ~Engine!Blocked(x, c)
    PROVE  LET N == planRevisions[x.revision].nodes
           IN  /\ ~(N[c].cost > x.remaining)
               /\ \A d \in DOMAIN N : <<c, d>> \in planRevisions[x.revision].deps
                                         => x.states[d] = "completed"
<1>1. 1 \in 1..7 /\ 4 \in 1..7
  OBVIOUS
<1>2. ~Engine!FailureChecks(x, c)[1][2] /\ ~Engine!FailureChecks(x, c)[4][2]
  BY <1>1, Zenon DEF Engine!Blocked
<1> QED
  BY <1>2 DEF Engine!FailureChecks, Engine!Nodes

\* The states after the completion of c, when the stages F complete with it.
AfterNode(x, c, F) == Completing(F, [x.states EXCEPT ![c] = "completed"])

LEMMA NodeStory ==
    ASSUME NEW N, NodesSound(N), NEW D, NEW x \in RunRows, Story(x, N, D),
           NEW c \in DOMAIN N, N[c].required, N[c].kind # "stage",
           ~(N[c].cost > x.remaining),
           \A d \in DOMAIN N : <<c, d>> \in D => x.states[d] = "completed",
           NEW F, FinishedFrom(F, N, [x.states EXCEPT ![c] = "completed"], N[c].parent),
           NEW y, NEW t \in TurnRows, t.kind = "node", t.node = c,
           y.turns = Append(x.turns, t), y.states = AfterNode(x, c, F),
           y.initial = x.initial,
           y.remaining = x.remaining - N[c].cost, y.spent = x.spent + N[c].cost
    PROVE  Story(y, N, D)
<1> DEFINE st == [x.states EXCEPT ![c] = "completed"]
           new == Len(x.turns) + 1
<1>1. DOMAIN x.states = DOMAIN N /\ DOMAIN st = DOMAIN N /\ DOMAIN y.states = DOMAIN N
  BY DEF Story, AfterNode, Completing
<1>2. \A q \in DOMAIN N :
         y.states[q] = IF q \in F \/ q = c THEN "completed" ELSE x.states[q]
  BY <1>1 DEF AfterNode, Completing
<1>3. \A q \in DOMAIN N : Over(st, q) <=> (q = c \/ Over(x.states, q))
  BY <1>1 DEF Over
<1> HIDE DEF st
<1>4. \A q \in DOMAIN N : Over(y.states, q) <=> (q \in F \/ Over(st, q))
  BY <1>2, <1>3 DEF Over
<1>5. \A q \in F : q \in DOMAIN N /\ N[q].kind = "stage"
  <2> SUFFICES ASSUME NEW q \in F PROVE q \in DOMAIN N /\ N[q].kind = "stage"
    OBVIOUS
  <2>1. PICK d \in DOMAIN N : N[d].parent = q /\ q \in DOMAIN N
    BY DEF FinishedFrom
  <2> QED
    BY <2>1, ParentIsStage
<1>6. \A q \in F : \A d \in Required(N, q) : Over(st, d) \/ d \in F
  BY DEF FinishedFrom, st
<1>7. \A q \in DOMAIN N :
         /\ q = N[c].parent \/ \E u \in F : N[u].parent = q
         /\ Required(N, q) # {}
         /\ \A d \in Required(N, q) : Over(st, d) \/ d \in F
         => q \in F
  BY DEF FinishedFrom, st
<1>8. x.turns \in Seq(TurnRows) /\ Adds(x, y, t)
  BY RunFields DEF Adds
<1>9. /\ TurnsOf(y, "node") = TurnsOf(x, "node") \cup {new}
      /\ TurnsOf(y, "aborted") = TurnsOf(x, "aborted")
  <2>1. Adds(x, y, t)
    BY <1>8
  <2>2. TurnsOf(y, "node") = TurnsOf(x, "node") \cup {Len(x.turns) + 1}
    BY <2>1, TurnsAdded
  <2>3. t.kind # "aborted"
    OBVIOUS
  <2>4. TurnsOf(y, "aborted") = TurnsOf(x, "aborted")
    BY <2>1, <2>3, TurnsAdded
  <2> QED
    BY <2>2, <2>4
<1>10. /\ y.turns[new] = t
       /\ \A i \in TurnsOf(x, "node") : y.turns[i] = x.turns[i] /\ i < new
  BY <1>8, TurnAdded DEF TurnsOf
<1> HIDE DEF new
<1>11. Settled(y, N)
  BY <1>3, <1>4 DEF Story, Settled
<1>12. Earned(y, N)
  <2> SUFFICES ASSUME NEW q \in DOMAIN N, N[q].kind # "stage", y.states[q] = "completed",
                      N[q].status # "completed"
               PROVE  \E j \in TurnsOf(y, "node") : y.turns[j].node = q
    BY DEF Earned
  <2>1. CASE q = c
    BY <1>9, <1>10, <2>1
  <2>2. CASE q # c
    <3>1. x.states[q] = "completed"
      BY <1>2, <1>5, <2>2
    <3>2. PICK j \in TurnsOf(x, "node") : x.turns[j].node = q
      BY <3>1 DEF Story, Earned
    <3> QED
      BY <1>9, <1>10, <3>2
  <2> QED
    BY <2>1, <2>2
<1>13. Leaves(y, N)
  <2> SUFFICES ASSUME NEW i \in TurnsOf(y, "node")
               PROVE  /\ y.turns[i].node \in DOMAIN N /\ N[y.turns[i].node].required
                      /\ N[y.turns[i].node].kind # "stage"
    BY DEF Leaves
  <2>1. CASE i = new
    BY <1>10, <2>1
  <2>2. CASE i # new
    <3>1. i \in TurnsOf(x, "node") /\ y.turns[i] = x.turns[i]
      BY <1>9, <1>10, <2>2
    <3> QED
      BY <3>1 DEF Story, Leaves
  <2> QED
    BY <2>1, <2>2
<1>14. InOrderOf(y, N, D)
  <2> SUFFICES ASSUME NEW i \in TurnsOf(y, "node"), NEW d \in DOMAIN N,
                      <<y.turns[i].node, d>> \in D,
                      N[d].status # "completed", N[d].kind # "stage"
               PROVE  \E j \in TurnsOf(y, "node") : j < i /\ y.turns[j].node = d
    BY DEF InOrderOf
  <2>1. CASE i = new
    <3>1. x.states[d] = "completed"
      BY <1>10, <2>1
    <3>2. PICK j \in TurnsOf(x, "node") : x.turns[j].node = d
      BY <3>1 DEF Story, Earned
    <3> QED
      BY <1>9, <1>10, <2>1, <3>2
  <2>2. CASE i # new
    <3>1. i \in TurnsOf(x, "node") /\ y.turns[i] = x.turns[i]
      BY <1>9, <1>10, <2>2
    <3>2. PICK j \in TurnsOf(x, "node") : j < i /\ x.turns[j].node = d
      BY <3>1 DEF Story, InOrderOf
    <3> QED
      BY <1>9, <1>10, <3>2
  <2> QED
    BY <2>1, <2>2
<1>15. StagesBacked(y, N)
  <2> SUFFICES ASSUME NEW p \in DOMAIN N, N[p].kind = "stage", y.states[p] = "completed",
                      NEW d \in Required(N, p)
               PROVE  Over(y.states, d)
    BY DEF StagesBacked
  <2>1. d \in DOMAIN N
    BY DEF Required
  <2>2. CASE p \in F
    BY <1>4, <1>6, <2>1, <2>2
  <2>3. CASE p \notin F
    <3>1. x.states[p] = "completed"
      BY <1>2, <2>3
    <3>2. Over(x.states, d)
      BY <3>1 DEF Story, StagesBacked
    <3> QED
      BY <1>3, <1>4, <2>1, <3>2
  <2> QED
    BY <2>2, <2>3
<1>16. StagesClosed(y, N)
  <2> SUFFICES ASSUME NEW i \in TurnsOf(y, "node"),
                      N[y.turns[i].node].parent \in DOMAIN N,
                      \A d \in Required(N, N[y.turns[i].node].parent) : Over(y.states, d)
               PROVE  y.states[N[y.turns[i].node].parent] = "completed"
    BY DEF StagesClosed
  <2> DEFINE p == N[y.turns[i].node].parent
  <2>1. y.turns[i].node \in Required(N, p)
    BY <1>13 DEF Required, Leaves
  <2>2. \A d \in Required(N, p) : d \in DOMAIN N /\ N[d].parent = p
    BY DEF Required
  <2>3. p \in DOMAIN N /\ \A d \in Required(N, p) : Over(st, d) \/ d \in F
    BY <1>4, <2>2
  <2>4. CASE c \in Required(N, p) \/ \E u \in F : u \in Required(N, p)
    <3>1. p = N[c].parent \/ \E u \in F : N[u].parent = p
      BY <2>2, <2>4
    <3>2. Required(N, p) # {}
      BY <2>1
    <3> HIDE DEF p
    <3>3. p \in F
      BY <1>7, <2>3, <3>1, <3>2
    <3>4. y.states[p] = "completed"
      BY <1>2, <2>3, <3>3
    <3> QED
      BY <3>4 DEF p
  <2>5. CASE c \notin Required(N, p) /\ \A u \in F : u \notin Required(N, p)
    <3>1. \A d \in Required(N, p) : Over(x.states, d)
      BY <1>3, <2>2, <2>3, <2>5
    <3>2. i \in TurnsOf(x, "node") /\ y.turns[i] = x.turns[i]
      <4>1. i # new
        BY <1>10, <2>1, <2>5
      <4> QED
        BY <1>9, <1>10, <4>1
    <3>3. x.states[p] = "completed"
      BY <2>3, <3>1, <3>2 DEF Story, StagesClosed
    <3> QED
      BY <1>2, <2>3, <3>3
  <2> QED
    BY <2>4, <2>5
<1>17. Accounted(y, N)
  <2> SUFFICES ASSUME TurnsOf(x, "aborted") = {}
               PROVE  /\ y.spent + y.remaining = y.initial
                      /\ y.remaining >= 0
                      /\ y.spent = ReportedIn(N, y.turns)
    BY <1>9 DEF Accounted
  <2>1. /\ x.spent + x.remaining = x.initial /\ x.remaining >= 0
        /\ x.spent = ReportedIn(N, x.turns)
    BY DEF Story, Accounted
  <2>2. N[c].cost \in Nat /\ x.spent \in Int /\ x.remaining \in Int /\ x.initial \in Int
    BY NodeFields, RunFields
  <2>3. ReportedIn(N, Append(x.turns, t)) = ReportedIn(N, x.turns) + CostOf(N, t)
    BY StoryTurns, ReportedGrows
  <2>4. CostOf(N, t) = N[c].cost
    BY DEF CostOf
  <2> QED
    BY <2>1, <2>2, <2>3, <2>4
<1> QED
  BY <1>1, <1>11, <1>12, <1>13, <1>14, <1>15, <1>16, <1>17 DEF Story

LEMMA OneOfTwo ==
    ASSUME NEW a \in Int, NEW b \in Int
    PROVE  Engine!Max({a, b}) \in {a, b} /\ Engine!Min({a, b}) \in {a, b}
<1>1. \E x \in {a, b} : \A y \in {a, b} : x >= y
  <2>1. a >= b \/ b >= a
    OBVIOUS
  <2> QED
    BY <2>1
<1>2. \E x \in {a, b} : \A y \in {a, b} : x =< y
  <2>1. a =< b \/ b =< a
    OBVIOUS
  <2> QED
    BY <2>1
<1>3. Engine!Max({a, b}) \in {a, b}
  BY <1>1, Zenon DEF Engine!Max
<1>4. Engine!Min({a, b}) \in {a, b}
  BY <1>2, Zenon DEF Engine!Min
<1> QED
  BY <1>3, <1>4

\* The row of a run whose node completed.
NodeStates == UNION {[C -> Engine!StateStatuses] : C \in SUBSET NodeCodes}
Worked(x, day, rem, sp, sts, t) ==
    [x EXCEPT !.status = "running", !.day = day, !.remaining = rem, !.spent = sp,
              !.states = sts, !.turns = Append(x.turns, t)]

Working(x, day, rem, sp, sts, t) ==
    /\ x \in RunRows /\ day \in Int /\ rem \in Int /\ sp \in Int
    /\ sts \in NodeStates /\ t \in TurnRows

LEMMA WorkedRow ==
    ASSUME NEW x, NEW day, NEW rem, NEW sp, NEW sts, NEW t, Working(x, day, rem, sp, sts, t)
    PROVE  LET y == Worked(x, day, rem, sp, sts, t) IN
           /\ y \in RunRows
           /\ y.revision = x.revision /\ y.status = "running" /\ y.failures = x.failures
           /\ y.turns = Append(x.turns, t) /\ y.states = sts /\ y.initial = x.initial
           /\ y.remaining = rem /\ y.spent = sp
<1> DEFINE Maps == UNION {[B -> Engine!StateStatuses] : B \in SUBSET NodeCodes}
           Ts == Seq(TurnRows)
           Fs == Seq([node : Engine!Codes, type : Engine!FailureTypes])
           Ss == Engine!Statuses
           Ks == SUBSET STRING
           us == Append(x.turns, t)
           Columns == [revision : Nat, status : Ss, day : Int, states : Maps, initial : Nat,
                       remaining : Int, spent : Int, people : Nat, skills : Ks,
                       tired : BOOLEAN, turns : Ts, failures : Fs]
           y == [x EXCEPT !.status = "running", !.day = day, !.remaining = rem, !.spent = sp,
                          !.states = sts, !.turns = us]
<1>1. "running" \in Ss
  BY DEF Engine!Statuses
<1>2. us \in Ts
  BY RunFields DEF Working
<1>3. Columns = RunRows
  BY DEF RunRows
<1>4. x \in Columns /\ day \in Int /\ rem \in Int /\ sp \in Int
  BY <1>3 DEF Working
<1>5. sts \in Maps
  BY DEF NodeStates, Working
<1> HIDE DEF Maps, Ts, Fs, Ss, Ks, us
<1>6. /\ y \in Columns
      /\ y.revision = x.revision /\ y.status = "running" /\ y.failures = x.failures
      /\ y.turns = us /\ y.states = sts /\ y.initial = x.initial
      /\ y.remaining = rem /\ y.spent = sp
  BY <1>1, <1>2, <1>4, <1>5
<1>7. Worked(x, day, rem, sp, sts, t) = y
  BY DEF Worked, us
<1> HIDE DEF y, Columns
<1> QED
  BY <1>3, <1>6, <1>7 DEF us

LEMMA CompleteNodeStep ==
    ASSUME EngineInv, NEW r \in DOMAIN planRuns, Engine!CompleteNode(r)
    PROVE  EngineInv'
<1> DEFINE x == planRuns[r]
           V == planRevisions[x.revision]
           N == V.nodes
           D == V.deps
           c == Engine!NextExecutable(x)
           st == [x.states EXCEPT ![c] = "completed"]
           sts == Engine!CompleteStages(x, st, N[c].parent)
           t == Engine!Turn("node", c, x.day)
           day == x.day + Engine!Max({1, N[c].duration})
           y == Worked(x, day, x.remaining - N[c].cost, x.spent + N[c].cost, sts, t)
<1>1. x \in RunRows /\ RunSound(r, x, drivers[r], planChanges, planRevisions) /\ NodesSound(N)
      /\ Story(x, N, D) /\ drivers[r] \in DriverRows
  BY EngineRowFields DEF RunSound
<1>2. drivers[r].pc = "loop" /\ Engine!Executable(x) # {} /\ ~Engine!Blocked(x, c)
  BY DEF Engine!CompleteNode, Engine!MayAdvance
<1>3. c \in DOMAIN N /\ N[c].required /\ N[c].kind # "stage" /\ ~Over(x.states, c)
  <2>1. NodesSound(planRevisions[x.revision].nodes)
    BY <1>1
  <2> HIDE DEF x
  <2> QED
    BY <1>2, <2>1, NextIsExecutable
<1>4. /\ ~(N[c].cost > x.remaining)
      /\ \A d \in DOMAIN N : <<c, d>> \in D => x.states[d] = "completed"
  <2> HIDE DEF x, c
  <2> QED
    BY <1>2, FreeNode
<1>5. planRuns' = [planRuns EXCEPT ![r] = y]
  BY DEF Engine!CompleteNode, Engine!Nodes, Worked
<1>6. UNCHANGED <<world, planRevisions, planChanges, desk>>
  BY DEF Engine!CompleteNode
<1>7. PICK d \in DriverRows : drivers' = [drivers EXCEPT ![r] = d] /\ d.pc = drivers[r].pc
  BY DriverMoves DEF Engine!CompleteNode
<1> HIDE DEF c
<1>8. DOMAIN x.states = DOMAIN N /\ DOMAIN st = DOMAIN N
  BY <1>1 DEF Story
<1>9. PICK F : FinishedFrom(F, N, st, N[c].parent) /\ sts = Completing(F, st)
  <2>1. NodesSound(planRevisions[x.revision].nodes) /\ c \in DOMAIN st
        /\ DOMAIN st = DOMAIN planRevisions[x.revision].nodes
    BY <1>1, <1>3, <1>8
  <2> HIDE DEF st, x
  <2> QED
    BY <2>1, StagesFinish
<1>10. sts = AfterNode(x, c, F)
  BY <1>9 DEF AfterNode
<1> HIDE DEF x, sts
<1>11. DOMAIN N \in SUBSET NodeCodes /\ x.states \in [DOMAIN N -> Engine!StateStatuses]
  BY <1>1, <1>8, RunFields DEF NodesSound
<1>12. sts \in [DOMAIN N -> Engine!StateStatuses]
  <2>1. "completed" \in Engine!StateStatuses
    BY DEF Engine!StateStatuses
  <2>2. \A q \in DOMAIN N : st[q] \in Engine!StateStatuses
    BY <1>8, <1>11, <2>1
  <2> HIDE DEF st
  <2> QED
    BY <1>8, <1>9, <2>1, <2>2 DEF Completing
<1>13. /\ N[c].cost \in Nat /\ N[c].duration \in Nat /\ c \in Engine!Codes
       /\ x.day \in Int /\ x.remaining \in Int /\ x.spent \in Int
  BY <1>1, <1>3, NodeFields, RunFields DEF NodeCodes
<1>14. day \in Int
  BY <1>13, OneOfTwo
<1>15. t \in TurnRows /\ t.kind = "node" /\ t.node = c
  <2>1. "node" \in TurnKinds
    BY DEF TurnKinds
  <2> QED
    BY <1>13, <2>1, TurnIs
<1> HIDE DEF t, day, N
<1>16. /\ y \in RunRows
       /\ y.revision = x.revision /\ y.status = "running" /\ y.failures = x.failures
       /\ y.turns = Append(x.turns, t) /\ y.states = sts /\ y.initial = x.initial
       /\ y.remaining = x.remaining - N[c].cost /\ y.spent = x.spent + N[c].cost
  <2> DEFINE rem == x.remaining - N[c].cost
             sp == x.spent + N[c].cost
  <2>1. rem \in Int /\ sp \in Int
    BY <1>13
  <2>2. sts \in NodeStates
    BY <1>11, <1>12 DEF NodeStates
  <2>3. y = Worked(x, day, rem, sp, sts, t)
    OBVIOUS
  <2> HIDE DEF rem, sp, y
  <2>4. Working(x, day, rem, sp, sts, t)
    BY <1>1, <1>14, <1>15, <2>1, <2>2 DEF Working
  <2>5. /\ y \in RunRows
        /\ y.revision = x.revision /\ y.status = "running" /\ y.failures = x.failures
        /\ y.turns = Append(x.turns, t) /\ y.states = sts /\ y.initial = x.initial
        /\ y.remaining = rem /\ y.spent = sp
    BY <2>3, <2>4, WorkedRow
  <2> QED
    BY <2>5 DEF rem, sp
<1> HIDE DEF y
<1>17. Story(y, N, D)
  <2> HIDE DEF V
  <2>1. FinishedFrom(F, N, [x.states EXCEPT ![c] = "completed"], N[c].parent)
    BY <1>9
  <2> HIDE DEF D, st
  <2> QED
    BY <1>1, <1>3, <1>4, <1>10, <1>15, <1>16, <2>1, NodeStory
<1>18. Driving(y, d)
  BY <1>2, <1>7, <1>16 DEF Driving
<1>19. NotFailed(r, y, planChanges)
  <2>1. NotFailed(r, x, planChanges)
    BY <1>1, <1>2 DEF RunSound, Failing
  <2>2. TurnsOf(y, "failed") = TurnsOf(x, "failed")
    <3>1. Adds(x, y, t)
      BY <1>1, <1>15, <1>16, RunFields DEF Adds
    <3>2. t.kind # "failed"
      BY <1>15
    <3> QED
      BY <3>1, <3>2, TurnsAdded
  <2> QED
    BY <1>16, <2>1, <2>2 DEF NotFailed
<1>20. RunSound(r, y, d, planChanges', planRevisions)
  BY <1>1, <1>6, <1>16, <1>17, <1>18, <1>19 DEF RunSound, Failing, N
<1>21. y.revision = planRuns[r].revision
  BY <1>16 DEF x
<1> QED
  BY <1>5, <1>6, <1>7, <1>16, <1>20, <1>21, RunStep

-----------------------------------------------------------------------------
(* A node fails.                                                            *)

LEMMA FailureIsKnown ==
    ASSUME NEW x, NEW c, Engine!Blocked(x, c)
    PROVE  Engine!FailureType(x, c) \in Engine!FailureTypes
<1> DEFINE checks == Engine!FailureChecks(x, c)
           I == {i \in 1..7 : checks[i][2]}
           first == CHOOSE i \in 1..7 : checks[i][2] /\ \A j \in 1..(i - 1) : ~checks[j][2]
<1>1. \A i \in 1..7 : checks[i][1] \in Engine!FailureTypes
  <2> SUFFICES ASSUME NEW i \in 1..7 PROVE checks[i][1] \in Engine!FailureTypes
    OBVIOUS
  <2>1. i = 1 \/ i = 2 \/ i = 3 \/ i = 4 \/ i = 5 \/ i = 6 \/ i = 7
    OBVIOUS
  <2> QED
    BY <2>1 DEF Engine!FailureChecks, Engine!FailureTypes
<1>2. Engine!FailureType(x, c) = checks[first][1]
  BY DEF Engine!FailureType
<1> HIDE DEF checks
<1>3. I # {} /\ I \in SUBSET Nat
  BY DEF Engine!Blocked, checks
<1>4. PICK i \in I : \A j \in I : i <= j
  <2> HIDE DEF I
  <2> QED
    BY <1>3, LeastNatural
<1>5. i \in 1..7 /\ checks[i][2] /\ \A j \in 1..(i - 1) : ~checks[j][2]
  <2>1. i \in 1..7 /\ checks[i][2]
    OBVIOUS
  <2>2. \A j \in 1..(i - 1) : j \in 1..7 /\ ~(i <= j)
    BY <2>1
  <2> QED
    BY <1>4, <2>1, <2>2
<1>6. first \in 1..7
  BY <1>5
<1> QED
  BY <1>1, <1>2, <1>6

\* What a preparation may hang under: the parent of the node it prepares.
Open(N, p) ==
    p # Engine!NoParent => p \in DOMAIN N /\ N[p].kind = "stage" /\ N[p].status # "completed"
Prepares(a, N) ==
    /\ a \in [code : NodeCodes, node : Engine!PlanNode]
    /\ a.node.status = "planned" /\ Open(N, a.node.parent)

LEMMA LongerWord ==
    ASSUME NEW S, NEW c \in Seq(S), c # <<>>, NEW s \in S
    PROVE  /\ Append(c, s) \in Seq(S) /\ Len(c) \in Nat /\ Len(c) # 0
           /\ Len(Append(c, s)) = Len(c) + 1
OBVIOUS

LEMMA LongerCode ==
    ASSUME NEW c \in NodeCodes, NEW s \in STRING
    PROVE  Append(c, s) \in NodeCodes
<1>1. c \in Seq(STRING) /\ c # <<>>
  BY DEF NodeCodes, Engine!Codes
<1>2. Append(c, s) \in Seq(STRING) /\ Len(Append(c, s)) = Len(c) + 1 /\ Len(c) \in Nat
      /\ Len(c) # 0
  BY <1>1, LongerWord
<1> DEFINE d == Append(c, s)
<1> HIDE DEF d
<1>3. d \in Seq(STRING) /\ Len(d) # 0 /\ Len(d) # 1
  <2>1. d \in Seq(STRING) /\ Len(d) = Len(c) + 1
    BY <1>2 DEF d
  <2> QED
    BY <1>2, <2>1
<1>4. d # <<>> /\ d # <<"none">>
  BY <1>3
<1> QED
  BY <1>3, <1>4 DEF NodeCodes, Engine!Codes, Engine!NoParent, d

LEMMA PreparationFits ==
    ASSUME NEW N, NodesSound(N), NEW c \in DOMAIN N, Open(N, N[c].parent),
           NEW suffix \in STRING, NEW cost \in Nat, NEW duration \in Nat,
           NEW skills \in SUBSET STRING
    PROVE  Prepares(Engine!Preparation(N[c], c, suffix, cost, duration, skills), N)
<1> DEFINE n == N[c]
           Skills == SUBSET STRING
           Kinds2 == {"stage", "work"}
           Status2 == {"planned", "completed", "cancelled"}
           none == {}
           people == Engine!Min({Engine!Max({n.people, 1}), 8})
           Columns == [sequence : Nat, kind : Kinds2, parent : Engine!Codes,
                       status : Status2, required : BOOLEAN,
                       cost : Nat, duration : Nat, people : Nat, skills : Skills,
                       resources : Nat, closures : Skills]
           m == [n EXCEPT !.kind = "work", !.status = "planned", !.required = TRUE,
                          !.cost = cost, !.duration = duration, !.skills = skills,
                          !.resources = 0, !.closures = none, !.people = people]
<1>1. Engine!Preparation(N[c], c, suffix, cost, duration, skills)
        = [code |-> Append(c, suffix), node |-> m]
  BY DEF Engine!Preparation
<1>2. n \in Columns /\ n.people \in Nat /\ c \in NodeCodes
  BY NodeFields DEF Engine!PlanNode
<1>3. people \in Nat
  <2> DEFINE most == Engine!Max({n.people, 1})
  <2>1. most \in Nat
    BY <1>2, OneOfTwo
  <2> HIDE DEF most
  <2>2. most \in Int /\ 8 \in Int
    BY <2>1
  <2>3. Engine!Min({most, 8}) \in {most, 8}
    BY <2>2, OneOfTwo
  <2> QED
    BY <2>1, <2>3 DEF most
<1>4. "work" \in Kinds2 /\ "planned" \in Status2 /\ none \in Skills /\ skills \in Skills
  OBVIOUS
<1> HIDE DEF n, Skills, Kinds2, Status2, none, people
<1>5. m \in Columns /\ m.status = "planned" /\ m.parent = n.parent
  BY <1>2, <1>3, <1>4
<1>6. Append(c, suffix) \in NodeCodes
  BY <1>2, LongerCode
<1> HIDE DEF m, Columns
<1>7. m \in Engine!PlanNode
  BY <1>5 DEF Columns, Engine!PlanNode, Skills, Kinds2, Status2
<1> QED
  BY <1>1, <1>5, <1>6, <1>7 DEF Prepares, n

LEMMA OperationRow ==
    ASSUME NEW o, NEW N, NEW ns, NEW ds, NEW rs, NEW us,
           o = [nodes |-> ns, deps |-> ds, requirements |-> rs, durations |-> us],
           \E k \in Nat : ns \in [1..k -> [code : NodeCodes, node : Engine!PlanNode]],
           \A i \in DOMAIN ns : Prepares(ns[i], N),
           ds \subseteq Engine!Codes \X Engine!Codes,
           rs \subseteq Engine!Codes \X STRING,
           us \subseteq Engine!Codes \X Nat
    PROVE  o \in OperationRows /\ Suits(o, N)
<1>1. ns \in Seq([code : NodeCodes, node : Engine!PlanNode])
  <2> DEFINE S == [code : NodeCodes, node : Engine!PlanNode]
  <2>1. PICK k \in Nat : ns \in [1..k -> S]
    OBVIOUS
  <2> HIDE DEF S
  <2>2. ns \in Seq(S)
    BY <2>1
  <2> QED
    BY <2>2 DEF S
<1>2. o \in OperationRows
  BY <1>1 DEF OperationRows
<1>3. Suits(o, N)
  BY DEF Suits, Prepares, Open
<1> QED
  BY <1>2, <1>3

LEMMA OnePair ==
    ASSUME NEW A, NEW B, NEW a \in A, NEW b \in B
    PROVE  {<<a, b>>} \subseteq A \X B
OBVIOUS

OperationsAre(o, ns, ds, rs, us) ==
    o = [nodes |-> ns, deps |-> ds, requirements |-> rs, durations |-> us]
NodesFit(ns, N) ==
    /\ \E k \in Nat : ns \in [1..k -> [code : NodeCodes, node : Engine!PlanNode]]
    /\ \A i \in DOMAIN ns : Prepares(ns[i], N)

LEMMA NoneFit == ASSUME NEW N PROVE NodesFit(<<>>, N)
<1> DEFINE S == [code : NodeCodes, node : Engine!PlanNode]
<1>1. \E k \in Nat : <<>> \in [1..k -> S]
  <2> HIDE DEF S
  <2>1. <<>> \in [1..0 -> S]
    OBVIOUS
  <2> QED
    BY <2>1
<1> QED
  BY <1>1 DEF NodesFit

LEMMA OneFits == ASSUME NEW N, NEW a, Prepares(a, N) PROVE NodesFit(<<a>>, N)
<1> DEFINE S == [code : NodeCodes, node : Engine!PlanNode]
<1>1. a \in S
  BY DEF Prepares
<1>2. <<a>> \in [1..1 -> S] /\ 1 \in Nat /\ \A i \in DOMAIN <<a>> : i = 1
  <2> HIDE DEF S
  <2> QED
    BY <1>1
<1> QED
  BY <1>2 DEF NodesFit

LEMMA OperationsFit ==
    ASSUME Engine!PlanSimulationAssumption,
           NEW N, NodesSound(N), NEW c \in DOMAIN N, Open(N, N[c].parent),
           NEW type \in Engine!FailureTypes
    PROVE  Engine!Suggested(N[c], c, type) \in OperationRows
           /\ Suits(Engine!Suggested(N[c], c, type), N)
<1> DEFINE n == N[c]
           o == Engine!Suggested(n, c, type)
           none == {}
           empty == <<>>
<1>1. c \in NodeCodes /\ c \in Engine!Codes /\ n.duration \in Nat
  BY NodeFields DEF NodeCodes
<1>2. \A s \in STRING : Append(c, s) \in Engine!Codes
  BY <1>1, LongerCode DEF NodeCodes
<1>3. Engine!Words \subseteq STRING
  BY DEF Engine!PlanSimulationAssumption
<1>4. NodesFit(empty, N)
  BY NoneFit
<1>5. \A A, B : none \subseteq A \X B
  OBVIOUS
<1>6. \A s \in STRING : {<<c, s>>} \subseteq Engine!Codes \X STRING
  BY <1>1, OnePair
<1>7. ASSUME NEW ns, NEW ds, NEW rs, NEW us, OperationsAre(o, ns, ds, rs, us),
             NodesFit(ns, N), ds \subseteq Engine!Codes \X Engine!Codes,
             rs \subseteq Engine!Codes \X STRING, us \subseteq Engine!Codes \X Nat
      PROVE  o \in OperationRows /\ Suits(o, N)
  <2> HIDE DEF o
  <2> QED
    BY <1>7, OperationRow DEF OperationsAre, NodesFit
<1>8. CASE type = "skill_shortage"
  <2> DEFINE skills == {"recruiting"}
             a == Engine!Preparation(n, c, "SKILL", 30, 14, skills)
             ns == <<a>>
             ds == {<<c, Append(c, "SKILL")>>}
             rs == {<<c, "skill">>}
  <2>1. "SKILL" \in STRING /\ skills \in SUBSET STRING /\ "skill" \in STRING
    BY <1>3 DEF Engine!Words
  <2>2. OperationsAre(o, ns, ds, rs, none)
    BY <1>8 DEF Engine!Suggested, Engine!NoOperations, OperationsAre
  <2>3. NodesFit(ns, N)
    <3> HIDE DEF skills
    <3>1. Prepares(a, N)
      BY <2>1, PreparationFits
    <3> HIDE DEF a
    <3> QED
      BY <3>1, OneFits
  <2>4. ds \subseteq Engine!Codes \X Engine!Codes
    <3> DEFINE e == Append(c, "SKILL")
    <3>1. e \in Engine!Codes
      BY <1>2, <2>1
    <3> HIDE DEF e
    <3>2. {<<c, e>>} \subseteq Engine!Codes \X Engine!Codes
      BY <1>1, <3>1, OnePair
    <3> QED
      BY <3>2 DEF e
  <2>5. rs \subseteq Engine!Codes \X STRING
    BY <1>6, <2>1
  <2> HIDE DEF ns, ds, rs, o, none
  <2> QED
    BY <1>5, <1>7, <2>2, <2>3, <2>4, <2>5 DEF o
<1>9. CASE type = "responsibility_closure_missing"
  <2> DEFINE skills == {"documents"}
             ns == [i \in DOMAIN ClosureSteps |->
                      Engine!Preparation(n, c, ClosureSteps[i], 5, 7, skills)]
             ds == {<<c, Append(c, ClosureSteps[i])>> : i \in DOMAIN ClosureSteps}
             rs == {<<c, "permit">>}
  <2>1. skills \in SUBSET STRING /\ "permit" \in STRING
    BY <1>3 DEF Engine!Words
  <2>2. OperationsAre(o, ns, ds, rs, none)
    BY <1>9 DEF Engine!Suggested, Engine!NoOperations, OperationsAre
  <2>3. /\ Len(ClosureSteps) \in Nat /\ DOMAIN ClosureSteps = 1..Len(ClosureSteps)
        /\ \A i \in DOMAIN ClosureSteps : ClosureSteps[i] \in STRING
    BY DEF Engine!PlanSimulationAssumption
  <2>4. NodesFit(ns, N)
    <3> HIDE DEF skills
    <3>1. \A i \in DOMAIN ClosureSteps : Prepares(ns[i], N)
      <4> SUFFICES ASSUME NEW i \in DOMAIN ClosureSteps PROVE Prepares(ns[i], N)
        OBVIOUS
      <4>1. ClosureSteps[i] \in STRING /\ 5 \in Nat /\ 7 \in Nat
        BY <2>3
      <4>2. Prepares(Engine!Preparation(n, c, ClosureSteps[i], 5, 7, skills), N)
        BY <2>1, <4>1, PreparationFits
      <4> QED
        BY <4>2
    <3>2. DOMAIN ns = DOMAIN ClosureSteps /\ ns = [i \in DOMAIN ClosureSteps |-> ns[i]]
      OBVIOUS
    <3> DEFINE S == [code : NodeCodes, node : Engine!PlanNode]
    <3>3. \A i \in DOMAIN ClosureSteps : ns[i] \in S
      BY <3>1 DEF Prepares
    <3> HIDE DEF ns, S
    <3>4. ns \in [1..Len(ClosureSteps) -> S]
      BY <2>3, <3>2, <3>3
    <3> QED
      BY <2>3, <3>1, <3>2, <3>4 DEF NodesFit, S
  <2>5. ds \subseteq Engine!Codes \X Engine!Codes
    <3> DEFINE e(i) == Append(c, ClosureSteps[i])
               Codes == Engine!Codes
    <3>1. \A i \in DOMAIN ClosureSteps : e(i) \in Codes
      BY <1>2, <2>3
    <3>2. ds = {<<c, e(i)>> : i \in DOMAIN ClosureSteps}
      OBVIOUS
    <3>3. c \in Codes
      BY <1>1
    <3> HIDE DEF e, ds, Codes
    <3>4. ds \subseteq Codes \X Codes
      BY <3>1, <3>2, <3>3
    <3> QED
      BY <3>4 DEF Codes
  <2>6. rs \subseteq Engine!Codes \X STRING
    BY <1>6, <2>1
  <2> HIDE DEF ns, ds, rs, o, none
  <2> QED
    BY <1>5, <1>7, <2>2, <2>4, <2>5, <2>6 DEF o
<1>10. CASE type = "budget_unrealistic"
  <2> DEFINE a == Engine!Preparation(n, c, "FUNDING", 0, 10, none)
             ns == <<a>>
             rs == {<<c, "budget">>}
  <2>1. "FUNDING" \in STRING /\ none \in SUBSET STRING /\ "budget" \in STRING
    BY <1>3 DEF Engine!Words
  <2>2. OperationsAre(o, ns, none, rs, none)
    BY <1>10 DEF Engine!Suggested, Engine!NoOperations, OperationsAre
  <2>3. NodesFit(ns, N)
    <3> HIDE DEF none
    <3>1. Prepares(a, N)
      BY <2>1, PreparationFits
    <3> HIDE DEF a
    <3> QED
      BY <3>1, OneFits
  <2>4. rs \subseteq Engine!Codes \X STRING
    BY <1>6, <2>1
  <2> HIDE DEF ns, rs, o, none
  <2> QED
    BY <1>5, <1>7, <2>2, <2>3, <2>4 DEF o
<1>11. CASE type = "labor_shortage"
  <2> DEFINE a == Engine!Preparation(n, c, "LABOR", 12, 7, none)
             ns == <<a>>
             us == {<<c, 2 * n.duration>>}
  <2>1. "LABOR" \in STRING /\ none \in SUBSET STRING
    BY <1>3 DEF Engine!Words
  <2>2. OperationsAre(o, ns, none, none, us)
    BY <1>11 DEF Engine!Suggested, Engine!NoOperations, OperationsAre
  <2>3. NodesFit(ns, N)
    <3> HIDE DEF none
    <3>1. Prepares(a, N)
      BY <2>1, PreparationFits
    <3> HIDE DEF a
    <3> QED
      BY <3>1, OneFits
  <2>4. us \subseteq Engine!Codes \X Nat
    <3>1. 2 * n.duration \in Nat
      BY <1>1
    <3> QED
      BY <1>1, <3>1, OnePair
  <2> HIDE DEF ns, us, o, none
  <2> QED
    BY <1>5, <1>7, <2>2, <2>3, <2>4 DEF o
<1>12. CASE type = "resource_shortage"
  <2> DEFINE rs == {<<c, "material">>}
  <2>1. OperationsAre(o, empty, none, rs, none)
    BY <1>12 DEF Engine!Suggested, Engine!NoOperations, OperationsAre
  <2>2. rs \subseteq Engine!Codes \X STRING
    BY <1>3, <1>6 DEF Engine!Words
  <2> HIDE DEF rs, o, none, empty
  <2> QED
    BY <1>4, <1>5, <1>7, <2>1, <2>2 DEF o
<1>13. CASE type \notin {"skill_shortage", "responsibility_closure_missing", "budget_unrealistic",
                         "labor_shortage", "resource_shortage"}
  <2>1. OperationsAre(o, empty, none, none, none)
    BY <1>13 DEF Engine!Suggested, Engine!NoOperations, OperationsAre
  <2> HIDE DEF o, none, empty
  <2> QED
    BY <1>4, <1>5, <1>7, <2>1 DEF o
<1> QED
  BY <1>8, <1>9, <1>10, <1>11, <1>12, <1>13

\* The row of a run that failed.
Failed(x, sts, f, t) ==
    [x EXCEPT !.status = "failed", !.states = sts, !.failures = Append(x.failures, f),
              !.turns = Append(x.turns, t)]
FailureRows == [node : Engine!Codes, type : Engine!FailureTypes]

LEMMA FailedRow ==
    ASSUME NEW x \in RunRows, NEW sts \in NodeStates, NEW f \in FailureRows, NEW t \in TurnRows
    PROVE  LET y == Failed(x, sts, f, t) IN
           /\ y \in RunRows
           /\ y.revision = x.revision /\ y.status = "failed" /\ y.states = sts
           /\ y.failures = Append(x.failures, f) /\ y.turns = Append(x.turns, t)
           /\ y.initial = x.initial /\ y.remaining = x.remaining /\ y.spent = x.spent
<1> DEFINE Maps == UNION {[B -> Engine!StateStatuses] : B \in SUBSET NodeCodes}
           Ts == Seq(TurnRows)
           Fs == Seq([node : Engine!Codes, type : Engine!FailureTypes])
           Ss == Engine!Statuses
           Ks == SUBSET STRING
           us == Append(x.turns, t)
           fs == Append(x.failures, f)
           Columns == [revision : Nat, status : Ss, day : Int, states : Maps, initial : Nat,
                       remaining : Int, spent : Int, people : Nat, skills : Ks,
                       tired : BOOLEAN, turns : Ts, failures : Fs]
           y == [x EXCEPT !.status = "failed", !.states = sts, !.failures = fs, !.turns = us]
<1>1. "failed" \in Ss
  BY DEF Engine!Statuses
<1>2. us \in Ts /\ fs \in Fs
  <2>1. x.turns \in Seq(TurnRows) /\ x.failures \in Seq(FailureRows)
    BY RunFields DEF FailureRows
  <2>2. Append(x.turns, t) \in Seq(TurnRows) /\ Append(x.failures, f) \in Seq(FailureRows)
    BY <2>1
  <2> QED
    BY <2>2 DEF FailureRows
<1>3. Columns = RunRows
  BY DEF RunRows
<1>4. x \in Columns
  BY <1>3
<1>5. sts \in Maps
  BY DEF NodeStates
<1> HIDE DEF Maps, Ts, Fs, Ss, Ks, us, fs
<1>6. /\ y \in Columns
      /\ y.revision = x.revision /\ y.status = "failed" /\ y.states = sts
      /\ y.failures = fs /\ y.turns = us
      /\ y.initial = x.initial /\ y.remaining = x.remaining /\ y.spent = x.spent
  BY <1>1, <1>2, <1>4, <1>5
<1>7. Failed(x, sts, f, t) = y
  BY DEF Failed, us, fs
<1> HIDE DEF y, Columns
<1> QED
  BY <1>3, <1>6, <1>7 DEF us, fs

LEMMA FailNodeStep ==
    ASSUME Engine!PlanSimulationAssumption, EngineInv, NEW r \in DOMAIN planRuns,
           Engine!FailNode(r)
    PROVE  EngineInv'
<1> DEFINE x == planRuns[r]
           V == planRevisions[x.revision]
           N == V.nodes
           D == V.deps
           c == Engine!NextExecutable(x)
           type == Engine!FailureType(x, c)
           sts == [x.states EXCEPT ![c] = "failed"]
           f == [node |-> c, type |-> type]
           t == Engine!Turn("failed", c, x.day)
           y == Failed(x, sts, f, t)
           o == Engine!Suggested(N[c], c, type)
           z == [run |-> r, revision |-> x.revision, status |-> "draft", applied |-> 0,
                 operations |-> o]
<1>1. x \in RunRows /\ RunSound(r, x, drivers[r], planChanges, planRevisions) /\ NodesSound(N)
      /\ Story(x, N, D) /\ drivers[r] \in DriverRows
      /\ x.revision \in DOMAIN planRevisions /\ x.revision \in Nat /\ r \in Nat
  BY EngineRowFields, RunFields DEF RunSound
<1>2. drivers[r].pc = "loop" /\ Engine!Executable(x) # {} /\ Engine!Blocked(x, c)
  BY DEF Engine!FailNode, Engine!MayAdvance
<1>3. c \in DOMAIN N /\ N[c].required /\ N[c].kind # "stage" /\ ~Over(x.states, c)
  <2>1. NodesSound(planRevisions[x.revision].nodes)
    BY <1>1
  <2> HIDE DEF x
  <2> QED
    BY <1>2, <2>1, NextIsExecutable
<1>4. type \in Engine!FailureTypes
  <2> HIDE DEF x, c
  <2> QED
    BY <1>2, FailureIsKnown
<1>5. planRuns' = [planRuns EXCEPT ![r] = y]
  BY DEF Engine!FailNode, Failed
<1>6. UNCHANGED <<world, planRevisions, desk>> /\ planChanges' = Append(planChanges, z)
  BY DEF Engine!FailNode, Engine!Nodes
<1>7. PICK d \in DriverRows : drivers' = [drivers EXCEPT ![r] = d] /\ d.pc = "break"
  BY DriverMoves DEF Engine!FailNode
<1> HIDE DEF c, type
<1>8. DOMAIN x.states = DOMAIN N /\ N[c].status = "planned"
  BY <1>1, <1>3, NodeFields DEF Story, Settled
<1>9. Open(N, N[c].parent)
  <2> HIDE DEF N
  <2> QED
    BY <1>1, <1>3, <1>8, ParentIsStage DEF Open
<1>10. o \in OperationRows /\ Suits(o, N)
  <2> HIDE DEF N
  <2> QED
    BY <1>1, <1>3, <1>4, <1>9, OperationsFit
<1> HIDE DEF o
<1>11. z \in ChangeRows /\ z.run = r /\ z.status = "draft"
  BY <1>1, <1>10 DEF ChangeRows
<1>12. ChangeSound(Len(planChanges) + 1, z, planRuns, planRevisions)
  <2>1. DOMAIN N # {}
    BY <1>3
  <2> QED
    BY <1>1, <1>10, <2>1 DEF ChangeSound
<1>13. sts \in NodeStates
  <2>1. DOMAIN N \in SUBSET NodeCodes /\ x.states \in [DOMAIN N -> Engine!StateStatuses]
    BY <1>1, <1>8, RunFields DEF NodesSound
  <2>2. "failed" \in Engine!StateStatuses
    BY DEF Engine!StateStatuses
  <2> HIDE DEF x, N
  <2>3. sts \in [DOMAIN N -> Engine!StateStatuses]
    BY <2>1, <2>2
  <2> QED
    BY <2>1, <2>3 DEF NodeStates
<1>14. x.day \in Int /\ c \in Engine!Codes /\ f \in FailureRows /\ f.node = c
  BY <1>1, <1>3, <1>4, RunFields, NodeFields DEF NodeCodes, FailureRows
<1>15. t \in TurnRows /\ t.kind = "failed"
  <2>1. "failed" \in TurnKinds
    BY DEF TurnKinds
  <2> QED
    BY <1>14, <2>1, TurnIs
<1>16. DOMAIN sts = DOMAIN N /\ sts[c] = "failed"
       /\ \A q \in DOMAIN N : /\ Over(sts, q) <=> Over(x.states, q)
                              /\ sts[q] = "completed" <=> x.states[q] = "completed"
  BY <1>3, <1>8 DEF Over
<1> HIDE DEF t, x, sts, f
<1>17. /\ y \in RunRows
       /\ y.revision = x.revision /\ y.status = "failed" /\ y.states = sts
       /\ y.failures = Append(x.failures, f) /\ y.turns = Append(x.turns, t)
       /\ y.initial = x.initial /\ y.remaining = x.remaining /\ y.spent = x.spent
  BY <1>1, <1>13, <1>14, <1>15, FailedRow
<1> HIDE DEF y, z
<1>18. Story(y, N, D)
  <2> HIDE DEF N, D
  <2>1. t.kind # "node"
    BY <1>15
  <2> QED
    BY <1>1, <1>8, <1>15, <1>16, <1>17, <2>1, QuietStory
<1>19. Driving(y, d)
  BY <1>7, <1>17 DEF Driving, EndedStatuses
<1>20. FailedOnce(r, y, planChanges')
  <2>1. NotFailed(r, x, planChanges)
    BY <1>1, <1>2 DEF RunSound, Failing
  <2>2. TurnsOf(y, "failed") = {Len(x.turns) + 1}
    <3>1. Adds(x, y, t)
      BY <1>1, <1>15, <1>17, RunFields DEF Adds
    <3>2. TurnsOf(y, "failed") = TurnsOf(x, "failed") \cup {Len(x.turns) + 1}
      BY <1>15, <3>1, TurnsAdded
    <3> QED
      BY <2>1, <3>2 DEF NotFailed
  <2>3. Len(x.turns) + 1 \in DOMAIN y.turns
    BY <2>2 DEF TurnsOf
  <2>4. Len(y.failures) = 1 /\ y.failures[1] = f
    <3>1. x.failures = <<>>
      BY <2>1 DEF NotFailed
    <3> QED
      BY <1>17, <3>1
  <2>5. \E k \in DOMAIN planChanges' : \A m \in DOMAIN planChanges' : planChanges'[m].run = r <=> m = k
    <3>1. planChanges \in Seq(ChangeRows)
      BY DEF EngineInv, EngineRows
    <3> DEFINE k == Len(planChanges) + 1
    <3>2. /\ k \in DOMAIN planChanges' /\ k \notin DOMAIN planChanges /\ planChanges'[k] = z
          /\ \A m \in DOMAIN planChanges : planChanges'[m] = planChanges[m]
          /\ \A m \in DOMAIN planChanges' : m \in DOMAIN planChanges \/ m = k
      BY <1>6, <1>11, <3>1
    <3> HIDE DEF k
    <3> QED
      BY <1>11, <2>1, <3>2 DEF NotFailed
  <2>6. y.failures[1].node \in DOMAIN y.states /\ y.states[y.failures[1].node] = "failed"
    BY <1>3, <1>14, <1>16, <1>17, <2>4
  <2> QED
    BY <2>2, <2>3, <2>4, <2>5, <2>6 DEF FailedOnce
<1>21. RunSound(r, y, d, planChanges', planRevisions)
  BY <1>1, <1>7, <1>17, <1>18, <1>19, <1>20 DEF RunSound, Failing
<1>22. y.revision = planRuns[r].revision
  BY <1>17 DEF x
<1> QED
  BY <1>5, <1>6, <1>7, <1>11, <1>12, <1>17, <1>21, <1>22, RunStep

-----------------------------------------------------------------------------
(* The feedback is decided.                                                 *)

\* Revisions keep their content, change sets what they ask for.
SameContent(vs, ws) ==
    /\ DOMAIN vs \subseteq DOMAIN ws
    /\ \A v \in DOMAIN vs :
         ws[v].nodes = vs[v].nodes /\ ws[v].deps = vs[v].deps /\ ws[v].change = vs[v].change
SameRequest(cs, ds) ==
    /\ DOMAIN ds = DOMAIN cs
    /\ \A k \in DOMAIN cs : ds[k].run = cs[k].run /\ ds[k].revision = cs[k].revision
                              /\ ds[k].operations = cs[k].operations
AppliedSound(cs, vs) ==
    \A k \in DOMAIN cs : cs[k].status = "applied" =>
        cs[k].applied \in DOMAIN vs /\ cs[k].applied # 1 /\ vs[cs[k].applied].change = k
RevisionsSound(vs, cs) == \A v \in DOMAIN vs : RevisionSound(v, vs[v], cs)

LEMMA PlanStep ==
    ASSUME EngineInv, UNCHANGED <<world, planRuns, drivers, desk>>,
           planRevisions' \in Seq(RevisionRows), planRevisions' # <<>>,
           OneBaseline(planRevisions'), SameContent(planRevisions, planRevisions'),
           planChanges' \in Seq(ChangeRows), SameRequest(planChanges, planChanges'),
           RevisionsSound(planRevisions', planChanges'), AppliedSound(planChanges', planRevisions')
    PROVE  EngineInv'
<1>1. EngineRows'
  BY DEF EngineInv, EngineRows
<1>2. \A k \in DOMAIN planChanges' : ChangeSound(k, planChanges'[k], planRuns', planRevisions')
  <2> SUFFICES ASSUME NEW k \in DOMAIN planChanges
               PROVE  ChangeSound(k, planChanges'[k], planRuns, planRevisions')
    BY DEF SameRequest
  <2>1. ChangeSound(k, planChanges[k], planRuns, planRevisions)
    BY DEF EngineInv
  <2>2. /\ planChanges'[k].run = planChanges[k].run
        /\ planChanges'[k].revision = planChanges[k].revision
        /\ planChanges'[k].operations = planChanges[k].operations
    BY DEF SameRequest
  <2>3. planChanges'[k].revision \in DOMAIN planRevisions'
        /\ planRevisions'[planChanges'[k].revision].nodes = planRevisions[planChanges[k].revision].nodes
    BY <2>1, <2>2 DEF ChangeSound, SameContent
  <2>4. planChanges'[k].status = "applied" =>
          /\ planChanges'[k].applied \in DOMAIN planRevisions' /\ planChanges'[k].applied # 1
          /\ planRevisions'[planChanges'[k].applied].change = k
    BY DEF AppliedSound, SameRequest
  <2> QED
    BY <2>1, <2>2, <2>3, <2>4 DEF ChangeSound
<1>3. \A r \in DOMAIN planRuns' :
         RunSound(r, planRuns'[r], drivers'[r], planChanges', planRevisions')
  <2> SUFFICES ASSUME NEW r \in DOMAIN planRuns
               PROVE  RunSound(r, planRuns[r], drivers[r], planChanges', planRevisions')
    OBVIOUS
  <2> DEFINE x == planRuns[r]
  <2>1. RunSound(r, x, drivers[r], planChanges, planRevisions)
    BY DEF EngineInv
  <2>2. /\ x.revision \in DOMAIN planRevisions'
        /\ planRevisions'[x.revision].nodes = planRevisions[x.revision].nodes
        /\ planRevisions'[x.revision].deps = planRevisions[x.revision].deps
    BY <2>1 DEF RunSound, SameContent
  <2>3. DOMAIN planChanges' = DOMAIN planChanges
        /\ \A k \in DOMAIN planChanges : planChanges'[k].run = planChanges[k].run
    BY DEF SameRequest
  <2> HIDE DEF x
  <2>4. Failing(r, x, drivers[r], planChanges) => Failing(r, x, drivers[r], planChanges')
    <3>1. NotFailed(r, x, planChanges) => NotFailed(r, x, planChanges')
      BY <2>3 DEF NotFailed
    <3>2. (\E k \in DOMAIN planChanges :
             \A m \in DOMAIN planChanges : planChanges[m].run = r <=> m = k)
            => \E k \in DOMAIN planChanges' :
                 \A m \in DOMAIN planChanges' : planChanges'[m].run = r <=> m = k
      <4> SUFFICES ASSUME NEW k \in DOMAIN planChanges,
                          \A m \in DOMAIN planChanges : planChanges[m].run = r <=> m = k
                   PROVE  \E kk \in DOMAIN planChanges' :
                            \A m \in DOMAIN planChanges' : planChanges'[m].run = r <=> m = kk
        OBVIOUS
      <4>1. k \in DOMAIN planChanges'
            /\ \A m \in DOMAIN planChanges' : planChanges'[m].run = r <=> m = k
        BY <2>3
      <4> QED
        BY <4>1
    <3>3. FailedOnce(r, x, planChanges) => FailedOnce(r, x, planChanges')
      BY <3>2, Zenon DEF FailedOnce
    <3> QED
      BY <3>1, <3>3 DEF Failing
  <2> QED
    BY <2>1, <2>2, <2>4 DEF RunSound, x
<1> QED
  BY <1>1, <1>2, <1>3 DEF EngineInv, RevisionsSound

LEMMA PublishIs ==
    ASSUME NEW vs \in Seq(RevisionRows), NEW v \in DOMAIN vs
    PROVE  LET ws == Engine!Publish(v, vs) IN
           /\ ws \in Seq(RevisionRows) /\ DOMAIN ws = DOMAIN vs /\ SameContent(vs, ws)
           /\ OneBaseline(ws) /\ ws # <<>>
<1> DEFINE Maps == UNION {[C -> Engine!PlanNode] : C \in SUBSET NodeCodes}
           Ds == SUBSET (Engine!Codes \X Engine!Codes)
           Qs == SUBSET (Engine!Codes \X STRING)
           Ss == {"draft", "published", "retired"}
           Columns == [nodes : Maps, deps : Ds, requirements : Qs, status : Ss, change : Nat]
           ws == Engine!Publish(v, vs)
           z(w) == IF w = v THEN [vs[w] EXCEPT !.status = "published"]
                   ELSE IF vs[w].status = "published" THEN [vs[w] EXCEPT !.status = "retired"]
                   ELSE vs[w]
<1>1. Columns = RevisionRows
  BY DEF RevisionRows
<1>2. Len(vs) \in Nat /\ DOMAIN vs = 1..Len(vs) /\ \A w \in DOMAIN vs : vs[w] \in Columns
  <2> HIDE DEF Columns
  <2> QED
    BY <1>1
<1>3. "published" \in Ss /\ "retired" \in Ss
  OBVIOUS
<1> HIDE DEF Maps, Ds, Qs, Ss
<1>4. \A w \in DOMAIN vs :
         /\ z(w) \in Columns /\ z(w).nodes = vs[w].nodes /\ z(w).deps = vs[w].deps
         /\ z(w).change = vs[w].change
         /\ z(w).status = "published" <=> w = v
  <2> SUFFICES ASSUME NEW w \in DOMAIN vs
               PROVE  /\ z(w) \in Columns /\ z(w).nodes = vs[w].nodes /\ z(w).deps = vs[w].deps
                      /\ z(w).change = vs[w].change
                      /\ z(w).status = "published" <=> w = v
    OBVIOUS
  <2>1. vs[w] \in Columns
    BY <1>2
  <2>2. CASE w = v
    <3>1. z(w) = [vs[w] EXCEPT !.status = "published"]
      BY <2>2
    <3> HIDE DEF z
    <3> QED
      BY <1>3, <2>1, <2>2, <3>1
  <2>3. CASE w # v /\ vs[w].status = "published"
    <3>1. z(w) = [vs[w] EXCEPT !.status = "retired"]
      BY <2>3
    <3> HIDE DEF z
    <3> QED
      BY <1>3, <2>1, <2>3, <3>1
  <2>4. CASE w # v /\ vs[w].status # "published"
    BY <2>1, <2>4
  <2> QED
    BY <2>2, <2>3, <2>4
<1>5. ws = [w \in DOMAIN vs |-> z(w)]
  BY DEF Engine!Publish
<1> HIDE DEF z, Columns, ws
<1>6. ws \in [1..Len(vs) -> Columns] /\ DOMAIN ws = DOMAIN vs /\ \A w \in DOMAIN vs : ws[w] = z(w)
  BY <1>2, <1>4, <1>5
<1>7. ws \in Seq(RevisionRows)
  BY <1>1, <1>2, <1>6
<1>8. SameContent(vs, ws) /\ OneBaseline(ws)
  <2>1. SameContent(vs, ws)
    BY <1>4, <1>6 DEF SameContent
  <2>2. v \in DOMAIN ws /\ \A w \in DOMAIN ws : ws[w].status = "published" <=> w = v
    BY <1>4, <1>6
  <2>3. OneBaseline(ws)
    BY <2>2 DEF OneBaseline
  <2> QED
    BY <2>1, <2>3
<1>9. ws # <<>>
  BY <1>6
<1> QED
  BY <1>6, <1>7, <1>8, <1>9 DEF ws

LEMMA ReapplyChangeSetStep ==
    ASSUME EngineInv, NEW k \in DOMAIN planChanges, Engine!ReapplyChangeSet(k)
    PROVE  EngineInv'
<1> DEFINE v == planChanges[k].applied
           ws == Engine!Publish(v, planRevisions)
<1>1. planRevisions' = ws /\ UNCHANGED <<world, planRuns, drivers, planChanges, desk>>
  BY DEF Engine!ReapplyChangeSet
<1>2. v \in DOMAIN planRevisions
  BY DEF Engine!ReapplyChangeSet, EngineInv, ChangeSound
<1>3. planRevisions \in Seq(RevisionRows) /\ planChanges \in Seq(ChangeRows)
  BY DEF EngineInv, EngineRows
<1> HIDE DEF v
<1>4. /\ ws \in Seq(RevisionRows) /\ DOMAIN ws = DOMAIN planRevisions
      /\ SameContent(planRevisions, ws) /\ OneBaseline(ws) /\ ws # <<>>
  BY <1>2, <1>3, PublishIs
<1> HIDE DEF ws
<1>5. SameRequest(planChanges, planChanges')
  BY <1>1 DEF SameRequest
<1>6. RevisionsSound(planRevisions', planChanges')
  BY <1>1, <1>4 DEF EngineInv, RevisionsSound, RevisionSound, SameContent
<1>7. AppliedSound(planChanges', planRevisions')
  BY <1>1, <1>4 DEF EngineInv, ChangeSound, AppliedSound, SameContent
<1> QED
  BY <1>1, <1>3, <1>4, <1>5, <1>6, <1>7, PlanStep

\* The row of a change set that was decided.
Decisions == {"draft", "applied", "rejected"}
Decided(y, s, v) == [y EXCEPT !.status = s, !.applied = v]

LEMMA DecidedRow ==
    ASSUME NEW y \in ChangeRows, NEW s \in Decisions, NEW v \in Nat
    PROVE  LET w == Decided(y, s, v) IN
           /\ w \in ChangeRows /\ w.run = y.run /\ w.revision = y.revision
           /\ w.operations = y.operations /\ w.status = s /\ w.applied = v
<1> DEFINE Os == OperationRows
           Ss == {"draft", "applied", "rejected"}
           Columns == [run : Nat, revision : Nat, status : Ss, applied : Nat, operations : Os]
<1>1. y \in Columns /\ s \in Ss /\ Columns = ChangeRows
  BY DEF ChangeRows, Decisions
<1> HIDE DEF Os, Ss
<1>2. LET w == [y EXCEPT !.status = s, !.applied = v] IN
      /\ w \in Columns /\ w.run = y.run /\ w.revision = y.revision
      /\ w.operations = y.operations /\ w.status = s /\ w.applied = v
  BY <1>1
<1> HIDE DEF Columns
<1> QED
  BY <1>1, <1>2 DEF Decided

Decides(k, s, v, ds) ==
    /\ k \in DOMAIN planChanges /\ s \in Decisions /\ v \in Nat
    /\ ds = [planChanges EXCEPT ![k] = Decided(planChanges[k], s, v)]

LEMMA DecisionKeeps ==
    ASSUME EngineInv, NEW k, NEW s, NEW v, NEW ds, Decides(k, s, v, ds)
    PROVE  /\ ds \in Seq(ChangeRows) /\ SameRequest(planChanges, ds)
           /\ ds[k].status = s /\ ds[k].applied = v
           /\ \A j \in DOMAIN planChanges : j # k => ds[j] = planChanges[j]
<1> DEFINE y == Decided(planChanges[k], s, v)
<1>1. planChanges \in Seq(ChangeRows) /\ planChanges[k] \in ChangeRows
  BY DEF EngineInv, EngineRows, Decides
<1>2. /\ y \in ChangeRows /\ y.run = planChanges[k].run /\ y.revision = planChanges[k].revision
      /\ y.operations = planChanges[k].operations /\ y.status = s /\ y.applied = v
  <2>1. s \in Decisions /\ v \in Nat
    BY DEF Decides
  <2> QED
    BY <1>1, <2>1, DecidedRow
<1>3. ds = [planChanges EXCEPT ![k] = y] /\ k \in DOMAIN planChanges
  BY DEF Decides
<1> HIDE DEF y
<1>4. ds \in Seq(ChangeRows) /\ DOMAIN ds = DOMAIN planChanges /\ ds[k] = y
      /\ \A j \in DOMAIN planChanges : j # k => ds[j] = planChanges[j]
  BY <1>1, <1>2, <1>3
<1> QED
  BY <1>2, <1>4 DEF SameRequest

LEMMA RejectChangeSetStep ==
    ASSUME EngineInv, NEW k \in DOMAIN planChanges, Engine!RejectChangeSet(k)
    PROVE  EngineInv'
<1> DEFINE y == planChanges[k]
           z == Decided(y, "rejected", y.applied)
<1>1. UNCHANGED <<world, planRevisions, planRuns, drivers, desk>>
  BY DEF Engine!RejectChangeSet
<1>2. y \in ChangeRows /\ y.applied \in Nat /\ planRevisions \in Seq(RevisionRows)
      /\ planRevisions # <<>> /\ OneBaseline(planRevisions)
  <2>1. y \in ChangeRows /\ planRevisions \in Seq(RevisionRows) /\ planRevisions # <<>>
        /\ OneBaseline(planRevisions)
    BY DEF EngineInv, EngineRows
  <2> QED
    BY <2>1 DEF ChangeRows
<1>3. planChanges' = [planChanges EXCEPT ![k] = z]
  <2>1. planChanges' = [planChanges EXCEPT ![k] = [y EXCEPT !.status = "rejected"]]
    BY DEF Engine!RejectChangeSet
  <2>2. [y EXCEPT !.status = "rejected"] = z
    BY <1>2 DEF Decided, ChangeRows
  <2> QED
    BY <2>1, <2>2
<1>4. /\ planChanges' \in Seq(ChangeRows) /\ SameRequest(planChanges, planChanges')
      /\ planChanges'[k].status = "rejected" /\ planChanges'[k].applied = planChanges[k].applied
      /\ \A j \in DOMAIN planChanges : j # k => planChanges'[j] = planChanges[j]
  <2>1. "rejected" \in Decisions
    BY DEF Decisions
  <2> HIDE DEF z
  <2>2. planChanges' = [planChanges EXCEPT ![k] = Decided(planChanges[k], "rejected", y.applied)]
    BY <1>3 DEF z
  <2>3. Decides(k, "rejected", y.applied, planChanges')
    BY <1>2, <2>1, <2>2 DEF Decides
  <2>4. planChanges[k].applied = y.applied
    OBVIOUS
  <2> HIDE DEF y
  <2> QED
    BY <2>3, <2>4, DecisionKeeps
<1> HIDE DEF z
<1>5. SameContent(planRevisions, planRevisions')
  BY <1>1 DEF SameContent
<1>6. RevisionsSound(planRevisions', planChanges')
  <2> SUFFICES ASSUME NEW v \in DOMAIN planRevisions
               PROVE  RevisionSound(v, planRevisions[v], planChanges')
    BY <1>1 DEF RevisionsSound
  <2>1. RevisionSound(v, planRevisions[v], planChanges)
    BY DEF EngineInv
  <2>2. CASE planRevisions[v].change = k
    BY <1>4, <2>1, <2>2 DEF RevisionSound, SameRequest
  <2>3. CASE planRevisions[v].change # k
    BY <1>4, <2>1, <2>3 DEF RevisionSound, SameRequest
  <2> QED
    BY <2>2, <2>3
<1>7. AppliedSound(planChanges', planRevisions')
  BY <1>1, <1>4 DEF EngineInv, ChangeSound, AppliedSound, SameRequest
<1> QED
  BY <1>1, <1>2, <1>4, <1>5, <1>6, <1>7, PlanStep

\* A new node: what the feedback asked for, behind every node of the copy.
NodesFresh(o, N) == \A i \in DOMAIN o.nodes : o.nodes[i].code \notin DOMAIN N
SameNode(a, b) ==
    a.kind = b.kind /\ a.parent = b.parent /\ a.status = b.status /\ a.required = b.required

LEMMA NodesGrow ==
    ASSUME NEW N, NodesSound(N), NEW M, NEW A, IsFiniteSet(A), A \subseteq NodeCodes,
           A \cap DOMAIN N = {}, DOMAIN M = DOMAIN N \cup A,
           \A c \in DOMAIN N : M[c] \in Engine!PlanNode /\ SameNode(M[c], N[c]),
           \A c \in A : /\ M[c] \in Engine!PlanNode /\ M[c].status = "planned"
                        /\ Open(N, M[c].parent),
           M = [c \in DOMAIN M |-> M[c]]
    PROVE  NodesSound(M)
<1>1. IsFiniteSet(DOMAIN M) /\ DOMAIN M \subseteq NodeCodes
  <2>1. IsFiniteSet(DOMAIN N) /\ DOMAIN N \subseteq NodeCodes
    BY DEF NodesSound
  <2> QED
    BY <2>1, FS_Union
<1>2. M \in [DOMAIN M -> Engine!PlanNode]
  <2>1. \A c \in DOMAIN M : M[c] \in Engine!PlanNode
    OBVIOUS
  <2> QED
    BY <2>1
<1>3. Engine!ParentsAreStages(M)
  <2> SUFFICES ASSUME NEW c \in DOMAIN M, M[c].parent # Engine!NoParent
               PROVE  /\ M[c].parent \in DOMAIN M
                      /\ M[M[c].parent].kind = "stage"
                      /\ M[M[c].parent].status = "completed" /\ M[c].required
                           => M[c].status # "planned"
    BY DEF Engine!ParentsAreStages
  <2> DEFINE p == M[c].parent
  <2>1. CASE c \in A
    <3>1. p \in DOMAIN N /\ N[p].kind = "stage" /\ N[p].status # "completed"
      BY <2>1 DEF Open
    <3> QED
      BY <3>1 DEF SameNode
  <2>2. CASE c \in DOMAIN N
    <3>1. SameNode(M[c], N[c])
      BY <2>2
    <3>2. N[c].parent = p /\ p # Engine!NoParent
      BY <3>1 DEF SameNode
    <3>3. /\ p \in DOMAIN N /\ N[p].kind = "stage"
          /\ N[p].status = "completed" /\ N[c].required => N[c].status # "planned"
      BY <2>2, <3>2, ParentIsStage
    <3>4. SameNode(M[p], N[p]) /\ p \in DOMAIN M
      BY <3>3
    <3> QED
      BY <3>1, <3>3, <3>4 DEF SameNode
  <2> QED
    BY <2>1, <2>2
<1> QED
  BY <1>1, <1>2, <1>3 DEF NodesSound

LEMMA OperationFields ==
    ASSUME NEW o \in OperationRows
    PROVE  /\ o.nodes \in Seq([code : NodeCodes, node : Engine!PlanNode])
           /\ o.deps \in SUBSET (Engine!Codes \X Engine!Codes)
           /\ o.requirements \in SUBSET (Engine!Codes \X STRING)
           /\ o.durations \in SUBSET (Engine!Codes \X Nat)
BY DEF OperationRows

LEMMA TopIsNatural ==
    ASSUME NEW N, NodesSound(N), DOMAIN N # {}
    PROVE  Engine!Max({N[c].sequence : c \in DOMAIN N}) \in Nat
<1> DEFINE C == DOMAIN N
           f == [c \in C |-> N[c].sequence]
           R == {f[c] : c \in C}
<1>1. IsFiniteSet(C) /\ C # {}
  BY DEF NodesSound
<1>2. f \in Surjection(C, R)
  BY DEF Surjection
<1>3. R \in SUBSET Nat /\ R # {}
  <2>1. \A c \in C : N[c].sequence \in Nat
    BY NodeFields
  <2> QED
    BY <1>1, <2>1
<1>4. R = {N[c].sequence : c \in DOMAIN N}
  OBVIOUS
<1> HIDE DEF C, f, R
<1>5. IsFiniteSet(R)
  BY <1>1, <1>2, FS_Surjection
<1>6. PICK x \in R : Greatest(x, R)
  BY <1>3, <1>5, FiniteBounded DEF Bounded
<1>7. Engine!Max(R) \in R
  BY <1>6, Zenon DEF Engine!Max, Greatest
<1> QED
  BY <1>3, <1>4, <1>7

\* The node rows that are written.
Resequenced(n, s) == [n EXCEPT !.sequence = s]
Lengthened(n, d) == [n EXCEPT !.duration = d]

LEMMA NodeRows ==
    ASSUME NEW n \in Engine!PlanNode, NEW s \in Nat
    PROVE  /\ Resequenced(n, s) \in Engine!PlanNode /\ SameNode(Resequenced(n, s), n)
           /\ Lengthened(n, s) \in Engine!PlanNode /\ SameNode(Lengthened(n, s), n)
<1> DEFINE Skills == SUBSET STRING
           Kinds2 == {"stage", "work"}
           Status2 == {"planned", "completed", "cancelled"}
           Codes == Engine!Codes
           Columns == [sequence : Nat, kind : Kinds2, parent : Codes,
                       status : Status2, required : BOOLEAN,
                       cost : Nat, duration : Nat, people : Nat, skills : Skills,
                       resources : Nat, closures : Skills]
<1>1. n \in Columns /\ Columns = Engine!PlanNode
  BY DEF Engine!PlanNode
<1> HIDE DEF Skills, Kinds2, Status2, Codes
<1>2. LET m == [n EXCEPT !.sequence = s] IN
      /\ m \in Columns /\ m.kind = n.kind /\ m.parent = n.parent /\ m.status = n.status
      /\ m.required = n.required
  BY <1>1
<1>3. LET m == [n EXCEPT !.duration = s] IN
      /\ m \in Columns /\ m.kind = n.kind /\ m.parent = n.parent /\ m.status = n.status
      /\ m.required = n.required
  BY <1>1
<1> HIDE DEF Columns
<1> QED
  BY <1>1, <1>2, <1>3 DEF Resequenced, Lengthened, SameNode

LEMMA NewNodesSound ==
    ASSUME NEW z, NodesSound(z.nodes), DOMAIN z.nodes # {}, NEW o \in OperationRows,
           Suits(o, z.nodes), NodesFresh(o, z.nodes)
    PROVE  NodesSound(Engine!NewNodes(z, o))
<1> DEFINE N == z.nodes
           I == DOMAIN o.nodes
           top == Engine!Max({N[c].sequence : c \in DOMAIN N})
           codes == {o.nodes[i].code : i \in I}
           at(c) == CHOOSE i \in I : o.nodes[i].code = c
           longer(c) == {d \in o.durations : d[1] = c}
           M == Engine!NewNodes(z, o)
           cell(c) == IF c \in codes THEN Resequenced(o.nodes[at(c)].node, top + 10 * at(c))
                      ELSE IF longer(c) = {} THEN N[c]
                      ELSE Lengthened(N[c], (CHOOSE d \in longer(c) : TRUE)[2])
<1>1. M = [c \in DOMAIN N \cup codes |-> cell(c)]
  BY DEF Engine!NewNodes, Resequenced, Lengthened
<1>2. /\ Len(o.nodes) \in Nat /\ I = 1..Len(o.nodes)
      /\ \A i \in I : o.nodes[i].code \in NodeCodes /\ o.nodes[i].node \in Engine!PlanNode
  <2> DEFINE S == [code : NodeCodes, node : Engine!PlanNode]
  <2>1. o.nodes \in Seq(S)
    BY OperationFields
  <2>2. \A a \in S : a.code \in NodeCodes /\ a.node \in Engine!PlanNode
    OBVIOUS
  <2> HIDE DEF S
  <2>3. Len(o.nodes) \in Nat /\ I = 1..Len(o.nodes) /\ \A i \in I : o.nodes[i] \in S
    BY <2>1
  <2> QED
    BY <2>2, <2>3
<1>3. IsFiniteSet(codes)
  <2> DEFINE f == [i \in I |-> o.nodes[i].code]
  <2>1. f \in Surjection(I, codes)
    BY DEF Surjection
  <2>2. IsFiniteSet(I)
    BY <1>2, FS_Interval
  <2> HIDE DEF f, I, codes
  <2> QED
    BY <2>1, <2>2, FS_Surjection
<1>4. codes \subseteq NodeCodes /\ codes \cap DOMAIN N = {}
  BY <1>2 DEF NodesFresh
<1>5. top \in Nat
  <2> HIDE DEF N
  <2> QED
    BY TopIsNatural DEF N
<1>6. \A c \in codes : at(c) \in I /\ o.nodes[at(c)].code = c
  OBVIOUS
<1> HIDE DEF top, M, at
<1>7. \A c \in codes :
        /\ cell(c) \in Engine!PlanNode /\ cell(c).status = "planned" /\ Open(N, cell(c).parent)
  <2> SUFFICES ASSUME NEW c \in codes
               PROVE  /\ cell(c) \in Engine!PlanNode /\ cell(c).status = "planned"
                      /\ Open(N, cell(c).parent)
    OBVIOUS
  <2> DEFINE n == o.nodes[at(c)].node
             s == top + 10 * at(c)
  <2>1. at(c) \in I /\ n \in Engine!PlanNode
    BY <1>2, <1>6
  <2>2. s \in Nat
    BY <1>2, <1>5, <2>1
  <2>3. n.status = "planned" /\ Open(N, n.parent)
    BY <2>1 DEF Suits, Open
  <2>4. cell(c) = Resequenced(n, s)
    OBVIOUS
  <2> HIDE DEF n, s, cell
  <2>5. Resequenced(n, s) \in Engine!PlanNode /\ SameNode(Resequenced(n, s), n)
    BY <2>1, <2>2, NodeRows
  <2> QED
    BY <2>3, <2>4, <2>5 DEF SameNode
<1>8. \A c \in DOMAIN N : cell(c) \in Engine!PlanNode /\ SameNode(cell(c), N[c])
  <2> SUFFICES ASSUME NEW c \in DOMAIN N
               PROVE  cell(c) \in Engine!PlanNode /\ SameNode(cell(c), N[c])
    OBVIOUS
  <2>1. N[c] \in Engine!PlanNode /\ c \notin codes
    BY <1>4, NodeFields
  <2>2. CASE longer(c) = {}
    <3>1. cell(c) = N[c]
      BY <2>1, <2>2
    <3> HIDE DEF cell
    <3> QED
      BY <2>1, <3>1 DEF SameNode
  <2>3. CASE longer(c) # {}
    <3> DEFINE e == CHOOSE d \in longer(c) : TRUE
    <3>1. e \in longer(c)
      BY <2>3
    <3>2. e[2] \in Nat
      <4>1. e \in o.durations /\ o.durations \subseteq Engine!Codes \X Nat
        BY <3>1, OperationFields
      <4> HIDE DEF e
      <4> QED
        BY <4>1
    <3>3. cell(c) = Lengthened(N[c], e[2])
      BY <2>1, <2>3
    <3> HIDE DEF e, cell
    <3> QED
      BY <2>1, <3>2, <3>3, NodeRows
  <2> QED
    BY <2>2, <2>3
<1> HIDE DEF cell, codes, N
<1>9. /\ DOMAIN M = DOMAIN N \cup codes /\ M = [c \in DOMAIN M |-> M[c]]
      /\ \A c \in DOMAIN M : M[c] = cell(c)
  BY <1>1
<1>10. NodesSound(M)
  BY <1>3, <1>4, <1>7, <1>8, <1>9, NodesGrow DEF N
<1> QED
  BY <1>10 DEF M

\* The revision a change set makes.
NextRevision(z, o, k) ==
    [nodes |-> Engine!NewNodes(z, o), deps |-> z.deps \cup o.deps,
     requirements |-> z.requirements \cup o.requirements, status |-> "draft", change |-> k]

LEMMA NextRevisionRow ==
    ASSUME NEW z \in RevisionRows, NEW o \in OperationRows, NEW k \in Nat,
           NodesSound(Engine!NewNodes(z, o))
    PROVE  NextRevision(z, o, k) \in RevisionRows
<1> DEFINE Maps == UNION {[C -> Engine!PlanNode] : C \in SUBSET NodeCodes}
           Ds == SUBSET (Engine!Codes \X Engine!Codes)
           Qs == SUBSET (Engine!Codes \X STRING)
           Ss == {"draft", "published", "retired"}
           M == Engine!NewNodes(z, o)
<1>1. z \in [nodes : Maps, deps : Ds, requirements : Qs, status : Ss, change : Nat]
  BY DEF RevisionRows
<1>2. M \in Maps
  <2> HIDE DEF M
  <2>1. NodesSound(M)
    BY DEF M
  <2>2. DOMAIN M \in SUBSET NodeCodes /\ M \in [DOMAIN M -> Engine!PlanNode]
    BY <2>1 DEF NodesSound
  <2> QED
    BY <2>2
<1>3. o.deps \in Ds /\ o.requirements \in Qs
  BY OperationFields
<1>4. \A a, b \in Ds : a \cup b \in Ds
  OBVIOUS
<1>5. \A a, b \in Qs : a \cup b \in Qs
  OBVIOUS
<1>6. "draft" \in Ss
  OBVIOUS
<1> HIDE DEF Maps, Ds, Qs, Ss, M
<1>7. z.deps \cup o.deps \in Ds /\ z.requirements \cup o.requirements \in Qs
  BY <1>1, <1>3, <1>4, <1>5
<1>8. NextRevision(z, o, k)
        \in [nodes : Maps, deps : Ds, requirements : Qs, status : Ss, change : Nat]
  BY <1>2, <1>6, <1>7 DEF NextRevision, M
<1> QED
  BY <1>8 DEF RevisionRows, Maps, Ds, Qs, Ss

LEMMA ApplyChangeSetStep ==
    ASSUME EngineInv, NEW k \in DOMAIN planChanges, Engine!ApplyChangeSet(k)
    PROVE  EngineInv'
<1> DEFINE y == planChanges[k]
           z == planRevisions[y.revision]
           o == y.operations
           new == NextRevision(z, o, k)
           n == Len(planRevisions) + 1
           vs == Append(planRevisions, new)
           ws == Engine!Publish(n, vs)
<1>1. /\ UNCHANGED <<world, planRuns, drivers, desk>> /\ y.status = "draft"
      /\ planRevisions' = ws
      /\ NodesFresh(o, z.nodes)
  BY DEF Engine!ApplyChangeSet, Engine!Applicable, NodesFresh, NextRevision
<1>2. /\ planRevisions \in Seq(RevisionRows) /\ planRevisions # <<>>
      /\ planChanges \in Seq(ChangeRows) /\ y \in ChangeRows /\ k \in Nat /\ k # 0
  BY DEF EngineInv, EngineRows
<1>3. /\ y.revision \in DOMAIN planRevisions /\ DOMAIN z.nodes # {} /\ Suits(o, z.nodes)
      /\ z \in RevisionRows /\ NodesSound(z.nodes) /\ o \in OperationRows
  <2>1. y.revision \in DOMAIN planRevisions /\ DOMAIN z.nodes # {} /\ Suits(o, z.nodes)
    BY DEF EngineInv, ChangeSound
  <2>2. o \in OperationRows
    BY <1>2 DEF ChangeRows
  <2> QED
    BY <1>2, <2>1, <2>2, RevisionFields
<1>4. planChanges' = [planChanges EXCEPT ![k] = Decided(y, "applied", n)]
  BY DEF Engine!ApplyChangeSet, Decided
<1> HIDE DEF o, z, y
<1>5. NodesSound(Engine!NewNodes(z, o))
  BY <1>1, <1>3, NewNodesSound
<1>6. new \in RevisionRows /\ new.nodes = Engine!NewNodes(z, o) /\ new.change = k
  BY <1>2, <1>3, <1>5, NextRevisionRow DEF NextRevision
<1> HIDE DEF new
<1>7. /\ vs \in Seq(RevisionRows) /\ n \in DOMAIN vs /\ n \in Nat /\ n # 1 /\ vs[n] = new
      /\ n \notin DOMAIN planRevisions
      /\ DOMAIN planRevisions \subseteq DOMAIN vs
      /\ \A v \in DOMAIN planRevisions : vs[v] = planRevisions[v]
      /\ \A v \in DOMAIN vs : v \in DOMAIN planRevisions \/ v = n
  <2>1. Len(planRevisions) # 0 /\ Len(planRevisions) \in Nat
    BY <1>2
  <2> QED
    BY <1>2, <1>6, <2>1
<1> HIDE DEF vs, n
<1>8. /\ ws \in Seq(RevisionRows) /\ DOMAIN ws = DOMAIN vs
      /\ SameContent(vs, ws) /\ OneBaseline(ws) /\ ws # <<>>
  BY <1>7, PublishIs
<1> HIDE DEF ws
<1>9. SameContent(planRevisions, planRevisions')
  BY <1>1, <1>7, <1>8 DEF SameContent
<1>10. /\ planRevisions'[n].nodes = new.nodes /\ planRevisions'[n].change = k
       /\ n \in DOMAIN planRevisions'
  BY <1>1, <1>6, <1>7, <1>8 DEF SameContent
<1>11. /\ planChanges' \in Seq(ChangeRows) /\ SameRequest(planChanges, planChanges')
       /\ planChanges'[k].status = "applied" /\ planChanges'[k].applied = n
       /\ \A j \in DOMAIN planChanges : j # k => planChanges'[j] = planChanges[j]
  <2>1. Decides(k, "applied", n, planChanges')
    BY <1>4, <1>7 DEF Decides, Decisions, y
  <2> QED
    BY <2>1, DecisionKeeps
<1>12. RevisionsSound(planRevisions', planChanges')
  <2> SUFFICES ASSUME NEW v \in DOMAIN planRevisions'
               PROVE  RevisionSound(v, planRevisions'[v], planChanges')
    BY DEF RevisionsSound
  <2>1. CASE v = n
    BY <1>5, <1>6, <1>7, <1>10, <1>11, <2>1 DEF RevisionSound, SameRequest
  <2>2. CASE v \in DOMAIN planRevisions
    <3>1. RevisionSound(v, planRevisions[v], planChanges)
      BY <2>2 DEF EngineInv
    <3>2. planRevisions'[v].nodes = planRevisions[v].nodes
          /\ planRevisions'[v].change = planRevisions[v].change
      BY <1>9, <2>2 DEF SameContent
    <3>3. v # 1 => planRevisions[v].change # k
      BY <1>1, <3>1 DEF RevisionSound, y
    <3> QED
      BY <1>11, <3>1, <3>2, <3>3 DEF RevisionSound, SameRequest
  <2> QED
    BY <1>1, <1>7, <1>8, <2>1, <2>2
<1>13. AppliedSound(planChanges', planRevisions')
  <2> SUFFICES ASSUME NEW j \in DOMAIN planChanges, planChanges'[j].status = "applied"
               PROVE  /\ planChanges'[j].applied \in DOMAIN planRevisions'
                      /\ planChanges'[j].applied # 1
                      /\ planRevisions'[planChanges'[j].applied].change = j
    BY <1>11 DEF AppliedSound, SameRequest
  <2>1. CASE j = k
    BY <1>7, <1>10, <1>11, <2>1
  <2>2. CASE j # k
    <3>1. ChangeSound(j, planChanges[j], planRuns, planRevisions) /\ planChanges'[j] = planChanges[j]
      BY <1>11, <2>2 DEF EngineInv
    <3> QED
      BY <1>9, <3>1 DEF ChangeSound, SameContent
  <2> QED
    BY <2>1, <2>2
<1> QED
  BY <1>1, <1>8, <1>9, <1>11, <1>12, <1>13, PlanStep

-----------------------------------------------------------------------------
(* The engine keeps what is said of its rows.                               *)

LEMMA EngineBegins ==
    ASSUME Engine!PlanSimulationAssumption, Engine!Init
    PROVE  EngineInv
<1> DEFINE z == [nodes |-> Plan.nodes, deps |-> Plan.deps, requirements |-> {},
                 status |-> "published", change |-> 0]
<1>1. /\ world \in Situations /\ planRevisions = <<z>>
      /\ planRuns = <<>> /\ drivers = <<>> /\ planChanges = <<>> /\ desk = Engine!Idle
  BY DEF Engine!Init
<1>2. NodesSound(Plan.nodes)
  <2>1. IsFiniteSet(DOMAIN Plan.nodes)
    BY EngineFinite DEF Engine!PlanSimulationAssumption
  <2> QED
    BY <2>1 DEF Engine!PlanSimulationAssumption, NodesSound, NodeCodes
<1>3. z \in RevisionRows
  <2> DEFINE Maps == UNION {[C -> Engine!PlanNode] : C \in SUBSET NodeCodes}
             Ds == SUBSET (Engine!Codes \X Engine!Codes)
             Qs == SUBSET (Engine!Codes \X STRING)
             Ss == {"draft", "published", "retired"}
             none == {}
  <2>1. Plan.nodes \in Maps
    <3>1. DOMAIN Plan.nodes \in SUBSET NodeCodes /\ Plan.nodes \in [DOMAIN Plan.nodes -> Engine!PlanNode]
      BY <1>2 DEF NodesSound
    <3> QED
      BY <3>1
  <2>2. Plan.deps \in Ds
    <3> DEFINE N == Plan.nodes
    <3>1. DOMAIN N \subseteq Engine!Codes
      BY <1>2 DEF NodesSound, NodeCodes
    <3>2. Plan.deps \subseteq (DOMAIN N) \X (DOMAIN N)
      BY DEF Engine!PlanSimulationAssumption
    <3> HIDE DEF N
    <3> QED
      BY <3>1, <3>2
  <2>3. none \in Qs /\ "published" \in Ss
    OBVIOUS
  <2>4. z = [nodes |-> Plan.nodes, deps |-> Plan.deps, requirements |-> none,
             status |-> "published", change |-> 0]
    OBVIOUS
  <2> HIDE DEF Maps, Ds, Qs, Ss, none, z
  <2>5. z \in [nodes : Maps, deps : Ds, requirements : Qs, status : Ss, change : Nat]
    BY <2>1, <2>2, <2>3, <2>4
  <2> QED
    BY <2>5 DEF RevisionRows, Maps, Ds, Qs, Ss
<1>4. z.nodes = Plan.nodes /\ z.status = "published" /\ z.change = 0
  OBVIOUS
<1> HIDE DEF z
<1>5. /\ planRevisions \in Seq(RevisionRows) /\ planRevisions # <<>>
      /\ DOMAIN planRevisions = {1} /\ planRevisions[1] = z
  BY <1>1, <1>3
<1>6. /\ planRuns \in Seq(RunRows) /\ drivers \in Seq(DriverRows) /\ Len(drivers) = Len(planRuns)
      /\ planChanges \in Seq(ChangeRows)
      /\ DOMAIN planRuns = {} /\ DOMAIN planChanges = {}
  BY <1>1
<1>7. EngineRows
  BY <1>1, <1>5, <1>6 DEF EngineRows
<1>8. OneBaseline(planRevisions)
  BY <1>4, <1>5 DEF OneBaseline
<1>9. \A v \in DOMAIN planRevisions : RevisionSound(v, planRevisions[v], planChanges)
  BY <1>2, <1>4, <1>5 DEF RevisionSound
<1> QED
  BY <1>6, <1>7, <1>8, <1>9 DEF EngineInv

LEMMA EngineSteps ==
    ASSUME Engine!PlanSimulationAssumption, EngineInv, Engine!Next
    PROVE  EngineInv'
<1>1. CASE Engine!ChangeWorld
  BY <1>1, ChangeWorldStep
<1>2. CASE \E limit \in Limits : Engine!CreateRun(limit)
  BY <1>2, CreateRunStep
<1>3. ASSUME NEW r \in DOMAIN planRuns, Engine!Drive(r) \/ Engine!BeginAbort(r)
      PROVE  EngineInv'
  <2>1. CASE Engine!CompleteNode(r)
    BY <2>1, CompleteNodeStep
  <2>2. CASE Engine!FailNode(r)
    BY <2>2, FailNodeStep
  <2>3. CASE Engine!CompleteRun(r)
    BY <2>3, CompleteRunStep
  <2>4. CASE Engine!LeaveLoop(r)
    BY <2>4, LeaveLoopStep
  <2>5. CASE Engine!PauseRun(r)
    BY <2>5, PauseRunStep
  <2>6. CASE Engine!BeginAbort(r)
    BY <2>6, BeginAbortStep
  <2> QED
    BY <1>3, <2>1, <2>2, <2>3, <2>4, <2>5, <2>6 DEF Engine!Drive, Engine!Advance
<1>4. CASE Engine!AbortRun
  BY <1>4, AbortRunStep
<1>5. ASSUME NEW k \in DOMAIN planChanges,
             Engine!ApplyChangeSet(k) \/ Engine!ReapplyChangeSet(k) \/ Engine!RejectChangeSet(k)
      PROVE  EngineInv'
  BY <1>5, ApplyChangeSetStep, ReapplyChangeSetStep, RejectChangeSetStep
<1> QED
  BY <1>1, <1>2, <1>3, <1>4, <1>5 DEF Engine!Next

LEMMA EngineStutters == ASSUME EngineInv, UNCHANGED engineVars PROVE EngineInv'
BY DEF engineVars, EngineInv, EngineRows, OneBaseline

\* Revisions keep their content.
LEMMA RevisionsKeepStep ==
    ASSUME EngineInv, [Engine!Next]_engineVars
    PROVE  Engine!RevisionsKept
<1>1. CASE UNCHANGED planRevisions
  BY <1>1 DEF Engine!RevisionsKept
<1>2. ASSUME NEW k \in DOMAIN planChanges, Engine!ApplyChangeSet(k) PROVE Engine!RevisionsKept
  <2> DEFINE y == planChanges[k]
             z == planRevisions[y.revision]
             o == y.operations
             n == Len(planRevisions) + 1
             new == NextRevision(z, o, k)
             vs == Append(planRevisions, new)
  <2>1. planRevisions \in Seq(RevisionRows) /\ new \in RevisionRows
    <3>1. NodesFresh(o, z.nodes)
      BY <1>2 DEF Engine!ApplyChangeSet, Engine!Applicable, NodesFresh
    <3>2. planRevisions \in Seq(RevisionRows) /\ y \in ChangeRows /\ k \in Nat
      BY DEF EngineInv, EngineRows
    <3>3. y.revision \in DOMAIN planRevisions /\ DOMAIN z.nodes # {} /\ Suits(o, z.nodes)
      BY DEF EngineInv, ChangeSound
    <3>4. o \in OperationRows /\ z \in RevisionRows /\ NodesSound(z.nodes)
      BY <3>2, <3>3, RevisionFields DEF ChangeRows
    <3> HIDE DEF y, z, o
    <3> QED
      BY <3>1, <3>2, <3>3, <3>4, NewNodesSound, NextRevisionRow
  <2>2. planRevisions' = Engine!Publish(n, vs)
    BY <1>2 DEF Engine!ApplyChangeSet, NextRevision
  <2> HIDE DEF new
  <2>3. DOMAIN planRevisions \subseteq DOMAIN vs /\ vs \in Seq(RevisionRows) /\ n \in DOMAIN vs
        /\ \A v \in DOMAIN planRevisions : vs[v] = planRevisions[v]
    BY <2>1
  <2> HIDE DEF vs, n
  <2>4. SameContent(vs, planRevisions')
    BY <2>2, <2>3, PublishIs
  <2> QED
    BY <2>3, <2>4 DEF Engine!RevisionsKept, SameContent
<1>3. ASSUME NEW k \in DOMAIN planChanges, Engine!ReapplyChangeSet(k) PROVE Engine!RevisionsKept
  <2> DEFINE v == planChanges[k].applied
  <2>1. planRevisions' = Engine!Publish(v, planRevisions) /\ v \in DOMAIN planRevisions
        /\ planRevisions \in Seq(RevisionRows)
    BY <1>3 DEF Engine!ReapplyChangeSet, EngineInv, EngineRows, ChangeSound
  <2> HIDE DEF v
  <2>2. SameContent(planRevisions, planRevisions')
    BY <2>1, PublishIs
  <2> QED
    BY <2>2 DEF Engine!RevisionsKept, SameContent
<1>4. Engine!Next => UNCHANGED planRevisions
                     \/ \E k \in DOMAIN planChanges :
                          Engine!ApplyChangeSet(k) \/ Engine!ReapplyChangeSet(k)
  BY DEF Engine!Next, Engine!ChangeWorld, Engine!CreateRun, Engine!Drive, Engine!Advance,
         Engine!CompleteNode, Engine!FailNode, Engine!CompleteRun, Engine!LeaveLoop,
         Engine!PauseRun, Engine!BeginAbort, Engine!AbortRun, Engine!RejectChangeSet
<1>5. UNCHANGED engineVars => UNCHANGED planRevisions
  BY DEF engineVars
<1> QED
  BY <1>1, <1>2, <1>3, <1>4, <1>5

-----------------------------------------------------------------------------
(* What the rows say of the runs.                                           *)

LEMMA TurnsAre == \A x, kind : Engine!Kinds(x, kind) = TurnsOf(x, kind)
BY DEF Engine!Kinds, TurnsOf

LEMMA RowsHaveTypes == ASSUME EngineInv PROVE Engine!TypeOK
<1>1. world \in Situations /\ DOMAIN drivers = DOMAIN planRuns
  BY DEF EngineInv, EngineRows
<1>2. \A v \in DOMAIN planRevisions :
         planRevisions[v].status \in {"draft", "published", "retired"}
  <2> SUFFICES ASSUME NEW v \in DOMAIN planRevisions
               PROVE  planRevisions[v].status \in {"draft", "published", "retired"}
    OBVIOUS
  <2>1. planRevisions[v] \in RevisionRows
    BY DEF EngineInv, EngineRows
  <2> QED
    BY <2>1 DEF RevisionRows
<1>3. \A k \in DOMAIN planChanges : planChanges[k].status \in {"draft", "applied", "rejected"}
  <2> SUFFICES ASSUME NEW k \in DOMAIN planChanges
               PROVE  planChanges[k].status \in {"draft", "applied", "rejected"}
    OBVIOUS
  <2>1. planChanges[k] \in ChangeRows
    BY DEF EngineInv, EngineRows
  <2> QED
    BY <2>1 DEF ChangeRows
<1>4. ASSUME NEW r \in DOMAIN planRuns
      PROVE  /\ planRuns[r].status \in Engine!Statuses
             /\ planRuns[r].revision \in DOMAIN planRevisions
             /\ planRuns[r].states \in [DOMAIN Engine!Nodes(planRuns[r]) -> Engine!StateStatuses]
             /\ \A i \in DOMAIN planRuns[r].failures :
                  planRuns[r].failures[i].type \in Engine!FailureTypes
  <2> DEFINE x == planRuns[r]
  <2>1. x \in RunRows /\ x.revision \in DOMAIN planRevisions
        /\ RunSound(r, x, drivers[r], planChanges, planRevisions)
    BY EngineRowFields
  <2>2. DOMAIN x.states = DOMAIN Engine!Nodes(x)
    BY <2>1 DEF RunSound, Story, Engine!Nodes
  <2> HIDE DEF x
  <2>3. \A i \in DOMAIN x.failures : x.failures[i].type \in Engine!FailureTypes
    <3>1. x.failures \in Seq(FailureRows)
      BY <2>1, RunFields DEF FailureRows
    <3>2. \A i \in DOMAIN x.failures : x.failures[i] \in FailureRows
      BY <3>1
    <3> QED
      BY <3>2 DEF FailureRows
  <2>4. x.status \in Engine!Statuses /\ x.states \in [DOMAIN x.states -> Engine!StateStatuses]
    BY <2>1, RunFields
  <2> QED
    BY <2>1, <2>2, <2>3, <2>4 DEF x
<1> QED
  BY <1>1, <1>2, <1>3, <1>4 DEF Engine!TypeOK

LEMMA RunsAreSound ==
    ASSUME EngineInv
    PROVE  Engine!BudgetAccounted /\ Engine!DependenciesRespected /\ Engine!StagesFollowChildren
<1> SUFFICES ASSUME NEW r \in DOMAIN planRuns
             PROVE  LET x == planRuns[r]
                        N == Engine!Nodes(x) IN
        /\ ~Engine!Aborted(x) => /\ x.spent + x.remaining = x.initial
                                 /\ x.remaining >= 0
                                 /\ x.spent = Engine!Reported(x)
        /\ \A i \in Engine!Kinds(x, "node") : \A d \in DOMAIN N :
              <<x.turns[i].node, d>> \in planRevisions[x.revision].deps =>
                 \/ N[d].status = "completed"
                 \/ \E j \in Engine!Kinds(x, "node") : j < i /\ x.turns[j].node = d
                 \/ N[d].kind = "stage"
        /\ \A i \in Engine!Kinds(x, "node") : LET p == N[x.turns[i].node].parent IN
              p \in DOMAIN x.states =>
                (x.states[p] = "completed"
                   <=> \A c \in Engine!Children(x, p) : Engine!Done(x, c))
  BY DEF Engine!BudgetAccounted, Engine!DependenciesRespected, Engine!StagesFollowChildren
<1> DEFINE x == planRuns[r]
           V == planRevisions[x.revision]
           N == V.nodes
<1>1. Story(x, N, V.deps) /\ NodesSound(N) /\ x \in RunRows
  BY EngineRowFields DEF RunSound
<1>2. Engine!Nodes(x) = N
  BY DEF Engine!Nodes
<1>3. Engine!Reported(x) = ReportedIn(N, x.turns)
  BY ReportedIsSum
<1>4. \A p : Engine!Children(x, p) = Required(N, p)
  BY DEF Engine!Children, Engine!Nodes, Required
<1> HIDE DEF N, V, x
<1>5. \A i \in TurnsOf(x, "node") :
        N[x.turns[i].node].parent \in DOMAIN x.states =>
          (x.states[N[x.turns[i].node].parent] = "completed"
             <=> \A d \in Required(N, N[x.turns[i].node].parent) : Over(x.states, d))
  <2> SUFFICES ASSUME NEW i \in TurnsOf(x, "node"),
                      N[x.turns[i].node].parent \in DOMAIN x.states
               PROVE  x.states[N[x.turns[i].node].parent] = "completed"
                        <=> \A d \in Required(N, N[x.turns[i].node].parent) : Over(x.states, d)
    OBVIOUS
  <2> DEFINE c == x.turns[i].node
             p == N[c].parent
  <2>1. c \in DOMAIN N /\ p \in DOMAIN N
    BY <1>1 DEF Story, Leaves
  <2>2. N[p].kind = "stage"
    BY <1>1, <2>1, ParentIsStage
  <2>3. x.states[p] = "completed" => \A d \in Required(N, p) : Over(x.states, d)
    BY <1>1, <2>1, <2>2 DEF Story, StagesBacked
  <2>4. (\A d \in Required(N, p) : Over(x.states, d)) => x.states[p] = "completed"
    BY <1>1, <2>1 DEF Story, StagesClosed
  <2> QED
    BY <2>3, <2>4
<1>6. /\ TurnsOf(x, "aborted") = {} => /\ x.spent + x.remaining = x.initial
                                       /\ x.remaining >= 0
                                       /\ x.spent = ReportedIn(N, x.turns)
      /\ InOrderOf(x, N, V.deps)
  BY <1>1 DEF Story, Accounted
<1>7. \A p, c : Engine!Done(x, c) <=> Over(x.states, c)
  BY DEF Engine!Done, Over
<1> QED
  BY <1>2, <1>3, <1>4, <1>5, <1>6, <1>7, TurnsAre
     DEF Engine!Aborted, InOrderOf, x, V

LEMMA CountNone == \A S : S = {} => Engine!Cardinality(S) = 0
BY FS_EmptySet, EngineCardinality

LEMMA CountOne == \A S, e : S = {e} => Engine!Cardinality(S) = 1
BY FS_Singleton, EngineCardinality

LEMMA FailuresFeedBack == ASSUME EngineInv PROVE Engine!FailureFeedsBack
<1> SUFFICES ASSUME NEW r \in DOMAIN planRuns
             PROVE  LET x == planRuns[r]
                        K == {k \in DOMAIN planChanges : planChanges[k].run = r} IN
        /\ Engine!Cardinality(Engine!Kinds(x, "failed")) = Len(x.failures)
        /\ Engine!Cardinality(K) = Len(x.failures)
        /\ Len(x.failures) <= 1
        /\ x.status = "failed" =>
             /\ Len(x.failures) = 1
             /\ x.states[x.failures[1].node] = "failed"
             /\ \A k \in K : planChanges[k].revision = x.revision
  BY DEF Engine!FailureFeedsBack
<1> DEFINE x == planRuns[r]
           K == {k \in DOMAIN planChanges : planChanges[k].run = r}
           T == TurnsOf(x, "failed")
<1>1. Failing(r, x, drivers[r], planChanges)
  BY EngineRowFields DEF RunSound
<1>2. \A k \in K : planChanges[k].revision = x.revision
  BY DEF EngineInv, ChangeSound
<1>3. Engine!Kinds(x, "failed") = T
  BY TurnsAre
<1>4. CASE NotFailed(r, x, planChanges)
  <2>1. T = {} /\ K = {} /\ Len(x.failures) = 0 /\ x.status # "failed"
    BY <1>4 DEF NotFailed
  <2> HIDE DEF x, K, T
  <2>2. Engine!Cardinality(T) = 0 /\ Engine!Cardinality(K) = 0
    BY <2>1, CountNone
  <2>3. /\ Engine!Cardinality(Engine!Kinds(x, "failed")) = Len(x.failures)
        /\ Engine!Cardinality(K) = Len(x.failures) /\ Len(x.failures) <= 1
        /\ x.status # "failed"
    <3>1. Len(x.failures) = 0 /\ x.status # "failed"
      BY <2>1
    <3>2. Len(x.failures) <= 1
      BY <3>1
    <3>3. Engine!Cardinality(Engine!Kinds(x, "failed")) = 0
      BY <1>3, <2>2
    <3>4. Engine!Cardinality(K) = 0
      BY <2>2
    <3> QED
      BY <3>1, <3>2, <3>3, <3>4
  <2> QED
    BY <2>3, Zenon DEF x, K
<1>5. CASE FailedOnce(r, x, planChanges)
  <2>1. /\ Len(x.failures) = 1 /\ x.states[x.failures[1].node] = "failed"
        /\ (\E i : T = {i}) /\ \E k : K = {k}
    <3>1. Len(x.failures) = 1 /\ x.states[x.failures[1].node] = "failed"
      BY <1>5 DEF FailedOnce
    <3>2. \E i : T = {i}
      BY <1>5 DEF FailedOnce
    <3>3. PICK k \in DOMAIN planChanges :
            \A m \in DOMAIN planChanges : planChanges[m].run = r <=> m = k
      BY <1>5 DEF FailedOnce
    <3>4. K = {k}
      BY <3>3
    <3> QED
      BY <3>1, <3>2, <3>4
  <2> HIDE DEF x, K, T
  <2>2. Engine!Cardinality(T) = 1 /\ Engine!Cardinality(K) = 1
    BY <2>1, CountOne
  <2> QED
    BY <1>2, <1>3, <2>1, <2>2 DEF x, K
<1> QED
  BY <1>1, <1>4, <1>5 DEF Failing

LEMMA EngineIsSound == ASSUME EngineInv PROVE Engine!PlanRunSound
<1>1. Engine!StoppedRunEnded
  <2> SUFFICES ASSUME NEW r \in DOMAIN planRuns, drivers[r].pc = "done"
               PROVE  planRuns[r].status \in {"failed", "completed", "paused", "aborted"}
    BY EngineRowFields DEF Engine!StoppedRunEnded, EngineInv, EngineRows
  <2>1. Driving(planRuns[r], drivers[r])
    BY EngineRowFields DEF RunSound
  <2> QED
    BY <2>1 DEF Driving, EndedStatuses
<1>2. Engine!OneRevisionPerChangeSet
  <2>1. Engine!Cardinality(Engine!Baseline) = 1
    <3>1. PICK v \in DOMAIN planRevisions :
            \A w \in DOMAIN planRevisions : planRevisions[w].status = "published" <=> w = v
      BY DEF EngineInv, OneBaseline
    <3>2. Engine!Baseline = {v}
      BY <3>1 DEF Engine!Baseline
    <3> QED
      BY <3>2, CountOne
  <2>2. planRevisions \in Seq(RevisionRows)
    BY DEF EngineInv, EngineRows
  <2>3. \A v \in 2..Len(planRevisions) :
          /\ planChanges[planRevisions[v].change].applied = v
          /\ planChanges[planRevisions[v].change].status # "draft"
    <3> SUFFICES ASSUME NEW v \in 2..Len(planRevisions)
                 PROVE  /\ planChanges[planRevisions[v].change].applied = v
                        /\ planChanges[planRevisions[v].change].status # "draft"
      OBVIOUS
    <3>1. v \in DOMAIN planRevisions /\ v # 1
      BY <2>2
    <3> QED
      BY <3>1 DEF EngineInv, RevisionSound
  <2>4. ASSUME NEW k \in DOMAIN planChanges
        PROVE  planChanges[k].status = "applied"
                 => \E v \in DOMAIN planRevisions : planRevisions[v].change = k
    <3>1. ChangeSound(k, planChanges[k], planRuns, planRevisions)
      BY DEF EngineInv
    <3> QED
      BY <3>1 DEF ChangeSound
  <2> QED
    BY <2>1, <2>3, <2>4 DEF Engine!OneRevisionPerChangeSet
<1> QED
  BY <1>1, <1>2, RowsHaveTypes, RunsAreSound, FailuresFeedBack DEF Engine!PlanRunSound

---------------------------------------------------------------------------
(* The engine in every run of the lab *)

\* The engine, without the fairness of its driver.
EngineRuns == Engine!Init /\ [][Engine!Next]_engineVars

LEMMA LabEngineBehaves == LabSpec => EngineRuns
<1>1. LabInit => Engine!Init
  BY DEF LabInit
<1>2. [LabNext]_labVars => [Engine!Next]_engineVars
  BY DEF LabNext, labVars, engineVars
<1> QED
  BY <1>1, <1>2, PTL DEF LabSpec, EngineRuns

LEMMA EngineAlwaysInOrder == Engine!PlanSimulationAssumption => (EngineRuns => []EngineInv)
<1> SUFFICES ASSUME Engine!PlanSimulationAssumption PROVE EngineRuns => []EngineInv
  OBVIOUS
<1>1. Engine!Init => EngineInv
  BY EngineBegins
<1>2. EngineInv /\ [Engine!Next]_engineVars => EngineInv'
  BY EngineSteps, EngineStutters
<1> QED
  BY <1>1, <1>2, PTL DEF EngineRuns

\* PlanSimulation: whatever the world lacks, wherever a run stops and however often its
\* feedback is applied, a run's money is what it began with less what it reports, no node
\* is started before what it depends on, a stage with a node of the run in it is completed
\* exactly when its required children are done, a failure has its one change set, and one
\* revision is the baseline.
THEOREM PlanRunsAreSound == LabSpec => []PlanRunSound
<1>1. EngineInv => PlanRunSound
  BY EngineIsSound DEF PlanRunSound
<1> QED
  BY <1>1, LabEngineBehaves, LabAssumption, EngineAlwaysInOrder, PTL DEF LabAssumption

\* PlanSimulation: applying feedback never changes the nodes or the dependencies of a
\* revision that exists, so a run keeps the plan it began with.
THEOREM RevisionsStay == LabSpec => [][Engine!RevisionsKept]_engineVars
<1>1. EngineInv /\ [Engine!Next]_engineVars => [Engine!RevisionsKept]_engineVars
  BY RevisionsKeepStep
<1> QED
  BY <1>1, LabEngineBehaves, LabAssumption, EngineAlwaysInOrder, PTL DEF LabAssumption, EngineRuns

=========================================================================

-------------------------- MODULE AuthorityProofs --------------------------
(***************************************************************************)
(* Proofs about RoleProjection, Credentials and RoleBaseline, for any      *)
(* members, sessions and bounds.                                           *)
(*                                                                         *)
(* Of RoleProjection: what the store holds is arbitrary while calls are    *)
(* late or lost, so no invariant relates it to the rows, but for a rebuild *)
(* that nothing disturbs (RebuildInv).  That a check never grants too much *)
(* rests on what the check looked at before it asked (CheckInv); that a    *)
(* role is held by one assignment, on the lock of the member row (OneRow). *)
(*                                                                         *)
(* Credentials and RoleBaseline are instantiated, as Numbers and Desk: a   *)
(* number is drawn by whoever holds the lock of the counter (NumbersInv),  *)
(* and a run of the baseline command knows its rows as long as nobody else *)
(* records a qualification of the expert (LoadInv).                        *)
(***************************************************************************)
EXTENDS Authority, FiniteSetTheorems, TLAPS

Assignment == [member : Members, role : Roles,
               status : {"active", "revoked", "expired"}, start : Nat, end : Nat]

Job == [do : {"project", "remove"}, a : Nat]

Ops == {"idle", "callbacks", "write", "delete", "lazy", "check", "answered",
        "rebuild_delete", "rebuild_write"}

RequestRow == [op : Ops, jobs : Seq(Job), keys : SUBSET AllKeys,
               member : Members \cup {NoMember}, role : Roles,
               held : BOOLEAN, ok : BOOLEAN]

-----------------------------------------------------------------------------
(* The inductive invariant. *)

\* The types of the rows, the store and the requests.
Tables ==
    /\ rows \in Seq(Assignment)
    /\ Len(rows) <= MaxAssignments
    /\ suspended \subseteq Members
    /\ tuples \subseteq AllKeys
    /\ sess \in [Sessions -> RequestRow]
    /\ now \in 0..MaxTime
    /\ lost \in 0..MaxLost

\* With n rows: a callback has a row to read, and a request in callbacks has one left.
JobsOK(r, n) ==
    /\ r.op = "callbacks" => r.jobs # <<>>
    /\ \A k \in 1..Len(r.jobs) : r.jobs[k].a \in 1..n

\* The store is asked only for a member who has the role.
CheckOK(r) == r.op \in {"check", "answered"} => r.held

\* One row of a member and role is active and has not ended.
OneRow ==
    \A a, b \in 1..Len(rows) :
        /\ rows[a].member = rows[b].member /\ rows[a].role = rows[b].role
        /\ rows[a].status = "active" /\ rows[b].status = "active"
        /\ rows[a].end > now /\ rows[b].end > now
        => a = b

Rebuilding(s) == sess[s].op \in {"rebuild_delete", "rebuild_write"}

\* While nothing disturbs it, a rebuild carries the facts from its first step to its
\* last, and leaves them in the store.
RebuildInv ==
    fresh => \/ (\A s \in Sessions : ~Rebuilding(s)) /\ tuples = Facts
             \/ \E s \in Sessions :
                   /\ Rebuilding(s) /\ Quiet(s) /\ sess[s].keys = Facts
                   /\ sess[s].op = "rebuild_write" => tuples = {}

IInv ==
    /\ Tables
    /\ \A s \in Sessions : JobsOK(sess[s], Len(rows)) /\ CheckOK(sess[s])
    /\ OneRow
    /\ RebuildInv

\* A session at rest is a request row, in order whatever the rows are.
LEMMA IdleOK ==
    /\ Idle \in RequestRow /\ Idle.op = "idle" /\ Idle.jobs = <<>>
    /\ \A n : JobsOK(Idle, n)
    /\ CheckOK(Idle)
BY DEF Idle, RequestRow, Ops, Roles, JobsOK, CheckOK

\* Nothing has happened yet.
LEMMA InitIInv == ASSUME RoleProjectionAssumption, Init PROVE IInv
<1> USE RoleProjectionAssumption DEF RoleProjectionAssumption
<1>1. Tables
  BY IdleOK DEF Init, Tables
<1>2. \A s \in Sessions : JobsOK(sess[s], Len(rows)) /\ CheckOK(sess[s])
  <2>1. Len(rows) = 0 /\ \A s \in Sessions : sess[s] = Idle
    BY DEF Init
  <2> QED
    BY IdleOK, <2>1
<1>3. OneRow /\ RebuildInv
  BY DEF Init, OneRow, RebuildInv
<1> QED
  BY <1>1, <1>2, <1>3 DEF IInv

-----------------------------------------------------------------------------
(* The tuples. *)

\* The tuples of a row are tuples the model knows.
LEMMA KeysOfRow ==
    ASSUME rows \in Seq(Assignment), NEW a \in 1..Len(rows)
    PROVE  KeysOf(a) \subseteq AllKeys
<1>1. rows[a] \in Assignment
  OBVIOUS
<1>2. rows[a].member \in Members /\ rows[a].role \in Roles
  BY <1>1 DEF Assignment
<1> QED
  BY <1>2 DEF KeysOf, AllKeys

\* So are the facts and the stale tuples.
LEMMA KeysKnown ==
    ASSUME rows \in Seq(Assignment), suspended \subseteq Members
    PROVE  Facts \subseteq AllKeys /\ \A m \in Members : StaleKeys(m) \subseteq AllKeys
<1>1. Facts \subseteq AllKeys
  BY DEF Facts, AllKeys
<1>2. ASSUME NEW m \in Members PROVE StaleKeys(m) \subseteq AllKeys
  <2>1. StaleKeys(m) \subseteq UNION {KeysOf(a) : a \in 1..Len(rows)}
    BY DEF StaleKeys
  <2> QED
    BY <2>1, KeysOfRow
<1> QED
  BY <1>1, <1>2

\* The facts follow from the rows, the suspensions and the clock.
LEMMA FactsSame ==
    ASSUME UNCHANGED <<rows, suspended, now>>
    PROVE  Facts' = Facts
BY DEF Facts, HasRole, InForce

\* A refused call changes nothing, another one what it says.
LEMMA StoreTyped ==
    ASSUME tuples \subseteq AllKeys, NEW keys, keys \subseteq AllKeys
    PROVE  Written(keys) \subseteq AllKeys /\ Deleted(keys) \subseteq AllKeys
BY DEF Written, Deleted

-----------------------------------------------------------------------------
(* What the steps preserve. *)

\* One session goes on.
LEMMA OneSession ==
    ASSUME IInv, NEW s \in Sessions, NEW r \in RequestRow, sess' = [sess EXCEPT ![s] = r],
           rows' \in Seq(Assignment), Len(rows) <= Len(rows'), JobsOK(r, Len(rows')), CheckOK(r)
    PROVE  /\ sess' \in [Sessions -> RequestRow]
           /\ sess'[s] = r /\ \A t \in Sessions \ {s} : sess'[t] = sess[t]
           /\ (\A t \in Sessions : JobsOK(sess[t], Len(rows)) /\ CheckOK(sess[t]))'
<1>1. /\ sess' \in [Sessions -> RequestRow]
      /\ sess'[s] = r /\ \A t \in Sessions \ {s} : sess'[t] = sess[t]
  BY DEF IInv, Tables
<1>2. Len(rows) \in Nat /\ Len(rows') \in Nat
  BY DEF IInv, Tables
<1>3. ASSUME NEW t \in Sessions PROVE JobsOK(sess[t], Len(rows))' /\ CheckOK(sess[t])'
  <2>1. CASE t = s
    BY <1>1, <2>1 DEF JobsOK, CheckOK
  <2>2. CASE t # s
    BY <1>1, <1>2, <2>2 DEF IInv, JobsOK, CheckOK
  <2> QED
    BY <2>1, <2>2
<1> QED
  BY <1>1, <1>3

\* The rows stay, and time at most passes.
LEMMA RowsSame ==
    ASSUME IInv, rows' = rows, now' \in Nat, now <= now'
    PROVE  OneRow'
<1>1. \A a \in 1..Len(rows) : rows[a].end \in Nat
  <2>1. \A a \in 1..Len(rows) : rows[a] \in Assignment
    BY DEF IInv, Tables
  <2> QED
    BY <2>1 DEF Assignment
<1>2. now \in Nat
  BY DEF IInv, Tables
<1> QED
  BY <1>1, <1>2 DEF IInv, OneRow

\* A request that still has callbacks goes on, another one ends.
LEMMA DoneOK ==
    ASSUME IInv, NEW s \in Sessions, Done(s), rows' = rows
    PROVE  /\ sess' \in [Sessions -> RequestRow]
           /\ (\A t \in Sessions : JobsOK(sess[t], Len(rows)) /\ CheckOK(sess[t]))'
<1> DEFINE r == IF sess[s].jobs = <<>> THEN Idle
                ELSE [Idle EXCEPT !.op = "callbacks", !.jobs = sess[s].jobs]
<1>1. sess[s] \in RequestRow /\ JobsOK(sess[s], Len(rows))
  BY DEF IInv, Tables
<1>2. sess' = [sess EXCEPT ![s] = r]
  BY DEF Done, IInv, Tables
<1>3. r \in RequestRow
  BY <1>1 DEF RequestRow, Idle, Ops, Roles
<1>4. JobsOK(r, Len(rows')) /\ CheckOK(r)
  BY <1>1 DEF JobsOK, CheckOK, Idle
<1> HIDE DEF r
<1>5. rows' \in Seq(Assignment) /\ Len(rows) <= Len(rows')
  BY DEF IInv, Tables
<1> QED
  BY <1>2, <1>3, <1>4, <1>5, OneSession

-----------------------------------------------------------------------------
(* The steps, one lemma for each kind. *)

\* Time passes, or a member is suspended or reinstated.
LEMMA WorldStep ==
    ASSUME RoleProjectionAssumption, IInv, Tick \/ \E m \in Members : ToggleSuspension(m)
    PROVE  IInv'
<1>1. UNCHANGED <<rows, tuples, sess, lost>> /\ fresh' = FALSE
  BY DEF Tick, ToggleSuspension, Stir
<1>2. now' \in 0..MaxTime /\ now <= now' /\ now' \in Nat
  BY DEF Tick, ToggleSuspension, IInv, Tables, RoleProjectionAssumption
<1>3. suspended' \subseteq Members
  BY DEF Tick, ToggleSuspension, IInv, Tables
<1>4. Tables'
  BY <1>1, <1>2, <1>3 DEF IInv, Tables
<1>5. (\A s \in Sessions : JobsOK(sess[s], Len(rows)) /\ CheckOK(sess[s]))'
  <2> SUFFICES ASSUME NEW s \in Sessions PROVE JobsOK(sess[s], Len(rows))' /\ CheckOK(sess[s])'
    OBVIOUS
  <2> QED
    BY <1>1 DEF IInv, JobsOK, CheckOK
<1>6. OneRow'
  BY <1>1, <1>2, RowsSame
<1> QED
  BY <1>1, <1>4, <1>5, <1>6 DEF IInv, RebuildInv

\* An assignment is made or renewed, under the lock of the member.
LEMMA CreateStep ==
    ASSUME RoleProjectionAssumption, IInv, NEW s \in Sessions,
           NEW m \in Members, NEW role \in Roles, Create(s, m, role)
    PROVE  IInv'
<1> DEFINE old == Elapsed(m, role)
           kept == [a \in 1..Len(rows) |->
                      IF a \in old THEN [rows[a] EXCEPT !.status = "expired"] ELSE rows[a]]
           made == Running(m, role) = {}
           removals == IF old = {} THEN <<>>
                       ELSE <<[do |-> "remove", a |-> CHOOSE a \in old : TRUE]>>
           projection == IF made THEN <<[do |-> "project", a |-> Len(rows) + 1]>> ELSE <<>>
           r == IF removals \o projection = <<>> THEN Idle
                ELSE [Idle EXCEPT !.op = "callbacks", !.jobs = removals \o projection]
<1>1. /\ Len(rows) < MaxAssignments
      /\ rows' = IF made THEN Append(kept, NewRow(m, role)) ELSE kept
      /\ sess' = [sess EXCEPT ![s] = r]
      /\ UNCHANGED <<suspended, tuples, now, lost>> /\ fresh' = FALSE
  BY DEF Create, Start, Stir
<1>2. /\ rows \in Seq(Assignment) /\ Len(rows) \in Nat /\ now \in Nat
      /\ MaxAssignments \in Nat /\ Term \in Nat /\ Term > 0
  BY DEF IInv, Tables, RoleProjectionAssumption
<1>3. ASSUME NEW a \in 1..Len(rows)
      PROVE  /\ kept[a] \in Assignment
             /\ kept[a].member = rows[a].member /\ kept[a].role = rows[a].role
             /\ kept[a].end = rows[a].end
             /\ kept[a].status = "active" => rows[a].status = "active"
  <2>1. rows[a] \in Assignment
    BY <1>2
  <2>2. CASE a \in old
    <3>1. kept[a] = [rows[a] EXCEPT !.status = "expired"]
      BY <2>2
    <3> QED
      BY <2>1, <3>1 DEF Assignment
  <2>3. CASE a \notin old
    BY <2>1, <2>3
  <2> QED
    BY <2>2, <2>3
<1>4. kept \in Seq(Assignment) /\ Len(kept) = Len(rows)
  <2>1. kept \in [1..Len(rows) -> Assignment]
    BY <1>3
  <2> QED
    BY <1>2, <2>1
<1>5. NewRow(m, role) \in Assignment /\ NewRow(m, role).member = m
      /\ NewRow(m, role).role = role
  BY <1>2 DEF NewRow, Assignment
<1>6. /\ removals \in Seq(Job) /\ projection \in Seq(Job)
      /\ \A k \in 1..Len(removals) : removals[k].a \in 1..Len(rows)
      /\ \A k \in 1..Len(projection) : made /\ projection[k].a = Len(rows) + 1
  <2>1. old \subseteq 1..Len(rows)
    BY DEF Elapsed
  <2>2. old # {} => (CHOOSE a \in old : TRUE) \in old
    OBVIOUS
  <2>3. /\ removals \in Seq(Job)
        /\ \A k \in 1..Len(removals) : removals[k].a \in 1..Len(rows)
    <3>1. CASE old = {}
      BY <3>1
    <3>2. CASE old # {}
      <4>1. PICK a \in 1..Len(rows) : removals = <<[do |-> "remove", a |-> a]>>
        BY <2>1, <2>2, <3>2
      <4> HIDE DEF removals
      <4> QED
        BY <1>2, <4>1 DEF Job
    <3> QED
      BY <3>1, <3>2
  <2>4. /\ projection \in Seq(Job)
        /\ \A k \in 1..Len(projection) : made /\ projection[k].a = Len(rows) + 1
    <3>1. CASE made
      <4>1. projection = <<[do |-> "project", a |-> Len(rows) + 1]>>
        BY <3>1
      <4> HIDE DEF projection, made
      <4> QED
        BY <1>2, <3>1, <4>1 DEF Job
    <3>2. CASE ~made
      BY <3>2
    <3> QED
      BY <3>1, <3>2
  <2> QED
    BY <2>3, <2>4
<1> HIDE DEF removals, projection, kept, old
<1>7. /\ rows' \in Seq(Assignment) /\ Len(rows) <= Len(rows')
      /\ Len(rows') <= MaxAssignments
      /\ Len(rows') = IF made THEN Len(rows) + 1 ELSE Len(rows)
      /\ \A a \in 1..Len(rows) : rows'[a] = kept[a]
      /\ made => rows'[Len(rows) + 1] = NewRow(m, role)
  BY <1>1, <1>2, <1>4, <1>5
<1>8. r \in RequestRow /\ JobsOK(r, Len(rows')) /\ CheckOK(r)
  <2> DEFINE jobs == removals \o projection
  <2>1. jobs \in Seq(Job) /\ \A k \in 1..Len(jobs) : jobs[k].a \in 1..Len(rows')
    <3>1. \A k \in 1..Len(jobs) :
             \/ k \in 1..Len(removals) /\ jobs[k] = removals[k]
             \/ k - Len(removals) \in 1..Len(projection)
                /\ jobs[k] = projection[k - Len(removals)]
      BY <1>6
    <3>2. 1..Len(rows) \subseteq 1..Len(rows') /\ (made => Len(rows) + 1 \in 1..Len(rows'))
      BY <1>2, <1>7
    <3>3. jobs \in Seq(Job)
      BY <1>6
    <3>4. \A k \in 1..Len(jobs) : jobs[k].a \in 1..Len(rows')
      BY <1>6, <3>1, <3>2
    <3> QED
      BY <3>3, <3>4
  <2> HIDE DEF jobs
  <2>2. r = IF jobs = <<>> THEN Idle ELSE [Idle EXCEPT !.op = "callbacks", !.jobs = jobs]
    BY DEF jobs
  <2>3. r \in RequestRow
    BY <2>1, <2>2 DEF RequestRow, Idle, Ops, Roles
  <2>4. JobsOK(r, Len(rows')) /\ CheckOK(r)
    BY <2>1, <2>2 DEF JobsOK, CheckOK, Idle
  <2> QED
    BY <2>3, <2>4
<1> HIDE DEF r
<1>9. /\ sess' \in [Sessions -> RequestRow]
      /\ (\A t \in Sessions : JobsOK(sess[t], Len(rows)) /\ CheckOK(sess[t]))'
  BY <1>1, <1>7, <1>8, OneSession
<1>10. Tables'
  BY <1>1, <1>7, <1>9 DEF IInv, Tables
<1>11. OneRow'
  <2> SUFFICES ASSUME NEW a \in 1..Len(rows'), NEW b \in 1..Len(rows'),
                      rows'[a].member = rows'[b].member, rows'[a].role = rows'[b].role,
                      rows'[a].status = "active", rows'[b].status = "active",
                      rows'[a].end > now, rows'[b].end > now
               PROVE  a = b
    BY <1>1 DEF OneRow
  <2>1. ASSUME NEW c \in 1..Len(rows), made,
               rows'[c].status = "active", rows'[c].end > now,
               rows'[c].member = m, rows'[c].role = role
        PROVE  FALSE
    <3>1. c \in Running(m, role)
      BY <1>3, <1>7, <2>1 DEF Running
    <3> QED
      BY <2>1, <3>1
  <2>2. CASE a \in 1..Len(rows) /\ b \in 1..Len(rows)
    BY <1>3, <1>7, <2>2 DEF IInv, OneRow
  <2>3. CASE a \notin 1..Len(rows) \/ b \notin 1..Len(rows)
    <3>1. made
      BY <1>2, <1>7, <2>3
    <3>2. \A c \in 1..Len(rows') : c \in 1..Len(rows) \/ c = Len(rows) + 1
      BY <1>2, <1>7
    <3> QED
      BY <1>5, <1>7, <2>1, <2>3, <3>1, <3>2
  <2> QED
    BY <2>2, <2>3
<1> QED
  BY <1>1, <1>9, <1>10, <1>11 DEF IInv, RebuildInv

\* A request revokes an assignment, begins a check or goes on with a callback: its
\* session changes, and at most the end of a row.
LEMMA RequestStep ==
    ASSUME RoleProjectionAssumption, IInv, NEW s \in Sessions,
           \/ \E a \in 1..Len(rows) : Revoke(s, a)
           \/ \E m \in Members, role \in Roles : BeginCheck(s, m, role)
           \/ Callback(s) \/ AnswerCheck(s)
    PROVE  IInv'
<1>1. /\ rows \in Seq(Assignment) /\ Len(rows) \in Nat /\ now \in Nat
      /\ sess[s] \in RequestRow /\ JobsOK(sess[s], Len(rows)) /\ CheckOK(sess[s])
  BY DEF IInv, Tables
<1>2. UNCHANGED <<suspended, tuples, now, lost>> /\ fresh' = FALSE
  BY DEF Revoke, BeginCheck, Callback, AnswerCheck, Stir
<1>3. ASSUME NEW r \in RequestRow, sess' = [sess EXCEPT ![s] = r],
             JobsOK(r, Len(rows)), CheckOK(r),
             rows' \in Seq(Assignment), Len(rows') = Len(rows), OneRow'
      PROVE  IInv'
  <2>1. /\ sess' \in [Sessions -> RequestRow]
        /\ (\A t \in Sessions : JobsOK(sess[t], Len(rows)) /\ CheckOK(sess[t]))'
    <3>1. Len(rows) <= Len(rows') /\ JobsOK(r, Len(rows'))
      BY <1>1, <1>3
    <3> QED
      BY <1>3, <3>1, OneSession
  <2>2. Tables'
    BY <1>2, <1>3, <2>1 DEF IInv, Tables
  <2> QED
    BY <1>2, <1>3, <2>1, <2>2 DEF IInv, RebuildInv
<1>4. ASSUME NEW a \in 1..Len(rows), Revoke(s, a) PROVE IInv'
  <2> DEFINE jobs == <<[do |-> "remove", a |-> a]>>
             r == [Idle EXCEPT !.op = "callbacks", !.jobs = jobs]
  <2>1. /\ sess' = [sess EXCEPT ![s] = r]
        /\ rows' = [rows EXCEPT ![a].status = "revoked", ![a].end = now]
    BY <1>4 DEF Revoke, Start
  <2>2. jobs \in Seq(Job) /\ Len(jobs) = 1 /\ jobs[1].a = a /\ jobs # <<>>
    BY DEF Job
  <2> HIDE DEF jobs
  <2>3. r \in RequestRow
    BY <2>2 DEF RequestRow, Idle, Ops, Roles
  <2>4. JobsOK(r, Len(rows)) /\ CheckOK(r)
    <3>1. r.jobs = jobs /\ r.op = "callbacks"
      BY DEF Idle
    <3>2. \A k \in 1..Len(jobs) : k = 1
      BY <2>2
    <3> HIDE DEF r
    <3> QED
      BY <2>2, <3>1, <3>2 DEF JobsOK, CheckOK
  <2> HIDE DEF r
  <2>5. rows[a] \in Assignment
    BY <1>1
  <2>6. [rows[a] EXCEPT !.status = "revoked", !.end = now] \in Assignment
    BY <1>1, <2>5 DEF Assignment
  <2>7. rows' = [rows EXCEPT ![a] = [rows[a] EXCEPT !.status = "revoked", !.end = now]]
    BY <1>1, <2>1, <2>5 DEF Assignment
  <2>8. /\ rows' \in Seq(Assignment) /\ Len(rows') = Len(rows)
        /\ rows'[a].status = "revoked"
        /\ \A b \in 1..Len(rows) : b # a => rows'[b] = rows[b]
    BY <1>1, <2>5, <2>6, <2>7 DEF Assignment
  <2>9. OneRow'
    BY <1>2, <2>8 DEF IInv, OneRow
  <2> QED
    BY <1>3, <2>1, <2>3, <2>4, <2>8, <2>9
<1>5. CASE UNCHANGED rows
  <2>1. OneRow' /\ rows' \in Seq(Assignment) /\ Len(rows') = Len(rows)
    BY <1>1, <1>2, <1>5 DEF IInv, OneRow
  <2>2. ASSUME NEW m \in Members, NEW role \in Roles, BeginCheck(s, m, role) PROVE IInv'
    <3> DEFINE r == IF HasRole(m, role)
                    THEN [Idle EXCEPT !.op = "check", !.member = m, !.role = role, !.held = TRUE]
                    ELSE IF StaleKeys(m) = {} THEN Idle
                    ELSE [Idle EXCEPT !.op = "lazy", !.keys = StaleKeys(m), !.member = m]
    <3>1. sess' = [sess EXCEPT ![s] = r]
      BY <2>2 DEF BeginCheck, Start
    <3>2. StaleKeys(m) \subseteq AllKeys
      BY <1>1, KeysKnown DEF IInv, Tables
    <3>3. r \in RequestRow
      <4>1. CASE HasRole(m, role)
        BY <4>1, IdleOK DEF RequestRow, Ops
      <4>2. CASE ~HasRole(m, role)
        BY <3>2, <4>2, IdleOK DEF RequestRow, Ops
      <4> QED
        BY <4>1, <4>2
    <3>4. JobsOK(r, Len(rows)) /\ CheckOK(r)
      BY DEF JobsOK, CheckOK, Idle
    <3> HIDE DEF r
    <3> QED
      BY <1>3, <2>1, <3>1, <3>3, <3>4
  <2>3. CASE Callback(s)
    <3> DEFINE job == sess[s].jobs[1]
               op == IF job.do = "project" /\ Current(job.a) THEN "write" ELSE "delete"
               r == [sess[s] EXCEPT !.op = op, !.keys = KeysOf(job.a), !.jobs = Tail(@)]
    <3>1. sess' = [sess EXCEPT ![s] = r] /\ sess[s].op = "callbacks"
      BY <2>3 DEF Callback, IInv, Tables
    <3>2. sess[s].jobs \in Seq(Job) /\ sess[s].jobs # <<>>
      BY <1>1, <3>1 DEF RequestRow, JobsOK
    <3>3. job.a \in 1..Len(rows)
      BY <1>1, <3>2 DEF JobsOK
    <3>4. KeysOf(job.a) \subseteq AllKeys
      BY <1>1, <3>3, KeysOfRow
    <3>5. /\ Tail(sess[s].jobs) \in Seq(Job)
          /\ \A k \in 1..Len(Tail(sess[s].jobs)) : Tail(sess[s].jobs)[k].a \in 1..Len(rows)
      BY <1>1, <3>2 DEF JobsOK
    <3> HIDE DEF job
    <3>6. r \in RequestRow
      BY <1>1, <3>4, <3>5 DEF RequestRow, Ops
    <3>7. JobsOK(r, Len(rows)) /\ CheckOK(r)
      BY <1>1, <3>5 DEF JobsOK, CheckOK, RequestRow
    <3> HIDE DEF r
    <3> QED
      BY <1>3, <2>1, <3>1, <3>6, <3>7
  <2>4. CASE AnswerCheck(s)
    <3> DEFINE r == [sess[s] EXCEPT !.op = "answered",
                                    !.ok = StoreAllows(sess[s].member, sess[s].role)]
    <3>1. sess' = [sess EXCEPT ![s] = r] /\ sess[s].op = "check"
      BY <2>4 DEF AnswerCheck, IInv, Tables
    <3>2. StoreAllows(sess[s].member, sess[s].role) \in BOOLEAN
      BY DEF StoreAllows
    <3>3. r \in RequestRow
      BY <1>1, <3>2 DEF RequestRow, Ops
    <3>4. JobsOK(r, Len(rows)) /\ CheckOK(r)
      BY <1>1, <3>1 DEF JobsOK, CheckOK, RequestRow
    <3> HIDE DEF r
    <3> QED
      BY <1>3, <2>1, <3>1, <3>3, <3>4
  <2> QED
    BY <1>4, <2>2, <2>3, <2>4
<1> QED
  BY <1>4, <1>5 DEF BeginCheck, Callback, AnswerCheck

\* A call reaches the store or fails.
LEMMA CallStep ==
    ASSUME RoleProjectionAssumption, IInv, NEW s \in Sessions, Send(s) \/ LoseCall(s)
    PROVE  IInv'
<1>1. UNCHANGED <<rows, suspended, now>> /\ fresh' = FALSE /\ Done(s)
  BY DEF Send, LoseCall, Stir
<1>2. /\ sess' \in [Sessions -> RequestRow]
      /\ (\A t \in Sessions : JobsOK(sess[t], Len(rows)) /\ CheckOK(sess[t]))'
  BY <1>1, DoneOK
<1>3. sess[s].keys \subseteq AllKeys /\ tuples \subseteq AllKeys
  BY DEF IInv, Tables, RequestRow
<1>4. tuples' \subseteq AllKeys
  BY <1>3, StoreTyped DEF Send, LoseCall
<1>5. lost' \in 0..MaxLost
  BY DEF IInv, Tables, Send, LoseCall, RoleProjectionAssumption
<1>6. Tables'
  BY <1>1, <1>2, <1>4, <1>5 DEF IInv, Tables
<1>7. OneRow'
  BY <1>1 DEF IInv, OneRow
<1> QED
  BY <1>1, <1>2, <1>6, <1>7 DEF IInv, RebuildInv

\* A check is left, or a rebuild begins, goes on or dies: the rows stay.
LEMMA RebuildStep ==
    ASSUME RoleProjectionAssumption, IInv, NEW s \in Sessions,
           \/ Leave(s) \/ BeginRebuild(s) \/ RebuildDelete(s) \/ RebuildWrite(s)
           \/ RebuildDies(s)
    PROVE  IInv'
<1>1. UNCHANGED <<rows, suspended, now>>
  BY DEF Leave, BeginRebuild, RebuildDelete, RebuildWrite, RebuildDies
<1>2. /\ rows \in Seq(Assignment) /\ sess[s] \in RequestRow
      /\ JobsOK(sess[s], Len(rows)) /\ CheckOK(sess[s]) /\ Facts \subseteq AllKeys
      /\ sess[s].keys \subseteq AllKeys /\ tuples \subseteq AllKeys
  BY KeysKnown DEF IInv, Tables, RequestRow
<1>3. OneRow' /\ Facts' = Facts
  BY <1>1, FactsSame DEF IInv, OneRow
<1>4. tuples' \subseteq AllKeys /\ lost' \in 0..MaxLost
  BY <1>2, StoreTyped DEF Leave, BeginRebuild, RebuildDelete, RebuildWrite, RebuildDies,
                          IInv, Tables, RoleProjectionAssumption
<1>5. PICK r \in RequestRow :
          /\ sess' = [sess EXCEPT ![s] = r]
          /\ JobsOK(r, Len(rows)) /\ CheckOK(r)
          /\ \/ Leave(s) /\ r = Idle
             \/ BeginRebuild(s) /\ r.op = "rebuild_delete" /\ r.keys = Facts
             \/ RebuildDelete(s) /\ r.op = "rebuild_write" /\ r.keys = sess[s].keys
             \/ RebuildWrite(s) /\ r = Idle
             \/ RebuildDies(s) /\ r = Idle
  <2>1. Idle \in RequestRow /\ JobsOK(Idle, Len(rows)) /\ CheckOK(Idle)
    BY IdleOK
  <2>2. CASE Leave(s) \/ RebuildWrite(s) \/ RebuildDies(s)
    <3>1. sess' = [sess EXCEPT ![s] = Idle]
      BY <2>2 DEF Leave, RebuildWrite, RebuildDies
    <3> QED
      BY <2>1, <2>2, <3>1
  <2>3. CASE BeginRebuild(s)
    <3> DEFINE alone == Quiet(s)
               r == [Idle EXCEPT !.op = "rebuild_delete", !.keys = Facts, !.held = alone]
    <3>1. sess' = [sess EXCEPT ![s] = r]
      BY <2>3 DEF BeginRebuild, Start
    <3>2. alone \in BOOLEAN
      BY DEF Quiet
    <3> HIDE DEF alone
    <3>3. r \in RequestRow /\ r.op = "rebuild_delete" /\ r.keys = Facts
      BY <1>2, <3>2, IdleOK DEF RequestRow, Ops
    <3>4. JobsOK(r, Len(rows)) /\ CheckOK(r)
      BY DEF Idle, JobsOK, CheckOK
    <3> HIDE DEF r
    <3> QED
      BY <2>3, <3>1, <3>3, <3>4
  <2>4. CASE RebuildDelete(s)
    <3> DEFINE r == [sess[s] EXCEPT !.op = "rebuild_write"]
    <3>1. sess' = [sess EXCEPT ![s] = r]
      BY <2>4 DEF RebuildDelete, IInv, Tables
    <3>2. r \in RequestRow /\ r.op = "rebuild_write" /\ r.keys = sess[s].keys
      BY <1>2 DEF RequestRow, Ops
    <3>3. JobsOK(r, Len(rows)) /\ CheckOK(r)
      BY <1>2 DEF JobsOK, CheckOK, RequestRow
    <3> HIDE DEF r
    <3> QED
      BY <2>4, <3>1, <3>2, <3>3
  <2> QED
    BY <2>2, <2>3, <2>4
<1>6. /\ sess' \in [Sessions -> RequestRow]
      /\ sess'[s] = r /\ \A t \in Sessions \ {s} : sess'[t] = sess[t]
      /\ (\A t \in Sessions : JobsOK(sess[t], Len(rows)) /\ CheckOK(sess[t]))'
  <2>1. rows' \in Seq(Assignment) /\ Len(rows) <= Len(rows') /\ JobsOK(r, Len(rows'))
    BY <1>1, <1>2, <1>5
  <2> QED
    BY <1>5, <2>1, OneSession
<1>7. Tables'
  BY <1>1, <1>4, <1>6 DEF IInv, Tables
<1>8. RebuildInv'
  <2> SUFFICES ASSUME fresh' PROVE RebuildInv'
    BY DEF RebuildInv
  <2>1. r = Idle => ~Rebuilding(s)'
    BY <1>6 DEF Idle, Rebuilding
  <2>2. \A t \in Sessions : Rebuilding(t)' =>
            (r.op \in {"rebuild_delete", "rebuild_write"} /\ t = s) \/ Rebuilding(t)
    BY <1>6 DEF Rebuilding
  <2>3. Quiet(s)' <=> Quiet(s)
    BY <1>6 DEF Quiet
  <2>4. CASE Leave(s)
    <3>1. r = Idle /\ UNCHANGED <<tuples, fresh>> /\ sess[s].op = "answered"
      BY <1>5, <2>4 DEF Leave, BeginRebuild, RebuildDelete, RebuildWrite, RebuildDies, Start
    <3>2. ~Rebuilding(s)
      BY <3>1 DEF Rebuilding
    <3>3. CASE (\A t \in Sessions : ~Rebuilding(t)) /\ tuples = Facts
      BY <1>3, <2>1, <2>2, <3>1, <3>3 DEF RebuildInv, Idle
    <3>4. ASSUME NEW t \in Sessions, Rebuilding(t), Quiet(t), sess[t].keys = Facts,
                 sess[t].op = "rebuild_write" => tuples = {}
          PROVE  RebuildInv'
      <4>1. t # s /\ sess'[t] = sess[t]
        BY <1>6, <3>2, <3>4
      <4>2. Quiet(t)' /\ Rebuilding(t)'
        BY <1>6, <3>1, <3>4, <4>1 DEF Quiet, Rebuilding, Idle
      <4> QED
        BY <1>3, <3>1, <3>4, <4>1, <4>2 DEF RebuildInv
    <3> QED
      BY <3>1, <3>3, <3>4 DEF IInv, RebuildInv
  <2>5. CASE BeginRebuild(s)
    <3>1. r.op = "rebuild_delete" /\ r.keys = Facts /\ Quiet(s)
      BY <1>5, <2>5 DEF Leave, BeginRebuild, RebuildDelete, RebuildWrite, RebuildDies, Start
    <3>2. Rebuilding(s)'
      BY <1>6, <3>1 DEF Rebuilding
    <3> QED
      BY <1>3, <1>6, <2>3, <3>1, <3>2 DEF RebuildInv
  <2>6. CASE RebuildDelete(s) \/ RebuildWrite(s)
    <3>1. fresh /\ Rebuilding(s)
      BY <2>6 DEF RebuildDelete, RebuildWrite, Rebuilding
    <3>2. /\ Quiet(s) /\ sess[s].keys = Facts
          /\ sess[s].op = "rebuild_write" => tuples = {}
      <4>1. PICK t \in Sessions :
                /\ Rebuilding(t) /\ Quiet(t) /\ sess[t].keys = Facts
                /\ sess[t].op = "rebuild_write" => tuples = {}
        BY <3>1 DEF IInv, RebuildInv
      <4>2. t = s
        BY <3>1, <4>1 DEF Quiet, Rebuilding
      <4> QED
        BY <4>1, <4>2
    <3>3. CASE RebuildDelete(s)
      <4>1. r.op = "rebuild_write" /\ r.keys = Facts /\ tuples' = {}
        BY <1>5, <3>2, <3>3 DEF Leave, BeginRebuild, RebuildDelete, RebuildWrite,
                                RebuildDies, Start, Stir
      <4>2. Rebuilding(s)'
        BY <1>6, <4>1 DEF Rebuilding
      <4> QED
        BY <1>3, <1>6, <2>3, <3>2, <4>1, <4>2 DEF RebuildInv
    <3>4. CASE RebuildWrite(s)
      <4>1. r = Idle /\ tuples' = Facts
        BY <1>5, <3>2, <3>4 DEF Leave, BeginRebuild, RebuildDelete, RebuildWrite,
                                RebuildDies, Start, Written
      <4>2. \A t \in Sessions : ~Rebuilding(t)'
        BY <1>6, <2>1, <3>2, <4>1 DEF Quiet, Rebuilding
      <4> QED
        BY <1>3, <4>1, <4>2 DEF RebuildInv
    <3> QED
      BY <2>6, <3>3, <3>4
  <2>7. CASE RebuildDies(s)
    BY <2>7 DEF RebuildDies, Stir
  <2> QED
    BY <2>4, <2>5, <2>6, <2>7
<1> QED
  BY <1>3, <1>6, <1>7, <1>8 DEF IInv

-----------------------------------------------------------------------------
(* The theorems. *)

\* Every step keeps the invariant.
LEMMA NextIInv == ASSUME RoleProjectionAssumption, IInv, [Next]_vars PROVE IInv'
<1>1. CASE UNCHANGED vars
  <2>1. UNCHANGED <<rows, suspended, tuples, sess, now, lost, suspensions, fresh>>
    BY <1>1 DEF vars
  <2>2. Tables' /\ OneRow' /\ Facts' = Facts
    BY <2>1, FactsSame DEF IInv, Tables, OneRow
  <2>3. (\A s \in Sessions : JobsOK(sess[s], Len(rows)) /\ CheckOK(sess[s]))'
    BY <2>1 DEF IInv
  <2>4. RebuildInv'
    BY <2>1, <2>2 DEF IInv, RebuildInv, Rebuilding, Quiet
  <2> QED
    BY <2>2, <2>3, <2>4 DEF IInv
<1>2. CASE Tick \/ \E m \in Members : ToggleSuspension(m)
  BY <1>2, WorldStep
<1>3. ASSUME NEW s \in Sessions, Send(s) \/ LoseCall(s) PROVE IInv'
  BY <1>3, CallStep
<1>4. ASSUME NEW s \in Sessions,
             \/ \E a \in 1..Len(rows) : Revoke(s, a)
             \/ \E m \in Members, role \in Roles : BeginCheck(s, m, role)
             \/ Callback(s) \/ AnswerCheck(s)
      PROVE  IInv'
  BY <1>4, RequestStep
<1>5. ASSUME NEW s \in Sessions, NEW m \in Members, NEW role \in Roles, Create(s, m, role)
      PROVE  IInv'
  BY <1>5, CreateStep
<1>6. ASSUME NEW s \in Sessions,
             \/ Leave(s) \/ BeginRebuild(s) \/ RebuildDelete(s) \/ RebuildWrite(s)
             \/ RebuildDies(s)
      PROVE  IInv'
  BY <1>6, RebuildStep
<1> QED
  BY <1>1, <1>2, <1>3, <1>4, <1>5, <1>6 DEF Next

\* The inductive invariant holds in every reachable state of rows, store and requests.
THEOREM SpecIInv == RoleProjectionAssumption => (Spec => []IInv)
<1> SUFFICES ASSUME RoleProjectionAssumption PROVE Spec => []IInv
  OBVIOUS
<1>1. Init => IInv
  BY InitIInv
<1>2. IInv /\ [Next]_vars => IInv'
  BY NextIInv
<1> QED
  BY <1>1, <1>2, PTL DEF Spec

\* Every reachable state is well typed; callbacks name rows that are there.
THEOREM TypeCorrect == RoleProjectionAssumption => (Spec => []TypeOK)
<1>1. IInv => TypeOK
  BY DEF IInv, Tables, TypeOK, Assignment, RequestRow, Ops, JobsOK
<1> QED
  BY <1>1, SpecIInv, PTL

\* However requests, expiry and renewals interleave, a member holds a role by one
\* running assignment at a time (create_role_assignment).
THEOREM OneAssignment == RoleProjectionAssumption => (Spec => []OneRunningAssignment)
<1>1. IInv => OneRunningAssignment
  <2>1. ASSUME IInv PROVE \A a \in 1..Len(rows) : InForce(a) =>
                              rows[a].status = "active" /\ rows[a].end > now
    <3>1. \A a \in 1..Len(rows) : rows[a] \in Assignment
      BY <2>1 DEF IInv, Tables
    <3>2. now \in Nat
      BY <2>1 DEF IInv, Tables
    <3> QED
      BY <3>1, <3>2 DEF InForce, Assignment
  <2> QED
    BY <2>1 DEF IInv, OneRow, OneRunningAssignment
<1> QED
  BY <1>1, SpecIInv, PTL

\* Whatever late, lost or reordered calls left in OpenFGA, a check that answers yes
\* found the fact in the database when it began (member_has_permission).
THEOREM StaleNeverGrants == RoleProjectionAssumption => (Spec => []StaleTupleNeverGrants)
<1>1. IInv => StaleTupleNeverGrants
  BY DEF IInv, CheckOK, StaleTupleNeverGrants
<1> QED
  BY <1>1, SpecIInv, PTL

\* A rebuild that nothing disturbs leaves the store equal to the facts, whatever
\* earlier calls lost or left behind (openfga_rebuild_tuples).
THEOREM RebuildRestores == RoleProjectionAssumption => (Spec => []RebuildExact)
<1>1. IInv => RebuildExact
  BY DEF IInv, RebuildInv, RebuildExact, Rebuilding
<1> QED
  BY <1>1, SpecIInv, PTL

-----------------------------------------------------------------------------
(* Credentials *)

\* A row of CredentialGrant.
GrantRow == [template : Numbers!Templates, member : Holders, serial : Nat,
             status : {"active", "revoked"}]

CredentialRequest == [op : {"idle", "lock_template", "number", "returned", "broken",
                            "fill", "create"},
                      member : Holders \cup {NoSession}, serial : Nat,
                      seen : {"unset"}, dir : Numbers!Directions]

Numbered == Numbers!GrantsOf("covenanter_number")
Given == Cardinality(Numbered)

\* The rows of both templates and the requests.
GrantTables ==
    /\ grants \in Seq(GrantRow)
    /\ requests \in [Sessions -> CredentialRequest]
    /\ \A s \in Sessions : requests[s].op \in {"lock_template", "number"} => requests[s].member \in Holders

\* The numbers are given out in order, so the last one is their count.
Counted ==
    /\ Numbers!NumbersInOrder
    /\ \A k \in Numbered : grants[k].serial <= Given
    /\ Given > 0 => \E k \in Numbered : grants[k].serial = Given

\* Under the lock the number that was chosen is still the next one, and still wanted.
ChosenOK ==
    \A s \in Sessions :
        requests[s].op = "number" =>
            \/ requests[s].serial = 0
            \/ requests[s].serial = Given + 1 /\ ~Numbers!HasNumber(requests[s].member)

NumbersInv ==
    Numbers!TypeOK /\ GrantTables /\ Counted /\ ChosenOK /\ Numbers!OneGrantPerKey

-----------------------------------------------------------------------------
\* The instance has its own name for the library's operator.
LEMMA SameCardinality == \A S : Numbers!Cardinality(S) = Cardinality(S)
  BY DEF Cardinality, Numbers!Cardinality

LEMMA InOrder ==
    Numbers!NumbersInOrder <=>
        \A k \in Numbered : grants[k].serial = Cardinality({j \in Numbered : j <= k})
  BY SameCardinality DEF Numbers!NumbersInOrder, Numbered

LEMMA NumberedFinite ==
    ASSUME grants \in Seq(GrantRow)
    PROVE  /\ \A t : Numbers!GrantsOf(t) \subseteq 1..Len(grants)
           /\ IsFiniteSet(Numbered)
           /\ Given \in Nat
           /\ \A k : IsFiniteSet({j \in Numbered : j <= k}) /\ Cardinality({j \in Numbered : j <= k}) \in Nat
<1>1. \A t : Numbers!GrantsOf(t) \subseteq 1..Len(grants)
  BY DEF Numbers!GrantsOf
<1>2. Len(grants) \in Nat /\ IsFiniteSet(1..Len(grants))
  BY FS_Interval
<1>3. IsFiniteSet(Numbered)
  BY <1>1, <1>2, FS_Subset DEF Numbered
<1>4. \A k : {j \in Numbered : j <= k} \subseteq Numbered
  OBVIOUS
<1> QED
  BY <1>1, <1>3, <1>4, FS_Subset, FS_CardinalityType DEF Given

\* The number after the last one that was ever given.
LEMMA NextNumber ==
    ASSUME grants \in Seq(GrantRow), Counted
    PROVE  Numbers!MaxSerial = Given
<1> DEFINE S == {0} \cup {grants[k].serial : k \in Numbered}
<1>1. Given \in Nat /\ \A k \in Numbered : grants[k].serial \in Nat
  <2>1. \A k \in 1..Len(grants) : grants[k] \in GrantRow
    OBVIOUS
  <2> QED
    BY <2>1, NumberedFinite DEF Numbered, GrantRow
<1>2. Given \in S /\ \A y \in S : Given >= y
  <2>1. CASE Given = 0
    BY <2>1, <1>1 DEF Counted
  <2>2. CASE Given > 0
    BY <2>2, <1>1 DEF Counted
  <2> QED
    BY <1>1, <2>1, <2>2
<1>3. \A x \in S : (\A y \in S : x >= y) => x = Given
  BY <1>1, <1>2
<1>4. (CHOOSE x \in S : \A y \in S : x >= y) = Given
  <2> HIDE DEF S
  <2> QED
    BY <1>2, <1>3
<1> QED
  BY <1>4 DEF Numbers!MaxSerial, Numbers!Max, Numbered

\* What one more row changes.
LEMMA RowAppended ==
    ASSUME grants \in Seq(GrantRow), NEW g \in GrantRow, grants' = Append(grants, g)
    PROVE  /\ grants' \in Seq(GrantRow)
           /\ Len(grants') = Len(grants) + 1
           /\ grants'[Len(grants) + 1] = g
           /\ \A k \in 1..Len(grants) : grants'[k] = grants[k]
           /\ \A t : Numbers!GrantsOf(t)' = Numbers!GrantsOf(t)
                        \cup (IF g.template = t THEN {Len(grants) + 1} ELSE {})
  BY DEF Numbers!GrantsOf

\* Anyone of the actions that only moves requests and leaves the rows alone.
LEMMA OnlyRequests ==
    ASSUME Numbers!CredentialsAssumption, NumbersInv, UNCHANGED grants,
           NEW s \in Sessions, NEW r \in CredentialRequest,
           requests' = [requests EXCEPT ![s] = r],
           r.op \in {"lock_template", "number"} => r.member \in Holders,
           r.op = "number" => \/ r.serial = 0
                              \/ /\ r.serial = Given + 1
                                 /\ ~Numbers!HasNumber(r.member),
           holder' \in Sessions \cup {NoSession},
           \A t \in Sessions : (holder' = t) <=> (requests'[t].op = "number"),
           config' \in [Numbers!Directions -> Numbers!Configs],
           rollbacks' \in 0..MaxRollbacks, edits' \in 0..MaxEdits
    PROVE  NumbersInv'
<1>1. Numbered' = Numbered /\ Given' = Given /\ \A m : Numbers!HasNumber(m)' = Numbers!HasNumber(m)
  BY DEF Numbered, Given, Numbers!GrantsOf, Numbers!HasNumber
<1>2. Numbers!TypeOK'
  BY DEF NumbersInv, Numbers!TypeOK
<1>3. GrantTables'
  BY DEF NumbersInv, GrantTables
<1>4. Counted'
  BY <1>1 DEF NumbersInv, Counted, Numbers!NumbersInOrder, Numbers!GrantsOf, Numbered
<1>5. ChosenOK'
  <2> SUFFICES ASSUME NEW t \in Sessions, requests'[t].op = "number"
               PROVE  \/ requests'[t].serial = 0
                      \/ requests'[t].serial = Given + 1 /\ ~Numbers!HasNumber(requests'[t].member)
    BY <1>1 DEF ChosenOK
  <2>1. CASE t = s
    BY <2>1 DEF NumbersInv, GrantTables
  <2>2. CASE t # s
    BY <2>2 DEF NumbersInv, GrantTables, ChosenOK
  <2> QED
    BY <2>1, <2>2
<1>6. Numbers!OneGrantPerKey'
  BY DEF NumbersInv, Numbers!OneGrantPerKey
<1> QED
  BY <1>2, <1>3, <1>4, <1>5, <1>6 DEF NumbersInv

\* What is left alone when neither rows nor requests change.
LEMMA RequestsKept ==
    ASSUME NumbersInv, UNCHANGED <<grants, requests, holder>>,
           config' \in [Numbers!Directions -> Numbers!Configs],
           rollbacks' \in 0..MaxRollbacks, edits' \in 0..MaxEdits
    PROVE  NumbersInv'
<1>1. Numbered' = Numbered /\ Given' = Given /\ \A m : Numbers!HasNumber(m)' = Numbers!HasNumber(m)
  BY DEF Numbered, Given, Numbers!GrantsOf, Numbers!HasNumber
<1>2. Numbers!TypeOK' /\ GrantTables' /\ Numbers!OneGrantPerKey'
  BY DEF NumbersInv, Numbers!TypeOK, GrantTables, Numbers!OneGrantPerKey
<1>3. Counted'
  BY <1>1 DEF NumbersInv, Counted, Numbers!NumbersInOrder, Numbers!GrantsOf, Numbered
<1>4. ChosenOK'
  BY <1>1 DEF NumbersInv, ChosenOK
<1> QED
  BY <1>2, <1>3, <1>4 DEF NumbersInv

\* A number is given out: it is the next one, and its holder had none.
LEMMA NumberGiven ==
    ASSUME Numbers!CredentialsAssumption, NumbersInv, NEW s \in Sessions,
           Numbers!CommitNumber(s)
    PROVE  NumbersInv'
<1> DEFINE r == requests[s]
           g == Numbers!Grant("covenanter_number", r.member, r.serial)
           n == Len(grants) + 1
<1>1. r \in CredentialRequest /\ r.op = "number" /\ r.member \in Holders /\ r.serial \in Nat
  BY DEF Numbers!CommitNumber, NumbersInv, GrantTables, CredentialRequest
<1>2. Numbers!Idle \in CredentialRequest /\ Numbers!Idle.op = "idle"
  BY DEF Numbers!Idle, CredentialRequest, Numbers!Directions
<1>3. requests' = [requests EXCEPT ![s] = Numbers!Idle] /\ holder' = NoSession
  BY DEF Numbers!CommitNumber, Numbers!End
<1>4. \A t \in Sessions : (holder' = t) <=> (requests'[t].op = "number")
  BY <1>1, <1>2, <1>3 DEF NumbersInv, GrantTables, Numbers!TypeOK, Numbers!CredentialsAssumption
<1>5. CASE r.serial = 0
  <2>1. UNCHANGED grants
    BY <1>5 DEF Numbers!CommitNumber
  <2> QED
    BY <1>2, <1>3, <1>4, <2>1, OnlyRequests DEF Numbers!CommitNumber, NumbersInv, Numbers!TypeOK
<1>6. CASE r.serial # 0
  <2>1. /\ r.serial = Given + 1 /\ ~Numbers!HasNumber(r.member)
        /\ Len(grants) < MaxGrants /\ grants' = Append(grants, g)
    BY <1>1, <1>6 DEF Numbers!CommitNumber, NumbersInv, ChosenOK
  <2>2. g \in GrantRow /\ g.template = "covenanter_number" /\ g.serial = r.serial
        /\ g.member = r.member
    BY <1>1 DEF GrantRow, Numbers!Grant, Numbers!Templates
  <2>3. grants \in Seq(GrantRow) /\ n \in Nat \ {0} /\ n - 1 = Len(grants)
    BY DEF NumbersInv, GrantTables
  <2>4. /\ grants' \in Seq(GrantRow) /\ Len(grants') = n /\ grants'[n] = g
        /\ \A k \in 1..Len(grants) : grants'[k] = grants[k]
        /\ Numbered' = Numbered \cup {n}
    BY <2>1, <2>2, <2>3, RowAppended DEF Numbered
  <2>5. /\ Numbered \subseteq 1..Len(grants) /\ IsFiniteSet(Numbered) /\ Given \in Nat
        /\ n \notin Numbered
    BY <2>3, NumberedFinite DEF Numbered
  <2>6. Given' = Given + 1
    BY <2>4, <2>5, FS_AddElement DEF Given
  <2>7. Counted'
    <3>1. \A k \in Numbered : {j \in Numbered' : j <= k} = {j \in Numbered : j <= k}
      BY <2>3, <2>4, <2>5
    <3>2. {j \in Numbered' : j <= n} = Numbered'
      <4>1. \A j \in Numbered' : j <= n
        BY <2>3, <2>4, <2>5
      <4> QED
        BY <4>1
    <3>3. \A k \in Numbered : grants'[k].serial = Cardinality({j \in Numbered' : j <= k})
      <4>1. \A k \in Numbered : grants[k].serial = Cardinality({j \in Numbered : j <= k})
        BY InOrder DEF NumbersInv, Counted
      <4>2. \A k \in Numbered : grants'[k] = grants[k]
        BY <2>4, <2>5
      <4> QED
        BY <3>1, <4>1, <4>2
    <3>4. grants'[n].serial = Given' /\ Given' = Cardinality({j \in Numbered' : j <= n})
      BY <2>1, <2>2, <2>4, <2>6, <3>2 DEF Given
    <3>5. Numbers!NumbersInOrder'
      <4>1. \A k \in Numbered' : grants'[k].serial = Cardinality({j \in Numbered' : j <= k})
        BY <2>4, <3>3, <3>4
      <4> QED
        BY <4>1, SameCardinality DEF Numbers!NumbersInOrder, Numbered
    <3>6. \A k \in Numbered : grants'[k].serial <= Given'
      <4>1. \A k \in Numbered : grants[k].serial \in Nat /\ grants[k].serial <= Given
        <5>1. \A k \in 1..Len(grants) : grants[k] \in GrantRow
          BY <2>3
        <5> QED
          BY <2>5, <5>1 DEF NumbersInv, Counted, GrantRow
      <4> QED
        BY <2>4, <2>5, <2>6, <4>1
    <3>7. \A k \in Numbered' : grants'[k].serial <= Given'
      BY <2>4, <2>5, <2>6, <3>4, <3>6
    <3> QED
      BY <2>4, <3>4, <3>5, <3>7 DEF Counted
  <2>8. ChosenOK'
    <3>1. \A t \in Sessions : requests'[t].op # "number"
      BY <1>3, <1>4 DEF Numbers!CredentialsAssumption
    <3> QED
      BY <3>1 DEF ChosenOK
  <2>9. Numbers!OneGrantPerKey'
    <3>1. \A k \in 1..Len(grants) : ~(grants[k].template = g.template /\ grants[k].member = g.member)
      BY <2>1, <2>2 DEF Numbers!HasNumber, Numbers!GrantsOf
    <3> QED
      BY <2>3, <2>4, <3>1 DEF NumbersInv, Numbers!OneGrantPerKey
  <2>10. GrantTables'
    BY <1>2, <1>3, <2>4 DEF NumbersInv, GrantTables
  <2>11. Numbers!TypeOK'
    <3>1. Len(grants') <= MaxGrants
      BY <2>1, <2>3, <2>4 DEF Numbers!CredentialsAssumption
    <3> QED
      BY <1>3, <1>4, <2>4, <3>1 DEF Numbers!CommitNumber, NumbersInv, Numbers!TypeOK, GrantRow
  <2> QED
    BY <2>7, <2>8, <2>9, <2>10, <2>11 DEF NumbersInv
<1> QED
  BY <1>5, <1>6

\* Another credential: the first one of its member.
LEMMA CredentialIssued ==
    ASSUME Numbers!CredentialsAssumption, NumbersInv, NEW s \in Sessions, NEW m \in Holders,
           Numbers!Issue(s, m)
    PROVE  NumbersInv'
<1> DEFINE g == Numbers!Grant("delivery", m, 0)
           r == [Numbers!Idle EXCEPT !.op = "returned", !.member = m]
           n == Len(grants) + 1
<1>1. g \in GrantRow /\ g.template = "delivery" /\ g.member = m
  BY DEF GrantRow, Numbers!Grant, Numbers!Templates
<1>2. r \in CredentialRequest /\ r.op = "returned"
  BY DEF Numbers!Idle, CredentialRequest, Numbers!Directions
<1>3. grants \in Seq(GrantRow) /\ n \in Nat \ {0} /\ n - 1 = Len(grants)
  BY DEF NumbersInv, GrantTables
<1>4. grants' = Append(grants, g) /\ requests' = [requests EXCEPT ![s] = r] /\ requests[s].op = "idle"
      /\ Len(grants) < MaxGrants
  BY DEF Numbers!Issue
<1>5. /\ grants' \in Seq(GrantRow) /\ Len(grants') = n /\ grants'[n] = g
      /\ \A k \in 1..Len(grants) : grants'[k] = grants[k]
      /\ \A t : Numbers!GrantsOf(t)' = Numbers!GrantsOf(t)
                                 \cup (IF g.template = t THEN {n} ELSE {})
  <2> HIDE DEF g
  <2> QED
    BY <1>1, <1>3, <1>4, RowAppended
<1>5a. Numbered' = Numbered
  BY <1>1, <1>5 DEF Numbered
<1>6. Numbered' = Numbered /\ Numbered \subseteq 1..Len(grants) /\ Given' = Given
  BY <1>3, <1>5a, NumberedFinite DEF Numbered, Given
<1>7. \A q : Numbers!HasNumber(q)' = Numbers!HasNumber(q)
  BY <1>5, <1>6 DEF Numbers!HasNumber, Numbered
<1>8. Counted'
  BY <1>5, <1>6 DEF NumbersInv, Counted, Numbers!NumbersInOrder, Numbered
<1>9. ChosenOK'
  BY <1>2, <1>4, <1>6, <1>7 DEF NumbersInv, GrantTables, ChosenOK
<1>10. Numbers!OneGrantPerKey'
  <2>1. \A k \in 1..Len(grants) : ~(grants[k].template = g.template /\ grants[k].member = g.member)
    BY <1>1 DEF Numbers!Issue, Numbers!GrantsOf
  <2> QED
    BY <1>3, <1>5, <2>1 DEF NumbersInv, Numbers!OneGrantPerKey
<1>11. GrantTables'
  BY <1>2, <1>4, <1>5 DEF NumbersInv, GrantTables
<1>12. Numbers!TypeOK'
  <2>1. Len(grants') <= MaxGrants
    BY <1>3, <1>4, <1>5 DEF Numbers!CredentialsAssumption
  <2>2. \A t \in Sessions : (holder' = t) <=> (requests'[t].op = "number")
    BY <1>2, <1>4 DEF Numbers!Issue, NumbersInv, Numbers!TypeOK, GrantTables
  <2> QED
    BY <1>5, <2>1, <2>2 DEF Numbers!Issue, NumbersInv, Numbers!TypeOK, GrantRow
<1> QED
  BY <1>8, <1>9, <1>10, <1>11, <1>12 DEF NumbersInv

\* A grant that is withdrawn keeps its number.
LEMMA GrantWithdrawn ==
    ASSUME Numbers!CredentialsAssumption, NumbersInv, NEW k \in 1..Len(grants),
           Numbers!Withdraw(k)
    PROVE  NumbersInv'
<1>1. grants \in Seq(GrantRow) /\ grants' = [grants EXCEPT ![k].status = "revoked"]
  BY DEF NumbersInv, GrantTables, Numbers!Withdraw
<1>2. \A j \in 1..Len(grants) : grants[j] \in GrantRow
  BY <1>1
<1>3. [grants[k] EXCEPT !.status = "revoked"] \in GrantRow
  BY <1>2 DEF GrantRow
<1>4. grants' \in Seq(GrantRow) /\ Len(grants') = Len(grants)
  BY <1>1, <1>3
<1>5. \A j \in 1..Len(grants) : /\ grants'[j].template = grants[j].template
                                /\ grants'[j].member = grants[j].member
                                /\ grants'[j].serial = grants[j].serial
  BY <1>1, <1>2 DEF GrantRow
<1>6. \A t : Numbers!GrantsOf(t)' = Numbers!GrantsOf(t)
  BY <1>4, <1>5 DEF Numbers!GrantsOf
<1>7. Numbered' = Numbered /\ Given' = Given /\ Numbered \subseteq 1..Len(grants)
  BY <1>1, <1>6, NumberedFinite DEF Numbered, Given
<1>8. \A m : Numbers!HasNumber(m)' = Numbers!HasNumber(m)
  BY <1>5, <1>7 DEF Numbers!HasNumber, Numbered
<1>9. Counted'
  BY <1>5, <1>7 DEF NumbersInv, Counted, Numbers!NumbersInOrder, Numbered
<1>10. ChosenOK'
  BY <1>7, <1>8 DEF Numbers!Withdraw, NumbersInv, ChosenOK
<1>11. Numbers!OneGrantPerKey'
  BY <1>4, <1>5 DEF NumbersInv, Numbers!OneGrantPerKey
<1>12. GrantTables'
  BY <1>4 DEF Numbers!Withdraw, NumbersInv, GrantTables
<1>13. Numbers!TypeOK'
  BY <1>4 DEF Numbers!Withdraw, NumbersInv, Numbers!TypeOK, GrantRow
<1> QED
  BY <1>9, <1>10, <1>11, <1>12, <1>13 DEF NumbersInv

LEMMA NumbersNext ==
    ASSUME Numbers!CredentialsAssumption, NumbersInv, [Numbers!Next]_(Numbers!vars)
    PROVE  NumbersInv'
<1> USE DEF Numbers!Idle, CredentialRequest, Numbers!Directions, Numbers!Configs
<1>0. \A s \in Sessions : requests[s] \in CredentialRequest
  BY DEF NumbersInv, GrantTables
<1>t. /\ holder \in Sessions \cup {NoSession} /\ config \in [Numbers!Directions -> Numbers!Configs]
      /\ rollbacks \in 0..MaxRollbacks /\ edits \in 0..MaxEdits
      /\ \A t \in Sessions : (holder = t) <=> (requests[t].op = "number")
      /\ {MaxGrants, MaxRollbacks, MaxEdits} \subseteq Nat /\ NoSession \notin Sessions
  BY DEF NumbersInv, Numbers!TypeOK, Numbers!CredentialsAssumption
<1>1. ASSUME NEW s \in Sessions, NEW m \in Holders, Numbers!BeginNumber(s, m) PROVE NumbersInv'
  BY <1>0, <1>1, <1>t, OnlyRequests DEF Numbers!BeginNumber, Numbers!Start, NumbersInv, GrantTables
<1>2. ASSUME NEW s \in Sessions, Numbers!LockTemplate(s) PROVE NumbersInv'
  <2> DEFINE x == IF Numbers!HasNumber(requests[s].member) THEN 0 ELSE Given + 1
             r == [requests[s] EXCEPT !.op = "number", !.serial = x]
  <2>1. Numbers!MaxSerial = Given /\ Given \in Nat
    BY NextNumber, NumberedFinite DEF NumbersInv, GrantTables
  <2>2. x \in Nat /\ (x = 0 \/ (x = Given + 1 /\ ~Numbers!HasNumber(requests[s].member)))
    <3>1. CASE Numbers!HasNumber(requests[s].member)
      BY <3>1
    <3>2. CASE ~Numbers!HasNumber(requests[s].member)
      BY <2>1, <3>2
    <3> QED
      BY <3>1, <3>2
  <2>3. requests' = [requests EXCEPT ![s].op = "number", ![s].serial = x]
    BY <1>2, <2>1 DEF Numbers!LockTemplate
  <2> HIDE DEF x
  <2>4. requests' = [requests EXCEPT ![s] = r]
    BY <1>0, <2>3 DEF NumbersInv, GrantTables
  <2>5. requests[s].member \in Holders
    BY <1>2 DEF Numbers!LockTemplate, NumbersInv, GrantTables
  <2>6. r \in CredentialRequest /\ r.op = "number" /\ r.member = requests[s].member /\ r.serial = x
    BY <1>0, <2>2
  <2>7. \A t \in Sessions : (holder' = t) <=> (requests'[t].op = "number")
    BY <1>2, <1>t, <2>4, <2>6 DEF Numbers!LockTemplate, NumbersInv, GrantTables
  <2> HIDE DEF r
  <2> QED
    BY <1>2, <1>t, <2>2, <2>4, <2>5, <2>6, <2>7, OnlyRequests DEF Numbers!LockTemplate
<1>3. ASSUME NEW s \in Sessions, Numbers!RollbackNumber(s) PROVE NumbersInv'
  <2>1. \A t \in Sessions : (holder' = t) <=> (requests'[t].op = "number")
    BY <1>3, <1>t DEF Numbers!RollbackNumber, Numbers!End, NumbersInv, GrantTables
  <2>2. rollbacks' \in 0..MaxRollbacks
    BY <1>3, <1>t DEF Numbers!RollbackNumber
  <2> QED
    BY <1>3, <1>t, <2>1, <2>2, OnlyRequests DEF Numbers!RollbackNumber, Numbers!End
<1>4. ASSUME NEW s \in Sessions, Numbers!Leave(s) PROVE NumbersInv'
  BY <1>0, <1>4, <1>t, OnlyRequests DEF Numbers!Leave, Numbers!End, NumbersInv, GrantTables
<1>5. ASSUME NEW s \in Sessions, NEW m \in Holders, Numbers!IssueCollides(s, m) PROVE NumbersInv'
  BY <1>0, <1>5, <1>t, OnlyRequests DEF Numbers!IssueCollides, NumbersInv, GrantTables
<1>6. ASSUME NEW s \in Sessions, NEW d \in Numbers!Directions, Numbers!EnsureRead(s, d)
      PROVE NumbersInv'
  <2>1. UNCHANGED <<grants, holder, rollbacks, edits>> /\ requests[s].op = "idle"
    BY <1>6 DEF Numbers!EnsureRead
  <2>2. CASE config[d] = "unset"
    <3> DEFINE r == [Numbers!Idle EXCEPT !.op = "fill", !.dir = d]
    <3>1. requests' = [requests EXCEPT ![s] = r] /\ UNCHANGED config
      BY <1>6, <2>2 DEF Numbers!EnsureRead
    <3>2. r \in CredentialRequest /\ r.op = "fill"
      OBVIOUS
    <3>3. \A t \in Sessions : (holder' = t) <=> (requests'[t].op = "number")
      BY <1>t, <2>1, <3>1, <3>2 DEF NumbersInv, GrantTables
    <3> HIDE DEF r
    <3> QED
      BY <1>t, <2>1, <3>1, <3>2, <3>3, OnlyRequests
  <2>3. CASE config[d] # "unset"
    <3>1. UNCHANGED requests /\ config' \in [Numbers!Directions -> Numbers!Configs]
      BY <1>6, <1>t, <2>3 DEF Numbers!EnsureRead
    <3> QED
      BY <1>t, <2>1, <3>1, RequestsKept
  <2> QED
    BY <2>2, <2>3
<1>7. ASSUME NEW s \in Sessions, Numbers!EnsureSave(s) PROVE NumbersInv'
  BY <1>0, <1>7, <1>t, OnlyRequests DEF Numbers!EnsureSave, Numbers!End, NumbersInv, GrantTables
<1>8. ASSUME NEW s \in Sessions, Numbers!CreateCheck(s) PROVE NumbersInv'
  <2>1. edits' \in 0..MaxEdits
    BY <1>8, <1>t DEF Numbers!CreateCheck
  <2> QED
    BY <1>0, <1>8, <1>t, <2>1, OnlyRequests DEF Numbers!CreateCheck, Numbers!Start, NumbersInv, GrantTables
<1>9. ASSUME NEW s \in Sessions, Numbers!CreateInsert(s) PROVE NumbersInv'
  BY <1>0, <1>9, <1>t, OnlyRequests DEF Numbers!CreateInsert, Numbers!End, NumbersInv, GrantTables
<1>10. ASSUME NEW d \in Numbers!Directions, Numbers!Update(d) PROVE NumbersInv'
  <2>1. edits' \in 0..MaxEdits
    BY <1>10, <1>t DEF Numbers!Update
  <2> QED
    BY <1>10, <1>t, <2>1, RequestsKept DEF Numbers!Update
<1>11. CASE UNCHANGED Numbers!vars
  BY <1>11, <1>t, RequestsKept DEF Numbers!vars
<1> QED
  BY <1>1, <1>2, <1>3, <1>4, <1>5, <1>6, <1>7, <1>8, <1>9, <1>10, <1>11,
     NumberGiven, CredentialIssued, GrantWithdrawn DEF Numbers!Next, Numbers!BeginRepair

LEMMA NumbersInit == Numbers!CredentialsAssumption /\ Numbers!Init => NumbersInv
<1> SUFFICES ASSUME Numbers!CredentialsAssumption, Numbers!Init PROVE NumbersInv
  OBVIOUS
<1>1. grants = <<>> /\ Len(grants) = 0 /\ Numbered = {} /\ Given = 0
  <2>1. grants = <<>> /\ Len(grants) = 0
    BY DEF Numbers!Init
  <2> QED
    BY <2>1, FS_EmptySet DEF Numbered, Given, Numbers!GrantsOf
<1>2. Numbers!Idle \in CredentialRequest /\ Numbers!Idle.op = "idle"
  BY DEF Numbers!Idle, CredentialRequest, Numbers!Directions
<1>3. \A s \in Sessions : requests[s] = Numbers!Idle
  BY DEF Numbers!Init
<1>4. Counted
  BY <1>1 DEF Counted, Numbers!NumbersInOrder, Numbered
<1>5. ChosenOK /\ Numbers!OneGrantPerKey
  BY <1>1, <1>2, <1>3 DEF ChosenOK, Numbers!OneGrantPerKey
<1>6. GrantTables
  BY <1>1, <1>2 DEF GrantTables, Numbers!Init
<1>7. Numbers!TypeOK
  <2>1. config \in [Numbers!Directions -> Numbers!Configs]
    BY DEF Numbers!Init, Numbers!Directions, Numbers!Configs
  <2>2. \A s \in Sessions : (holder = s) <=> (requests[s].op = "number")
    BY <1>2, <1>3 DEF Numbers!Init, Numbers!CredentialsAssumption
  <2> QED
    BY <1>1, <2>1, <2>2 DEF Numbers!Init, Numbers!TypeOK, Numbers!CredentialsAssumption
<1> QED
  BY <1>4, <1>5, <1>6, <1>7 DEF NumbersInv

LEMMA NumbersAlways == Numbers!CredentialsAssumption => (Numbers!Spec => []NumbersInv)
<1> SUFFICES ASSUME Numbers!CredentialsAssumption PROVE Numbers!Spec => []NumbersInv
  OBVIOUS
<1>1. Numbers!Init => NumbersInv
  BY NumbersInit
<1>2. NumbersInv /\ [Numbers!Next]_(Numbers!vars) => NumbersInv'
  BY NumbersNext
<1> QED
  BY <1>1, <1>2, PTL DEF Numbers!Spec

\* Rows, lock holder, configurations and bounds keep their types.
THEOREM NumbersTyped == Numbers!CredentialsAssumption => (Numbers!Spec => []Numbers!TypeOK)
<1> SUFFICES ASSUME Numbers!CredentialsAssumption PROVE Numbers!Spec => []Numbers!TypeOK
  OBVIOUS
<1>1. Numbers!Spec => []NumbersInv
  BY NumbersAlways
<1>2. NumbersInv => Numbers!TypeOK
  BY DEF NumbersInv
<1> QED
  BY <1>1, <1>2, PTL

\* "Covenanter numbers increment globally (1, 2, 3, ...) and are never re-used", whoever
\* issues them, whatever is withdrawn and whichever callers fail.
THEOREM NumbersNeverReused ==
    Numbers!CredentialsAssumption => (Numbers!Spec => []Numbers!NumbersInOrder)
<1> SUFFICES ASSUME Numbers!CredentialsAssumption PROVE Numbers!Spec => []Numbers!NumbersInOrder
  OBVIOUS
<1>1. Numbers!Spec => []NumbersInv
  BY NumbersAlways
<1>2. NumbersInv => Numbers!NumbersInOrder
  BY DEF NumbersInv, Counted
<1> QED
  BY <1>1, <1>2, PTL

\* A member gets one number and one credential per key, whoever asks for it and at once
\* with whom.
THEOREM OneCredentialEach ==
    Numbers!CredentialsAssumption => (Numbers!Spec => []Numbers!OneGrantPerKey)
<1> SUFFICES ASSUME Numbers!CredentialsAssumption PROVE Numbers!Spec => []Numbers!OneGrantPerKey
  OBVIOUS
<1>1. Numbers!Spec => []NumbersInv
  BY NumbersAlways
<1>2. NumbersInv => Numbers!OneGrantPerKey
  BY DEF NumbersInv
<1> QED
  BY <1>1, <1>2, PTL

-----------------------------------------------------------------------------
(* RoleBaseline *)

\* A recording between its checks and its insert.
Recording == [pc : {"insert"}, row : Desk!Qualification, marked : SUBSET Nat]

\* The rows a recording is about to mark as expired are active until it does, and no
\* two recordings are about to mark the same row.
MarkedOK ==
    \A s \in Sessions : records[s] # Desk!NoRecord =>
        /\ \A i \in records[s].marked : i \in 1..Len(quals) /\ quals[i].status = "active"
        /\ \A t \in Sessions \ {s} : records[t] # Desk!NoRecord =>
              records[s].marked \cap records[t].marked = {}

DeskInv ==
    /\ Desk!RowsOK
    /\ records \in [Sessions -> Recording \cup {Desk!NoRecord}]
    /\ MarkedOK

\* While the baseline is loaded no row of the expert is active, and once the exam is
\* passed the expert has the role.
LoadInv ==
    /\ cmd \in {"domains", "bootstrap", "covenanters", "exam", "qualification"} =>
          \A i \in 1..Len(quals) : quals[i].member = Expert => quals[i].status # "active"
    /\ cmd = "qualification" => "deliberator" \in roles[Expert]

\* Sessions record qualifications of the members that are left to them.
SubjectsInv ==
    /\ subjects \subseteq Staff
    /\ \A s \in Sessions : records[s] # Desk!NoRecord => records[s].row.member \in subjects

\* Nobody but the command records a qualification of the expert.
ExpertLeftAlone ==
    \A s \in Sessions : records[s] # Desk!NoRecord => records[s].row.member # Expert

-----------------------------------------------------------------------------
(* The operators. *)

LEMMA RecordShapes ==
    ASSUME DeskInv
    PROVE  \A s \in Sessions :
               /\ records[s] # Desk!NoRecord <=> records[s].pc = "insert"
               /\ records[s] # Desk!NoRecord => records[s] \in Recording
<1>1. \A r \in Recording : r.pc = "insert" /\ r # Desk!NoRecord
  BY DEF Recording, Desk!NoRecord
<1>2. Desk!NoRecord.pc = "idle"
  BY DEF Desk!NoRecord
<1> QED
  BY <1>1, <1>2 DEF DeskInv

LEMMA LockedRows ==
    ASSUME NEW i
    PROVE  i \in Desk!Locked <=> \E s \in Sessions : records[s] # Desk!NoRecord /\ i \in records[s].marked
  BY DEF Desk!Locked

\* Marking rows changes their status and nothing else.
LEMMA RowsExpired ==
    ASSUME quals \in Seq(Desk!Qualification), NEW marked
    PROVE  /\ Desk!Expired(quals, marked) \in Seq(Desk!Qualification)
           /\ Len(Desk!Expired(quals, marked)) = Len(quals)
           /\ \A i \in 1..Len(quals) :
                 /\ Desk!Expired(quals, marked)[i].member = quals[i].member
                 /\ Desk!Expired(quals, marked)[i].status =
                       IF i \in marked THEN "expired" ELSE quals[i].status
<1> DEFINE f == Desk!Expired(quals, marked)
<1>1. \A i \in 1..Len(quals) : quals[i] \in Desk!Qualification
  OBVIOUS
<1>2. \A q \in Desk!Qualification : /\ [q EXCEPT !.status = "expired"] \in Desk!Qualification
                                    /\ [q EXCEPT !.status = "expired"].member = q.member
                                    /\ [q EXCEPT !.status = "expired"].status = "expired"
  BY DEF Desk!Qualification
<1>3. f = [i \in 1..Len(quals) |-> IF i \in marked THEN [quals[i] EXCEPT !.status = "expired"]
                                   ELSE quals[i]]
  BY DEF Desk!Expired
<1>4. Len(quals) \in Nat /\ f \in [1..Len(quals) -> Desk!Qualification]
  BY <1>1, <1>2, <1>3
<1>5. f \in Seq(Desk!Qualification) /\ Len(f) = Len(quals)
  BY <1>4
<1> QED
  BY <1>2, <1>3, <1>5

\* What an appointment changes, its events apart.
LEMMA Appointed ==
    ASSUME NEW m, NEW added, NEW next, Desk!Appoint(m, added, next)
    PROVE  /\ roles' = [roles EXCEPT ![m] = @ \cup added]
           /\ cmd' = next
           /\ clock' = clock /\ allowed' = allowed /\ domain' = domain
           /\ quals' = quals /\ records' = records
  BY Zenon DEF Desk!Appoint

\* The steps that leave qualifications and recordings alone.
LEMMA DeskUntouched ==
    ASSUME DeskInv, UNCHANGED <<quals, records>>,
           clock' \in Desk!Moments, allowed' \subseteq Staff,
           roles' \in [Staff -> SUBSET {"covenanter", "deliberator", "administrator"}],
           domain' \in Desk!DomainStatuses,
           cmd' \in {"idle", "clear", "domains", "bootstrap", "covenanters", "exam",
                     "qualification", "report"}
    PROVE  DeskInv'
  BY DEF DeskInv, Desk!RowsOK, MarkedOK

\* The steps that change rows: what is marked by a recording stays active.
LEMMA DeskRows ==
    ASSUME DeskInv, UNCHANGED <<clock, allowed, roles, domain>>,
           quals' \in Seq(Desk!Qualification),
           records' \in [Sessions -> Recording \cup {Desk!NoRecord}],
           cmd' \in {"idle", "clear", "domains", "bootstrap", "covenanters", "exam",
                     "qualification", "report"},
           \A s \in Sessions : records'[s] # Desk!NoRecord =>
               /\ records'[s] = records[s]
               /\ \A i \in records[s].marked : i \in 1..Len(quals') /\ quals'[i].status = "active"
    PROVE  DeskInv'
  BY DEF DeskInv, Desk!RowsOK, MarkedOK

-----------------------------------------------------------------------------
(* The steps. *)

LEMMA RecordingBegins ==
    ASSUME Desk!BaselineAssumption, DeskInv, NEW s \in Sessions, NEW m \in Staff,
           NEW from \in Desk!Moments, NEW until \in 1..Desk!Forever,
           Desk!BeginRecord(s, m, from, until)
    PROVE  DeskInv'
<1> DEFINE e == Desk!Elapsed({m}, from)
           row == Desk!NewRow(m, from, until)
           r == [pc |-> "insert", row |-> row, marked |-> e]
<1>1. /\ records[s] = Desk!NoRecord /\ e \cap Desk!Locked = {}
      /\ records' = [records EXCEPT ![s] = r]
      /\ UNCHANGED <<clock, allowed, roles, domain, quals, cmd>>
  BY DEF Desk!BeginRecord, Desk!MayRecord
<1>2. \A i \in e : i \in 1..Len(quals) /\ quals[i].status = "active"
  BY DEF Desk!Elapsed
<1>3. row \in Desk!Qualification
  BY DEF Desk!NewRow, Desk!Qualification
<1>4. quals \in Seq(Desk!Qualification)
  BY DEF DeskInv, Desk!RowsOK
<1> HIDE DEF e, row
<1>5. e \subseteq Nat
  <2>1. Len(quals) \in Nat
    BY <1>4
  <2> QED
    BY <1>2, <2>1
<1>6. r \in Recording /\ r.marked = e
  BY <1>3, <1>5 DEF Recording
<1>7. \A t \in Sessions \ {s} : records[t] # Desk!NoRecord => records[t].marked \cap e = {}
  BY <1>1, LockedRows
<1> HIDE DEF r
<1>8. records' \in [Sessions -> Recording \cup {Desk!NoRecord}]
  BY <1>1, <1>6 DEF DeskInv
<1>9. MarkedOK'
  BY <1>1, <1>2, <1>6, <1>7 DEF DeskInv, MarkedOK
<1> QED
  BY <1>1, <1>8, <1>9 DEF DeskInv, Desk!RowsOK

\* A recording marks its rows and adds its own.
LEMMA RecordingEnds ==
    ASSUME Desk!BaselineAssumption, DeskInv, NEW s \in Sessions, Desk!CommitRecord(s)
    PROVE  /\ DeskInv'
           /\ Desk!RevokedForGood
           /\ LoadInv /\ ExpertLeftAlone => LoadInv'
<1> DEFINE marked == records[s].marked
           f == Desk!Expired(quals, marked)
           row == records[s].row
<1>1. /\ records[s].pc = "insert" /\ quals' = Append(f, row)
      /\ records' = [records EXCEPT ![s] = Desk!NoRecord]
      /\ UNCHANGED <<clock, allowed, roles, domain, cmd>>
  BY DEF Desk!CommitRecord
<1>2. records[s] \in Recording /\ records[s] # Desk!NoRecord
  BY <1>1, RecordShapes
<1>3. quals \in Seq(Desk!Qualification) /\ row \in Desk!Qualification
  BY <1>2 DEF DeskInv, Desk!RowsOK, Recording
<1>4. /\ f \in Seq(Desk!Qualification) /\ Len(f) = Len(quals)
      /\ \A i \in 1..Len(quals) : /\ f[i].member = quals[i].member
                                  /\ f[i].status = IF i \in marked THEN "expired" ELSE quals[i].status
  BY <1>3, RowsExpired
<1> HIDE DEF f, row
<1>5. /\ quals' \in Seq(Desk!Qualification) /\ Len(quals') = Len(quals) + 1
      /\ \A i \in 1..Len(quals) : quals'[i] = f[i]
      /\ quals'[Len(quals) + 1] = row
  BY <1>1, <1>3, <1>4
<1>6. \A i \in marked : i \in 1..Len(quals) /\ quals[i].status = "active"
  BY <1>2 DEF DeskInv, MarkedOK
<1>7. DeskInv'
  <2>1. records' \in [Sessions -> Recording \cup {Desk!NoRecord}]
    BY <1>1 DEF DeskInv
  <2>2. ASSUME NEW t \in Sessions, records'[t] # Desk!NoRecord
        PROVE  /\ records'[t] = records[t]
               /\ \A i \in records[t].marked : i \in 1..Len(quals') /\ quals'[i].status = "active"
    <3>1. t # s /\ records'[t] = records[t]
      BY <1>1, <2>2 DEF DeskInv
    <3>2. \A i \in records[t].marked : i \in 1..Len(quals) /\ quals[i].status = "active" /\ i \notin marked
      BY <1>2, <2>2, <3>1 DEF DeskInv, MarkedOK
    <3> QED
      BY <1>3, <1>4, <1>5, <3>1, <3>2
  <2> QED
    BY <1>1, <1>5, <2>1, <2>2, DeskRows DEF DeskInv, Desk!RowsOK
<1>8. Desk!RevokedForGood
  BY <1>3, <1>4, <1>5, <1>6 DEF Desk!RevokedForGood
<1>9. LoadInv /\ ExpertLeftAlone => LoadInv'
  BY <1>1, <1>2, <1>3, <1>4, <1>5 DEF LoadInv, ExpertLeftAlone, row
<1> QED
  BY <1>7, <1>8, <1>9

LEMMA RowsExpire ==
    ASSUME Desk!BaselineAssumption, DeskInv, Desk!ExpireElapsed
    PROVE  DeskInv' /\ Desk!RevokedForGood /\ (LoadInv => LoadInv')
<1> DEFINE e == Desk!Elapsed(Staff, clock)
           f == Desk!Expired(quals, e)
<1>1. e \cap Desk!Locked = {} /\ quals' = f /\ UNCHANGED <<clock, allowed, roles, domain, records, cmd>>
  BY DEF Desk!ExpireElapsed
<1>2. \A i \in e : i \in 1..Len(quals) /\ quals[i].status = "active"
  BY DEF Desk!Elapsed
<1> HIDE DEF e
<1>3. quals \in Seq(Desk!Qualification)
  BY DEF DeskInv, Desk!RowsOK
<1>4. /\ f \in Seq(Desk!Qualification) /\ Len(f) = Len(quals)
      /\ \A i \in 1..Len(quals) : /\ f[i].member = quals[i].member
                                  /\ f[i].status = IF i \in e THEN "expired" ELSE quals[i].status
  BY <1>3, RowsExpired
<1> HIDE DEF f
<1>5. DeskInv'
  <2>1. ASSUME NEW t \in Sessions, records'[t] # Desk!NoRecord
        PROVE  /\ records'[t] = records[t]
               /\ \A i \in records[t].marked : i \in 1..Len(quals') /\ quals'[i].status = "active"
    <3>1. \A i \in records[t].marked : i \in 1..Len(quals) /\ quals[i].status = "active" /\ i \notin e
      BY <1>1, <2>1, LockedRows DEF DeskInv, MarkedOK
    <3> QED
      BY <1>1, <1>4, <3>1
  <2> QED
    BY <1>1, <1>4, <2>1, DeskRows DEF DeskInv, Desk!RowsOK
<1>6. Desk!RevokedForGood
  BY <1>1, <1>2, <1>4 DEF Desk!RevokedForGood
<1>7. LoadInv => LoadInv'
  BY <1>1, <1>4 DEF LoadInv
<1> QED
  BY <1>5, <1>6, <1>7

LEMMA RowRevoked ==
    ASSUME Desk!BaselineAssumption, DeskInv, NEW i \in 1..Len(quals), Desk!RevokeQualification(i)
    PROVE  DeskInv' /\ Desk!RevokedForGood /\ (LoadInv => LoadInv')
<1>1. i \notin Desk!Locked /\ quals' = [quals EXCEPT ![i].status = "revoked"]
      /\ UNCHANGED <<clock, allowed, roles, domain, records, cmd>>
  BY DEF Desk!RevokeQualification
<1>2. quals \in Seq(Desk!Qualification)
  BY DEF DeskInv, Desk!RowsOK
<1>3. \A j \in 1..Len(quals) : quals[j] \in Desk!Qualification
  BY <1>2
<1>4. \A q \in Desk!Qualification : /\ [q EXCEPT !.status = "revoked"] \in Desk!Qualification
                                    /\ [q EXCEPT !.status = "revoked"].member = q.member
                                    /\ [q EXCEPT !.status = "revoked"].status = "revoked"
  BY DEF Desk!Qualification
<1>5. quals' = [quals EXCEPT ![i] = [quals[i] EXCEPT !.status = "revoked"]]
  BY <1>1
<1>6. /\ quals' \in Seq(Desk!Qualification) /\ Len(quals') = Len(quals)
      /\ \A j \in 1..Len(quals) : /\ quals'[j].member = quals[j].member
                                  /\ quals'[j].status = IF j = i THEN "revoked" ELSE quals[j].status
  BY <1>2, <1>3, <1>4, <1>5
<1>7. DeskInv'
  <2>1. ASSUME NEW t \in Sessions, records'[t] # Desk!NoRecord
        PROVE  /\ records'[t] = records[t]
               /\ \A j \in records[t].marked : j \in 1..Len(quals') /\ quals'[j].status = "active"
    <3>1. \A j \in records[t].marked : j \in 1..Len(quals) /\ quals[j].status = "active" /\ j # i
      BY <1>1, <2>1, LockedRows DEF DeskInv, MarkedOK
    <3> QED
      BY <1>1, <1>6, <3>1
  <2> QED
    BY <1>1, <1>6, <2>1, DeskRows DEF DeskInv, Desk!RowsOK
<1>8. Desk!RevokedForGood
  BY <1>1, <1>6 DEF Desk!RevokedForGood
<1>9. LoadInv => LoadInv'
  BY <1>1, <1>6 DEF LoadInv
<1> QED
  BY <1>7, <1>8, <1>9

\* The command records the expert's qualification, unless there is one: then the
\* baseline is in force.
LEMMA BaselineRecorded ==
    ASSUME Desk!BaselineAssumption, DeskInv, Desk!RecordBaseline
    PROVE  /\ DeskInv'
           /\ Desk!RevokedForGood
           /\ LoadInv => LoadInv' /\ Desk!BaselineInForce'
<1> DEFINE e == Desk!Elapsed({Expert}, clock)
           f == Desk!Expired(quals, e)
           row == Desk!NewRow(Expert, clock, Desk!Forever)
           some == \E i \in 1..Len(quals) : quals[i].member = Expert /\ quals[i].status = "active"
           n == Len(quals) + 1
<1>0. /\ cmd = "qualification" /\ cmd' = "report"
      /\ UNCHANGED <<clock, allowed, roles, domain, records>>
      /\ some => quals' = quals
      /\ ~some => Desk!MayRecord(Expert, clock, Desk!Forever) /\ quals' = Append(f, row)
  BY DEF Desk!RecordBaseline
<1>1. LoadInv'
  BY <1>0 DEF LoadInv
<1>2. CASE some
  <2>1. DeskInv'
    BY <1>0, <1>2, DeskUntouched DEF DeskInv, Desk!RowsOK
  <2>2. Desk!RevokedForGood
    BY <1>0, <1>2 DEF Desk!RevokedForGood
  <2>3. ~LoadInv
    BY <1>0, <1>2 DEF LoadInv
  <2> QED
    BY <2>1, <2>2, <2>3
<1>3. CASE ~some
  <2>1. quals \in Seq(Desk!Qualification) /\ clock \in Desk!Moments
    BY DEF DeskInv, Desk!RowsOK
  <2>2. /\ row \in Desk!Qualification /\ row.member = Expert /\ row.status = "active"
        /\ row.from = clock /\ row.until = LastMoment + 1
    BY <2>1 DEF Desk!NewRow, Desk!Qualification, Desk!BaselineAssumption, Desk!Forever, Desk!Moments
  <2>3. /\ f \in Seq(Desk!Qualification) /\ Len(f) = Len(quals)
        /\ \A i \in 1..Len(quals) : /\ f[i].member = quals[i].member
                                    /\ f[i].status = IF i \in e THEN "expired" ELSE quals[i].status
    BY <2>1, RowsExpired
  <2>4. e \cap Desk!Locked = {} /\ quals' = Append(f, row)
    BY <1>0, <1>3 DEF Desk!MayRecord
  <2>5. \A i \in e : i \in 1..Len(quals) /\ quals[i].status = "active"
    BY DEF Desk!Elapsed
  <2> HIDE DEF e, f, row, some
  <2>6. /\ quals' \in Seq(Desk!Qualification) /\ Len(quals') = n /\ n \in Nat \ {0}
        /\ \A i \in 1..Len(quals) : quals'[i] = f[i]
        /\ quals'[n] = row
    BY <2>1, <2>2, <2>3, <2>4
  <2>7. DeskInv'
    <3>1. ASSUME NEW t \in Sessions, records'[t] # Desk!NoRecord
          PROVE  /\ records'[t] = records[t]
                 /\ \A i \in records[t].marked : i \in 1..Len(quals') /\ quals'[i].status = "active"
      <4>1. \A i \in records[t].marked : i \in 1..Len(quals) /\ quals[i].status = "active" /\ i \notin e
        BY <1>0, <2>4, <3>1, LockedRows DEF DeskInv, MarkedOK
      <4> QED
        BY <1>0, <2>1, <2>3, <2>6, <4>1
    <3> QED
      BY <1>0, <2>6, <3>1, DeskRows DEF DeskInv, Desk!RowsOK
  <2>8. Desk!RevokedForGood
    BY <2>1, <2>3, <2>5, <2>6 DEF Desk!RevokedForGood
  <2>9. LoadInv => Desk!BaselineInForce'
    <3> SUFFICES ASSUME LoadInv PROVE Desk!BaselineInForce'
      OBVIOUS
    <3>1. /\ domain = "active" /\ Desk!HasRole(Expert, "covenanter")
          /\ Desk!HasRole(Administrator, "administrator")
      BY <1>0, <1>3 DEF Desk!MayRecord, Desk!MayMaintain
    <3>2. \A m, r : Desk!HasRole(m, r)' <=> Desk!HasRole(m, r)
      BY <1>0 DEF Desk!HasRole
    <3>3. Desk!HasRole(Expert, "deliberator")
      BY <1>0, <3>1 DEF LoadInv, Desk!HasRole
    <3>4. Desk!InForce(row, clock)
      BY <2>1, <2>2 DEF Desk!InForce, Desk!Moments, Desk!BaselineAssumption
    <3>5. Desk!InForce(quals'[n], clock)
      BY <2>6, <3>4
    <3>6. Desk!HasCurrent(Expert, clock)'
      BY <1>0, <2>2, <2>6, <3>1, <3>2, <3>5 DEF Desk!HasCurrent, Desk!InForce
    <3> QED
      BY <3>1, <3>2, <3>3, <3>6 DEF Desk!BaselineInForce
  <2> QED
    BY <1>1, <2>7, <2>8, <2>9
<1> QED
  BY <1>2, <1>3

\* The members and the command: rows are left alone or cleared.
LEMMA OtherDeskSteps ==
    ASSUME Desk!BaselineAssumption, DeskInv,
           \/ Desk!Tick \/ Desk!EnsureDomain \/ Desk!ArchiveDomain
           \/ \E m \in Staff : Desk!ChangeCovenanter(m) \/ Desk!ChangeAllowed(m)
           \/ \E acted \in BOOLEAN : Desk!BusinessEvent(acted)
           \/ Desk!Preflight \/ Desk!ClearBaseline \/ Desk!LoadDomains
           \/ Desk!BootstrapAdministrator \/ Desk!AppointCovenanter \/ Desk!PassBaselineExam
           \/ Desk!Report \/ Desk!Abandon
           \/ UNCHANGED Desk!vars
    PROVE  /\ DeskInv'
           /\ Desk!RevokedForGood
           /\ LoadInv => LoadInv'
           /\ ~(cmd # "report" /\ cmd' = "report")
<1> USE DEF Desk!DomainStatuses
<1>0. /\ clock \in Desk!Moments /\ allowed \subseteq Staff
      /\ roles \in [Staff -> SUBSET {"covenanter", "deliberator", "administrator"}]
      /\ domain \in Desk!DomainStatuses /\ quals \in Seq(Desk!Qualification)
      /\ cmd \in {"idle", "clear", "domains", "bootstrap", "covenanters", "exam",
                  "qualification", "report"}
      /\ Administrator \in Staff /\ Expert \in Staff /\ Administrator # Expert
  BY DEF DeskInv, Desk!RowsOK, Desk!BaselineAssumption
<1>k. UNCHANGED quals => Desk!RevokedForGood
  BY DEF Desk!RevokedForGood
<1>1. CASE Desk!Tick
  BY <1>0, <1>1, <1>k, DeskUntouched DEF Desk!Tick, Desk!Moments, Desk!BaselineAssumption, LoadInv
<1>2. CASE Desk!EnsureDomain \/ Desk!ArchiveDomain
  BY <1>0, <1>2, <1>k, DeskUntouched DEF Desk!EnsureDomain, Desk!ArchiveDomain, LoadInv
<1>3. ASSUME NEW m \in Staff, Desk!ChangeCovenanter(m)
      PROVE  /\ DeskInv' /\ Desk!RevokedForGood /\ (LoadInv => LoadInv')
             /\ ~(cmd # "report" /\ cmd' = "report")
  <2>1. /\ UNCHANGED <<clock, allowed, domain, quals, records, cmd>>
        /\ roles' = [roles EXCEPT ![m] = IF "covenanter" \in @ THEN @ \ {"covenanter"}
                                         ELSE @ \cup {"covenanter"}]
    BY <1>3 DEF Desk!ChangeCovenanter
  <2>2. roles' \in [Staff -> SUBSET {"covenanter", "deliberator", "administrator"}]
    BY <1>0, <2>1
  <2>3. \A x \in Staff : "deliberator" \in roles'[x] <=> "deliberator" \in roles[x]
    BY <1>0, <2>1
  <2>4. LoadInv => LoadInv'
    BY <1>0, <2>1, <2>3 DEF LoadInv
  <2> QED
    BY <1>0, <1>k, <2>1, <2>2, <2>4, DeskUntouched
<1>4. ASSUME NEW m \in Staff, Desk!ChangeAllowed(m)
      PROVE  /\ DeskInv' /\ Desk!RevokedForGood /\ (LoadInv => LoadInv')
             /\ ~(cmd # "report" /\ cmd' = "report")
  <2>1. allowed' \subseteq Staff
    BY <1>0, <1>4 DEF Desk!ChangeAllowed
  <2> QED
    BY <1>0, <1>4, <1>k, <2>1, DeskUntouched DEF Desk!ChangeAllowed, LoadInv
<1>5. ASSUME NEW acted \in BOOLEAN, Desk!BusinessEvent(acted)
      PROVE  /\ DeskInv' /\ Desk!RevokedForGood /\ (LoadInv => LoadInv')
             /\ ~(cmd # "report" /\ cmd' = "report")
  BY <1>0, <1>5, <1>k, DeskUntouched DEF Desk!BusinessEvent, LoadInv
<1>6. CASE Desk!Preflight \/ Desk!Report \/ Desk!Abandon
  BY <1>0, <1>6, <1>k, DeskUntouched DEF Desk!Preflight, Desk!Report, Desk!Abandon, LoadInv
<1>7. CASE Desk!ClearBaseline
  <2>1. /\ \A s \in Sessions : records[s] = Desk!NoRecord
        /\ quals' = <<>> /\ roles' = [m \in Staff |-> {}] /\ cmd' = "domains"
        /\ UNCHANGED <<clock, allowed, domain, records>>
    BY <1>7 DEF Desk!ClearBaseline
  <2>2. quals' \in Seq(Desk!Qualification) /\ Len(quals') = 0
    BY <2>1
  <2>3. DeskInv'
    BY <1>0, <2>1, <2>2 DEF DeskInv, Desk!RowsOK, MarkedOK
  <2> QED
    BY <2>1, <2>2, <2>3 DEF LoadInv, Desk!RevokedForGood
<1>8. CASE Desk!LoadDomains
  BY <1>0, <1>8, <1>k, DeskUntouched DEF Desk!LoadDomains, LoadInv
<1>9. ASSUME NEW m \in Staff, NEW added \in SUBSET {"covenanter", "deliberator", "administrator"},
             NEW next \in {"covenanters", "exam", "qualification"},
             Desk!Appoint(m, added, next), cmd \in {"bootstrap", "covenanters", "exam"},
             next = "qualification" => m = Expert /\ "deliberator" \in added
      PROVE  /\ DeskInv' /\ Desk!RevokedForGood /\ (LoadInv => LoadInv')
             /\ ~(cmd # "report" /\ cmd' = "report")
  <2>1. /\ roles' = [roles EXCEPT ![m] = @ \cup added] /\ cmd' = next
        /\ UNCHANGED <<clock, allowed, domain, quals, records>>
    BY <1>9, Appointed
  <2>2. roles' \in [Staff -> SUBSET {"covenanter", "deliberator", "administrator"}]
    BY <1>0, <2>1
  <2>3. LoadInv => LoadInv'
    BY <1>0, <1>9, <2>1 DEF LoadInv
  <2> QED
    BY <1>0, <1>k, <2>1, <2>2, <2>3, DeskUntouched
<1>10. CASE Desk!BootstrapAdministrator \/ Desk!AppointCovenanter \/ Desk!PassBaselineExam
  BY <1>0, <1>9, <1>10 DEF Desk!BootstrapAdministrator, Desk!AppointCovenanter, Desk!PassBaselineExam
<1>11. CASE UNCHANGED Desk!vars
  BY <1>0, <1>11, <1>k, DeskUntouched DEF Desk!vars, LoadInv
<1> QED
  BY <1>1, <1>2, <1>3, <1>4, <1>5, <1>6, <1>7, <1>8, <1>10, <1>11

LEMMA DeskNext ==
    ASSUME Desk!BaselineAssumption, DeskInv, SubjectsInv, [Desk!Next]_(Desk!vars)
    PROVE  /\ DeskInv'
           /\ Desk!RevokedForGood
           /\ LoadInv /\ ExpertLeftAlone => LoadInv' /\ Desk!PassMeansBaseline
<1>1. CASE \E s \in Sessions : \E m \in subjects, from \in Desk!Moments, until \in 1..Desk!Forever :
              Desk!BeginRecord(s, m, from, until)
  <2>1. UNCHANGED <<quals, roles, cmd>>
    BY <1>1 DEF Desk!BeginRecord
  <2>2. DeskInv'
    BY <1>1, RecordingBegins DEF SubjectsInv
  <2> QED
    BY <2>1, <2>2 DEF Desk!RevokedForGood, LoadInv, Desk!PassMeansBaseline
<1>2. CASE \E s \in Sessions : Desk!CommitRecord(s)
  <2>1. UNCHANGED cmd
    BY <1>2 DEF Desk!CommitRecord
  <2> QED
    BY <1>2, <2>1, RecordingEnds DEF Desk!PassMeansBaseline
<1>3. CASE Desk!ExpireElapsed \/ \E i \in 1..Len(quals) : Desk!RevokeQualification(i)
  <2>1. UNCHANGED cmd
    BY <1>3 DEF Desk!ExpireElapsed, Desk!RevokeQualification
  <2> QED
    BY <1>3, <2>1, RowsExpire, RowRevoked DEF Desk!PassMeansBaseline
<1>4. CASE Desk!RecordBaseline
  BY <1>4, BaselineRecorded DEF Desk!PassMeansBaseline
<1>5. CASE \/ Desk!Tick \/ Desk!EnsureDomain \/ Desk!ArchiveDomain
           \/ \E m \in Staff : Desk!ChangeCovenanter(m) \/ Desk!ChangeAllowed(m)
           \/ \E acted \in BOOLEAN : Desk!BusinessEvent(acted)
           \/ Desk!Preflight \/ Desk!ClearBaseline \/ Desk!LoadDomains
           \/ Desk!BootstrapAdministrator \/ Desk!AppointCovenanter \/ Desk!PassBaselineExam
           \/ Desk!Report \/ Desk!Abandon
           \/ UNCHANGED Desk!vars
  BY <1>5, OtherDeskSteps DEF Desk!PassMeansBaseline
<1> QED
  BY <1>1, <1>2, <1>3, <1>4, <1>5 DEF Desk!Next, Desk!Step

LEMMA SubjectsNext ==
    ASSUME DeskInv, SubjectsInv, [Desk!Next]_(Desk!vars)
    PROVE  SubjectsInv' /\ subjects' = subjects
<1>1. subjects' = subjects
  BY DEF Desk!Next, Desk!vars
<1>2. records \in [Sessions -> Recording \cup {Desk!NoRecord}]
  BY DEF DeskInv
<1>3. CASE \E s \in Sessions : \E m \in subjects, from \in Desk!Moments, until \in 1..Desk!Forever :
              Desk!BeginRecord(s, m, from, until)
  <2>1. PICK s \in Sessions : \E m \in subjects, from \in Desk!Moments, until \in 1..Desk!Forever :
              Desk!BeginRecord(s, m, from, until)
    BY <1>3
  <2>2. PICK m \in subjects, from \in Desk!Moments, until \in 1..Desk!Forever :
              Desk!BeginRecord(s, m, from, until)
    BY <2>1
  <2>3. records'[s].row.member = m /\ \A t \in Sessions \ {s} : records'[t] = records[t]
    BY <1>2, <2>2 DEF Desk!BeginRecord, Desk!NewRow
  <2> QED
    BY <1>1, <2>3 DEF SubjectsInv
<1>4. CASE \E s \in Sessions : Desk!CommitRecord(s)
  <2>1. PICK s \in Sessions : Desk!CommitRecord(s)
    BY <1>4
  <2>2. records'[s] = Desk!NoRecord /\ \A t \in Sessions \ {s} : records'[t] = records[t]
    BY <1>2, <2>1 DEF Desk!CommitRecord
  <2> QED
    BY <1>1, <2>2 DEF SubjectsInv
<1>5. CASE UNCHANGED records
  BY <1>1, <1>5 DEF SubjectsInv
<1>6. \/ \E s \in Sessions : \E m \in subjects, from \in Desk!Moments, until \in 1..Desk!Forever :
              Desk!BeginRecord(s, m, from, until)
      \/ \E s \in Sessions : Desk!CommitRecord(s)
      \/ UNCHANGED records
  BY DEF Desk!Next, Desk!Step, Desk!vars, Desk!Tick, Desk!EnsureDomain, Desk!ArchiveDomain,
     Desk!ExpireElapsed, Desk!ChangeCovenanter, Desk!ChangeAllowed, Desk!BusinessEvent,
     Desk!RevokeQualification, Desk!Preflight, Desk!ClearBaseline, Desk!LoadDomains,
     Desk!BootstrapAdministrator, Desk!AppointCovenanter, Desk!PassBaselineExam, Desk!Appoint,
     Desk!RecordBaseline, Desk!Report, Desk!Abandon
<1> QED
  BY <1>1, <1>3, <1>4, <1>5, <1>6

LEMMA DeskInit == Desk!BaselineAssumption /\ Desk!Init => DeskInv /\ LoadInv
<1> SUFFICES ASSUME Desk!BaselineAssumption, Desk!Init PROVE DeskInv /\ LoadInv
  OBVIOUS
<1>1. quals \in Seq(Desk!Qualification) /\ cmd = "idle"
  BY DEF Desk!Init
<1>2. roles \in [Staff -> SUBSET {"covenanter", "deliberator", "administrator"}]
  BY DEF Desk!Init
<1>3. clock \in Desk!Moments /\ allowed \subseteq Staff /\ domain \in Desk!DomainStatuses
  BY DEF Desk!Init, Desk!Moments, Desk!DomainStatuses, Desk!BaselineAssumption
<1>4. \A s \in Sessions : records[s] = Desk!NoRecord
  BY DEF Desk!Init
<1>5. records \in [Sessions -> Recording \cup {Desk!NoRecord}]
  BY DEF Desk!Init
<1> QED
  BY <1>1, <1>2, <1>3, <1>4, <1>5 DEF DeskInv, Desk!RowsOK, MarkedOK, LoadInv

LEMMA DeskAlways == Desk!BaselineAssumption => (Desk!Spec => [](DeskInv /\ SubjectsInv))
<1> SUFFICES ASSUME Desk!BaselineAssumption PROVE Desk!Spec => [](DeskInv /\ SubjectsInv)
  OBVIOUS
<1>1. Desk!Init => DeskInv /\ SubjectsInv
  BY DeskInit DEF Desk!Init, SubjectsInv
<1>2. DeskInv /\ SubjectsInv /\ [Desk!Next]_(Desk!vars) => (DeskInv /\ SubjectsInv)'
  BY DeskNext, SubjectsNext
<1> QED
  BY <1>1, <1>2, PTL DEF Desk!Spec

\* Qualification rows, domain and command keep their shape.
THEOREM DeskTyped == Desk!BaselineAssumption => (Desk!Spec => []Desk!TypeOK)
<1> SUFFICES ASSUME Desk!BaselineAssumption PROVE Desk!Spec => []Desk!TypeOK
  OBVIOUS
<1>1. DeskInv /\ SubjectsInv => Desk!TypeOK
  BY DEF DeskInv, SubjectsInv, Desk!TypeOK
<1> QED
  BY <1>1, DeskAlways, PTL

\* Rosters and single checks of a qualification agree, while terms, accounts, domains
\* and rows change.
THEOREM RostersAgree == Desk!BaselineAssumption => (Desk!Spec => []Desk!SelectionAgrees)
<1> SUFFICES ASSUME Desk!BaselineAssumption PROVE Desk!Spec => []Desk!SelectionAgrees
  OBVIOUS
<1>1. DeskInv => Desk!SelectionAgrees
  <2> SUFFICES ASSUME DeskInv
               PROVE  \A m : m \in Desk!QualifiedMembers(clock) <=> m \in Staff /\ Desk!HasCurrent(m, clock)
    BY DEF Desk!SelectionAgrees
  <2> TAKE m
  <2> QED
    BY DEF Desk!QualifiedMembers, Desk!HasCurrent
<1> QED
  BY <1>1, DeskAlways, PTL

\* A revoked qualification is never used again: no recording that was under way when it
\* was revoked, no expiry and no reset makes the row active or merely expired.
THEOREM RevocationStands ==
    Desk!BaselineAssumption => (Desk!Spec => [][Desk!RevokedForGood]_(Desk!vars))
<1> SUFFICES ASSUME Desk!BaselineAssumption PROVE Desk!Spec => [][Desk!RevokedForGood]_(Desk!vars)
  OBVIOUS
<1>1. DeskInv /\ SubjectsInv /\ [Desk!Next]_(Desk!vars) => [Desk!RevokedForGood]_(Desk!vars)
  BY DeskNext
<1> QED
  BY <1>1, DeskAlways, PTL DEF Desk!Spec

\* The command reports PASS on nothing less than the baseline in force, however often
\* earlier runs of it were abandoned and whatever happens to members while it loads,
\* as long as nobody else records a qualification of the expert.
THEOREM PassIsEarned ==
    Desk!BaselineAssumption =>
        (Desk!Spec => [][Expert \notin subjects => Desk!PassMeansBaseline]_(Desk!vars))
<1> SUFFICES ASSUME Desk!BaselineAssumption
             PROVE  Desk!Spec => [][Expert \notin subjects => Desk!PassMeansBaseline]_(Desk!vars)
  OBVIOUS
<1> DEFINE LeftAlone == Expert \notin subjects
<1>1. Desk!Init => (LeftAlone => LoadInv)
  BY DeskInit
<1>2. DeskInv /\ SubjectsInv /\ (LeftAlone => LoadInv) /\ [Desk!Next]_(Desk!vars)
          => (LeftAlone => LoadInv)' /\ [LeftAlone => Desk!PassMeansBaseline]_(Desk!vars)
  <2> SUFFICES ASSUME DeskInv, SubjectsInv, LeftAlone => LoadInv, [Desk!Next]_(Desk!vars)
               PROVE  /\ LeftAlone' => LoadInv'
                      /\ LeftAlone => Desk!PassMeansBaseline
    OBVIOUS
  <2>1. LeftAlone' => LeftAlone
    BY SubjectsNext
  <2>2. LeftAlone => ExpertLeftAlone
    BY DEF SubjectsInv, ExpertLeftAlone
  <2> QED
    BY <2>1, <2>2, DeskNext
<1> QED
  BY <1>1, <1>2, DeskAlways, PTL DEF Desk!Spec

\* Both together: what is revoked stays revoked, and PASS means the baseline is in force.
LEMMA DeskHolds == Desk!BaselineAssumption => (Desk!Spec => Desk!QualificationsHold)
BY RevocationStands, PassIsEarned, PTL DEF Desk!QualificationsHold

-----------------------------------------------------------------------------
(* The parts together: Authority. *)

\* A behaviour of the authority is a behaviour of each part.
LEMMA PartsBehave == AuthoritySpec => Spec /\ Numbers!Spec /\ Desk!Spec
<1>1. AuthorityInit => Init /\ Numbers!Init /\ Desk!Init
  BY DEF AuthorityInit
<1>2. ASSUME [AuthorityNext]_authorityVars
      PROVE  [Next]_vars /\ [Numbers!Next]_(Numbers!vars) /\ [Desk!Next]_(Desk!vars)
  <2>1. UNCHANGED numberVars => UNCHANGED Numbers!vars
    BY DEF numberVars, Numbers!vars
  <2>2. UNCHANGED deskVars => UNCHANGED Desk!vars
    BY DEF deskVars, Desk!vars
  <2>3. UNCHANGED authorityVars => UNCHANGED <<vars, numberVars, deskVars>>
    BY DEF authorityVars
  <2> QED
    BY <1>2, <2>1, <2>2, <2>3 DEF AuthorityNext
<1> QED
  BY <1>1, <1>2, PTL DEF AuthoritySpec, Spec, Numbers!Spec, Desk!Spec

\* Access rests on facts (RoleProjection, RoleBaseline): one running assignment behind a
\* role, a fact behind every yes, a store equal to the facts after an undisturbed rebuild,
\* and rosters of the qualified that agree with the check of one member.
THEOREM AccessIsFactual == AuthoritySpec => []AccessFollowsFacts
<1>1. TypeOK /\ OneRunningAssignment /\ StaleTupleNeverGrants /\ RebuildExact
      /\ Desk!TypeOK /\ Desk!SelectionAgrees => AccessFollowsFacts
  BY DEF AccessFollowsFacts, ProjectionSound
<1> QED
  BY <1>1, PartsBehave, AuthorityAssumption, TypeCorrect, OneAssignment, StaleNeverGrants,
     RebuildRestores, DeskTyped, RostersAgree, PTL

\* Credentials: numbers 1, 2, 3... never used again, one number and one credential per key.
THEOREM NumbersAreSound == AuthoritySpec => []NumbersSound
<1>1. Numbers!TypeOK /\ Numbers!NumbersInOrder /\ Numbers!OneGrantPerKey => NumbersSound
  BY DEF NumbersSound, Numbers!NumbersSound
<1> QED
  BY <1>1, PartsBehave, AuthorityAssumption, NumbersTyped, NumbersNeverReused,
     OneCredentialEach, PTL

\* A revoked qualification is never used again, and the command that reloads the baseline
\* reports PASS on nothing less, where the qualification of the expert is left to it.
THEOREM QualificationsStand == AuthoritySpec => QualificationsHold
BY PartsBehave, AuthorityAssumption, DeskHolds, PTL DEF QualificationsHold

=============================================================================

--------------------------- MODULE RoleProjection ---------------------------
(***************************************************************************)
(* Role assignments in the database and their projection into OpenFGA:     *)
(* core/role_assignment_services.py, core/openfga_projection_services.py,  *)
(* core/authorization_services.py, core/permission_services.py and the     *)
(* command openfga_rebuild_tuples.                                         *)
(*                                                                         *)
(* The assignments are rows; create_role_assignment locks the member, so   *)
(* it is one step. The tuples live in another service: a request sends     *)
(* its writes and deletes after its commit, having read the rows again,    *)
(* and other requests come in between. A call that fails is logged and     *)
(* forgotten. OpenFGA applies a call as a whole or not at all: it refuses  *)
(* to delete a tuple that is not there and to write one that is.           *)
(***************************************************************************)
EXTENDS Integers, Sequences, FiniteSets

CONSTANTS
    Members,
    Sessions,
    MaxTime,          \* bound on the clock
    Term,             \* length of an assignment
    MaxAssignments,   \* bound on RoleAssignment rows
    MaxLost,          \* bound on failed calls
    MaxSuspensions,   \* bound on suspensions
    NoMember

Roles == {"covenanter", "administrator"}

RoleProjectionAssumption ==
    /\ {MaxTime, MaxAssignments, MaxLost, MaxSuspensions} \subseteq Nat
    /\ Term \in Nat \ {0}
    /\ NoMember \notin Members

VARIABLES
    rows,        \* RoleAssignment rows in order of creation
    suspended,   \* members whose status or account is not active
    tuples,      \* what the OpenFGA store holds
    sess,        \* session -> the request it serves
    now,
    lost,        \* calls that failed
    suspensions,
    fresh        \* a rebuild ended and nothing has happened since it began

db == <<rows, suspended, now>>
vars == <<rows, suspended, tuples, sess, now, lost, suspensions, fresh>>

-----------------------------------------------------------------------------
(* Facts. *)

\* _role_assignment_tuples: an administrator is an assignee of the role as well.
Keys(m, role) ==
    IF role = "covenanter" THEN {<<m, "covenanter">>}
    ELSE {<<m, "administrator">>, <<m, "assignee">>}

Frozen(m) == <<m, "frozen_member">>

AllKeys == UNION {Keys(m, r) : m \in Members, r \in Roles} \cup {Frozen(m) : m \in Members}

KeysOf(a) == Keys(rows[a].member, rows[a].role)

InForce(a) == rows[a].status = "active" /\ rows[a].start <= now /\ now < rows[a].end

\* member_has_role: the term is running, the member is active and, where the role
\* asks for it, is a covenanter.
HasRole(m, role) ==
    /\ m \notin suspended
    /\ \E a \in 1..Len(rows) : rows[a].member = m /\ rows[a].role = role /\ InForce(a)
    /\ role = "administrator" =>
          \E a \in 1..Len(rows) : rows[a].member = m /\ rows[a].role = "covenanter" /\ InForce(a)

\* _role_assignment_is_current.
Current(a) == InForce(a) /\ HasRole(rows[a].member, rows[a].role)

\* _project_authorization_tuples of the rebuild command, which alone marks the
\* members that are suspended as frozen.
Facts ==
    UNION {Keys(p[1], p[2]) : p \in {q \in Members \X Roles : HasRole(q[1], q[2])}}
    \cup {Frozen(m) : m \in suspended}

\* What the lazy clean-up deletes: keys of ended assignments that no current one shares.
StaleKeys(m) ==
    UNION {KeysOf(a) : a \in {b \in 1..Len(rows) : rows[b].member = m /\ ~Current(b)}}
    \ UNION {KeysOf(a) : a \in {b \in 1..Len(rows) : rows[b].member = m /\ Current(b)}}

-----------------------------------------------------------------------------
(* The store and the sessions. *)

\* A write call: refused as a whole when a tuple is already there.
Written(keys) == IF keys \cap tuples = {} THEN tuples \cup keys ELSE tuples

\* A delete call: refused as a whole when a tuple is missing.
Deleted(keys) == IF keys \subseteq tuples THEN tuples \ keys ELSE tuples

Idle == [op |-> "idle", jobs |-> <<>>, keys |-> {}, member |-> NoMember,
         role |-> "covenanter", held |-> FALSE, ok |-> FALSE]

Start(s, r) ==
    /\ sess[s].op = "idle"
    /\ sess' = [sess EXCEPT ![s] = r]

\* A plausible bug: the request goes on after its last callback.
DoneNever(s) ==
    sess' = [sess EXCEPT ![s] = [Idle EXCEPT !.op = "callbacks", !.jobs = sess[s].jobs]]

\* A request that still has callbacks to run goes on with the next one.
Done(s) ==
    sess' = [sess EXCEPT ![s] = IF @.jobs = <<>> THEN Idle
                                ELSE [Idle EXCEPT !.op = "callbacks", !.jobs = sess[s].jobs]]

\* Everything but the rebuild itself ends its freshness.
Stir == fresh' = FALSE

-----------------------------------------------------------------------------
(* Assignments. *)

\* validate_role_assignment_prerequisites.
MayAssign(m, role) ==
    /\ m \notin suspended
    /\ role = "administrator" => HasRole(m, "covenanter")

Elapsed(m, role) ==
    {a \in 1..Len(rows) : /\ rows[a].member = m /\ rows[a].role = role
                          /\ rows[a].status = "active" /\ rows[a].end <= now}

Running(m, role) ==
    {a \in 1..Len(rows) : /\ rows[a].member = m /\ rows[a].role = role
                          /\ rows[a].status = "active" /\ rows[a].end > now}

NewRow(m, role) ==
    [member |-> m, role |-> role, status |-> "active", start |-> now, end |-> now + Term]

\* A plausible bug: a running assignment is not looked for.
CreateAnother(s, m, role) ==
    LET old == Elapsed(m, role)
        kept == [a \in 1..Len(rows) |->
                   IF a \in old THEN [rows[a] EXCEPT !.status = "expired"] ELSE rows[a]]
    IN  /\ MayAssign(m, role)
        /\ Len(rows) < MaxAssignments
        /\ rows' = Append(kept, NewRow(m, role))
        /\ Start(s, [Idle EXCEPT !.op = "callbacks",
                                 !.jobs = <<[do |-> "project", a |-> Len(rows) + 1]>>])
        /\ Stir
        /\ UNCHANGED <<suspended, tuples, now, lost, suspensions>>

\* create_role_assignment: elapsed assignments are marked expired and their tuples
\* deleted after commit; a running one is reused, otherwise one is made and
\* projected after commit.
Create(s, m, role) ==
    LET old == Elapsed(m, role)
        kept == [a \in 1..Len(rows) |->
                   IF a \in old THEN [rows[a] EXCEPT !.status = "expired"] ELSE rows[a]]
        made == Running(m, role) = {}
        removals == IF old = {} THEN <<>>
                    ELSE <<[do |-> "remove", a |-> CHOOSE a \in old : TRUE]>>
        projection == IF made THEN <<[do |-> "project", a |-> Len(rows) + 1]>> ELSE <<>>
    IN  /\ MayAssign(m, role)
        /\ Len(rows) < MaxAssignments
        /\ rows' = IF made THEN Append(kept, NewRow(m, role)) ELSE kept
        /\ Start(s, IF removals \o projection = <<>> THEN Idle
                    ELSE [Idle EXCEPT !.op = "callbacks", !.jobs = removals \o projection])
        /\ Stir
        /\ UNCHANGED <<suspended, tuples, now, lost, suspensions>>

\* revoke_role_assignment, whatever the status of the row.
Revoke(s, a) ==
    /\ rows' = [rows EXCEPT ![a].status = "revoked", ![a].end = now]
    /\ Start(s, [Idle EXCEPT !.op = "callbacks", !.jobs = <<[do |-> "remove", a |-> a]>>])
    /\ Stir
    /\ UNCHANGED <<suspended, tuples, now, lost, suspensions>>

\* The first half of a callback: project_role_assignment and
\* remove_role_assignment_projection read the row again and decide what to send.
Callback(s) ==
    LET job == sess[s].jobs[1]
        write == job.do = "project" /\ Current(job.a)
    IN  /\ sess[s].op = "callbacks"
        /\ sess' = [sess EXCEPT ![s].op = IF write THEN "write" ELSE "delete",
                                ![s].keys = KeysOf(job.a), ![s].jobs = Tail(@)]
        /\ Stir
        /\ UNCHANGED <<rows, suspended, tuples, now, lost, suspensions>>

\* The second half: the call reaches the store.
Send(s) ==
    /\ sess[s].op \in {"write", "delete", "lazy"}
    /\ tuples' = IF sess[s].op = "write" THEN Written(sess[s].keys) ELSE Deleted(sess[s].keys)
    /\ Done(s)
    /\ Stir
    /\ UNCHANGED <<rows, suspended, now, lost, suspensions>>

\* The call fails: a warning is logged, nothing is tried again.
LoseCall(s) ==
    /\ sess[s].op \in {"write", "delete", "lazy"}
    /\ lost < MaxLost
    /\ lost' = lost + 1
    /\ Done(s)
    /\ Stir
    /\ UNCHANGED <<rows, suspended, tuples, now, suspensions>>

-----------------------------------------------------------------------------
(* Checks. *)

\* A plausible bug: the store is asked without the assignments being looked at.
BeginCheckTrusting(s, m, role) ==
    /\ Start(s, [Idle EXCEPT !.op = "check", !.member = m, !.role = role,
                             !.held = HasRole(m, role)])
    /\ Stir
    /\ UNCHANGED <<rows, suspended, tuples, now, lost, suspensions>>

\* member_has_permission and full_workspace_access_decision: without the fact the
\* answer is no, and tuples that outlived their assignments are cleaned up.
BeginCheck(s, m, role) ==
    /\ Start(s, IF HasRole(m, role)
                THEN [Idle EXCEPT !.op = "check", !.member = m, !.role = role, !.held = TRUE]
                ELSE IF StaleKeys(m) = {} THEN Idle
                ELSE [Idle EXCEPT !.op = "lazy", !.keys = StaleKeys(m), !.member = m])
    /\ Stir
    /\ UNCHANGED <<rows, suspended, tuples, now, lost, suspensions>>

\* The answer of the store by its authorization model: workspace access asks for the
\* covenanter relation, a guarded permission for an assignee of the role who is a
\* covenanter and not frozen.
StoreAllows(m, role) ==
    /\ <<m, "covenanter">> \in tuples
    /\ role = "administrator" => <<m, "assignee">> \in tuples /\ Frozen(m) \notin tuples

AnswerCheck(s) ==
    /\ sess[s].op = "check"
    /\ sess' = [sess EXCEPT ![s].op = "answered",
                            ![s].ok = StoreAllows(sess[s].member, sess[s].role)]
    /\ Stir
    /\ UNCHANGED <<rows, suspended, tuples, now, lost, suspensions>>

Leave(s) ==
    /\ sess[s].op = "answered"
    /\ sess' = [sess EXCEPT ![s] = Idle]
    /\ UNCHANGED <<rows, suspended, tuples, now, lost, suspensions, fresh>>

-----------------------------------------------------------------------------
(* Rebuild. *)

Quiet(s) == \A t \in Sessions \ {s} : sess[t].op \in {"idle", "answered"}

\* The command projects the facts first. (held: nothing else has happened since.)
BeginRebuild(s) ==
    /\ Start(s, [Idle EXCEPT !.op = "rebuild_delete", !.keys = Facts, !.held = Quiet(s)])
    /\ fresh' = Quiet(s)
    /\ UNCHANGED <<rows, suspended, tuples, now, lost, suspensions>>

\* A plausible bug: what is in the store already is left there.
RebuildDeleteNone(s) ==
    /\ sess[s].op = "rebuild_delete"
    /\ sess' = [sess EXCEPT ![s].op = "rebuild_write"]
    /\ UNCHANGED <<rows, suspended, tuples, now, lost, suspensions, fresh>>

\* It reads what is there and deletes it...
RebuildDelete(s) ==
    /\ sess[s].op = "rebuild_delete"
    /\ tuples' = {}
    /\ sess' = [sess EXCEPT ![s].op = "rebuild_write"]
    /\ UNCHANGED <<rows, suspended, now, lost, suspensions, fresh>>

\* ... and writes the projection it made; a call that is refused ends the command.
RebuildWrite(s) ==
    /\ sess[s].op = "rebuild_write"
    /\ tuples' = Written(sess[s].keys)
    /\ sess' = [sess EXCEPT ![s] = Idle]
    /\ UNCHANGED <<rows, suspended, now, lost, suspensions, fresh>>

\* The command stops half-way.
RebuildDies(s) ==
    /\ sess[s].op \in {"rebuild_delete", "rebuild_write"}
    /\ lost < MaxLost
    /\ lost' = lost + 1
    /\ sess' = [sess EXCEPT ![s] = Idle]
    /\ Stir
    /\ UNCHANGED <<rows, suspended, tuples, now, suspensions>>

-----------------------------------------------------------------------------
\* The admin suspends or reinstates a member; nothing is projected.
ToggleSuspension(m) ==
    /\ suspensions < MaxSuspensions
    /\ suspended' = IF m \in suspended THEN suspended \ {m} ELSE suspended \cup {m}
    /\ suspensions' = suspensions + 1
    /\ Stir
    /\ UNCHANGED <<rows, tuples, sess, now, lost>>

Tick ==
    /\ now < MaxTime
    /\ now' = now + 1
    /\ Stir
    /\ UNCHANGED <<rows, suspended, tuples, sess, lost, suspensions>>

Init ==
    /\ rows = <<>>
    /\ suspended = {}
    /\ tuples = {}
    /\ sess = [s \in Sessions |-> Idle]
    /\ now = 0
    /\ lost = 0
    /\ suspensions = 0
    /\ fresh = FALSE

Next ==
    \/ Tick
    \/ \E m \in Members : ToggleSuspension(m)
    \/ \E s \in Sessions :
          \/ Callback(s) \/ Send(s) \/ LoseCall(s) \/ AnswerCheck(s) \/ Leave(s)
          \/ BeginRebuild(s) \/ RebuildDelete(s) \/ RebuildWrite(s) \/ RebuildDies(s)
          \/ \E m \in Members, r \in Roles : Create(s, m, r) \/ BeginCheck(s, m, r)
          \/ \E a \in 1..Len(rows) : Revoke(s, a)

Spec == Init /\ [][Next]_vars

-----------------------------------------------------------------------------
(* Properties. *)

\* The type invariant; callbacks name rows that are there.
TypeOK ==
    /\ rows \in Seq([member : Members, role : Roles,
                     status : {"active", "revoked", "expired"}, start : Nat, end : Nat])
    /\ Len(rows) <= MaxAssignments
    /\ suspended \subseteq Members
    /\ tuples \subseteq AllKeys
    /\ \A s \in Sessions :
          /\ sess[s].op \in {"idle", "callbacks", "write", "delete", "lazy", "check",
                             "answered", "rebuild_delete", "rebuild_write"}
          /\ sess[s].keys \subseteq AllKeys
          /\ sess[s].op = "callbacks" => sess[s].jobs # <<>>
          /\ \A k \in 1..Len(sess[s].jobs) : sess[s].jobs[k].a \in 1..Len(rows)
    /\ now \in 0..MaxTime
    /\ lost \in 0..MaxLost

\* However requests, expiry and renewals interleave, a member holds a role by one
\* running assignment at a time (create_role_assignment under the member lock).
OneRunningAssignment ==
    \A a, b \in 1..Len(rows) :
        /\ rows[a].member = rows[b].member /\ rows[a].role = rows[b].role
        /\ InForce(a) /\ InForce(b)
        => a = b

\* "a stale tuple can only narrow access and can never revive a non-current
\* authority fact": whatever late, lost or reordered calls left in the store, a
\* check that answers yes found the fact in the database when it began.
StaleTupleNeverGrants ==
    \A s \in Sessions : sess[s].op = "answered" /\ sess[s].ok => sess[s].held

\* A rebuild that nothing disturbs leaves the store equal to the facts, whatever
\* earlier calls lost or left behind ("与 Django 当前权威事实一致").
RebuildExact ==
    fresh /\ (\A s \in Sessions : sess[s].op \notin {"rebuild_delete", "rebuild_write"})
        => tuples = Facts

\* Access rests on facts: a role is held by one running assignment, no late, lost or
\* reordered call makes a check grant too much, and an undisturbed rebuild is exact.
ProjectionSound ==
    TypeOK /\ OneRunningAssignment /\ StaleTupleNeverGrants /\ RebuildExact

-----------------------------------------------------------------------------
(* What the repository says of itself and the code does not keep: the runs do *)
(* not check these, the README says how each fails.                           *)

Resting == lost = 0 /\ \A s \in Sessions : sess[s].op \in {"idle", "answered"}

\* "OpenFGA tuple 投影 SHALL 只写入 Django 权威数据中当前有效且策略需要的" facts: with
\* no call lost, none under way and no time passed or member suspended, the store
\* holds no tuple without a current fact.
OnlyCurrentProjected ==
    Resting /\ now = 0 /\ suspensions = 0 => tuples \subseteq Facts

\* "tuple 投影包含守约者资格和管理员直接关系" for whoever holds them: with no call
\* lost and none under way every current fact is in the store.
CurrentProjected == Resting => Facts \subseteq tuples

\* "Lazily remove stale lifecycle tuples when authority is checked after expiry.":
\* once the clean-up's call has reached the store, the stale tuples are gone.
LazyCleanupCleans ==
    [][\A s \in Sessions :
          (sess[s].op = "lazy" /\ sess'[s].op # "lazy" /\ lost' = lost) =>
             tuples' \cap sess[s].keys = {}]_vars

=============================================================================

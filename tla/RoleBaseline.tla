---------------------------- MODULE RoleBaseline ----------------------------
(***************************************************************************)
(* Professional qualifications of members                                  *)
(* (core/professional_qualification_services.py) and the command that      *)
(* clears and reloads the role facts of a simulation world                 *)
(* (core/role_baseline.py, reset_role_permission_baseline), with the chain *)
(* of system events that role assignments are part of.                     *)
(*                                                                         *)
(* Recording a qualification is one transaction that locks only the rows   *)
(* it marks as expired: its checks and its insert are two steps.  Terms    *)
(* are in force from appointment to revocation, at every moment.  The      *)
(* command clears in one transaction and loads in several; it may fail     *)
(* after any of them and be run again.                                     *)
(***************************************************************************)
EXTENDS Integers, Sequences, FiniteSets, SequencesExt

CONSTANTS
    Members,         \* the members the baseline appoints, and others
    Administrator,   \* role-baseline-administrator
    Expert,          \* role-baseline-finance
    Sessions,        \* services in progress at a time
    MaxTime,         \* bound: the last moment
    MaxRows,         \* bound: qualification rows that sessions add
    MaxEvents,       \* bound: length of the chain beyond which no business event follows
    MaxChanges,      \* bound: appointments, revocations and lock-outs
    MaxResets        \* bound: runs of the command

BaselineAssumption ==
    /\ {Administrator, Expert} \subseteq Members /\ Administrator # Expert
    /\ {MaxTime, MaxRows, MaxEvents, MaxChanges, MaxResets} \subseteq Nat

VARIABLES
    now,       \* the present moment
    allowed,   \* members whose status and account allow role facts
    roles,     \* member -> roles it is appointed to
    domain,    \* status of the professional domain
    quals,     \* MemberProfessionalQualification rows
    chain,     \* SystemEvent rows in the order of seq
    hashes,    \* event hashes computed so far
    sess,      \* session -> the qualification it is recording
    cmd,       \* the step of reset_role_permission_baseline
    spent,     \* changes and runs of the command so far
    subjects   \* members whose qualifications sessions record, settled from the start

vars == <<now, allowed, roles, domain, quals, chain, hashes, sess, cmd, spent, subjects>>

Forever == MaxTime + 1   \* valid_until is NULL
Moments == 0..MaxTime

\* ProfessionalDomain.
DomainStatuses == {"absent", "active", "archived"}

\* MemberProfessionalQualification.
Qualification == [member : Members, status : {"active", "revoked", "expired"},
                  from : Moments, until : 1..Forever]

NoRecord == [pc |-> "idle"]

-----------------------------------------------------------------------------
(* Role facts and the event chain. *)

\* member_has_role: every catalogued role needs the covenanter qualification.
HasRole(m, r) == m \in allowed /\ {"covenanter", r} \subseteq roles[m]

\* _require_qualification_administrator.
MayMaintain(m) == HasRole(m, "administrator")

\* append_event: the event follows the row with the highest seq.
Appended(events, hash, kind, acted) ==
    LET last == IF events = <<>> THEN [seq |-> 0, hash |-> 0] ELSE Last(events)
    IN  Append(events, [seq |-> last.seq + 1, prev |-> last.hash, hash |-> hash,
                        kind |-> kind, acted |-> acted])

\* verify_event_chain.
VerifyEventChain ==
    \A i \in 1..Len(chain) :
        /\ chain[i].seq = i
        /\ chain[i].prev = IF i = 1 THEN 0 ELSE chain[i - 1].hash

Init ==
    /\ now = 0
    /\ allowed = Members
    /\ roles \in {[m \in Members |-> IF m = Administrator THEN {"covenanter", "administrator"}
                                     ELSE {"covenanter"}],
                  [m \in Members |-> {}]}
    /\ domain = "absent"
    /\ quals = <<>>
    /\ chain = <<>>
    /\ hashes = 0
    /\ sess = [s \in Sessions |-> NoRecord]
    /\ cmd = "idle"
    /\ spent = [changes |-> 0, resets |-> 0]
    /\ subjects \in SUBSET Members

Tick ==
    /\ now < MaxTime
    /\ now' = now + 1
    /\ UNCHANGED <<allowed, roles, domain, quals, chain, hashes, sess, cmd, spent>>

\* The admission of a member, or the end of its term (create_role_assignment and
\* revoke_role_assignment), with its event.
ChangeCovenanter(m) ==
    /\ spent.changes < MaxChanges
    /\ m \in allowed
    /\ roles' = [roles EXCEPT ![m] = IF "covenanter" \in @ THEN @ \ {"covenanter"}
                                     ELSE @ \cup {"covenanter"}]
    /\ chain' = Appended(chain, hashes + 1, "role", FALSE)
    /\ hashes' = hashes + 1
    /\ spent' = [spent EXCEPT !.changes = @ + 1]
    /\ UNCHANGED <<now, allowed, domain, quals, sess, cmd>>

\* A member is suspended or its account locked, or either is undone.
ChangeAllowed(m) ==
    /\ spent.changes < MaxChanges
    /\ allowed' = IF m \in allowed THEN allowed \ {m} ELSE allowed \cup {m}
    /\ spent' = [spent EXCEPT !.changes = @ + 1]
    /\ UNCHANGED <<now, roles, domain, quals, chain, hashes, sess, cmd>>

\* Any other business event; it may name the assignment its actor acted under.
BusinessEvent(acted) ==
    /\ Len(chain) < MaxEvents
    /\ acted => \E m \in Members : roles[m] # {}
    /\ chain' = Appended(chain, hashes + 1, "business", acted)
    /\ hashes' = hashes + 1
    /\ UNCHANGED <<now, allowed, roles, domain, quals, sess, cmd, spent>>

-----------------------------------------------------------------------------
(* Professional domains and qualifications. *)

\* ensure_professional_domain, and archiving in the Django admin.
EnsureDomain ==
    /\ domain # "active"
    /\ domain' = "active"
    /\ UNCHANGED <<now, allowed, roles, quals, chain, hashes, sess, cmd, spent>>

ArchiveDomain ==
    /\ domain = "active"
    /\ domain' = "archived"
    /\ UNCHANGED <<now, allowed, roles, quals, chain, hashes, sess, cmd, spent>>

InForce(q, t) == q.status = "active" /\ q.from <= t /\ t < q.until

\* has_current_professional_qualification.
HasCurrent(m, t) ==
    /\ HasRole(m, "covenanter")
    /\ domain = "active"
    /\ \E i \in 1..Len(quals) : quals[i].member = m /\ InForce(quals[i], t)

\* A plausible bug: the roster trusts the status and does not look at the dates.
QualifiedMembersByStatus(t) ==
    IF domain # "active" THEN {}
    ELSE {quals[i].member : i \in {j \in 1..Len(quals) : quals[j].status = "active"}}
         \cap {m \in Members : HasRole(m, "covenanter")}

\* members_with_current_professional_qualification: one query, joined with the terms.
QualifiedMembers(t) ==
    IF domain # "active" THEN {}
    ELSE {quals[i].member : i \in {j \in 1..Len(quals) : InForce(quals[j], t)}}
         \cap {m \in Members : HasRole(m, "covenanter")}

\* A plausible bug: revoked rows that have ended are marked too.
ElapsedAnyStatus(ms, t) ==
    {i \in 1..Len(quals) : /\ quals[i].member \in ms
                           /\ quals[i].until # Forever /\ quals[i].until <= t}

\* expire_elapsed_professional_qualifications: the rows it marks.
Elapsed(ms, t) ==
    {i \in 1..Len(quals) : /\ quals[i].member \in ms
                           /\ quals[i].status = "active"
                           /\ quals[i].until # Forever /\ quals[i].until <= t}

Expired(rows, marked) ==
    [i \in 1..Len(rows) |-> IF i \in marked THEN [rows[i] EXCEPT !.status = "expired"]
                            ELSE rows[i]]

\* Rows a transaction in progress has updated.
Locked == UNION {sess[s].marked : s \in {r \in Sessions : sess[r] # NoRecord}}

\* A plausible bug: the subject is not checked.
MayRecordAnybody(m, from, until) ==
    /\ domain = "active"
    /\ MayMaintain(Administrator)
    /\ from < until
    /\ Elapsed({m}, from) \cap Locked = {}
    /\ ~HasCurrent(m, from)

\* The checks of record_external_professional_qualification, made at the moment the
\* qualification is to begin.
MayRecord(m, from, until) ==
    /\ domain = "active"
    /\ HasRole(m, "covenanter")
    /\ MayMaintain(Administrator)
    /\ from < until
    /\ Elapsed({m}, from) \cap Locked = {}
    /\ ~HasCurrent(m, from)

NewRow(m, from, until) == [member |-> m, status |-> "active", from |-> from, until |-> until]

BeginRecord(s, m, from, until) ==
    /\ sess[s] = NoRecord
    /\ Len(quals) < MaxRows
    /\ MayRecord(m, from, until)
    /\ sess' = [sess EXCEPT ![s] = [pc |-> "insert", row |-> NewRow(m, from, until),
                                    marked |-> Elapsed({m}, from)]]
    /\ UNCHANGED <<now, allowed, roles, domain, quals, chain, hashes, cmd, spent>>

CommitRecord(s) ==
    /\ sess[s].pc = "insert"
    /\ quals' = Append(Expired(quals, sess[s].marked), sess[s].row)
    /\ sess' = [sess EXCEPT ![s] = NoRecord]
    /\ UNCHANGED <<now, allowed, roles, domain, chain, hashes, cmd, spent>>

\* expire_elapsed_professional_qualifications for everybody.
ExpireElapsed ==
    /\ Elapsed(Members, now) # {}
    /\ Elapsed(Members, now) \cap Locked = {}
    /\ quals' = Expired(quals, Elapsed(Members, now))
    /\ UNCHANGED <<now, allowed, roles, domain, chain, hashes, sess, cmd, spent>>

\* revoke_professional_qualification, whatever became of the row meanwhile.
RevokeQualification(i) ==
    /\ MayMaintain(Administrator)
    /\ i \notin Locked
    /\ quals' = [quals EXCEPT ![i].status = "revoked"]
    /\ UNCHANGED <<now, allowed, roles, domain, chain, hashes, sess, cmd, spent>>

-----------------------------------------------------------------------------
(* reset_role_permission_baseline. *)

\* The world is an active simulation, and OpenFGA answers or is not configured.
Preflight ==
    /\ cmd = "idle"
    /\ spent.resets < MaxResets
    /\ cmd' = "clear"
    /\ spent' = [spent EXCEPT !.resets = @ + 1]
    /\ UNCHANGED <<now, allowed, roles, domain, quals, chain, hashes, sess>>

\* clear_role_permission_baseline: one transaction, which the rows of sessions in
\* progress hold up.  An event that names the assignment of its actor protects it,
\* and the command ends in an error.
ClearBaseline ==
    /\ cmd = "clear"
    /\ \A i \in 1..Len(chain) : ~chain[i].acted
    /\ \A s \in Sessions : sess[s] = NoRecord
    /\ roles' = [m \in Members |-> {}]
    /\ quals' = <<>>
    /\ chain' = SelectSeq(chain, LAMBDA e : e.kind # "role")
    /\ cmd' = "domains"
    /\ UNCHANGED <<now, allowed, domain, hashes, sess, spent>>

\* load_role_permission_baseline, one call after the other.
LoadDomains ==
    /\ cmd = "domains"
    /\ domain' = "active"
    /\ cmd' = "bootstrap"
    /\ UNCHANGED <<now, allowed, roles, quals, chain, hashes, sess, spent>>

\* create_role_assignment refuses a member who may not hold role facts, and any role
\* but covenanter to one who is no covenanter; a running term is used again, and only a
\* new one has an event.  The covenanter number is part of Credentials, and its event is
\* one of the business events here.
Appoint(m, added, next) ==
    /\ m \in allowed
    /\ "covenanter" \in roles[m] \cup added
    /\ roles' = [roles EXCEPT ![m] = @ \cup added]
    /\ LET new == added \ roles[m]
           AppendOne(r, events) == Appended(events, hashes + 1 + Len(events) - Len(chain), "role", FALSE)
       IN  /\ chain' = FoldSet(AppendOne, chain, new)
           /\ hashes' = hashes + Cardinality(new)
    /\ cmd' = next
    /\ UNCHANGED <<now, allowed, domain, quals, sess, spent>>

\* bootstrap_initial_administrator: both roles in one transaction.
BootstrapAdministrator ==
    cmd = "bootstrap" /\ Appoint(Administrator, {"covenanter", "administrator"}, "covenanters")

\* The other members of the baseline; the expert stands for those it appoints likewise.
AppointCovenanter == cmd = "covenanters" /\ Appoint(Expert, {"covenanter"}, "exam")

\* _pass_baseline_exam makes the candidate a deliberator.
PassBaselineExam == cmd = "exam" /\ Appoint(Expert, {"deliberator"}, "qualification")

\* An active row, in force or not, stands for the qualification of the baseline.
RecordBaseline ==
    /\ cmd = "qualification"
    /\ IF \E i \in 1..Len(quals) : quals[i].member = Expert /\ quals[i].status = "active"
       THEN UNCHANGED quals
       ELSE /\ MayRecord(Expert, now, Forever)
            /\ quals' = Append(Expired(quals, Elapsed({Expert}, now)), NewRow(Expert, now, Forever))
    /\ cmd' = "report"
    /\ UNCHANGED <<now, allowed, roles, domain, chain, hashes, sess, spent>>

Report ==
    /\ cmd = "report"
    /\ cmd' = "idle"
    /\ UNCHANGED <<now, allowed, roles, domain, quals, chain, hashes, sess, spent>>

\* A call of the command raises, or its process dies.
Abandon ==
    /\ cmd # "idle"
    /\ cmd' = "idle"
    /\ UNCHANGED <<now, allowed, roles, domain, quals, chain, hashes, sess, spent>>

Step ==
    \/ Tick \/ EnsureDomain \/ ArchiveDomain \/ ExpireElapsed
    \/ \E m \in Members : ChangeCovenanter(m) \/ ChangeAllowed(m)
    \/ \E acted \in BOOLEAN : BusinessEvent(acted)
    \/ \E s \in Sessions :
         \/ \E m \in subjects, from \in Moments, until \in 1..Forever : BeginRecord(s, m, from, until)
         \/ CommitRecord(s)
    \/ \E i \in 1..Len(quals) : RevokeQualification(i)
    \/ Preflight \/ ClearBaseline \/ LoadDomains \/ BootstrapAdministrator
    \/ AppointCovenanter \/ PassBaselineExam
    \/ RecordBaseline \/ Report \/ Abandon

Next == Step /\ UNCHANGED subjects

Spec == Init /\ [][Next]_vars

-----------------------------------------------------------------------------
(* Properties. *)

\* What rows, domain and command may hold.
RowsOK ==
    /\ now \in Moments
    /\ allowed \subseteq Members
    /\ roles \in [Members -> SUBSET {"covenanter", "deliberator", "administrator"}]
    /\ domain \in DomainStatuses
    /\ quals \in Seq(Qualification)
    /\ cmd \in {"idle", "clear", "domains", "bootstrap", "covenanters", "exam",
               "qualification", "report"}

\* Qualification rows, domain and command keep their shape.
TypeOK == subjects \subseteq Members /\ RowsOK

\* Whoever members_with_current_professional_qualification selects may use the
\* qualification by has_current_professional_qualification, and nobody else: rosters
\* and single checks agree while terms, accounts, domains and rows change.
SelectionAgrees == QualifiedMembers(now) = {m \in Members : HasCurrent(m, now)}

\* A revoked qualification is never used again: no recording that was under way, no
\* expiry and no reset makes the row active or merely expired.
RevokedForGood ==
    \A i \in 1..Len(quals) : quals[i].status = "revoked" /\ quals' # <<>>
         => quals'[i].status = "revoked"

BaselineInForce ==
    /\ HasRole(Administrator, "administrator")
    /\ HasRole(Expert, "deliberator")
    /\ HasCurrent(Expert, now)

\* The command reports PASS on nothing less than the baseline in force, however often
\* earlier runs of it were abandoned and whoever is appointed, revoked or locked out
\* while it loads, as long as nobody else records a qualification of the expert: an
\* active row that begins later would be taken for the baseline's.
PassMeansBaseline == cmd # "report" /\ cmd' = "report" => BaselineInForce'

\* A revoked qualification is never used again, and PASS means the baseline is in force
\* where the qualification of the expert is left to the command.
QualificationsHold ==
    [][RevokedForGood /\ (Expert \notin subjects => PassMeansBaseline)]_vars

-----------------------------------------------------------------------------
(* What the repository says of itself and the code does not keep: the runs do *)
(* not check these, the README says how each fails.                           *)

\* A row is marked expired only when it has ended.
ExpiredOnlyElapsed ==
    \A i \in 1..Len(quals) : quals[i].status = "expired" => quals[i].until <= now

\* record_external_professional_qualification: a member has at most one qualification
\* in force.
OneInForce ==
    \A i, j \in 1..Len(quals) :
        i # j /\ quals[i].member = quals[j].member
            => ~(InForce(quals[i], now) /\ InForce(quals[j], now))

\* SystemEvent: the chain verifies at any time.
ChainVerifies == VerifyEventChain

=============================================================================

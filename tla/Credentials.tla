---------------------------- MODULE Credentials ----------------------------
(***************************************************************************)
(* Credential grants and recruitment templates: core/credential_services.py *)
(* and the command repair_covenanter_credentials. Covenanter numbers are    *)
(* given out under a lock of their template row that is held to the end of  *)
(* the caller's transaction; other credentials rely on the unique key of    *)
(* (template, member, dedupe_key); the recruitment configuration of a       *)
(* template is read and saved without a lock.                               *)
(***************************************************************************)
EXTENDS Integers, Sequences, FiniteSets, FiniteSetsExt

CONSTANTS
    Members,
    Sessions,
    NoSession,
    MaxGrants,      \* bound on CredentialGrant rows
    MaxRollbacks,   \* bound on callers that fail after the number was chosen
    MaxEdits        \* bound on configuration changes

CredentialsAssumption ==
    /\ {MaxGrants, MaxRollbacks, MaxEdits} \subseteq Nat
    /\ NoSession \notin Sessions

\* The template of the covenanter numbers and one of the built-in certificates;
\* a direction is a certificate shown on the application form.
Templates == {"covenanter_number", "delivery"}
Directions == {"builtin", "custom"}

\* metadata["recruitment"] of a direction: the template is missing, has no
\* configuration, the built-in one, or one an administrator wrote.
Configs == {"no_template", "unset", "default", "admin"}

VARIABLES
    grants,      \* CredentialGrant rows in order of insertion
    holder,      \* session that holds the row of the number template
    config,      \* direction -> its recruitment configuration
    sess,        \* session -> the request it serves
    rollbacks, edits

vars == <<grants, holder, config, sess, rollbacks, edits>>

-----------------------------------------------------------------------------
Idle == [op |-> "idle", member |-> NoSession, serial |-> 0, seen |-> "unset", dir |-> "builtin"]

Start(s, r) == sess[s].op = "idle" /\ sess' = [sess EXCEPT ![s] = r]

End(s) == sess' = [sess EXCEPT ![s] = Idle]

GrantsOf(t) == {k \in 1..Len(grants) : grants[k].template = t}

HasNumber(m) == \E k \in GrantsOf("covenanter_number") : grants[k].member = m

\* A plausible bug: a number that was revoked is free again.
MaxSerialActive ==
    Max({0} \cup {grants[k].serial : k \in {j \in GrantsOf("covenanter_number") :
                                               grants[j].status = "active"}})

\* The highest number ever given, whatever became of the grant.
MaxSerial == Max({0} \cup {grants[k].serial : k \in GrantsOf("covenanter_number")})

Grant(t, m, serial) == [template |-> t, member |-> m, serial |-> serial, status |-> "active"]

-----------------------------------------------------------------------------
(* Covenanter numbers. *)

\* issue_covenanter_number up to the lock: from create_role_assignment for anyone...
BeginNumber(s, m) ==
    /\ Start(s, [Idle EXCEPT !.op = "lock_template", !.member = m])
    /\ UNCHANGED <<grants, holder, config, rollbacks, edits>>

\* ... and from the repair command for a member it saw without a number.
BeginRepair(s, m) ==
    /\ ~HasNumber(m)
    /\ BeginNumber(s, m)

\* With the template locked an existing number is returned, otherwise the next one
\* is chosen. The lock stays until the caller's transaction ends.
LockTemplate(s) ==
    /\ sess[s].op = "lock_template"
    /\ holder = NoSession
    /\ holder' = s
    /\ sess' = [sess EXCEPT ![s].op = "number",
                            ![s].serial = IF HasNumber(sess[s].member) THEN 0 ELSE MaxSerial + 1]
    /\ UNCHANGED <<grants, config, rollbacks, edits>>

\* The caller commits: the grant and its event appear, the lock is released.
CommitNumber(s) ==
    /\ sess[s].op = "number"
    /\ sess[s].serial > 0 => Len(grants) < MaxGrants
    /\ grants' = IF sess[s].serial = 0 THEN grants
                 ELSE Append(grants, Grant("covenanter_number", sess[s].member, sess[s].serial))
    /\ holder' = NoSession
    /\ End(s)
    /\ UNCHANGED <<config, rollbacks, edits>>

\* A plausible bug: the lock outlives the transaction.
RollbackKeepsLock(s) ==
    /\ sess[s].op = "number"
    /\ rollbacks < MaxRollbacks
    /\ rollbacks' = rollbacks + 1
    /\ End(s)
    /\ UNCHANGED <<grants, holder, config, edits>>

\* The caller's transaction fails after the number was chosen.
RollbackNumber(s) ==
    /\ sess[s].op = "number"
    /\ rollbacks < MaxRollbacks
    /\ rollbacks' = rollbacks + 1
    /\ holder' = NoSession
    /\ End(s)
    /\ UNCHANGED <<grants, config, edits>>

-----------------------------------------------------------------------------
(* Other credentials. *)

\* A plausible bug: the key of the grant is not unique.
IssueTwice(s, m) ==
    /\ sess[s].op = "idle"
    /\ Len(grants) < MaxGrants
    /\ grants' = Append(grants, Grant("delivery", m, 0))
    /\ sess' = [sess EXCEPT ![s] = [Idle EXCEPT !.op = "returned", !.member = m]]
    /\ UNCHANGED <<holder, config, rollbacks, edits>>

\* issue_credential: the first insert of a key wins.
Issue(s, m) ==
    /\ sess[s].op = "idle"
    /\ \A k \in GrantsOf("delivery") : grants[k].member # m
    /\ Len(grants) < MaxGrants
    /\ grants' = Append(grants, Grant("delivery", m, 0))
    /\ sess' = [sess EXCEPT ![s] = [Idle EXCEPT !.op = "returned", !.member = m]]
    /\ UNCHANGED <<holder, config, rollbacks, edits>>

\* A second insert of the key fails inside the service's own transaction: the failed
\* insert marks the transaction for rollback (Django), so the query that should find
\* the existing grant raises, and the request ends in an error.
IssueCollides(s, m) ==
    /\ sess[s].op = "idle"
    /\ \E k \in GrantsOf("delivery") : grants[k].member = m
    /\ sess' = [sess EXCEPT ![s] = [Idle EXCEPT !.op = "broken", !.member = m]]
    /\ UNCHANGED <<grants, holder, config, rollbacks, edits>>

Leave(s) ==
    /\ sess[s].op \in {"returned", "broken"}
    /\ End(s)
    /\ UNCHANGED <<grants, holder, config, rollbacks, edits>>

\* The administration changes the status of a grant.
Withdraw(k) ==
    /\ grants[k].status = "active"
    /\ grants' = [grants EXCEPT ![k].status = "revoked"]
    /\ UNCHANGED <<holder, config, sess, rollbacks, edits>>

-----------------------------------------------------------------------------
(* Recruitment. *)

\* ensure_builtin_credential_templates: creates what is missing, and reads the
\* templates that are there; one without recruitment is saved later.
EnsureRead(s, d) ==
    /\ sess[s].op = "idle"
    /\ d = "builtin"
    /\ CASE config[d] = "no_template" ->
               config' = [config EXCEPT ![d] = "default"] /\ UNCHANGED sess
         [] config[d] = "unset" ->
               sess' = [sess EXCEPT ![s] = [Idle EXCEPT !.op = "fill", !.dir = d]] /\ UNCHANGED config
         [] OTHER -> UNCHANGED <<config, sess>>
    /\ UNCHANGED <<grants, holder, rollbacks, edits>>

EnsureSave(s) ==
    /\ sess[s].op = "fill"
    /\ config' = [config EXCEPT ![sess[s].dir] = "default"]
    /\ End(s)
    /\ UNCHANGED <<grants, holder, rollbacks, edits>>

\* update_recruitment_template_config: the template is read, then saved whole.
Update(d) ==
    /\ config[d] # "no_template"
    /\ edits < MaxEdits
    /\ edits' = edits + 1
    /\ config' = [config EXCEPT ![d] = "admin"]
    /\ UNCHANGED <<grants, holder, sess, rollbacks>>

\* create_recruitment_template: the code is looked up...
CreateCheck(s) ==
    /\ config["custom"] = "no_template"
    /\ edits < MaxEdits
    /\ edits' = edits + 1
    /\ Start(s, [Idle EXCEPT !.op = "create", !.dir = "custom"])
    /\ UNCHANGED <<grants, holder, config, rollbacks>>

\* ... and inserted; the code is unique, so the second of two requests fails.
CreateInsert(s) ==
    /\ sess[s].op = "create"
    /\ config' = IF config[sess[s].dir] = "no_template"
                 THEN [config EXCEPT ![sess[s].dir] = "admin"] ELSE config
    /\ End(s)
    /\ UNCHANGED <<grants, holder, rollbacks, edits>>

-----------------------------------------------------------------------------
Init ==
    /\ grants = <<>>
    /\ holder = NoSession
    /\ config \in {[builtin |-> c, custom |-> "no_template"] : c \in {"no_template", "unset"}}
    /\ sess = [s \in Sessions |-> Idle]
    /\ rollbacks = 0
    /\ edits = 0

Next ==
    \/ \E s \in Sessions :
          \/ LockTemplate(s) \/ CommitNumber(s) \/ RollbackNumber(s) \/ Leave(s)
          \/ \E d \in Directions : EnsureRead(s, d)
          \/ EnsureSave(s) \/ CreateCheck(s) \/ CreateInsert(s)
          \/ \E m \in Members :
                BeginNumber(s, m) \/ BeginRepair(s, m) \/ Issue(s, m) \/ IssueCollides(s, m)
    \/ \E k \in 1..Len(grants) : Withdraw(k)
    \/ \E d \in Directions : Update(d)

Spec == Init /\ [][Next]_vars

\* A request that has the lock gets on with its transaction and commits; whoever waits
\* for the row is served, since InnoDB hands a row lock to those that wait in turn.
Progress ==
    \A s \in Sessions : SF_vars(LockTemplate(s)) /\ WF_vars(CommitNumber(s))

FairSpec == Spec /\ Progress

-----------------------------------------------------------------------------
(* Properties. *)

\* The type invariant.
TypeOK ==
    /\ grants \in Seq([template : Templates, member : Members, serial : Nat,
                       status : {"active", "revoked"}])
    /\ Len(grants) <= MaxGrants
    /\ holder \in Sessions \cup {NoSession}
    /\ \A s \in Sessions : (holder = s) <=> (sess[s].op = "number")
    /\ config \in [Directions -> Configs]
    /\ rollbacks \in 0..MaxRollbacks
    /\ edits \in 0..MaxEdits

\* "Covenanter numbers increment globally (1, 2, 3, ...) and are never re-used": the
\* numbers given out are 1 to n in order, whoever issues them, whatever is withdrawn
\* and whichever callers fail (issue_covenanter_number under the template lock).
NumbersInOrder ==
    \A k \in GrantsOf("covenanter_number") :
        grants[k].serial = Cardinality({j \in GrantsOf("covenanter_number") : j <= k})

\* A member gets one number and one credential per key, however many requests, repair
\* runs and assignments ask for it.
OneGrantPerKey ==
    \A j, k \in 1..Len(grants) :
        grants[j].template = grants[k].template /\ grants[j].member = grants[k].member => j = k

\* Everyone who asks for a number is answered: nobody waits for the template for ever.
NumberAnswered ==
    \A s \in Sessions : sess[s].op = "lock_template" ~> sess[s].op = "idle"

\* Covenanter numbers are given out as 1, 2, 3... and never used again, and a member gets
\* one number and one credential per key.
NumbersSound == TypeOK /\ NumbersInOrder /\ OneGrantPerKey

-----------------------------------------------------------------------------
(* What the repository says of itself and the code does not keep: the runs do *)
(* not check these, the README says how each fails.                           *)

\* "never overwrite existing admin-configured recruitment".
AdminRecruitmentKept ==
    [][\A d \in Directions : config[d] = "admin" => config'[d] = "admin"]_vars

\* "another concurrent caller won the race. Re-read the existing grant.": a request
\* whose key exists comes back with the grant.
CollisionReturnsExisting == \A s \in Sessions : sess[s].op # "broken"

=============================================================================

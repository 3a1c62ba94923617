------------------------------ MODULE Avatars ------------------------------
(***************************************************************************)
(* Avatars and public profiles of the members of one world: the rows of    *)
(* MemberPublicProfile in the database, and the objects they refer to in   *)
(* two storages that know no transactions (core/avatar_services.py,        *)
(* core/file_storage, core/member_profile_services.py, the commands        *)
(* audit_avatar_storage and migrate_avatar_storage_layout, and the public  *)
(* avatar page).                                                           *)
(*                                                                         *)
(* A session is a request or a command.  A transaction on a profile row is *)
(* one step; every call of a storage is a step of its own, before or after *)
(* it.  Images are what was uploaded, by whom: decoding is left out.       *)
(***************************************************************************)
EXTENDS Integers, FiniteSets

CONSTANTS
    Members,      \* members of the world
    Sessions,     \* requests and commands in progress at a time
    MaxUploads,   \* bound: images that are uploaded
    MaxNotices,   \* bound: removals by an administrator
    NoKey         \* the empty avatar_key

AllFaults == {"failures",            \* a storage call or a transaction fails
              "crashes",             \* the process dies between two steps
              "lost_commits",        \* a transaction commits and its connection is lost
              "clean_while_serving", \* objects are cleaned while requests are served
              "two_migrations",      \* the layout is migrated by two commands at a time
              "admin_edits"}         \* profiles are edited in the Django admin

Images == [by : Members, no : 0..MaxUploads]
Keys == [layout : {"current", "legacy"}, of : Images]

AvatarsAssumption ==
    /\ NoKey \notin Keys
    /\ MaxUploads \in Nat /\ MaxNotices \in Nat

VARIABLES
    faults,    \* what may go wrong, of AllFaults; settled when the system starts
    legacy,    \* members whose avatar is in the old layout then
    profile,   \* member -> MemberPublicProfile row
    store,     \* key -> the image stored under it
    uploads,   \* images uploaded so far
    notices,   \* removals by an administrator on record
    sess,      \* session -> what it is doing
    served     \* the last answer of the public avatar page

setting == <<faults, legacy>>
vars == <<setting, profile, store, uploads, notices, sess, served>>

Absent == [no |-> -1]   \* nothing is stored
NoImage == Absent       \* avatar_sha256 is empty

NoProfile == [key |-> NoKey, sha |-> NoImage, row |-> FALSE, name |-> ""]

\* MemberPublicProfile; clean demands key, hash and size together or not at all.
MemberPublicProfile ==
    {p \in [key : Keys \cup {NoKey}, sha : Images \cup {NoImage}, row : BOOLEAN, name : {"", "public"}] :
        (p.key = NoKey) <=> (p.sha = NoImage)}

Idle == [pc |-> "idle"]
Fault(f) == f \in faults

LegacyKey(m) == [layout |-> "legacy", of |-> [by |-> m, no |-> 0]]

Init ==
    /\ faults \in SUBSET AllFaults
    /\ legacy \in SUBSET Members
    /\ profile = [m \in Members |->
                    IF m \in legacy THEN [key |-> LegacyKey(m), sha |-> LegacyKey(m).of,
                                          row |-> TRUE, name |-> ""]
                    ELSE NoProfile]
    /\ store = [k \in Keys |-> IF \E m \in legacy : k = LegacyKey(m) THEN k.of ELSE Absent]
    /\ uploads = 0
    /\ notices = 0
    /\ sess = [s \in Sessions |-> Idle]
    /\ served = Idle

Become(s, next) == sess' = [sess EXCEPT ![s] = next]

\* Cleaning happens alone, unless the fault says otherwise.
Cleaning == \E s \in Sessions : sess[s].pc \in {"list", "clean"}
MayBegin(s) == sess[s] = Idle /\ (Fault("clean_while_serving") \/ ~Cleaning)

-----------------------------------------------------------------------------
(* Storage keys. *)

\* A plausible bug: one object per member, overwritten by every upload.
NewAvatarKeyOfMember(image) == [layout |-> "current", of |-> [image EXCEPT !.no = 1]]

\* new_avatar_key: a random key per upload.
NewAvatarKey(image) == [layout |-> "current", of |-> image]

\* require_deletable_avatar_key: keys of the old layout are refused.
Deletable(key) == key # NoKey /\ key.layout = "current"

\* delete_current.
Deleted(key) == IF Deletable(key) THEN [store EXCEPT ![key] = Absent] ELSE store

-----------------------------------------------------------------------------
(* replace_own_avatar. *)

\* The processed image is stored under a new key.
SaveProcessed(s, m) ==
    LET image == [by |-> m, no |-> uploads + 1] IN
    /\ MayBegin(s)
    /\ uploads < MaxUploads
    /\ uploads' = uploads + 1
    /\ store' = [store EXCEPT ![NewAvatarKey(image)] = image]
    /\ \/ Become(s, [pc |-> "switch", member |-> m, key |-> NewAvatarKey(image), sha |-> image])
       \/ Fault("failures") /\ Become(s, Idle)   \* stored, but the answer was an error
    /\ UNCHANGED <<profile, notices, served>>

SwitchedRow(row, key, image) == [row EXCEPT !.row = TRUE, !.key = key, !.sha = image]

\* A plausible bug: the object of the avatar before is forgotten.
AfterSwitchForgotten(old, key) == Idle

\* on_commit: the object of the avatar before is deleted.
AfterSwitch(old, key) == IF old \in {NoKey, key} THEN Idle ELSE [pc |-> "delete", key |-> old]

Switch(s) ==
    LET t == sess[s] IN
    /\ t.pc = "switch"
    /\ profile' = [profile EXCEPT ![t.member] = SwitchedRow(@, t.key, t.sha)]
    /\ Become(s, AfterSwitch(profile[t.member].key, t.key))
    /\ UNCHANGED <<store, uploads, notices, served>>

\* The transaction fails, or its commit is not acknowledged: the new object is deleted.
SwitchFails(s) ==
    LET t == sess[s] IN
    /\ t.pc = "switch"
    /\ \/ Fault("failures") /\ UNCHANGED profile
       \/ Fault("lost_commits") /\ profile' = [profile EXCEPT ![t.member] = SwitchedRow(@, t.key, t.sha)]
    /\ Become(s, [pc |-> "delete", key |-> t.key])
    /\ UNCHANGED <<store, uploads, notices, served>>

\* _delete_after_commit, and the compensations of an upload and of a migration; an
\* error is logged or ends the command, and that is all.
DeleteObject(s) ==
    /\ sess[s].pc \in {"delete", "undo"}
    /\ \/ store' = Deleted(sess[s].key)
       \/ Fault("failures") /\ UNCHANGED store
    /\ Become(s, Idle)
    /\ UNCHANGED <<profile, uploads, notices, served>>

-----------------------------------------------------------------------------
(* Removal, and the public name. *)

RemovedRow(row) == [row EXCEPT !.row = TRUE, !.key = NoKey, !.sha = NoImage]

\* _remove_avatar: the row is made if there is none.
RemoveAvatar(s, m) ==
    /\ profile' = [profile EXCEPT ![m] = RemovedRow(@)]
    /\ Become(s, AfterSwitch(profile[m].key, NoKey))

RemoveOwnAvatar(s, m) ==
    /\ MayBegin(s)
    /\ RemoveAvatar(s, m)
    /\ UNCHANGED <<store, uploads, notices, served>>

\* The event is part of the transaction, whether there was an avatar or not.
RemoveAvatarAsAdministrator(s, m) ==
    /\ MayBegin(s)
    /\ notices < MaxNotices
    /\ RemoveAvatar(s, m)
    /\ notices' = notices + 1
    /\ UNCHANGED <<store, uploads, served>>

\* update_member_public_profile reads the row without a lock ...
EditName(s, m) ==
    /\ MayBegin(s)
    /\ Become(s, [pc |-> "name", member |-> m, read |-> profile[m]])
    /\ UNCHANGED <<profile, store, uploads, notices, served>>

\* A plausible bug: the row that was read is saved whole.
NamedRowWhole(row, read) == [read EXCEPT !.row = TRUE, !.name = "public"]

\* ... and inserts it, which a row made meanwhile refuses, or saves the name alone.
NamedRow(row, read) ==
    IF row.row # read.row THEN row ELSE [row EXCEPT !.row = TRUE, !.name = "public"]

SaveName(s) ==
    LET t == sess[s] IN
    /\ t.pc = "name"
    /\ profile' = [profile EXCEPT ![t.member] = NamedRow(@, t.read)]
    /\ Become(s, Idle)
    /\ UNCHANGED <<store, uploads, notices, served>>

\* The Django admin loads the row and saves all of it.
AdminEdit(s, m) ==
    /\ Fault("admin_edits")
    /\ MayBegin(s)
    /\ profile[m].row
    /\ Become(s, [pc |-> "admin", member |-> m, read |-> profile[m]])
    /\ UNCHANGED <<profile, store, uploads, notices, served>>

AdminSave(s) ==
    /\ sess[s].pc = "admin"
    /\ profile' = [profile EXCEPT ![sess[s].member] = sess[s].read]
    /\ Become(s, Idle)
    /\ UNCHANGED <<store, uploads, notices, served>>

-----------------------------------------------------------------------------
(* observer_member_avatar. *)

ReadProfile(s, m) ==
    /\ MayBegin(s)
    /\ profile[m].key # NoKey
    /\ Become(s, [pc |-> "serve", member |-> m, key |-> profile[m].key, sha |-> profile[m].sha])
    /\ UNCHANGED <<profile, store, uploads, notices, served>>

\* Whatever goes wrong, the default avatar is the answer.
Serve(s) ==
    LET t == sess[s] IN
    /\ t.pc = "serve"
    /\ served' = IF Deletable(t.key) /\ store[t.key] # Absent
                 THEN [pc |-> "image", member |-> t.member, etag |-> t.sha, image |-> store[t.key]]
                 ELSE [pc |-> "default"]
    /\ Become(s, Idle)
    /\ UNCHANGED <<profile, store, uploads, notices>>

-----------------------------------------------------------------------------
(* audit_avatar_storage --clean. *)

Referenced == {profile[m].key : m \in Members} \ {NoKey}

AuditReferences(s) ==
    /\ MayBegin(s)
    /\ ~Fault("clean_while_serving") => \A r \in Sessions : sess[r] = Idle
    /\ Become(s, [pc |-> "list", referenced |-> Referenced])
    /\ UNCHANGED <<profile, store, uploads, notices, served>>

Orphans(referenced) ==
    {k \in Keys : k.layout = "current" /\ store[k] # Absent} \ referenced

AuditList(s) ==
    /\ sess[s].pc = "list"
    /\ Become(s, [pc |-> "clean", orphans |-> Orphans(sess[s].referenced)])
    /\ UNCHANGED <<profile, store, uploads, notices, served>>

AuditDelete(s) ==
    /\ sess[s].pc = "clean"
    /\ \/ \E k \in sess[s].orphans :
            /\ store' = Deleted(k)
            /\ Become(s, [sess[s] EXCEPT !.orphans = @ \ {k}])
       \/ /\ sess[s].orphans = {} \/ Fault("failures")
          /\ Become(s, Idle)
          /\ UNCHANGED store
    /\ UNCHANGED <<profile, uploads, notices, served>>

-----------------------------------------------------------------------------
(* migrate_avatar_storage_layout --apply. *)

\* migrate_legacy_avatar_key.
Migrated(key) == [key EXCEPT !.layout = "current"]

Migrating == \E s \in Sessions : sess[s].pc \in {"copy", "rebind", "unlink", "undo"}

\* The profiles are read once; the bytes are copied without a lock.
MigrateList(s) ==
    LET todo == {m \in Members : profile[m].key # NoKey /\ profile[m].key.layout = "legacy"} IN
    /\ MayBegin(s)
    /\ ~Fault("two_migrations") => ~Migrating
    /\ todo # {}
    /\ Become(s, [pc |-> "copy", todo |-> [m \in todo |-> profile[m]]])
    /\ UNCHANGED <<profile, store, uploads, notices, served>>

\* One profile: a missing or different object ends the command with an error.
MigrateCopy(s) ==
    LET t == sess[s] IN
    /\ t.pc = "copy"
    /\ \E m \in DOMAIN t.todo :
         LET old == t.todo[m].key
             new == Migrated(old)
             sound == store[old] = t.todo[m].sha /\ store[new] \in {Absent, store[old]}
         IN  /\ store' = IF sound THEN [store EXCEPT ![new] = store[old]] ELSE store
             /\ Become(s, IF sound THEN [pc |-> "rebind", todo |-> t.todo, member |-> m,
                                         created |-> store[new] = Absent]
                          ELSE Idle)
    /\ UNCHANGED <<profile, uploads, notices, served>>

\* The row is locked and must still hold the key that was read.
MayRebind(row, old) == row.key = old

\* An object this command made is deleted when the row cannot be switched.
MigrateRebind(s) ==
    LET t == sess[s]
        old == t.todo[t.member].key
    IN
    /\ t.pc = "rebind"
    /\ \/ /\ MayRebind(profile[t.member], old)
          /\ profile' = [profile EXCEPT ![t.member].key = Migrated(old)]
          /\ Become(s, [t EXCEPT !.pc = "unlink"])
       \/ /\ ~MayRebind(profile[t.member], old) \/ Fault("failures")
          /\ Become(s, IF t.created THEN [pc |-> "undo", key |-> Migrated(old)] ELSE Idle)
          /\ UNCHANGED profile
    /\ UNCHANGED <<store, uploads, notices, served>>

MigrateUnlink(s) ==
    LET t == sess[s]
        left == DOMAIN t.todo \ {t.member}
    IN
    /\ t.pc = "unlink"
    /\ \/ /\ store' = [store EXCEPT ![t.todo[t.member].key] = Absent]
          /\ Become(s, IF left = {} THEN Idle
                       ELSE [pc |-> "copy", todo |-> [m \in left |-> t.todo[m]]])
       \/ Fault("failures") /\ UNCHANGED store /\ Become(s, Idle)
    /\ UNCHANGED <<profile, uploads, notices, served>>

Crash(s) ==
    /\ Fault("crashes")
    /\ sess[s] # Idle
    /\ Become(s, Idle)
    /\ UNCHANGED <<profile, store, uploads, notices, served>>

Step ==
    \E s \in Sessions :
      \/ \E m \in Members :
           \/ SaveProcessed(s, m) \/ RemoveOwnAvatar(s, m) \/ RemoveAvatarAsAdministrator(s, m)
           \/ EditName(s, m) \/ AdminEdit(s, m) \/ ReadProfile(s, m)
      \/ Switch(s) \/ SwitchFails(s) \/ DeleteObject(s)
      \/ SaveName(s) \/ AdminSave(s) \/ Serve(s)
      \/ AuditReferences(s) \/ AuditList(s) \/ AuditDelete(s)
      \/ MigrateList(s) \/ MigrateCopy(s) \/ MigrateRebind(s) \/ MigrateUnlink(s)
      \/ Crash(s)

Next == Step /\ UNCHANGED setting

Spec == Init /\ [][Next]_vars

-----------------------------------------------------------------------------
(* Properties. *)

\* What rows, objects and counters may hold.
RowsOK ==
    /\ profile \in [Members -> MemberPublicProfile]
    /\ store \in [Keys -> Images \cup {Absent}]
    /\ uploads \in 0..MaxUploads
    /\ notices \in 0..MaxNotices

\* Rows keep their shape: key, hash and size together or not at all
\* (MemberPublicProfile.clean).
TypeOK == faults \subseteq AllFaults /\ legacy \subseteq Members /\ RowsOK

\* "头像替换必须保持当前状态可用": the image a profile names is in the storage, with the
\* hash the profile gives, whichever uploads, removals, renamings, cleanings and
\* migrations cross each other, fail or die half way.
ReferenceSound ==
    \A m \in Members : profile[m].key # NoKey => store[profile[m].key] = profile[m].sha

\* The public page answers with an image of that very member, and with the hash of the
\* image it answers with, though row and object are read at different times.
ServedMatches ==
    served.pc = "image" => served.image = served.etag /\ served.image.by = served.member

\* "清理不再被引用的旧头像对象": where nothing fails, nothing is left over once nobody is
\* at work: every object belongs to a profile.
NothingLeftover ==
    (\A s \in Sessions : sess[s] = Idle) => \A k \in Keys : store[k] # Absent => k \in Referenced

\* The page answers with the right image under every fault; the image of a profile stays
\* unless transactions lose their answer or jobs that assume to be alone meet others; and
\* nothing is left over where nothing goes wrong and no avatar is in the old layout.
AvatarsSound ==
    /\ TypeOK /\ ServedMatches
    /\ faults \subseteq {"failures", "crashes"} => ReferenceSound
    /\ faults = {} /\ legacy = {} => NothingLeftover

=============================================================================

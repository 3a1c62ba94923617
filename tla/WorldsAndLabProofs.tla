------------------------- MODULE WorldsAndLabProofs -------------------------
(***************************************************************************)
(* Proofs about Avatars and WorldLifecycle, and about LabReview and        *)
(* RunArchive, for any members, sessions, worlds, operators, requests,     *)
(* change sets, forms, runs and workers.                                   *)
(*                                                                         *)
(* Of Avatars:                                                             *)
(* Rows and objects know nothing of each other, so the proofs follow the   *)
(* keys.  A key belongs to one member and one image (KeyInv), whatever     *)
(* goes wrong: that is enough for the public page.  That the object of a   *)
(* profile stays (SafeInv) rests on who holds which key: what is uploaded  *)
(* and not yet switched to is held by one session, what is deleted no row  *)
(* names and none will, and a migrated object is made before its row is    *)
(* switched.  It is proved where storage calls and transactions fail and   *)
(* processes die (Calm); the other faults break it, which TLC shows.  That *)
(* nothing is left over needs an owner of every object (TidyInv) and a     *)
(* system where nothing goes wrong.                                        *)
(*                                                                         *)
(* WorldLifecycle is instantiated, as Life.  Whichever commands race, rows *)
(* keep their shape and the real world stays active (LifeInv).  With one   *)
(* command at a time, each command knows its world until it ends           *)
(* (SoloInv): that is what keeps databases apart and makes a reset whole.  *)
(*                                                                         *)
(* Of the lab, instantiated as Review and Archive: an application that     *)
(* holds the lock of the plan is alone, and its change set stays as it was *)
(* read (ReviewInv), so that one baseline follows another.                 *)
(* Snapshots are complete whoever dies (ArchiveInv); that they verify      *)
(* follows a package from table to table while nobody else works           *)
(* (AloneInv).                                                             *)
(***************************************************************************)
EXTENDS WorldsAndAvatars, Lab, Integers, Sequences, FiniteSetTheorems,
        WellFoundedInduction, TLAPS

\* What may go wrong where a profile always has its image.
Calm == faults \subseteq {"failures", "crashes"}

-----------------------------------------------------------------------------
(* Keys, rows and objects, whatever goes wrong. *)

\* A row of m names an image of m by its key and by its hash.
Fits(row, m) ==
    row.key # NoKey => row.key \in Keys /\ row.sha = row.key.of /\ row.key.of.by = m

\* The profiles a migration has to do.
TodoOK(todo) ==
    /\ DOMAIN todo \subseteq Members
    /\ \A m \in DOMAIN todo : /\ todo[m].key \in Keys /\ todo[m].key.layout = "legacy"
                              /\ todo[m].sha = todo[m].key.of /\ todo[m].key.of.by = m

\* What a session carries from step to step.
JobOK(j) ==
    /\ j.pc \in {"switch", "serve"} =>
          /\ j.member \in Members /\ j.key \in Keys
          /\ j.sha = j.key.of /\ j.key.of.by = j.member
    /\ j.pc = "switch" => j.key.layout = "current"
    /\ j.pc = "name" => j.member \in Members
    /\ j.pc = "admin" =>
          j.member \in Members /\ j.read \in MemberPublicProfile /\ Fits(j.read, j.member)
    /\ j.pc \in {"delete", "undo"} => j.key \in Keys
    /\ j.pc = "clean" => DOMAIN j = {"pc", "orphans"} /\ j.orphans \subseteq Keys
    /\ j.pc \in {"copy", "rebind", "unlink"} => TodoOK(j.todo)
    /\ j.pc \in {"rebind", "unlink"} => j.member \in DOMAIN j.todo
    /\ j.pc = "rebind" => DOMAIN j = {"pc", "todo", "member", "created"}

KeyInv ==
    /\ RowsOK
    /\ DOMAIN sess = Sessions
    /\ \A m \in Members : Fits(profile[m], m)
    /\ \A k \in Keys : store[k] \in {k.of, Absent}
    /\ \A s \in Sessions : JobOK(sess[s])
    /\ ServedMatches

-----------------------------------------------------------------------------
(* Who holds which key, where calls fail and processes die. *)

Named(p, k) == \E m \in Members : p[m].key = k

\* Every row has its object.
Sound(p, o) == \A m \in Members : p[m].key # NoKey => o[p[m].key] = p[m].sha

\* The keys of the old layout are those from the start; later ones are numbered.
Numbered(p, u) ==
    \A m \in Members : p[m].key # NoKey =>
        /\ p[m].key.of.no <= u
        /\ p[m].key.layout = "legacy" => p[m].key.of.no = 0

\* An object that was uploaded is there, and no row names it yet.
SwitchOK(j, p, o, u) ==
    j.pc = "switch" =>
       /\ 1 <= j.key.of.no /\ j.key.of.no <= u
       /\ o[j.key] = j.key.of
       /\ ~Named(p, j.key)

LegacyOf(k) == [k EXCEPT !.layout = "legacy"]

\* An object that will be deleted is named by no row, and no migration will name it.
DeleteOK(j, p, u) ==
    j.pc \in {"delete", "undo"} /\ j.key.layout = "current" =>
       /\ ~Named(p, j.key)
       /\ j.key.of.no <= u
       /\ j.pc = "undo" => j.key.of.no = 0
       /\ j.pc = "delete" /\ j.key.of.no = 0 => ~Named(p, LegacyOf(j.key))

\* What a cleaning takes for orphans no row names.
CleanOK(j, p) ==
    /\ j.pc = "list" => \A k \in Keys : Named(p, k) => k \in j.referenced
    /\ j.pc = "clean" => \A k \in j.orphans : ~Named(p, k)

\* The members a migration has still to do.
Pending(j) == IF j.pc = "unlink" THEN DOMAIN j.todo \ {j.member} ELSE DOMAIN j.todo

MigrationSteps == {"copy", "rebind", "unlink"}

\* Their rows are not switched yet; a copy is there before the row is switched, and
\* the old object goes after.
MigrateOK(j, p, o) ==
    /\ j.pc \in MigrationSteps =>
          /\ \A m \in DOMAIN j.todo : j.todo[m].key.of.no = 0
          /\ \A m \in Pending(j) : ~Named(p, Migrated(j.todo[m].key))
    /\ j.pc = "rebind" =>
          LET old == j.todo[j.member].key
          IN  p[j.member].key = old => o[Migrated(old)] = old.of
    /\ j.pc = "unlink" => ~Named(p, j.todo[j.member].key)

JobSafe(j, p, o, u) ==
    /\ j.pc # "admin"
    /\ SwitchOK(j, p, o, u)
    /\ DeleteOK(j, p, u)
    /\ CleanOK(j, p)
    /\ MigrateOK(j, p, o)

\* An uploaded key is held by one session, one migration runs at a time, and cleaning
\* happens alone.
Apart(i, j) ==
    /\ i.pc = "switch" /\ j.pc \in {"switch", "delete", "undo"} => i.key # j.key
    /\ ~(i.pc \in MigrationSteps \cup {"undo"} /\ j.pc \in MigrationSteps \cup {"undo"})
    /\ i.pc \in {"list", "clean"} => j = Idle

SafeInv ==
    /\ Sound(profile, store)
    /\ Numbered(profile, uploads)
    /\ \A s \in Sessions : JobSafe(sess[s], profile, store, uploads)
    /\ \A s, t \in Sessions : s # t => Apart(sess[s], sess[t])

-----------------------------------------------------------------------------
(* Keys, rows and objects. *)

\* A session at rest carries nothing.
LEMMA IdleOK == JobOK(Idle) /\ Idle.pc = "idle"
BY DEF JobOK, Idle

\* A key names an image, and neither stands for nothing.
LEMMA KeyShape ==
    ASSUME AvatarsAssumption
    PROVE  /\ \A k \in Keys : /\ k.of \in Images /\ k.of # Absent /\ k # NoKey
                              /\ k.layout \in {"current", "legacy"}
                              /\ k.of.by \in Members /\ k.of.no \in 0..MaxUploads
           /\ \A i \in Images : NewAvatarKey(i) \in Keys /\ NewAvatarKey(i).of = i
                                /\ NewAvatarKey(i).layout = "current"
           /\ \A k \in Keys : Migrated(k) \in Keys /\ Migrated(k).of = k.of
                              /\ Migrated(k).layout = "current"
           /\ \A m \in Members : LegacyKey(m) \in Keys
BY DEF AvatarsAssumption, Keys, Images, Absent, NewAvatarKey, Migrated, LegacyKey

\* A row gives key and hash together or not at all.
LEMMA RowShape ==
    ASSUME NEW k \in Keys \cup {NoKey}, NEW i \in Images \cup {NoImage},
           NEW r \in BOOLEAN, NEW n \in {"", "public"},
           (k = NoKey) <=> (i = NoImage)
    PROVE  /\ [key |-> k, sha |-> i, row |-> r, name |-> n] \in MemberPublicProfile
           /\ [key |-> k, sha |-> i, row |-> r, name |-> n].key = k
           /\ [key |-> k, sha |-> i, row |-> r, name |-> n].sha = i
<1> DEFINE p == [key |-> k, sha |-> i, row |-> r, name |-> n]
<1>1. p \in [key : Keys \cup {NoKey}, sha : Images \cup {NoImage}, row : BOOLEAN, name : {"", "public"}]
  OBVIOUS
<1>2. p.key = k /\ p.sha = i
  OBVIOUS
<1> HIDE DEF p
<1>3. p \in MemberPublicProfile
  BY <1>1, <1>2 DEF MemberPublicProfile
<1> QED
  BY <1>2, <1>3 DEF p

\* At most one row changes, to one that fits its member.
RowChange ==
    \/ profile' = profile
    \/ \E m \in Members : \E row \in MemberPublicProfile :
          Fits(row, m) /\ profile' = [profile EXCEPT ![m] = row]

\* At most one object is stored under its own key, or deleted.
ObjectChange ==
    \/ store' = store
    \/ \E k \in Keys : \E image \in {k.of, Absent} : store' = [store EXCEPT ![k] = image]

\* A step that changes no more than that, and leaves its session in order.
LEMMA KeyKept ==
    ASSUME AvatarsAssumption, KeyInv, NEW s \in Sessions, NEW j,
           Become(s, j), JobOK(j), RowChange, ObjectChange,
           uploads' \in 0..MaxUploads, notices' \in 0..MaxNotices,
           ServedMatches'
    PROVE  KeyInv'
<1>1. DOMAIN sess' = Sessions /\ \A t \in Sessions : JobOK(sess'[t])
  BY DEF KeyInv, Become
<1>2. /\ profile' \in [Members -> MemberPublicProfile]
      /\ \A m \in Members : Fits(profile'[m], m)
  <2>1. CASE profile' = profile
    BY <2>1 DEF KeyInv, RowsOK
  <2>2. ASSUME NEW m \in Members, NEW row \in MemberPublicProfile,
               Fits(row, m), profile' = [profile EXCEPT ![m] = row]
        PROVE  /\ profile' \in [Members -> MemberPublicProfile]
               /\ \A n \in Members : Fits(profile'[n], n)
    BY <2>2 DEF KeyInv, RowsOK
  <2> QED
    BY <2>1, <2>2 DEF RowChange
<1>3. /\ store' \in [Keys -> Images \cup {Absent}]
      /\ \A k \in Keys : store'[k] \in {k.of, Absent}
  <2>1. CASE store' = store
    BY <2>1 DEF KeyInv, RowsOK
  <2>2. ASSUME NEW k \in Keys, NEW image \in {k.of, Absent},
               store' = [store EXCEPT ![k] = image]
        PROVE  /\ store' \in [Keys -> Images \cup {Absent}]
               /\ \A l \in Keys : store'[l] \in {l.of, Absent}
    BY <2>2, KeyShape DEF KeyInv, RowsOK
  <2> QED
    BY <2>1, <2>2 DEF ObjectChange
<1> QED
  BY <1>1, <1>2, <1>3 DEF KeyInv, RowsOK

\* Nothing has happened yet.
LEMMA InitKey == ASSUME AvatarsAssumption, Init PROVE KeyInv
<1>1. \A m \in Members : /\ profile[m] \in MemberPublicProfile
                         /\ Fits(profile[m], m)
  <2> TAKE m \in Members
  <2>1. CASE m \in legacy
    <3>1. profile[m] = [key |-> LegacyKey(m), sha |-> LegacyKey(m).of, row |-> TRUE, name |-> ""]
      BY <2>1 DEF Init
    <3>2. LegacyKey(m).of.by = m
      BY DEF LegacyKey
    <3>3. LegacyKey(m) \in Keys /\ LegacyKey(m).of \in Images /\ LegacyKey(m) # NoKey
          /\ LegacyKey(m).of # Absent
      BY KeyShape
    <3> HIDE DEF LegacyKey
    <3>4. /\ profile[m] \in MemberPublicProfile
          /\ profile[m].key = LegacyKey(m)
          /\ profile[m].sha = LegacyKey(m).of
      <4>1. LegacyKey(m) \in Keys \cup {NoKey} /\ LegacyKey(m).of \in Images \cup {NoImage}
            /\ ((LegacyKey(m) = NoKey) <=> (LegacyKey(m).of = NoImage))
        BY <3>3 DEF NoImage
      <4> DEFINE row == [key |-> LegacyKey(m), sha |-> LegacyKey(m).of, row |-> TRUE, name |-> ""]
      <4>2. row \in MemberPublicProfile /\ row.key = LegacyKey(m) /\ row.sha = LegacyKey(m).of
        BY <4>1, RowShape, Zenon
      <4>3. profile[m] = row
        BY <3>1
      <4> HIDE DEF row
      <4> QED
        BY <4>2, <4>3
    <3>5. Fits(profile[m], m)
      BY <3>2, <3>3, <3>4 DEF Fits
    <3> QED
      BY <3>4, <3>5
  <2>2. CASE m \notin legacy
    <3>1. profile[m] = NoProfile
      BY <2>2 DEF Init
    <3>2. profile[m] \in MemberPublicProfile /\ profile[m].key = NoKey
      <4>1. NoKey \in Keys \cup {NoKey} /\ NoImage \in Images \cup {NoImage}
        OBVIOUS
      <4>2. NoProfile \in MemberPublicProfile /\ NoProfile.key = NoKey
        BY <4>1, RowShape, Zenon DEF NoProfile
      <4> QED
        BY <3>1, <4>2
    <3>4. Fits(profile[m], m)
      BY <3>2 DEF Fits
    <3> QED
      BY <3>2, <3>4
  <2> QED
    BY <2>1, <2>2
<1>2. profile \in [Members -> MemberPublicProfile]
  BY <1>1 DEF Init
<1>3. \A k \in Keys : store[k] \in {k.of, Absent}
  BY DEF Init
<1>4. store \in [Keys -> Images \cup {Absent}]
  BY KeyShape, <1>3 DEF Init
<1>5. uploads \in 0..MaxUploads /\ notices \in 0..MaxNotices
  <2>1. uploads = 0 /\ notices = 0
    BY DEF Init
  <2> QED
    BY <2>1 DEF AvatarsAssumption
<1>7. DOMAIN sess = Sessions /\ \A s \in Sessions : JobOK(sess[s])
  <2>1. DOMAIN sess = Sessions /\ \A s \in Sessions : sess[s] = Idle
    BY DEF Init
  <2> QED
    BY <2>1, IdleOK
<1>6. ServedMatches
  BY IdleOK DEF Init, ServedMatches
<1> QED
  BY <1>1, <1>2, <1>3, <1>4, <1>5, <1>6, <1>7 DEF KeyInv, RowsOK

\* What the services write into a row.
LEMMA RowUpdates ==
    ASSUME AvatarsAssumption, NEW row \in MemberPublicProfile
    PROVE  /\ \A k \in Keys : /\ SwitchedRow(row, k, k.of) \in MemberPublicProfile
                              /\ SwitchedRow(row, k, k.of).key = k
                              /\ SwitchedRow(row, k, k.of).sha = k.of
           /\ RemovedRow(row) \in MemberPublicProfile
           /\ RemovedRow(row).key = NoKey
           /\ \A read : /\ NamedRow(row, read) \in MemberPublicProfile
                        /\ NamedRow(row, read).key = row.key
                        /\ NamedRow(row, read).sha = row.sha
<1> DEFINE Columns == [key : Keys \cup {NoKey}, sha : Images \cup {NoImage},
                       row : BOOLEAN, name : {"", "public"}]
<1>1. row \in Columns /\ ((row.key = NoKey) <=> (row.sha = NoImage))
  BY DEF MemberPublicProfile
<1>2. ASSUME NEW k \in Keys \cup {NoKey}, NEW i \in Images \cup {NoImage}, NEW r \in BOOLEAN,
             (k = NoKey) <=> (i = NoImage)
      PROVE  LET new == [row EXCEPT !.row = r, !.key = k, !.sha = i]
             IN  new \in MemberPublicProfile /\ new.key = k /\ new.sha = i
  <2> DEFINE new == [row EXCEPT !.row = r, !.key = k, !.sha = i]
  <2>1. new \in Columns /\ new.key = k /\ new.sha = i
    BY <1>1
  <2> HIDE DEF new
  <2>2. new \in MemberPublicProfile
    BY <1>2, <2>1 DEF MemberPublicProfile
  <2> QED
    BY <2>1, <2>2 DEF new
<1>3. ASSUME NEW r \in BOOLEAN
      PROVE  LET new == [row EXCEPT !.row = r, !.name = "public"]
             IN  new \in MemberPublicProfile /\ new.key = row.key /\ new.sha = row.sha
  <2> DEFINE new == [row EXCEPT !.row = r, !.name = "public"]
  <2>1. new \in Columns /\ new.key = row.key /\ new.sha = row.sha
    BY <1>1
  <2> HIDE DEF new
  <2>2. new \in MemberPublicProfile
    BY <1>1, <2>1 DEF MemberPublicProfile
  <2> QED
    BY <2>1, <2>2 DEF new
<1>4. ASSUME NEW k \in Keys
      PROVE  /\ SwitchedRow(row, k, k.of) \in MemberPublicProfile
             /\ SwitchedRow(row, k, k.of).key = k
             /\ SwitchedRow(row, k, k.of).sha = k.of
  <2>1. k \in Keys \cup {NoKey} /\ k.of \in Images \cup {NoImage}
        /\ ((k = NoKey) <=> (k.of = NoImage))
    BY KeyShape DEF NoImage
  <2> QED
    BY <1>2, <2>1, Zenon DEF SwitchedRow
<1>5. RemovedRow(row) \in MemberPublicProfile /\ RemovedRow(row).key = NoKey
  <2>1. NoKey \in Keys \cup {NoKey} /\ NoImage \in Images \cup {NoImage}
    OBVIOUS
  <2> QED
    BY <1>2, <2>1, Zenon DEF RemovedRow
<1>6. ASSUME NEW read
      PROVE  /\ NamedRow(row, read) \in MemberPublicProfile
             /\ NamedRow(row, read).key = row.key
             /\ NamedRow(row, read).sha = row.sha
  BY <1>3, Zenon DEF NamedRow
<1> QED
  BY <1>4, <1>5, <1>6

\* Most steps leave what is counted and served alone.
LEMMA KeyRest ==
    ASSUME AvatarsAssumption, KeyInv, NEW s \in Sessions, NEW j,
           Become(s, j), JobOK(j), RowChange, ObjectChange,
           UNCHANGED <<uploads, served>>, notices' \in 0..MaxNotices
    PROVE  KeyInv'
BY KeyKept DEF KeyInv, RowsOK, ServedMatches

\* replace_own_avatar: what is uploaded is stored under its own key.
LEMMA KeySaveProcessed ==
    ASSUME AvatarsAssumption, KeyInv, NEW s \in Sessions, NEW m \in Members, SaveProcessed(s, m)
    PROVE  KeyInv'
<1> DEFINE image == [by |-> m, no |-> uploads + 1]
           k == NewAvatarKey(image)
           t == [pc |-> "switch", member |-> m, key |-> k, sha |-> image]
<1>1. image \in Images /\ image.by = m
  BY DEF SaveProcessed, Images, KeyInv, RowsOK, AvatarsAssumption
<1>2. /\ store' = [store EXCEPT ![k] = image]
      /\ Become(s, t) \/ Become(s, Idle)
      /\ uploads' \in 0..MaxUploads
      /\ UNCHANGED <<profile, notices, served>>
  BY DEF SaveProcessed, KeyInv, RowsOK, AvatarsAssumption
<1> HIDE DEF image
<1>3. k \in Keys /\ k.of = image /\ k.layout = "current"
  BY <1>1, KeyShape
<1> HIDE DEF k
<1>4. ObjectChange /\ RowChange
  BY <1>2, <1>3 DEF ObjectChange, RowChange
<1>5. JobOK(t)
  BY <1>1, <1>3 DEF JobOK
<1> HIDE DEF t
<1> QED
  BY <1>2, <1>4, <1>5, IdleOK, KeyKept DEF KeyInv, RowsOK, ServedMatches

\* What follows a commit that took the key away from a row.
LEMMA AfterSwitchOK ==
    ASSUME AvatarsAssumption, NEW row \in MemberPublicProfile, NEW key
    PROVE  JobOK(AfterSwitch(row.key, key))
<1>1. row.key \in Keys \cup {NoKey}
  BY DEF MemberPublicProfile
<1>2. CASE row.key \in {NoKey, key}
  BY <1>2, IdleOK DEF AfterSwitch
<1>3. CASE row.key \notin {NoKey, key}
  BY <1>1, <1>3 DEF AfterSwitch, JobOK
<1> QED
  BY <1>2, <1>3

\* The row names the new object, or the transaction fails.
LEMMA KeySwitch ==
    ASSUME AvatarsAssumption, KeyInv, NEW s \in Sessions, Switch(s) \/ SwitchFails(s)
    PROVE  KeyInv'
<1> DEFINE m == sess[s].member
           k == sess[s].key
           row == SwitchedRow(profile[m], k, sess[s].sha)
<1>1. /\ sess[s].pc = "switch"
      /\ profile' \in {profile, [profile EXCEPT ![m] = row]}
      /\ \/ Become(s, AfterSwitch(profile[m].key, k))
         \/ Become(s, [pc |-> "delete", key |-> k])
      /\ UNCHANGED <<store, uploads, notices, served>>
  BY DEF Switch, SwitchFails
<1>2. m \in Members /\ k \in Keys /\ sess[s].sha = k.of /\ k.of.by = m
  BY <1>1 DEF KeyInv, JobOK
<1>3. profile[m] \in MemberPublicProfile
  BY <1>2 DEF KeyInv, RowsOK
<1>4. row \in MemberPublicProfile /\ row.key = k /\ row.sha = k.of
  <2>1. row = SwitchedRow(profile[m], k, k.of)
    BY <1>2
  <2> HIDE DEF row, m, k
  <2> QED
    BY <1>2, <1>3, <2>1, RowUpdates, Zenon
<1> HIDE DEF row, m, k
<1>5. Fits(row, m)
  BY <1>2, <1>4 DEF Fits
<1>6. RowChange /\ ObjectChange
  BY <1>1, <1>2, <1>4, <1>5 DEF RowChange, ObjectChange
<1>7. JobOK([pc |-> "delete", key |-> k])
  BY <1>2 DEF JobOK
<1>8. JobOK(AfterSwitch(profile[m].key, k))
  BY <1>3, AfterSwitchOK
<1>9. notices' \in 0..MaxNotices
  BY <1>1 DEF KeyInv, RowsOK
<1> QED
  BY <1>1, <1>6, <1>7, <1>8, <1>9, KeyRest

\* A deletion changes one object at most.
LEMMA DeletedChange ==
    ASSUME NEW k \in Keys, store' = Deleted(k)
    PROVE  ObjectChange
BY DEF Deleted, ObjectChange

\* _delete_after_commit and the compensations.
LEMMA KeyDeleteObject ==
    ASSUME AvatarsAssumption, KeyInv, NEW s \in Sessions, DeleteObject(s)
    PROVE  KeyInv'
<1>1. sess[s].key \in Keys
  BY DEF DeleteObject, KeyInv, JobOK
<1>2. RowChange /\ ObjectChange
  BY <1>1, DeletedChange DEF DeleteObject, RowChange, ObjectChange
<1> QED
  BY <1>2, IdleOK, KeyRest DEF DeleteObject, KeyInv, RowsOK

\* _remove_avatar, by the member or by an administrator.
LEMMA KeyRemove ==
    ASSUME AvatarsAssumption, KeyInv, NEW s \in Sessions, NEW m \in Members,
           RemoveOwnAvatar(s, m) \/ RemoveAvatarAsAdministrator(s, m)
    PROVE  KeyInv'
<1> DEFINE row == RemovedRow(profile[m])
<1>1. /\ profile' = [profile EXCEPT ![m] = row]
      /\ Become(s, AfterSwitch(profile[m].key, NoKey))
      /\ UNCHANGED <<store, uploads, served>>
      /\ (notices' = notices) \/ (notices < MaxNotices /\ notices' = notices + 1)
  BY DEF RemoveOwnAvatar, RemoveAvatarAsAdministrator, RemoveAvatar
<1>2. profile[m] \in MemberPublicProfile
  BY DEF KeyInv, RowsOK
<1>3. row \in MemberPublicProfile /\ row.key = NoKey
  BY <1>2, RowUpdates
<1> HIDE DEF row
<1>4. RowChange /\ ObjectChange
  BY <1>1, <1>3 DEF RowChange, ObjectChange, Fits
<1>5. JobOK(AfterSwitch(profile[m].key, NoKey))
  BY <1>2, AfterSwitchOK
<1>6. notices' \in 0..MaxNotices
  BY <1>1 DEF KeyInv, RowsOK, AvatarsAssumption
<1> QED
  BY <1>1, <1>4, <1>5, <1>6, KeyRest

\* update_member_public_profile, and the Django admin.
LEMMA KeyEdit ==
    ASSUME AvatarsAssumption, KeyInv, NEW s \in Sessions, NEW m \in Members,
           EditName(s, m) \/ AdminEdit(s, m)
    PROVE  KeyInv'
<1>1. profile[m] \in MemberPublicProfile /\ Fits(profile[m], m)
  BY DEF KeyInv, RowsOK
<1>2. JobOK([pc |-> "name", member |-> m, read |-> profile[m]])
  BY DEF JobOK
<1>3. JobOK([pc |-> "admin", member |-> m, read |-> profile[m]])
  BY <1>1 DEF JobOK
<1>4. RowChange /\ ObjectChange
  BY DEF EditName, AdminEdit, RowChange, ObjectChange
<1>5. notices' \in 0..MaxNotices
  BY DEF EditName, AdminEdit, KeyInv, RowsOK
<1> QED
  BY <1>2, <1>3, <1>4, <1>5, KeyRest DEF EditName, AdminEdit

\* A row is saved as it was read, or with another name.
LEMMA KeySave ==
    ASSUME AvatarsAssumption, KeyInv, NEW s \in Sessions, SaveName(s) \/ AdminSave(s)
    PROVE  KeyInv'
<1> DEFINE m == sess[s].member
           row == NamedRow(profile[m], sess[s].read)
<1>1. /\ Become(s, Idle)
      /\ UNCHANGED <<store, uploads, notices, served>>
  BY DEF SaveName, AdminSave
<1>2. m \in Members
  BY DEF SaveName, AdminSave, KeyInv, JobOK
<1>3. profile[m] \in MemberPublicProfile /\ Fits(profile[m], m)
  BY <1>2 DEF KeyInv, RowsOK
<1>4. row \in MemberPublicProfile /\ row.key = profile[m].key /\ row.sha = profile[m].sha
  BY <1>3, RowUpdates
<1>5. ASSUME SaveName(s) PROVE RowChange
  <2>1. profile' = [profile EXCEPT ![m] = row]
    BY <1>5 DEF SaveName
  <2> HIDE DEF row, m
  <2>2. Fits(row, m)
    BY <1>3, <1>4 DEF Fits
  <2> QED
    BY <1>2, <1>4, <2>1, <2>2 DEF RowChange
<1>6. ASSUME AdminSave(s) PROVE RowChange
  <2>1. profile' = [profile EXCEPT ![m] = sess[s].read]
    BY <1>6 DEF AdminSave
  <2>2. sess[s].read \in MemberPublicProfile /\ Fits(sess[s].read, m)
    BY <1>6 DEF AdminSave, KeyInv, JobOK
  <2> HIDE DEF m
  <2> QED
    BY <1>2, <2>1, <2>2 DEF RowChange
<1>7. RowChange /\ ObjectChange
  BY <1>1, <1>5, <1>6 DEF ObjectChange
<1>8. notices' \in 0..MaxNotices
  BY <1>1 DEF KeyInv, RowsOK
<1> QED
  BY <1>1, <1>7, <1>8, IdleOK, KeyRest

\* observer_member_avatar: the object is asked for by the key that was read, and a key
\* has one image only.
LEMMA KeyServe ==
    ASSUME AvatarsAssumption, KeyInv, NEW s \in Sessions,
           Serve(s) \/ \E m \in Members : ReadProfile(s, m)
    PROVE  KeyInv'
<1>1. ASSUME NEW m \in Members, ReadProfile(s, m) PROVE KeyInv'
  <2>1. Fits(profile[m], m) /\ profile[m].key # NoKey
    BY <1>1 DEF ReadProfile, KeyInv
  <2>2. JobOK([pc |-> "serve", member |-> m, key |-> profile[m].key, sha |-> profile[m].sha])
    BY <2>1 DEF Fits, JobOK
  <2>3. RowChange /\ ObjectChange
    BY <1>1 DEF ReadProfile, RowChange, ObjectChange
  <2> QED
    BY <1>1, <2>2, <2>3, KeyRest DEF ReadProfile, KeyInv, RowsOK
<1>2. CASE Serve(s)
  <2> DEFINE t == sess[s]
  <2>1. /\ t.key \in Keys /\ t.sha = t.key.of /\ t.key.of.by = t.member
        /\ store[t.key] \in {t.key.of, Absent}
    BY <1>2 DEF Serve, KeyInv, JobOK
  <2>2. ServedMatches'
    <3>1. CASE Deletable(t.key) /\ store[t.key] # Absent
      BY <1>2, <2>1, <3>1 DEF Serve, ServedMatches
    <3>2. CASE ~(Deletable(t.key) /\ store[t.key] # Absent)
      <4>1. served' = [pc |-> "default"]
        BY <1>2, <3>2 DEF Serve
      <4> QED
        BY <4>1 DEF ServedMatches
    <3> QED
      BY <3>1, <3>2
  <2>3. RowChange /\ ObjectChange
    BY <1>2 DEF Serve, RowChange, ObjectChange
  <2> QED
    BY <1>2, <2>2, <2>3, IdleOK, KeyKept DEF Serve, KeyInv, RowsOK
<1> QED
  BY <1>1, <1>2

\* audit_avatar_storage.
LEMMA KeyAudit ==
    ASSUME AvatarsAssumption, KeyInv, NEW s \in Sessions,
           AuditReferences(s) \/ AuditList(s) \/ AuditDelete(s)
    PROVE  KeyInv'
<1>1. CASE AuditReferences(s)
  <2>1. JobOK([pc |-> "list", referenced |-> Referenced])
    BY DEF JobOK
  <2>2. RowChange /\ ObjectChange
    BY <1>1 DEF AuditReferences, RowChange, ObjectChange
  <2> QED
    BY <1>1, <2>1, <2>2, KeyRest DEF AuditReferences, KeyInv, RowsOK
<1>2. CASE AuditList(s)
  <2> DEFINE orphans == Orphans(sess[s].referenced)
  <2>1. orphans \subseteq Keys
    BY DEF Orphans
  <2>2. Become(s, [pc |-> "clean", orphans |-> orphans])
    BY <1>2 DEF AuditList
  <2> HIDE DEF orphans
  <2>3. JobOK([pc |-> "clean", orphans |-> orphans])
    BY <2>1 DEF JobOK
  <2>4. RowChange /\ ObjectChange
    BY <1>2 DEF AuditList, RowChange, ObjectChange
  <2> QED
    BY <1>2, <2>2, <2>3, <2>4, KeyRest DEF AuditList, KeyInv, RowsOK
<1>3. CASE AuditDelete(s)
  <2>1. /\ sess[s].pc = "clean"
        /\ UNCHANGED <<profile, uploads, notices, served>>
    BY <1>3 DEF AuditDelete
  <2>2. DOMAIN sess[s] = {"pc", "orphans"} /\ sess[s].orphans \subseteq Keys
    BY <2>1 DEF KeyInv, JobOK
  <2>3. ASSUME NEW k \in sess[s].orphans,
               store' = Deleted(k), Become(s, [sess[s] EXCEPT !.orphans = @ \ {k}])
        PROVE  KeyInv'
    <3> DEFINE t == [sess[s] EXCEPT !.orphans = @ \ {k}]
    <3>1. t.pc = "clean" /\ DOMAIN t = {"pc", "orphans"} /\ t.orphans \subseteq Keys
      BY <2>1, <2>2
    <3> HIDE DEF t
    <3>2. JobOK(t)
      BY <3>1 DEF JobOK
    <3>3. RowChange /\ ObjectChange
      BY <2>1, <2>2, <2>3, DeletedChange DEF RowChange
    <3>4. Become(s, t)
      BY <2>3 DEF t
    <3> QED
      BY <2>1, <3>2, <3>3, <3>4, KeyRest DEF KeyInv, RowsOK
  <2>4. CASE Become(s, Idle) /\ UNCHANGED store
    BY <2>1, <2>4, IdleOK, KeyRest DEF RowChange, ObjectChange, KeyInv, RowsOK
  <2> QED
    BY <1>3, <2>3, <2>4 DEF AuditDelete
<1> QED
  BY <1>1, <1>2, <1>3

\* migrate_avatar_storage_layout: what is read ...
LEMMA KeyMigrateList ==
    ASSUME AvatarsAssumption, KeyInv, NEW s \in Sessions, MigrateList(s)
    PROVE  KeyInv'
<1> DEFINE due == {m \in Members : profile[m].key # NoKey /\ profile[m].key.layout = "legacy"}
           todo == [m \in due |-> profile[m]]
<1>1. Become(s, [pc |-> "copy", todo |-> todo]) /\ UNCHANGED <<profile, store, uploads, notices, served>>
  BY DEF MigrateList
<1>2. \A m \in due : /\ profile[m].key \in Keys /\ profile[m].key.layout = "legacy"
                     /\ profile[m].sha = profile[m].key.of /\ profile[m].key.of.by = m
  BY DEF KeyInv, Fits
<1>3. due \subseteq Members /\ DOMAIN todo = due /\ \A m \in due : todo[m] = profile[m]
  OBVIOUS
<1> HIDE DEF todo, due
<1>4. TodoOK(todo)
  BY <1>2, <1>3 DEF TodoOK
<1>5. JobOK([pc |-> "copy", todo |-> todo])
  BY <1>4 DEF JobOK
<1>6. RowChange /\ ObjectChange
  BY <1>1 DEF RowChange, ObjectChange
<1> QED
  BY <1>1, <1>5, <1>6, KeyRest DEF KeyInv, RowsOK

\* ... is copied under the key of its image ...
LEMMA KeyMigrateCopy ==
    ASSUME AvatarsAssumption, KeyInv, NEW s \in Sessions, MigrateCopy(s)
    PROVE  KeyInv'
<1> DEFINE t == sess[s]
<1>1. t.pc = "copy" /\ TodoOK(t.todo) /\ UNCHANGED <<profile, uploads, notices, served>>
  BY DEF MigrateCopy, KeyInv, JobOK
<1>2. PICK m \in DOMAIN t.todo :
        LET old == t.todo[m].key
            new == Migrated(old)
            sound == store[old] = t.todo[m].sha /\ store[new] \in {Absent, store[old]}
        IN  /\ store' = IF sound THEN [store EXCEPT ![new] = store[old]] ELSE store
            /\ Become(s, IF sound THEN [pc |-> "rebind", todo |-> t.todo, member |-> m,
                                        created |-> store[new] = Absent]
                         ELSE Idle)
  BY DEF MigrateCopy
<1> DEFINE old == t.todo[m].key
           new == Migrated(old)
           sound == store[old] = t.todo[m].sha /\ store[new] \in {Absent, store[old]}
           created == store[new] = Absent
<1>3. old \in Keys /\ t.todo[m].sha = old.of
  BY <1>1 DEF TodoOK
<1>4. new \in Keys /\ new.of = old.of
  BY <1>3, KeyShape
<1>5. ASSUME NEW c PROVE JobOK([pc |-> "rebind", todo |-> t.todo, member |-> m, created |-> c])
  BY <1>1 DEF JobOK
<1>6. CASE sound
  <2>1. store' = [store EXCEPT ![new] = store[old]] /\ store[old] = new.of
    BY <1>2, <1>3, <1>4, <1>6
  <2>2. Become(s, [pc |-> "rebind", todo |-> t.todo, member |-> m, created |-> created])
    BY <1>2, <1>6
  <2> HIDE DEF new, old, created, sound, t
  <2>3. RowChange /\ ObjectChange
    BY <1>1, <1>4, <2>1 DEF RowChange, ObjectChange
  <2>4. PICK j : Become(s, j) /\ JobOK(j)
    BY <1>5, <2>2, Zenon
  <2> QED
    BY <1>1, <2>3, <2>4, KeyRest DEF KeyInv, RowsOK
<1>7. CASE ~sound
  <2>1. Become(s, Idle) /\ UNCHANGED store
    BY <1>2, <1>7
  <2> QED
    BY <1>1, <2>1, IdleOK, KeyRest DEF RowChange, ObjectChange, KeyInv, RowsOK
<1> QED
  BY <1>6, <1>7

\* ... and the row that still has the old key gets the new one, or is left.
LEMMA KeyMigrateRebind ==
    ASSUME AvatarsAssumption, KeyInv, NEW s \in Sessions, MigrateRebind(s)
    PROVE  KeyInv'
<1> DEFINE t == sess[s]
           m == t.member
           old == t.todo[m].key
<1>1. /\ t.pc = "rebind" /\ TodoOK(t.todo) /\ m \in DOMAIN t.todo
      /\ DOMAIN t = {"pc", "todo", "member", "created"}
      /\ UNCHANGED <<store, uploads, notices, served>>
  BY DEF MigrateRebind, KeyInv, JobOK
<1>2. m \in Members /\ old \in Keys /\ old.of.by = m
  BY <1>1 DEF TodoOK
<1>3. CASE /\ MayRebind(profile[m], old)
           /\ profile' = [profile EXCEPT ![m].key = Migrated(old)]
           /\ Become(s, [t EXCEPT !.pc = "unlink"])
  <2> DEFINE row == [profile[m] EXCEPT !.key = Migrated(old)]
             u == [t EXCEPT !.pc = "unlink"]
  <2>1. profile[m] \in MemberPublicProfile /\ profile[m].key = old /\ profile[m].sha = old.of
    BY <1>2, <1>3, KeyShape DEF MayRebind, KeyInv, RowsOK, Fits
  <2>2. Migrated(old) \in Keys /\ Migrated(old).of = old.of
    BY <1>2, KeyShape
  <2>3. row \in [key : Keys \cup {NoKey}, sha : Images \cup {NoImage}, row : BOOLEAN, name : {"", "public"}]
        /\ row.key = Migrated(old) /\ row.sha = old.of
    BY <2>1, <2>2 DEF MemberPublicProfile
  <2>4. profile' = [profile EXCEPT ![m] = row]
    BY <1>3, <1>2 DEF KeyInv, RowsOK
  <2>5. u.pc = "unlink" /\ u.todo = t.todo /\ u.member = m
    BY <1>1
  <2>6. old.of # NoImage
    BY <1>2, KeyShape DEF NoImage
  <2>7. Become(s, u)
    BY <1>3
  <2> HIDE DEF row, u, m, old, t
  <2>8. row \in MemberPublicProfile
    <3>1. row.key # NoKey /\ row.sha # NoImage
      BY <2>2, <2>3, <2>6, KeyShape
    <3> QED
      BY <2>3, <3>1 DEF MemberPublicProfile
  <2>9. Fits(row, m)
    BY <1>2, <2>2, <2>3 DEF Fits
  <2>10. JobOK(u)
    BY <1>1, <2>5 DEF JobOK
  <2>11. RowChange /\ ObjectChange
    BY <1>1, <1>2, <2>4, <2>8, <2>9 DEF RowChange, ObjectChange
  <2> QED
    BY <1>1, <2>7, <2>10, <2>11, KeyRest DEF KeyInv, RowsOK
<1>4. CASE /\ Become(s, IF t.created THEN [pc |-> "undo", key |-> Migrated(old)] ELSE Idle)
           /\ UNCHANGED profile
  <2>1. Migrated(old) \in Keys
    BY <1>2, KeyShape
  <2>2. Become(s, [pc |-> "undo", key |-> Migrated(old)]) \/ Become(s, Idle)
    BY <1>4
  <2> HIDE DEF old, m, t
  <2>3. JobOK([pc |-> "undo", key |-> Migrated(old)])
    BY <2>1 DEF JobOK
  <2>4. RowChange /\ ObjectChange
    BY <1>1, <1>4 DEF RowChange, ObjectChange
  <2>5. notices' \in 0..MaxNotices
    BY <1>1 DEF KeyInv, RowsOK
  <2> QED
    BY <1>1, <2>2, <2>3, <2>4, <2>5, IdleOK, KeyRest
<1> QED
  BY <1>3, <1>4 DEF MigrateRebind

\* The old object is deleted, and the command goes on.
LEMMA KeyMigrateUnlink ==
    ASSUME AvatarsAssumption, KeyInv, NEW s \in Sessions, MigrateUnlink(s)
    PROVE  KeyInv'
<1> DEFINE t == sess[s]
           left == DOMAIN t.todo \ {t.member}
           rest == [m \in left |-> t.todo[m]]
<1>1. /\ t.pc = "unlink" /\ TodoOK(t.todo) /\ t.member \in DOMAIN t.todo
      /\ UNCHANGED <<profile, uploads, notices, served>>
  BY DEF MigrateUnlink, KeyInv, JobOK
<1>2. /\ store' = [store EXCEPT ![t.todo[t.member].key] = Absent] \/ UNCHANGED store
      /\ Become(s, Idle) \/ Become(s, [pc |-> "copy", todo |-> rest])
  BY DEF MigrateUnlink
<1>3. t.todo[t.member].key \in Keys
  BY <1>1 DEF TodoOK
<1>4. TodoOK(rest)
  BY <1>1 DEF TodoOK
<1> HIDE DEF rest, left, t
<1>5. JobOK([pc |-> "copy", todo |-> rest])
  BY <1>4 DEF JobOK
<1>6. RowChange /\ ObjectChange
  BY <1>1, <1>2, <1>3 DEF RowChange, ObjectChange
<1>7. notices' \in 0..MaxNotices
  BY <1>1 DEF KeyInv, RowsOK
<1> QED
  BY <1>1, <1>2, <1>5, <1>6, <1>7, IdleOK, KeyRest

\* What may go wrong is settled from the start.
LEMMA SettingStays == ASSUME [Next]_vars PROVE UNCHANGED <<faults, legacy>>
BY DEF Next, vars, setting

\* Every step keeps the invariant, whatever goes wrong.
LEMMA KeyNext ==
    ASSUME AvatarsAssumption, KeyInv, [Next]_vars
    PROVE  KeyInv'
<1>1. ASSUME NEW s \in Sessions, Crash(s) PROVE KeyInv'
  BY <1>1, IdleOK, KeyRest DEF Crash, RowChange, ObjectChange, KeyInv, RowsOK
<1>2. CASE UNCHANGED vars
  BY <1>2 DEF vars, KeyInv, RowsOK, ServedMatches
<1> QED
  BY <1>1, <1>2, KeySaveProcessed, KeySwitch, KeyDeleteObject, KeyRemove, KeyEdit, KeySave,
     KeyServe, KeyAudit, KeyMigrateList, KeyMigrateCopy, KeyMigrateRebind, KeyMigrateUnlink
  DEF Next, Step

\* What keys, rows, objects and requests look like, whatever goes wrong.
THEOREM KeysOfImages == AvatarsAssumption => (Spec => []KeyInv)
<1> SUFFICES ASSUME AvatarsAssumption PROVE Spec => []KeyInv
  OBVIOUS
<1>1. Init => KeyInv
  BY InitKey
<1>2. KeyInv /\ [Next]_vars => KeyInv'
  BY KeyNext
<1> QED
  BY <1>1, <1>2, PTL DEF Spec

\* Rows keep their shape (MemberPublicProfile.clean).
THEOREM TypeCorrect == AvatarsAssumption => (Spec => []TypeOK)
<1> SUFFICES ASSUME AvatarsAssumption PROVE Spec => []TypeOK
  OBVIOUS
<1> DEFINE Settled == faults \subseteq AllFaults /\ legacy \subseteq Members
<1>1. Init => Settled
  BY DEF Init
<1>2. Settled /\ [Next]_vars => Settled'
  BY DEF Next, vars, setting
<1>3. KeyInv /\ Settled => TypeOK
  BY DEF KeyInv, TypeOK
<1> QED
  BY <1>1, <1>2, <1>3, KeysOfImages, PTL DEF Spec

\* The public page answers with an image of that very member and with its hash, though
\* it reads row and object at different times (observer_member_avatar).
THEOREM PageServesMember == AvatarsAssumption => (Spec => []ServedMatches)
<1> SUFFICES ASSUME AvatarsAssumption PROVE Spec => []ServedMatches
  OBVIOUS
<1>1. KeyInv => ServedMatches
  BY DEF KeyInv
<1> QED
  BY <1>1, KeysOfImages, PTL

-----------------------------------------------------------------------------
(* What a change of rows or objects leaves of a session's job. *)

RowsFit(p) == \A m \in Members : Fits(p[m], m)

\* A session at rest is safe beside any other.
LEMMA IdleSafe ==
    /\ \A p, o, u : JobSafe(Idle, p, o, u)
    /\ \A j : Apart(Idle, j) /\ Apart(j, Idle)
BY DEF JobSafe, SwitchOK, DeleteOK, CleanOK, MigrateOK, MigrationSteps, Apart, Idle

\* A key is named by the member of its image only.
LEMMA OneNames ==
    ASSUME AvatarsAssumption, NEW p, RowsFit(p), NEW k \in Keys, Named(p, k)
    PROVE  p[k.of.by].key = k /\ k.of.by \in Members
BY KeyShape DEF RowsFit, Fits, Named

\* The keys a job is about.
LEMMA JobKeys ==
    ASSUME AvatarsAssumption, NEW j, JobOK(j), j.pc \in MigrationSteps, NEW m \in DOMAIN j.todo
    PROVE  LET k == j.todo[m].key
           IN  /\ m \in Members /\ k \in Keys /\ k.layout = "legacy" /\ k.of.by = m
               /\ Migrated(k) \in Keys /\ Migrated(k).of = k.of /\ Migrated(k).layout = "current"
               /\ LegacyOf(Migrated(k)) = k
<1> DEFINE k == j.todo[m].key
<1>1. m \in Members /\ k \in Keys /\ k.layout = "legacy" /\ k.of.by = m
  BY DEF JobOK, TodoOK, MigrationSteps
<1> HIDE DEF k
<1>2. LegacyOf(Migrated(k)) = k
  BY <1>1 DEF LegacyOf, Migrated, Keys
<1>3. Migrated(k) \in Keys /\ Migrated(k).of = k.of /\ Migrated(k).layout = "current"
  BY <1>1, KeyShape
<1> QED
  BY <1>1, <1>2, <1>3 DEF k

\* Storing images under their own keys does no harm.
LEMMA PutKeeps ==
    ASSUME AvatarsAssumption, NEW p, NEW o, NEW q, NEW u \in Nat, NEW v \in Nat, u <= v,
           RowsFit(p), \A k \in Keys : q[k] = o[k] \/ q[k] = k.of
    PROVE  /\ Sound(p, o) => Sound(p, q)
           /\ Numbered(p, u) => Numbered(p, v)
           /\ \A j : JobOK(j) /\ JobSafe(j, p, o, u) => JobSafe(j, p, q, v)
<1>1. Sound(p, o) => Sound(p, q)
  BY DEF Sound, RowsFit, Fits
<1>2. Numbered(p, u) => Numbered(p, v)
  BY KeyShape DEF Numbered, RowsFit, Fits
<1>3. ASSUME NEW j, JobOK(j), JobSafe(j, p, o, u) PROVE JobSafe(j, p, q, v)
  <2>1. SwitchOK(j, p, q, v)
    BY <1>3, KeyShape DEF JobSafe, SwitchOK, JobOK
  <2>2. DeleteOK(j, p, v)
    BY <1>3, KeyShape DEF JobSafe, DeleteOK, JobOK
  <2>3. MigrateOK(j, p, q)
    <3> SUFFICES ASSUME j.pc = "rebind",
                        p[j.member].key = j.todo[j.member].key
                 PROVE  q[Migrated(j.todo[j.member].key)] = j.todo[j.member].key.of
      BY <1>3 DEF JobSafe, MigrateOK
    <3>1. j.member \in DOMAIN j.todo
      BY <1>3 DEF JobOK
    <3> QED
      BY <1>3, <3>1, JobKeys DEF JobSafe, MigrateOK, MigrationSteps
  <2> QED
    BY <1>3, <2>1, <2>2, <2>3 DEF JobSafe
<1> QED
  BY <1>1, <1>2, <1>3

\* Whether a job still needs the object of a key.
Needs(j, p, k) ==
    \/ j.pc = "switch" /\ j.key = k
    \/ j.pc = "rebind" /\ k = Migrated(j.todo[j.member].key) /\ Named(p, j.todo[j.member].key)

\* Deleting an object that no row names and no job needs does no harm.
LEMMA DropKeeps ==
    ASSUME AvatarsAssumption, NEW p, NEW o, NEW q, NEW u, NEW k,
           RowsFit(p), \A l \in Keys : l # k => q[l] = o[l]
    PROVE  /\ Sound(p, o) /\ ~Named(p, k) => Sound(p, q)
           /\ \A j : JobOK(j) /\ JobSafe(j, p, o, u) /\ ~Needs(j, p, k) => JobSafe(j, p, q, u)
<1>1. Sound(p, o) /\ ~Named(p, k) => Sound(p, q)
  BY DEF Sound, RowsFit, Fits, Named
<1>2. ASSUME NEW j, JobOK(j), JobSafe(j, p, o, u), ~Needs(j, p, k) PROVE JobSafe(j, p, q, u)
  <2>1. SwitchOK(j, p, q, u)
    BY <1>2 DEF JobSafe, SwitchOK, JobOK, Needs
  <2>2. MigrateOK(j, p, q)
    <3> SUFFICES ASSUME j.pc = "rebind",
                        p[j.member].key = j.todo[j.member].key
                 PROVE  q[Migrated(j.todo[j.member].key)] = j.todo[j.member].key.of
      BY <1>2 DEF JobSafe, MigrateOK
    <3>1. j.member \in DOMAIN j.todo /\ j.pc \in MigrationSteps
      BY <1>2 DEF JobOK, MigrationSteps
    <3>2. j.member \in Members /\ Migrated(j.todo[j.member].key) \in Keys
      BY <1>2, <3>1, JobKeys
    <3>3. Named(p, j.todo[j.member].key)
      BY <3>2 DEF Named
    <3>4. Migrated(j.todo[j.member].key) # k
      BY <1>2, <3>3 DEF Needs
    <3>5. o[Migrated(j.todo[j.member].key)] = j.todo[j.member].key.of
      BY <1>2 DEF JobSafe, MigrateOK
    <3> QED
      BY <3>2, <3>4, <3>5
  <2> QED
    BY <1>2, <2>1, <2>2 DEF JobSafe
<1> QED
  BY <1>1, <1>2

\* A row that names what it named, or nothing, does no harm.
LEMMA RowKeeps ==
    ASSUME AvatarsAssumption, NEW p, NEW r, NEW o, NEW u, NEW m \in Members,
           r[m].key \in {p[m].key, NoKey}, r[m].key = p[m].key => r[m].sha = p[m].sha,
           \A n \in Members \ {m} : r[n] = p[n]
    PROVE  /\ Sound(p, o) => Sound(r, o)
           /\ Numbered(p, u) => Numbered(r, u)
           /\ \A j : JobOK(j) /\ JobSafe(j, p, o, u) => JobSafe(j, r, o, u)
<1>1. \A k : Named(r, k) => Named(p, k) \/ k = NoKey
  BY DEF Named
<1>2. Sound(p, o) => Sound(r, o)
  BY DEF Sound
<1>3. Numbered(p, u) => Numbered(r, u)
  BY DEF Numbered
<1>4. ASSUME NEW j, JobOK(j), JobSafe(j, p, o, u) PROVE JobSafe(j, r, o, u)
  <2>1. SwitchOK(j, r, o, u)
    BY <1>1, <1>4, KeyShape DEF JobSafe, SwitchOK, JobOK
  <2>2. DeleteOK(j, r, u)
    <3>1. \A k \in Keys : LegacyOf(k) \in Keys
      BY DEF LegacyOf, Keys
    <3> QED
      BY <1>1, <1>4, <3>1, KeyShape DEF JobSafe, DeleteOK, JobOK
  <2>3. CleanOK(j, r)
    BY <1>1, <1>4, KeyShape DEF JobSafe, CleanOK, JobOK
  <2>4. MigrateOK(j, r, o)
    <3>1. ASSUME j.pc \in MigrationSteps, NEW n \in DOMAIN j.todo
          PROVE  /\ j.todo[n].key.of.no = 0
                 /\ n \in Pending(j) => ~Named(r, Migrated(j.todo[n].key))
      <4>1. Migrated(j.todo[n].key) # NoKey
        BY <1>4, <3>1, JobKeys, KeyShape
      <4> QED
        BY <1>1, <1>4, <3>1, <4>1 DEF JobSafe, MigrateOK
    <3>2. Pending(j) \subseteq DOMAIN j.todo
      BY DEF Pending
    <3>3. ASSUME j.pc \in {"rebind", "unlink"}
          PROVE  /\ j.todo[j.member].key # NoKey
                 /\ r[j.member].key = j.todo[j.member].key => p[j.member].key = j.todo[j.member].key
      <4>1. j.member \in DOMAIN j.todo /\ j.pc \in MigrationSteps
        BY <1>4, <3>3 DEF JobOK, MigrationSteps
      <4>2. j.todo[j.member].key # NoKey /\ j.member \in Members
        BY <1>4, <4>1, JobKeys, KeyShape
      <4> QED
        BY <4>2
    <3> QED
      BY <1>1, <1>4, <3>1, <3>2, <3>3 DEF JobSafe, MigrateOK
  <2> QED
    BY <1>4, <2>1, <2>2, <2>3, <2>4 DEF JobSafe
<1> QED
  BY <1>2, <1>3, <1>4

\* Whether a job stands in the way of a row that is to name a key.
Blocks(j, k) ==
    \/ j.pc \in {"list", "clean"}
    \/ j.pc \in {"switch", "delete", "undo"} /\ j.key = k
    \/ j.pc \in MigrationSteps /\ \E n \in Pending(j) : Migrated(j.todo[n].key) = k

\* A row that names a key of the current layout does no harm if no job is in the way.
LEMMA NameKeeps ==
    ASSUME AvatarsAssumption, NEW p, NEW r, NEW o, NEW u, NEW m \in Members, NEW k \in Keys,
           k.layout = "current", k.of.no <= u,
           r[m].key = k, r[m].sha = k.of,
           \A n \in Members \ {m} : r[n] = p[n]
    PROVE  /\ Sound(p, o) /\ o[k] = k.of => Sound(r, o)
           /\ Numbered(p, u) => Numbered(r, u)
           /\ \A j : JobOK(j) /\ JobSafe(j, p, o, u) /\ ~Blocks(j, k) => JobSafe(j, r, o, u)
<1>1. \A l : Named(r, l) => Named(p, l) \/ l = k
  BY DEF Named
<1>2. Sound(p, o) /\ o[k] = k.of => Sound(r, o)
  BY DEF Sound
<1>3. Numbered(p, u) => Numbered(r, u)
  BY DEF Numbered
<1>4. ASSUME NEW j, JobOK(j), JobSafe(j, p, o, u), ~Blocks(j, k) PROVE JobSafe(j, r, o, u)
  <2>1. SwitchOK(j, r, o, u)
    BY <1>1, <1>4 DEF JobSafe, SwitchOK, Blocks
  <2>2. DeleteOK(j, r, u)
    <3>1. \A l \in Keys : LegacyOf(l) # k
      BY DEF LegacyOf, Keys
    <3> QED
      BY <1>1, <1>4, <3>1 DEF JobSafe, DeleteOK, JobOK, Blocks
  <2>3. CleanOK(j, r)
    BY <1>4 DEF CleanOK, Blocks
  <2>4. MigrateOK(j, r, o)
    <3>1. ASSUME j.pc \in {"rebind", "unlink"}
          PROVE  /\ j.todo[j.member].key # k
                 /\ r[j.member].key = j.todo[j.member].key => p[j.member].key = j.todo[j.member].key
      <4>1. j.member \in DOMAIN j.todo /\ j.pc \in MigrationSteps
        BY <1>4, <3>1 DEF JobOK, MigrationSteps
      <4>2. j.todo[j.member].key.layout = "legacy" /\ j.member \in Members
        BY <1>4, <4>1, JobKeys
      <4> QED
        BY <4>2
    <3>2. ASSUME j.pc \in MigrationSteps, NEW n \in Pending(j)
          PROVE  ~Named(r, Migrated(j.todo[n].key))
      BY <1>1, <1>4, <3>2 DEF JobSafe, MigrateOK, Blocks
    <3> QED
      BY <1>1, <1>4, <3>1, <3>2 DEF JobSafe, MigrateOK
  <2> QED
    BY <1>4, <2>1, <2>2, <2>3, <2>4 DEF JobSafe
<1> QED
  BY <1>2, <1>3, <1>4

-----------------------------------------------------------------------------
(* Every step keeps every profile's image. *)

\* What is to be shown of a step of session s that leaves it with job j.
LEMMA SafeStep ==
    ASSUME KeyInv, SafeInv, NEW s \in Sessions, NEW j, Become(s, j),
           Sound(profile', store'), Numbered(profile', uploads'),
           JobSafe(j, profile', store', uploads'),
           \A t \in Sessions \ {s} :
              JobSafe(sess[t], profile', store', uploads') /\ Apart(j, sess[t]) /\ Apart(sess[t], j)
    PROVE  SafeInv'
<1>1. sess'[s] = j /\ \A t \in Sessions \ {s} : sess'[t] = sess[t]
  BY DEF KeyInv, Become
<1>2. \A t \in Sessions : JobSafe(sess'[t], profile', store', uploads')
  BY <1>1
<1>3. \A t, q \in Sessions : t # q => Apart(sess'[t], sess'[q])
  BY <1>1 DEF SafeInv
<1> QED
  BY <1>2, <1>3 DEF SafeInv

\* Nobody cleans while a session begins or works.
Serving(s) == \A t \in Sessions \ {s} : sess[t].pc \notin {"list", "clean"}

\* A request begins when nobody cleans; who cleans is alone.
LEMMA ServingAlways ==
    ASSUME Calm, SafeInv, NEW s \in Sessions, MayBegin(s) \/ sess[s] # Idle
    PROVE  Serving(s)
BY DEF Calm, Fault, MayBegin, Cleaning, Serving, SafeInv, Apart

\* Jobs that hold nothing.
Plain(j) == j.pc \in {"idle", "name", "serve"}

LEMMA PlainJob ==
    ASSUME NEW j, Plain(j)
    PROVE  /\ \A p, o, u : JobSafe(j, p, o, u)
           /\ \A i : i.pc \notin {"list", "clean"} => Apart(i, j) /\ Apart(j, i)
BY DEF Plain, JobSafe, SwitchOK, DeleteOK, CleanOK, MigrateOK, MigrationSteps, Apart

\* A step that changes nothing but what its session does, and leaves it with nothing held.
LEMMA SafePlain ==
    ASSUME KeyInv, SafeInv, Calm, NEW s \in Sessions, NEW j, Become(s, j), Plain(j),
           MayBegin(s) \/ sess[s] # Idle, UNCHANGED <<profile, store, uploads>>
    PROVE  SafeInv'
<1>1. Serving(s)
  BY ServingAlways
<1>2. \A t \in Sessions \ {s} : Apart(j, sess[t]) /\ Apart(sess[t], j)
  BY <1>1, PlainJob DEF Serving
<1>3. JobSafe(j, profile', store', uploads')
  BY PlainJob
<1>4. \A t \in Sessions \ {s} : JobSafe(sess[t], profile', store', uploads')
  BY DEF SafeInv
<1>5. Sound(profile', store') /\ Numbered(profile', uploads')
  BY DEF SafeInv
<1> QED
  BY <1>2, <1>3, <1>4, <1>5, SafeStep

\* Steps that only read, and processes that die.
LEMMA SafeRead ==
    ASSUME KeyInv, SafeInv, Calm, NEW s \in Sessions,
           \/ \E m \in Members : EditName(s, m) \/ ReadProfile(s, m)
           \/ Serve(s) \/ Crash(s)
    PROVE  SafeInv'
<1>1. ASSUME NEW m \in Members, EditName(s, m) PROVE SafeInv'
  <2>1. Plain([pc |-> "name", member |-> m, read |-> profile[m]])
    BY DEF Plain
  <2> QED
    BY <1>1, <2>1, SafePlain DEF EditName
<1>2. ASSUME NEW m \in Members, ReadProfile(s, m) PROVE SafeInv'
  <2>1. Plain([pc |-> "serve", member |-> m, key |-> profile[m].key, sha |-> profile[m].sha])
    BY DEF Plain
  <2> QED
    BY <1>2, <2>1, SafePlain DEF ReadProfile
<1>3. Plain(Idle) /\ Idle.pc # "serve"
  BY DEF Plain, Idle
<1>4. CASE Serve(s)
  <2>1. sess[s] # Idle
    BY <1>3, <1>4 DEF Serve
  <2> QED
    BY <1>3, <1>4, <2>1, SafePlain DEF Serve
<1>5. CASE Crash(s)
  BY <1>3, <1>5, SafePlain DEF Crash
<1> QED
  BY <1>1, <1>2, <1>4, <1>5

\* The new object is stored under a key that nobody knows.
LEMMA SafeSaveProcessed ==
    ASSUME AvatarsAssumption, Calm, KeyInv, SafeInv, NEW s \in Sessions, NEW m \in Members,
           SaveProcessed(s, m)
    PROVE  SafeInv'
<1> DEFINE image == [by |-> m, no |-> uploads + 1]
           k == NewAvatarKey(image)
           j == [pc |-> "switch", member |-> m, key |-> k, sha |-> image]
<1>1. /\ image \in Images /\ image.no = uploads + 1
      /\ uploads \in Nat /\ uploads' = uploads + 1
      /\ store' = [store EXCEPT ![k] = image]
      /\ Become(s, j) \/ Become(s, Idle)
      /\ profile' = profile /\ MayBegin(s)
  BY DEF SaveProcessed, Images, KeyInv, RowsOK, AvatarsAssumption
<1> HIDE DEF image
<1>2. k \in Keys /\ k.of = image /\ k.layout = "current"
  BY <1>1, KeyShape
<1> HIDE DEF k
<1>3. RowsFit(profile) /\ \A l \in Keys : store'[l] = store[l] \/ store'[l] = l.of
  BY <1>1, <1>2 DEF KeyInv, RowsOK, RowsFit
<1>4. /\ Sound(profile', store') /\ Numbered(profile', uploads')
      /\ \A t \in Sessions : JobSafe(sess[t], profile', store', uploads')
  <2>1. uploads' \in Nat /\ uploads <= uploads'
    BY <1>1
  <2>2. /\ Sound(profile, store) /\ Numbered(profile, uploads)
        /\ \A t \in Sessions : JobOK(sess[t]) /\ JobSafe(sess[t], profile, store, uploads)
    BY DEF SafeInv, KeyInv
  <2>3. /\ Sound(profile, store') /\ Numbered(profile, uploads')
        /\ \A t \in Sessions : JobSafe(sess[t], profile, store', uploads')
    BY <1>1, <1>3, <2>1, <2>2, PutKeeps
  <2> QED
    BY <1>1, <2>3
<1>5. ~Named(profile, k)
  <2> SUFFICES ASSUME NEW n \in Members, profile[n].key = k PROVE FALSE
    BY DEF Named
  <2>1. k.of.no <= uploads
    BY <1>2, KeyShape DEF SafeInv, Numbered
  <2> QED
    BY <1>1, <1>2, <2>1
<1>6. JobSafe(j, profile', store', uploads')
  <2>1. store'[k] = k.of
    BY <1>1, <1>2 DEF KeyInv, RowsOK
  <2>2. SwitchOK(j, profile', store', uploads')
    BY <1>1, <1>2, <1>5, <2>1 DEF SwitchOK
  <2> QED
    BY <2>2 DEF JobSafe, DeleteOK, CleanOK, MigrateOK, MigrationSteps
<1>7. ASSUME NEW t \in Sessions \ {s} PROVE Apart(j, sess[t]) /\ Apart(sess[t], j)
  <2>1. sess[t].pc \notin {"list", "clean"}
    BY <1>1, ServingAlways DEF Serving
  <2>2. sess[t].pc \in {"switch", "delete", "undo"} => sess[t].key # k
    <3>1. sess[t].pc = "switch" => sess[t].key.of.no <= uploads
      BY DEF SafeInv, JobSafe, SwitchOK
    <3>2. sess[t].pc \in {"delete", "undo"} /\ sess[t].key.layout = "current"
            => sess[t].key.of.no <= uploads
      BY DEF SafeInv, JobSafe, DeleteOK
    <3> QED
      BY <1>1, <1>2, <3>1, <3>2
  <2> QED
    BY <2>1, <2>2 DEF Apart, MigrationSteps
<1>8. CASE Become(s, j)
  <2> HIDE DEF j
  <2> QED
    BY <1>4, <1>6, <1>7, <1>8, SafeStep
<1>9. CASE Become(s, Idle)
  BY <1>4, <1>9, IdleSafe, SafeStep
<1> QED
  BY <1>1, <1>8, <1>9

\* What a row named before can be deleted, once it names another key.
LEMMA OldObject ==
    ASSUME AvatarsAssumption, NEW p, NEW r, NEW u, NEW m \in Members, NEW key,
           RowsFit(p), RowsFit(r), Numbered(p, u), r[m].key = key,
           key \in Keys => key.layout = "current" /\ key.of.no >= 1
    PROVE  \A o : JobSafe(AfterSwitch(p[m].key, key), r, o, u)
<1> DEFINE k == p[m].key
<1>1. CASE k \in {NoKey, key}
  BY <1>1, IdleSafe DEF AfterSwitch
<1>2. CASE k \notin {NoKey, key}
  <2>1. AfterSwitch(k, key) = [pc |-> "delete", key |-> k]
    BY <1>2 DEF AfterSwitch
  <2>2. k \in Keys /\ k.of.by = m /\ k.of.no <= u
    BY <1>2 DEF RowsFit, Fits, Numbered
  <2>3. ~Named(r, k)
    BY <1>2, <2>2, OneNames
  <2>4. k.of.no = 0 => ~Named(r, LegacyOf(k))
    <3>1. LegacyOf(k) \in Keys /\ LegacyOf(k).of = k.of /\ LegacyOf(k).layout = "legacy"
      BY <2>2 DEF LegacyOf, Keys
    <3> SUFFICES ASSUME k.of.no = 0, Named(r, LegacyOf(k)) PROVE FALSE
      OBVIOUS
    <3>2. r[m].key = LegacyOf(k)
      BY <2>2, <3>1, OneNames
    <3> QED
      BY <3>1, <3>2
  <2> HIDE DEF k
  <2>5. DeleteOK([pc |-> "delete", key |-> k], r, u)
    BY <2>2, <2>3, <2>4 DEF DeleteOK
  <2>6. \A o : JobSafe([pc |-> "delete", key |-> k], r, o, u)
    BY <2>5 DEF JobSafe, SwitchOK, CleanOK, MigrateOK, MigrationSteps
  <2> QED
    BY <2>1, <2>6 DEF k
<1> QED
  BY <1>1, <1>2

\* Nobody is about to switch to what a row names, so its deletion is apart from all jobs
\* of those who serve.
LEMMA OldApart ==
    ASSUME NEW p, NEW m \in Members, NEW key, NEW i, NEW o, NEW u,
           JobSafe(i, p, o, u), i.pc \notin {"list", "clean"}
    PROVE  /\ Apart(AfterSwitch(p[m].key, key), i)
           /\ Apart(i, AfterSwitch(p[m].key, key))
<1>1. CASE p[m].key \in {NoKey, key}
  BY <1>1, IdleSafe DEF AfterSwitch
<1>2. CASE p[m].key \notin {NoKey, key}
  <2>1. AfterSwitch(p[m].key, key) = [pc |-> "delete", key |-> p[m].key]
    BY <1>2 DEF AfterSwitch
  <2>2. i.pc = "switch" => i.key # p[m].key
    BY DEF JobSafe, SwitchOK, Named
  <2> DEFINE j == [pc |-> "delete", key |-> p[m].key]
  <2>3. j.pc = "delete" /\ j.key = p[m].key
    OBVIOUS
  <2> HIDE DEF j
  <2>4. Apart(j, i) /\ Apart(i, j)
    BY <2>2, <2>3 DEF Apart, MigrationSteps
  <2> QED
    BY <2>1, <2>4 DEF j
<1> QED
  BY <1>1, <1>2

\* The row names the new object, and the object before is left to be deleted.
LEMMA SafeSwitch ==
    ASSUME AvatarsAssumption, Calm, KeyInv, SafeInv, NEW s \in Sessions, Switch(s)
    PROVE  SafeInv'
<1> DEFINE t == sess[s]
           m == t.member
           k == t.key
           j == AfterSwitch(profile[m].key, k)
<1>1. /\ t.pc = "switch" /\ Become(s, j)
      /\ profile' = [profile EXCEPT ![m] = SwitchedRow(profile[m], k, t.sha)]
      /\ UNCHANGED <<store, uploads>>
  BY DEF Switch
<1>2. /\ m \in Members /\ k \in Keys /\ k.layout = "current" /\ t.sha = k.of /\ k.of.by = m
      /\ 1 <= k.of.no /\ k.of.no <= uploads /\ store[k] = k.of /\ ~Named(profile, k)
  BY <1>1 DEF KeyInv, JobOK, SafeInv, JobSafe, SwitchOK
<1>3. profile'[m].key = k /\ profile'[m].sha = k.of /\ \A n \in Members \ {m} : profile'[n] = profile[n]
  <2>1. profile[m] \in MemberPublicProfile
    BY <1>2 DEF KeyInv, RowsOK
  <2>2. profile'[m] = SwitchedRow(profile[m], k, k.of) /\ \A n \in Members \ {m} : profile'[n] = profile[n]
    BY <1>1, <1>2 DEF KeyInv, RowsOK
  <2> HIDE DEF t, m, k, j
  <2>3. SwitchedRow(profile[m], k, k.of).key = k /\ SwitchedRow(profile[m], k, k.of).sha = k.of
    BY <1>2, <2>1, RowUpdates, Zenon
  <2> QED
    BY <2>2, <2>3
<1>4. sess[s] # Idle /\ Serving(s)
  BY <1>1, IdleOK, ServingAlways
<1>5. RowsFit(profile) /\ RowsFit(profile')
  BY <1>2, <1>3 DEF KeyInv, RowsFit, Fits
<1> HIDE DEF t, m, k, j
<1>6. ASSUME NEW q \in Sessions \ {s} PROVE ~Blocks(sess[q], k)
  <2>1. Apart(sess[s], sess[q])
    BY DEF SafeInv
  <2>2. sess[q].pc \in {"switch", "delete", "undo"} => sess[q].key # k
    BY <1>1, <2>1 DEF Apart, t, k
  <2>3. ASSUME sess[q].pc \in MigrationSteps, NEW n \in Pending(sess[q])
        PROVE  Migrated(sess[q].todo[n].key) # k
    <3>1. n \in DOMAIN sess[q].todo
      BY <2>3 DEF Pending
    <3>2. sess[q].todo[n].key.of.no = 0
      BY <2>3, <3>1 DEF SafeInv, JobSafe, MigrateOK
    <3>3. Migrated(sess[q].todo[n].key).of = sess[q].todo[n].key.of
      BY <2>3, <3>1, JobKeys DEF KeyInv
    <3> QED
      BY <1>2, <3>2, <3>3
  <2> QED
    BY <1>4, <2>2, <2>3 DEF Blocks, Serving
<1>7. /\ Sound(profile', store) /\ Numbered(profile', uploads)
      /\ \A q \in Sessions \ {s} : JobSafe(sess[q], profile', store, uploads)
  <2>1. /\ Sound(profile, store) /\ Numbered(profile, uploads)
        /\ \A q \in Sessions : JobOK(sess[q]) /\ JobSafe(sess[q], profile, store, uploads)
    BY DEF SafeInv, KeyInv
  <2> QED
    BY <1>2, <1>3, <1>6, <2>1, NameKeeps
<1>8. JobSafe(j, profile', store, uploads)
  BY <1>2, <1>3, <1>5, <1>7, OldObject DEF j, SafeInv
<1>9. ASSUME NEW q \in Sessions \ {s} PROVE Apart(j, sess[q]) /\ Apart(sess[q], j)
  <2>1. JobSafe(sess[q], profile, store, uploads) /\ sess[q].pc \notin {"list", "clean"}
    BY <1>4 DEF SafeInv, Serving
  <2> QED
    BY <1>2, <2>1, OldApart DEF j
<1> QED
  BY <1>1, <1>7, <1>8, <1>9, SafeStep

\* The transaction fails: the new object, which nobody knows, is left to be deleted.
LEMMA SafeSwitchFails ==
    ASSUME AvatarsAssumption, Calm, KeyInv, SafeInv, NEW s \in Sessions, SwitchFails(s)
    PROVE  SafeInv'
<1> DEFINE t == sess[s]
           j == [pc |-> "delete", key |-> t.key]
<1>1. t.pc = "switch" /\ Become(s, j) /\ UNCHANGED <<profile, store, uploads>>
  BY DEF SwitchFails, Calm, Fault
<1>2. /\ 1 <= t.key.of.no /\ t.key.of.no <= uploads /\ ~Named(profile, t.key)
      /\ t.key.of.no \in Int
  BY <1>1, KeyShape DEF KeyInv, JobOK, SafeInv, JobSafe, SwitchOK
<1>3. sess[s] # Idle /\ Serving(s)
  BY <1>1, IdleOK, ServingAlways
<1>4. j.pc = "delete" /\ j.key = t.key
  OBVIOUS
<1> HIDE DEF j
<1>5. JobSafe(j, profile, store, uploads)
  BY <1>2, <1>4 DEF JobSafe, SwitchOK, DeleteOK, CleanOK, MigrateOK, MigrationSteps
<1>6. ASSUME NEW q \in Sessions \ {s} PROVE Apart(j, sess[q]) /\ Apart(sess[q], j)
  <2>1. Apart(sess[s], sess[q]) /\ Apart(sess[q], sess[s])
    BY DEF SafeInv
  <2>2. sess[q].pc = "switch" => sess[q].key # t.key
    BY <1>1, <2>1 DEF Apart
  <2> QED
    BY <1>3, <1>4, <2>2 DEF Apart, MigrationSteps, Serving
<1>7. \A q \in Sessions \ {s} : JobSafe(sess[q], profile', store', uploads')
  BY <1>1 DEF SafeInv
<1>8. Sound(profile', store') /\ Numbered(profile', uploads')
  BY <1>1 DEF SafeInv
<1> QED
  BY <1>1, <1>5, <1>6, <1>7, <1>8, SafeStep

\* A row loses its key.
LEMMA SafeRemove ==
    ASSUME AvatarsAssumption, Calm, KeyInv, SafeInv, NEW s \in Sessions, NEW m \in Members,
           RemoveOwnAvatar(s, m) \/ RemoveAvatarAsAdministrator(s, m)
    PROVE  SafeInv'
<1> DEFINE j == AfterSwitch(profile[m].key, NoKey)
<1>1. /\ profile' = [profile EXCEPT ![m] = RemovedRow(profile[m])]
      /\ Become(s, j) /\ MayBegin(s) /\ UNCHANGED <<store, uploads>>
  BY DEF RemoveOwnAvatar, RemoveAvatarAsAdministrator, RemoveAvatar
<1>2. profile'[m].key = NoKey /\ \A n \in Members \ {m} : profile'[n] = profile[n]
  <2>1. profile[m] \in MemberPublicProfile
    BY DEF KeyInv, RowsOK
  <2>2. profile'[m] = RemovedRow(profile[m]) /\ \A n \in Members \ {m} : profile'[n] = profile[n]
    BY <1>1 DEF KeyInv, RowsOK
  <2> QED
    BY <2>1, <2>2, RowUpdates
<1>3. RowsFit(profile) /\ RowsFit(profile')
  BY <1>2 DEF KeyInv, RowsFit, Fits
<1>4. Serving(s)
  BY <1>1, ServingAlways
<1> HIDE DEF j
<1>5. profile[m].key = NoKey => profile'[m].sha = profile[m].sha
  <2>1. profile[m] \in MemberPublicProfile /\ profile'[m] \in MemberPublicProfile
    BY <1>1, RowUpdates DEF KeyInv, RowsOK
  <2> QED
    BY <1>2, <2>1 DEF MemberPublicProfile
<1>6. /\ Sound(profile', store) /\ Numbered(profile', uploads)
      /\ \A q \in Sessions : JobSafe(sess[q], profile', store, uploads)
  <2>1. /\ Sound(profile, store) /\ Numbered(profile, uploads)
        /\ \A q \in Sessions : JobOK(sess[q]) /\ JobSafe(sess[q], profile, store, uploads)
    BY DEF SafeInv, KeyInv
  <2> QED
    BY <1>2, <1>5, <2>1, RowKeeps
<1>7. JobSafe(j, profile', store, uploads)
  <2>1. Numbered(profile, uploads)
    BY DEF SafeInv
  <2>2. NoKey \notin Keys
    BY DEF AvatarsAssumption
  <2> QED
    BY <1>2, <1>3, <2>1, <2>2, OldObject DEF j
<1>8. ASSUME NEW q \in Sessions \ {s} PROVE Apart(j, sess[q]) /\ Apart(sess[q], j)
  <2>1. JobSafe(sess[q], profile, store, uploads) /\ sess[q].pc \notin {"list", "clean"}
    BY <1>4 DEF SafeInv, Serving
  <2> QED
    BY <2>1, OldApart DEF j
<1> QED
  BY <1>1, <1>6, <1>7, <1>8, SafeStep

\* The name is saved alone.
LEMMA SafeSaveName ==
    ASSUME AvatarsAssumption, Calm, KeyInv, SafeInv, NEW s \in Sessions, SaveName(s)
    PROVE  SafeInv'
<1> DEFINE m == sess[s].member
<1>1. /\ sess[s].pc = "name" /\ Become(s, Idle) /\ UNCHANGED <<store, uploads>>
      /\ profile' = [profile EXCEPT ![m] = NamedRow(profile[m], sess[s].read)]
  BY DEF SaveName
<1>2. m \in Members
  BY <1>1 DEF KeyInv, JobOK
<1>3. /\ profile'[m].key = profile[m].key /\ profile'[m].sha = profile[m].sha
      /\ \A n \in Members \ {m} : profile'[n] = profile[n]
  <2>1. profile[m] \in MemberPublicProfile
    BY <1>2 DEF KeyInv, RowsOK
  <2>2. /\ profile'[m] = NamedRow(profile[m], sess[s].read)
        /\ \A n \in Members \ {m} : profile'[n] = profile[n]
    BY <1>1, <1>2 DEF KeyInv, RowsOK
  <2> QED
    BY <2>1, <2>2, RowUpdates
<1> HIDE DEF m
<1>4. /\ Sound(profile', store) /\ Numbered(profile', uploads)
      /\ \A q \in Sessions : JobSafe(sess[q], profile', store, uploads)
  <2>1. /\ Sound(profile, store) /\ Numbered(profile, uploads)
        /\ \A q \in Sessions : JobOK(sess[q]) /\ JobSafe(sess[q], profile, store, uploads)
    BY DEF SafeInv, KeyInv
  <2> QED
    BY <1>2, <1>3, <2>1, RowKeeps
<1> QED
  BY <1>1, <1>4, IdleSafe, SafeStep

\* An object is deleted that no row names and no job needs.
LEMMA SafeDeleteObject ==
    ASSUME AvatarsAssumption, Calm, KeyInv, SafeInv, NEW s \in Sessions, DeleteObject(s)
    PROVE  SafeInv'
<1> DEFINE t == sess[s]
           k == t.key
<1>1. /\ t.pc \in {"delete", "undo"} /\ Become(s, Idle) /\ UNCHANGED <<profile, uploads>>
      /\ store' = Deleted(k) \/ store' = store
  BY DEF DeleteObject
<1>2. k \in Keys /\ RowsFit(profile)
  BY <1>1 DEF KeyInv, JobOK, RowsFit
<1>3. CASE store' = store
  <2>1. sess[s] # Idle /\ Plain(Idle)
    BY <1>1 DEF Idle, Plain
  <2> QED
    BY <1>1, <1>3, <2>1, SafePlain
<1>4. CASE store' # store
  <2>1. /\ k.layout = "current" /\ \A l \in Keys : l # k => store'[l] = store[l]
    BY <1>1, <1>2, <1>4 DEF Deleted, Deletable, KeyInv, RowsOK
  <2>2. DeleteOK(t, profile, uploads)
    BY DEF SafeInv, JobSafe
  <2>3. ASSUME NEW q \in Sessions \ {s} PROVE ~Needs(sess[q], profile, k)
    <3>1. Apart(sess[s], sess[q]) /\ Apart(sess[q], sess[s])
      BY DEF SafeInv
    <3>2. ~(sess[q].pc = "switch" /\ sess[q].key = k)
      BY <1>1, <3>1 DEF Apart
    <3>3. ASSUME sess[q].pc = "rebind", k = Migrated(sess[q].todo[sess[q].member].key),
                 Named(profile, sess[q].todo[sess[q].member].key)
          PROVE  FALSE
      <4> DEFINE old == sess[q].todo[sess[q].member].key
      <4>1. sess[q].pc \in MigrationSteps /\ sess[q].member \in DOMAIN sess[q].todo /\ JobOK(sess[q])
        BY <3>3 DEF KeyInv, JobOK, MigrationSteps
      <4>2. t.pc = "delete"
        BY <1>1, <3>1, <4>1 DEF Apart
      <4>3. LegacyOf(k) = old /\ k.of = old.of
        BY <3>3, <4>1, JobKeys
      <4>4. old.of.no = 0
        BY <4>1 DEF SafeInv, JobSafe, MigrateOK
      <4> QED
        BY <2>1, <2>2, <3>3, <4>2, <4>3, <4>4 DEF DeleteOK
    <3> QED
      BY <3>2, <3>3 DEF Needs
  <2>4. ~Named(profile, k)
    BY <1>1, <2>1, <2>2 DEF DeleteOK
  <2>5. /\ Sound(profile, store) /\ Numbered(profile, uploads)
        /\ \A q \in Sessions : JobOK(sess[q]) /\ JobSafe(sess[q], profile, store, uploads)
    BY DEF SafeInv, KeyInv
  <2> HIDE DEF t, k
  <2>6. /\ Sound(profile, store')
        /\ \A q \in Sessions \ {s} : JobSafe(sess[q], profile, store', uploads)
    BY <1>2, <2>1, <2>3, <2>4, <2>5, DropKeeps
  <2> QED
    BY <1>1, <2>5, <2>6, IdleSafe, SafeStep
<1> QED
  BY <1>3, <1>4

\* Who cleans is alone, and takes no object that a row names.
LEMMA SafeAudit ==
    ASSUME AvatarsAssumption, Calm, KeyInv, SafeInv, NEW s \in Sessions,
           AuditReferences(s) \/ AuditList(s) \/ AuditDelete(s)
    PROVE  SafeInv'
<1>1. \A t \in Sessions \ {s} : sess[t] = Idle
  <2>1. ASSUME sess[s].pc \in {"list", "clean"} PROVE \A t \in Sessions \ {s} : sess[t] = Idle
    BY <2>1 DEF SafeInv, Apart
  <2> QED
    BY <2>1 DEF AuditReferences, AuditList, AuditDelete, Calm, Fault
<1>2. ASSUME NEW j, Become(s, j), JobSafe(j, profile', store', uploads'),
             Sound(profile', store'), profile' = profile, uploads' = uploads,
             j.pc \in {"list", "clean"}
      PROVE  SafeInv'
  <2>1. ASSUME NEW t \in Sessions \ {s}
        PROVE  /\ JobSafe(sess[t], profile', store', uploads')
               /\ Apart(j, sess[t]) /\ Apart(sess[t], j)
    <3>1. sess[t] = Idle
      BY <1>1
    <3>2. Apart(j, Idle) /\ Apart(Idle, j)
      BY IdleSafe
    <3> QED
      BY <3>1, <3>2, IdleSafe
  <2>2. Numbered(profile', uploads')
    BY <1>2 DEF SafeInv
  <2> QED
    BY <1>2, <2>1, <2>2, SafeStep
<1>3. CASE AuditReferences(s)
  <2> DEFINE j == [pc |-> "list", referenced |-> Referenced]
  <2>1. Become(s, j) /\ UNCHANGED <<profile, store, uploads>>
    BY <1>3 DEF AuditReferences
  <2>2. \A k \in Keys : Named(profile, k) => k \in Referenced
    BY KeyShape DEF Named, Referenced
  <2>3. j.pc = "list" /\ j.referenced = Referenced
    OBVIOUS
  <2> HIDE DEF j
  <2>4. JobSafe(j, profile, store, uploads)
    BY <2>2, <2>3 DEF JobSafe, SwitchOK, DeleteOK, CleanOK, MigrateOK, MigrationSteps
  <2>5. JobSafe(j, profile', store', uploads') /\ Sound(profile', store')
    BY <2>1, <2>4 DEF SafeInv
  <2> QED
    BY <1>2, <2>1, <2>3, <2>5
<1>4. CASE AuditList(s)
  <2> DEFINE orphans == Orphans(sess[s].referenced)
             j == [pc |-> "clean", orphans |-> orphans]
  <2>1. sess[s].pc = "list" /\ Become(s, j) /\ UNCHANGED <<profile, store, uploads>>
    BY <1>4 DEF AuditList
  <2>2. \A k \in orphans : ~Named(profile, k)
    BY <2>1 DEF SafeInv, JobSafe, CleanOK, Orphans
  <2>3. j.pc = "clean" /\ j.orphans = orphans
    OBVIOUS
  <2> HIDE DEF j, orphans
  <2>4. JobSafe(j, profile, store, uploads)
    BY <2>2, <2>3 DEF JobSafe, SwitchOK, DeleteOK, CleanOK, MigrateOK, MigrationSteps
  <2>5. JobSafe(j, profile', store', uploads') /\ Sound(profile', store')
    BY <2>1, <2>4 DEF SafeInv
  <2> QED
    BY <1>2, <2>1, <2>3, <2>5
<1>5. CASE AuditDelete(s)
  <2>1. sess[s].pc = "clean" /\ UNCHANGED <<profile, uploads>>
    BY <1>5 DEF AuditDelete
  <2>2. DOMAIN sess[s] = {"pc", "orphans"} /\ sess[s].orphans \subseteq Keys
    BY <2>1 DEF KeyInv, JobOK
  <2>3. CASE Become(s, Idle) /\ UNCHANGED store
    <3>1. sess[s] # Idle /\ Plain(Idle)
      BY <2>1 DEF Idle, Plain
    <3> QED
      BY <2>1, <2>3, <3>1, SafePlain
  <2>4. ASSUME NEW k \in sess[s].orphans,
               store' = Deleted(k), Become(s, [sess[s] EXCEPT !.orphans = @ \ {k}])
        PROVE  SafeInv'
    <3> DEFINE j == [sess[s] EXCEPT !.orphans = @ \ {k}]
    <3>1. j.pc = "clean" /\ j.orphans \subseteq sess[s].orphans
      BY <2>1, <2>2
    <3>2. Become(s, j)
      BY <2>4
    <3> HIDE DEF j
    <3>3. \A l \in sess[s].orphans : ~Named(profile, l)
      BY <2>1 DEF SafeInv, JobSafe, CleanOK
    <3>4. JobSafe(j, profile', store', uploads')
      BY <2>1, <3>1, <3>3 DEF JobSafe, SwitchOK, DeleteOK, CleanOK, MigrateOK, MigrationSteps
    <3>5. \A l \in Keys : l # k => store'[l] = store[l]
      BY <2>4 DEF Deleted, KeyInv, RowsOK
    <3>6. RowsFit(profile) /\ Sound(profile, store) /\ ~Named(profile, k)
      BY <3>3 DEF KeyInv, RowsFit, SafeInv
    <3>7. Sound(profile, store')
      BY <3>5, <3>6, DropKeeps
    <3> QED
      BY <1>2, <2>1, <3>1, <3>2, <3>4, <3>7
  <2> QED
    BY <1>5, <2>1, <2>3, <2>4 DEF AuditDelete
<1> QED
  BY <1>3, <1>4, <1>5

\* A step of a migration goes on with a job of the same migration, or ends it.
LEMMA MigrationApart ==
    ASSUME SafeInv, Calm, NEW s \in Sessions, NEW t \in Sessions \ {s}, NEW j,
           sess[s].pc \in MigrationSteps, j.pc \in MigrationSteps \/ j = Idle
    PROVE  Apart(j, sess[t]) /\ Apart(sess[t], j)
<1>1. sess[s] # Idle
  BY DEF MigrationSteps, Idle
<1>2. sess[t].pc \notin {"list", "clean"}
  BY <1>1, ServingAlways DEF Serving
<1>3. sess[t].pc \notin MigrationSteps \cup {"undo"}
  BY DEF SafeInv, Apart
<1>4. CASE j.pc \in MigrationSteps
  BY <1>2, <1>3, <1>4 DEF Apart, MigrationSteps
<1>5. CASE j = Idle
  BY <1>5, IdleSafe
<1> QED
  BY <1>4, <1>5

\* One migration begins when no other is at work: no new key of its rows is named yet.
LEMMA SafeMigrateList ==
    ASSUME AvatarsAssumption, Calm, KeyInv, SafeInv, NEW s \in Sessions, MigrateList(s)
    PROVE  SafeInv'
<1> DEFINE due == {m \in Members : profile[m].key # NoKey /\ profile[m].key.layout = "legacy"}
           todo == [m \in due |-> profile[m]]
           j == [pc |-> "copy", todo |-> todo]
<1>1. /\ Become(s, j) /\ UNCHANGED <<profile, store, uploads>> /\ MayBegin(s)
      /\ \A t \in Sessions : sess[t].pc \notin MigrationSteps \cup {"undo"}
  BY DEF MigrateList, Migrating, MigrationSteps, Calm, Fault
<1>2. ASSUME NEW m \in due
      PROVE  /\ profile[m].key.of.no = 0
             /\ ~Named(profile, Migrated(profile[m].key))
  <2>1. profile[m].key \in Keys /\ profile[m].key.of.by = m /\ profile[m].key.layout = "legacy"
    BY DEF KeyInv, Fits
  <2>2. profile[m].key.of.no = 0
    BY <2>1 DEF SafeInv, Numbered
  <2>3. Migrated(profile[m].key) \in Keys /\ Migrated(profile[m].key).of.by = m
        /\ Migrated(profile[m].key).layout = "current"
    BY <2>1, KeyShape
  <2>4. RowsFit(profile)
    BY DEF KeyInv, RowsFit
  <2> QED
    BY <2>1, <2>2, <2>3, <2>4, OneNames
<1>3. DOMAIN todo = due /\ \A m \in due : todo[m] = profile[m]
  OBVIOUS
<1> HIDE DEF due, todo
<1>4. j.pc = "copy" /\ j.todo = todo
  OBVIOUS
<1> HIDE DEF j
<1>5. JobSafe(j, profile, store, uploads)
  BY <1>2, <1>3, <1>4 DEF JobSafe, SwitchOK, DeleteOK, CleanOK, MigrateOK, MigrationSteps, Pending
<1>6. ASSUME NEW t \in Sessions \ {s} PROVE Apart(j, sess[t]) /\ Apart(sess[t], j)
  <2>1. sess[t].pc \notin {"list", "clean"}
    BY <1>1, ServingAlways DEF Serving
  <2> QED
    BY <1>1, <1>4, <2>1 DEF Apart, MigrationSteps
<1>7. /\ Sound(profile', store') /\ Numbered(profile', uploads')
      /\ JobSafe(j, profile', store', uploads')
      /\ \A t \in Sessions : JobSafe(sess[t], profile', store', uploads')
  BY <1>1, <1>5 DEF SafeInv
<1> QED
  BY <1>1, <1>6, <1>7, SafeStep

\* The copy is made before the row is switched.
LEMMA SafeMigrateCopy ==
    ASSUME AvatarsAssumption, Calm, KeyInv, SafeInv, NEW s \in Sessions, MigrateCopy(s)
    PROVE  SafeInv'
<1> DEFINE t == sess[s]
<1>1. t.pc = "copy" /\ JobOK(t) /\ t.pc \in MigrationSteps /\ UNCHANGED <<profile, uploads>>
  BY DEF MigrateCopy, KeyInv, MigrationSteps
<1>2. PICK m \in DOMAIN t.todo :
        LET old == t.todo[m].key
            new == Migrated(old)
            sound == store[old] = t.todo[m].sha /\ store[new] \in {Absent, store[old]}
        IN  /\ store' = IF sound THEN [store EXCEPT ![new] = store[old]] ELSE store
            /\ Become(s, IF sound THEN [pc |-> "rebind", todo |-> t.todo, member |-> m,
                                        created |-> store[new] = Absent]
                         ELSE Idle)
  BY DEF MigrateCopy
<1> DEFINE old == t.todo[m].key
           new == Migrated(old)
           sound == store[old] = t.todo[m].sha /\ store[new] \in {Absent, store[old]}
           created == store[new] = Absent
<1>3. old \in Keys /\ t.todo[m].sha = old.of /\ new \in Keys /\ new.of = old.of
  BY <1>1, JobKeys DEF JobOK, TodoOK
<1>4. CASE sound
  <2>1. store' = [store EXCEPT ![new] = store[old]] /\ store[old] = new.of
    BY <1>2, <1>3, <1>4
  <2>2. Become(s, [pc |-> "rebind", todo |-> t.todo, member |-> m, created |-> created])
    BY <1>2, <1>4
  <2>3. store'[new] = old.of /\ \A k \in Keys : store'[k] = store[k] \/ store'[k] = k.of
    BY <1>3, <2>1 DEF KeyInv, RowsOK
  <2>4. JobSafe(t, profile, store, uploads)
    BY DEF SafeInv
  <2>5. ASSUME NEW c
        PROVE  LET j == [pc |-> "rebind", todo |-> t.todo, member |-> m, created |-> c]
               IN  JobSafe(j, profile, store', uploads) /\ j.pc \in MigrationSteps
    <3> DEFINE j == [pc |-> "rebind", todo |-> t.todo, member |-> m, created |-> c]
    <3>1. j.pc = "rebind" /\ j.todo = t.todo /\ j.member = m
      OBVIOUS
    <3> HIDE DEF j
    <3>2. MigrateOK(j, profile, store')
      BY <1>1, <2>3, <2>4, <3>1 DEF JobSafe, MigrateOK, MigrationSteps, Pending
    <3>3. JobSafe(j, profile, store', uploads) /\ j.pc \in MigrationSteps
      BY <3>1, <3>2 DEF JobSafe, SwitchOK, DeleteOK, CleanOK, MigrationSteps
    <3> QED
      BY <3>3 DEF j
  <2>6. /\ Sound(profile, store) /\ Numbered(profile, uploads) /\ uploads \in Nat /\ RowsFit(profile)
        /\ \A q \in Sessions : JobOK(sess[q]) /\ JobSafe(sess[q], profile, store, uploads)
    BY DEF SafeInv, KeyInv, RowsOK, RowsFit
  <2> HIDE DEF t, old, new, sound, created
  <2>7. PICK j : /\ Become(s, j) /\ JobSafe(j, profile, store', uploads) /\ j.pc \in MigrationSteps
    BY <2>2, <2>5, Zenon
  <2>8. /\ Sound(profile, store') /\ Numbered(profile, uploads)
        /\ \A q \in Sessions : JobSafe(sess[q], profile, store', uploads)
    BY <2>3, <2>6, PutKeeps
  <2>9. \A q \in Sessions \ {s} : Apart(j, sess[q]) /\ Apart(sess[q], j)
    BY <1>1, <2>7, MigrationApart DEF t
  <2> QED
    BY <1>1, <2>7, <2>8, <2>9, SafeStep
<1>5. CASE ~sound
  <2>1. Become(s, Idle) /\ UNCHANGED store
    BY <1>2, <1>5
  <2>2. sess[s] # Idle /\ Plain(Idle)
    BY <1>1 DEF Idle, Plain
  <2> QED
    BY <1>1, <2>1, <2>2, SafePlain
<1> QED
  BY <1>4, <1>5

\* The row is switched to the copy, which is there; or the copy is left to be deleted.
LEMMA SafeMigrateRebind ==
    ASSUME AvatarsAssumption, Calm, KeyInv, SafeInv, NEW s \in Sessions, MigrateRebind(s)
    PROVE  SafeInv'
<1> DEFINE t == sess[s]
           m == t.member
           old == t.todo[m].key
           new == Migrated(old)
<1>1. /\ t.pc = "rebind" /\ t.pc \in MigrationSteps /\ m \in DOMAIN t.todo /\ JobOK(t)
      /\ DOMAIN t = {"pc", "todo", "member", "created"}
      /\ UNCHANGED <<store, uploads>>
  BY DEF MigrateRebind, KeyInv, JobOK, MigrationSteps
<1>2. /\ m \in Members /\ old \in Keys /\ old.layout = "legacy" /\ old.of.by = m
      /\ new \in Keys /\ new.of = old.of /\ new.layout = "current" /\ LegacyOf(new) = old
  BY <1>1, JobKeys
<1>3. /\ \A n \in DOMAIN t.todo : t.todo[n].key.of.no = 0
      /\ \A n \in DOMAIN t.todo : ~Named(profile, Migrated(t.todo[n].key))
      /\ profile[m].key = old => store[new] = old.of
  BY <1>1 DEF SafeInv, JobSafe, MigrateOK, Pending
<1>4. sess[s] # Idle /\ Serving(s)
  BY <1>1, ServingAlways DEF Idle, MigrationSteps
<1>5. /\ Sound(profile, store) /\ Numbered(profile, uploads) /\ uploads \in Nat /\ RowsFit(profile)
      /\ \A q \in Sessions : JobOK(sess[q]) /\ JobSafe(sess[q], profile, store, uploads)
  BY DEF SafeInv, KeyInv, RowsOK, RowsFit
<1>6. ASSUME NEW q \in Sessions \ {s} PROVE sess[q].pc \notin MigrationSteps \cup {"undo"}
  <2>1. Apart(sess[s], sess[q])
    BY DEF SafeInv
  <2> QED
    BY <1>1, <2>1 DEF Apart
<1>7. CASE /\ MayRebind(profile[m], old)
           /\ profile' = [profile EXCEPT ![m].key = new]
           /\ Become(s, [t EXCEPT !.pc = "unlink"])
  <2> DEFINE j == [t EXCEPT !.pc = "unlink"]
  <2>1. profile[m].key = old /\ profile[m].sha = old.of
    BY <1>2, <1>7, KeyShape DEF MayRebind, KeyInv, Fits
  <2>2. /\ profile'[m].key = new /\ profile'[m].sha = new.of
        /\ \A n \in Members \ {m} : profile'[n] = profile[n]
    <3>1. profile[m] \in MemberPublicProfile
      BY <1>2 DEF KeyInv, RowsOK
    <3>2. /\ profile'[m] = [profile[m] EXCEPT !.key = new]
          /\ \A n \in Members \ {m} : profile'[n] = profile[n]
      BY <1>7, <1>2 DEF KeyInv, RowsOK
    <3> QED
      BY <1>2, <2>1, <3>1, <3>2 DEF MemberPublicProfile
  <2>3. j.pc = "unlink" /\ j.todo = t.todo /\ j.member = m
    BY <1>1
  <2>4. Become(s, j)
    BY <1>7
  <2>5. Named(profile, old)
    BY <1>2, <2>1 DEF Named
  <2> HIDE DEF j, new, old, m, t
  <2>6. ASSUME NEW q \in Sessions \ {s} PROVE ~Blocks(sess[q], new)
    <3>1. ASSUME sess[q].pc = "switch", sess[q].key = new PROVE FALSE
      <4>1. 1 <= new.of.no
        BY <1>5, <3>1 DEF JobSafe, SwitchOK
      <4> QED
        BY <1>1, <1>2, <1>3, <4>1 DEF old, m
    <3>2. ASSUME sess[q].pc = "delete", sess[q].key = new PROVE FALSE
      <4>1. new.of.no = 0
        BY <1>1, <1>2, <1>3 DEF old, m
      <4> QED
        BY <1>2, <1>5, <2>5, <3>2, <4>1 DEF JobSafe, DeleteOK
    <3> QED
      BY <1>4, <1>6, <3>1, <3>2 DEF Blocks, Serving
  <2>7. /\ Sound(profile', store) /\ Numbered(profile', uploads)
        /\ \A q \in Sessions \ {s} : JobSafe(sess[q], profile', store, uploads)
    <3>1. store[new] = new.of /\ new.of.no <= uploads
      BY <1>1, <1>2, <1>3, <1>5, <2>1 DEF old, m
    <3> QED
      BY <1>2, <1>5, <2>2, <2>6, <3>1, NameKeeps
  <2>8. RowsFit(profile')
    BY <1>2, <1>5, <2>2 DEF RowsFit, Fits
  <2>9. JobSafe(j, profile', store, uploads)
    <3>1. ASSUME NEW n \in DOMAIN t.todo \ {m} PROVE ~Named(profile', Migrated(t.todo[n].key))
      <4>1. Migrated(t.todo[n].key) \in Keys /\ Migrated(t.todo[n].key).of.by = n
        BY <1>1, JobKeys
      <4>2. Migrated(t.todo[n].key) # new
        BY <1>2, <4>1
      <4>3. ~Named(profile, Migrated(t.todo[n].key))
        BY <1>3
      <4> QED
        BY <2>2, <4>2, <4>3 DEF Named
    <3>2. ~Named(profile', old)
      BY <1>2, <2>2, <2>8, OneNames
    <3>3. MigrateOK(j, profile', store)
      BY <1>3, <2>3, <3>1, <3>2 DEF MigrateOK, Pending, MigrationSteps, old
    <3> QED
      BY <2>3, <3>3 DEF JobSafe, SwitchOK, DeleteOK, CleanOK
  <2>10. \A q \in Sessions \ {s} : Apart(j, sess[q]) /\ Apart(sess[q], j)
    BY <1>1, <2>3, MigrationApart DEF t, MigrationSteps
  <2> QED
    BY <1>1, <2>4, <2>7, <2>9, <2>10, SafeStep
<1>8. CASE /\ Become(s, IF t.created THEN [pc |-> "undo", key |-> new] ELSE Idle)
           /\ UNCHANGED profile
  <2> DEFINE j == [pc |-> "undo", key |-> new]
  <2>1. Become(s, j) \/ Become(s, Idle)
    BY <1>8
  <2>2. j.pc = "undo" /\ j.key = new
    OBVIOUS
  <2>3. new.of.no = 0 /\ ~Named(profile, new)
    BY <1>1, <1>2, <1>3
  <2> HIDE DEF j, new, old, m, t
  <2>4. JobSafe(j, profile, store, uploads)
    BY <1>5, <2>2, <2>3 DEF JobSafe, SwitchOK, DeleteOK, CleanOK, MigrateOK, MigrationSteps
  <2>5. ASSUME NEW q \in Sessions \ {s} PROVE Apart(j, sess[q]) /\ Apart(sess[q], j)
    <3>1. sess[q].pc = "switch" => sess[q].key # new
      BY <1>5, <2>3 DEF JobSafe, SwitchOK
    <3> QED
      BY <1>4, <1>6, <2>2, <3>1 DEF Apart, Serving
  <2>6. CASE Become(s, j)
    BY <1>1, <1>5, <1>8, <2>4, <2>5, <2>6, SafeStep
  <2>7. CASE Become(s, Idle)
    <3>1. Plain(Idle)
      BY DEF Plain, Idle
    <3> QED
      BY <1>1, <1>4, <1>8, <2>7, <3>1, SafePlain
  <2> QED
    BY <2>1, <2>6, <2>7
<1> QED
  BY <1>7, <1>8 DEF MigrateRebind

\* The old object is deleted when its row has the new key.
LEMMA SafeMigrateUnlink ==
    ASSUME AvatarsAssumption, Calm, KeyInv, SafeInv, NEW s \in Sessions, MigrateUnlink(s)
    PROVE  SafeInv'
<1> DEFINE t == sess[s]
           old == t.todo[t.member].key
           left == DOMAIN t.todo \ {t.member}
           rest == [m \in left |-> t.todo[m]]
           j == [pc |-> "copy", todo |-> rest]
<1>1. /\ t.pc = "unlink" /\ t.pc \in MigrationSteps /\ t.member \in DOMAIN t.todo /\ JobOK(t)
      /\ UNCHANGED <<profile, uploads>>
  BY DEF MigrateUnlink, KeyInv, JobOK, MigrationSteps
<1>2. /\ store' = [store EXCEPT ![old] = Absent] \/ store' = store
      /\ Become(s, Idle) \/ Become(s, j)
  BY DEF MigrateUnlink
<1>3. old \in Keys /\ old.layout = "legacy"
  BY <1>1, JobKeys
<1>4. /\ Sound(profile, store) /\ Numbered(profile, uploads) /\ RowsFit(profile)
      /\ \A q \in Sessions : JobOK(sess[q]) /\ JobSafe(sess[q], profile, store, uploads)
  BY DEF SafeInv, KeyInv, RowsFit
<1>5. /\ \A n \in DOMAIN t.todo : t.todo[n].key.of.no = 0
      /\ \A n \in left : ~Named(profile, Migrated(t.todo[n].key))
      /\ ~Named(profile, old)
  BY <1>1 DEF SafeInv, JobSafe, MigrateOK, Pending
<1>6. DOMAIN rest = left /\ \A n \in left : rest[n] = t.todo[n] /\ n \in DOMAIN t.todo
  OBVIOUS
<1>7. \A k \in Keys : k # old => store'[k] = store[k]
  BY <1>2 DEF KeyInv, RowsOK
<1> HIDE DEF left, rest
<1>8. j.pc = "copy" /\ j.todo = rest
  OBVIOUS
<1> HIDE DEF j
<1>9. \A p, q, u : p = profile => JobSafe(j, p, q, u)
  BY <1>5, <1>6, <1>8 DEF JobSafe, SwitchOK, DeleteOK, CleanOK, MigrateOK, MigrationSteps, Pending
<1>10. ASSUME NEW q \in Sessions \ {s} PROVE ~Needs(sess[q], profile, old)
  <2>1. sess[q].pc # "rebind"
    <3>1. Apart(sess[s], sess[q])
      BY DEF SafeInv
    <3> QED
      BY <1>1, <3>1 DEF Apart, MigrationSteps
  <2>2. sess[q].pc = "switch" => sess[q].key # old
    BY <1>3 DEF KeyInv, JobOK
  <2> QED
    BY <2>1, <2>2 DEF Needs
<1> HIDE DEF old
<1>11. /\ Sound(profile, store')
       /\ \A q \in Sessions \ {s} : JobSafe(sess[q], profile, store', uploads)
  BY <1>4, <1>5, <1>7, <1>10, DropKeeps
<1>12. \A q \in Sessions \ {s} : Apart(j, sess[q]) /\ Apart(sess[q], j)
  <2>1. j.pc \in MigrationSteps
    BY <1>8 DEF MigrationSteps
  <2> QED
    BY <1>1, <2>1, MigrationApart
<1>13. CASE Become(s, j)
  BY <1>1, <1>4, <1>9, <1>11, <1>12, <1>13, SafeStep
<1>14. CASE Become(s, Idle)
  BY <1>1, <1>4, <1>11, <1>14, IdleSafe, SafeStep
<1> QED
  BY <1>2, <1>13, <1>14

\* In the beginning only the objects of the old layout are there.
LEMMA InitSafe == ASSUME AvatarsAssumption, Init PROVE SafeInv
<1>1. ASSUME NEW m \in Members, profile[m].key # NoKey
      PROVE  m \in legacy /\ profile[m].key = LegacyKey(m) /\ profile[m].sha = LegacyKey(m).of
  <2>1. CASE m \in legacy
    BY <2>1, Zenon DEF Init
  <2>2. CASE m \notin legacy
    <3>1. profile[m] = NoProfile
      BY <2>2 DEF Init
    <3>2. NoProfile.key = NoKey
      BY Zenon DEF NoProfile
    <3> QED
      BY <1>1, <3>1, <3>2
  <2> QED
    BY <2>1, <2>2
<1>2. \A m \in Members : LegacyKey(m) \in Keys
  BY KeyShape
<1>3. Sound(profile, store)
  BY <1>1, <1>2 DEF Sound, Init
<1>4. Numbered(profile, uploads)
  <2>1. uploads = 0
    BY DEF Init
  <2>2. \A m \in Members : LegacyKey(m).of.no = 0
    BY DEF LegacyKey
  <2> QED
    BY <1>1, <2>1, <2>2 DEF Numbered
<1>5. \A s \in Sessions : sess[s] = Idle
  BY DEF Init
<1> QED
  BY <1>3, <1>4, <1>5, IdleSafe DEF SafeInv

\* Every step keeps it, where calls fail and processes die.
LEMMA SafeNext ==
    ASSUME AvatarsAssumption, Calm, KeyInv, SafeInv, [Next]_vars
    PROVE  SafeInv'
<1>1. ASSUME NEW s \in Sessions, AdminSave(s) PROVE FALSE
  BY <1>1 DEF AdminSave, SafeInv, JobSafe
<1>2. ASSUME NEW s \in Sessions, NEW m \in Members, AdminEdit(s, m) PROVE FALSE
  BY <1>2 DEF AdminEdit, Calm, Fault
<1>3. CASE UNCHANGED vars
  BY <1>3 DEF vars, SafeInv
<1> QED
  BY <1>1, <1>2, <1>3, SafeRead, SafeSaveProcessed, SafeSwitch, SafeSwitchFails, SafeRemove,
     SafeSaveName, SafeDeleteObject, SafeAudit, SafeMigrateList, SafeMigrateCopy,
     SafeMigrateRebind, SafeMigrateUnlink
  DEF Next, Step

\* Who holds which key, in every reachable state of a system where calls fail and
\* processes die.
THEOREM SpecIInv == AvatarsAssumption => (Spec => [](KeyInv /\ (Calm => SafeInv)))
<1> SUFFICES ASSUME AvatarsAssumption PROVE Spec => [](KeyInv /\ (Calm => SafeInv))
  OBVIOUS
<1>1. Init => KeyInv /\ SafeInv
  BY InitKey, InitSafe
<1>2. KeyInv /\ (Calm => SafeInv) /\ [Next]_vars => (KeyInv /\ (Calm => SafeInv))'
  <2> SUFFICES ASSUME KeyInv, Calm => SafeInv, [Next]_vars
               PROVE  KeyInv' /\ (Calm => SafeInv)'
    OBVIOUS
  <2>1. KeyInv'
    BY KeyNext
  <2>2. Calm' => Calm
    BY SettingStays DEF Calm
  <2>3. Calm => SafeInv'
    BY SafeNext
  <2> QED
    BY <2>1, <2>2, <2>3
<1> QED
  BY <1>1, <1>2, PTL DEF Spec

\* "头像替换必须保持当前状态可用": the image a profile names is in the storage, with the
\* profile's hash, through every crossing of uploads, removals, renamings, cleanings and
\* a migration, and whatever fails or dies half way.
THEOREM ProfilesKeepImages == AvatarsAssumption => (Spec => [](Calm => ReferenceSound))
<1> SUFFICES ASSUME AvatarsAssumption PROVE Spec => [](Calm => ReferenceSound)
  OBVIOUS
<1>1. KeyInv /\ (Calm => SafeInv) => (Calm => ReferenceSound)
  BY DEF SafeInv, Sound, ReferenceSound
<1> QED
  BY <1>1, SpecIInv, PTL

-----------------------------------------------------------------------------
(* Where nothing fails, nothing is left over. *)

\* Nothing goes wrong, and every avatar is in the current layout: objects of the old one
\* are deleted by the migration only.
Tidy == faults = {} /\ legacy = {}

\* A job that will delete the object of a key or name it.
Holds(j, k) == j.pc \in {"switch", "delete"} /\ j.key = k

\* Every object belongs to a profile or to a job, and there is nothing to migrate.
TidyInv ==
    /\ \A k \in Keys : store[k] # Absent =>
          Named(profile, k) \/ \E s \in Sessions : Holds(sess[s], k)
    /\ \A m \in Members : profile[m].key # NoKey => profile[m].key.layout = "current"
    /\ \A s \in Sessions : /\ sess[s].pc \notin MigrationSteps \cup {"undo", "admin"}
                           /\ sess[s].pc = "delete" => sess[s].key.layout = "current"

\* A step that leaves every object it does not delete to a profile or to a job.
LEMMA TidyStep ==
    ASSUME AvatarsAssumption, KeyInv, TidyInv, NEW s \in Sessions, NEW j, Become(s, j),
           j.pc \notin MigrationSteps \cup {"undo", "admin"},
           j.pc = "delete" => j.key.layout = "current",
           \A m \in Members : profile'[m].key # NoKey => profile'[m].key.layout = "current",
           \A k \in Keys : store'[k] # Absent =>
              \/ Named(profile', k) \/ Holds(j, k)
              \/ store[k] # Absent /\ (Named(profile, k) => Named(profile', k)) /\ ~Holds(sess[s], k)
    PROVE  TidyInv'
<1>1. sess'[s] = j /\ \A t \in Sessions \ {s} : sess'[t] = sess[t]
  BY DEF KeyInv, Become
<1>2. ASSUME NEW k \in Keys, store'[k] # Absent
      PROVE  Named(profile', k) \/ \E t \in Sessions : Holds(sess'[t], k)
  <2>1. CASE Named(profile', k) \/ Holds(j, k)
    BY <1>1, <2>1
  <2>2. CASE store[k] # Absent /\ (Named(profile, k) => Named(profile', k)) /\ ~Holds(sess[s], k)
    <3>1. Named(profile, k) \/ \E t \in Sessions : Holds(sess[t], k)
      BY <2>2 DEF TidyInv
    <3>2. ASSUME NEW t \in Sessions, Holds(sess[t], k) PROVE Holds(sess'[t], k)
      BY <1>1, <2>2, <3>2
    <3> QED
      BY <2>2, <3>1, <3>2
  <2> QED
    BY <1>2, <2>1, <2>2
<1>3. \A t \in Sessions : /\ sess'[t].pc \notin MigrationSteps \cup {"undo", "admin"}
                          /\ sess'[t].pc = "delete" => sess'[t].key.layout = "current"
  BY <1>1 DEF TidyInv
<1> QED
  BY <1>2, <1>3 DEF TidyInv

\* Jobs that hold no object.
LEMMA TidyPlain ==
    ASSUME AvatarsAssumption, KeyInv, TidyInv, NEW s \in Sessions, NEW j, Become(s, j),
           j.pc \in {"idle", "name", "serve", "list", "clean"},
           sess[s].pc \notin {"switch", "delete"},
           \A m \in Members : profile'[m].key = profile[m].key,
           \A k \in Keys : store'[k] \in {store[k], Absent}
    PROVE  TidyInv'
<1>1. \A k : ~Holds(sess[s], k) /\ (Named(profile, k) => Named(profile', k))
  BY DEF Holds, Named
<1>2. \A k \in Keys : store'[k] # Absent =>
        store[k] # Absent /\ (Named(profile, k) => Named(profile', k)) /\ ~Holds(sess[s], k)
  BY <1>1
<1>3. \A m \in Members : profile'[m].key # NoKey => profile'[m].key.layout = "current"
  BY DEF TidyInv
<1>4. j.pc \notin MigrationSteps \cup {"undo", "admin"} /\ j.pc # "delete"
  BY DEF MigrationSteps
<1> QED
  BY <1>2, <1>3, <1>4, TidyStep

\* A row takes a key or loses it, and the object before is left to be deleted.
LEMMA TidyRow ==
    ASSUME AvatarsAssumption, KeyInv, TidyInv, NEW s \in Sessions, NEW m \in Members, NEW key,
           Become(s, AfterSwitch(profile[m].key, key)), UNCHANGED store,
           key # NoKey => key.layout = "current",
           \A k : Holds(sess[s], k) => k = key,
           profile'[m].key = key, \A n \in Members \ {m} : profile'[n] = profile[n]
    PROVE  TidyInv'
<1> DEFINE j == AfterSwitch(profile[m].key, key)
<1>1. CASE profile[m].key \in {NoKey, key}
  <2>1. j = Idle
    BY <1>1 DEF AfterSwitch
  <2>2. j.pc \notin MigrationSteps \cup {"undo", "admin"} /\ j.pc # "delete"
    BY <2>1, IdleOK DEF MigrationSteps
  <2>3. \A k \in Keys : Named(profile, k) => Named(profile', k)
    BY <1>1, KeyShape DEF Named
  <2>4. \A k \in Keys : Holds(sess[s], k) => Named(profile', k)
    BY DEF Named
  <2>5. \A n \in Members : profile'[n].key # NoKey => profile'[n].key.layout = "current"
    BY DEF TidyInv
  <2> HIDE DEF j
  <2> QED
    BY <2>2, <2>3, <2>4, <2>5, TidyStep DEF j
<1>2. CASE profile[m].key \notin {NoKey, key}
  <2>1. j = [pc |-> "delete", key |-> profile[m].key]
    BY <1>2 DEF AfterSwitch
  <2>2. j.pc = "delete" /\ j.key = profile[m].key
    BY <2>1
  <2>3. \A k \in Keys : Named(profile, k) => Named(profile', k) \/ Holds(j, k)
    BY <2>2 DEF Named, Holds
  <2>4. \A k \in Keys : Holds(sess[s], k) => Named(profile', k)
    BY DEF Named
  <2>5. \A n \in Members : profile'[n].key # NoKey => profile'[n].key.layout = "current"
    BY DEF TidyInv
  <2>6. j.key.layout = "current" /\ j.pc \notin MigrationSteps \cup {"undo", "admin"}
    BY <1>2, <2>2 DEF TidyInv, MigrationSteps
  <2> HIDE DEF j
  <2> QED
    BY <2>2, <2>3, <2>4, <2>5, <2>6, TidyStep DEF j
<1> QED
  BY <1>1, <1>2

\* A new object is held by its request until a row names it.
LEMMA TidySaveProcessed ==
    ASSUME AvatarsAssumption, Tidy, KeyInv, TidyInv, NEW s \in Sessions, NEW m \in Members,
           SaveProcessed(s, m)
    PROVE  TidyInv'
<1> DEFINE image == [by |-> m, no |-> uploads + 1]
           k == NewAvatarKey(image)
           j == [pc |-> "switch", member |-> m, key |-> k, sha |-> image]
<1>1. /\ store' = [store EXCEPT ![k] = image] /\ Become(s, j) /\ profile' = profile
      /\ sess[s] = Idle
  BY DEF SaveProcessed, Tidy, Fault, MayBegin
<1>2. j.pc = "switch" /\ j.key = k
  OBVIOUS
<1> HIDE DEF image, j, k
<1>3. \A l \in Keys : l # k => store'[l] = store[l]
  BY <1>1 DEF KeyInv, RowsOK
<1>4. \A l : ~Holds(sess[s], l)
  BY <1>1, IdleOK DEF Holds
<1>5. \A l \in Keys : store'[l] # Absent =>
        \/ Holds(j, l)
        \/ store[l] # Absent /\ (Named(profile, l) => Named(profile', l)) /\ ~Holds(sess[s], l)
  BY <1>1, <1>2, <1>3, <1>4 DEF Holds
<1>6. \A n \in Members : profile'[n].key # NoKey => profile'[n].key.layout = "current"
  BY <1>1 DEF TidyInv
<1>7. j.pc \notin MigrationSteps \cup {"undo", "admin"} /\ j.pc # "delete"
  BY <1>2 DEF MigrationSteps
<1> QED
  BY <1>1, <1>5, <1>6, <1>7, TidyStep

\* Every step keeps it, where nothing goes wrong.
LEMMA TidyNext ==
    ASSUME AvatarsAssumption, Tidy, KeyInv, TidyInv, [Next]_vars
    PROVE  TidyInv'
<1>1. ASSUME NEW s \in Sessions, Switch(s) PROVE TidyInv'
  <2> DEFINE m == sess[s].member
             k == sess[s].key
  <2>1. /\ sess[s].pc = "switch" /\ m \in Members /\ k \in Keys /\ k.layout = "current"
        /\ sess[s].sha = k.of
    BY <1>1 DEF Switch, KeyInv, JobOK
  <2>2. /\ profile'[m] = SwitchedRow(profile[m], k, k.of)
        /\ \A n \in Members \ {m} : profile'[n] = profile[n]
    BY <1>1, <2>1 DEF Switch, KeyInv, RowsOK
  <2>3. profile[m] \in MemberPublicProfile
    BY <2>1 DEF KeyInv, RowsOK
  <2>4. Become(s, AfterSwitch(profile[m].key, k)) /\ UNCHANGED store
    BY <1>1 DEF Switch
  <2>5. \A l : Holds(sess[s], l) => l = k
    BY DEF Holds
  <2> HIDE DEF m, k
  <2>6. SwitchedRow(profile[m], k, k.of).key = k
    BY <2>1, <2>3, RowUpdates, Zenon
  <2>7. profile'[m].key = k
    BY <2>2, <2>6
  <2> QED
    BY <2>1, <2>2, <2>4, <2>5, <2>7, TidyRow
<1>2. ASSUME NEW s \in Sessions, NEW m \in Members,
             RemoveOwnAvatar(s, m) \/ RemoveAvatarAsAdministrator(s, m)
      PROVE  TidyInv'
  <2>1. /\ profile' = [profile EXCEPT ![m] = RemovedRow(profile[m])]
        /\ Become(s, AfterSwitch(profile[m].key, NoKey)) /\ UNCHANGED store /\ sess[s] = Idle
    BY <1>2 DEF RemoveOwnAvatar, RemoveAvatarAsAdministrator, RemoveAvatar, MayBegin
  <2>2. profile[m] \in MemberPublicProfile
    BY DEF KeyInv, RowsOK
  <2>3. profile'[m] = RemovedRow(profile[m]) /\ \A n \in Members \ {m} : profile'[n] = profile[n]
    BY <2>1 DEF KeyInv, RowsOK
  <2>4. profile'[m].key = NoKey
    BY <2>2, <2>3, RowUpdates
  <2>5. \A k : ~Holds(sess[s], k)
    BY <2>1, IdleOK DEF Holds
  <2> QED
    BY <2>1, <2>3, <2>4, <2>5, TidyRow
<1>3. ASSUME NEW s \in Sessions, DeleteObject(s) PROVE TidyInv'
  <2> DEFINE k == sess[s].key
  <2>1. /\ sess[s].pc = "delete" /\ k \in Keys /\ k.layout = "current"
        /\ store' = Deleted(k) /\ Become(s, Idle) /\ profile' = profile
    BY <1>3 DEF DeleteObject, KeyInv, JobOK, TidyInv, Tidy, Fault
  <2>2. \A l \in Keys : store'[l] = IF l = k THEN Absent ELSE store[l]
    BY <2>1, KeyShape DEF Deleted, Deletable, KeyInv, RowsOK
  <2>3. \A l \in Keys : store'[l] # Absent => store[l] # Absent /\ ~Holds(sess[s], l)
    BY <2>2 DEF Holds
  <2>4. \A m \in Members : profile'[m].key # NoKey => profile'[m].key.layout = "current"
    BY <2>1 DEF TidyInv
  <2>5. Idle.pc \notin MigrationSteps \cup {"undo", "admin"} /\ Idle.pc # "delete"
    BY IdleOK DEF MigrationSteps
  <2> HIDE DEF k
  <2> QED
    BY <2>1, <2>3, <2>4, <2>5, TidyStep
<1>4. ASSUME NEW s \in Sessions, NEW m \in Members, EditName(s, m) \/ ReadProfile(s, m)
      PROVE  TidyInv'
  <2>1. sess[s].pc = "idle" /\ UNCHANGED <<profile, store>>
    BY <1>4, IdleOK DEF EditName, ReadProfile, MayBegin
  <2>2. PICK j : Become(s, j) /\ j.pc \in {"name", "serve"}
    <3>1. CASE EditName(s, m)
      <4> DEFINE j == [pc |-> "name", member |-> m, read |-> profile[m]]
      <4>1. Become(s, j) /\ j.pc = "name"
        BY <3>1 DEF EditName
      <4> QED
        BY <4>1
    <3>2. CASE ReadProfile(s, m)
      <4> DEFINE j == [pc |-> "serve", member |-> m, key |-> profile[m].key, sha |-> profile[m].sha]
      <4>1. Become(s, j) /\ j.pc = "serve"
        BY <3>2 DEF ReadProfile
      <4> QED
        BY <4>1
    <3> QED
      BY <1>4, <3>1, <3>2
  <2> QED
    BY <2>1, <2>2, TidyPlain
<1>5. ASSUME NEW s \in Sessions, SaveName(s) PROVE TidyInv'
  <2> DEFINE m == sess[s].member
  <2>1. sess[s].pc = "name" /\ m \in Members /\ Become(s, Idle) /\ UNCHANGED store
    BY <1>5 DEF SaveName, KeyInv, JobOK
  <2>2. /\ profile'[m] = NamedRow(profile[m], sess[s].read)
        /\ \A n \in Members \ {m} : profile'[n] = profile[n]
    BY <1>5, <2>1 DEF SaveName, KeyInv, RowsOK
  <2>3. profile[m] \in MemberPublicProfile
    BY <2>1 DEF KeyInv, RowsOK
  <2> HIDE DEF m
  <2>4. profile'[m].key = profile[m].key
    BY <2>2, <2>3, RowUpdates
  <2> QED
    BY <2>1, <2>2, <2>4, IdleOK, TidyPlain
<1>6. ASSUME NEW s \in Sessions, Serve(s) PROVE TidyInv'
  BY <1>6, IdleOK, TidyPlain DEF Serve
<1>7. ASSUME NEW s \in Sessions, AuditReferences(s) \/ AuditList(s) PROVE TidyInv'
  <2>1. sess[s].pc \notin {"switch", "delete"} /\ UNCHANGED <<profile, store>>
    BY <1>7, IdleOK DEF AuditReferences, AuditList, MayBegin
  <2>2. PICK j : Become(s, j) /\ j.pc \in {"list", "clean"}
    <3>1. CASE AuditReferences(s)
      <4> DEFINE j == [pc |-> "list", referenced |-> Referenced]
      <4>1. Become(s, j) /\ j.pc = "list"
        BY <3>1 DEF AuditReferences
      <4> QED
        BY <4>1
    <3>2. CASE AuditList(s)
      <4> DEFINE j == [pc |-> "clean", orphans |-> Orphans(sess[s].referenced)]
      <4>1. Become(s, j) /\ j.pc = "clean"
        BY <3>2 DEF AuditList
      <4> QED
        BY <4>1
    <3> QED
      BY <1>7, <3>1, <3>2
  <2> QED
    BY <2>1, <2>2, TidyPlain
<1>8. ASSUME NEW s \in Sessions, AuditDelete(s) PROVE TidyInv'
  <2>1. sess[s].pc = "clean" /\ profile' = profile
    BY <1>8 DEF AuditDelete
  <2>2. DOMAIN sess[s] = {"pc", "orphans"}
    BY <2>1 DEF KeyInv, JobOK
  <2>3. CASE Become(s, Idle) /\ UNCHANGED store
    BY <2>1, <2>3, IdleOK, TidyPlain
  <2>4. ASSUME NEW k \in sess[s].orphans,
               store' = Deleted(k), Become(s, [sess[s] EXCEPT !.orphans = @ \ {k}])
        PROVE  TidyInv'
    <3>1. [sess[s] EXCEPT !.orphans = @ \ {k}].pc = "clean"
      BY <2>1, <2>2
    <3>2. \A l \in Keys : store'[l] \in {store[l], Absent}
      BY <2>4 DEF Deleted, KeyInv, RowsOK
    <3> QED
      BY <2>1, <2>4, <3>1, <3>2, TidyPlain
  <2> QED
    BY <1>8, <2>3, <2>4 DEF AuditDelete
<1>9. ASSUME NEW s \in Sessions,
             \/ SwitchFails(s) \/ AdminSave(s) \/ Crash(s)
             \/ MigrateList(s) \/ MigrateCopy(s) \/ MigrateRebind(s) \/ MigrateUnlink(s)
             \/ \E m \in Members : AdminEdit(s, m)
      PROVE  FALSE
  <2>1. ~MigrateList(s)
    BY DEF MigrateList, TidyInv
  <2>2. ~(MigrateCopy(s) \/ MigrateRebind(s) \/ MigrateUnlink(s) \/ AdminSave(s))
    BY DEF MigrateCopy, MigrateRebind, MigrateUnlink, AdminSave, TidyInv, MigrationSteps
  <2> QED
    BY <1>9, <2>1, <2>2 DEF SwitchFails, Crash, AdminEdit, Tidy, Fault
<1>10. CASE UNCHANGED vars
  BY <1>10 DEF vars, TidyInv
<1> QED
  BY <1>1, <1>2, <1>3, <1>4, <1>5, <1>6, <1>7, <1>8, <1>9, <1>10, TidySaveProcessed DEF Next, Step

\* "清理不再被引用的旧头像对象": where nothing fails, every object belongs to a profile once
\* nobody is at work.
THEOREM NothingIsLeft == AvatarsAssumption => (Spec => [](Tidy => NothingLeftover))
<1> SUFFICES ASSUME AvatarsAssumption PROVE Spec => [](Tidy => NothingLeftover)
  OBVIOUS
<1>1. Init => (Tidy => TidyInv)
  <2> SUFFICES ASSUME Init, Tidy PROVE TidyInv
    OBVIOUS
  <2>1. \A m \in Members : profile[m].key = NoKey
    <3>1. \A m \in Members : profile[m] = NoProfile
      BY DEF Init, Tidy
    <3>2. NoProfile.key = NoKey
      BY Zenon DEF NoProfile
    <3> QED
      BY <3>1, <3>2
  <2>2. \A k \in Keys : store[k] = Absent
    BY DEF Init, Tidy
  <2>3. \A s \in Sessions : sess[s] = Idle
    BY DEF Init
  <2> QED
    BY <2>1, <2>2, <2>3, IdleOK DEF TidyInv, MigrationSteps
<1>2. KeyInv /\ (Tidy => TidyInv) /\ [Next]_vars => (Tidy => TidyInv)'
  <2> SUFFICES ASSUME KeyInv, Tidy => TidyInv, [Next]_vars PROVE Tidy' => TidyInv'
    OBVIOUS
  <2>1. Tidy' => Tidy
    BY SettingStays DEF Tidy
  <2>2. Tidy => TidyInv'
    BY TidyNext
  <2> QED
    BY <2>1, <2>2
<1>3. KeyInv /\ (Tidy => TidyInv) => (Tidy => NothingLeftover)
  BY IdleOK, KeyShape DEF TidyInv, NothingLeftover, Named, Holds, Referenced
<1> QED
  BY <1>1, <1>2, <1>3, KeysOfImages, PTL DEF Spec

-----------------------------------------------------------------------------
(* WorldLifecycle *)

SeedSteps == Life!Baseline \cup {"administrator"}

ActiveRow == {row \in Life!WorldRegistry : row.status = "active"}

\* What an operator may be at: it registers a world, seeds one, or resets one.
Registering == [pc : {"create"}, world : Worlds, row : ActiveRow]
Seeding == [pc : {"seed"}, world : Worlds, alias : Aliases, reset : {FALSE}, steps : Seq(SeedSteps)]
Resetting == [pc : {"clean", "flush", "restore", "reseed", "seed", "count"}, world : Worlds,
              alias : Aliases, row : ActiveRow, reset : {TRUE}, storages : SUBSET Storages,
              steps : Seq(SeedSteps)]
Rebuilding == [pc : {"tuples"}, world : Worlds, reset : {TRUE}, after : SUBSET SeedSteps]

Commands == {Life!Idle} \cup Registering \cup Seeding \cup Resetting \cup Rebuilding

Contexts == {Life!Unbound} \cup [pc : {"bound"}, world : Worlds, alias : Aliases]

LifeInv == /\ Life!RowsOK /\ Life!RealWorldOpen
           /\ op \in [Operators -> Commands]
           /\ req \in [Requests -> Contexts]

\* What surrounds the worlds.
EnvOK == env \in Life!Surroundings

-----------------------------------------------------------------------------
(* The operators. *)

LEMMA LifeKinds ==
    ASSUME NEW r \in Commands
    PROVE  /\ r.pc \in {"idle", "create", "seed", "clean", "flush", "restore", "reseed", "count", "tuples"}
           /\ r.pc = "idle" => r = Life!Idle
           /\ r.pc = "create" => r \in Registering
           /\ r.pc = "seed" => r \in Seeding \cup Resetting
           /\ r.pc \in {"clean", "flush", "restore", "reseed", "count"} => r \in Resetting
           /\ r.pc = "tuples" => r \in Rebuilding
<1>1. CASE r = Life!Idle
  BY <1>1 DEF Life!Idle
<1>2. CASE r \in Registering
  BY <1>2 DEF Registering
<1>3. CASE r \in Seeding
  BY <1>3 DEF Seeding
<1>4. CASE r \in Resetting
  BY <1>4 DEF Resetting
<1>5. CASE r \in Rebuilding
  BY <1>5 DEF Rebuilding
<1> QED
  BY <1>1, <1>2, <1>3, <1>4, <1>5 DEF Commands

LEMMA DatabasesKeepShape ==
    ASSUME NEW d \in Life!Databases
    PROVE  /\ Life!Flushed(d) \in Life!Databases
           /\ [d EXCEPT !.schema = TRUE] \in Life!Databases
           /\ \A w \in Worlds : [d EXCEPT !.rows = d.rows \cup {w}] \in Life!Databases
           /\ \A x \in {"none", "active", "suspended", "taken"} :
                 [d EXCEPT !.administrator = x] \in Life!Databases
           /\ \A step \in SeedSteps : Life!SeedInto(d, step) \in Life!Databases
           /\ Life!CountRows(d) \subseteq SeedSteps
  BY DEF Life!Databases, Life!Flushed, Life!SeedInto, Life!CountRows, SeedSteps, Life!Baseline

LEMMA SeedPlans ==
    /\ Life!SeedPlan("demo") \in Seq(SeedSteps)
    /\ Life!SeedPlan("zero_start") \in Seq(SeedSteps)
<1> DEFINE admin == IF env.administrator = "on" THEN <<"administrator">> ELSE <<>>
           policy == IF env.administrator = "on" THEN <<"policy">> ELSE <<>>
           demo == <<"demo">>
           plan == <<"plan">>
           exam == <<"exam">>
<1>1. /\ admin \in Seq(SeedSteps) /\ policy \in Seq(SeedSteps) /\ demo \in Seq(SeedSteps)
      /\ plan \in Seq(SeedSteps) /\ exam \in Seq(SeedSteps)
  <2>1. \A step \in SeedSteps : <<step>> \in Seq(SeedSteps)
    OBVIOUS
  <2>2. {"administrator", "policy", "demo", "plan", "exam"} \subseteq SeedSteps
    BY DEF SeedSteps, Life!Baseline
  <2>3. admin \in Seq(SeedSteps) /\ policy \in Seq(SeedSteps)
    BY <2>1, <2>2
  <2>4. demo \in Seq(SeedSteps) /\ plan \in Seq(SeedSteps) /\ exam \in Seq(SeedSteps)
    BY <2>1, <2>2
  <2> QED
    BY <2>3, <2>4
<1>2. Life!SeedPlan("demo") = demo \o admin \o exam
  BY DEF Life!SeedPlan
<1>3. Life!SeedPlan("zero_start") = admin \o plan \o policy \o exam
  BY DEF Life!SeedPlan
<1> HIDE DEF admin, policy, demo, plan, exam
<1>4. \A f, g \in Seq(SeedSteps) : f \o g \in Seq(SeedSteps)
  OBVIOUS
<1>5. demo \o admin \in Seq(SeedSteps) /\ admin \o plan \in Seq(SeedSteps)
  BY <1>1, <1>4
<1>6. admin \o plan \o policy \in Seq(SeedSteps)
  BY <1>1, <1>4, <1>5
<1> QED
  BY <1>1, <1>2, <1>3, <1>4, <1>5, <1>6

LEMMA LifeIdle == Life!Idle \in Commands /\ Life!Idle.pc = "idle"
  BY DEF Life!Idle, Commands

\* What a registered world's row is.
LEMMA RegisteredRow ==
    ASSUME Life!RowsOK, NEW w \in Worlds, Life!Registered(w)
    PROVE  registry[w] \in Life!WorldRegistry
  BY DEF Life!RowsOK, Life!Registered

LEMMA ActiveWorld ==
    ASSUME Life!RowsOK, NEW w \in Worlds, Life!IsActive(w)
    PROVE  Life!Registered(w) /\ registry[w] \in ActiveRow /\ registry[w].alias \in Aliases
<1>1. Life!Registered(w)
  BY DEF Life!IsActive, Life!Registered, Life!Unregistered
<1> QED
  BY <1>1, RegisteredRow DEF Life!IsActive, ActiveRow, Life!WorldRegistry

-----------------------------------------------------------------------------
(* Every step keeps the shapes, and the real world active. *)

\* What a step may change.
LEMMA LifeMoves ==
    ASSUME LifeInv,
           registry' = registry \/ \E w \in Worlds, row \in Life!WorldRegistry :
               registry' = [registry EXCEPT ![w] = row] /\ (w = RealWorld => row.status = "active"),
           dbs' = dbs \/ \E a \in Aliases, d \in Life!Databases : dbs' = [dbs EXCEPT ![a] = d],
           files' = files \/ \E w \in Worlds, kept \in SUBSET Storages : files' = [files EXCEPT ![w] = kept],
           log' = log \/ \E entry \in Life!WorldMaintenanceLog : log' = Append(log, entry),
           begun' \in [seeds : 0..MaxSeeds, resets : 0..MaxResets],
           op' = op \/ \E o \in Operators, r \in Commands : op' = [op EXCEPT ![o] = r],
           req' = req \/ \E q \in Requests, c \in Contexts : req' = [req EXCEPT ![q] = c]
    PROVE  LifeInv'
<1>1. registry' \in [Worlds -> Life!WorldRegistry \cup {Life!Unregistered}] /\ Life!RealWorldOpen'
  <2>1. registry \in [Worlds -> Life!WorldRegistry \cup {Life!Unregistered}] /\ registry[RealWorld].status = "active"
    BY DEF LifeInv, Life!RowsOK, Life!RealWorldOpen, Life!IsActive
  <2>2. CASE registry' = registry
    BY <2>1, <2>2 DEF Life!RealWorldOpen, Life!IsActive
  <2>3. ASSUME NEW w \in Worlds, NEW row \in Life!WorldRegistry, registry' = [registry EXCEPT ![w] = row],
               w = RealWorld => row.status = "active"
        PROVE  registry' \in [Worlds -> Life!WorldRegistry \cup {Life!Unregistered}] /\ Life!RealWorldOpen'
    BY <2>1, <2>3 DEF Life!RealWorldOpen, Life!IsActive
  <2> QED
    BY <2>2, <2>3
<1>2. dbs' \in [Aliases -> Life!Databases] /\ files' \in [Worlds -> SUBSET Storages]
  <2>1. dbs \in [Aliases -> Life!Databases] /\ files \in [Worlds -> SUBSET Storages]
    BY DEF LifeInv, Life!RowsOK
  <2>2. dbs' \in [Aliases -> Life!Databases]
    BY <2>1
  <2>3. files' \in [Worlds -> SUBSET Storages]
    BY <2>1
  <2> QED
    BY <2>2, <2>3
<1>3. log' \in Seq(Life!WorldMaintenanceLog)
  <2>1. log \in Seq(Life!WorldMaintenanceLog)
    BY DEF LifeInv, Life!RowsOK
  <2> QED
    BY <2>1
<1>4. op' \in [Operators -> Commands] /\ req' \in [Requests -> Contexts]
  BY DEF LifeInv
<1> QED
  BY <1>1, <1>2, <1>3, <1>4 DEF LifeInv, Life!RowsOK, Life!WorldRegistry, Life!Unregistered,
     Life!Databases, Life!WorldMaintenanceLog, Life!WorldTypes, Life!Baseline

\* An exception ends the command; a reset may log it.
LEMMA LifeFails ==
    ASSUME LifeInv, NEW o \in Operators, NEW error, NEW after \in SUBSET SeedSteps,
           op[o].pc # "create", op[o].pc # "idle", Life!Fail(o, error, after)
    PROVE  /\ \E r \in Commands : op' = [op EXCEPT ![o] = r]
           /\ log' = log \/ \E entry \in Life!WorldMaintenanceLog : log' = Append(log, entry)
<1>1. op[o].world \in Worlds
  <2>1. op[o] \in Commands
    BY DEF LifeInv
  <2>2. op[o] \in Seeding \cup Resetting \cup Rebuilding
    BY <2>1, LifeKinds
  <2> QED
    BY <2>2 DEF Seeding, Resetting, Rebuilding
<1>2. [world |-> op[o].world, status |-> "failed", after |-> after] \in Life!WorldMaintenanceLog
  BY <1>1 DEF Life!WorldMaintenanceLog, SeedSteps
<1>3. op' = [op EXCEPT ![o] = Life!Idle]
      /\ (log' = log \/ log' = Append(log, [world |-> op[o].world, status |-> "failed", after |-> after]))
  BY DEF Life!Fail
<1> QED
  BY <1>2, <1>3, LifeIdle

LEMMA RegistrySteps ==
    ASSUME Life!WorldAssumption, LifeInv, NEW o \in Operators,
           \/ \E w \in Worlds : \/ \E t \in Life!WorldTypes, a \in Aliases : Life!CreateCheck(o, w, t, a)
                                \/ Life!ArchiveWorld(o, w) \/ Life!DeleteWorld(o, w) \/ Life!MigrateWorld(o, w)
           \/ Life!CreateCommit(o)
    PROVE  LifeInv'
<1>1. /\ Life!RowsOK /\ op[o] \in Commands /\ begun \in [seeds : 0..MaxSeeds, resets : 0..MaxResets]
      /\ registry \in [Worlds -> Life!WorldRegistry \cup {Life!Unregistered}]
      /\ dbs \in [Aliases -> Life!Databases]
  BY DEF LifeInv, Life!RowsOK
<1>2. ASSUME NEW w \in Worlds, NEW t \in Life!WorldTypes, NEW a \in Aliases, Life!CreateCheck(o, w, t, a)
      PROVE  LifeInv'
  <2> DEFINE row == [type |-> t, alias |-> a, status |-> "active"]
             r == [pc |-> "create", world |-> w, row |-> row]
  <2>1. op' = [op EXCEPT ![o] = r] /\ UNCHANGED <<env, registry, dbs, files, log, begun, req>>
    BY <1>2 DEF Life!CreateCheck
  <2>2. row \in ActiveRow
    BY DEF ActiveRow, Life!WorldRegistry
  <2> HIDE DEF row
  <2>3. r \in Commands
    BY <2>2 DEF Commands, Registering
  <2> HIDE DEF r
  <2> QED
    BY <1>1, <2>1, <2>3, LifeMoves
<1>3. ASSUME NEW w \in Worlds, NEW st \in {"archived", "deleted"}, w # RealWorld, Life!Registered(w),
             registry' = [registry EXCEPT ![w].status = st], UNCHANGED <<env, dbs, files, log, begun, op, req>>
      PROVE  LifeInv'
  <2> DEFINE x == registry[w]
             row == [x EXCEPT !.status = st]
  <2>1. x \in Life!WorldRegistry
    BY <1>1, <1>3, RegisteredRow
  <2>2. registry' = [registry EXCEPT ![w] = row]
    BY <1>1, <1>3
  <2> HIDE DEF x
  <2>3. row \in Life!WorldRegistry
    BY <2>1 DEF Life!WorldRegistry
  <2> HIDE DEF row
  <2> QED
    BY <1>1, <1>3, <2>2, <2>3, LifeMoves
<1>4. ASSUME NEW w \in Worlds, Life!ArchiveWorld(o, w) \/ Life!DeleteWorld(o, w) PROVE LifeInv'
  BY <1>3, <1>4 DEF Life!ArchiveWorld, Life!DeleteWorld, Life!IsRealWorld
<1>5. ASSUME NEW w \in Worlds, Life!MigrateWorld(o, w) PROVE LifeInv'
  <2> DEFINE a == registry[w].alias
             d == [dbs[a] EXCEPT !.schema = TRUE]
  <2>1. a \in Aliases
    BY <1>1, <1>5, ActiveWorld DEF Life!MigrateWorld
  <2>2. dbs' = [dbs EXCEPT ![a] = d] /\ UNCHANGED <<env, registry, files, log, begun, op, req>>
    BY <1>1, <1>5, <2>1 DEF Life!MigrateWorld
  <2>3. d \in Life!Databases
    BY <1>1, <2>1, DatabasesKeepShape
  <2> HIDE DEF a, d
  <2> QED
    BY <1>1, <2>1, <2>2, <2>3, LifeMoves
<1>6. CASE Life!CreateCommit(o)
  <2> DEFINE w == op[o].world
             row == op[o].row
  <2>1. registry' = [registry EXCEPT ![w] = row] /\ op' = [op EXCEPT ![o] = Life!Idle] /\ op[o].pc = "create"
        /\ UNCHANGED <<env, dbs, files, log, begun, req>>
    BY <1>6 DEF Life!CreateCommit
  <2>2. w \in Worlds /\ row \in ActiveRow
    <3>1. op[o] \in Registering
      BY <1>1, <2>1, LifeKinds
    <3> QED
      BY <3>1 DEF Registering
  <2>3. row \in Life!WorldRegistry /\ row.status = "active"
    BY <2>2 DEF ActiveRow
  <2> HIDE DEF w, row
  <2> QED
    BY <1>1, <2>1, <2>2, <2>3, LifeIdle, LifeMoves
<1> QED
  BY <1>2, <1>4, <1>5, <1>6

LEMMA RequestWorldSteps ==
    ASSUME LifeInv, NEW q \in Requests,
           \/ \E w \in Worlds : Life!BindWorldContext(q, w)
           \/ Life!WriteRows(q) \/ Life!ChangeMember(q) \/ Life!EndRequest(q)
    PROVE  LifeInv'
<1>1. /\ Life!RowsOK /\ req[q] \in Contexts /\ begun \in [seeds : 0..MaxSeeds, resets : 0..MaxResets]
      /\ dbs \in [Aliases -> Life!Databases] /\ files \in [Worlds -> SUBSET Storages]
  BY DEF LifeInv, Life!RowsOK
<1>2. ASSUME NEW w \in Worlds, Life!BindWorldContext(q, w) PROVE LifeInv'
  <2> DEFINE a == registry[w].alias
             c == [pc |-> "bound", world |-> w, alias |-> a]
  <2>1. a \in Aliases
    BY <1>1, <1>2, ActiveWorld DEF Life!BindWorldContext
  <2>2. req' = [req EXCEPT ![q] = c] /\ UNCHANGED <<env, registry, dbs, files, log, begun, op>>
    BY <1>2 DEF Life!BindWorldContext
  <2> HIDE DEF a
  <2>3. c \in Contexts
    BY <2>1 DEF Contexts
  <2> HIDE DEF c
  <2> QED
    BY <1>1, <2>2, <2>3, LifeMoves
<1>3. ASSUME req[q].pc = "bound" PROVE req[q].world \in Worlds /\ req[q].alias \in Aliases
  BY <1>1, <1>3 DEF Contexts, Life!Unbound
<1>4. CASE Life!WriteRows(q)
  <2> DEFINE w == req[q].world
             a == req[q].alias
             d == [dbs[a] EXCEPT !.rows = dbs[a].rows \cup {w}]
  <2>1. PICK stored \in SUBSET Storages : files' = [files EXCEPT ![w] = files[w] \cup stored]
    BY <1>1, <1>3, <1>4 DEF Life!WriteRows
  <2>2. w \in Worlds /\ a \in Aliases /\ dbs' = [dbs EXCEPT ![a] = d]
        /\ UNCHANGED <<env, registry, log, begun, op, req>>
    BY <1>1, <1>3, <1>4 DEF Life!WriteRows
  <2>3. d \in Life!Databases
    BY <1>1, <2>2, DatabasesKeepShape
  <2> HIDE DEF w, a, d
  <2>4. files[w] \cup stored \in SUBSET Storages
    BY <1>1, <2>2
  <2> QED
    BY <1>1, <2>1, <2>2, <2>3, <2>4, LifeMoves
<1>5. CASE Life!ChangeMember(q)
  <2> DEFINE a == req[q].alias
             x == IF dbs[a].administrator = "none" THEN "taken" ELSE "suspended"
             d == [dbs[a] EXCEPT !.administrator = x]
  <2>1. a \in Aliases /\ dbs' = [dbs EXCEPT ![a] = d]
        /\ UNCHANGED <<env, registry, files, log, begun, op, req>>
    BY <1>1, <1>3, <1>5 DEF Life!ChangeMember
  <2>2. x \in {"none", "active", "suspended", "taken"}
    OBVIOUS
  <2> HIDE DEF x
  <2>3. d \in Life!Databases
    BY <1>1, <2>1, <2>2, DatabasesKeepShape
  <2> HIDE DEF a, d
  <2> QED
    BY <1>1, <2>1, <2>3, LifeMoves
<1>6. CASE Life!EndRequest(q)
  <2>1. Life!Unbound \in Contexts
    BY DEF Contexts
  <2> QED
    BY <1>1, <1>6, <2>1, LifeMoves DEF Life!EndRequest
<1> QED
  BY <1>2, <1>4, <1>5, <1>6

\* The next steps of a seed.
LEMMA SeedProgress ==
    ASSUME NEW r \in Seeding \cup Resetting, NEW s \in Seq(SeedSteps)
    PROVE  [r EXCEPT !.steps = s] \in Commands
<1>1. CASE r \in Seeding
  BY <1>1 DEF Seeding, Commands
<1>2. CASE r \in Resetting
  BY <1>2 DEF Resetting, Commands
<1> QED
  BY <1>1, <1>2

LEMMA SeedFields ==
    ASSUME NEW r \in Seeding \cup Resetting
    PROVE  r.alias \in Aliases /\ r.world \in Worlds /\ r.steps \in Seq(SeedSteps) /\ r.reset \in BOOLEAN
  BY DEF Seeding, Resetting

LEMMA SeedOperatorSteps ==
    ASSUME Life!WorldAssumption, LifeInv, NEW o \in Operators,
           \/ \E w \in Worlds : \/ \E t \in {"demo", "zero_start"} : Life!SeedWorld(o, w, t)
                                \/ Life!BootstrapWorld(o, w)
           \/ Life!SeedStep(o) \/ Life!SeedFails(o) \/ Life!SeedEnds(o)
    PROVE  LifeInv'
<1>1. /\ Life!RowsOK /\ op[o] \in Commands /\ begun \in [seeds : 0..MaxSeeds, resets : 0..MaxResets]
      /\ dbs \in [Aliases -> Life!Databases] /\ MaxSeeds \in Nat
  BY DEF LifeInv, Life!RowsOK, Life!WorldAssumption
<1>2. ASSUME NEW w \in Worlds, NEW s \in Seq(SeedSteps), begun.seeds < MaxSeeds, Life!IsActive(w),
             begun' = [begun EXCEPT !.seeds = begun.seeds + 1],
             op' = [op EXCEPT ![o] = [pc |-> "seed", world |-> w, alias |-> registry[w].alias,
                                      reset |-> FALSE, steps |-> s]],
             UNCHANGED <<env, registry, dbs, files, log, req>>
      PROVE  LifeInv'
  <2> DEFINE a == registry[w].alias
             r == [pc |-> "seed", world |-> w, alias |-> a, reset |-> FALSE, steps |-> s]
  <2>1. a \in Aliases /\ op' = [op EXCEPT ![o] = r]
    BY <1>1, <1>2, ActiveWorld
  <2> HIDE DEF a
  <2>2. r \in Commands
    BY <2>1 DEF Commands, Seeding
  <2> HIDE DEF r
  <2>3. begun' \in [seeds : 0..MaxSeeds, resets : 0..MaxResets]
    BY <1>1, <1>2
  <2> QED
    BY <1>2, <2>1, <2>2, <2>3, LifeMoves
<1>3. ASSUME NEW w \in Worlds, NEW t \in {"demo", "zero_start"}, Life!SeedWorld(o, w, t) PROVE LifeInv'
  <2>1. Life!SeedPlan(t) \in Seq(SeedSteps)
    BY SeedPlans
  <2>2. /\ begun.seeds < MaxSeeds /\ Life!IsActive(w)
        /\ begun' = [begun EXCEPT !.seeds = begun.seeds + 1]
        /\ op' = [op EXCEPT ![o] = [pc |-> "seed", world |-> w, alias |-> registry[w].alias,
                                    reset |-> FALSE, steps |-> Life!SeedPlan(t)]]
        /\ UNCHANGED <<env, registry, dbs, files, log, req>>
    BY <1>1, <1>3 DEF Life!SeedWorld, Life!MaySeed, Life!IsActiveSimulation
  <2> DEFINE s == Life!SeedPlan(t)
  <2> HIDE DEF s
  <2> QED
    BY <1>2, <2>1, <2>2 DEF s
<1>4. ASSUME NEW w \in Worlds, Life!BootstrapWorld(o, w) PROVE LifeInv'
  <2> DEFINE s == <<"administrator">>
  <2>1. s \in Seq(SeedSteps)
    BY DEF SeedSteps
  <2>2. /\ begun.seeds < MaxSeeds /\ Life!IsActive(w)
        /\ begun' = [begun EXCEPT !.seeds = begun.seeds + 1]
        /\ op' = [op EXCEPT ![o] = [pc |-> "seed", world |-> w, alias |-> registry[w].alias,
                                    reset |-> FALSE, steps |-> s]]
        /\ UNCHANGED <<env, registry, dbs, files, log, req>>
    BY <1>1, <1>4 DEF Life!BootstrapWorld
  <2> HIDE DEF s
  <2> QED
    BY <1>2, <2>1, <2>2
<1>5. ASSUME op[o].pc = "seed" PROVE op[o] \in Seeding \cup Resetting
  BY <1>1, <1>5, LifeKinds
<1>6. CASE Life!SeedStep(o)
  <2> DEFINE r == op[o]
             s == r.steps
             a == Life!SeedTarget(o)
             d == Life!SeedInto(dbs[a], Head(s))
             n == [r EXCEPT !.steps = Tail(s)]
  <2>1. r.pc = "seed" /\ s # <<>> /\ Life!StepPossible(o) /\ UNCHANGED <<env, registry, files, log, begun, req>>
    BY <1>6 DEF Life!SeedStep
  <2>2. r \in Seeding \cup Resetting /\ s \in Seq(SeedSteps)
    BY <1>5, <2>1, SeedFields
  <2>3. Head(s) \in SeedSteps /\ Tail(s) \in Seq(SeedSteps)
    BY <2>1, <2>2
  <2>4. a \in Aliases
    BY <1>1, <2>1, <2>2, <2>3, SeedFields, ActiveWorld DEF Life!SeedTarget, Life!StepPossible
  <2>5. dbs' = [dbs EXCEPT ![a] = d] /\ op' = [op EXCEPT ![o] = n]
    BY <1>1, <1>6, <2>4 DEF Life!SeedStep, LifeInv
  <2>6. d \in Life!Databases /\ n \in Commands
    BY <1>1, <2>2, <2>3, <2>4, DatabasesKeepShape, SeedProgress
  <2> HIDE DEF a, d, n
  <2> QED
    BY <1>1, <2>1, <2>4, <2>5, <2>6, LifeMoves
<1>7. CASE Life!SeedFails(o)
  <2>1. PICK error : Life!Fail(o, error, {})
    BY <1>7 DEF Life!SeedFails
  <2>2. op[o].pc = "seed" /\ UNCHANGED <<env, registry, dbs, files, begun, req>>
    BY <1>7 DEF Life!SeedFails
  <2> QED
    BY <1>1, <2>1, <2>2, LifeFails, LifeMoves
<1>8. CASE Life!SeedEnds(o)
  <2> DEFINE r == op[o]
             n == IF r.reset THEN [r EXCEPT !.pc = "count"] ELSE Life!Idle
  <2>1. r.pc = "seed" /\ op' = [op EXCEPT ![o] = n] /\ UNCHANGED <<env, registry, dbs, files, log, begun, req>>
    BY <1>8 DEF Life!SeedEnds, LifeInv
  <2>2. n \in Commands
    <3>1. r \in Seeding \cup Resetting
      BY <1>5, <2>1
    <3>2. CASE r \in Seeding
      <4>1. ~r.reset
        BY <3>2 DEF Seeding
      <4> QED
        BY <4>1, LifeIdle
    <3>3. CASE r \in Resetting
      <4>1. r.reset /\ [r EXCEPT !.pc = "count"] \in Resetting
        BY <3>3 DEF Resetting
      <4> QED
        BY <4>1 DEF Commands
    <3> QED
      BY <3>1, <3>2, <3>3
  <2> HIDE DEF n
  <2> QED
    BY <1>1, <2>1, <2>2, LifeMoves
<1> QED
  BY <1>3, <1>4, <1>6, <1>7, <1>8

\* A reset goes on.
LEMMA ResetProgress ==
    ASSUME NEW r \in Resetting
    PROVE  /\ \A pc \in {"clean", "flush", "restore", "reseed", "count"} : [r EXCEPT !.pc = pc] \in Commands
           /\ \A s : \A pc \in {"clean", "flush"} : [r EXCEPT !.storages = r.storages \ {s}, !.pc = pc] \in Commands
           /\ \A a \in Aliases, s \in Seq(SeedSteps) :
                 [r EXCEPT !.pc = "seed", !.alias = a, !.steps = s] \in Commands
           /\ r.world \in Worlds /\ r.alias \in Aliases /\ r.row \in ActiveRow /\ r.reset = TRUE
           /\ r.row.alias \in Aliases
  BY DEF Resetting, Commands, ActiveRow, Life!WorldRegistry

LEMMA ResetSteps ==
    ASSUME Life!WorldAssumption, LifeInv, NEW o \in Operators,
           \/ \E w \in Worlds : Life!ResetBegin(o, w)
           \/ Life!CleanStorage(o) \/ Life!CleanFails(o) \/ Life!Flush(o) \/ Life!FlushFails(o)
           \/ Life!RestoreRegistry(o) \/ Life!Reseed(o) \/ Life!ReseedRefused(o)
           \/ Life!CountAfter(o) \/ Life!FinishReset(o) \/ Life!RebuildFails(o) \/ Life!Die(o)
    PROVE  LifeInv'
<1> DEFINE r == op[o]
<1>1. /\ Life!RowsOK /\ r \in Commands /\ begun \in [seeds : 0..MaxSeeds, resets : 0..MaxResets]
      /\ dbs \in [Aliases -> Life!Databases] /\ MaxResets \in Nat /\ op \in [Operators -> Commands]
      /\ files \in [Worlds -> SUBSET Storages] /\ {} \in SUBSET SeedSteps
      /\ registry \in [Worlds -> Life!WorldRegistry \cup {Life!Unregistered}]
  BY DEF LifeInv, Life!RowsOK, Life!WorldAssumption
<1>2. ASSUME r.pc \in {"clean", "flush", "restore", "reseed", "count"} PROVE r \in Resetting
  BY <1>1, <1>2, LifeKinds
<1>3. ASSUME NEW w \in Worlds, Life!ResetBegin(o, w) PROVE LifeInv'
  <2> DEFINE row == registry[w]
             n == [pc |-> "clean", world |-> w, alias |-> row.alias, row |-> row, reset |-> TRUE,
                   storages |-> Storages, steps |-> <<>>]
  <2>1. begun.resets < MaxResets /\ Life!IsActive(w) /\ begun' = [begun EXCEPT !.resets = begun.resets + 1]
        /\ op' = [op EXCEPT ![o] = n] /\ UNCHANGED <<env, registry, dbs, files, log, req>>
    BY <1>1, <1>3 DEF Life!ResetBegin, Life!IsActiveSimulation
  <2>2. row \in ActiveRow /\ row.alias \in Aliases
    BY <1>1, <2>1, ActiveWorld
  <2> HIDE DEF row
  <2>3. n \in Commands
    BY <2>2 DEF Commands, Resetting
  <2> HIDE DEF n
  <2>4. begun' \in [seeds : 0..MaxSeeds, resets : 0..MaxResets]
    BY <1>1, <2>1
  <2> QED
    BY <2>1, <2>3, <2>4, LifeMoves
<1>4. CASE Life!CleanStorage(o)
  <2>1. PICK s : /\ files' = [files EXCEPT ![r.world] = files[r.world] \ {s}]
                 /\ op' = [op EXCEPT ![o].storages = r.storages \ {s},
                                     ![o].pc = IF r.storages = {s} THEN "flush" ELSE "clean"]
    BY <1>4 DEF Life!CleanStorage
  <2>2. r.pc = "clean" /\ UNCHANGED <<env, registry, dbs, log, begun, req>>
    BY <1>4 DEF Life!CleanStorage
  <2> DEFINE pc == IF r.storages = {s} THEN "flush" ELSE "clean"
             n == [r EXCEPT !.storages = r.storages \ {s}, !.pc = pc]
             w == r.world
             kept == files[w] \ {s}
  <2>3. pc \in {"clean", "flush"} /\ r \in Resetting
    BY <1>2, <2>2
  <2>4. op' = [op EXCEPT ![o] = n]
    BY <1>1, <2>1
  <2> HIDE DEF pc
  <2>5. n \in Commands /\ w \in Worlds
    BY <2>3, ResetProgress
  <2>6. kept \in SUBSET Storages /\ files' = [files EXCEPT ![w] = kept]
    BY <1>1, <2>1, <2>5
  <2> HIDE DEF n, w, kept
  <2> QED
    BY <1>1, <2>2, <2>4, <2>5, <2>6, LifeMoves
<1>5. CASE Life!CleanFails(o) \/ Life!ReseedRefused(o)
  <2>1. Life!Fail(o, "CommandError", {}) /\ r.pc \in {"clean", "reseed"}
        /\ UNCHANGED <<env, registry, dbs, files, begun, req>>
    BY <1>5 DEF Life!CleanFails, Life!ReseedRefused
  <2> QED
    BY <1>1, <2>1, LifeFails, LifeMoves
<1>6. CASE Life!Flush(o) \/ Life!FlushFails(o)
  <2> DEFINE a == r.alias
             d == Life!Flushed(dbs[a])
             n == [r EXCEPT !.pc = "restore"]
  <2>1. r.pc = "flush" /\ UNCHANGED <<env, registry, files, begun, req>>
    BY <1>6 DEF Life!Flush, Life!FlushFails
  <2>2. r \in Resetting
    BY <1>2, <2>1
  <2>3. a \in Aliases /\ n \in Commands
    BY <2>2, ResetProgress
  <2>4. d \in Life!Databases
    BY <1>1, <2>3, DatabasesKeepShape
  <2>5. dbs' = dbs \/ dbs' = [dbs EXCEPT ![a] = d]
    BY <1>1, <1>6, <2>3 DEF Life!Flush, Life!FlushFails
  <2>6. \/ op' = [op EXCEPT ![o] = n] /\ log' = log
        \/ Life!Fail(o, "CommandError", {})
    BY <1>1, <1>6 DEF Life!Flush, Life!FlushFails
  <2> HIDE DEF a, d, n
  <2>7. CASE op' = [op EXCEPT ![o] = n] /\ log' = log
    BY <1>1, <2>1, <2>3, <2>4, <2>5, <2>7, LifeMoves
  <2>8. CASE Life!Fail(o, "CommandError", {})
    BY <1>1, <2>1, <2>3, <2>4, <2>5, <2>8, LifeFails, LifeMoves
  <2> QED
    BY <2>6, <2>7, <2>8
<1>7. CASE Life!RestoreRegistry(o)
  <2> DEFINE w == r.world
             row == r.row
             n == [r EXCEPT !.pc = "reseed"]
  <2>1. r.pc = "restore" /\ registry' = [registry EXCEPT ![w] = row] /\ op' = [op EXCEPT ![o] = n]
        /\ UNCHANGED <<env, dbs, files, log, begun, req>>
    BY <1>1, <1>7 DEF Life!RestoreRegistry
  <2>2. r \in Resetting
    BY <1>2, <2>1
  <2>3. w \in Worlds /\ row \in ActiveRow /\ n \in Commands
    BY <2>2, ResetProgress
  <2>4. row \in Life!WorldRegistry /\ row.status = "active"
    BY <2>3 DEF ActiveRow
  <2> HIDE DEF w, row, n
  <2> QED
    BY <1>1, <2>1, <2>3, <2>4, LifeMoves
<1>8. CASE Life!Reseed(o)
  <2> DEFINE a == registry[r.world].alias
             s == Life!SeedPlan("zero_start")
             n == [r EXCEPT !.pc = "seed", !.alias = a, !.steps = s]
  <2>1. r.pc = "reseed" /\ Life!IsActive(r.world) /\ op' = [op EXCEPT ![o] = n]
        /\ UNCHANGED <<env, registry, dbs, files, log, begun, req>>
    BY <1>1, <1>8 DEF Life!Reseed, Life!MaySeed, Life!IsActiveSimulation
  <2>2. r \in Resetting
    BY <1>2, <2>1
  <2>3. a \in Aliases /\ s \in Seq(SeedSteps)
    BY <1>1, <2>1, <2>2, ResetProgress, ActiveWorld, SeedPlans
  <2> HIDE DEF a, s
  <2>4. n \in Commands
    BY <2>2, <2>3, ResetProgress
  <2> HIDE DEF n
  <2> QED
    BY <1>1, <2>1, <2>4, LifeMoves
<1>9. CASE Life!CountAfter(o)
  <2> DEFINE after == Life!CountRows(dbs[r.row.alias])
             n == [pc |-> "tuples", world |-> r.world, reset |-> TRUE, after |-> after]
  <2>1. r.pc = "count" /\ op' = [op EXCEPT ![o] = n] /\ UNCHANGED <<env, registry, dbs, files, log, begun, req>>
    BY <1>1, <1>9 DEF Life!CountAfter
  <2>2. r \in Resetting
    BY <1>2, <2>1
  <2>3. r.world \in Worlds /\ after \subseteq SeedSteps
    BY <1>1, <2>2, ResetProgress, DatabasesKeepShape
  <2> HIDE DEF after
  <2>4. n \in Commands
    BY <2>3 DEF Commands, Rebuilding
  <2> HIDE DEF n
  <2> QED
    BY <1>1, <2>1, <2>4, LifeMoves
<1>10. ASSUME r.pc = "tuples" PROVE r.world \in Worlds /\ r.after \in SUBSET SeedSteps
  <2>1. r \in Rebuilding
    BY <1>1, <1>10, LifeKinds
  <2> QED
    BY <2>1 DEF Rebuilding
<1>11. CASE Life!FinishReset(o)
  <2> DEFINE entry == [world |-> r.world, status |-> "succeeded", after |-> r.after]
  <2>1. r.pc = "tuples" /\ log' = Append(log, entry) /\ op' = [op EXCEPT ![o] = Life!Idle]
        /\ UNCHANGED <<env, registry, dbs, files, begun, req>>
    BY <1>11 DEF Life!FinishReset
  <2>2. entry \in Life!WorldMaintenanceLog
    BY <1>10, <2>1 DEF Life!WorldMaintenanceLog, SeedSteps
  <2> HIDE DEF entry
  <2> QED
    BY <1>1, <2>1, <2>2, LifeIdle, LifeMoves
<1>12. CASE Life!RebuildFails(o)
  <2>1. Life!Fail(o, "CommandError", r.after) /\ r.pc = "tuples" /\ UNCHANGED <<env, registry, dbs, files, begun, req>>
    BY <1>12 DEF Life!RebuildFails
  <2> QED
    BY <1>1, <1>10, <2>1, LifeFails, LifeMoves
<1>13. CASE Life!Die(o)
  BY <1>1, <1>13, LifeIdle, LifeMoves DEF Life!Die
<1> QED
  BY <1>3, <1>4, <1>5, <1>6, <1>7, <1>8, <1>9, <1>11, <1>12, <1>13

LEMMA LifeInit ==
    ASSUME Life!WorldAssumption, Life!Init
    PROVE  LifeInv
<1>1. PICK a \in Aliases :
        registry = [w \in Worlds |-> IF w = RealWorld
                                     THEN [type |-> "real", alias |-> a, status |-> "active"]
                                     ELSE Life!Unregistered]
  BY DEF Life!Init
<1>2. /\ registry \in [Worlds -> Life!WorldRegistry \cup {Life!Unregistered}]
      /\ Life!RealWorldOpen
  BY <1>1 DEF Life!WorldAssumption, Life!WorldRegistry, Life!WorldTypes, Life!RealWorldOpen, Life!IsActive
<1>3. /\ dbs \in [Aliases -> Life!Databases]
      /\ files \in [Worlds -> SUBSET Storages]
      /\ log \in Seq(Life!WorldMaintenanceLog)
  BY DEF Life!Init, Life!Databases, Life!Baseline
<1>4. begun \in [seeds : 0..MaxSeeds, resets : 0..MaxResets]
  BY DEF Life!Init, Life!WorldAssumption
<1>5. op \in [Operators -> Commands] /\ req \in [Requests -> Contexts]
  BY LifeIdle DEF Life!Init, Contexts
<1> QED
  BY <1>2, <1>3, <1>4, <1>5 DEF LifeInv, Life!RowsOK

\* What surrounds the worlds is settled from the start.
LEMMA SurroundingsStay == ASSUME [Life!Next]_(Life!vars) PROVE env' = env
<1>1. ASSUME NEW o, NEW w,
             \/ \E t \in Life!WorldTypes, a \in Aliases : Life!CreateCheck(o, w, t, a)
             \/ Life!ArchiveWorld(o, w) \/ Life!DeleteWorld(o, w) \/ Life!MigrateWorld(o, w)
             \/ \E template \in {"demo", "zero_start"} : Life!SeedWorld(o, w, template)
             \/ Life!BootstrapWorld(o, w) \/ Life!ResetBegin(o, w)
      PROVE  env' = env
  BY <1>1 DEF Life!CreateCheck, Life!ArchiveWorld, Life!DeleteWorld, Life!MigrateWorld, Life!SeedWorld,
     Life!BootstrapWorld, Life!ResetBegin
<1>2. ASSUME NEW o,
             \/ Life!CreateCommit(o) \/ Life!SeedStep(o) \/ Life!SeedFails(o) \/ Life!SeedEnds(o)
             \/ Life!CleanStorage(o) \/ Life!CleanFails(o) \/ Life!Flush(o) \/ Life!FlushFails(o)
             \/ Life!RestoreRegistry(o) \/ Life!Reseed(o) \/ Life!ReseedRefused(o)
             \/ Life!CountAfter(o) \/ Life!FinishReset(o) \/ Life!RebuildFails(o) \/ Life!Die(o)
      PROVE  env' = env
  BY <1>2 DEF Life!CreateCommit, Life!SeedStep, Life!SeedFails, Life!SeedEnds, Life!CleanStorage,
     Life!CleanFails, Life!Flush, Life!FlushFails, Life!RestoreRegistry, Life!Reseed, Life!ReseedRefused,
     Life!CountAfter, Life!FinishReset, Life!RebuildFails, Life!Die
<1>3. ASSUME NEW q, \/ \E w \in Worlds : Life!BindWorldContext(q, w)
                   \/ Life!WriteRows(q) \/ Life!ChangeMember(q) \/ Life!EndRequest(q)
      PROVE  env' = env
  BY <1>3 DEF Life!BindWorldContext, Life!WriteRows, Life!ChangeMember, Life!EndRequest
<1>4. CASE UNCHANGED Life!vars
  BY <1>4 DEF Life!vars
<1> QED
  BY <1>1, <1>2, <1>3, <1>4, Zenon DEF Life!Next

LEMMA LifeStep ==
    ASSUME Life!WorldAssumption, EnvOK, LifeInv, [Life!Next]_(Life!vars)
    PROVE  LifeInv'
<1> env.staff \subseteq Operators
  BY DEF EnvOK, Life!Surroundings
<1>1. CASE Life!Next
  BY <1>1, RegistrySteps, RequestWorldSteps, SeedOperatorSteps, ResetSteps, Zenon DEF Life!Next
<1>2. CASE UNCHANGED Life!vars
  BY <1>2 DEF Life!vars, LifeInv, Life!RowsOK, Life!RealWorldOpen, Life!IsActive, Life!WorldRegistry,
     Life!Unregistered, Life!Databases, Life!WorldMaintenanceLog, Life!WorldTypes, Life!Baseline
<1> QED
  BY <1>1, <1>2

LEMMA LifeAlways == Life!WorldAssumption => (Life!Spec => [](EnvOK /\ LifeInv))
<1> SUFFICES ASSUME Life!WorldAssumption
             PROVE  Life!Spec => [](EnvOK /\ LifeInv)
  OBVIOUS
<1>1. Life!Init => EnvOK /\ LifeInv
  BY LifeInit DEF Life!Init, EnvOK
<1>2. EnvOK /\ LifeInv /\ [Life!Next]_(Life!vars)
        => (EnvOK /\ LifeInv)'
  <2> SUFFICES ASSUME EnvOK, LifeInv, [Life!Next]_(Life!vars)
               PROVE  EnvOK' /\ LifeInv'
    OBVIOUS
  <2> QED
    BY LifeStep, SurroundingsStay DEF EnvOK, Life!Surroundings
<1> QED
  BY <1>1, <1>2, PTL DEF Life!Spec

\* Whatever the commands and requests do to each other, with or without crashes, registry
\* rows, databases, runtime objects and maintenance logs keep their shape.
THEOREM WorldsTyped == Life!WorldAssumption => (Life!Spec => []Life!TypeOK)
<1> SUFFICES ASSUME Life!WorldAssumption PROVE Life!Spec => []Life!TypeOK
  OBVIOUS
<1>1. EnvOK /\ LifeInv => Life!TypeOK
  BY DEF EnvOK, LifeInv, Life!TypeOK
<1> QED
  BY <1>1, LifeAlways, PTL

\* Any number of racing commands, a reset that restores a row it read long ago among them,
\* leave the real world active, under whatever type it is registered (ensure_not_realworld).
THEOREM RealWorldStaysOpen == Life!WorldAssumption => (Life!Spec => []Life!RealWorldOpen)
<1> SUFFICES ASSUME Life!WorldAssumption PROVE Life!Spec => []Life!RealWorldOpen
  OBVIOUS
<1>1. LifeInv => Life!RealWorldOpen
  BY DEF LifeInv
<1> QED
  BY <1>1, LifeAlways, PTL

-----------------------------------------------------------------------------
(* One command at a time.  Nothing makes an operator wait for another; with one *)
(* operator, and any requests and crashes, the registry keeps databases apart   *)
(* and a reset that succeeds has rebuilt a whole baseline.                      *)

Ahead(s) == {s[i] : i \in 1..Len(s)}

\* What a succeeded reset counted.
Whole(parts) ==
    /\ {"plan", "exam"} \subseteq parts
    /\ env.administrator = "on" => {"administrator", "policy"} \subseteq parts

\* What a command still relies on.
CommandSound(r) ==
    /\ r.pc = "create" => Life!AliasOwners(r.world, r.row.alias) = {} /\ r.row.type \in Life!TypesFor(r.world)
    /\ r \in Resetting => /\ registry[r.world] = r.row /\ r.alias = r.row.alias
                          /\ r.row.type = "simulation"
    /\ r \in Resetting /\ r.pc \in {"seed", "count"} =>
          Whole(Life!CountRows(dbs[r.alias]) \cup Ahead(r.steps))
    /\ r \in Resetting /\ r.pc = "count" => r.steps = <<>>
    /\ r.pc = "tuples" => Whole(r.after)

SoloInv == /\ LifeInv /\ Life!AliasOwnedOnce /\ Life!SucceededIsBaseline
           /\ registry[RealWorld].type \in Life!TypesFor(RealWorld)
           /\ \A o \in env.staff : CommandSound(op[o])

LEMMA SoundIdle == CommandSound(Life!Idle)
<1>1. Life!Idle.pc = "idle"
  BY LifeIdle
<1>2. Life!Idle \notin Resetting
  BY <1>1 DEF Resetting
<1> QED
  BY <1>1, <1>2 DEF CommandSound

LEMMA PendingParts ==
    ASSUME NEW S, NEW f \in Seq(S), NEW g \in Seq(S)
    PROVE  Ahead(f) \subseteq Ahead(f \o g) /\ Ahead(g) \subseteq Ahead(f \o g)
<1>1. ASSUME NEW i \in 1..Len(f) PROVE f[i] \in Ahead(f \o g)
  <2>1. i \in 1..Len(f \o g) /\ (f \o g)[i] = f[i]
    OBVIOUS
  <2> QED
    BY <2>1 DEF Ahead
<1>2. ASSUME NEW i \in 1..Len(g) PROVE g[i] \in Ahead(f \o g)
  <2>1. Len(f) + i \in 1..Len(f \o g) /\ (f \o g)[Len(f) + i] = g[i]
    OBVIOUS
  <2> QED
    BY <2>1 DEF Ahead
<1> QED
  BY <1>1, <1>2 DEF Ahead

LEMMA PendingOne == \A x : Ahead(<<x>>) = {x}
  BY DEF Ahead

LEMMA PendingTail ==
    ASSUME NEW S, NEW s \in Seq(S), s # <<>>
    PROVE  Ahead(s) \subseteq {Head(s)} \cup Ahead(Tail(s))
<1>1. ASSUME NEW i \in 1..Len(s), i # 1 PROVE s[i] \in Ahead(Tail(s))
  <2>1. i - 1 \in 1..Len(Tail(s)) /\ Tail(s)[i - 1] = s[i]
    BY <1>1
  <2> QED
    BY <2>1 DEF Ahead
<1>2. s[1] = Head(s)
  OBVIOUS
<1> QED
  BY <1>1, <1>2 DEF Ahead

\* A zero-start seed has a whole baseline ahead of it.
LEMMA PlanIsWhole == Whole(Ahead(Life!SeedPlan("zero_start")))
<1> DEFINE admin == IF env.administrator = "on" THEN <<"administrator">> ELSE <<>>
           policy == IF env.administrator = "on" THEN <<"policy">> ELSE <<>>
           plan == <<"plan">>
           exam == <<"exam">>
<1>1. /\ admin \in Seq(SeedSteps) /\ policy \in Seq(SeedSteps)
      /\ plan \in Seq(SeedSteps) /\ exam \in Seq(SeedSteps)
  <2>1. \A step \in SeedSteps : <<step>> \in Seq(SeedSteps)
    OBVIOUS
  <2>2. {"administrator", "policy", "plan", "exam"} \subseteq SeedSteps
    BY DEF SeedSteps, Life!Baseline
  <2>3. admin \in Seq(SeedSteps) /\ policy \in Seq(SeedSteps)
    BY <2>1, <2>2
  <2>4. plan \in Seq(SeedSteps) /\ exam \in Seq(SeedSteps)
    BY <2>1, <2>2
  <2> QED
    BY <2>3, <2>4
<1>2. Life!SeedPlan("zero_start") = admin \o plan \o policy \o exam
  BY DEF Life!SeedPlan
<1>3. /\ Ahead(plan) = {"plan"} /\ Ahead(exam) = {"exam"}
      /\ env.administrator = "on" => Ahead(admin) = {"administrator"} /\ Ahead(policy) = {"policy"}
  BY PendingOne
<1> HIDE DEF admin, policy, plan, exam
<1>4. \A f, g \in Seq(SeedSteps) : f \o g \in Seq(SeedSteps)
  OBVIOUS
<1>5. admin \o plan \in Seq(SeedSteps) /\ admin \o plan \o policy \in Seq(SeedSteps)
  BY <1>1, <1>4
<1>6. Ahead(admin) \cup Ahead(plan) \subseteq Ahead(admin \o plan)
  BY <1>1, PendingParts
<1>7. Ahead(admin \o plan) \cup Ahead(policy) \subseteq Ahead(admin \o plan \o policy)
  BY <1>1, <1>5, PendingParts
<1>8. Ahead(admin \o plan \o policy) \cup Ahead(exam) \subseteq Ahead(Life!SeedPlan("zero_start"))
  BY <1>1, <1>2, <1>5, PendingParts
<1> HIDE DEF Ahead
<1> QED
  BY <1>3, <1>6, <1>7, <1>8 DEF Whole

\* What a step of a seed and what a request add to what is counted.
LEMMA CountsGrow ==
    ASSUME NEW d \in Life!Databases
    PROVE  /\ \A step \in SeedSteps : Life!CountRows(d) \cup {step} \subseteq Life!CountRows(Life!SeedInto(d, step))
           /\ \A R : Life!CountRows([d EXCEPT !.rows = R]) = Life!CountRows(d)
           /\ \A x : x # "none" => Life!CountRows(d) \subseteq Life!CountRows([d EXCEPT !.administrator = x])
<1>1. \A step \in SeedSteps : Life!CountRows(d) \cup {step} \subseteq Life!CountRows(Life!SeedInto(d, step))
  BY DEF Life!Databases, Life!SeedInto, Life!CountRows, SeedSteps, Life!Baseline
<1>2. \A R : Life!CountRows([d EXCEPT !.rows = R]) = Life!CountRows(d)
  BY DEF Life!Databases, Life!CountRows
<1>3. \A x : x # "none" => Life!CountRows(d) \subseteq Life!CountRows([d EXCEPT !.administrator = x])
  BY DEF Life!Databases, Life!CountRows
<1> QED
  BY <1>1, <1>2, <1>3

\* A step of the one command there is keeps the rest of the invariant.
LEMMA SoloMoves ==
    ASSUME Life!WorldAssumption, Life!OneOperator, SoloInv, LifeInv', NEW o \in Operators, o \in env.staff,
           env' = env,
           registry' = registry \/ (Life!AliasOwnedOnce /\ registry[RealWorld].type \in Life!TypesFor(RealWorld))',
           \/ log' = log
           \/ \E entry \in Life!WorldMaintenanceLog :
                 log' = Append(log, entry) /\ (entry.status = "succeeded" => Whole(entry.after)),
           CommandSound(op[o])'
    PROVE  SoloInv'
<1>1. (Life!AliasOwnedOnce /\ registry[RealWorld].type \in Life!TypesFor(RealWorld))'
  <2>1. CASE registry' = registry
    BY <2>1 DEF SoloInv, Life!AliasOwnedOnce, Life!Registered, Life!Unregistered, Life!TypesFor, Life!WorldTypes
  <2> QED
    BY <2>1
<1>2. Life!SucceededIsBaseline'
  <2>1. CASE log' = log
    BY <2>1 DEF SoloInv, Life!SucceededIsBaseline
  <2>2. ASSUME NEW entry \in Life!WorldMaintenanceLog, log' = Append(log, entry),
               entry.status = "succeeded" => Whole(entry.after)
        PROVE  Life!SucceededIsBaseline'
    <3>1. log \in Seq(Life!WorldMaintenanceLog)
      BY DEF SoloInv, LifeInv, Life!RowsOK
    <3>2. Len(log') = Len(log) + 1 /\ log'[Len(log) + 1] = entry
          /\ \A i \in 1..Len(log) : log'[i] = log[i]
      BY <2>2, <3>1
    <3> SUFFICES ASSUME NEW i \in 1..Len(log'), log'[i].status = "succeeded"
                 PROVE  /\ {"plan", "exam"} \subseteq log'[i].after
                        /\ env'.administrator = "on" => {"administrator", "policy"} \subseteq log'[i].after
      BY DEF Life!SucceededIsBaseline
    <3>3. CASE i = Len(log) + 1
      BY <2>2, <3>2, <3>3 DEF Whole
    <3>4. CASE i \in 1..Len(log)
      BY <3>2, <3>4 DEF SoloInv, Life!SucceededIsBaseline
    <3>5. i = Len(log) + 1 \/ i \in 1..Len(log)
      BY <3>1, <3>2
    <3> QED
      BY <3>3, <3>4, <3>5
  <2> QED
    BY <2>1, <2>2
<1>3. (\A p \in env.staff : CommandSound(op[p]))'
  <2> SUFFICES ASSUME NEW p \in env.staff PROVE CommandSound(op[p])'
    OBVIOUS
  <2>1. p = o
    BY DEF Life!OneOperator
  <2> QED
    BY <2>1
<1> QED
  BY <1>1, <1>2, <1>3 DEF SoloInv

\* A command that ended.
LEMMA SoloEnds ==
    ASSUME NEW o \in Operators, op'[o].pc = "idle"
    PROVE  CommandSound(op[o])'
<1>1. op'[o] \notin Resetting
  BY DEF Resetting
<1> QED
  BY <1>1 DEF CommandSound, Resetting, ActiveRow, SeedSteps, Life!WorldRegistry, Life!WorldTypes, Life!Baseline

\* A command that failed: its log entry, if any, is of a failure.
LEMMA SoloFails ==
    ASSUME Life!WorldAssumption, Life!OneOperator, SoloInv, LifeInv', NEW o \in Operators, o \in env.staff, NEW error,
           NEW after \in SUBSET SeedSteps, op[o].pc # "create", op[o].pc # "idle",
           Life!Fail(o, error, after), env' = env, registry' = registry
    PROVE  SoloInv'
<1>1. LifeInv
  BY DEF SoloInv
<1>2. op[o].world \in Worlds
  <2>1. op[o] \in Commands
    BY <1>1 DEF LifeInv
  <2>2. op[o] \in Seeding \cup Resetting \cup Rebuilding
    BY <2>1, LifeKinds
  <2> QED
    BY <2>2 DEF Seeding, Resetting, Rebuilding
<1> DEFINE entry == [world |-> op[o].world, status |-> "failed", after |-> after]
<1>3. entry \in Life!WorldMaintenanceLog /\ entry.status # "succeeded"
  BY <1>2 DEF Life!WorldMaintenanceLog, SeedSteps
<1>4. op'[o].pc = "idle" /\ (log' = log \/ log' = Append(log, entry))
  <2>1. op \in [Operators -> Commands]
    BY <1>1 DEF LifeInv
  <2> QED
    BY <2>1 DEF Life!Fail, Life!Idle
<1>5. CommandSound(op[o])'
  BY <1>4, SoloEnds
<1> HIDE DEF entry
<1> QED
  BY <1>3, <1>4, <1>5, SoloMoves

LEMMA SoloRegistry ==
    ASSUME Life!WorldAssumption, Life!OneOperator, SoloInv, LifeInv', NEW o \in Operators, o \in env.staff,
           \/ \E w \in Worlds : \/ \E t \in Life!WorldTypes, a \in Aliases : Life!CreateCheck(o, w, t, a)
                                \/ Life!ArchiveWorld(o, w) \/ Life!DeleteWorld(o, w) \/ Life!MigrateWorld(o, w)
           \/ Life!CreateCommit(o)
    PROVE  SoloInv'
<1>1. /\ Life!RowsOK /\ op[o] \in Commands /\ op \in [Operators -> Commands]
      /\ registry \in [Worlds -> Life!WorldRegistry \cup {Life!Unregistered}]
      /\ Life!AliasOwnedOnce /\ registry[RealWorld].type \in Life!TypesFor(RealWorld)
      /\ CommandSound(op[o]) /\ RealWorld \in Worlds /\ registry[RealWorld].status = "active"
  BY DEF SoloInv, LifeInv, Life!RowsOK, Life!WorldAssumption, Life!RealWorldOpen, Life!IsActive
<1>2. ASSUME NEW w \in Worlds, NEW t \in Life!WorldTypes, NEW a \in Aliases, Life!CreateCheck(o, w, t, a)
      PROVE  SoloInv'
  <2>1. /\ op'[o] = [pc |-> "create", world |-> w, row |-> [type |-> t, alias |-> a, status |-> "active"]]
        /\ Life!AliasOwners(w, a) = {} /\ t \in Life!TypesFor(w)
        /\ UNCHANGED <<env, registry, dbs, files, log, begun, req>>
    BY <1>1, <1>2 DEF Life!CreateCheck
  <2>2. op'[o] \notin Resetting /\ op'[o].pc = "create" /\ op'[o].world = w /\ op'[o].row.type = t /\ op'[o].row.alias = a
    <3> DEFINE row == [type |-> t, alias |-> a, status |-> "active"]
    <3>1. row.type = t /\ row.alias = a
      OBVIOUS
    <3> HIDE DEF row
    <3>2. op'[o] = [pc |-> "create", world |-> w, row |-> row]
      BY <2>1 DEF row
    <3>3. op'[o].pc = "create" /\ op'[o].world = w /\ op'[o].row = row
      BY <3>2
    <3>4. op'[o] \notin Resetting
      BY <3>3 DEF Resetting
    <3> QED
      BY <3>1, <3>3, <3>4
  <2>3. Life!AliasOwners(w, a)' = {} /\ Life!TypesFor(w)' = Life!TypesFor(w)
    BY <2>1 DEF Life!AliasOwners, Life!Registered, Life!Unregistered, Life!TypesFor, Life!WorldTypes
  <2>4. CommandSound(op[o])'
    BY <2>1, <2>2, <2>3 DEF CommandSound, Resetting, ActiveRow, SeedSteps, Life!WorldRegistry, Life!WorldTypes,
       Life!Baseline, Life!AliasOwners, Life!Registered, Life!Unregistered, Life!TypesFor
  <2> QED
    BY <2>1, <2>4, SoloMoves
<1>3. ASSUME NEW w \in Worlds, NEW st \in {"archived", "deleted"}, w # RealWorld, Life!Registered(w),
             registry[w].status \in {"active", "archived"}, registry[w].status # st,
             registry' = [registry EXCEPT ![w].status = st], op[o] = Life!Idle,
             UNCHANGED <<env, dbs, files, log, begun, op, req>>
      PROVE  SoloInv'
  <2>1. registry[w] \in Life!WorldRegistry
    BY <1>1, <1>3, RegisteredRow
  <2>2. /\ registry'[w] = [registry[w] EXCEPT !.status = st]
        /\ \A v \in Worlds \ {w} : registry'[v] = registry[v]
    BY <1>1, <1>3
  <2>3. registry'[w].alias = registry[w].alias /\ registry'[w].status = st
    BY <2>1, <2>2 DEF Life!WorldRegistry
  <2>4. Life!AliasOwnedOnce'
    BY <1>1, <1>3, <2>2, <2>3 DEF Life!AliasOwnedOnce, Life!Registered, Life!Unregistered
  <2>5. (registry[RealWorld].type \in Life!TypesFor(RealWorld))'
    BY <1>1, <1>3, <2>2 DEF Life!TypesFor, Life!WorldTypes
  <2>6. CommandSound(op[o])'
    BY <1>3, LifeIdle, SoloEnds
  <2> QED
    BY <1>3, <2>4, <2>5, <2>6, SoloMoves
<1>4. ASSUME NEW w \in Worlds, Life!ArchiveWorld(o, w) \/ Life!DeleteWorld(o, w) PROVE SoloInv'
  BY <1>3, <1>4 DEF Life!ArchiveWorld, Life!DeleteWorld, Life!IsRealWorld
<1>5. ASSUME NEW w \in Worlds, Life!MigrateWorld(o, w) PROVE SoloInv'
  <2>1. op'[o].pc = "idle" /\ UNCHANGED <<env, registry, files, log, begun, op, req>>
    BY <1>5, LifeIdle DEF Life!MigrateWorld
  <2>2. CommandSound(op[o])'
    BY <2>1, SoloEnds
  <2> QED
    BY <2>1, <2>2, SoloMoves
<1>6. CASE Life!CreateCommit(o)
  <2> DEFINE w == op[o].world
             row == op[o].row
  <2>1. registry' = [registry EXCEPT ![w] = row] /\ op'[o] = Life!Idle /\ op[o].pc = "create"
        /\ UNCHANGED <<env, dbs, files, log, begun, req>>
    BY <1>1, <1>6 DEF Life!CreateCommit
  <2>2. w \in Worlds /\ row \in ActiveRow
    <3>1. op[o] \in Registering
      BY <1>1, <2>1, LifeKinds
    <3> QED
      BY <3>1 DEF Registering
  <2>3. Life!AliasOwners(w, row.alias) = {} /\ row.type \in Life!TypesFor(w)
    BY <1>1, <2>1 DEF CommandSound
  <2> HIDE DEF w, row
  <2>4. registry'[w] = row /\ \A v \in Worlds \ {w} : registry'[v] = registry[v]
    BY <1>1, <2>1, <2>2
  <2>5. Life!AliasOwnedOnce'
    <3>1. \A v \in Worlds \ {w} :
            Life!Registered(v) /\ registry[v].status # "deleted" => registry[v].alias # row.alias
      BY <2>3 DEF Life!AliasOwners
    <3> QED
      BY <1>1, <2>4, <3>1 DEF Life!AliasOwnedOnce, Life!Registered, Life!Unregistered
  <2>6. (registry[RealWorld].type \in Life!TypesFor(RealWorld))'
    BY <1>1, <2>1, <2>3, <2>4 DEF Life!TypesFor, Life!WorldTypes
  <2>7. CommandSound(op[o])'
    BY <2>1, LifeIdle, SoloEnds
  <2> QED
    BY <2>1, <2>5, <2>6, <2>7, SoloMoves
<1> QED
  BY <1>2, <1>4, <1>5, <1>6

\* A step that leaves the registry, the log and the commands alone, and takes nothing away
\* that will be counted.
LEMMA SoloStands ==
    ASSUME Life!WorldAssumption, Life!OneOperator, EnvOK, SoloInv, LifeInv', UNCHANGED <<env, registry, log, op>>,
           \A a \in Aliases : Life!CountRows(dbs[a]) \subseteq Life!CountRows(dbs'[a])
    PROVE  SoloInv'
<1>1. ASSUME NEW o \in env.staff PROVE CommandSound(op[o])'
  <2> DEFINE r == op[o]
  <2>1. op'[o] = r /\ CommandSound(r)
    BY DEF SoloInv
  <2>2. r.pc = "create" => (Life!AliasOwners(r.world, r.row.alias) = {} /\ r.row.type \in Life!TypesFor(r.world))'
    BY <2>1 DEF CommandSound, Life!AliasOwners, Life!Registered, Life!Unregistered, Life!TypesFor, Life!WorldTypes
  <2>3. r \in Resetting => r.alias \in Aliases
    BY DEF Resetting
  <2>4. r \in Resetting /\ r.pc \in {"seed", "count"} =>
            Whole(Life!CountRows(dbs[r.alias]) \cup Ahead(r.steps))'
    <3> SUFFICES ASSUME r \in Resetting, r.pc \in {"seed", "count"}
                 PROVE  Whole(Life!CountRows(dbs[r.alias]) \cup Ahead(r.steps))'
      OBVIOUS
    <3> DEFINE before == Life!CountRows(dbs[r.alias]) \cup Ahead(r.steps)
    <3>1. Whole(before)
      BY <2>1 DEF CommandSound
    <3>2. before \subseteq before'
      <4>1. r' = r
        OBVIOUS
      <4>2. Life!CountRows(dbs[r.alias]) \subseteq Life!CountRows(dbs'[r.alias])
        BY <2>3
      <4>3. before' = Life!CountRows(dbs'[r.alias]) \cup Ahead(r.steps)
        BY <4>1 DEF Ahead
      <4> HIDE DEF r
      <4> QED
        BY <4>2, <4>3
    <3> HIDE DEF before
    <3>3. Whole(before)'
      BY <3>1, <3>2 DEF Whole
    <3> QED
      BY <3>3 DEF before
  <2>5. Resetting' = Resetting
    BY DEF Resetting, ActiveRow, SeedSteps, Life!WorldRegistry, Life!WorldTypes, Life!Baseline
  <2> HIDE DEF r
  <2>6. CommandSound(op[o])' <=> CommandSound(r)'
    BY DEF r
  <2> QED
    BY <2>1, <2>2, <2>4, <2>5, <2>6 DEF CommandSound, Whole, r
<1>2. CASE env.staff = {}
  BY <1>2 DEF SoloInv, Life!AliasOwnedOnce, Life!Registered, Life!Unregistered, Life!TypesFor,
     Life!WorldTypes, Life!SucceededIsBaseline
<1>3. CASE env.staff # {}
  <2>1. PICK o \in env.staff : TRUE
    BY <1>3
  <2>2. o \in Operators
    BY DEF EnvOK, Life!Surroundings
  <2> QED
    BY <1>1, <2>1, <2>2, SoloMoves
<1> QED
  BY <1>2, <1>3

\* Requests add to what will be counted, and to nothing else the command relies on.
LEMMA SoloRequests ==
    ASSUME Life!WorldAssumption, Life!OneOperator, EnvOK, SoloInv, LifeInv', NEW q \in Requests,
           \/ \E w \in Worlds : Life!BindWorldContext(q, w)
           \/ Life!WriteRows(q) \/ Life!ChangeMember(q) \/ Life!EndRequest(q)
    PROVE  SoloInv'
<1>1. UNCHANGED <<env, registry, log, op>>
  BY DEF Life!BindWorldContext, Life!WriteRows, Life!ChangeMember, Life!EndRequest
<1>2. /\ dbs \in [Aliases -> Life!Databases] /\ op \in [Operators -> Commands]
  BY DEF SoloInv, LifeInv, Life!RowsOK
<1>3. \A a \in Aliases : Life!CountRows(dbs[a]) \subseteq Life!CountRows(dbs'[a])
  <2>1. CASE UNCHANGED dbs
    BY <2>1
  <2>2. CASE Life!WriteRows(q)
    <3> DEFINE b == req[q].alias
               R == dbs[b].rows \cup {req[q].world}
    <3>1. dbs' = [dbs EXCEPT ![b] = [dbs[b] EXCEPT !.rows = R]]
      BY <1>2, <2>2 DEF Life!WriteRows
    <3> HIDE DEF b, R
    <3> QED
      BY <1>2, <3>1, CountsGrow
  <2>3. CASE Life!ChangeMember(q)
    <3> DEFINE b == req[q].alias
               x == IF dbs[b].administrator = "none" THEN "taken" ELSE "suspended"
    <3>1. dbs' = [dbs EXCEPT ![b] = [dbs[b] EXCEPT !.administrator = x]] /\ x # "none"
      BY <1>2, <2>3 DEF Life!ChangeMember
    <3> HIDE DEF b, x
    <3> QED
      BY <1>2, <3>1, CountsGrow
  <2> QED
    BY <2>1, <2>2, <2>3 DEF Life!BindWorldContext, Life!EndRequest
<1> QED
  BY <1>1, <1>3, SoloStands

LEMMA SoloSeeds ==
    ASSUME Life!WorldAssumption, Life!OneOperator, SoloInv, LifeInv', NEW o \in Operators, o \in env.staff,
           \/ \E w \in Worlds : \/ \E t \in {"demo", "zero_start"} : Life!SeedWorld(o, w, t)
                                \/ Life!BootstrapWorld(o, w)
           \/ Life!SeedStep(o) \/ Life!SeedFails(o) \/ Life!SeedEnds(o)
    PROVE  SoloInv'
<1> DEFINE r == op[o]
<1>1. /\ Life!RowsOK /\ r \in Commands /\ op \in [Operators -> Commands] /\ op' \in [Operators -> Commands]
      /\ dbs \in [Aliases -> Life!Databases] /\ CommandSound(r) /\ {} \in SUBSET SeedSteps
      /\ Resetting' = Resetting
  BY DEF SoloInv, LifeInv, Life!RowsOK, Resetting, Commands, Registering, Seeding, Rebuilding, ActiveRow,
     SeedSteps, Life!WorldRegistry, Life!WorldTypes, Life!Baseline, Life!Idle
<1>2. ASSUME NEW w, NEW a, NEW s, op'[o] = [pc |-> "seed", world |-> w, alias |-> a, reset |-> FALSE, steps |-> s],
             UNCHANGED <<env, registry, log>>
      PROVE  SoloInv'
  <2>1. op'[o].pc = "seed" /\ ~op'[o].reset
    BY <1>2
  <2>2. op'[o] \notin Resetting
    BY <2>1 DEF Resetting
  <2>3. CommandSound(op[o])'
    BY <1>1, <2>1, <2>2 DEF CommandSound
  <2> QED
    BY <1>2, <2>3, SoloMoves
<1>3. ASSUME NEW w \in Worlds, NEW t \in {"demo", "zero_start"}, Life!SeedWorld(o, w, t) PROVE SoloInv'
  BY <1>1, <1>2, <1>3 DEF Life!SeedWorld
<1>4. ASSUME NEW w \in Worlds, Life!BootstrapWorld(o, w) PROVE SoloInv'
  BY <1>1, <1>2, <1>4 DEF Life!BootstrapWorld
<1>5. CASE Life!SeedStep(o)
  <2> DEFINE s == r.steps
             a == Life!SeedTarget(o)
             d == dbs[a]
             n == [r EXCEPT !.steps = Tail(s)]
  <2>1. r.pc = "seed" /\ s # <<>> /\ Life!StepPossible(o) /\ UNCHANGED <<env, registry, files, log, begun, req>>
    BY <1>5 DEF Life!SeedStep
  <2>2. r \in Seeding \cup Resetting
    BY <1>1, <2>1, LifeKinds
  <2>3. r.alias \in Aliases /\ r.world \in Worlds /\ s \in Seq(SeedSteps)
    BY <2>2, SeedFields
  <2>4. Head(s) \in SeedSteps /\ Tail(s) \in Seq(SeedSteps)
    BY <2>1, <2>3
  <2>5. op'[o] = n
    BY <1>1, <1>5 DEF Life!SeedStep
  <2>6. CASE r \in Seeding
    <3>1. op'[o] \notin Resetting /\ op'[o].pc = "seed"
      BY <2>5, <2>6 DEF Seeding, Resetting
    <3>2. CommandSound(op[o])'
      BY <1>1, <3>1 DEF CommandSound
    <3> QED
      BY <2>1, <3>2, SoloMoves
  <2>7. CASE r \in Resetting
    <3>1. registry[r.world] = r.row /\ r.alias = r.row.alias /\ r.row.type = "simulation"
          /\ Whole(Life!CountRows(dbs[r.alias]) \cup Ahead(s))
      BY <1>1, <2>1, <2>7 DEF CommandSound
    <3>2. a = r.alias
      BY <3>1 DEF Life!SeedTarget
    <3>3. n.pc = "seed" /\ n.world = r.world /\ n.row = r.row /\ n.alias = r.alias /\ n.steps = Tail(s)
      BY <2>1, <2>7 DEF Resetting
    <3>4. dbs'[r.alias] = Life!SeedInto(d, Head(s))
      BY <1>1, <1>5, <2>3, <3>2 DEF Life!SeedStep
    <3>5. Life!CountRows(d) \cup {Head(s)} \subseteq Life!CountRows(dbs'[r.alias])
      BY <1>1, <2>3, <2>4, <3>2, <3>4, CountsGrow
    <3>6. Ahead(s) \subseteq {Head(s)} \cup Ahead(Tail(s))
      BY <2>1, <2>3, PendingTail
    <3> DEFINE before == Life!CountRows(d) \cup Ahead(s)
               later == Life!CountRows(dbs'[op'[o].alias]) \cup Ahead(op'[o].steps)
    <3>7. before \subseteq later /\ Whole(before)
      BY <2>5, <3>1, <3>2, <3>3, <3>5, <3>6
    <3> HIDE DEF before
    <3>8. Whole(Life!CountRows(dbs[op[o].alias]) \cup Ahead(op[o].steps))'
      <4>1. {"plan", "exam"} \subseteq later /\ (env'.administrator = "on" => {"administrator", "policy"} \subseteq later)
        BY <2>1, <3>7 DEF Whole
      <4> HIDE DEF n, s
      <4> QED
        BY <4>1 DEF Whole, Ahead
    <3> HIDE DEF later, n
    <3>9. CommandSound(op[o])'
      BY <1>1, <2>1, <2>5, <3>1, <3>3, <3>8 DEF CommandSound
    <3> QED
      BY <2>1, <3>9, SoloMoves
  <2> QED
    BY <2>2, <2>6, <2>7
<1>6. CASE Life!SeedFails(o)
  <2>1. PICK error : Life!Fail(o, error, {})
    BY <1>6 DEF Life!SeedFails
  <2>2. op[o].pc = "seed" /\ UNCHANGED <<env, registry, dbs, files, begun, req>>
    BY <1>6 DEF Life!SeedFails
  <2> QED
    BY <1>1, <2>1, <2>2, SoloFails
<1>7. CASE Life!SeedEnds(o)
  <2> DEFINE n == IF r.reset THEN [r EXCEPT !.pc = "count"] ELSE Life!Idle
  <2>1. r.pc = "seed" /\ r.steps = <<>> /\ op'[o] = n /\ UNCHANGED <<env, registry, dbs, files, log, begun, req>>
    BY <1>1, <1>7 DEF Life!SeedEnds
  <2>2. r \in Seeding \cup Resetting
    BY <1>1, <2>1, LifeKinds
  <2>3. CASE ~r.reset
    <3>1. op'[o].pc = "idle"
      BY <2>1, <2>3, LifeIdle
    <3>2. CommandSound(op[o])'
      BY <3>1, SoloEnds
    <3> QED
      BY <2>1, <3>2, SoloMoves
  <2>4. CASE r.reset
    <3>1. r \in Resetting
      BY <2>2, <2>4 DEF Seeding
    <3>2. /\ op'[o].pc = "count" /\ op'[o].world = r.world /\ op'[o].row = r.row
          /\ op'[o].alias = r.alias /\ op'[o].steps = r.steps
      BY <2>1, <2>4, <3>1 DEF Resetting
    <3>3. registry[r.world] = r.row /\ r.alias = r.row.alias /\ r.row.type = "simulation"
          /\ Whole(Life!CountRows(dbs[r.alias]) \cup Ahead(r.steps))
      BY <1>1, <2>1, <3>1 DEF CommandSound
    <3>4. Whole(Life!CountRows(dbs[op[o].alias]) \cup Ahead(op[o].steps))'
      BY <2>1, <3>2, <3>3 DEF Whole, Ahead
    <3> HIDE DEF n
    <3>5. CommandSound(op[o])'
      BY <1>1, <2>1, <3>2, <3>3, <3>4 DEF CommandSound
    <3> QED
      BY <2>1, <3>5, SoloMoves
  <2> QED
    BY <2>3, <2>4
<1> QED
  BY <1>3, <1>4, <1>5, <1>6, <1>7

LEMMA SoloResets ==
    ASSUME Life!WorldAssumption, Life!OneOperator, SoloInv, LifeInv', NEW o \in Operators, o \in env.staff,
           \/ \E w \in Worlds : Life!ResetBegin(o, w)
           \/ Life!CleanStorage(o) \/ Life!CleanFails(o) \/ Life!Flush(o) \/ Life!FlushFails(o)
           \/ Life!RestoreRegistry(o) \/ Life!Reseed(o) \/ Life!ReseedRefused(o)
           \/ Life!CountAfter(o) \/ Life!FinishReset(o) \/ Life!RebuildFails(o) \/ Life!Die(o)
    PROVE  SoloInv'
<1> DEFINE r == op[o]
<1>1. /\ Life!RowsOK /\ r \in Commands /\ op \in [Operators -> Commands] /\ {} \in SUBSET SeedSteps
      /\ dbs \in [Aliases -> Life!Databases] /\ CommandSound(r) /\ Resetting' = Resetting
      /\ registry \in [Worlds -> Life!WorldRegistry \cup {Life!Unregistered}]
  BY DEF SoloInv, LifeInv, Life!RowsOK, Resetting, ActiveRow, SeedSteps, Life!WorldRegistry, Life!WorldTypes,
     Life!Baseline
<1>2. ASSUME r.pc \in {"clean", "flush", "restore", "reseed", "count"}
      PROVE  r \in Resetting /\ registry[r.world] = r.row /\ r.alias = r.row.alias /\ r.row.type = "simulation"
             /\ r.world \in Worlds
  <2>1. r \in Resetting
    BY <1>1, <1>2, LifeKinds
  <2> QED
    BY <1>1, <2>1 DEF CommandSound, Resetting
\* A reset that goes on with the row and the alias it had.
<1>3. ASSUME r \in Resetting, registry[r.world] = r.row, r.alias = r.row.alias, r.row.type = "simulation",
             op'[o].pc \in {"clean", "flush", "restore", "reseed"},
             op'[o].world = r.world, op'[o].row = r.row, op'[o].alias = r.alias, UNCHANGED <<env, registry, log>>
      PROVE  SoloInv'
  <2>1. CommandSound(op[o])'
    BY <1>1, <1>3 DEF CommandSound
  <2> QED
    BY <1>3, <2>1, SoloMoves
<1>4. ASSUME NEW w \in Worlds, Life!ResetBegin(o, w) PROVE SoloInv'
  <2> DEFINE row == registry[w]
             n == [pc |-> "clean", world |-> w, alias |-> row.alias, row |-> row, reset |-> TRUE,
                   storages |-> Storages, steps |-> <<>>]
  <2>1. op'[o] = n /\ row.type = "simulation" /\ UNCHANGED <<env, registry, dbs, files, log, req>>
    BY <1>1, <1>4 DEF Life!ResetBegin, Life!IsActiveSimulation
  <2> HIDE DEF row
  <2>2. op'[o].pc = "clean" /\ op'[o].world = w /\ op'[o].row = row /\ op'[o].alias = row.alias
    BY <2>1
  <2> HIDE DEF n
  <2>3. CommandSound(op[o])'
    BY <1>1, <2>1, <2>2 DEF CommandSound, row
  <2> QED
    BY <2>1, <2>3, SoloMoves
<1>5. CASE Life!CleanStorage(o)
  <2>1. PICK s : op' = [op EXCEPT ![o].storages = r.storages \ {s},
                                  ![o].pc = IF r.storages = {s} THEN "flush" ELSE "clean"]
    BY <1>5 DEF Life!CleanStorage
  <2>2. r.pc = "clean" /\ UNCHANGED <<env, registry, dbs, log, begun, req>>
    BY <1>5 DEF Life!CleanStorage
  <2> DEFINE pc == IF r.storages = {s} THEN "flush" ELSE "clean"
             n == [r EXCEPT !.storages = r.storages \ {s}, !.pc = pc]
  <2>3. op'[o] = n /\ pc \in {"clean", "flush"}
    BY <1>1, <2>1
  <2> HIDE DEF pc
  <2>4. r \in Resetting
    BY <1>2, <2>2
  <2>5. n.pc = pc /\ n.world = r.world /\ n.row = r.row /\ n.alias = r.alias
    BY <2>4 DEF Resetting
  <2> HIDE DEF n
  <2> QED
    BY <1>2, <1>3, <2>2, <2>3, <2>5
<1>6. CASE Life!CleanFails(o) \/ Life!ReseedRefused(o) \/ (Life!FlushFails(o) /\ Life!Fail(o, "CommandError", {}))
  <2>1. Life!Fail(o, "CommandError", {}) /\ r.pc \in {"clean", "reseed", "flush"}
        /\ UNCHANGED <<env, registry>>
    BY <1>6 DEF Life!CleanFails, Life!ReseedRefused, Life!FlushFails
  <2> QED
    BY <1>1, <2>1, SoloFails
<1>7. CASE Life!Flush(o)
  <2> DEFINE n == [r EXCEPT !.pc = "restore"]
  <2>1. r.pc = "flush" /\ op'[o] = n /\ UNCHANGED <<env, registry, files, log, begun, req>>
    BY <1>1, <1>7 DEF Life!Flush
  <2>2. r \in Resetting
    BY <1>2, <2>1
  <2>3. n.pc = "restore" /\ n.world = r.world /\ n.row = r.row /\ n.alias = r.alias
    BY <2>2 DEF Resetting
  <2> HIDE DEF n
  <2> QED
    BY <1>2, <1>3, <2>1, <2>3
<1>8. CASE Life!RestoreRegistry(o)
  <2> DEFINE n == [r EXCEPT !.pc = "reseed"]
  <2>1. r.pc = "restore" /\ registry' = [registry EXCEPT ![r.world] = r.row] /\ op'[o] = n
        /\ UNCHANGED <<env, dbs, files, log, begun, req>>
    BY <1>1, <1>8 DEF Life!RestoreRegistry
  <2>2. r \in Resetting /\ registry[r.world] = r.row /\ r.world \in Worlds
    BY <1>2, <2>1
  <2>3. registry' = registry
    BY <1>1, <2>1, <2>2
  <2>4. n.pc = "reseed" /\ n.world = r.world /\ n.row = r.row /\ n.alias = r.alias
    BY <2>2 DEF Resetting
  <2> HIDE DEF n
  <2> QED
    BY <1>2, <1>3, <2>1, <2>3, <2>4
<1>9. CASE Life!Reseed(o)
  <2> DEFINE a == registry[r.world].alias
             s == Life!SeedPlan("zero_start")
             n == [r EXCEPT !.pc = "seed", !.alias = a, !.steps = s]
  <2>1. r.pc = "reseed" /\ op'[o] = n /\ UNCHANGED <<env, registry, dbs, files, log, begun, req>>
    BY <1>1, <1>9 DEF Life!Reseed
  <2>2. r \in Resetting /\ registry[r.world] = r.row /\ r.row.type = "simulation"
    BY <1>2, <2>1
  <2> HIDE DEF a, s
  <2>3. n.pc = "seed" /\ n.world = r.world /\ n.row = r.row /\ n.alias = a /\ n.steps = s
    BY <2>2 DEF Resetting
  <2> HIDE DEF n
  <2>4. Whole(Ahead(s))
    BY PlanIsWhole DEF s
  <2>5. Whole(Life!CountRows(dbs[op[o].alias]) \cup Ahead(op[o].steps))'
    <3>1. Ahead(op'[o].steps) = Ahead(s)
      BY <2>1, <2>3
    <3> QED
      BY <2>1, <2>4, <3>1 DEF Whole, Ahead
  <2>6. CommandSound(op[o])'
    BY <1>1, <2>1, <2>2, <2>3, <2>5 DEF CommandSound, a
  <2> QED
    BY <2>1, <2>6, SoloMoves
<1>10. CASE Life!CountAfter(o)
  <2> DEFINE after == Life!CountRows(dbs[r.row.alias])
             n == [pc |-> "tuples", world |-> r.world, reset |-> TRUE, after |-> after]
  <2>1. r.pc = "count" /\ op'[o] = n /\ UNCHANGED <<env, registry, dbs, files, log, begun, req>>
    BY <1>1, <1>10 DEF Life!CountAfter
  <2>2. r \in Resetting /\ r.alias = r.row.alias /\ r.steps = <<>>
        /\ Whole(Life!CountRows(dbs[r.alias]) \cup Ahead(r.steps))
    BY <1>1, <1>2, <2>1 DEF CommandSound
  <2>3. Ahead(<<>>) = {}
    BY DEF Ahead
  <2>4. Whole(after)
    BY <2>2, <2>3
  <2> HIDE DEF after
  <2>5. op'[o].pc = "tuples" /\ op'[o].after = after
    BY <2>1
  <2>7. op'[o] \notin Resetting
    BY <2>5 DEF Resetting
  <2> HIDE DEF n
  <2>6. CommandSound(op[o])'
    BY <1>1, <2>1, <2>4, <2>5, <2>7 DEF CommandSound, Whole
  <2> QED
    BY <2>1, <2>6, SoloMoves
<1>11. ASSUME r.pc = "tuples" PROVE r.world \in Worlds /\ r.after \in SUBSET SeedSteps /\ Whole(r.after)
  <2>1. r \in Rebuilding
    BY <1>1, <1>11, LifeKinds
  <2> QED
    BY <1>1, <1>11, <2>1 DEF Rebuilding, CommandSound
<1>12. CASE Life!FinishReset(o)
  <2> DEFINE entry == [world |-> r.world, status |-> "succeeded", after |-> r.after]
  <2>1. r.pc = "tuples" /\ log' = Append(log, entry) /\ op'[o] = Life!Idle /\ UNCHANGED <<env, registry>>
    BY <1>1, <1>12 DEF Life!FinishReset
  <2>2. entry \in Life!WorldMaintenanceLog /\ entry.after = r.after
    BY <1>11, <2>1 DEF Life!WorldMaintenanceLog, SeedSteps
  <2> HIDE DEF entry
  <2>3. CommandSound(op[o])'
    BY <2>1, LifeIdle, SoloEnds
  <2> QED
    BY <1>11, <2>1, <2>2, <2>3, SoloMoves
<1>13. CASE Life!RebuildFails(o)
  <2>1. Life!Fail(o, "CommandError", r.after) /\ r.pc = "tuples" /\ UNCHANGED <<env, registry>>
    BY <1>13 DEF Life!RebuildFails
  <2> QED
    BY <1>1, <1>11, <2>1, SoloFails
<1>14. CASE Life!Die(o)
  <2>1. op'[o] = Life!Idle /\ UNCHANGED <<env, registry, log>>
    BY <1>1, <1>14 DEF Life!Die
  <2>2. CommandSound(op[o])'
    BY <2>1, LifeIdle, SoloEnds
  <2> QED
    BY <2>1, <2>2, SoloMoves
<1>15. Life!FlushFails(o) => Life!Fail(o, "CommandError", {})
  BY DEF Life!FlushFails
<1> QED
  BY <1>4, <1>5, <1>6, <1>7, <1>8, <1>9, <1>10, <1>12, <1>13, <1>14, <1>15

LEMMA SoloInit ==
    ASSUME Life!WorldAssumption, Life!Init
    PROVE  SoloInv
<1>1. PICK a \in Aliases :
        registry = [w \in Worlds |-> IF w = RealWorld
                                     THEN [type |-> "real", alias |-> a, status |-> "active"]
                                     ELSE Life!Unregistered]
  BY DEF Life!Init
<1>2. \A w \in Worlds : Life!Registered(w) => w = RealWorld
  BY <1>1 DEF Life!Registered
<1>3. Life!AliasOwnedOnce
  BY <1>2 DEF Life!AliasOwnedOnce
<1>4. registry[RealWorld].type \in Life!TypesFor(RealWorld)
  BY <1>1 DEF Life!WorldAssumption, Life!TypesFor, Life!WorldTypes
<1>5. Life!SucceededIsBaseline
  BY DEF Life!Init, Life!SucceededIsBaseline
<1>6. \A o \in env.staff : CommandSound(op[o])
  BY SoundIdle DEF Life!Init, Life!Surroundings
<1> QED
  BY <1>3, <1>4, <1>5, <1>6, LifeInit DEF SoloInv

LEMMA SoloStep ==
    ASSUME Life!WorldAssumption, Life!OneOperator, EnvOK, SoloInv, [Life!Next]_(Life!vars)
    PROVE  SoloInv'
<1> env.staff \subseteq Operators
  BY DEF EnvOK, Life!Surroundings
<1>1. LifeInv'
  BY LifeStep DEF SoloInv
<1>2. CASE Life!Next
  BY <1>1, <1>2, SoloRegistry, SoloRequests, SoloSeeds, SoloResets, Zenon DEF Life!Next
<1>3. CASE UNCHANGED Life!vars
  <2>1. UNCHANGED <<env, registry, dbs, log, op>>
    BY <1>3 DEF Life!vars
  <2> QED
    BY <1>1, <2>1, SoloStands
<1> QED
  BY <1>2, <1>3

LEMMA SoloAlways == Life!WorldAssumption => (Life!Spec => [](Life!OneOperator => SoloInv))
<1> SUFFICES ASSUME Life!WorldAssumption PROVE Life!Spec => [](Life!OneOperator => SoloInv)
  OBVIOUS
<1>1. Life!Init => SoloInv
  BY SoloInit
<1>2. EnvOK /\ (Life!OneOperator => SoloInv) /\ [Life!Next]_(Life!vars)
        => (Life!OneOperator => SoloInv)'
  <2> SUFFICES ASSUME EnvOK, Life!OneOperator => SoloInv, [Life!Next]_(Life!vars)
               PROVE  Life!OneOperator' => SoloInv'
    OBVIOUS
  <2>1. Life!OneOperator' => Life!OneOperator
    BY SurroundingsStay DEF Life!OneOperator
  <2>2. Life!OneOperator => SoloInv'
    BY SoloStep
  <2> QED
    BY <2>1, <2>2
<1> QED
  BY <1>1, <1>2, LifeAlways, PTL DEF Life!Spec

\* One command at a time keeps the databases of worlds that are not deleted apart: a create
\* still has the alias it looked up, and a reset restores the row that is there.
THEOREM DatabasesApart ==
    Life!WorldAssumption => (Life!Spec => [](Life!OneOperator => Life!AliasOwnedOnce))
<1> SUFFICES ASSUME Life!WorldAssumption
             PROVE  Life!Spec => [](Life!OneOperator => Life!AliasOwnedOnce)
  OBVIOUS
<1>1. (Life!OneOperator => SoloInv) => (Life!OneOperator => Life!AliasOwnedOnce)
  BY DEF SoloInv
<1> QED
  BY <1>1, SoloAlways, PTL

\* A reset that is logged as succeeded counted a whole zero-start baseline, although requests
\* write into the database and suspend its administrator meanwhile: at every step, what is in
\* place and what is still to be seeded make a baseline.
THEOREM ResetsRebuild ==
    Life!WorldAssumption => (Life!Spec => [](Life!OneOperator => Life!SucceededIsBaseline))
<1> SUFFICES ASSUME Life!WorldAssumption
             PROVE  Life!Spec => [](Life!OneOperator => Life!SucceededIsBaseline)
  OBVIOUS
<1>1. (Life!OneOperator => SoloInv) => (Life!OneOperator => Life!SucceededIsBaseline)
  BY DEF SoloInv
<1> QED
  BY <1>1, SoloAlways, PTL

\* Only a flush takes rows away, and not from the database of the real world, which is
\* registered as real and shares its database with no world that a reset may begin on.
LEMMA RowsKeptStep ==
    ASSUME Life!WorldAssumption, Life!OneOperator, ~env.retype, EnvOK, SoloInv, [Life!Next]_(Life!vars)
    PROVE  Life!RealRowsKept
<1> env.staff \subseteq Operators
  BY DEF EnvOK, Life!Surroundings
<1> DEFINE a == registry[RealWorld].alias
<1>1. /\ dbs \in [Aliases -> Life!Databases] /\ a \in Aliases /\ op \in [Operators -> Commands]
      /\ Life!AliasOwnedOnce /\ registry[RealWorld].status = "active" /\ registry[RealWorld].type = "real"
      /\ Life!Registered(RealWorld) /\ Life!RowsOK /\ RealWorld \in Worlds
  <2>1. Life!RowsOK /\ Life!IsActive(RealWorld) /\ RealWorld \in Worlds
    BY DEF SoloInv, LifeInv, Life!RealWorldOpen, Life!WorldAssumption
  <2>2. a \in Aliases /\ Life!Registered(RealWorld)
    BY <2>1, ActiveWorld
  <2> QED
    BY <2>1, <2>2 DEF SoloInv, LifeInv, Life!RowsOK, Life!IsActive, Life!TypesFor
<1>2. ASSUME UNCHANGED dbs PROVE Life!RealRowsKept
  BY <1>2 DEF Life!RealRowsKept
<1>3. ASSUME NEW b \in Aliases, NEW d \in Life!Databases, dbs' = [dbs EXCEPT ![b] = d],
             dbs[b].rows \subseteq d.rows
      PROVE  Life!RealRowsKept
  BY <1>1, <1>3 DEF Life!RealRowsKept
<1>4. ASSUME NEW o \in env.staff, Life!Flush(o) \/ Life!FlushFails(o) PROVE Life!RealRowsKept
  <2> DEFINE r == op[o]
  <2>1. r.pc = "flush" /\ r \in Commands
    BY <1>1, <1>4 DEF Life!Flush, Life!FlushFails
  <2>2. r \in Resetting
    BY <2>1, LifeKinds
  <2>3. registry[r.world] = r.row /\ r.alias = r.row.alias /\ r.row.type = "simulation" /\ CommandSound(r)
    BY <2>2 DEF SoloInv, CommandSound
  <2>4. r.world \in Worlds /\ r.row \in ActiveRow
    BY <2>2 DEF Resetting
  <2>5. r.row.status = "active" /\ Life!Registered(r.world)
    BY <2>3, <2>4 DEF ActiveRow, Life!Registered, Life!Unregistered, Life!WorldRegistry
  <2>6. r.world # RealWorld
    BY <1>1, <2>3
  <2>7. r.alias # a
    BY <1>1, <2>3, <2>4, <2>5, <2>6 DEF Life!AliasOwnedOnce
  <2>8. dbs'[a] = dbs[a]
    BY <1>1, <1>4, <2>7 DEF Life!Flush, Life!FlushFails
  <2> QED
    BY <2>8 DEF Life!RealRowsKept
<1>5. ASSUME NEW o \in Operators, Life!SeedStep(o) PROVE Life!RealRowsKept
  <2> DEFINE r == op[o]
             s == r.steps
             b == Life!SeedTarget(o)
             d == Life!SeedInto(dbs[b], Head(s))
  <2>1. r.pc = "seed" /\ s # <<>> /\ Life!StepPossible(o) /\ r \in Commands
    BY <1>1, <1>5 DEF Life!SeedStep
  <2>2. r \in Seeding \cup Resetting
    BY <2>1, LifeKinds
  <2>3. r.alias \in Aliases /\ r.world \in Worlds /\ s \in Seq(SeedSteps)
    BY <2>2, SeedFields
  <2>4. Head(s) \in SeedSteps
    BY <2>1, <2>3
  <2>5. b \in Aliases
    BY <1>1, <2>1, <2>3, ActiveWorld DEF Life!SeedTarget, Life!StepPossible
  <2>6. dbs' = [dbs EXCEPT ![b] = d]
    BY <1>1, <1>5, <2>5 DEF Life!SeedStep
  <2>7. d \in Life!Databases /\ d.rows = dbs[b].rows
    <3>1. \A e \in Life!Databases, step \in SeedSteps :
            Life!SeedInto(e, step) \in Life!Databases /\ Life!SeedInto(e, step).rows = e.rows
      <4>1. \A e \in Life!Databases, step \in SeedSteps : Life!SeedInto(e, step).rows = e.rows
        BY DEF Life!SeedInto, Life!Databases
      <4> QED
        BY <4>1, DatabasesKeepShape
    <3> HIDE DEF b, s
    <3>2. dbs[b] \in Life!Databases /\ Head(s) \in SeedSteps
      BY <1>1, <2>4, <2>5
    <3> QED
      BY <3>1, <3>2
  <2> HIDE DEF b, d
  <2> QED
    BY <1>3, <2>5, <2>6, <2>7
<1>6. ASSUME NEW o \in Operators, NEW w \in Worlds, Life!MigrateWorld(o, w) PROVE Life!RealRowsKept
  <2> DEFINE b == registry[w].alias
             d == [dbs[b] EXCEPT !.schema = TRUE]
  <2>1. b \in Aliases
    BY <1>1, <1>6, ActiveWorld DEF Life!MigrateWorld
  <2>2. dbs' = [dbs EXCEPT ![b] = d]
    BY <1>1, <1>6, <2>1 DEF Life!MigrateWorld
  <2>3. d \in Life!Databases /\ d.rows = dbs[b].rows
    BY <1>1, <2>1 DEF Life!Databases
  <2> HIDE DEF b, d
  <2> QED
    BY <1>3, <2>1, <2>2, <2>3
<1>7. ASSUME NEW q \in Requests, Life!WriteRows(q) \/ Life!ChangeMember(q) PROVE Life!RealRowsKept
  <2> DEFINE b == req[q].alias
             w == req[q].world
             x == IF dbs[b].administrator = "none" THEN "taken" ELSE "suspended"
             d == [dbs[b] EXCEPT !.rows = dbs[b].rows \cup {w}]
             e == [dbs[b] EXCEPT !.administrator = x]
  <2>1. b \in Aliases /\ w \in Worlds
    <3>1. req[q] \in Contexts /\ req[q].pc = "bound"
      BY <1>7 DEF SoloInv, LifeInv, Life!WriteRows, Life!ChangeMember
    <3> QED
      BY <3>1 DEF Contexts, Life!Unbound
  <2>2. dbs' = [dbs EXCEPT ![b] = d] \/ dbs' = [dbs EXCEPT ![b] = e]
    BY <1>1, <1>7, <2>1 DEF Life!WriteRows, Life!ChangeMember
  <2>3. d \in Life!Databases /\ dbs[b].rows \subseteq d.rows
    BY <1>1, <2>1 DEF Life!Databases
  <2>4. e \in Life!Databases /\ dbs[b].rows \subseteq e.rows
    BY <1>1, <2>1 DEF Life!Databases
  <2> HIDE DEF b, d, e
  <2> QED
    BY <1>3, <2>1, <2>2, <2>3, <2>4
<1>8. CASE Life!Next
  <2>1. ASSUME NEW o \in Operators, NEW w \in Worlds,
               \/ \E t \in Life!WorldTypes, b \in Aliases : Life!CreateCheck(o, w, t, b)
               \/ Life!ArchiveWorld(o, w) \/ Life!DeleteWorld(o, w)
               \/ \E template \in {"demo", "zero_start"} : Life!SeedWorld(o, w, template)
               \/ Life!BootstrapWorld(o, w) \/ Life!ResetBegin(o, w)
        PROVE  Life!RealRowsKept
    BY <1>2, <2>1 DEF Life!CreateCheck, Life!ArchiveWorld, Life!DeleteWorld, Life!SeedWorld, Life!BootstrapWorld,
       Life!ResetBegin
  <2>2. ASSUME NEW o \in Operators,
               \/ Life!CreateCommit(o) \/ Life!SeedFails(o) \/ Life!SeedEnds(o) \/ Life!CleanStorage(o)
               \/ Life!CleanFails(o) \/ Life!RestoreRegistry(o) \/ Life!Reseed(o) \/ Life!ReseedRefused(o)
               \/ Life!CountAfter(o) \/ Life!FinishReset(o) \/ Life!RebuildFails(o) \/ Life!Die(o)
        PROVE  Life!RealRowsKept
    BY <1>2, <2>2 DEF Life!CreateCommit, Life!SeedFails, Life!SeedEnds, Life!CleanStorage, Life!CleanFails,
       Life!RestoreRegistry, Life!Reseed, Life!ReseedRefused, Life!CountAfter, Life!FinishReset,
       Life!RebuildFails, Life!Die
  <2>3. ASSUME NEW q \in Requests, (\E w \in Worlds : Life!BindWorldContext(q, w)) \/ Life!EndRequest(q)
        PROVE  Life!RealRowsKept
    BY <1>2, <2>3 DEF Life!BindWorldContext, Life!EndRequest
  <2> QED
    BY <1>4, <1>5, <1>6, <1>7, <1>8, <2>1, <2>2, <2>3, Zenon DEF Life!Next
<1>9. CASE UNCHANGED Life!vars
  BY <1>2, <1>9 DEF Life!vars
<1> QED
  BY <1>8, <1>9

\* No reset takes business rows of the real world out of the database it is registered with,
\* as long as commands come one at a time and register worlds under their own types.
THEOREM RealRowsStay == Life!WorldAssumption => (Life!Spec => Life!RealRowsSafe)
<1> SUFFICES ASSUME Life!WorldAssumption PROVE Life!Spec => Life!RealRowsSafe
  OBVIOUS
<1>1. EnvOK /\ (Life!OneOperator => SoloInv) /\ [Life!Next]_(Life!vars)
        => [Life!OneOperator /\ ~env.retype => Life!RealRowsKept]_(Life!vars)
  BY RowsKeptStep
<1> QED
  BY <1>1, LifeAlways, SoloAlways, PTL DEF Life!Spec, Life!RealRowsSafe

-----------------------------------------------------------------------------
(* The components together. *)

LEMMA PartsBehave == WorldsSpec => Spec /\ Life!Spec
<1>1. WorldsInit => Init /\ Life!Init
  BY DEF WorldsInit
<1>2. [WorldsNext]_worldsVars => [Next]_vars /\ [Life!Next]_(Life!vars)
  <2>1. UNCHANGED lifeVars => UNCHANGED Life!vars
    BY DEF lifeVars, Life!vars
  <2>2. UNCHANGED worldsVars => UNCHANGED <<vars, lifeVars>>
    BY DEF worldsVars
  <2> QED
    BY <2>1, <2>2 DEF WorldsNext
<1> QED
  BY <1>1, <1>2, PTL DEF WorldsSpec, Spec, Life!Spec

\* Avatars: the public page answers with the right image under every fault, profiles keep
\* their image where calls fail and processes die, nothing is left over where nothing
\* goes wrong.
THEOREM AvatarsAreSound == WorldsSpec => []AvatarsSound
<1>1. TypeOK /\ ServedMatches /\ (Calm => ReferenceSound) /\ (Tidy => NothingLeftover)
        => AvatarsSound
  BY DEF AvatarsSound, Calm, Tidy
<1> QED
  BY <1>1, PartsBehave, WorldsAndAvatarsAssumption, TypeCorrect, PageServesMember,
     ProfilesKeepImages, NothingIsLeft, PTL

\* WorldLifecycle: shapes and the real world under any race, databases and resets when
\* commands come one at a time.
THEOREM WorldsAreSound == WorldsSpec => []WorldsSound
<1>1. /\ Life!TypeOK /\ Life!RealWorldOpen
      /\ Life!OneOperator => Life!AliasOwnedOnce
      /\ Life!OneOperator => Life!SucceededIsBaseline
      => WorldsSound
  BY DEF WorldsSound, Life!WorldsSound
<1> QED
  BY <1>1, PartsBehave, WorldsAndAvatarsAssumption, WorldsTyped, RealWorldStaysOpen,
     DatabasesApart, ResetsRebuild, PTL

\* No reset takes business rows of the real world out of its database, as long as commands
\* come one at a time and worlds keep their type.
THEOREM RealRowsAreSafe == WorldsSpec => RealRowsSafe
BY PartsBehave, WorldsAndAvatarsAssumption, RealRowsStay, PTL DEF RealRowsSafe

-----------------------------------------------------------------------------
(* The review desk.  One application at a time holds the lock of the plan, so   *)
(* the code it chooses is free and its change set stays as it was read.         *)

\* A change set has no revision before it is applied, every other revision is one of a
\* change set, and no two of them share one.
CodesOwned ==
    /\ \A c \in ChangeSets :
          /\ sets[c].status \in {"absent", "draft"} => sets[c].revision = 0
          /\ sets[c].status = "applied" => sets[c].revision # 0
          /\ sets[c].revision # 0 => revisions[sets[c].revision] # "absent"
    /\ \A c, d \in ChangeSets : sets[c].revision = sets[d].revision => c = d \/ sets[c].revision = 0
    /\ \A k \in Review!Codes \ {0} :
          revisions[k] # "absent" => \E c \in ChangeSets : sets[c].revision = k
    /\ revisions[0] # "absent"

\* One revision is published.
OnePublished ==
    \E k \in Review!Codes : \A j \in Review!Codes : revisions[j] = "published" <=> j = k

\* An application in progress is alone, and its change set may be applied.
InOrder(r) ==
    Review!InTransaction(r) =>
        /\ sets[reviews[r].set].status \in {"draft", "applied"}
        /\ \A q \in Forms \ {r} : ~Review!InTransaction(q)

ReviewInv ==
    /\ Review!TypeOK
    /\ CodesOwned
    /\ OnePublished
    /\ \A r \in Forms : InOrder(r)
    /\ run.status = "completed" => run.gate = "met"

-----------------------------------------------------------------------------
(* Counting. *)

LEMMA ReviewCardinality == \A S : Review!Cardinality(S) = Cardinality(S)
BY DEF Cardinality, Review!Cardinality

LEMMA ReviewFinite == \A S : Review!IsFiniteSet(S) <=> IsFiniteSet(S)
BY DEF IsFiniteSet, Review!IsFiniteSet

LEMMA CodesAre ==
    ASSUME Review!LabReviewAssumption
    PROVE  Cardinality(ChangeSets) \in Nat /\ Review!Codes = 0..Cardinality(ChangeSets)
           /\ IsFiniteSet(ChangeSets)
<1>1. IsFiniteSet(ChangeSets)
  BY ReviewFinite DEF Review!LabReviewAssumption
<1> QED
  BY <1>1, FS_CardinalityType, ReviewCardinality DEF Review!Codes

\* A finite set of natural numbers that is not empty has a least and a greatest element.
Least(x, S) == x \in S /\ \A y \in S : x <= y
Greatest(x, S) == x \in S /\ \A y \in S : x >= y
Bounded(S) == \E x, y \in S : Least(x, S) /\ Greatest(y, S)

LEMMA FiniteBounded ==
    ASSUME NEW S \in SUBSET Nat, S # {}, IsFiniteSet(S)
    PROVE  Bounded(S)
<1> DEFINE B == {U \in SUBSET S : U # {} /\ ~Bounded(U)}
<1> SUFFICES ASSUME ~Bounded(S) PROVE FALSE
  OBVIOUS
<1>1. S \in B
  OBVIOUS
<1>2. IsWellFoundedOn(StrictSubsetOrdering(S), SUBSET S)
  BY FS_StrictSubsetOrderingWellFounded, FS_FiniteSubsetsOfFinite
<1>3. PICK T \in B : \A U \in B : ~(<<U, T>> \in StrictSubsetOrdering(S))
  <2> HIDE DEF B
  <2>1. B \subseteq SUBSET S
    BY DEF B
  <2> QED
    BY <1>1, <1>2, <2>1, WFMin
<1>4. PICK x \in T : TRUE
  OBVIOUS
<1> DEFINE U == T \ {x}
<1>5. x \in Nat /\ U \in SUBSET Nat
  OBVIOUS
<1>6. CASE U = {}
  <2>1. Least(x, T) /\ Greatest(x, T)
    BY <1>5, <1>6 DEF Least, Greatest
  <2> QED
    BY <2>1 DEF Bounded
<1>7. CASE U # {}
  <2>1. U \notin B
    BY <1>3 DEF StrictSubsetOrdering
  <2>2. Bounded(U)
    BY <1>7, <2>1
  <2>3. PICK a, b \in U : Least(a, U) /\ Greatest(b, U)
    BY <2>2 DEF Bounded
  <2>4. \A y \in T : y = x \/ y \in U
    OBVIOUS
  <2> DEFINE lo == IF x <= a THEN x ELSE a
             hi == IF x >= b THEN x ELSE b
  <2>5. a \in Nat /\ b \in Nat
    BY <1>5
  <2>6. Least(lo, T)
    BY <1>5, <2>3, <2>4, <2>5 DEF Least
  <2>7. Greatest(hi, T)
    BY <1>5, <2>3, <2>4, <2>5 DEF Greatest
  <2> QED
    BY <2>6, <2>7 DEF Bounded, Least, Greatest
<1> QED
  BY <1>6, <1>7

\* Min names the least element.
LEMMA LeastOf ==
    ASSUME NEW S \in SUBSET Nat, S # {}, IsFiniteSet(S)
    PROVE  Review!Min(S) \in S
<1>1. PICK x \in S : Least(x, S)
  BY FiniteBounded DEF Bounded
<1> QED
  BY <1>1, Zenon DEF Review!Min, Least

\* A change set without a revision has a code left for it.
LEMMA NextCode ==
    ASSUME Review!LabReviewAssumption, ReviewInv, NEW c \in ChangeSets, sets[c].revision = 0
    PROVE  /\ Review!NextRevisionCode \in Review!Codes \ {0}
           /\ revisions[Review!NextRevisionCode] = "absent"
<1> DEFINE A == {k \in Review!Codes : revisions[k] = "absent"}
           n == Cardinality(ChangeSets)
           T == ChangeSets \ {c}
           own(k) == CHOOSE d \in ChangeSets : sets[d].revision = k
           f == [k \in 1..n |-> own(k)]
<1>1. n \in Nat /\ Review!Codes = 0..n /\ IsFiniteSet(ChangeSets)
  BY CodesAre
<1>2. A # {}
  <2> SUFFICES ASSUME A = {} PROVE FALSE
    OBVIOUS
  <2>1. \A k \in 1..n : \E d \in ChangeSets : sets[d].revision = k
    BY <1>1 DEF ReviewInv, CodesOwned
  <2>2. \A k \in 1..n : own(k) \in T /\ sets[own(k)].revision = k
    BY <2>1
  <2> HIDE DEF own, T
  <2>3. f \in [1..n -> T]
    BY <2>2
  <2>4. \A k, j \in 1..n : f[k] = f[j] => k = j
    BY <2>2
  <2> HIDE DEF f
  <2>5. f \in Injection(1..n, T)
    BY <2>3, <2>4 DEF Injection, IsInjective
  <2>6. IsFiniteSet(T) /\ Cardinality(T) = n - 1
    BY <1>1, FS_RemoveElement DEF T
  <2>7. Cardinality(1..n) <= Cardinality(T)
    BY <2>5, <2>6, FS_Injection
  <2>8. Cardinality(1..n) = IF 1 > n THEN 0 ELSE n - 1 + 1
    BY <1>1, FS_Interval
  <2> HIDE DEF n, T
  <2>9. n # 0
    BY <1>1, <2>6, FS_CardinalityType
  <2> QED
    BY <1>1, <2>6, <2>7, <2>8, <2>9
<1>3. A \in SUBSET Nat /\ 0 \notin A
  BY <1>1 DEF ReviewInv, CodesOwned
<1>4. IsFiniteSet(A)
  <2>1. IsFiniteSet(0..n) /\ A \in SUBSET (0..n)
    BY <1>1, FS_Interval
  <2> QED
    BY <2>1, FS_Subset
<1>5. Review!NextRevisionCode \in A
  BY <1>2, <1>3, <1>4, LeastOf DEF Review!NextRevisionCode
<1> QED
  BY <1>3, <1>5

-----------------------------------------------------------------------------
(* The steps of the desk. *)

Form == [pc : {"idle", "wait", "apply", "reject"}, set : ChangeSets]

LEMMA FormShapes ==
    ASSUME Review!LabReviewAssumption, ReviewInv
    PROVE  /\ reviews \in [Forms -> Form] /\ Review!Idle \in Form
           /\ sets \in [ChangeSets -> [status : Review!SetStatuses, revision : Review!Codes]]
           /\ revisions \in [Review!Codes -> Review!RevisionStatuses]
           /\ 0 \in Review!Codes
<1>1. 0 \in Review!Codes
  BY CodesAre
<1>2. (CHOOSE c \in ChangeSets : TRUE) \in ChangeSets
  BY DEF Review!LabReviewAssumption
<1>3. Review!Idle \in Form
  BY <1>2 DEF Review!Idle, Form
<1> QED
  BY <1>1, <1>3 DEF ReviewInv, Review!TypeOK, Form

LEMMA ReviewInit == Review!LabReviewAssumption /\ Review!Init => ReviewInv
<1> SUFFICES ASSUME Review!LabReviewAssumption, Review!Init PROVE ReviewInv
  OBVIOUS
<1>1. 0 \in Review!Codes /\ \A k \in Review!Codes : k \in Nat
  BY CodesAre
<1>2. (CHOOSE c \in ChangeSets : TRUE) \in ChangeSets
  BY DEF Review!LabReviewAssumption
<1>3. Review!Idle \in Form /\ Review!Idle.pc = "idle"
  BY <1>2 DEF Review!Idle, Form
<1>4. Review!TypeOK
  <2>1. reviews \in [Forms -> Form]
    BY <1>3 DEF Review!Init
  <2>2. run \in [status : Review!RunStatuses, gate : Review!Gates, turnGate : Review!Gates,
                 broken : BOOLEAN]
    <3>1. CASE run = [status |-> "running", gate |-> "none", turnGate |-> "none", broken |-> FALSE]
      BY <3>1 DEF Review!RunStatuses, Review!Gates
    <3>2. CASE run = [status |-> "failed", gate |-> "open", turnGate |-> "open", broken |-> FALSE]
      BY <3>2 DEF Review!RunStatuses, Review!Gates
    <3> QED
      BY <3>1, <3>2 DEF Review!Init
  <2>3. sets \in [ChangeSets -> [status : Review!SetStatuses, revision : Review!Codes]]
    BY <1>1 DEF Review!Init, Review!SetStatuses
  <2>4. revisions \in [Review!Codes -> Review!RevisionStatuses]
    BY DEF Review!Init, Review!RevisionStatuses
  <2> QED
    BY <2>1, <2>2, <2>3, <2>4 DEF Form, Review!TypeOK
<1>5. CodesOwned
  BY <1>1 DEF CodesOwned, Review!Init
<1>6. OnePublished
  BY <1>1 DEF OnePublished, Review!Init
<1>7. \A r \in Forms : InOrder(r)
  BY <1>3 DEF InOrder, Review!Init, Review!InTransaction
<1>8. run.status # "completed"
  BY DEF Review!Init
<1> QED
  BY <1>4, <1>5, <1>6, <1>7, <1>8 DEF ReviewInv

\* A step of one form that changes no other row.
LEMMA FormMoves ==
    ASSUME Review!LabReviewAssumption, ReviewInv, NEW r \in Forms, NEW x \in Form,
           reviews' = [reviews EXCEPT ![r] = x], UNCHANGED <<run, sets, revisions>>,
           InOrder(r)'
    PROVE  ReviewInv'
<1>1. /\ reviews \in [Forms -> Form] /\ reviews' \in [Forms -> Form]
      /\ \A q \in Forms \ {r} : reviews'[q] = reviews[q]
  BY FormShapes
<1>2. ASSUME NEW q \in Forms \ {r} PROVE InOrder(q)'
  <2>1. InOrder(q) /\ reviews'[q] = reviews[q]
    BY <1>1 DEF ReviewInv
  <2>2. \A p \in Forms \ {r} : Review!InTransaction(p)' <=> Review!InTransaction(p)
    BY <1>1 DEF Review!InTransaction
  <2>3. Review!InTransaction(q)' => ~Review!InTransaction(r)'
    BY DEF InOrder
  <2> QED
    BY <2>1, <2>2, <2>3 DEF InOrder
<1>3. Review!TypeOK'
  BY <1>1 DEF ReviewInv, Review!TypeOK, Form, Review!Codes, Review!RunStatuses, Review!Gates,
     Review!SetStatuses, Review!RevisionStatuses
<1>4. CodesOwned' /\ OnePublished'
  BY DEF ReviewInv, CodesOwned, OnePublished, Review!Codes
<1> QED
  BY <1>2, <1>3, <1>4 DEF ReviewInv

\* A form that ends holds nothing.
LEMMA FormEnds ==
    ASSUME Review!LabReviewAssumption, ReviewInv, NEW r \in Forms,
           reviews' = [reviews EXCEPT ![r] = Review!Idle]
    PROVE  InOrder(r)' /\ reviews'[r] = Review!Idle
<1>1. reviews'[r] = Review!Idle
  BY FormShapes
<1>2. Review!Idle.pc = "idle"
  BY DEF Review!Idle
<1> QED
  BY <1>1, <1>2 DEF InOrder, Review!InTransaction

\* The run goes on: a completed one has met its gate.
RunOK == run \in [status : Review!RunStatuses, gate : Review!Gates, turnGate : Review!Gates,
                  broken : BOOLEAN]

RunMoves ==
    \/ Review!WriteTurn \/ Review!SaveHour \/ Review!EndWindow \/ Review!ContinueRun
    \/ Review!InteractionFails \/ Review!Abort

LEMMA RunShape ==
    ASSUME RunOK, RunMoves
    PROVE  RunOK' /\ (run'.status = "completed" => run'.gate = "met")
<1>1. CASE Review!WriteTurn
  BY <1>1 DEF RunOK, Review!WriteTurn, Review!RunStatuses, Review!Gates
<1>2. CASE Review!SaveHour
  BY <1>2 DEF RunOK, Review!SaveHour, Review!RunStatuses, Review!Gates
<1>3. CASE Review!EndWindow
  BY <1>3 DEF RunOK, Review!EndWindow, Review!RunStatuses, Review!Gates
<1>4. CASE Review!ContinueRun
  BY <1>4 DEF RunOK, Review!ContinueRun, Review!Continuable, Review!RunStatuses, Review!Gates
<1>5. CASE Review!InteractionFails
  BY <1>5 DEF RunOK, Review!InteractionFails, Review!RunStatuses, Review!Gates
<1>6. CASE Review!Abort
  BY <1>6 DEF RunOK, Review!Abort, Review!Continuable, Review!RunStatuses, Review!Gates
<1> QED
  BY <1>1, <1>2, <1>3, <1>4, <1>5, <1>6 DEF RunMoves

LEMMA RunKeepsOrder ==
    ASSUME Review!LabReviewAssumption, ReviewInv, RunMoves
    PROVE  ReviewInv'
<1>1. RunOK
  BY DEF ReviewInv, Review!TypeOK, RunOK
<1>2. RunOK' /\ (run'.status = "completed" => run'.gate = "met")
  BY <1>1, RunShape DEF ReviewInv
<1>3. UNCHANGED <<revisions, reviews>>
  BY DEF RunMoves, Review!WriteTurn, Review!SaveHour, Review!EndWindow, Review!ContinueRun,
     Review!InteractionFails, Review!Abort
<1>4. OnePublished' /\ \A q \in Forms : Review!InTransaction(q)' <=> Review!InTransaction(q)
  BY <1>3 DEF ReviewInv, OnePublished, Review!Codes, Review!InTransaction
<1>5. CASE UNCHANGED sets
  <2>1. Review!TypeOK'
    BY <1>2, <1>3, <1>5 DEF ReviewInv, Review!TypeOK, RunOK, Review!Codes, Review!RunStatuses,
       Review!Gates, Review!SetStatuses, Review!RevisionStatuses
  <2>2. CodesOwned' /\ \A r \in Forms : InOrder(r)'
    BY <1>3, <1>4, <1>5 DEF ReviewInv, CodesOwned, Review!Codes, InOrder
  <2> QED
    BY <1>2, <1>4, <2>1, <2>2 DEF ReviewInv
<1>6. CASE ~UNCHANGED sets
  <2>1. PICK c \in ChangeSets :
          sets[c].status = "absent" /\ sets' = [sets EXCEPT ![c].status = "draft"]
    BY <1>6 DEF RunMoves, Review!WriteTurn, Review!SaveHour, Review!EndWindow, Review!ContinueRun,
       Review!InteractionFails, Review!Abort
  <2>2. /\ sets \in [ChangeSets -> [status : Review!SetStatuses, revision : Review!Codes]]
        /\ sets' \in [ChangeSets -> [status : Review!SetStatuses, revision : Review!Codes]]
        /\ \A d \in ChangeSets : /\ sets'[d].revision = sets[d].revision
                                 /\ d # c => sets'[d] = sets[d]
        /\ sets'[c].status = "draft"
        /\ reviews \in [Forms -> Form]
    BY <2>1, FormShapes DEF Review!SetStatuses
  <2>3. Review!TypeOK'
    BY <1>2, <1>3, <2>2 DEF ReviewInv, Review!TypeOK, RunOK, Review!Codes, Review!RunStatuses,
       Review!Gates, Review!SetStatuses, Review!RevisionStatuses
  <2>4. CodesOwned'
    BY <1>3, <2>1, <2>2 DEF ReviewInv, CodesOwned, Review!Codes
  <2>5. ASSUME NEW r \in Forms PROVE InOrder(r)'
    <3>1. InOrder(r) /\ reviews[r].set \in ChangeSets
      BY <2>2 DEF ReviewInv, Form
    <3> QED
      BY <1>3, <1>4, <2>2, <3>1 DEF InOrder
  <2> QED
    BY <1>2, <1>4, <2>3, <2>4, <2>5 DEF ReviewInv
<1> QED
  BY <1>5, <1>6

\* A request arrives, to apply or to reject; it holds nothing yet.
LEMMA FormsArrive ==
    ASSUME Review!LabReviewAssumption, ReviewInv, NEW r \in Forms, NEW c \in ChangeSets,
           Review!BeginApply(r, c) \/ Review!BeginReject(r, c)
    PROVE  ReviewInv'
<1>1. reviews \in [Forms -> Form] /\ Review!Idle \in Form
  BY FormShapes
<1>2. PICK p \in {"wait", "reject"} :
        /\ reviews' = [reviews EXCEPT ![r] = [pc |-> p, set |-> c]]
        /\ UNCHANGED <<run, sets, revisions>>
  BY DEF Review!BeginApply, Review!BeginReject, Review!Idle
<1> DEFINE x == [pc |-> p, set |-> c]
<1>3. x \in Form /\ x.pc # "apply"
  BY DEF Form
<1> HIDE DEF x
<1>4. reviews'[r] = x
  BY <1>1, <1>2 DEF x
<1>5. InOrder(r)'
  BY <1>3, <1>4 DEF InOrder, Review!InTransaction
<1> QED
  BY <1>2, <1>3, <1>5, FormMoves DEF x

LEMMA LockPlanKeepsOrder ==
    ASSUME Review!LabReviewAssumption, ReviewInv, NEW r \in Forms, Review!LockPlan(r)
    PROVE  ReviewInv'
<1>1. reviews \in [Forms -> Form] /\ Review!Idle \in Form
  BY FormShapes
<1>2. UNCHANGED <<run, sets, revisions>> /\ \A q \in Forms : ~Review!InTransaction(q)
  BY DEF Review!LockPlan, Review!PlanFree
<1> DEFINE x == [reviews[r] EXCEPT !.pc = "apply"]
<1>3. CASE reviews' = [reviews EXCEPT ![r] = x] /\ sets[reviews[r].set].status \in {"draft", "applied"}
  <2>1. x \in Form /\ x.set = reviews[r].set
    BY <1>1 DEF Form
  <2> HIDE DEF x
  <2>2. reviews'[r] = x /\ \A q \in Forms \ {r} : reviews'[q] = reviews[q]
    BY <1>1, <1>3
  <2>3. InOrder(r)'
    BY <1>2, <1>3, <2>1, <2>2 DEF InOrder, Review!InTransaction
  <2> QED
    BY <1>2, <1>3, <2>1, <2>3, FormMoves
<1>4. CASE reviews' = [reviews EXCEPT ![r] = Review!Idle]
  BY <1>1, <1>2, <1>4, FormEnds, FormMoves
<1> QED
  BY <1>3, <1>4 DEF Review!LockPlan

LEMMA SaveRejectKeepsOrder ==
    ASSUME Review!LabReviewAssumption, ReviewInv, NEW r \in Forms, Review!SaveReject(r)
    PROVE  ReviewInv'
<1> DEFINE c == reviews[r].set
<1>1. /\ reviews \in [Forms -> Form] /\ Review!Idle \in Form
      /\ sets \in [ChangeSets -> [status : Review!SetStatuses, revision : Review!Codes]]
  BY FormShapes
<1>2. /\ reviews' = [reviews EXCEPT ![r] = Review!Idle] /\ UNCHANGED <<run, revisions>>
      /\ sets' = [sets EXCEPT ![c].status = "rejected"]
      /\ \A q \in Forms : Review!InTransaction(q) => reviews[q].set # c
      /\ c \in ChangeSets
  BY <1>1 DEF Review!SaveReject, Review!RowFree, Form
<1> HIDE DEF c
<1>3. /\ sets' \in [ChangeSets -> [status : Review!SetStatuses, revision : Review!Codes]]
      /\ \A d \in ChangeSets : sets'[d].revision = sets[d].revision
      /\ \A d \in ChangeSets \ {c} : sets'[d] = sets[d]
      /\ sets'[c].status = "rejected"
  BY <1>1, <1>2 DEF Review!SetStatuses
<1>4. /\ reviews' \in [Forms -> Form]
      /\ \A q \in Forms \ {r} : reviews'[q] = reviews[q]
  BY <1>1, <1>2
<1>5. InOrder(r)' /\ reviews'[r] = Review!Idle
  BY <1>2, FormEnds
<1>6. ASSUME NEW q \in Forms \ {r} PROVE InOrder(q)'
  <2>1. InOrder(q) /\ reviews'[q] = reviews[q] /\ reviews[q].set \in ChangeSets
    BY <1>1, <1>4 DEF ReviewInv, Form
  <2>2. Review!Idle.pc = "idle"
    BY DEF Review!Idle
  <2>3. \A p \in Forms : Review!InTransaction(p)' => Review!InTransaction(p) /\ p # r
    BY <1>4, <1>5, <2>2 DEF Review!InTransaction
  <2> QED
    BY <1>2, <1>3, <2>1, <2>3 DEF InOrder
<1>7. Review!TypeOK'
  BY <1>2, <1>3, <1>4 DEF ReviewInv, Review!TypeOK, Form, Review!Codes, Review!RunStatuses,
     Review!Gates, Review!SetStatuses, Review!RevisionStatuses
<1>8. CodesOwned' /\ OnePublished'
  BY <1>2, <1>3 DEF ReviewInv, CodesOwned, OnePublished, Review!Codes
<1> QED
  BY <1>2, <1>5, <1>6, <1>7, <1>8 DEF ReviewInv

\* The revision that is published is free and becomes that of the change set, or it is
\* that of the change set already.
LEMMA CommitApplyKeepsOrder ==
    ASSUME Review!LabReviewAssumption, ReviewInv, NEW r \in Forms, Review!CommitApply(r)
    PROVE  ReviewInv'
<1> DEFINE c == reviews[r].set
           v == IF sets[c].status = "applied" THEN sets[c].revision ELSE Review!NextRevisionCode
           y == [status |-> "applied", revision |-> v]
<1>1. /\ reviews \in [Forms -> Form] /\ Review!Idle \in Form
      /\ sets \in [ChangeSets -> [status : Review!SetStatuses, revision : Review!Codes]]
      /\ revisions \in [Review!Codes -> Review!RevisionStatuses]
  BY FormShapes
<1>2. /\ reviews' = [reviews EXCEPT ![r] = Review!Idle] /\ UNCHANGED run
      /\ sets' = [sets EXCEPT ![c] = y]
      /\ revisions' = [k \in Review!Codes |->
            IF k = v THEN "published"
            ELSE IF revisions[k] = "published" THEN "retired" ELSE revisions[k]]
      /\ Review!InTransaction(r)
  BY DEF Review!CommitApply, Review!PublishRevision, Review!InTransaction
<1>3. /\ c \in ChangeSets /\ sets[c].status \in {"draft", "applied"}
      /\ \A q \in Forms \ {r} : ~Review!InTransaction(q)
  BY <1>1, <1>2 DEF ReviewInv, InOrder, Form
<1>4. /\ v \in Review!Codes \ {0}
      /\ v = sets[c].revision \/ (sets[c].revision = 0 /\ revisions[v] = "absent")
  <2>1. CASE sets[c].status = "applied"
    BY <1>1, <1>3, <2>1 DEF ReviewInv, CodesOwned
  <2>2. CASE sets[c].status = "draft"
    <3>1. sets[c].revision = 0
      BY <1>3, <2>2 DEF ReviewInv, CodesOwned
    <3> QED
      BY <1>3, <2>2, <3>1, NextCode
  <2> QED
    BY <1>3, <2>1, <2>2
<1> HIDE DEF c, v
<1>5. y \in [status : Review!SetStatuses, revision : Review!Codes]
  BY <1>4 DEF Review!SetStatuses
<1>6. y.status = "applied" /\ y.revision = v
  OBVIOUS
<1> HIDE DEF y
<1>7. /\ sets' \in [ChangeSets -> [status : Review!SetStatuses, revision : Review!Codes]]
      /\ sets'[c] = y /\ \A d \in ChangeSets \ {c} : sets'[d] = sets[d]
  BY <1>1, <1>2, <1>3, <1>5
<1>8. /\ revisions' \in [Review!Codes -> Review!RevisionStatuses]
      /\ \A k \in Review!Codes : revisions'[k] = "published" <=> k = v
      /\ \A k \in Review!Codes : revisions'[k] = "absent" <=> revisions[k] = "absent" /\ k # v
  BY <1>1, <1>2 DEF Review!RevisionStatuses
<1>9. /\ reviews' \in [Forms -> Form]
      /\ \A q \in Forms \ {r} : reviews'[q] = reviews[q]
  BY <1>1, <1>2
<1>10. Review!TypeOK'
  BY <1>2, <1>7, <1>8, <1>9 DEF ReviewInv, Review!TypeOK, Form, Review!Codes, Review!RunStatuses,
     Review!Gates, Review!SetStatuses, Review!RevisionStatuses
<1>11. OnePublished'
  BY <1>4, <1>8 DEF OnePublished, Review!Codes
<1>12. CodesOwned'
  <2>1. \A d \in ChangeSets \ {c} : sets[d].revision # v
    BY <1>3, <1>4 DEF ReviewInv, CodesOwned
  <2>2. ASSUME NEW d \in ChangeSets
        PROVE  /\ sets'[d].status \in {"absent", "draft"} => sets'[d].revision = 0
               /\ sets'[d].status = "applied" => sets'[d].revision # 0
               /\ sets'[d].revision # 0 => revisions'[sets'[d].revision] # "absent"
    <3>1. CASE d = c
      BY <1>4, <1>6, <1>7, <1>8, <3>1
    <3>2. CASE d # c
      BY <1>1, <1>7, <1>8, <3>2 DEF ReviewInv, CodesOwned
    <3> QED
      BY <3>1, <3>2
  <2>3. ASSUME NEW d \in ChangeSets, NEW e \in ChangeSets, sets'[d].revision = sets'[e].revision
        PROVE  d = e \/ sets'[d].revision = 0
    BY <1>6, <1>7, <2>1, <2>3 DEF ReviewInv, CodesOwned
  <2>4. ASSUME NEW k \in Review!Codes \ {0}, revisions'[k] # "absent"
        PROVE  \E d \in ChangeSets : sets'[d].revision = k
    <3>1. CASE k = v
      BY <1>3, <1>6, <1>7, <3>1
    <3>2. CASE k # v
      <4>1. PICK d \in ChangeSets : sets[d].revision = k
        BY <1>8, <2>4, <3>2 DEF ReviewInv, CodesOwned
      <4>2. d # c
        BY <1>4, <3>2, <4>1
      <4> QED
        BY <1>7, <4>1, <4>2
    <3> QED
      BY <3>1, <3>2
  <2>5. revisions'[0] # "absent"
    <3>1. 0 \in Review!Codes
      BY FormShapes
    <3> QED
      BY <1>8, <3>1 DEF ReviewInv, CodesOwned
  <2> QED
    BY <2>2, <2>3, <2>4, <2>5 DEF CodesOwned, Review!Codes
<1>13. InOrder(r)'
  BY <1>2, FormEnds
<1>14. ASSUME NEW q \in Forms \ {r} PROVE InOrder(q)'
  BY <1>3, <1>9 DEF InOrder, Review!InTransaction
<1> QED
  BY <1>2, <1>10, <1>11, <1>12, <1>13, <1>14 DEF ReviewInv

LEMMA ReviewStep == Review!LabReviewAssumption /\ ReviewInv /\ [Review!Next]_reviewVars => ReviewInv'
<1> SUFFICES ASSUME Review!LabReviewAssumption, ReviewInv, [Review!Next]_reviewVars
             PROVE  ReviewInv'
  OBVIOUS
<1>1. CASE UNCHANGED reviewVars
  BY <1>1 DEF reviewVars, ReviewInv, Review!TypeOK, CodesOwned, OnePublished, InOrder,
     Review!InTransaction, Review!Codes, Review!RunStatuses, Review!Gates, Review!SetStatuses,
     Review!RevisionStatuses
<1>2. CASE RunMoves
  BY <1>2, RunKeepsOrder
<1>3. ASSUME NEW r \in Forms, NEW c \in ChangeSets,
             Review!BeginApply(r, c) \/ Review!BeginReject(r, c)
      PROVE  ReviewInv'
  BY <1>3, FormsArrive
<1>4. ASSUME NEW r \in Forms, Review!LockPlan(r) PROVE ReviewInv'
  BY <1>4, LockPlanKeepsOrder
<1>5. ASSUME NEW r \in Forms, Review!OperationRefused(r) PROVE ReviewInv'
  <2>1. reviews' = [reviews EXCEPT ![r] = Review!Idle] /\ UNCHANGED <<run, sets, revisions>>
    BY <1>5 DEF Review!OperationRefused
  <2> QED
    BY <2>1, FormShapes, FormEnds, FormMoves
<1>6. ASSUME NEW r \in Forms, Review!SaveReject(r) PROVE ReviewInv'
  BY <1>6, SaveRejectKeepsOrder
<1>7. ASSUME NEW r \in Forms, Review!CommitApply(r) PROVE ReviewInv'
  BY <1>7, CommitApplyKeepsOrder
<1> QED
  BY <1>1, <1>2, <1>3, <1>4, <1>5, <1>6, <1>7 DEF RunMoves, Review!Next, Review!Finish

-----------------------------------------------------------------------------
(* What the desk promises. *)

LEMMA DeskIsSound ==
    ASSUME Review!LabReviewAssumption, ReviewInv
    PROVE  Review!DeskSound
<1>1. Review!TypeOK
  BY DEF ReviewInv
<1>2. Review!OneRevisionPerSet
  <2>1. sets \in [ChangeSets -> [status : Review!SetStatuses, revision : Review!Codes]]
    BY FormShapes
  <2>2. \A c \in ChangeSets : sets[c].revision # 0 => sets[c].status \in {"applied", "rejected"}
    BY <2>1 DEF ReviewInv, CodesOwned, Review!SetStatuses
  <2> QED
    BY <2>2 DEF ReviewInv, CodesOwned, Review!OneRevisionPerSet
<1>3. Review!AdviceSettled
  <2>1. Review!Verdict = "success sample" =>
          run.gate = "met" /\ \A c \in Review!Present : Review!IsNextBaseline(c)
    <3> SUFFICES ASSUME Review!Verdict = "success sample"
                 PROVE  run.gate = "met" /\ \A c \in Review!Present : Review!IsNextBaseline(c)
      OBVIOUS
    <3>1. run.status = "completed" /\ Review!Defective = {} /\ Review!Applicable = {}
      BY DEF Review!Verdict
    <3>2. \A c \in Review!Present : ~Review!ShownErrors(c) /\ ~Review!CanApply(c)
      BY <3>1 DEF Review!Defective, Review!Applicable
    <3> QED
      BY <3>1, <3>2 DEF ReviewInv, Review!CanApply
  <2>2. Review!DecisionHint = "archive" => \A c \in Review!Present : sets[c].status # "draft"
    <3> SUFFICES ASSUME Review!DecisionHint = "archive"
                 PROVE  \A c \in Review!Present : sets[c].status # "draft"
      OBVIOUS
    <3>1. Review!Defective = {} /\ Review!Applicable = {}
      BY DEF Review!DecisionHint
    <3>2. \A c \in Review!Present : ~Review!ShownErrors(c) /\ ~Review!CanApply(c)
      BY <3>1 DEF Review!Defective, Review!Applicable
    <3> QED
      BY <3>2 DEF Review!CanApply
  <2> QED
    BY <2>1, <2>2 DEF Review!AdviceSettled
<1>4. Review!RecommendedIsApplicable
  <2> SUFFICES ASSUME NEW c \in Review!Present,
                      Review!Recommendation(c) \in {"adopt", "review and adopt"}
               PROVE  sets[c].status = "draft" /\ ~Review!Invalid(c)
    BY DEF Review!RecommendedIsApplicable
  <2>1. sets[c].status \in Review!SetStatuses /\ sets[c].status # "absent"
    BY FormShapes DEF Review!Present
  <2>2. sets[c].status \notin {"rejected", "applied"} /\ ~Review!ShownErrors(c)
    BY DEF Review!Recommendation
  <2> QED
    BY <2>1, <2>2 DEF Review!SetStatuses, Review!ShownErrors
<1>5. Review!OneBaseline
  <2> DEFINE P == {k \in Review!Codes : revisions[k] = "published"}
  <2>1. PICK k \in Review!Codes : \A j \in Review!Codes : revisions[j] = "published" <=> j = k
    BY DEF ReviewInv, OnePublished
  <2>2. P = {k}
    BY <2>1
  <2>3. Cardinality(P) = 1
    BY <2>2, FS_Singleton
  <2> QED
    BY <2>3, ReviewCardinality DEF Review!OneBaseline
<1> QED
  BY <1>1, <1>2, <1>3, <1>4, <1>5 DEF Review!DeskSound

-----------------------------------------------------------------------------
(* The archive.  The rows keep their shape whoever dies or interferes; what a   *)
(* package says of its run needs a worker that is alone.                        *)

\* What a worker holds: a package under way, a run, or nothing of either.
Package == [pc : {"export", "count", "summary", "commit"}, run : Runs, round : Nat \ {0},
            status : Archive!FinishedRunStatuses \cup {"running"}, table : 1..2,
            content : Archive!Counts, count : Archive!Counts, summary : Archive!Counts]
RunJob == [pc : {"hour", "event", "last hour", "last event", "abort", "discard"}, run : Runs]
Waiting == [pc : {"idle", "start"}] \cup [pc : {"flush"}, force : BOOLEAN]

\* The summary is written after the last table.
WorkerOK(job) ==
    \/ job \in Package /\ (job.pc \in {"summary", "commit"} => job.table = 2)
    \/ job \in RunJob
    \/ job \in Waiting

ArchiveInv ==
    /\ crew \subseteq Workers
    /\ Archive!RowsOK
    /\ DOMAIN workers = Workers /\ \A w \in Workers : WorkerOK(workers[w])
    /\ Archive!SnapshotComplete

\* The files of a package hold what their counts say, but for the table under way, whose
\* rows are not yet counted.
Faithful(job) ==
    /\ job.pc = "start" => Archive!UnresolvedFinished = {}
    /\ job.pc \in {"export", "summary", "commit"} => job.content = job.count
    /\ job.pc = "count" => \A t \in Archive!TableNames :
          job.content[t] = IF t = Archive!RawTables[job.table] THEN Archive!TableRows(t)
                           ELSE job.count[t]
    /\ job.pc = "commit" => job.summary = Archive!RunRows(job.run)

AloneInv ==
    /\ \A w \in crew : Faithful(workers[w])
    /\ \A r \in Runs : snapshots[r] # Archive!None => Archive!Verifies(snapshots[r])

LEMMA TablesAre ==
    /\ Archive!TableNames = {"events", "turns"} /\ Len(Archive!RawTables) = 2
    /\ Archive!RawTables[1] = "events" /\ Archive!RawTables[2] = "turns"
<1>1. /\ Len(Archive!RawTables) = 2 /\ DOMAIN Archive!RawTables = {1, 2}
      /\ Archive!RawTables[1] = "events" /\ Archive!RawTables[2] = "turns"
  BY DEF Archive!RawTables
<1> QED
  BY <1>1 DEF Archive!TableNames

LEMMA ArchiveCardinality == \A S : Archive!Cardinality(S) = Cardinality(S)
BY DEF Cardinality, Archive!Cardinality

LEMMA RunsFinite == Archive!RunArchiveAssumption => IsFiniteSet(Runs)
BY DEF Archive!RunArchiveAssumption, IsFiniteSet, Archive!IsFiniteSet

RunRow == [status : Archive!FinishedRunStatuses \cup {"absent", "running", "gone"},
           broken : BOOLEAN, turns : Nat, events : Nat]

\* The rows of a table can be counted.
LEMMA TableRowsCounted ==
    ASSUME Archive!RunArchiveAssumption, runs \in [Runs -> RunRow], NEW t \in Archive!TableNames
    PROVE  Archive!TableRows(t) \in Nat
<1> DEFINE f == [r \in Runs |-> {r} \X (1..runs[r][t])]
           T == {f[r] : r \in Runs}
<1>1. IsFiniteSet(Runs)
  BY RunsFinite
<1>2. ASSUME NEW r \in Runs PROVE IsFiniteSet(f[r])
  <2>1. runs[r].events \in Nat /\ runs[r].turns \in Nat
    BY DEF RunRow
  <2>2. runs[r][t] \in Nat
    <3>1. CASE t = "events"
      BY <2>1, <3>1
    <3>2. CASE t = "turns"
      BY <2>1, <3>2
    <3> QED
      BY <3>1, <3>2, TablesAre
  <2>3. IsFiniteSet({r}) /\ IsFiniteSet(1..runs[r][t])
    <3>1. IsFiniteSet({r})
      BY FS_Singleton
    <3>2. \A n \in Nat : IsFiniteSet(1..n)
      BY FS_Interval
    <3> QED
      BY <2>2, <3>1, <3>2
  <2>4. IsFiniteSet({r} \X (1..runs[r][t]))
    BY <2>3, FS_Product
  <2> QED
    BY <2>4
<1>3. T = {{r} \X (1..runs[r][t]) : r \in Runs}
  OBVIOUS
<1>4. f \in Surjection(Runs, T)
  BY DEF Surjection
<1>5. \A U \in T : IsFiniteSet(U)
  BY <1>2
<1> HIDE DEF f, T
<1>6. IsFiniteSet(T)
  BY <1>1, <1>4, FS_Surjection
<1>7. Cardinality(UNION T) \in Nat
  BY <1>5, <1>6, FS_UNION, FS_CardinalityType
<1> QED
  BY <1>3, <1>7, ArchiveCardinality DEF Archive!TableRows

\* The next round follows the greatest one.
LEMMA NextRound ==
    ASSUME Archive!RunArchiveAssumption, Archive!RowsOK
    PROVE  Archive!NextSimulationRound \in Nat \ {0}
<1> DEFINE S == {r \in Runs : snapshots[r] # Archive!None}
           D == {r \in Runs : dispositions[r] # Archive!None}
           f == [r \in S |-> snapshots[r].round]
           g == [r \in D |-> dispositions[r].round]
           F == {f[r] : r \in S}
           G == {g[r] : r \in D}
           R == F \cup G \cup {0}
<1>1. IsFiniteSet(S) /\ IsFiniteSet(D)
  BY RunsFinite, FS_Subset
<1>2. f \in Surjection(S, F) /\ g \in Surjection(D, G)
  BY DEF Surjection
<1>3. F \subseteq Nat /\ G \subseteq Nat
  <2>1. \A r \in S : snapshots[r].round \in Nat
    BY DEF Archive!RowsOK, Archive!SimulationSnapshot
  <2>2. \A r \in D : dispositions[r].round \in Nat
    BY DEF Archive!RowsOK, Archive!SimulationRunDisposition
  <2> QED
    BY <2>1, <2>2
<1>4. /\ F = {snapshots[r].round : r \in {s \in Runs : snapshots[s] # Archive!None}}
      /\ G = {dispositions[r].round : r \in {s \in Runs : dispositions[s] # Archive!None}}
  OBVIOUS
<1> HIDE DEF S, D, f, g, F, G
<1>5. IsFiniteSet(F) /\ IsFiniteSet(G) /\ IsFiniteSet({0})
  BY <1>1, <1>2, FS_Surjection, FS_Singleton
<1>6. IsFiniteSet(R)
  BY <1>5, FS_Union
<1>7. R \in SUBSET Nat /\ R # {}
  BY <1>3
<1>8. R = ({snapshots[r].round : r \in {s \in Runs : snapshots[s] # Archive!None}}
           \cup {dispositions[r].round : r \in {s \in Runs : dispositions[s] # Archive!None}})
          \cup {0}
  BY <1>4
<1> HIDE DEF R
<1>9. PICK x \in R : Greatest(x, R)
  BY <1>6, <1>7, FiniteBounded DEF Bounded
<1>10. Archive!Max(R) \in R
  BY <1>9, Zenon DEF Archive!Max, Greatest
<1>11. Archive!NextSimulationRound = Archive!Max(R) + 1
  BY <1>8 DEF Archive!NextSimulationRound
<1>12. PICK m \in Nat : m = Archive!Max(R)
  BY <1>7, <1>10
<1>13. Archive!NextSimulationRound = m + 1
  BY <1>11, <1>12
<1> QED
  BY <1>13

-----------------------------------------------------------------------------
(* The steps of a worker. *)

LEMMA ArchiveShapes ==
    ASSUME ArchiveInv
    PROVE  /\ runs \in [Runs -> RunRow]
           /\ snapshots \in [Runs -> Archive!SimulationSnapshot \cup {Archive!None}]
           /\ dispositions \in [Runs -> Archive!SimulationRunDisposition \cup {Archive!None}]
BY DEF ArchiveInv, Archive!RowsOK, RunRow

LEMMA JobMoves ==
    ASSUME ArchiveInv, NEW w \in Workers, NEW x, WorkerOK(x), workers' = [workers EXCEPT ![w] = x],
           UNCHANGED <<snapshots, dispositions, crew>>, runs' \in [Runs -> RunRow]
    PROVE  ArchiveInv'
<1>1. DOMAIN workers' = Workers
  BY DEF ArchiveInv
<1>2. \A v \in Workers : workers'[v] = IF v = w THEN x ELSE workers[v]
  BY DEF ArchiveInv
<1>3. \A v \in Workers : WorkerOK(workers'[v])
  BY <1>2 DEF ArchiveInv
<1>4. Archive!RowsOK'
  BY ArchiveShapes DEF Archive!RowsOK, RunRow, Archive!FinishedRunStatuses, Archive!None,
     Archive!SimulationSnapshot, Archive!SimulationRunDisposition, Archive!Counts,
     Archive!TableNames, Archive!RawTables
<1>5. Archive!SnapshotComplete'
  BY DEF ArchiveInv, Archive!SnapshotComplete, Archive!None, Archive!RawTables
<1> QED
  BY <1>1, <1>3, <1>4, <1>5 DEF ArchiveInv

\* What a worker holds, by the step it is at.
LEMMA Jobs ==
    ASSUME NEW job, WorkerOK(job)
    PROVE  /\ job.pc \in {"export", "count", "summary", "commit"} => job \in Package
           /\ job.pc \in {"summary", "commit"} => job.table = 2
           /\ job.pc \in {"hour", "event", "last hour", "last event", "abort", "discard"} => job \in RunJob
BY DEF WorkerOK, Package, RunJob, Waiting

LEMMA IdleWaits == WorkerOK(Archive!Idle) /\ WorkerOK([pc |-> "start"])
<1>1. Archive!Idle \in Waiting /\ [pc |-> "start"] \in Waiting
  BY DEF Archive!Idle, Waiting
<1> QED
  BY <1>1 DEF WorkerOK

\* Steps that start, advance or flush runs, or only look at them.
WorkMoves(w) ==
    \/ Archive!StartCheck(w) \/ Archive!StartRun(w) \/ Archive!WriteTurn(w) \/ Archive!WriteEvent(w)
    \/ Archive!SaveOutcome(w) \/ Archive!AbortRun(w) \/ Archive!FlushWorld(w) \/ Archive!Die(w)
    \/ \E r \in Runs : Archive!BeginAbort(w, r) \/ Archive!BeginDiscard(w, r)
    \/ \E force \in BOOLEAN : Archive!ResetCheck(w, force)

LEMMA WorkKeepsRows ==
    ASSUME ArchiveInv, NEW w \in Workers, WorkMoves(w), UNCHANGED crew
    PROVE  ArchiveInv'
<1>1. runs \in [Runs -> RunRow] /\ WorkerOK(workers[w])
  BY ArchiveShapes DEF ArchiveInv
<1>2. CASE Archive!StartCheck(w)
  BY <1>1, <1>2, IdleWaits, JobMoves DEF Archive!StartCheck
<1>3. CASE Archive!StartRun(w)
  <2>1. PICK r \in Runs : /\ runs' = [runs EXCEPT ![r].status = "running"]
                         /\ workers' = [workers EXCEPT ![w] = [pc |-> "hour", run |-> r]]
                         /\ UNCHANGED <<snapshots, dispositions>>
    BY <1>3 DEF Archive!StartRun, Archive!Candidates, Archive!Running
  <2>2. runs' \in [Runs -> RunRow]
    BY <1>1, <2>1 DEF RunRow
  <2>3. WorkerOK([pc |-> "hour", run |-> r])
    BY DEF WorkerOK, RunJob
  <2> QED
    BY <2>1, <2>2, <2>3, JobMoves
<1>4. CASE Archive!WriteTurn(w)
  <2> DEFINE r == workers[w].run
             x == [workers[w] EXCEPT !.pc = IF @ = "hour" THEN "event" ELSE "last event"]
  <2>1. /\ workers[w] \in RunJob /\ runs' = [runs EXCEPT ![r].turns = @ + 1]
        /\ workers' = [workers EXCEPT ![w] = x]
        /\ UNCHANGED <<snapshots, dispositions>>
    BY <1>1, <1>4, Jobs DEF Archive!WriteTurn, ArchiveInv
  <2>2. x \in RunJob /\ r \in Runs
    BY <2>1 DEF RunJob
  <2>3. WorkerOK(x)
    BY <2>2 DEF WorkerOK
  <2> HIDE DEF r, x
  <2>4. runs' \in [Runs -> RunRow]
    BY <1>1, <2>1, <2>2 DEF RunRow
  <2> QED
    BY <2>1, <2>3, <2>4, JobMoves
<1>5. CASE Archive!WriteEvent(w)
  <2> DEFINE r == workers[w].run
             x == IF workers[w].pc = "event" THEN [workers[w] EXCEPT !.pc = "hour"] ELSE Archive!Idle
  <2>1. /\ workers[w] \in RunJob /\ runs' = [runs EXCEPT ![r].events = @ + 1]
        /\ workers' = [workers EXCEPT ![w] = x]
        /\ UNCHANGED <<snapshots, dispositions>>
    BY <1>1, <1>5, Jobs DEF Archive!WriteEvent, ArchiveInv
  <2>2. r \in Runs /\ [workers[w] EXCEPT !.pc = "hour"] \in RunJob
    BY <2>1 DEF RunJob
  <2>3. WorkerOK(x)
    BY <2>2, IdleWaits DEF WorkerOK
  <2> HIDE DEF r, x
  <2>4. runs' \in [Runs -> RunRow]
    BY <1>1, <2>1, <2>2 DEF RunRow
  <2> QED
    BY <2>1, <2>3, <2>4, JobMoves
<1>6. CASE Archive!SaveOutcome(w)
  <2> DEFINE r == workers[w].run
             x == [workers[w] EXCEPT !.pc = "last hour"]
  <2>1. /\ workers[w] \in RunJob /\ workers' = [workers EXCEPT ![w] = x]
        /\ \E outcome \in {"completed", "running", "failed"} :
              runs' = [runs EXCEPT ![r].status = outcome, ![r].broken = outcome = "failed"]
        /\ UNCHANGED <<snapshots, dispositions>>
    BY <1>1, <1>6, Jobs DEF Archive!SaveOutcome, ArchiveInv
  <2>2. x \in RunJob /\ r \in Runs
    BY <2>1 DEF RunJob
  <2>3. WorkerOK(x)
    BY <2>2 DEF WorkerOK
  <2> HIDE DEF r, x
  <2>4. PICK outcome \in {"completed", "running", "failed"} :
          runs' = [runs EXCEPT ![r].status = outcome, ![r].broken = outcome = "failed"]
    BY <2>1
  <2>5. runs' \in [Runs -> RunRow]
    BY <1>1, <2>2, <2>4 DEF RunRow, Archive!FinishedRunStatuses
  <2> QED
    BY <2>1, <2>3, <2>5, JobMoves
<1>7. CASE Archive!AbortRun(w)
  <2> DEFINE r == workers[w].run
             x == [workers[w] EXCEPT !.pc = "last hour"]
  <2>1. /\ workers[w] \in RunJob /\ workers' = [workers EXCEPT ![w] = x]
        /\ runs' = [runs EXCEPT ![r].status = "aborted"]
        /\ UNCHANGED <<snapshots, dispositions>>
    BY <1>1, <1>7, Jobs DEF Archive!AbortRun, ArchiveInv
  <2>2. x \in RunJob /\ r \in Runs
    BY <2>1 DEF RunJob
  <2>3. WorkerOK(x)
    BY <2>2 DEF WorkerOK
  <2> HIDE DEF r, x
  <2>4. runs' \in [Runs -> RunRow]
    BY <1>1, <2>1, <2>2 DEF RunRow, Archive!FinishedRunStatuses
  <2> QED
    BY <2>1, <2>3, <2>4, JobMoves
<1>8. CASE Archive!FlushWorld(w)
  <2>1. runs' \in [Runs -> RunRow]
    BY <1>1, <1>8 DEF Archive!FlushWorld, RunRow
  <2> QED
    BY <1>8, <2>1, IdleWaits, JobMoves DEF Archive!FlushWorld
<1>9. CASE Archive!Die(w)
  BY <1>1, <1>9, IdleWaits, JobMoves DEF Archive!Die
<1>10. ASSUME NEW r \in Runs, Archive!BeginAbort(w, r) \/ Archive!BeginDiscard(w, r) PROVE ArchiveInv'
  <2>1. PICK x \in RunJob : workers' = [workers EXCEPT ![w] = x]
    BY <1>10 DEF Archive!BeginAbort, Archive!BeginDiscard, RunJob
  <2>2. WorkerOK(x) /\ UNCHANGED <<runs, snapshots, dispositions>>
    BY <1>10 DEF WorkerOK, Archive!BeginAbort, Archive!BeginDiscard
  <2> QED
    BY <1>1, <2>1, <2>2, JobMoves
<1>11. ASSUME NEW force \in BOOLEAN, Archive!ResetCheck(w, force) PROVE ArchiveInv'
  <2>1. workers' = [workers EXCEPT ![w] = [pc |-> "flush", force |-> force]]
    BY <1>11 DEF Archive!ResetCheck
  <2>2. [pc |-> "flush", force |-> force] \in Waiting
    BY DEF Waiting
  <2>3. WorkerOK([pc |-> "flush", force |-> force]) /\ UNCHANGED <<runs, snapshots, dispositions>>
    BY <1>11, <2>2 DEF WorkerOK, Archive!ResetCheck
  <2> QED
    BY <1>1, <2>1, <2>3, JobMoves
<1> QED
  BY <1>2, <1>3, <1>4, <1>5, <1>6, <1>7, <1>8, <1>9, <1>10, <1>11 DEF WorkMoves

LEMMA PackingKeepsRows ==
    ASSUME Archive!RunArchiveAssumption, ArchiveInv, NEW w \in Workers, UNCHANGED crew,
           Archive!ExportTable(w) \/ Archive!CountTable(w) \/ Archive!WriteSummary(w)
    PROVE  ArchiveInv'
<1> DEFINE a == workers[w]
           t == Archive!RawTables[a.table]
           n == Archive!TableRows(t)
<1>1. /\ runs \in [Runs -> RunRow] /\ WorkerOK(a)
      /\ UNCHANGED <<runs, snapshots, dispositions>>
  BY ArchiveShapes DEF ArchiveInv, Archive!ExportTable, Archive!CountTable, Archive!WriteSummary
<1>2. a \in Package /\ (a.pc = "summary" => a.table = 2)
  BY <1>1, Jobs DEF Archive!ExportTable, Archive!CountTable, Archive!WriteSummary
<1>3. t \in Archive!TableNames
  <2>1. a.table = 1 \/ a.table = 2
    BY <1>2 DEF Package
  <2> QED
    BY <2>1, TablesAre
<1>4. n \in Nat
  BY <1>1, <1>3, TableRowsCounted
<1>5. /\ a.content \in [Archive!TableNames -> Nat] /\ a.count \in [Archive!TableNames -> Nat]
      /\ a.table \in 1..2 /\ a.run \in Runs
  BY <1>2 DEF Package, Archive!Counts
<1> HIDE DEF a, t, n
<1>6. CASE Archive!ExportTable(w)
  <2> DEFINE c == [a.content EXCEPT ![t] = n]
             x == [a EXCEPT !.pc = "count", !.content = c]
  <2>1. workers' = [workers EXCEPT ![w] = x]
    BY <1>2, <1>6 DEF Archive!ExportTable, ArchiveInv, a, t, n, Package
  <2>2. c \in Archive!Counts
    BY <1>3, <1>4, <1>5 DEF Archive!Counts
  <2> HIDE DEF c
  <2>3. x \in Package /\ x.pc = "count"
    BY <1>2, <2>2 DEF Package
  <2> HIDE DEF x
  <2>4. WorkerOK(x)
    BY <2>3 DEF WorkerOK
  <2> QED
    BY <1>1, <2>1, <2>4, JobMoves
<1>7. CASE Archive!CountTable(w)
  <2> DEFINE c == [a.count EXCEPT ![t] = n]
             step == IF a.table = 2 THEN "summary" ELSE "export"
             next == IF a.table = 2 THEN a.table ELSE a.table + 1
             x == [a EXCEPT !.pc = step, !.table = next, !.count = c]
  <2>1. workers' = [workers EXCEPT ![w] = x]
    BY <1>2, <1>7, TablesAre DEF Archive!CountTable, ArchiveInv, a, t, n, Package
  <2>2. c \in Archive!Counts
    BY <1>3, <1>4, <1>5 DEF Archive!Counts
  <2>3. step \in {"summary", "export"} /\ next \in 1..2 /\ (step = "summary" => next = 2)
    BY <1>5
  <2> HIDE DEF c, step, next
  <2>5. x \in Package /\ (x.pc = "summary" => x.table = 2) /\ x.pc # "commit"
    BY <1>2, <2>2, <2>3 DEF Package
  <2> HIDE DEF x
  <2>4. WorkerOK(x)
    BY <2>5 DEF WorkerOK
  <2> QED
    BY <1>1, <2>1, <2>4, JobMoves
<1>8. CASE Archive!WriteSummary(w)
  <2> DEFINE c == Archive!RunRows(a.run)
             x == [a EXCEPT !.pc = "commit", !.summary = c]
  <2>1. workers' = [workers EXCEPT ![w] = x] /\ a.table = 2
    BY <1>2, <1>8 DEF Archive!WriteSummary, ArchiveInv, a, Package
  <2>2. c \in Archive!Counts
    <3>1. runs[a.run].events \in Nat /\ runs[a.run].turns \in Nat
      BY <1>1, <1>5 DEF RunRow
    <3>2. \A u \in Archive!TableNames : runs[a.run][u] \in Nat
      BY <3>1, TablesAre
    <3> QED
      BY <3>2 DEF Archive!RunRows, Archive!Counts
  <2> HIDE DEF c
  <2>3. x \in Package /\ x.table = 2
    BY <1>2, <2>1, <2>2 DEF Package
  <2> HIDE DEF x
  <2>4. WorkerOK(x)
    BY <2>3 DEF WorkerOK
  <2> QED
    BY <1>1, <2>1, <2>4, JobMoves
<1> QED
  BY <1>6, <1>7, <1>8

\* A run that has a disposition keeps it, another one gets the one that is recorded.
Records(d, r, kind, round) ==
    /\ d \in [Runs -> Archive!SimulationRunDisposition \cup {Archive!None}]
    /\ \A q \in Runs : dispositions[q] # Archive!None \/ q # r => d[q] = dispositions[q]
    /\ dispositions[r] = Archive!None => d[r] = [kind |-> kind, round |-> round]
    /\ d[r] # Archive!None

LEMMA Recorded ==
    ASSUME ArchiveInv, NEW r \in Runs, NEW kind \in {"archived", "discarded"},
           NEW round \in Nat \ {0}
    PROVE  Records(Archive!RecordDisposition(r, kind, round), r, kind, round)
<1> DEFINE new == [kind |-> kind, round |-> round]
<1>1. dispositions \in [Runs -> Archive!SimulationRunDisposition \cup {Archive!None}]
  BY ArchiveShapes
<1>2. new \in Archive!SimulationRunDisposition /\ new # Archive!None
  BY DEF Archive!SimulationRunDisposition, Archive!None
<1>3. CASE dispositions[r] # Archive!None
  BY <1>1, <1>3 DEF Archive!RecordDisposition, Records
<1>4. CASE dispositions[r] = Archive!None
  <2>1. Archive!RecordDisposition(r, kind, round) = [dispositions EXCEPT ![r] = new]
    BY <1>4 DEF Archive!RecordDisposition
  <2> HIDE DEF new
  <2>2. new = [kind |-> kind, round |-> round]
    BY DEF new
  <2> QED
    BY <1>1, <1>2, <1>4, <2>1, <2>2 DEF Records
<1> QED
  BY <1>3, <1>4

\* A step that records a disposition and may save a snapshot of the same run.
LEMMA RecordMoves ==
    ASSUME ArchiveInv, NEW w \in Workers, WorkerOK(workers'[w]),
           \A v \in Workers \ {w} : workers'[v] = workers[v], DOMAIN workers' = Workers,
           UNCHANGED <<runs, crew>>, Archive!RowsOK', Archive!SnapshotComplete'
    PROVE  ArchiveInv'
BY DEF ArchiveInv

LEMMA BeginArchiveKeepsRows ==
    ASSUME Archive!RunArchiveAssumption, ArchiveInv, NEW w \in Workers, NEW r \in Runs,
           Archive!BeginArchive(w, r), UNCHANGED crew
    PROVE  ArchiveInv'
<1>1. /\ runs \in [Runs -> RunRow]
      /\ snapshots \in [Runs -> Archive!SimulationSnapshot \cup {Archive!None}]
      /\ UNCHANGED <<runs, snapshots>>
  BY ArchiveShapes DEF Archive!BeginArchive
<1>2. CASE snapshots[r] # Archive!None
  <2> DEFINE round == snapshots[r].round
  <2>1. round \in Nat \ {0}
    BY <1>1, <1>2 DEF Archive!SimulationSnapshot
  <2>2. dispositions' = Archive!RecordDisposition(r, "archived", round) /\ UNCHANGED workers
    BY <1>2 DEF Archive!BeginArchive
  <2>3. Records(dispositions', r, "archived", round)
    BY <2>1, <2>2, Recorded
  <2>4. Archive!RowsOK'
    BY <1>1, <2>3 DEF Records, Archive!RowsOK, RunRow, Archive!FinishedRunStatuses, Archive!None,
       Archive!SimulationSnapshot, Archive!SimulationRunDisposition, Archive!Counts,
       Archive!TableNames, Archive!RawTables
  <2>5. Archive!SnapshotComplete'
    BY <1>1, <1>2, <2>3 DEF ArchiveInv, Records, Archive!SnapshotComplete, Archive!None, Archive!RawTables
  <2> QED
    BY <1>1, <2>2, <2>4, <2>5 DEF ArchiveInv
<1>3. CASE snapshots[r] = Archive!None
  <2> DEFINE x == [pc |-> "export", run |-> r, round |-> Archive!NextSimulationRound,
                   status |-> runs[r].status, table |-> 1,
                   content |-> Archive!NoCounts, count |-> Archive!NoCounts,
                   summary |-> Archive!NoCounts]
  <2>1. workers' = [workers EXCEPT ![w] = x] /\ UNCHANGED dispositions /\ Archive!Exists(r)
    BY <1>3 DEF Archive!BeginArchive
  <2>2. Archive!NextSimulationRound \in Nat \ {0}
    BY NextRound DEF ArchiveInv
  <2>3. runs[r].status \in Archive!FinishedRunStatuses \cup {"running"}
    BY <1>1, <2>1 DEF Archive!Exists, RunRow
  <2>4. Archive!NoCounts \in Archive!Counts
    BY DEF Archive!NoCounts, Archive!Counts
  <2>5. x \in Package
    BY <2>2, <2>3, <2>4 DEF Package
  <2>6. WorkerOK(x)
    BY <2>5 DEF WorkerOK
  <2> HIDE DEF x
  <2> QED
    BY <1>1, <2>1, <2>6, JobMoves
<1> QED
  BY <1>2, <1>3

LEMMA SaveDiscardKeepsRows ==
    ASSUME Archive!RunArchiveAssumption, ArchiveInv, NEW w \in Workers,
           Archive!SaveDiscard(w), UNCHANGED crew
    PROVE  ArchiveInv'
<1> DEFINE r == workers[w].run
           round == Archive!NextSimulationRound
<1>1. /\ runs \in [Runs -> RunRow]
      /\ snapshots \in [Runs -> Archive!SimulationSnapshot \cup {Archive!None}]
      /\ UNCHANGED <<runs, snapshots>>
      /\ workers' = [workers EXCEPT ![w] = Archive!Idle]
      /\ dispositions' = Archive!RecordDisposition(r, "discarded", round)
  BY ArchiveShapes DEF Archive!SaveDiscard
<1>2. workers[w] \in RunJob
  BY Jobs DEF Archive!SaveDiscard, ArchiveInv
<1>3. r \in Runs /\ round \in Nat \ {0}
  BY <1>2, NextRound DEF RunJob, ArchiveInv
<1> HIDE DEF r, round
<1>4. Records(dispositions', r, "discarded", round)
  BY <1>1, <1>3, Recorded
<1>5. Archive!RowsOK'
  BY <1>1, <1>4 DEF Records, Archive!RowsOK, RunRow, Archive!FinishedRunStatuses, Archive!None,
     Archive!SimulationSnapshot, Archive!SimulationRunDisposition, Archive!Counts,
     Archive!TableNames, Archive!RawTables
<1>6. dispositions'[r] # Archive!None
  BY <1>4 DEF Records
<1>7. ASSUME NEW q \in Runs
      PROVE  /\ snapshots'[q] # Archive!None => /\ snapshots'[q].files = Len(Archive!RawTables)
                                                /\ dispositions'[q] # Archive!None
             /\ dispositions'[q].kind = "archived" =>
                    snapshots'[q] # Archive!None /\ snapshots'[q].round = dispositions'[q].round
  <2>1. CASE dispositions[q] # Archive!None \/ q # r
    <3>1. dispositions'[q] = dispositions[q]
      BY <1>4, <2>1 DEF Records
    <3> QED
      BY <1>1, <3>1 DEF ArchiveInv, Archive!SnapshotComplete
  <2>2. CASE dispositions[q] = Archive!None /\ q = r
    <3>1. dispositions'[q] = [kind |-> "discarded", round |-> round]
      BY <1>4, <2>2 DEF Records
    <3> QED
      BY <1>1, <1>6, <2>2, <3>1 DEF ArchiveInv, Archive!SnapshotComplete
  <2> QED
    BY <2>1, <2>2
<1>8. Archive!SnapshotComplete'
  BY <1>7 DEF Archive!SnapshotComplete, Archive!None, Archive!RawTables
<1> QED
  BY <1>1, <1>5, <1>8, IdleWaits, RecordMoves DEF ArchiveInv

LEMMA CommitArchiveKeepsRows ==
    ASSUME Archive!RunArchiveAssumption, ArchiveInv, NEW w \in Workers,
           Archive!CommitArchive(w), UNCHANGED crew
    PROVE  ArchiveInv'
<1> DEFINE a == workers[w]
           r == a.run
           s == [kind |-> "snapshot", round |-> a.round, status |-> a.status,
                 files |-> a.table, content |-> a.content, count |-> a.count,
                 summary |-> a.summary, items |-> Archive!RunRows(r)]
<1>1. /\ runs \in [Runs -> RunRow]
      /\ snapshots \in [Runs -> Archive!SimulationSnapshot \cup {Archive!None}]
      /\ dispositions \in [Runs -> Archive!SimulationRunDisposition \cup {Archive!None}]
      /\ UNCHANGED runs
      /\ workers' = [workers EXCEPT ![w] = Archive!Idle]
      /\ a.pc = "commit"
  BY ArchiveShapes DEF Archive!CommitArchive
<1>2. a \in Package /\ a.table = 2 /\ r \in Runs
  <2>1. WorkerOK(a)
    BY DEF ArchiveInv
  <2> HIDE DEF a
  <2>2. a \in Package /\ a.table = 2
    BY <1>1, <2>1, Jobs
  <2> QED
    BY <2>2 DEF Package
<1>3. CASE snapshots[r] # Archive!None
  <2>1. UNCHANGED <<snapshots, dispositions>>
    BY <1>3 DEF Archive!CommitArchive
  <2> QED
    BY <1>1, <2>1, IdleWaits, JobMoves
<1>4. CASE snapshots[r] = Archive!None
  <2>1. /\ snapshots' = [snapshots EXCEPT ![r] = s]
        /\ dispositions' = Archive!RecordDisposition(r, "archived", a.round)
    BY <1>4 DEF Archive!CommitArchive
  <2>2. Archive!RunRows(r) \in Archive!Counts
    <3>1. runs[r].events \in Nat /\ runs[r].turns \in Nat
      BY <1>1, <1>2 DEF RunRow
    <3>2. \A u \in Archive!TableNames : runs[r][u] \in Nat
      BY <3>1, TablesAre
    <3> QED
      BY <3>2 DEF Archive!RunRows, Archive!Counts
  <2>3. s \in Archive!SimulationSnapshot /\ s # Archive!None /\ s.round = a.round /\ s.files = 2
    BY <1>2, <2>2, TablesAre DEF Package, Archive!SimulationSnapshot, Archive!None
  <2>4. a.round \in Nat \ {0}
    BY <1>2 DEF Package
  <2> HIDE DEF a, r, s
  <2>5. Records(dispositions', r, "archived", a.round)
    BY <1>2, <2>1, <2>4, Recorded
  <2>6. /\ snapshots' \in [Runs -> Archive!SimulationSnapshot \cup {Archive!None}]
        /\ snapshots'[r] = s /\ \A q \in Runs \ {r} : snapshots'[q] = snapshots[q]
    BY <1>1, <1>2, <2>1, <2>3
  <2>7. Archive!RowsOK'
    BY <1>1, <2>5, <2>6 DEF Records, Archive!RowsOK, RunRow, Archive!FinishedRunStatuses, Archive!None,
       Archive!SimulationSnapshot, Archive!SimulationRunDisposition, Archive!Counts,
       Archive!TableNames, Archive!RawTables
  <2>8. ASSUME NEW q \in Runs
        PROVE  /\ snapshots'[q] # Archive!None => /\ snapshots'[q].files = Len(Archive!RawTables)
                                                  /\ dispositions'[q] # Archive!None
               /\ dispositions'[q].kind = "archived" =>
                      snapshots'[q] # Archive!None /\ snapshots'[q].round = dispositions'[q].round
    <3>1. CASE q # r
      <4>1. dispositions'[q] = dispositions[q] /\ snapshots'[q] = snapshots[q]
        BY <2>5, <2>6, <3>1 DEF Records
      <4> QED
        BY <4>1 DEF ArchiveInv, Archive!SnapshotComplete
    <3>2. CASE q = r
      <4>1. dispositions'[r] # Archive!None
        BY <2>5 DEF Records
      <4>2. dispositions'[r].kind = "archived" => dispositions'[r].round = a.round
        <5>1. CASE dispositions[r] = Archive!None
          BY <2>5, <5>1 DEF Records
        <5>2. CASE dispositions[r] # Archive!None
          <6>1. dispositions'[r] = dispositions[r]
            BY <1>2, <2>5, <5>2 DEF Records
          <6> QED
            BY <1>2, <1>4, <6>1 DEF ArchiveInv, Archive!SnapshotComplete
        <5> QED
          BY <5>1, <5>2
      <4> QED
        BY <2>3, <2>6, <3>2, <4>1, <4>2, TablesAre
    <3> QED
      BY <3>1, <3>2
  <2>9. Archive!SnapshotComplete'
    BY <2>8 DEF Archive!SnapshotComplete, Archive!None, Archive!RawTables
  <2> QED
    BY <1>1, <2>7, <2>9, IdleWaits, RecordMoves DEF ArchiveInv
<1> QED
  BY <1>3, <1>4

LEMMA ArchiveInit == Archive!RunArchiveAssumption /\ Archive!Init => ArchiveInv
<1> SUFFICES ASSUME Archive!Init PROVE ArchiveInv
  OBVIOUS
<1>1. runs \in [Runs -> RunRow]
  <2>1. PICK old \in SUBSET Runs :
          runs = [r \in Runs |-> [status |-> IF r \in old THEN "failed" ELSE "absent",
                                 broken |-> FALSE, turns |-> 0, events |-> 0]]
    BY DEF Archive!Init
  <2> QED
    BY <2>1 DEF RunRow, Archive!FinishedRunStatuses
<1>2. Archive!RowsOK
  BY <1>1 DEF Archive!RowsOK, RunRow, Archive!Init
<1>3. \A r \in Runs : snapshots[r] = Archive!None /\ dispositions[r].kind = "none"
  BY DEF Archive!Init, Archive!None
<1>4. Archive!SnapshotComplete
  BY <1>3 DEF Archive!SnapshotComplete
<1> QED
  BY <1>2, <1>4, IdleWaits DEF ArchiveInv, Archive!Init

LEMMA ArchiveStep ==
    Archive!RunArchiveAssumption /\ ArchiveInv /\ [Archive!Next]_archiveVars => ArchiveInv'
<1> SUFFICES ASSUME Archive!RunArchiveAssumption, ArchiveInv, [Archive!Next]_archiveVars
             PROVE  ArchiveInv'
  OBVIOUS
<1>1. CASE UNCHANGED archiveVars
  BY <1>1 DEF archiveVars, ArchiveInv, Archive!RowsOK, Archive!SnapshotComplete,
     Archive!FinishedRunStatuses, Archive!None, Archive!SimulationSnapshot,
     Archive!SimulationRunDisposition, Archive!Counts, Archive!TableNames, Archive!RawTables
<1>2. ASSUME Archive!Next PROVE ArchiveInv'
  <2>1. PICK w \in Workers :
          /\ UNCHANGED crew
          /\ \/ WorkMoves(w)
             \/ Archive!ExportTable(w) \/ Archive!CountTable(w) \/ Archive!WriteSummary(w)
             \/ \E r \in Runs : Archive!BeginArchive(w, r)
             \/ Archive!CommitArchive(w)
             \/ Archive!SaveDiscard(w)
    BY <1>2 DEF Archive!Next, Archive!Step, WorkMoves, ArchiveInv
  <2> QED
    BY <2>1, WorkKeepsRows, PackingKeepsRows, BeginArchiveKeepsRows, CommitArchiveKeepsRows,
       SaveDiscardKeepsRows
<1> QED
  BY <1>1, <1>2

-----------------------------------------------------------------------------
(* One worker. *)

AloneSteps == {"start", "export", "count", "summary", "commit"}

\* Steps after which the worker holds no package and has not looked for finished runs.
LEMMA AloneMoves ==
    ASSUME ArchiveInv, Archive!OneWorker, AloneInv, NEW w \in crew,
           workers'[w].pc \notin AloneSteps, UNCHANGED <<snapshots, crew>>
    PROVE  AloneInv'
<1>1. \A v \in crew : v = w
  BY DEF Archive!OneWorker
<1>2. Faithful(workers[w])'
  BY DEF Faithful, AloneSteps
<1>3. ASSUME NEW r \in Runs, snapshots'[r] # Archive!None PROVE Archive!Verifies(snapshots'[r])
  BY <1>3 DEF AloneInv
<1> QED
  BY <1>1, <1>2, <1>3 DEF AloneInv, Archive!Verifies, Archive!RawModelsVerify,
     Archive!NormalizedItemsVerify, Archive!None, Archive!RawTables

LEMMA AloneStep ==
    ASSUME Archive!RunArchiveAssumption, ArchiveInv, Archive!OneWorker, AloneInv,
           [Archive!Next]_archiveVars
    PROVE  AloneInv'
<1>1. CASE UNCHANGED archiveVars
  BY <1>1 DEF archiveVars, AloneInv, Faithful, Archive!TableNames, Archive!TableRows,
     Archive!RunRows, Archive!UnresolvedFinished, Archive!IsResolved, Archive!Continuable,
     Archive!FinishedRunStatuses, Archive!Verifies, Archive!RawModelsVerify,
     Archive!NormalizedItemsVerify, Archive!None, Archive!RawTables
<1>2. ASSUME Archive!Next PROVE AloneInv'
  <2>1. PICK w \in crew :
          /\ w \in Workers /\ UNCHANGED crew
          /\ \/ WorkMoves(w)
             \/ Archive!ExportTable(w) \/ Archive!CountTable(w) \/ Archive!WriteSummary(w)
             \/ \E r \in Runs : Archive!BeginArchive(w, r)
             \/ Archive!CommitArchive(w)
             \/ Archive!SaveDiscard(w)
    BY <1>2 DEF Archive!Next, Archive!Step, WorkMoves, ArchiveInv
  <2> DEFINE a == workers[w]
  <2>2. /\ DOMAIN workers = Workers /\ w \in Workers /\ WorkerOK(a) /\ Faithful(a)
        /\ runs \in [Runs -> RunRow]
        /\ snapshots \in [Runs -> Archive!SimulationSnapshot \cup {Archive!None}]
        /\ \A v \in crew : v = w
    BY <2>1, ArchiveShapes DEF ArchiveInv, AloneInv, Archive!OneWorker
  <2>3. ASSUME Faithful(workers[w])', UNCHANGED snapshots PROVE AloneInv'
    <3>1. \A r \in Runs : snapshots'[r] # Archive!None => Archive!Verifies(snapshots'[r])
      BY <2>3 DEF AloneInv
    <3> QED
      BY <2>1, <2>2, <2>3, <3>1 DEF AloneInv, Archive!Verifies, Archive!RawModelsVerify,
         Archive!NormalizedItemsVerify, Archive!None, Archive!RawTables
  <2>4. CASE Archive!StartCheck(w)
    <3>1. workers'[w].pc = "start" /\ UNCHANGED <<runs, snapshots, dispositions>>
          /\ Archive!UnresolvedFinished = {}
      BY <2>2, <2>4 DEF Archive!StartCheck
    <3>2. Archive!UnresolvedFinished' = {}
      BY <3>1 DEF Archive!UnresolvedFinished, Archive!IsResolved, Archive!Continuable,
         Archive!FinishedRunStatuses, Archive!None
    <3> QED
      BY <2>3, <3>1, <3>2 DEF Faithful
  <2>5. CASE WorkMoves(w) /\ ~Archive!StartCheck(w)
    <3>1. workers'[w].pc \notin AloneSteps
      <4>1. CASE Archive!StartRun(w)
        BY <2>2, <4>1 DEF Archive!StartRun, AloneSteps
      <4>2. CASE Archive!WriteTurn(w)
        <5>1. a \in RunJob
          BY <2>2, <4>2, Jobs DEF Archive!WriteTurn
        <5> QED
          BY <2>2, <4>2, <5>1 DEF Archive!WriteTurn, AloneSteps, RunJob
      <4>3. CASE Archive!WriteEvent(w)
        <5>1. a \in RunJob
          BY <2>2, <4>3, Jobs DEF Archive!WriteEvent
        <5> QED
          BY <2>2, <4>3, <5>1 DEF Archive!WriteEvent, AloneSteps, RunJob, Archive!Idle
      <4>4. CASE Archive!SaveOutcome(w) \/ Archive!AbortRun(w)
        <5>1. a \in RunJob /\ workers' = [workers EXCEPT ![w].pc = "last hour"]
          BY <2>2, <4>4, Jobs DEF Archive!SaveOutcome, Archive!AbortRun
        <5> QED
          BY <2>2, <5>1 DEF AloneSteps, RunJob
      <4>5. CASE Archive!FlushWorld(w) \/ Archive!Die(w)
        BY <2>2, <4>5 DEF Archive!FlushWorld, Archive!Die, Archive!Idle, AloneSteps
      <4>6. ASSUME NEW r \in Runs, Archive!BeginAbort(w, r) \/ Archive!BeginDiscard(w, r)
            PROVE  workers'[w].pc \notin AloneSteps
        BY <2>2, <4>6 DEF Archive!BeginAbort, Archive!BeginDiscard, AloneSteps
      <4>7. ASSUME NEW force \in BOOLEAN, Archive!ResetCheck(w, force)
            PROVE  workers'[w].pc \notin AloneSteps
        BY <2>2, <4>7 DEF Archive!ResetCheck, AloneSteps
      <4> QED
        BY <2>5, <4>1, <4>2, <4>3, <4>4, <4>5, <4>6, <4>7 DEF WorkMoves
    <3>2. UNCHANGED snapshots
      BY <2>5 DEF WorkMoves, Archive!StartRun, Archive!WriteTurn, Archive!WriteEvent,
         Archive!SaveOutcome, Archive!AbortRun, Archive!FlushWorld, Archive!Die,
         Archive!BeginAbort, Archive!BeginDiscard, Archive!ResetCheck
    <3> QED
      BY <2>1, <3>1, <3>2, AloneMoves
  <2>6. CASE Archive!SaveDiscard(w)
    <3>1. workers'[w].pc \notin AloneSteps /\ UNCHANGED snapshots
      BY <2>2, <2>6 DEF Archive!SaveDiscard, Archive!Idle, AloneSteps
    <3> QED
      BY <2>1, <3>1, AloneMoves
  <2>7. ASSUME NEW r \in Runs, Archive!BeginArchive(w, r) PROVE AloneInv'
    <3>1. CASE snapshots[r] # Archive!None
      <4>1. workers'[w].pc \notin AloneSteps /\ UNCHANGED snapshots
        BY <2>7, <3>1 DEF Archive!BeginArchive, AloneSteps
      <4> QED
        BY <2>1, <4>1, AloneMoves
    <3>2. CASE snapshots[r] = Archive!None
      <4>1. workers'[w].pc = "export" /\ workers'[w].content = workers'[w].count
            /\ UNCHANGED snapshots
        BY <2>2, <2>7, <3>2 DEF Archive!BeginArchive
      <4> QED
        BY <2>3, <4>1 DEF Faithful
    <3> QED
      BY <3>1, <3>2
  <2>8. CASE Archive!ExportTable(w) \/ Archive!CountTable(w) \/ Archive!WriteSummary(w)
    <3> DEFINE t == Archive!RawTables[a.table]
               n == Archive!TableRows(t)
    <3>1. a \in Package /\ UNCHANGED <<runs, snapshots>>
      BY <2>2, <2>8, Jobs DEF Archive!ExportTable, Archive!CountTable, Archive!WriteSummary
    <3>2. /\ a.content \in [Archive!TableNames -> Nat] /\ a.count \in [Archive!TableNames -> Nat]
          /\ a.table \in 1..2
      BY <3>1 DEF Package, Archive!Counts
    <3>3. t \in Archive!TableNames
      <4>1. a.table = 1 \/ a.table = 2
        BY <3>2
      <4> QED
        BY <4>1, TablesAre
    <3>4. /\ Archive!TableNames' = Archive!TableNames /\ Archive!RawTables' = Archive!RawTables
          /\ \A u : Archive!TableRows(u)' = Archive!TableRows(u)
          /\ \A r : Archive!RunRows(r)' = Archive!RunRows(r)
      BY <3>1 DEF Archive!TableNames, Archive!RawTables, Archive!TableRows, Archive!RunRows
    <3>5. CASE Archive!ExportTable(w)
      <4>1. /\ a.pc = "export"
            /\ workers'[w] = [a EXCEPT !.pc = "count", !.content = [@ EXCEPT ![t] = n]]
        BY <2>2, <3>1, <3>5 DEF Archive!ExportTable, Package
      <4>2. a.content = a.count
        BY <2>2, <4>1 DEF Faithful
      <4> HIDE DEF t, n
      <4>3. /\ workers'[w].pc = "count" /\ workers'[w].table = a.table
            /\ workers'[w].content = [a.content EXCEPT ![t] = n] /\ workers'[w].count = a.count
        BY <3>1, <4>1 DEF Package
      <4>4. \A u \in Archive!TableNames :
              workers'[w].content[u] = IF u = t THEN Archive!TableRows(u) ELSE workers'[w].count[u]
        BY <3>2, <3>3, <4>2, <4>3 DEF n
      <4>5. Faithful(workers[w])'
        BY <3>4, <4>3, <4>4 DEF Faithful, t
      <4> QED
        BY <2>3, <3>1, <4>5
    <3>6. CASE Archive!CountTable(w)
      <4>1. /\ a.pc = "count" /\ workers'[w].pc \in {"summary", "export"}
            /\ workers'[w].content = a.content
            /\ workers'[w].count = [a.count EXCEPT ![t] = n]
        BY <2>2, <3>1, <3>6 DEF Archive!CountTable, Package
      <4>2. \A u \in Archive!TableNames :
              a.content[u] = IF u = t THEN Archive!TableRows(u) ELSE a.count[u]
        BY <2>2, <4>1 DEF Faithful
      <4>3. a.content = [a.count EXCEPT ![t] = n]
        BY <3>2, <3>3, <4>2
      <4>4. Faithful(workers[w])'
        BY <4>1, <4>3 DEF Faithful
      <4> QED
        BY <2>3, <3>1, <4>4
    <3>7. CASE Archive!WriteSummary(w)
      <4>1. /\ a.pc = "summary" /\ workers'[w].pc = "commit" /\ workers'[w].content = a.content
            /\ workers'[w].count = a.count /\ workers'[w].run = a.run
            /\ workers'[w].summary = Archive!RunRows(a.run)
        BY <2>2, <3>1, <3>7 DEF Archive!WriteSummary, Package
      <4>2. a.content = a.count
        BY <2>2, <4>1 DEF Faithful
      <4>3. Faithful(workers[w])'
        BY <3>4, <4>1, <4>2 DEF Faithful
      <4> QED
        BY <2>3, <3>1, <4>3
    <3> QED
      BY <2>8, <3>5, <3>6, <3>7
  <2>9. CASE Archive!CommitArchive(w)
    <3> DEFINE s == [kind |-> "snapshot", round |-> a.round, status |-> a.status,
                     files |-> a.table, content |-> a.content, count |-> a.count,
                     summary |-> a.summary, items |-> Archive!RunRows(a.run)]
    <3>1. workers'[w].pc \notin AloneSteps /\ a.pc = "commit"
      BY <2>2, <2>9 DEF Archive!CommitArchive, Archive!Idle, AloneSteps
    <3>2. a.table = 2 /\ a.content = a.count /\ a.summary = Archive!RunRows(a.run) /\ a \in Package
      BY <2>2, <3>1, Jobs DEF Faithful
    <3>3. CASE snapshots[a.run] # Archive!None
      <4>1. UNCHANGED snapshots
        BY <2>9, <3>3 DEF Archive!CommitArchive
      <4> QED
        BY <2>1, <3>1, <4>1, AloneMoves
    <3>4. CASE snapshots[a.run] = Archive!None
      <4>1. snapshots' = [snapshots EXCEPT ![a.run] = s]
        BY <2>9, <3>4 DEF Archive!CommitArchive
      <4>2. Archive!Verifies(s)
        BY <3>2, TablesAre DEF Archive!Verifies, Archive!RawModelsVerify, Archive!NormalizedItemsVerify
      <4>3. a.run \in Runs
        BY <3>2 DEF Package
      <4> HIDE DEF s
      <4>4. \A r \in Runs : snapshots'[r] = IF r = a.run THEN s ELSE snapshots[r]
        BY <2>2, <4>1, <4>3
      <4>5. \A r \in Runs : snapshots'[r] # Archive!None => Archive!Verifies(snapshots'[r])
        BY <4>2, <4>4 DEF AloneInv
      <4>6. Faithful(workers[w])'
        BY <3>1 DEF Faithful, AloneSteps
      <4> QED
        BY <2>1, <2>2, <4>5, <4>6 DEF AloneInv, Archive!Verifies, Archive!RawModelsVerify,
           Archive!NormalizedItemsVerify, Archive!None, Archive!RawTables
    <3> QED
      BY <3>3, <3>4
  <2> QED
    BY <2>1, <2>4, <2>5, <2>6, <2>7, <2>8, <2>9
<1> QED
  BY <1>1, <1>2

LEMMA AloneInit == Archive!Init => AloneInv
BY DEF Archive!Init, AloneInv, Faithful, Archive!Idle

-----------------------------------------------------------------------------
(* What the archive promises. *)

LEMMA ArchiveIsSound ==
    ArchiveInv /\ (Archive!OneWorker => AloneInv) => Archive!ArchiveSound
BY DEF ArchiveInv, AloneInv, Archive!ArchiveSound, Archive!TypeOK, Archive!SnapshotVerifies

LEMMA DecisionsKept ==
    ASSUME Archive!RunArchiveAssumption, ArchiveInv, Archive!Next
    PROVE  Archive!DecisionsPermanent
<1>1. PICK w \in Workers :
        \/ WorkMoves(w)
        \/ Archive!ExportTable(w) \/ Archive!CountTable(w) \/ Archive!WriteSummary(w)
        \/ \E r \in Runs : Archive!BeginArchive(w, r)
        \/ Archive!CommitArchive(w)
        \/ Archive!SaveDiscard(w)
  BY DEF Archive!Next, Archive!Step, WorkMoves, ArchiveInv
<1> DEFINE a == workers[w]
<1>2. /\ snapshots \in [Runs -> Archive!SimulationSnapshot \cup {Archive!None}]
      /\ WorkerOK(a)
  BY ArchiveShapes DEF ArchiveInv
<1>3. CASE UNCHANGED <<snapshots, dispositions>>
  BY <1>3 DEF Archive!DecisionsPermanent
<1>4. ASSUME NEW r \in Runs, Archive!BeginArchive(w, r), snapshots[r] # Archive!None
      PROVE  Archive!DecisionsPermanent
  <2> DEFINE round == snapshots[r].round
  <2>1. round \in Nat \ {0}
    BY <1>2, <1>4 DEF Archive!SimulationSnapshot
  <2>2. dispositions' = Archive!RecordDisposition(r, "archived", round) /\ UNCHANGED snapshots
    BY <1>4 DEF Archive!BeginArchive
  <2>3. Records(dispositions', r, "archived", round)
    BY <2>1, <2>2, Recorded
  <2> QED
    BY <2>2, <2>3 DEF Records, Archive!DecisionsPermanent
<1>5. CASE Archive!SaveDiscard(w)
  <2> DEFINE r == a.run
             round == Archive!NextSimulationRound
  <2>1. a.pc = "discard" /\ UNCHANGED snapshots
        /\ dispositions' = Archive!RecordDisposition(r, "discarded", round)
    BY <1>5 DEF Archive!SaveDiscard
  <2>2. r \in Runs /\ round \in Nat \ {0}
    <3>1. a \in RunJob
      BY <1>2, <2>1, Jobs
    <3> QED
      BY <3>1, NextRound DEF RunJob, ArchiveInv
  <2>3. Records(dispositions', r, "discarded", round)
    BY <2>1, <2>2, Recorded
  <2> QED
    BY <2>1, <2>3 DEF Records, Archive!DecisionsPermanent
<1>6. CASE Archive!CommitArchive(w) /\ snapshots[a.run] = Archive!None
  <2> DEFINE s == [kind |-> "snapshot", round |-> a.round, status |-> a.status,
                   files |-> a.table, content |-> a.content, count |-> a.count,
                   summary |-> a.summary, items |-> Archive!RunRows(a.run)]
  <2>1. /\ a.pc = "commit" /\ snapshots' = [snapshots EXCEPT ![a.run] = s]
        /\ dispositions' = Archive!RecordDisposition(a.run, "archived", a.round)
    BY <1>6 DEF Archive!CommitArchive
  <2>2. a.run \in Runs /\ a.round \in Nat \ {0}
    <3>1. a \in Package
      BY <1>2, <2>1, Jobs
    <3> QED
      BY <3>1 DEF Package
  <2>3. Records(dispositions', a.run, "archived", a.round)
    BY <2>1, <2>2, Recorded
  <2> HIDE DEF s
  <2>4. \A r \in Runs : snapshots[r] # Archive!None => snapshots'[r] = snapshots[r]
    BY <1>2, <1>6, <2>1
  <2> QED
    BY <2>3, <2>4 DEF Records, Archive!DecisionsPermanent
<1>7. ASSUME WorkMoves(w) PROVE UNCHANGED <<snapshots, dispositions>>
  BY <1>7 DEF WorkMoves, Archive!StartCheck, Archive!StartRun, Archive!WriteTurn, Archive!WriteEvent,
     Archive!SaveOutcome, Archive!AbortRun, Archive!FlushWorld, Archive!Die,
     Archive!BeginAbort, Archive!BeginDiscard, Archive!ResetCheck
<1>8. ASSUME Archive!ExportTable(w) \/ Archive!CountTable(w) \/ Archive!WriteSummary(w)
      PROVE  UNCHANGED <<snapshots, dispositions>>
  BY <1>8 DEF Archive!ExportTable, Archive!CountTable, Archive!WriteSummary
<1>9. ASSUME NEW r \in Runs, Archive!BeginArchive(w, r), snapshots[r] = Archive!None
      PROVE  UNCHANGED <<snapshots, dispositions>>
  BY <1>9 DEF Archive!BeginArchive
<1>10. ASSUME Archive!CommitArchive(w), snapshots[a.run] # Archive!None
       PROVE  UNCHANGED <<snapshots, dispositions>>
  BY <1>10 DEF Archive!CommitArchive
<1> QED
  BY <1>1, <1>3, <1>4, <1>5, <1>6, <1>7, <1>8, <1>9, <1>10

\* A run that is there is not started.
LEMMA FinishedFirst ==
    ASSUME ArchiveInv, Archive!OneWorker, AloneInv, Archive!Next
    PROVE  Archive!DispositionBeforeNext
<1> SUFFICES ASSUME NEW r \in Runs, runs[r].status = "absent", runs'[r].status = "running"
             PROVE  Archive!UnresolvedFinished = {}
  BY DEF Archive!DispositionBeforeNext
<1>1. PICK w \in crew :
        \/ WorkMoves(w)
        \/ Archive!ExportTable(w) \/ Archive!CountTable(w) \/ Archive!WriteSummary(w)
        \/ \E q \in Runs : Archive!BeginArchive(w, q)
        \/ Archive!CommitArchive(w)
        \/ Archive!SaveDiscard(w)
  BY DEF Archive!Next, Archive!Step, WorkMoves
<1>2. runs \in [Runs -> RunRow] /\ WorkerOK(workers[w]) /\ Faithful(workers[w])
  BY <1>1, ArchiveShapes DEF ArchiveInv, AloneInv
<1>3. ~UNCHANGED runs
  OBVIOUS
<1>4. CASE Archive!StartRun(w)
  BY <1>2, <1>4 DEF Archive!StartRun, Faithful
<1>5. ~Archive!WriteTurn(w) /\ ~Archive!WriteEvent(w)
  <2>1. ASSUME Archive!WriteTurn(w) \/ Archive!WriteEvent(w) PROVE runs'[r].status = runs[r].status
    <3>1. workers[w] \in RunJob
      BY <1>2, <2>1, Jobs DEF Archive!WriteTurn, Archive!WriteEvent
    <3>2. workers[w].run \in Runs
      BY <3>1 DEF RunJob
    <3>3. CASE Archive!WriteTurn(w)
      BY <1>2, <3>2, <3>3 DEF Archive!WriteTurn, RunRow
    <3>4. CASE Archive!WriteEvent(w)
      BY <1>2, <3>2, <3>4 DEF Archive!WriteEvent, RunRow
    <3> QED
      BY <2>1, <3>3, <3>4
  <2> QED
    BY <2>1
<1>6. ~Archive!SaveOutcome(w) /\ ~Archive!AbortRun(w)
  <2>1. ASSUME Archive!SaveOutcome(w) \/ Archive!AbortRun(w) PROVE FALSE
    <3>1. workers[w] \in RunJob /\ Archive!Exists(workers[w].run)
      BY <1>2, <2>1, Jobs DEF Archive!SaveOutcome, Archive!AbortRun
    <3>2. workers[w].run \in Runs /\ workers[w].run # r
      BY <3>1 DEF RunJob, Archive!Exists
    <3>3. runs'[r] = runs[r]
      BY <1>2, <2>1, <3>2 DEF Archive!SaveOutcome, Archive!AbortRun
    <3> QED
      BY <3>3
  <2> QED
    BY <2>1
<1>7. ~Archive!FlushWorld(w)
  BY <1>2 DEF Archive!FlushWorld
<1> QED
  BY <1>1, <1>3, <1>4, <1>5, <1>6, <1>7 DEF WorkMoves, Archive!StartCheck, Archive!Die,
     Archive!BeginAbort, Archive!BeginDiscard, Archive!ResetCheck, Archive!ExportTable,
     Archive!CountTable, Archive!WriteSummary, Archive!BeginArchive, Archive!CommitArchive,
     Archive!SaveDiscard

-----------------------------------------------------------------------------
(* The two together. *)

\* The archive: rows keep their shape, and packages are faithful where requests come one
\* at a time.
ArchiveOrder == ArchiveInv /\ (Archive!OneWorker => AloneInv)

LEMMA LabPartsBehave == LabSpec => Review!Spec /\ Archive!Spec
<1>1. LabInit => Review!Init /\ Archive!Init
  BY DEF LabInit
<1>2. [LabNext]_labVars => [Review!Next]_(Review!vars) /\ [Archive!Next]_(Archive!vars)
  BY DEF LabNext, labVars, reviewVars, archiveVars, engineVars, Review!vars, Archive!vars
<1> QED
  BY <1>1, <1>2, PTL DEF LabSpec, Review!Spec, Archive!Spec

LEMMA DeskAlwaysInOrder == Review!LabReviewAssumption => (Review!Spec => []ReviewInv)
<1> SUFFICES ASSUME Review!LabReviewAssumption PROVE Review!Spec => []ReviewInv
  OBVIOUS
<1>1. Review!Init => ReviewInv
  BY ReviewInit
<1>2. ReviewInv /\ [Review!Next]_(Review!vars) => ReviewInv'
  <2> SUFFICES ASSUME ReviewInv, [Review!Next]_(Review!vars) PROVE ReviewInv'
    OBVIOUS
  <2>1. [Review!Next]_reviewVars
    BY DEF reviewVars, Review!vars
  <2> QED
    BY <2>1, ReviewStep
<1> QED
  BY <1>1, <1>2, PTL DEF Review!Spec

LEMMA ArchiveAlwaysInOrder == Archive!RunArchiveAssumption => (Archive!Spec => []ArchiveOrder)
<1> SUFFICES ASSUME Archive!RunArchiveAssumption PROVE Archive!Spec => []ArchiveOrder
  OBVIOUS
<1>1. Archive!Init => ArchiveOrder
  BY ArchiveInit, AloneInit DEF ArchiveOrder
<1>2. ArchiveOrder /\ [Archive!Next]_(Archive!vars) => ArchiveOrder'
  <2> SUFFICES ASSUME ArchiveOrder, [Archive!Next]_(Archive!vars) PROVE ArchiveOrder'
    OBVIOUS
  <2>1. [Archive!Next]_archiveVars
    BY DEF archiveVars, Archive!vars
  <2>2. UNCHANGED crew
    BY DEF Archive!Next, Archive!vars
  <2>3. Archive!OneWorker' <=> Archive!OneWorker
    BY <2>2 DEF Archive!OneWorker
  <2> QED
    BY <2>1, <2>3, ArchiveStep, AloneStep DEF ArchiveOrder
<1> QED
  BY <1>1, <1>2, PTL DEF Archive!Spec

\* LabReview and RunArchive: the plan has one published baseline, whichever change sets are
\* applied, applied again or rejected at the same time; revisions belong to one change set
\* each, the page advises truly; a snapshot is complete, and verifies where requests come
\* one at a time.
THEOREM LabIsSound == LabSpec => []DeskSound
<1>1. ReviewInv /\ ArchiveOrder => DeskSound
  BY LabAssumption, DeskIsSound, ArchiveIsSound DEF LabAssumption, ArchiveOrder, DeskSound
<1> QED
  BY <1>1, LabPartsBehave, LabAssumption, DeskAlwaysInOrder, ArchiveAlwaysInOrder, PTL
     DEF LabAssumption

\* RunArchive: no later decision changes a snapshot or a disposition, and no run starts
\* before the finished ones have theirs, where requests come one at a time.
THEOREM DispositionsAreFinal == LabSpec => DispositionsStand
<1>1. Archive!RunArchiveAssumption
  BY LabAssumption DEF LabAssumption
<1>2. ArchiveOrder /\ [Archive!Next]_(Archive!vars)
        => [Archive!DecisionsPermanent
            /\ (Archive!OneWorker => Archive!DispositionBeforeNext)]_(Archive!vars)
  BY <1>1, DecisionsKept, FinishedFirst DEF ArchiveOrder
<1> QED
  BY <1>1, <1>2, LabPartsBehave, ArchiveAlwaysInOrder, PTL
     DEF Archive!Spec, DispositionsStand, Archive!DispositionsStand

=============================================================================

--------------------------- MODULE WorldLifecycle ---------------------------
(***************************************************************************)
(* The registry of worlds in the control database, and the commands that   *)
(* create, archive, delete, migrate, seed and reset a world                *)
(* (worlds/lifecycle.py, worlds/management/commands, simulation/           *)
(* world_reset.py), beside requests that are bound to a world and write    *)
(* its rows and files.                                                     *)
(*                                                                         *)
(* An operator is a management command or a click in the lab.  Archiving   *)
(* and deleting lock the registry row and are one step each; everything    *)
(* else reads the row, goes on without a lock and may die between steps.   *)
(***************************************************************************)
EXTENDS Integers, Sequences, FiniteSets

CONSTANTS
    Worlds,      \* world ids
    RealWorld,   \* DEFAULT_REALWORLD_ID
    Aliases,     \* WORLD_DATABASE_ALIASES; the control database is not among them
    Operators,   \* commands and clicks that may be in progress
    Requests,    \* requests in progress at a time
    Storages,    \* the storages of runtime objects
    Crashes,     \* processes die between two steps
    MaxSeeds,    \* bound: seeds that are begun
    MaxResets    \* bound: resets that are begun

WorldAssumption ==
    /\ RealWorld \in Worlds
    /\ IsFiniteSet(Worlds) /\ IsFiniteSet(Aliases) /\ IsFiniteSet(Storages)
    /\ Crashes \in BOOLEAN
    /\ MaxSeeds \in Nat /\ MaxResets \in Nat

VARIABLES
    env,        \* what surrounds the worlds, settled when the system starts
    registry,   \* world -> WorldRegistry row
    dbs,        \* alias -> what its database holds
    files,      \* world -> storages that hold objects under the prefix of the world
    log,        \* WorldMaintenanceLog rows
    begun,      \* seeds and resets begun so far
    op,         \* operator -> the command it is in
    req         \* request -> the world context it is bound to

vars == <<env, registry, dbs, files, log, begun, op, req>>

WorldTypes == {"real", "simulation"}

\* Whether a simulation administrator is configured, who operates, and whether operators
\* register worlds under another type too.
Surroundings == [administrator : {"off", "on", "invalid"}, staff : SUBSET Operators,
                 retype : BOOLEAN]
Baseline == {"plan", "policy", "exam", "demo"}

\* WorldRegistry, the name and the times left out.
WorldRegistry == [type : WorldTypes, alias : Aliases, status : {"active", "archived", "deleted"}]
Unregistered == [status |-> "absent"]

\* WorldMaintenanceLog: the outcome, and what the database was counted to hold.
WorldMaintenanceLog == [world : Worlds, status : {"succeeded", "failed"},
                        after : SUBSET (Baseline \cup {"administrator"})]

\* A world database: its tables exist, the worlds whose members wrote business rows,
\* the parts of a baseline that are in place, and the member with the number of the
\* configured administrator ("taken": it belongs to another account).
Databases == [schema : BOOLEAN, rows : SUBSET Worlds, baseline : SUBSET Baseline,
              administrator : {"none", "active", "suspended", "taken"}]

Idle == [pc |-> "idle"]
Unbound == [pc |-> "idle"]

Registered(w) == registry[w] # Unregistered
IsActive(w) == registry[w].status = "active"

-----------------------------------------------------------------------------
(* The registry. *)

\* A plausible bug: an archived world gives up its database as a deleted one does.
AliasOwnersActive(w, a) ==
    {v \in Worlds \ {w} : Registered(v) /\ registry[v].alias = a /\ IsActive(v)}

\* create_world_registry: the other world, if any, that keeps an alias.
AliasOwners(w, a) ==
    {v \in Worlds \ {w} : /\ Registered(v)
                          /\ registry[v].alias = a
                          /\ registry[v].status # "deleted"}

TypesFor(w) ==
    IF env.retype THEN WorldTypes ELSE {IF w = RealWorld THEN "real" ELSE "simulation"}

Init ==
    /\ env \in Surroundings
    /\ \E a \in Aliases :
         registry = [w \in Worlds |-> IF w = RealWorld
                                      THEN [type |-> "real", alias |-> a, status |-> "active"]
                                      ELSE Unregistered]
    /\ dbs = [a \in Aliases |-> [schema |-> FALSE, rows |-> {}, baseline |-> {},
                             administrator |-> "none"]]
    /\ files = [w \in Worlds |-> {}]
    /\ log = <<>>
    /\ begun = [seeds |-> 0, resets |-> 0]
    /\ op = [o \in Operators |-> Idle]
    /\ req = [q \in Requests |-> Unbound]

\* create_world: the alias is looked up outside the transaction that writes the row.
CreateCheck(o, w, type, a) ==
    /\ op[o] = Idle
    /\ type \in TypesFor(w)
    /\ AliasOwners(w, a) = {}
    /\ op' = [op EXCEPT ![o] = [pc |-> "create", world |-> w,
                                row |-> [type |-> type, alias |-> a, status |-> "active"]]]
    /\ UNCHANGED <<env, registry, dbs, files, log, begun, req>>

\* get_or_create, or an update that also reactivates an archived or deleted world.
CreateCommit(o) ==
    /\ op[o].pc = "create"
    /\ registry' = [registry EXCEPT ![op[o].world] = op[o].row]
    /\ op' = [op EXCEPT ![o] = Idle]
    /\ UNCHANGED <<env, dbs, files, log, begun, req>>

\* A plausible bug: the real world is recognised by its type only.
IsRealWorldByType(w) == registry[w].type = "real"

\* ensure_not_realworld.
IsRealWorld(w) == w = RealWorld \/ registry[w].type = "real"

\* A plausible bug: the status is stored under a name that is not among the choices.
ArchiveWorldRenamed(o, w) ==
    /\ op[o] = Idle
    /\ Registered(w) /\ ~IsRealWorld(w)
    /\ registry[w].status = "active"
    /\ registry' = [registry EXCEPT ![w].status = "closed"]
    /\ UNCHANGED <<env, dbs, files, log, begun, op, req>>

\* archive_world.
ArchiveWorld(o, w) ==
    /\ op[o] = Idle
    /\ Registered(w) /\ ~IsRealWorld(w)
    /\ registry[w].status = "active"
    /\ registry' = [registry EXCEPT ![w].status = "archived"]
    /\ UNCHANGED <<env, dbs, files, log, begun, op, req>>

\* delete_world: the database stays.
DeleteWorld(o, w) ==
    /\ op[o] = Idle
    /\ Registered(w) /\ ~IsRealWorld(w)
    /\ registry[w].status = "archived"
    /\ registry' = [registry EXCEPT ![w].status = "deleted"]
    /\ UNCHANGED <<env, dbs, files, log, begun, op, req>>

\* migrate_world.
MigrateWorld(o, w) ==
    /\ op[o] = Idle
    /\ IsActive(w)
    /\ dbs' = [dbs EXCEPT ![registry[w].alias].schema = TRUE]
    /\ UNCHANGED <<env, registry, files, log, begun, op, req>>

-----------------------------------------------------------------------------
(* Requests.  The context is bound once and kept for the whole request. *)

\* get_world_registry and context_from_registry.
BindWorldContext(q, w) ==
    /\ req[q] = Unbound
    /\ IsActive(w)
    /\ req' = [req EXCEPT ![q] = [pc |-> "bound", world |-> w, alias |-> registry[w].alias]]
    /\ UNCHANGED <<env, registry, dbs, files, log, begun, op>>

\* A view stores an object under the prefix of its world and a row in its database,
\* which the router finds by the context.
WriteRows(q) ==
    LET c == req[q] IN
    /\ c.pc = "bound"
    /\ dbs[c.alias].schema
    /\ dbs' = [dbs EXCEPT ![c.alias].rows = @ \cup {c.world}]
    /\ \E stored \in SUBSET Storages :
         files' = [files EXCEPT ![c.world] = @ \cup stored]
    /\ UNCHANGED <<env, registry, log, begun, op, req>>

\* A view registers an account under the number of the administrator, or suspends the
\* administrator.
ChangeMember(q) ==
    LET c == req[q] IN
    /\ c.pc = "bound"
    /\ dbs[c.alias].schema
    /\ dbs[c.alias].administrator \in {"none", "active"}
    /\ dbs' = [dbs EXCEPT ![c.alias].administrator = IF @ = "none" THEN "taken" ELSE "suspended"]
    /\ UNCHANGED <<env, registry, files, log, begun, op, req>>

\* The context variable is reset when the request ends, however it ends.
EndRequest(q) ==
    /\ req[q] # Unbound
    /\ req' = [req EXCEPT ![q] = Unbound]
    /\ UNCHANGED <<env, registry, dbs, files, log, begun, op>>

-----------------------------------------------------------------------------
(* Seeding.  A command raises CommandError, which a reset logs, or any     *)
(* other exception, which nobody logs.                                     *)

Fail(o, error, after) ==
    /\ op' = [op EXCEPT ![o] = Idle]
    /\ log' = IF op[o].reset /\ error = "CommandError"
              THEN Append(log, [world |-> op[o].world, status |-> "failed", after |-> after])
              ELSE log

\* The steps of seed_world, in order.
SeedPlan(template) ==
    LET IfBootstrap(step) == IF env.administrator = "on" THEN <<step>> ELSE <<>>
    IN  IF template = "demo" THEN <<"demo">> \o IfBootstrap("administrator") \o <<"exam">>
        ELSE IfBootstrap("administrator") \o <<"plan">> \o IfBootstrap("policy") \o <<"exam">>

\* A plausible bug: any active world may be reset.
IsActiveSimulationAnyType(w) == IsActive(w)

IsActiveSimulation(w) == IsActive(w) /\ registry[w].type = "simulation"

\* seed_world reads the row once and binds its context; a configuration without user
\* name or password is refused before anything is written.
MaySeed(w) == IsActiveSimulation(w) /\ env.administrator # "invalid"

SeedWorld(o, w, template) ==
    /\ op[o] = Idle
    /\ begun.seeds < MaxSeeds
    /\ MaySeed(w)
    /\ begun' = [begun EXCEPT !.seeds = @ + 1]
    /\ op' = [op EXCEPT ![o] = [pc |-> "seed", world |-> w, alias |-> registry[w].alias,
                                reset |-> FALSE, steps |-> SeedPlan(template)]]
    /\ UNCHANGED <<env, registry, dbs, files, log, req>>

\* bootstrap_world reads the row again and follows it; the admission policy needs the
\* member that bootstrap_world made.
SeedTarget(o) ==
    IF Head(op[o].steps) = "administrator" THEN registry[op[o].world].alias ELSE op[o].alias

StepPossible(o) ==
    /\ Head(op[o].steps) = "administrator" => IsActive(op[o].world)
    /\ Head(op[o].steps) = "policy" => dbs[op[o].alias].administrator = "active"
    /\ dbs[SeedTarget(o)].schema
    /\ Head(op[o].steps) = "administrator" => dbs[SeedTarget(o)].administrator # "taken"

\* _ensure_world_administrator reactivates the member and its assignment.
SeedInto(d, step) ==
    IF step = "administrator" THEN [d EXCEPT !.administrator = "active"]
    ELSE [d EXCEPT !.baseline = @ \cup {step}]

\* bootstrap_world on its own, for the real world too.
BootstrapWorld(o, w) ==
    /\ op[o] = Idle
    /\ begun.seeds < MaxSeeds
    /\ IsActive(w)
    /\ begun' = [begun EXCEPT !.seeds = @ + 1]
    /\ op' = [op EXCEPT ![o] = [pc |-> "seed", world |-> w, alias |-> registry[w].alias,
                                reset |-> FALSE, steps |-> <<"administrator">>]]
    /\ UNCHANGED <<env, registry, dbs, files, log, req>>

\* One step of the seed: a transaction of the world database.
SeedStep(o) ==
    LET s == op[o].steps IN
    /\ op[o].pc = "seed" /\ s # <<>>
    /\ StepPossible(o)
    /\ dbs' = [dbs EXCEPT ![SeedTarget(o)] = SeedInto(@, Head(s))]
    /\ op' = [op EXCEPT ![o].steps = Tail(s)]
    /\ UNCHANGED <<env, registry, files, log, begun, req>>

\* A plausible bug: the exception of a step is swallowed and the next step follows.
SeedFailsQuietly(o) ==
    /\ op[o].pc = "seed" /\ op[o].steps # <<>>
    /\ op' = [op EXCEPT ![o].steps = Tail(@)]
    /\ UNCHANGED <<env, registry, dbs, files, log, begun, req>>

\* A step fails: bootstrap_world on its own checks, with CommandError; the others with
\* whatever the database or the domain raises.
SeedFails(o) ==
    /\ op[o].pc = "seed" /\ op[o].steps # <<>>
    /\ \E error \in (IF Head(op[o].steps) = "administrator" THEN {"CommandError", "other"}
                     ELSE {"other"}) : Fail(o, error, {})
    /\ UNCHANGED <<env, registry, dbs, files, begun, req>>

SeedEnds(o) ==
    /\ op[o].pc = "seed" /\ op[o].steps = <<>>
    /\ op' = [op EXCEPT ![o] = IF @.reset THEN [@ EXCEPT !.pc = "count"] ELSE Idle]
    /\ UNCHANGED <<env, registry, dbs, files, log, begun, req>>

-----------------------------------------------------------------------------
(* Resetting a simulation world to zero_start. *)

\* lab_reset_world and the checks of reset_simulation_world_to_zero_start; the counts
\* need the tables.  The guard on open runs is part of RunArchive.
ResetBegin(o, w) ==
    /\ op[o] = Idle
    /\ begun.resets < MaxResets
    /\ IsActiveSimulation(w)
    /\ dbs[registry[w].alias].schema
    /\ begun' = [begun EXCEPT !.resets = @ + 1]
    /\ op' = [op EXCEPT ![o] = [pc |-> "clean", world |-> w, alias |-> registry[w].alias,
                                row |-> registry[w], reset |-> TRUE,
                                storages |-> Storages, steps |-> <<>>]]
    /\ UNCHANGED <<env, registry, dbs, files, log, req>>

\* clean_simulation_world_runtime, one storage at a time.
CleanStorage(o) ==
    /\ op[o].pc = "clean"
    /\ \E s \in op[o].storages :
         /\ files' = [files EXCEPT ![op[o].world] = @ \ {s}]
         /\ op' = [op EXCEPT ![o].storages = @ \ {s},
                             ![o].pc = IF op[o].storages = {s} THEN "flush" ELSE "clean"]
    /\ UNCHANGED <<env, registry, dbs, log, begun, req>>

CleanFails(o) ==
    /\ op[o].pc = "clean"
    /\ Fail(o, "CommandError", {})
    /\ UNCHANGED <<env, registry, dbs, files, begun, req>>

Flushed(d) == [d EXCEPT !.rows = {}, !.baseline = {}, !.administrator = "none"]

Flush(o) ==
    /\ op[o].pc = "flush"
    /\ dbs' = [dbs EXCEPT ![op[o].alias] = Flushed(@)]
    /\ op' = [op EXCEPT ![o].pc = "restore"]
    /\ UNCHANGED <<env, registry, files, log, begun, req>>

\* TRUNCATE commits table by table, so a flush that fails may have emptied them.
FlushFails(o) ==
    /\ op[o].pc = "flush"
    /\ dbs' \in {dbs, [dbs EXCEPT ![op[o].alias] = Flushed(@)]}
    /\ Fail(o, "CommandError", {})
    /\ UNCHANGED <<env, registry, files, begun, req>>

\* update_or_create with the fields read when the reset began.
RestoreRegistry(o) ==
    /\ op[o].pc = "restore"
    /\ registry' = [registry EXCEPT ![op[o].world] = op[o].row]
    /\ op' = [op EXCEPT ![o].pc = "reseed"]
    /\ UNCHANGED <<env, dbs, files, log, begun, req>>

\* call_command("seed_world", ..., "zero_start") reads the row once more.
Reseed(o) ==
    /\ op[o].pc = "reseed"
    /\ MaySeed(op[o].world)
    /\ op' = [op EXCEPT ![o].pc = "seed", ![o].alias = registry[op[o].world].alias,
                        ![o].steps = SeedPlan("zero_start")]
    /\ UNCHANGED <<env, registry, dbs, files, log, begun, req>>

ReseedRefused(o) ==
    /\ op[o].pc = "reseed"
    /\ ~MaySeed(op[o].world)
    /\ Fail(o, "CommandError", {})
    /\ UNCHANGED <<env, registry, dbs, files, begun, req>>

\* count_world_rows, of the database of the row that was restored.
CountRows(d) == d.baseline \cup (IF d.administrator = "none" THEN {} ELSE {"administrator"})

CountAfter(o) ==
    /\ op[o].pc = "count"
    /\ op' = [op EXCEPT ![o] = [pc |-> "tuples", world |-> @.world, reset |-> TRUE,
                                after |-> CountRows(dbs[@.row.alias])]]
    /\ UNCHANGED <<env, registry, dbs, files, log, begun, req>>

\* _rebuild_sim_openfga_tuples_if_configured, and the audit record.
FinishReset(o) ==
    /\ op[o].pc = "tuples"
    /\ log' = Append(log, [world |-> op[o].world, status |-> "succeeded",
                           after |-> op[o].after])
    /\ op' = [op EXCEPT ![o] = Idle]
    /\ UNCHANGED <<env, registry, dbs, files, begun, req>>

RebuildFails(o) ==
    /\ op[o].pc = "tuples"
    /\ Fail(o, "CommandError", op[o].after)
    /\ UNCHANGED <<env, registry, dbs, files, begun, req>>

\* The process of a command or of the lab dies.
Die(o) ==
    /\ Crashes
    /\ op[o] # Idle
    /\ op' = [op EXCEPT ![o] = Idle]
    /\ UNCHANGED <<env, registry, dbs, files, log, begun, req>>

Next ==
    \/ \E o \in env.staff :
         \/ \E w \in Worlds :
              \/ \E t \in WorldTypes, a \in Aliases : CreateCheck(o, w, t, a)
              \/ ArchiveWorld(o, w) \/ DeleteWorld(o, w) \/ MigrateWorld(o, w)
              \/ \E template \in {"demo", "zero_start"} : SeedWorld(o, w, template)
              \/ BootstrapWorld(o, w) \/ ResetBegin(o, w)
         \/ CreateCommit(o)
         \/ SeedStep(o) \/ SeedFails(o) \/ SeedEnds(o)
         \/ CleanStorage(o) \/ CleanFails(o) \/ Flush(o) \/ FlushFails(o)
         \/ RestoreRegistry(o) \/ Reseed(o) \/ ReseedRefused(o)
         \/ CountAfter(o) \/ FinishReset(o) \/ RebuildFails(o)
         \/ Die(o)
    \/ \E q \in Requests :
         \/ \E w \in Worlds : BindWorldContext(q, w)
         \/ WriteRows(q) \/ ChangeMember(q) \/ EndRequest(q)

Spec == Init /\ [][Next]_vars

-----------------------------------------------------------------------------
(* Properties. *)

\* What rows, objects and counters may hold.
RowsOK ==
    /\ registry \in [Worlds -> WorldRegistry \cup {Unregistered}]
    /\ dbs \in [Aliases -> Databases]
    /\ files \in [Worlds -> SUBSET Storages]
    /\ log \in Seq(WorldMaintenanceLog)
    /\ begun \in [seeds : 0..MaxSeeds, resets : 0..MaxResets]

\* Registry rows, databases, runtime objects and logs keep their shape.
TypeOK == env \in Surroundings /\ RowsOK

\* create_world_registry: no two worlds that are not deleted share a database, whatever
\* is archived, deleted, moved to another database, created again or reset.
AliasOwnedOnce ==
    \A w, v \in Worlds :
        w # v /\ Registered(w) /\ Registered(v)
              /\ "deleted" \notin {registry[w].status, registry[v].status}
            => registry[w].alias # registry[v].alias

\* Commands come one at a time, as far as an operator takes care of it: nothing in the
\* code makes a command wait for another one.
OneOperator == \A o, p \in env.staff : o = p

RealRowsKept ==
    LET a == registry[RealWorld].alias
    IN  RealWorld \in dbs[a].rows => RealWorld \in dbs'[a].rows

\* reset_simulation_world_to_zero_start refuses the real world: no reset takes business
\* rows of the real world out of the database the real world is registered with, as long
\* as commands come one at a time and worlds keep their type.
RealRowsSafe == [][OneOperator /\ ~env.retype => RealRowsKept]_vars

\* The real world is never archived or deleted, under whatever type it is registered
\* and whichever commands race (ensure_not_realworld, RestoreRegistry).
RealWorldOpen == IsActive(RealWorld)

\* A reset that is logged as succeeded counted a whole zero-start baseline.
SucceededIsBaseline ==
    \A i \in 1..Len(log) :
        log[i].status = "succeeded" =>
            /\ {"plan", "exam"} \subseteq log[i].after
            /\ env.administrator = "on" => {"administrator", "policy"} \subseteq log[i].after

\* The real world stays open whichever commands race; databases are kept apart and
\* succeeded resets are whole as long as commands come one at a time.
WorldsSound ==
    /\ TypeOK /\ RealWorldOpen
    /\ OneOperator => AliasOwnedOnce /\ SucceededIsBaseline

-----------------------------------------------------------------------------
(* What the repository says of itself and the code does not keep: the runs do *)
(* not check these, the README says how each fails.                           *)

\* archive_world prevents world-scoped access until create_world reactivates the world:
\* nothing else makes an archived world active.
ArchiveHolds ==
    [][\A w \in Worlds :
         registry[w].status = "archived" /\ registry'[w].status = "active"
            => \E o \in Operators : op[o].pc = "create" /\ op[o].world = w]_vars

\* WorldMaintenanceLog records destructive actions: once the lab is idle, every reset that
\* was begun has its record, whether it succeeded or failed.
ResetsLogged ==
    (\A o \in Operators : op[o] = Idle) => Len(log) = begun.resets

=============================================================================

-------------------------- MODULE PlanSimulation --------------------------
(***************************************************************************)
(* The plan simulation engine (simulation/engine.py and the modules it     *)
(* calls) and the feedback loop it feeds: a run of the published plan      *)
(* revision advances one plan node at a time until it completes, fails or  *)
(* reaches its step limit; a failure leaves a structured change set; a     *)
(* reviewer applies the change set, which copies the revision, changes the *)
(* copy and publishes it as the next baseline.                             *)
(*                                                                         *)
(* Each Advance is one transaction under the run's row lock.  The driver   *)
(* loop around it, the pause at the step limit and the abort of the lab    *)
(* read the run without that lock, so they are separate steps here.        *)
(***************************************************************************)
EXTENDS Integers, Sequences, FiniteSets, FiniteSetsExt, SequencesExt

CONSTANTS
    Plan,          \* the seeded revision: [nodes, deps]
    Worlds,        \* the states of the simulated world a run may start from
    ClosureSteps,  \* suffixes of the responsibility nodes, in order
    Limits,        \* step limits a run may be started with
    MaxRuns,       \* bound: runs created
    MaxRevisions,  \* bound: plan revisions
    MaxAborts      \* bound: aborts begun in the lab

VARIABLES
    world,        \* what the next run is given: budget, people, skills, ...
    revisions,    \* PlanRevision rows in creation order
    runs,         \* SimulationRun rows in creation order
    drivers,      \* the loop of run_simulation_until_failure, one per run
    changeSets,   \* PlanChangeSet rows in creation order
    desk,         \* the lab request that is about to abort a run
    aborts        \* aborts begun so far

vars == <<world, revisions, runs, drivers, changeSets, desk, aborts>>

Statuses == {"draft", "running", "failed", "completed", "paused", "aborted"}
StateStatuses == {"pending", "failed", "completed", "skipped"}
FailureTypes == {"dependency_unmet", "labor_shortage", "personnel_issue",
                 "budget_unrealistic", "resource_shortage",
                 "responsibility_closure_missing", "skill_shortage"}
Idle == [run |-> 0]

(* A code is the code of a seeded node, or that of a node with a suffix for *)
(* what was inserted to prepare it.                                        *)
Codes == Seq(STRING) \ {<<>>}
NoParent == <<"none">>

PlanNode == [sequence : Nat, kind : {"stage", "work"}, parent : Codes,
             status : {"planned", "completed", "cancelled"}, required : BOOLEAN,
             cost : Nat, duration : Nat, people : Nat, skills : SUBSET STRING,
             resources : Nat, closures : SUBSET STRING]

(* Parents are stages of the same revision, and a completed stage has no   *)
(* required child that is still open: so in the demo seed, which the       *)
(* command that drives the engine writes first.                            *)
ParentsAreStages(nodes) ==
    \A c \in DOMAIN nodes : LET p == nodes[c].parent IN
        p # NoParent =>
            /\ p \in DOMAIN nodes
            /\ nodes[p].kind = "stage"
            /\ nodes[p].status = "completed" /\ nodes[c].required => nodes[c].status # "planned"

(* The words the feedback writes into codes, skills and requirements.       *)
Words == {"SKILL", "FUNDING", "LABOR", "recruiting", "documents",
          "skill", "permit", "budget", "material"}

(* That words are strings is true of every literal; the provers are told.   *)
PlanSimulationAssumption ==
    /\ Words \subseteq STRING
    /\ MaxRuns \in Nat /\ MaxRevisions \in Nat /\ MaxAborts \in Nat
    /\ Limits \subseteq Nat \ {0}
    /\ Worlds \subseteq [budget : Nat, people : Nat, skills : SUBSET STRING,
                        tired : BOOLEAN, stock : Nat]
    /\ ClosureSteps \in Seq(STRING)
    /\ IsFiniteSet(DOMAIN Plan.nodes)
    /\ DOMAIN Plan.nodes \subseteq Codes \ {NoParent}
    /\ Plan.nodes \in [DOMAIN Plan.nodes -> PlanNode]
    /\ ParentsAreStages(Plan.nodes)
    /\ Plan.deps \subseteq (DOMAIN Plan.nodes) \X (DOMAIN Plan.nodes)

---------------------------------------------------------------------------
(* The plan as a run sees it *)

Nodes(run) == revisions[run.revision].nodes
Done(run, c) == run.states[c] \in {"completed", "skipped"}
Children(run, p) == {c \in DOMAIN Nodes(run) :
                        Nodes(run)[c].parent = p /\ Nodes(run)[c].required}

InitialState(node) ==
    CASE node.status = "completed" -> "completed"
      [] node.status = "cancelled" -> "skipped"
      [] OTHER -> "pending"

(* Required leaf nodes that are neither completed nor skipped. *)
Executable(run) ==
    {c \in DOMAIN Nodes(run) : /\ Nodes(run)[c].required
                               /\ Nodes(run)[c].kind # "stage"
                               /\ ~Done(run, c)}

NextExecutable(run) ==
    CHOOSE c \in Executable(run) :
        \A d \in Executable(run) : Nodes(run)[c].sequence <= Nodes(run)[d].sequence

(* feasibility_failure_for_node: the checks in the order they are made. *)
\* A plausible bug: The budget is compared with what the run started with.
FailureChecksInitialBudget(run, c) ==
    LET n == Nodes(run)[c]
        deps == {d \in DOMAIN Nodes(run) : <<c, d>> \in revisions[run.revision].deps}
    IN << <<"dependency_unmet", \E d \in deps : run.states[d] # "completed">>,
          <<"labor_shortage", n.people > run.people>>,
          <<"personnel_issue", run.tired /\ n.people >= Max({1, run.people \div 3})>>,
          <<"budget_unrealistic", n.cost > run.initial>>,
          <<"resource_shortage", n.resources > world.stock>>,
          <<"responsibility_closure_missing", n.closures # {}>>,
          <<"skill_shortage", ~(n.skills \subseteq run.skills)>> >>

\* A plausible bug: Only a dependency that failed counts as unmet.
FailureChecksFailedOnly(run, c) ==
    LET n == Nodes(run)[c]
        deps == {d \in DOMAIN Nodes(run) : <<c, d>> \in revisions[run.revision].deps}
    IN << <<"dependency_unmet", \E d \in deps : run.states[d] = "failed">>,
          <<"labor_shortage", n.people > run.people>>,
          <<"personnel_issue", run.tired /\ n.people >= Max({1, run.people \div 3})>>,
          <<"budget_unrealistic", n.cost > run.remaining>>,
          <<"resource_shortage", n.resources > world.stock>>,
          <<"responsibility_closure_missing", n.closures # {}>>,
          <<"skill_shortage", ~(n.skills \subseteq run.skills)>> >>

FailureChecks(run, c) ==
    LET n == Nodes(run)[c]
        deps == {d \in DOMAIN Nodes(run) : <<c, d>> \in revisions[run.revision].deps}
    IN << <<"dependency_unmet", \E d \in deps : run.states[d] # "completed">>,
          <<"labor_shortage", n.people > run.people>>,
          <<"personnel_issue", run.tired /\ n.people >= Max({1, run.people \div 3})>>,
          <<"budget_unrealistic", n.cost > run.remaining>>,
          <<"resource_shortage", n.resources > world.stock>>,
          <<"responsibility_closure_missing", n.closures # {}>>,
          <<"skill_shortage", ~(n.skills \subseteq run.skills)>> >>

Blocked(run, c) == \E i \in 1..7 : FailureChecks(run, c)[i][2]
FailureType(run, c) ==
    LET checks == FailureChecks(run, c)
        first == CHOOSE i \in 1..7 : checks[i][2] /\ \A j \in 1..(i - 1) : ~checks[j][2]
    IN checks[first][1]

(* Stages whose required children are all done complete from the node's    *)
(* parent upward, stopping at the first one that still has work in it.     *)
\* A plausible bug: Only the node's own stage is looked at, and skipped children hold it back.
CompleteStagesStrict(run, states, p) ==
    IF p \in DOMAIN states /\ \A c \in Children(run, p) : states[c] = "completed"
    THEN [states EXCEPT ![p] = "completed"] ELSE states

CompleteStages(run, states, p) ==
    LET height == Cardinality({q \in DOMAIN states : Nodes(run)[q].kind = "stage"})
        up[k \in 0..height] ==
          IF k = 0 THEN p
          ELSE IF up[k - 1] \in DOMAIN states THEN Nodes(run)[up[k - 1]].parent ELSE up[k - 1]
        Ready(k) == /\ up[k] \in DOMAIN states
                    /\ Children(run, up[k]) # {}
                    /\ \A c \in Children(run, up[k]) :
                         \/ states[c] \in {"completed", "skipped"}
                         \/ k > 0 /\ c = up[k - 1]
        finished == {up[k] : k \in {i \in 0..height : \A j \in 0..i : Ready(j)}}
    IN [q \in DOMAIN states |-> IF q \in finished THEN "completed" ELSE states[q]]

---------------------------------------------------------------------------
(* What a failure proposes *)

(* plan_node_payload_for_preparation: everything but the sequence number.  *)
Preparation(n, c, suffix, cost, duration, skills) ==
    [code |-> Append(c, suffix),
     node |-> [n EXCEPT !.kind = "work", !.status = "planned", !.required = TRUE,
                        !.cost = cost, !.duration = duration, !.skills = skills,
                        !.resources = 0, !.closures = {},
                        !.people = Min({Max({n.people, 1}), 8})]]

NoOperations == [nodes |-> <<>>, deps |-> {}, requirements |-> {}, durations |-> {}]

(* change_operations_for_proposal; costs in units of 10,000 yuan. *)
Suggested(n, c, type) ==
    CASE type = "skill_shortage" ->
           [NoOperations EXCEPT
              !.nodes = <<Preparation(n, c, "SKILL", 30, 14, {"recruiting"})>>,
              !.deps = {<<c, Append(c, "SKILL")>>},
              !.requirements = {<<c, "skill">>}]
      [] type = "responsibility_closure_missing" ->
           [NoOperations EXCEPT
              !.nodes = [i \in DOMAIN ClosureSteps |->
                           Preparation(n, c, ClosureSteps[i], 5, 7, {"documents"})],
              !.deps = {<<c, Append(c, ClosureSteps[i])>> : i \in DOMAIN ClosureSteps},
              !.requirements = {<<c, "permit">>}]
      [] type = "budget_unrealistic" ->
           [NoOperations EXCEPT
              !.nodes = <<Preparation(n, c, "FUNDING", 0, 10, {})>>,
              !.requirements = {<<c, "budget">>}]
      [] type = "labor_shortage" ->
           [NoOperations EXCEPT
              !.nodes = <<Preparation(n, c, "LABOR", 12, 7, {})>>,
              !.durations = {<<c, 2 * n.duration>>}]
      [] type = "resource_shortage" ->
           [NoOperations EXCEPT !.requirements = {<<c, "material">>}]
      [] OTHER -> NoOperations     \* a note, or an entry of the revision's metadata

---------------------------------------------------------------------------
(* Runs *)

Baseline == {v \in DOMAIN revisions : revisions[v].status = "published"}

Turn(kind, c, day) == [kind |-> kind, node |-> c, day |-> day]

Init ==
    /\ world \in Worlds
    /\ revisions = << [nodes |-> Plan.nodes, deps |-> Plan.deps, requirements |-> {},
                       status |-> "published", change |-> 0] >>
    /\ runs = <<>> /\ drivers = <<>> /\ changeSets = <<>>
    /\ desk = Idle /\ aborts = 0

(* The simulated world moves between runs: stock, people, skills, cash. *)
ChangeWorld ==
    /\ world' \in Worlds \ {world}
    /\ UNCHANGED <<revisions, runs, drivers, changeSets, desk, aborts>>

(* create_simulation_run: the run copies the world except for the stock.   *)
CreateRun(limit) ==
    /\ Len(runs) < MaxRuns
    /\ \E v \in Baseline :
         runs' = Append(runs,
           [revision |-> v, status |-> "draft", day |-> 1,
            states |-> [c \in DOMAIN revisions[v].nodes |->
                          InitialState(revisions[v].nodes[c])],
            initial |-> world.budget, remaining |-> world.budget, spent |-> 0,
            people |-> world.people, skills |-> world.skills, tired |-> world.tired,
            turns |-> <<>>, failures |-> <<>>])
    /\ drivers' = Append(drivers, [pc |-> "loop", steps |-> 0, limit |-> limit])
    /\ UNCHANGED <<world, revisions, changeSets, desk, aborts>>

(* The driver's loop test and the row's own, under the lock. *)
MayAdvance(r) ==
    /\ drivers[r].pc = "loop"
    /\ drivers[r].steps < drivers[r].limit
    /\ runs[r].status \notin {"failed", "completed", "paused"}

CountStep(r) == drivers' = [drivers EXCEPT ![r].steps = @ + 1]
\* A plausible bug: The loop goes back to its test after a run that ended.
LastStepLoops(r) == CountStep(r)

LastStep(r) == drivers' = [drivers EXCEPT ![r].steps = @ + 1, ![r].pc = "break"]

CompleteNode(r) ==
    /\ MayAdvance(r)
    /\ Executable(runs[r]) # {}
    /\ LET run == runs[r]
           c == NextExecutable(run)
           n == Nodes(run)[c]
       IN /\ ~Blocked(run, c)
          /\ runs' = [runs EXCEPT ![r] =
               [run EXCEPT !.status = "running",
                           !.day = @ + Max({1, n.duration}),
                           !.remaining = @ - n.cost,
                           !.spent = @ + n.cost,
                           !.states = CompleteStages(run, [@ EXCEPT ![c] = "completed"], n.parent),
                           !.turns = Append(@, Turn("node", c, run.day))]]
    /\ CountStep(r)
    /\ UNCHANGED <<world, revisions, changeSets, desk, aborts>>

(* fail_simulation_node: node, run, failure, proposal, change set, turn. *)
FailNode(r) ==
    /\ MayAdvance(r)
    /\ Executable(runs[r]) # {}
    /\ LET run == runs[r]
           c == NextExecutable(run)
           type == FailureType(run, c)
       IN /\ Blocked(run, c)
          /\ runs' = [runs EXCEPT ![r] =
               [run EXCEPT !.status = "failed",
                           !.states[c] = "failed",
                           !.failures = Append(@, [node |-> c, type |-> type]),
                           !.turns = Append(@, Turn("failed", c, run.day))]]
          /\ changeSets' = Append(changeSets,
               [run |-> r, revision |-> run.revision, status |-> "draft", applied |-> 0,
                operations |-> Suggested(Nodes(run)[c], c, type)])
    /\ LastStep(r)
    /\ UNCHANGED <<world, revisions, desk, aborts>>

CompleteRun(r) ==
    /\ MayAdvance(r)
    /\ Executable(runs[r]) = {}
    /\ runs' = [runs EXCEPT ![r].status = "completed",
                            ![r].turns = Append(@, Turn("completed", <<>>, runs[r].day))]
    /\ LastStep(r)
    /\ UNCHANGED <<world, revisions, changeSets, desk, aborts>>

(* The end of the loop: the run is read once more, without a lock. *)
\* A plausible bug: The pause is only for runs that went past their limit.
LeaveLoopPastLimit(r) ==
    /\ \/ drivers[r].pc = "break"
       \/ /\ drivers[r].pc = "loop"
          /\ \/ drivers[r].steps >= drivers[r].limit
             \/ runs[r].status \in {"failed", "completed", "paused"}
    /\ drivers' = [drivers EXCEPT ![r].pc =
         IF drivers[r].steps > drivers[r].limit /\ runs[r].status = "running"
         THEN "pausing" ELSE "done"]
    /\ UNCHANGED <<world, revisions, runs, changeSets, desk, aborts>>

\* A plausible bug: The loop only ends on a status.
LeaveLoopOnStatus(r) ==
    /\ \/ drivers[r].pc = "break"
       \/ drivers[r].pc = "loop" /\ runs[r].status \in {"failed", "completed", "paused"}
    /\ drivers' = [drivers EXCEPT ![r].pc = "done"]
    /\ UNCHANGED <<world, revisions, runs, changeSets, desk, aborts>>

LeaveLoop(r) ==
    /\ \/ drivers[r].pc = "break"
       \/ /\ drivers[r].pc = "loop"
          /\ \/ drivers[r].steps >= drivers[r].limit
             \/ runs[r].status \in {"failed", "completed", "paused"}
    /\ drivers' = [drivers EXCEPT ![r].pc =
         IF drivers[r].steps >= drivers[r].limit /\ runs[r].status = "running"
         THEN "pausing" ELSE "done"]
    /\ UNCHANGED <<world, revisions, runs, changeSets, desk, aborts>>

(* pause_simulation_run_at_limit *)
\* A plausible bug: Pausing writes the status of a node.
PauseRunSkipped(r) ==
    /\ drivers[r].pc = "pausing"
    /\ runs' = [runs EXCEPT ![r].status = "skipped",
                            ![r].turns = Append(@, Turn("paused", <<>>, runs[r].day))]
    /\ drivers' = [drivers EXCEPT ![r].pc = "done"]
    /\ UNCHANGED <<world, revisions, changeSets, desk, aborts>>

PauseRun(r) ==
    /\ drivers[r].pc = "pausing"
    /\ runs' = [runs EXCEPT ![r].status = "paused",
                            ![r].turns = Append(@, Turn("paused", <<>>, runs[r].day))]
    /\ drivers' = [drivers EXCEPT ![r].pc = "done"]
    /\ UNCHANGED <<world, revisions, changeSets, desk, aborts>>

(* lab_abort_run reads the run, checks its status, and saves the copy: the *)
(* status, and the metadata with the budget figures as they were read.     *)
BeginAbort(r) ==
    /\ desk = Idle
    /\ aborts < MaxAborts
    /\ runs[r].status = "running"
    /\ desk' = [run |-> r, remaining |-> runs[r].remaining, spent |-> runs[r].spent,
                day |-> runs[r].day]
    /\ aborts' = aborts + 1
    /\ UNCHANGED <<world, revisions, runs, drivers, changeSets>>

AbortRun ==
    /\ desk # Idle
    /\ runs' = [runs EXCEPT ![desk.run].status = "aborted",
                            ![desk.run].remaining = desk.remaining,
                            ![desk.run].spent = desk.spent,
                            ![desk.run].turns = Append(@, Turn("aborted", <<>>, desk.day))]
    /\ desk' = Idle
    /\ UNCHANGED <<world, revisions, drivers, changeSets, aborts>>

---------------------------------------------------------------------------
(* Applying the feedback *)

(* apply_plan_change_set is one transaction.  Its first query is a SELECT  *)
(* ... FOR UPDATE joined with the source revision and the plan, without    *)
(* OF (plan_application.py:194-202): the database locks every row it       *)
(* reads, the plan's among them, until the commit.  Applications to one    *)
(* plan therefore exclude each other, and the statuses of revisions they   *)
(* read later, without a lock of their own, are committed and stay: each   *)
(* application is one step.  The reads that are not under that lock are    *)
(* those of lab_reject_change_set.                                         *)

(* publish_plan_revision, on the sequence of revisions. *)
\* A plausible bug: Publishing leaves the previous baseline published.
PublishBoth(v, rs) == [rs EXCEPT ![v].status = "published"]

Publish(v, rs) ==
    [w \in DOMAIN rs |->
        IF w = v THEN [rs[w] EXCEPT !.status = "published"]
        ELSE IF rs[w].status = "published" THEN [rs[w] EXCEPT !.status = "retired"]
        ELSE rs[w]]

(* copy_revision_contents, then the operations in order; a new node goes   *)
(* behind every node the copy already has.                                 *)
NewNodes(rev, ops) ==
    LET top == Max({rev.nodes[c].sequence : c \in DOMAIN rev.nodes})
        codes == {ops.nodes[i].code : i \in DOMAIN ops.nodes}
        at(c) == CHOOSE i \in DOMAIN ops.nodes : ops.nodes[i].code = c
        longer(c) == {d \in ops.durations : d[1] = c}
    IN [c \in DOMAIN rev.nodes \cup codes |->
          IF c \in codes
          THEN [ops.nodes[at(c)].node EXCEPT !.sequence = top + 10 * at(c)]
          ELSE IF longer(c) = {} THEN rev.nodes[c]
          ELSE [rev.nodes[c] EXCEPT !.duration = (CHOOSE d \in longer(c) : TRUE)[2]]]

(* apply_add_node refuses a code the copy already has. *)
Applicable(cs) ==
    \A i \in DOMAIN cs.operations.nodes :
        cs.operations.nodes[i].code \notin DOMAIN revisions[cs.revision].nodes

(* apply_plan_change_set(publish=True) on a change set not yet decided. *)
\* A plausible bug: The new dependencies are written to the source revision as well.
ApplyChangeSetShared(k) ==
    /\ changeSets[k].status = "draft"
    /\ Applicable(changeSets[k])
    /\ Len(revisions) < MaxRevisions
    /\ LET source == revisions[changeSets[k].revision]
           ops == changeSets[k].operations
           new == [nodes |-> NewNodes(source, ops), deps |-> source.deps \cup ops.deps,
                   requirements |-> source.requirements \cup ops.requirements,
                   status |-> "draft", change |-> k]
           shared == [revisions EXCEPT ![changeSets[k].revision].deps = @ \cup ops.deps]
       IN revisions' = Publish(Len(revisions) + 1, Append(shared, new))
    /\ changeSets' = [changeSets EXCEPT ![k].status = "applied",
                                        ![k].applied = Len(revisions) + 1]
    /\ UNCHANGED <<world, runs, drivers, desk, aborts>>

ApplyChangeSet(k) ==
    /\ changeSets[k].status = "draft"
    /\ Applicable(changeSets[k])
    /\ Len(revisions) < MaxRevisions
    /\ LET source == revisions[changeSets[k].revision]
           ops == changeSets[k].operations
           new == [nodes |-> NewNodes(source, ops), deps |-> source.deps \cup ops.deps,
                   requirements |-> source.requirements \cup ops.requirements,
                   status |-> "draft", change |-> k]
       IN revisions' = Publish(Len(revisions) + 1, Append(revisions, new))
    /\ changeSets' = [changeSets EXCEPT ![k].status = "applied",
                                        ![k].applied = Len(revisions) + 1]
    /\ UNCHANGED <<world, runs, drivers, desk, aborts>>

(* The same request on an applied change set publishes its revision again. *)
ReapplyChangeSet(k) ==
    /\ changeSets[k].status = "applied"
    /\ revisions' = Publish(changeSets[k].applied, revisions)
    /\ UNCHANGED <<world, runs, drivers, changeSets, desk, aborts>>

(* lab_reject_change_set saves what it read without a lock: the change set *)
(* was a draft then, and may have been applied since.                      *)
RejectChangeSet(k) ==
    /\ changeSets[k].status \in {"draft", "applied"}
    /\ changeSets' = [changeSets EXCEPT ![k].status = "rejected"]
    /\ UNCHANGED <<world, revisions, runs, drivers, desk, aborts>>

Advance(r) == CompleteNode(r) \/ FailNode(r) \/ CompleteRun(r)
Drive(r) == Advance(r) \/ LeaveLoop(r) \/ PauseRun(r)

Next ==
    \/ ChangeWorld
    \/ \E limit \in Limits : CreateRun(limit)
    \/ \E r \in DOMAIN runs : Drive(r) \/ BeginAbort(r)
    \/ AbortRun
    \/ \E k \in DOMAIN changeSets :
         ApplyChangeSet(k) \/ ReapplyChangeSet(k) \/ RejectChangeSet(k)

(* The driver is a plain loop in one process: it goes on by itself. *)
Fairness == \A r \in 1..MaxRuns : WF_vars(r \in DOMAIN runs /\ Drive(r))

Spec == Init /\ [][Next]_vars /\ Fairness

---------------------------------------------------------------------------
(* Properties *)

(* Rows have their shape; a run's node states are those of its revision.   *)
TypeOK ==
    /\ world \in Worlds
    /\ \A v \in DOMAIN revisions :
         revisions[v].status \in {"draft", "published", "retired"}
    /\ \A r \in DOMAIN runs :
         /\ runs[r].status \in Statuses
         /\ runs[r].revision \in DOMAIN revisions
         /\ runs[r].states \in [DOMAIN Nodes(runs[r]) -> StateStatuses]
         /\ \A i \in DOMAIN runs[r].failures : runs[r].failures[i].type \in FailureTypes
    /\ DOMAIN drivers = DOMAIN runs
    /\ \A k \in DOMAIN changeSets :
         changeSets[k].status \in {"draft", "applied", "rejected"}

Kinds(run, kind) == {i \in DOMAIN run.turns : run.turns[i].kind = kind}
Aborted(run) == Kinds(run, "aborted") # {}

(* What the nodes cost that the turns of a run report. *)
Reported(run) ==
    LET cost(i) == IF run.turns[i].kind = "node" THEN Nodes(run)[run.turns[i].node].cost ELSE 0
        sum[i \in 0..Len(run.turns)] == IF i = 0 THEN 0 ELSE sum[i - 1] + cost(i)
    IN sum[Len(run.turns)]

(* The money a run spends is exactly the cost of the nodes its turns report *)
(* and never more than it started with (metadata kept by                    *)
(* complete_simulation_node), as long as nobody aborted it.                 *)
BudgetAccounted ==
    \A r \in DOMAIN runs : LET run == runs[r] IN
        ~Aborted(run) =>
          /\ run.spent + run.remaining = run.initial
          /\ run.remaining >= 0
          /\ run.spent = Reported(run)

(* A run starts a node only after every node it depends on was completed,   *)
(* by an earlier turn or by the plan itself (unmet_dependency_titles).      *)
DependenciesRespected ==
    \A r \in DOMAIN runs : LET run == runs[r] IN
        \A i \in Kinds(run, "node") :
          \A d \in DOMAIN Nodes(run) :
            <<run.turns[i].node, d>> \in revisions[run.revision].deps =>
               \/ Nodes(run)[d].status = "completed"
               \/ \E j \in Kinds(run, "node") : j < i /\ run.turns[j].node = d
               \/ Nodes(run)[d].kind = "stage"

(* A stage in which the run completed a child is completed exactly when all *)
(* of its required children are, at every depth                             *)
(* (mark_parent_stages_completed_if_ready).                                 *)
StagesFollowChildren ==
    \A r \in DOMAIN runs : LET run == runs[r] IN
        \A i \in Kinds(run, "node") :
          LET p == Nodes(run)[run.turns[i].node].parent IN
          p \in DOMAIN run.states =>
            (run.states[p] = "completed" <=> \A c \in Children(run, p) : Done(run, c))

(* A run fails at most once, and then its last turn, its failure and one    *)
(* change set against the revision it ran all speak of the same node        *)
(* (fail_simulation_node; the smoke command checks for these rows).         *)
FailureFeedsBack ==
    \A r \in DOMAIN runs : LET run == runs[r]
                               sets == {k \in DOMAIN changeSets : changeSets[k].run = r} IN
        /\ Cardinality(Kinds(run, "failed")) = Len(run.failures)
        /\ Cardinality(sets) = Len(run.failures)
        /\ Len(run.failures) <= 1
        /\ run.status = "failed" =>
             /\ Len(run.failures) = 1
             /\ run.states[run.failures[1].node] = "failed"
             /\ \A k \in sets : changeSets[k].revision = run.revision

(* Once the loop of run_simulation_until_failure is over, the run is in one *)
(* of the statuses that count as finished and must be archived or discarded. *)
StoppedRunEnded ==
    \A r \in DOMAIN runs :
        drivers[r].pc = "done" =>
            runs[r].status \in {"failed", "completed", "paused", "aborted"}

(* Every revision but the seeded one comes from exactly one change set,     *)
(* which was applied, or rejected by a request that had read it before; and *)
(* exactly one revision is the baseline, however often change sets are      *)
(* applied and applied again (apply_plan_change_set).                       *)
OneRevisionPerChangeSet ==
    /\ Cardinality(Baseline) = 1
    /\ \A v \in 2..Len(revisions) :
         /\ changeSets[revisions[v].change].applied = v
         /\ changeSets[revisions[v].change].status # "draft"
    /\ \A k \in DOMAIN changeSets :
         changeSets[k].status = "applied" =>
            \E v \in DOMAIN revisions : revisions[v].change = k

(* Applying feedback never changes the content of a revision that exists,   *)
(* so a run in progress keeps the plan it started with ("The source         *)
(* revision is never modified").                                            *)
RevisionsKept ==
    \A v \in DOMAIN revisions :
       /\ revisions'[v].nodes = revisions[v].nodes
       /\ revisions'[v].deps = revisions[v].deps

PlanRunSound ==
    /\ TypeOK /\ BudgetAccounted /\ DependenciesRespected /\ StagesFollowChildren
    /\ FailureFeedsBack /\ StoppedRunEnded /\ OneRevisionPerChangeSet

(* The loop of a run ends: it fails, completes, or stops at its limit.      *)
LoopEnds ==
    \A r \in 1..MaxRuns : r \in DOMAIN runs ~> (r \in DOMAIN runs /\ drivers[r].pc = "done")

-----------------------------------------------------------------------------
(* What the repository says of itself and the code does not keep: the runs do *)
(* not check these, the README says how each fails.                           *)

(* What the lab says of an aborted run: it is finished, and stays so.       *)
AbortedStaysAborted ==
    [][\A r \in DOMAIN runs :
          runs[r].status = "aborted" => runs'[r].status = "aborted"]_vars

(* What the skill and closure feedback says of itself: the preparation runs *)
(* before the node it prepares, so that node never fails for want of it.    *)
PreparationRunsFirst ==
    \A r \in DOMAIN runs : LET run == runs[r] IN
        \A i \in DOMAIN run.failures :
            run.failures[i].type = "dependency_unmet" =>
                \E d \in DOMAIN Plan.nodes :
                    <<run.failures[i].node, d>> \in Plan.deps /\ run.states[d] # "completed"

(* What the lab says of a change set that passed validation: it can be      *)
(* applied.                                                                 *)
ValidatedApplies ==
    \A k \in DOMAIN changeSets :
        changeSets[k].status = "draft" => Applicable(changeSets[k])

===========================================================================

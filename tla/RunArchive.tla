----------------------------- MODULE RunArchive -----------------------------
(***************************************************************************)
(* What becomes of a simulation run: it is started or continued, aborted,  *)
(* archived into raw files and a snapshot in the control database          *)
(* (simulation/archive.py), discarded (simulation/disposition.py), or      *)
(* flushed with its world (simulation/world_reset.py).                     *)
(*                                                                         *)
(* Nothing here holds a lock across two queries.  A worker is one web      *)
(* request or management command; each of its queries is a step, and a     *)
(* worker may die between two of them.                                     *)
(***************************************************************************)
EXTENDS Integers, Sequences, FiniteSets, FiniteSetsExt

CONSTANTS
    Runs,      \* run ids that may be used
    Workers,   \* requests and commands in progress at a time
    MaxTurns   \* bound: turns after which a run is not advanced further

VARIABLES
    runs,          \* SimulationRun rows with the number of their turns and events
    snapshots,     \* SimulationSnapshot rows by source run
    dispositions,  \* SimulationRunDisposition rows by source run
    workers,       \* the requests in progress
    crew           \* the workers there are, settled from the start

vars == <<runs, snapshots, dispositions, workers, crew>>

None == [kind |-> "none"]
RawTables == <<"events", "turns">>
TableNames == {RawTables[i] : i \in DOMAIN RawTables}
Counts == [TableNames -> Nat]
NoCounts == [t \in TableNames |-> 0]
Idle == [pc |-> "idle"]

RunArchiveAssumption ==
    /\ IsFiniteSet(Runs) /\ IsFiniteSet(Workers)
    /\ MaxTurns \in Nat \ {0}

---------------------------------------------------------------------------
(* The rows of the control database, and the state of a run *)

FinishedRunStatuses == {"failed", "completed", "paused", "aborted"}

(* Records written by one archive: rows serialized and counted per raw     *)
(* table, and the counts of the summary and of the items.                  *)
SimulationSnapshot ==
    [kind : {"snapshot"}, round : Nat \ {0}, status : FinishedRunStatuses \cup {"running"},
     files : 1..Len(RawTables), content : Counts, count : Counts, summary : Counts,
     items : Counts]

SimulationRunDisposition == [kind : {"archived", "discarded"}, round : Nat \ {0}]

Exists(r) == runs[r].status \notin {"absent", "gone"}

(* A run that failed at its startup gate may be continued; one that failed *)
(* because a form could not be submitted (broken) may not.                 *)
Continuable(r) == runs[r].status = "failed" /\ ~runs[r].broken

IsResolved(r) == snapshots[r] # None \/ dispositions[r] # None
UnresolvedFinished ==
    {r \in Runs : /\ runs[r].status \in FinishedRunStatuses
                  /\ ~IsResolved(r)
                  /\ ~Continuable(r)}
Running == {r \in Runs : runs[r].status = "running"}

NextSimulationRound ==
    LET rounds == {snapshots[r].round : r \in {s \in Runs : snapshots[s] # None}}
                  \cup {dispositions[r].round : r \in {s \in Runs : dispositions[s] # None}}
    IN Max(rounds \cup {0}) + 1

---------------------------------------------------------------------------
(* Starting, advancing and aborting a run *)

Init ==
    /\ \E legacy \in SUBSET Runs :
         /\ Cardinality(legacy) <= 1
         /\ runs = [r \in Runs |->
              [status |-> IF r \in legacy THEN "failed" ELSE "absent",
               broken |-> FALSE, turns |-> 0, events |-> 0]]
    /\ snapshots = [r \in Runs |-> None]
    /\ dispositions = [r \in Runs |-> None]
    /\ workers = [w \in Workers |-> Idle]
    /\ crew \in SUBSET Workers

(* lab_run_until_failure and run_zero_start_simulation look for finished   *)
(* runs nobody has disposed of, seed the world and only then pick the run. *)
\* A plausible bug: nobody looks for finished runs without a disposition.
StartCheckBlind(w) ==
    /\ workers[w].pc = "idle"
    /\ workers' = [workers EXCEPT ![w] = [pc |-> "start"]]
    /\ UNCHANGED <<runs, snapshots, dispositions>>

StartCheck(w) ==
    /\ workers[w].pc = "idle"
    /\ UnresolvedFinished = {}
    /\ workers' = [workers EXCEPT ![w] = [pc |-> "start"]]
    /\ UNCHANGED <<runs, snapshots, dispositions>>

Candidates ==
    IF Running # {} THEN Running
    ELSE {r \in Runs : Continuable(r) /\ ~IsResolved(r)}

StartRun(w) ==
    /\ workers[w].pc = "start"
    /\ \E r \in IF Candidates # {} THEN Candidates
                ELSE {s \in Runs : runs[s].status = "absent"} :
         /\ runs[r].turns < MaxTurns
         /\ runs' = [runs EXCEPT ![r].status = "running"]
         /\ workers' = [workers EXCEPT ![w] = [pc |-> "hour", run |-> r]]
    /\ UNCHANGED <<snapshots, dispositions>>

(* create_simulation_turn_and_event writes the turn, then the event. *)
WriteTurn(w) ==
    /\ workers[w].pc \in {"hour", "last hour"}
    /\ Exists(workers[w].run)
    /\ runs[workers[w].run].turns <= MaxTurns
    /\ runs' = [runs EXCEPT ![workers[w].run].turns = @ + 1]
    /\ workers' = [workers EXCEPT ![w].pc = IF @ = "hour" THEN "event" ELSE "last event"]
    /\ UNCHANGED <<snapshots, dispositions>>

WriteEvent(w) ==
    /\ workers[w].pc \in {"event", "last event"}
    /\ Exists(workers[w].run)
    /\ runs' = [runs EXCEPT ![workers[w].run].events = @ + 1]
    /\ workers' = [workers EXCEPT ![w] = IF @.pc = "event" THEN [@ EXCEPT !.pc = "hour"] ELSE Idle]
    /\ UNCHANGED <<snapshots, dispositions>>

(* The outcome is saved before the turn that reports it. *)
SaveOutcome(w) ==
    /\ workers[w].pc = "hour"
    /\ Exists(workers[w].run)
    /\ \E outcome \in {"completed", "running", "failed"} :
         runs' = [runs EXCEPT ![workers[w].run].status = outcome,
                              ![workers[w].run].broken = outcome = "failed"]
    /\ workers' = [workers EXCEPT ![w].pc = "last hour"]
    /\ UNCHANGED <<snapshots, dispositions>>

BeginAbort(w, r) ==
    /\ workers[w].pc = "idle"
    /\ runs[r].status = "running" \/ Continuable(r)
    /\ workers' = [workers EXCEPT ![w] = [pc |-> "abort", run |-> r]]
    /\ UNCHANGED <<runs, snapshots, dispositions>>

AbortRun(w) ==
    /\ workers[w].pc = "abort"
    /\ Exists(workers[w].run)
    /\ runs' = [runs EXCEPT ![workers[w].run].status = "aborted"]
    /\ workers' = [workers EXCEPT ![w].pc = "last hour"]
    /\ UNCHANGED <<snapshots, dispositions>>

---------------------------------------------------------------------------
(* Archiving *)

TableRows(t) == Cardinality(UNION {{r} \X (1..runs[r][t]) : r \in Runs})
RunRows(r) == [t \in TableNames |-> runs[r][t]]

(* record_archived_disposition: a run that has a disposition keeps it. *)
\* A plausible bug: a later decision replaces the earlier one.
RecordDispositionLatest(r, kind, round) ==
    [dispositions EXCEPT ![r] = [kind |-> kind, round |-> round]]

RecordDisposition(r, kind, round) ==
    IF dispositions[r] # None THEN dispositions
    ELSE [dispositions EXCEPT ![r] = [kind |-> kind, round |-> round]]

(* The lab refuses a run that is not finished; the command takes any id.   *)
(* A run that has a snapshot is only given its disposition.                *)
BeginArchive(w, r) ==
    /\ workers[w].pc = "idle"
    /\ Exists(r)
    /\ IF snapshots[r] # None
       THEN /\ dispositions' = RecordDisposition(r, "archived", snapshots[r].round)
            /\ UNCHANGED workers
       ELSE /\ workers' = [workers EXCEPT ![w] =
                 [pc |-> "export", run |-> r, round |-> NextSimulationRound,
                  status |-> runs[r].status, table |-> 1,
                  content |-> NoCounts, count |-> NoCounts, summary |-> NoCounts]]
            /\ UNCHANGED dispositions
    /\ UNCHANGED <<runs, snapshots>>

(* One raw table: its rows are serialized and written, then counted. *)
ExportTable(w) ==
    /\ workers[w].pc = "export"
    /\ LET t == RawTables[workers[w].table]
       IN workers' = [workers EXCEPT ![w].pc = "count", ![w].content[t] = TableRows(t)]
    /\ UNCHANGED <<runs, snapshots, dispositions>>

\* A plausible bug: the export ends with the first table.
CountTableFirst(w) ==
    /\ workers[w].pc = "count"
    /\ LET t == RawTables[workers[w].table]
       IN workers' = [workers EXCEPT ![w].pc = "summary", ![w].count[t] = TableRows(t)]
    /\ UNCHANGED <<runs, snapshots, dispositions>>

CountTable(w) ==
    /\ workers[w].pc = "count"
    /\ LET t == RawTables[workers[w].table]
           last == workers[w].table = Len(RawTables)
       IN workers' = [workers EXCEPT ![w].pc = IF last THEN "summary" ELSE "export",
                                     ![w].table = IF last THEN @ ELSE @ + 1,
                                     ![w].count[t] = TableRows(t)]
    /\ UNCHANGED <<runs, snapshots, dispositions>>

(* manifest.json, the summary with its counts, report.html *)
\* A plausible bug: the summary counts the rows of every run.
WriteSummaryOfWorld(w) ==
    /\ workers[w].pc = "summary"
    /\ workers' = [workers EXCEPT ![w].pc = "commit",
                                  ![w].summary = [t \in TableNames |-> TableRows(t)]]
    /\ UNCHANGED <<runs, snapshots, dispositions>>

WriteSummary(w) ==
    /\ workers[w].pc = "summary"
    /\ workers' = [workers EXCEPT ![w].pc = "commit",
                                  ![w].summary = RunRows(workers[w].run)]
    /\ UNCHANGED <<runs, snapshots, dispositions>>

(* One transaction of the control database: the snapshot, its items, which *)
(* are read from the world once more, and the disposition.  A second       *)
(* snapshot of the run meets the unique constraint.                        *)
CommitArchive(w) ==
    LET a == workers[w] IN
    /\ a.pc = "commit"
    /\ IF snapshots[a.run] # None THEN UNCHANGED <<snapshots, dispositions>>
       ELSE /\ snapshots' = [snapshots EXCEPT ![a.run] =
                 [kind |-> "snapshot", round |-> a.round, status |-> a.status,
                  files |-> a.table, content |-> a.content, count |-> a.count,
                  summary |-> a.summary, items |-> RunRows(a.run)]]
            /\ dispositions' = RecordDisposition(a.run, "archived", a.round)
    /\ workers' = [workers EXCEPT ![w] = Idle]
    /\ UNCHANGED runs

(* Every raw file of the manifest is there and holds the number of records *)
(* the manifest says.                                                      *)
RawModelsVerify(s) == s.files = Len(RawTables) /\ s.content = s.count

(* The items are as many as the summary counted. *)
NormalizedItemsVerify(s) == s.items = s.summary

(* verify_simulation_snapshot *)
Verifies(s) == RawModelsVerify(s) /\ NormalizedItemsVerify(s)

---------------------------------------------------------------------------
(* Discarding a run, resetting its world, dying *)

BeginDiscard(w, r) ==
    /\ workers[w].pc = "idle"
    /\ runs[r].status \in FinishedRunStatuses
    /\ snapshots[r] = None
    /\ workers' = [workers EXCEPT ![w] = [pc |-> "discard", run |-> r]]
    /\ UNCHANGED <<runs, snapshots, dispositions>>

SaveDiscard(w) ==
    /\ workers[w].pc = "discard"
    /\ dispositions' = RecordDisposition(workers[w].run, "discarded", NextSimulationRound)
    /\ workers' = [workers EXCEPT ![w] = Idle]
    /\ UNCHANGED <<runs, snapshots>>

ResetCheck(w, force) ==
    /\ workers[w].pc = "idle"
    /\ force \/ (UnresolvedFinished = {} /\ Running = {})
    /\ workers' = [workers EXCEPT ![w] = [pc |-> "flush", force |-> force]]
    /\ UNCHANGED <<runs, snapshots, dispositions>>

FlushWorld(w) ==
    /\ workers[w].pc = "flush"
    /\ runs' = [r \in DOMAIN runs |-> IF Exists(r)
          THEN [status |-> "gone", broken |-> FALSE, turns |-> 0, events |-> 0]
          ELSE runs[r]]
    /\ workers' = [workers EXCEPT ![w] = Idle]
    /\ UNCHANGED <<snapshots, dispositions>>

(* A worker dies; one that writes to a run that was flushed has to. *)
Die(w) ==
    /\ workers[w].pc # "idle"
    /\ workers' = [workers EXCEPT ![w] = Idle]
    /\ UNCHANGED <<runs, snapshots, dispositions>>

Step == \E w \in crew :
    \/ StartCheck(w) \/ StartRun(w) \/ WriteTurn(w) \/ WriteEvent(w) \/ SaveOutcome(w)
    \/ \E r \in Runs : BeginAbort(w, r) \/ BeginArchive(w, r) \/ BeginDiscard(w, r)
    \/ AbortRun(w)
    \/ ExportTable(w) \/ CountTable(w) \/ WriteSummary(w) \/ CommitArchive(w)
    \/ SaveDiscard(w)
    \/ \E force \in BOOLEAN : ResetCheck(w, force)
    \/ FlushWorld(w)
    \/ Die(w)

Next == Step /\ UNCHANGED crew

Spec == Init /\ [][Next]_vars

---------------------------------------------------------------------------
(* Properties *)

(* What the rows of runs, snapshots and dispositions may hold. *)
RowsOK ==
    /\ runs \in [Runs -> [status : FinishedRunStatuses \cup {"absent", "running", "gone"},
                          broken : BOOLEAN, turns : Nat, events : Nat]]
    /\ snapshots \in [Runs -> SimulationSnapshot \cup {None}]
    /\ dispositions \in [Runs -> SimulationRunDisposition \cup {None}]

(* The rows of runs, snapshots and dispositions keep their shape. *)
TypeOK == crew \subseteq Workers /\ RowsOK

(* A snapshot in the control database always has its complete raw package  *)
(* and a disposition, wherever the archiving worker dies and whoever else  *)
(* archives or discards the run; an archived disposition has the snapshot  *)
(* and its round.                                                          *)
SnapshotComplete ==
    \A r \in Runs :
        /\ snapshots[r] # None => /\ snapshots[r].files = Len(RawTables)
                                  /\ dispositions[r] # None
        /\ dispositions[r].kind = "archived" =>
              snapshots[r] # None /\ snapshots[r].round = dispositions[r].round

(* SimulationSnapshot and SimulationRunDisposition are immutable: neither  *)
(* a later decision, nor a second archive, nor the reset of the world      *)
(* changes or removes one.                                                 *)
DecisionsPermanent ==
    \A r \in Runs : /\ snapshots[r] # None => snapshots'[r] = snapshots[r]
                    /\ dispositions[r] # None => dispositions'[r] = dispositions[r]

(* Requests and commands come one at a time: nothing in the code makes     *)
(* them wait for each other.                                               *)
OneWorker == \A v, w \in crew : v = w

(* verify_simulation_snapshot accepts what archive_simulation_run wrote of *)
(* a run that was finished when the archive began, when nobody advances    *)
(* the run meanwhile.                                                      *)
SnapshotVerifies ==
    \A r \in Runs :
        snapshots[r] # None /\ snapshots[r].status \in FinishedRunStatuses
            => Verifies(snapshots[r])

(* SimulationRunDisposition: every finished run has its disposition before *)
(* another run starts, when requests come one at a time.                   *)
DispositionBeforeNext ==
    (\E r \in Runs : runs[r].status = "absent" /\ runs'[r].status = "running")
        => UnresolvedFinished = {}

ArchiveSound == TypeOK /\ SnapshotComplete /\ (OneWorker => SnapshotVerifies)

DispositionsStand == [][DecisionsPermanent /\ (OneWorker => DispositionBeforeNext)]_vars

-----------------------------------------------------------------------------
(* What the repository says of itself and the code does not keep: the runs do *)
(* not check these, the README says how each fails.                           *)

(* record_discarded_disposition: a run is archived or discarded, not both. *)
ArchivedNotDiscarded ==
    \A r \in Runs : snapshots[r] # None => dispositions[r].kind # "discarded"

(* A reset that is not forced destroys no run that is running, may be      *)
(* continued or waits for its disposition.                                 *)
ResetSparesOpenRuns ==
    [][(\A w \in crew : workers[w].pc = "flush" => ~workers[w].force) =>
         \A r \in Runs : (Exists(r) /\ runs'[r].status = "gone") => IsResolved(r)]_vars

============================================================================

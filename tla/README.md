# LiveOS in TLA+

Bigapple LiveOS is a Django application in which a self-governing community
keeps its members, tasks, credits, purchases, votes and public record. Requests
of many members run at the same time, each in a database transaction of its own
(MySQL, InnoDB, READ COMMITTED: `live_os/settings.py`), and the services guard
what they do with row locks, unique keys and status checks. The modules in this
directory model those services, TLC checks them on small instances, and TLAPS
proves the central facts for instances of every size.

## The system

| Component | State it keeps | Operations | What makes it correct |
|---|---|---|---|
| Credit transaction ledger (`core/credit_services.py`) | posted rows, account balances, idempotency keys | `post_credit_transaction` | credits move once per key |
| Member credits and redemption orders (`core/credit_services.py`) | orders, merchant settlements, frozen credits | transfer, deduct, create/cancel/fulfil/report an order, reverse | nobody overdraws; an order is settled once; frozen credits back open orders; one reversal per row |
| Tasks and budgets (`core/tasks/`, `core/credit_services.py`) | task status and assignee, issuance pool, locked budgets | draft, create funded, publish, claim, assign, submit, review, close; issue, lock, unlock | the pool is not overspent; tasks open funded; accepted tasks are paid once |
| Expense claims (`core/finance_services.py`, `core/attachment_services.py`) | claims, reviews, payments, evidence rows, stored objects | submit, review, pay, withdraw, publish, correct | one payment, after approval by another member; rows and objects agree |
| Proposals, procurement and work lists (`core/proposal_services.py`, `core/procurement_services.py`, `core/resource_services.py`, `workspace/`) | quotes, proposals, approvals, stock | offer, approve, reject, execute, receive, pay, adjust, edit, list | quote and proposal agree; every slot filled by another member; deliveries booked once; nothing gets stuck |
| System event ledger (`core/event_ledger.py`) | the hash chain | `append_event`, `verify_event_chain` | the chain verifies, does not fork, only grows, and appends end |
| Electorate proposals and applications (`core/unified_proposal_services.py`, `core/application_services.py`) | rule versions, electors, ballots, executions, applications | apply, publish, activate, vote, finalise, execute, retry | decided once by the electorate of the snapshot; admission once |
| Deliberator examination (`core/deliberator_exam_services.py`) | question versions, policies, attempts, terms | publish, retire, begin, submit, grade | one result per attempt, one term per pass |
| Feedback (`core/feedback_services.py`, `core/event_feedback_services.py`) | entries, cases, public Events | submit, reply, hide, verify, ask, conclude, close, withdraw | the record tells the case; hidden entries are silent |
| Risk desk (`core/risk_services.py`, `core/procurement_challenge_services.py`) | rules, alerts, challenges | edit, evaluate, challenge, review | reviews and their events agree |
| Roles and OpenFGA projection (`core/role_assignment_services.py`, `core/openfga_projection_services.py`, `core/authorization_services.py`) | assignments, terms, tuples in an external store | assign, revoke, expire, project after commit, check, rebuild | no permission outlives its fact |
| Qualifications and role baseline (`core/professional_qualification_services.py`, `core/role_baseline.py`) | qualifications, domains, baseline command | record, expire, revoke, reset | revoked stays revoked; PASS means the baseline |
| Credentials (`core/credential_services.py`) | templates, grants, covenanter numbers | issue, number, configure, repair | numbers without gap or duplicate |
| Simulation engine (`simulation/engine.py`, `simulation/plan_application.py`) | plan revisions, runs, change sets | run, fail, feed back, apply | budgets and dependencies respected |
| Zero-start simulation (`simulation/zero_start*.py`) | applicants, turns, gate, pre-engineering | windows of hours, screening, feedback | nobody forgotten; completion earned |
| Simulation lab (`simulation_lab/views.py`, `simulation/disposition.py`, `simulation/archive.py`) | change sets under review, snapshots, dispositions | apply, reject, abort, archive, discard, start, reset | one baseline; complete archives; dispositions stand |
| Worlds (`worlds/`, `simulation/world_reset.py`) | registry, databases, runtime objects, logs | create, archive, delete, migrate, seed, reset | the real world is safe; one world per database |
| Avatars (`core/avatar_services.py` and its commands) | profile rows, objects in two layouts | upload, remove, serve, clean, migrate | rows never name a missing object |
| Mainline of the dashboard (`observer/mainline_context.py`) | plan nodes as edited | edit, publish, show | no work vanishes from the page |

The components meet in four places. Every service appends to the **one event
chain** inside its own transaction, so every transaction of the system queues
for the last row of that table. Task rewards, budgets, transfers and orders move
credits through **one posting function**. Procurement and applications are
decided by **proposals** that call back into them on execution. And pages pick
what to ask for from what they read *before* the service locks a row.

What is hard here: interleavings of requests on the same rows, values read
before a lock and used after it, repeated requests, objects and tuples stored
outside the transaction, processes dying halfway, waiting for one global tail
row. `PROJECT.json` lists these hazards at their lines, with the properties that
would catch them going wrong.

## Modules

| Module | Models | State | Actions |
|---|---|---|---|
| `CreditLedger` | `post_credit_transaction`, `CreditTransaction`, `CreditAccount` | `rows`, `balance` | `Post`, used by the two modules below |
| `MemberCredits` | the member side of `credit_services.py` | `orders`, `settlements`, `sess`, history `forced` | `Request*`, `Acquire`, `Decline`, `Commit*`, `Rollback`, `PassiveDeduct` |
| `TaskBudget` | `core/tasks` and the pool side of `credit_services.py` | `tasks`, `sess`, histories `genesis`, `reversed` | `Issue`, `Reverse`, `Request*`, `Check*`, `Commit*`, and one action per single-lock task service |
| `ExpenseClaims` | finance services, evidence, finance pages | `claims`, `reviews`, `payments`, `withdrawals`, `links`, `objects`, `sess`, history `lost` | `Begin*`, `InsertPayment`, `StoreObject`, `Commit*`, `Fail`, `Crash` |
| `Procurement` | offers, approval slots, stock | quotes, proposals, stock movements, the order of their time stamps, sessions, calendar day | `BeginSubmit`/`CommitSubmit`, `BeginDecision`/`Decision`, the quote services, `ManualAdjustment`, `BeginEdit`/`CommitEdit`, `Midnight` |
| `WorkItems` (extends `Procurement`) | the approval, execution, receipt and payment lists: what the queries count (`Pending`) and what the first `DisplayLimit` rows show (`Items`) | none of its own | none: what each member is shown in each state |
| `EventLog`, `EventLedger` | what readers of the event ledger are promised; `append_event` with the tail lock and retries | `log`; `chain`, `txn` | `Append_events`; `Begin`, `Scan`, `Wake`, `Insert`, `Retry`, `GiveUp`, `Commit`, `Abort` |
| `Electorate` | member applications, rule versions, votes, execution | `cases` (application, proposal, ballots), `rules`, `terms`, `status` | submitting, publishing, voting (`BeginBallot`), resolving at the deadline (`BeginFinalize`), both with `CountVoters` before `CommitCount`, and executing as read-then-commit sessions; retry, suspension |
| `DeliberatorExam` | questions, policies, attempts, appointment | `bank`, `policies`, `attempts`, `terms` | edits on loaded objects, draw, submit, check of the qualification (`CheckGrant`) and appointment (`Grant`), roll back |
| `Feedback` | community feedback and cases on public Events | `post`, `case`, `event`, `ledger` | one per service; each decides on what the page loaded |
| `RiskDesk` | risk rules and procurement challenges | `rule`, `loaded`, `challenge`, `filing`, `log` | load a form and save any of its fields, evaluate, submit, announce, crash, review |
| `RoleProjection` | assignments, checks, the tuples of OpenFGA | `rows`, `tuples`, `sess` | calls after commit that arrive late, in any order or not at all; lazy clean-up; rebuild |
| `RoleBaseline` | qualifications and the reset command | `quals`, `roles`, `chain`, `cmd`, setting `subjects` | record, expire, revoke, the command's transactions one by one |
| `Credentials` | templates, grants, numbers | `grants`, `holder` (template lock), `config` | issue, number behind the lock, edit, repair, roll back |
| `PlanSimulation` | automatic runs and applied feedback | `revisions`, `runs`, `drivers`, `changeSets` | one engine step, failure, pause, abort, apply, re-apply, reject |
| `ZeroStart`, `ZeroStartScenario` | recruitment windows; the shipped tables | `runs`, `members`, `partners`, `turns`, `changeSets` | begin and run a window, abort, dispose, apply, reject |
| `LabReview` | the review desk of a run | `run`, `sets`, `revisions`, `req` | apply: wait for the plan's lock, decide behind it, commit; reject: read, and save later |
| `RunArchive` | runs, snapshots, dispositions, the guard of a reset | `runs`, `snapshots`, `dispositions`, `workers`, setting `crew` | start, write, abort, archive table by table, discard, reset, die |
| `WorldLifecycle` | registry, seeding and reset | `registry`, `dbs`, `files`, `log`, `op`, setting `env` | the commands step by step, requests bound to a world, dying |
| `Avatars` | profiles, two storages, clean-up and migration | profile rows, objects, `sess`, settings `faults`, `legacy` | storage call, commit and compensation apart, with failures |
| `Mainline` | the plan as the dashboard shows it | `nodes`, `active` | any edit of the admin form, publication |
| `Community` | `Electorate`, `DeliberatorExam`, `Feedback`, `RiskDesk` side by side | theirs | a step of one of them |
| `Authority` | `RoleProjection`, `Credentials`, `RoleBaseline` side by side | theirs | a step of one of them |
| `WorldsAndAvatars` | `WorldLifecycle`, `Avatars` side by side | theirs | a step of one of them |
| `Lab` | `PlanSimulation`, `LabReview`, `RunArchive` side by side | theirs | a step of one of them |
| `*Proofs` | theorems about the module before the suffix and its parts (`ProcurementProofs` also about `WorkItems`; `WorldsAndLabProofs` about `WorldsAndAvatars` and the desk and archive of `Lab`, `LedgerAndPlanProofs` about `EventLedger` and the engine of `Lab`) | | |
| `MC*` | the instances TLC checks | | |

A *setting* is a variable chosen initially that no step changes: who is at work, or
what may go wrong in this history. A property that needs a calm environment names
the setting as its condition, so one specification covers the calm histories and
the others.

A *session* is a request being served: idle, or a record of the operation, its
arguments and what it has read so far. A service that locks the row it decides
on before it reads anything, and reads nothing else, is one step: no other
commit can come between its reads and its writes. A service that reads something
first (an idempotency key, a balance, a page's copy of the row, a count) has one
step per read and one for the commit, and other sessions' commits fall between
them. A transaction becomes visible when it commits, so its writes are one step.
A session can roll back at any point before its commit; this stands for an
exception, a deadlock victim, a lost connection and a killed worker. Locks are
guards (`LockFree`, `TaskFree`, `PoolFree`, `TailFree`) over the sessions that
hold them. Calls to something outside the database (the object store, OpenFGA)
are steps of their own, before or after the commit as in the code, and may fail,
be lost or overtake one another.

One lock is easy to overlook. `apply_plan_change_set` begins with a `SELECT ... FOR
UPDATE` that joins the change set with its source revision and with the plan
(`plan_application.py:194-202`). It has no `of=`, so MySQL locks the rows of all joined
tables, and the plan's row among them: applications to one plan come one after the
other, and under READ COMMITTED what each of them reads behind that lock, the status of
the revisions included, is committed and stays until it commits. `PlanSimulation`
therefore applies and re-applies in one step, and `LabReview` has the wait for the lock
and the commit. `lab_reject_change_set` takes no lock before it saves: in both modules a
rejection may overwrite an application committed since its read.

Data are abstracted to what the properties tell apart. Amounts are small whole
numbers. A keyed order's id is its key (the code hashes it). A row keeps type,
amount, accounts, key, order, task and the row it reverses; texts, timestamps
and metadata are left out; where a list is ordered by a time stamp (`Procurement`),
the stamps come in the order of the commits. An event's hash is the sequence of everything it
commits to, which is what a hash without collisions would be. A file is a model
value.

`TaskBudget` splits the one `task_locked` account by task, because every
decision in the code uses `task_locked_credit_balance(task)`, which counts the
rows that carry the task. A reversal carries none, so what it moves in that account
is a part of its own, `Residue`, and the budget of a task whose lock was reversed
still looks full. The module keeps the shared locks that inserting a row takes on the
task and accounts its foreign keys name, because they decide whether an unlock
can slip in between the check and the commit of a publication. `MemberCredits`
leaves those locks out: there they only delay or refuse steps the module allows.

## Runs

| Run | Module, config | Checks |
|---|---|---|
| member_credits | `MCMemberCredits`, `MemberCredits.cfg` | `OneRowPerKey`: a key is on one posted row. `ActiveSpendCovered`: a member is below zero only by what deductions and reversals, which the code does not limit, took. `OrderSettledOnce`, `FrozenBacksOrders`: an order's credits are frozen once and leave the frozen account once, whichever of cancellation, fulfilment, dispute and replay race; an order closed under the key of another one's row moved nothing, and its credits are still counted. `ReversedOnce`: no row is named by two reversals; a reversal that was re-pointed leaves its first original free to be reversed again |
| task_budget | `MCTaskBudget`, `TaskBudget.cfg` | `PoolNeverOverspent`: only rewards under the genesis exception and reversals, which look at no balance, overdraw the pool. `FundedPublication`: the step that opens a task with base points finds its reward budgeted. `PaidOnceIfAccepted`, `TaskForward` |
| expense_claims | `MCExpenseClaims`, `ExpenseClaims.cfg` | `PaidOnceAfterApproval`, `StatusJustified`, `EvidenceMatchesRows`: one payment per claim, after approval by another member; every status has its record; no row points to a missing object, and an object without a row belongs to a running request or to a crash |
| procurement | `MCWorkItems`, `Procurement.cfg` | `ProposalAgrees`, `BoughtWithAllSlots`, `StockFollowsReceipts`, `CreditedOnlyDelivered`; `WorkListsComplete`: each list shows the newest of what the pages let its member do, no quote is in two lists, every open purchase is counted for somebody who can move it, and the lists of all members are never without one that can be moved while any is open (a donation is open until it is received) |
| event_ledger | `MCEventLedger`, `EventLedger.cfg` | `ChainVerifies`, `SingleWriter`, `ImplementsLog` (refinement of `EventLog`), `AppendsEnd` |
| community | `MCCommunity` | `AdmissionSound`, `AppointmentSound`, `RecordTold`; `DecisionsHold`, what no step may do to a decision |
| authority | `MCAuthority` | `AccessFollowsFacts`, `NumbersSound`; `QualificationsHold` |
| simulation | `MCSimulation` | `PlanRunSound`, `RecruitmentSound`; `HistoryKept` |
| lab | `MCLab` | `DeskSound`, `PageSound`; `DispositionsStand` |
| worlds | `MCWorlds` | `WorldsSound`, `AvatarsSound`; `RealRowsSafe` |
| progress | `MCProgress` | `RequestsEnd`, liveness under fairness |
| reversed_order | `MCMemberCredits`, `MemberCreditsReversal.cfg` | expected violation: a redemption order whose freeze has been reversed stays open and can be cancelled or fulfilled too, although both services mean to refuse reversed orders |

The last six passing runs each check several components. The components of one run
write no row in common, so they share no state, and a property of one of them holds
of all together exactly when it holds of that one alone. `focus`, chosen initially,
says which of them acts; the others rest in their initial state, and the run explores
the sum of their state spaces instead of the product.

For `community`, `authority`, `worlds` and `lab` the components are put together in
a module of their own (`Community`, `Authority`, `WorldsAndAvatars`, `Lab`), whose
specification lets any of them step at any time and whose properties the runs check
and the theorems prove (for `Lab` its desk and archive act in `lab`, its engine in
`simulation`). The MC module extends it, gives its constants the largest bounds, and adds instances of a component within smaller ones (`Admission`, `Ballots`,
`Rivals` of `Electorate`; `Attempts`, `Bank` of `DeliberatorExam`; `Announcements`,
`Disputes` of `Feedback`; `Office`, `Reload` of `RoleBaseline`; `Lifecycle`,
`Registry`, `Race` of `WorldLifecycle`; `Faulty`, `Served` of `Avatars`; `OneRun` of
`RunArchive`), so that each question is asked where it is interesting. `ZeroStart` in
`simulation`, the components of `progress` and the page in `lab` (`Groups`, `Work` of
`Mainline`) are instantiated directly.

A property of such a run is the conjunction of what its components promise
(`AdmissionSound` names `ApplicationAgrees`, `AdmittedByElectorate`,
`OneCurrentTerm`, `NobodyLeftWaiting` of `Electorate`, and so on); `PROJECT.json` has
a mutant of the code for every conjunct.

Some conjuncts hold only where something does not happen, because the code does
not guard against it; the conjunct has the setting as its condition.
`AliasOwnedOnce` and `SucceededIsBaseline` are for one operator at a time
(`env.staff`), `RealRowsSafe` besides for worlds that keep their type (`env.retype`);
`SnapshotVerifies` and
`DispositionBeforeNext` for one worker (`crew`); `PassMeansBaseline` where the
qualification of the expert is left to the command (`subjects`); `ReferenceSound`
without lost commit acknowledgements, two migrations, edits of profiles in the admin
or a clean-up while uploads go on (`faults`); `NothingLeftover` where nothing fails and
no avatar is in the old layout (`faults`, `legacy`). What happens otherwise is listed
next.

### What the repository says and the code does not keep

Each module ends with the statements of this kind, as formulas; TLC finds each of
them violated on an instance of the module as small as the runs' (two sessions
suffice everywhere). The sentence in quotation marks is in the comment above the
formula.

| Formula | What happens |
|---|---|
| `MemberCredits!ReversedOrderStaysOpen` | run reversed_order |
| `MemberCredits!RetriesMatch` | a key reused to cancel or fulfil a second order of the same amount (and, to cancel, the same member) returns the first order's row, and the second order is closed with its credits left in the frozen account (`credit_services.py:316`, `921`, `962`) |
| `TaskBudget!BudgetNeverNegative` | two unlocks read the same remaining budget without a lock, and the task ends with a negative one (`credit_services.py:497`) |
| `ExpenseClaims!PaidFromApproved` | a payment request that loaded an approved claim pays it after it was set to rejected (`finance_services.py:206`) |
| `Procurement!SingleByAnyOne` | the page gives a finance member the finance role on a single-tier proposal, which `approve_proposal` refuses until a governance member has approved |
| `Procurement!OffersWithinLimit` | two submissions at once exceed the daily offer limit |
| `Procurement!StockIsRecorded` | the edit page writes the stock it loaded over a later one |
| `WorkItems!DonationsListed` | a received donation is on no list (the query asks for payment status pending, a donation's is not required), though the list has a label for it and `mark_offer_paid_or_donated` still waits to be called |
| `WorkItems!SlotFilledOnce` | two governance members approving at once fill the same slot; with too few governors left a major purchase cannot be approved any more |
| `Electorate!ApprovedByEligibleNow` | a voter loses eligibility after `eligible_members` has counted them and before the decision is written (`unified_proposal_services.py:234`) |
| `Electorate!OneOpenApplication` | two submissions of one member both find no open application |
| `Electorate!SubmitKeepsSuspension` | `PENDING_REVIEW` is saved over a suspension committed since the check |
| `Electorate!ExecutedMakesTerm` | two executions at once both succeed on one term |
| `RoleProjection!OnlyCurrentProjected`, `CurrentProjected` | a late write follows the delete of a revocation, or a late delete the write of a new assignment; access is never granted by it |
| `RoleProjection!LazyCleanupCleans` | OpenFGA refuses a delete of several tuples when one is missing |
| `Credentials!AdminRecruitmentKept` | a template read without recruitment is saved over an administrator's configuration |
| `Credentials!CollisionReturnsExisting` | the query after the `IntegrityError` runs in a transaction that is already broken |
| `DeliberatorExam!AppointedWhileEligible` | the qualification is lost between the check of `create_role_assignment` and its insert (`role_assignment_services.py:73`, `105`) |
| `DeliberatorExam!NoQuestionTwice` | a draft retired meanwhile is published beside its successor, and an exam draws both |
| `Feedback!NeededCaseOpens` | hiding an entry makes the Event of a case internal, and its page no longer opens |
| `Feedback!FiledOnVisibleEvent` | visibility is tested on an object loaded earlier |
| `RiskDesk!LowStockAlerted` | `evaluate_resource_risks` uses a name that is not imported and raises |
| `PlanSimulation!AbortedStaysAborted` | the loop of an aborted run writes status running at its next step |
| `PlanSimulation!PreparationRunsFirst`, `ValidatedApplies` | an added node is sequenced behind the node it prepares; a second funding node of the same code is refused |
| `ZeroStart!OneTurnPerHour`, `InteractionFailureTerminal` | two requests continue one run from copies read outside the transaction |
| `ZeroStart!NoFeedbackTwice` | once the draft is applied the next window proposes it all again |
| `LabReview!RejectedIsNotBaseline`, `RejectedNeedsNothing` | a rejection overwrites an application committed since; a rejected set is still offered |
| `RunArchive!ArchivedNotDiscarded`, `ResetSparesOpenRuns` | a discarded run can be archived; the guard of a reset does not ask about continuable failed runs |
| `WorldLifecycle!ArchiveHolds`, `ResetsLogged` | a reset writes back the registry status it read; only `CommandError` is caught around the seed |
| `RoleBaseline!ExpiredOnlyElapsed`, `OneInForce`, `ChainVerifies` | expiry and conflict are judged at the start of the new qualification; the reset deletes rows of the event chain |
| `Mainline!StageWorkFirst` | the page prefers work of the current stage only among the first six nodes under way |

### Bounds, and why they are enough

| Run | Instance | Why |
|---|---|---|
| member_credits | 2 members, 2 sessions, 1 key, 2 unkeyed order ids, 1 merchant, amount 2, m1 opens with 4, `MaxRows` 3 | three rows are a freeze, its settlement and a reversal, or two freezes and one settlement whose key then closes the other order; 4 credits let two spends of 2 race to the limit and a third fail; the shared key meets every pair of operations |
| task_budget | rewards 2 and 0, 1 member, 2 sessions, 3 keys, amount 2, `MaxRows` 3, `MaxReversals` 2 | three rows, each with its key, are an issue, a lock, and a movement that competes for one of them: an unlock while the task is published, a second lock, a reward, a reversal; or two issues and the reversal of one, re-pointed at the other |
| expense_claims | 1 claim, 3 members with overlapping duties, 2 sessions, 4 objects, `MaxFiles` 2 | two sessions make each stale copy; two files per request make a batch fail halfway; claims share nothing but objects |
| procurement | `alone`: 1 quote, 5 members, all tiers, quantity 2, adjustment -1, `MaxAdjust` 1, `LastDay` 1; `crowd`: 2 quotes below the major tier, one request at a time, three of the members act; `DisplayLimit` 1, daily limit 2 | three slots need three members; two approvals spent on one slot need a fourth governor, or nobody could move the quote; one adjustment fits between the load and the save of an edit; two quotes fill a list of one place |
| event_ledger | 3 transactions, 1 body, 3 attempts (the code's own number), `MaxBatch` 2, `MaxEvents` 3 | batches of two make a waiter's row stale; a third transaction makes it stale again |
| community | `Electorate`: 3 members, 2 sessions, one application under two policies in turn, or one whose voters change their ballots, or two under one policy that a single voter satisfies; `DeliberatorExam`: two attempts at one exam, or two publishers with three question versions; `Feedback`: 2 members, an entry and a case; `RiskDesk`: 2 administrators, one challenge | two sessions make every race of two requests; a second policy is what activation and revision need; two applications of which each is decided by one ballot are enough for an execution beside another member's vote |
| authority | 1 member with up to 3 assignments, 2 calls in flight, 1 lost; 2 qualification rows and a reset, or 1 row, 1 other event and 2 resets with the expert's qualification left to the command; 2 members, 3 grants, 1 rollback | a revocation, its successor and the call that is late are three assignments |
| simulation | a plan of 8 nodes, 3 of them stages, 2 runs, 2 revisions; zero-start with waves of 2 in windows of 1 to 5 hours up to hour 14; the shipped tables in windows of 72 hours up to hour 580 | windows of different length cut each wave at every place; the shipped gate opens at hour 353 |
| lab | 3 change sets, 2 requests; 2 runs with one worker, or 1 run with two, 2 turns; 4 plan nodes under any parents | two turns make a table grow between serializing and counting |
| worlds | the real world and 1 or 2 simulations on 2 databases, 1 or 2 operators; 1 or 2 members, 2 sessions, 2 or 3 uploads | a world is moved, deleted and created again, a database changes hands |
| progress | 1 member and 2 requests; 1 plan run; 3 change sets and 2 requests | |

Sessions are symmetric wherever nothing tells them apart, and so are objects,
databases and the members who are governors only. Deadlock checking is on where a
state with nothing to do would be a fault (`member_credits`, `task_budget`,
`expense_claims`); in the other runs the bounds, or the end of every case, stop
the system.

### Fairness

`AppendsEnd` and `RequestsEnd` need it. A transaction that is scanning or has
finished its appends goes on (`WF` on `Scan` and `Commit`): a request does not
stop by itself. A waiting transaction that is again and again offered the lock
takes it at some time, and so does one that may insert, retry or give up again
and again (`SF` on `Wake` and on `Insert \/ Retry \/ GiveUp`, and on the template
lock of `Credentials` and the locks of plan and change set of `LabReview`): InnoDB hands a row lock to its
waiters in the order in which they asked. The driver of a plan run is a loop in
one process and goes on by itself (`WF` on `Drive`). Nothing is assumed of a
request's beginning or of a rollback: callers need not come, and transactions
need not fail.

## Proofs

`tlapm X.tla` checks every obligation of each module `X` below. Constants are
arbitrary sets: nothing is assumed about how many members, sessions, rows or keys
there are, except that what the code counts, numbers or goes through to the end is
finite: the members who vote (`Electorate`), change sets (`LabReview`), runs and
workers (`RunArchive`), worlds, databases and storages (`WorldLifecycle`), the nodes
of a plan (`PlanSimulation`). What is assumed of them is one named `ASSUME` of each
module or, for components that are put together, of the module that does so (`CommunityAssumption`, `AuthorityAssumption`,
`WorldsAndAvatarsAssumption`, `LabAssumption`); TLC evaluates each of them in a run.

Two assumptions deserve a word. `MemberCreditsAssumption` says that no request is
made with the key `<<"freeze", o>>` of a fresh order id `o`: the server draws that
id when it makes the order, so no caller can have used the key earlier.
`OrderSettledOnce` needs it: otherwise the freeze of a new order would be taken
for a replay of that request. Nothing of the kind is assumed of the keys of
cancellations and fulfilments, and a reused one does what the table above says.

`PlanSimulationAssumption` says what the demo seed makes of a plan
(`live_os/demo_seed/project_plan_specs.py`), which `run_simulation_smoke` writes before
it drives the engine: parents are stages of the same revision, and a stage seeded as
completed has no required child that is still open. With `--skip-seed` the engine runs
whatever plan the world has; in the one of the zero-start seed a milestone is a parent
and is also executed itself, and neither the run nor the theorems speak of that. The
assumption does not say that parents or dependencies are free of circles, which nothing
in the engine checks. `Words \subseteq STRING` tells the provers that the
string literals of the feedback are strings, which they cannot derive.

| Module | Theorems | What the inductive invariant adds to the property, and why it must |
|---|---|---|
| `MemberCreditsProofs` | `TypeCorrect`, `SpendingCovered`, `KeysUnique`, `ReversalsUnique`, `OrdersSettled`, `FrozenIsBacked` | A commit subtracts an amount that was compared with the balance earlier. `SpendGuarded`: the balance still covers it, up to forced losses. `LockExclusive`: two requests about to post never hold the same account, order or row; it is what keeps `SpendGuarded`, and what keeps two reversals of one row apart. A keyed row needs no lock: `Post` inserts it only when no row has the key. Orders add what each posting request knows of its order. `FrozenIsBacked` is a sum over the orders whose credits are still frozen (open ones, and those closed under a key already used), which are finitely many at any time: a freeze opens one order and adds its price, a settlement with a row of its own closes one and takes it away, a replayed one changes neither side, and no row moves credits from the frozen account to itself (`NoIdleMove`) |
| `TaskBudgetProofs` | `TypeCorrect`, `PoolSafe`, `PaidOnce`, `PublicationFunded`, `TasksForward` | Task row, pool row and event tail are held by one transaction at a time (`TaskExclusive`, `PoolExclusive`, `TailExclusive`), and what their holder read is still so when it commits (`HeldTask`, `PoolCovered`). An unlock does not ask for the Task lock, but the row it inserts names the task by a foreign key, so it waits for a publication between its check and its commit; a reversal names no task and leaves every budget as it is |
| `ExpenseClaimsProofs` | `TypeCorrect`, `PaymentsSound`, `StatusesJustified`, `EvidenceSound` | The services never look at the claim again after loading it, so the invariant says what is true for good (`ClaimKnown`): its claimant, that it exists, that a proper approval is on record, and never its status. Payments are serialised by the unique row they insert (`PayExclusive`); a stored object has one owner (`FilesOwned`) |
| `ProcurementProofs` | `TypeCorrect`, `QuoteFollowsProposal`, `SlotsFilled`, `DeliveriesBooked`, `DeliveriesCredited`, `ListsMatchPages` | `ApprovalOf`: no decision before submission, only approvals until a rejection, one per member. `RequestOK`: the id of an offer in progress is fresh. A role is picked before the lock and may be outdated, so slots are counted from the decisions, not from what the request believed |
| `LedgerAndPlanProofs`, of `EventLedger` | `TypeCorrect`, `ChainAlwaysVerifies`, `NeverForks`, `LedgerImplementsLog` | Uncommitted rows continue the committed chain (`PendingContinue`), one transaction has any (`SingleWriter`), a tail that was read is a row of the chain or its reader's own (`TailsKnown`). The argument uses the unique `seq` and never the row lock: an outdated tail names a `seq` that is taken. The refinement maps the chain to its bodies; a commit is one `Append_events`, all else stutters |
| of `PlanSimulation` | `PlanRunsAreSound`, `RevisionsStay` | `EngineInv` tells of every run how far it is (`Story`): what its turns report adds up to what it spent (`ReportedIn`), what it started was free to start (`InOrderOf`), and what is completed is a node it turned, one the seed left so, or a stage (`StagesBacked`, `StagesClosed`); of every failed run where its driver stands between the failure and its change set (`Failing`); of every change set that what it adds fits the revision it answers (`ChangeSound`). The hard step is the completion of a node, which closes stages level by level: `FinishedFrom` is the set it closes, and `StagesFinish` shows that a stage is in it exactly when it has just lost its last open child, although parents may form a circle, because `WaysAgree` makes two visits of a stage the same visit |
| `CommunityProofs`, of `Electorate` | `SpecIInv`, `TypeCorrect`, `StoriesAgree`, `AdmittedByVote`, `OneTermNobodyWaits`, `CasesSettle`, `ApprovalsCountEligible`, `DisabledGetNoTerm` | `CaseOK`: one application with its proposal, under the rules published so far; publishing a version must not change what older versions say. `Holding`: what a request that votes, resolves or executes has read of its case still holds when it commits, because nobody else holds the row (`OneHolder`); of the eligibility of voters, which nothing locks, it says nothing |
| of `DeliberatorExam` | `ExamTyped`, `OneTermOnePolicy`, `TermsArePassed`, `ResultsStay` | `TermsEarned`: passed attempts and terms, one to one. `ExamRequests`: an attempt about to be granted is still in progress and has its score, and one request alone is granting it, from the check of the qualification to the insert; without it a second grant of one attempt could not be excluded |
| of `Feedback` and `RiskDesk` | `FeedbackTyped`, `CasesTold`, `HiddenStaysSilent`, `ConclusionsStand`; `RiskDeskTyped`, `ReviewsTold`, `EditsLoseNothing` | `StagesRecorded`: what the ledger has of a case are stages of it, so each service appends the one that follows the last. A review decides under the lock of the challenge, so the property is nearly its own invariant |
| of all four | `AdmissionIsSound`, `AppointmentIsSound`, `RecordIsTold`, `DecisionsAreFinal` | a step of `CommunitySpec` is a step of one part and a stutter of the others |
| `AuthorityProofs`, of `RoleProjection` | `SpecIInv`, `TypeCorrect`, `OneAssignment`, `StaleNeverGrants`, `RebuildRestores` | The store may hold anything while calls are late or lost, so no invariant relates it to the rows. `CheckOK`: OpenFGA is asked only after the fact was found in the database. `OneRow`: a role has one row that is active and not over. `RebuildInv`: an undisturbed rebuild carries the facts from its first step to its last |
| of `Credentials` | `NumbersTyped`, `NumbersNeverReused`, `OneCredentialEach` | `ChosenOK`: the number chosen behind the template lock is still the next one, and its member still has none; it needs the fresh query behind the lock. `Counted`: the largest number is their count |
| of `RoleBaseline` | `DeskTyped`, `RostersAgree`, `RevocationStands`, `PassIsEarned` | `MarkedOK`: rows that a recording is about to mark as expired are still active, so nobody revoked them. `LoadInv`: from the reset to the report no row of the expert is active but the one the command records; it needs `ExpertLeftAlone` |
| of all three | `AccessIsFactual`, `NumbersAreSound`, `QualificationsStand` | as for the community |
| `WorldsAndLabProofs`, of `Avatars` | `KeysOfImages`, `TypeCorrect`, `PageServesMember`, `SpecIInv`, `ProfilesKeepImages`, `NothingIsLeft`, `AvatarsAreSound` | `KeyInv`: a key belongs to one member and one image, in rows, objects and running jobs, under every fault; that is all the public page needs. `SafeInv` says who holds which key: an uploaded object that no row names yet is held by one request (`SwitchOK`, `Apart`), what will be deleted no row names and none will (`DeleteOK`, `CleanOK`), a copy is there before its row is switched and the old object goes after (`MigrateOK`). `ProfilesKeepImages` assumes `Calm`: calls fail and processes die, and nothing else goes wrong; each of the other four faults alone breaks it. `NothingIsLeft` assumes `Tidy`: no fault and no avatar of the old layout; `TidyInv` then finds each object named by a row, or held by a job that will name or delete it |
| of `WorldLifecycle` | `WorldsTyped`, `RealWorldStaysOpen`, `DatabasesApart`, `ResetsRebuild`, `RealRowsStay`, `WorldsAreSound`, `RealRowsAreSafe` | `LifeInv` (rows, what each command has read, the real world open) holds under any race. `SoloInv`, for one operator, adds what a command still relies on (`CommandSound`): the alias it chose is free, the registry row it read is unchanged, and what is seeded so far plus the steps ahead makes a whole baseline |
| of `LabReview` | in `LabIsSound` | `InOrder`: an application that holds the lock of the plan is alone, and its change set stays as it was read, since a rejection waits for its row; so the code it chooses is free. `CodesOwned`: every revision has its own change set, which nobody sees as a draft again. With `OnePublished` nothing is assumed of who sends which form how often |
| of `RunArchive` | in `LabIsSound`; `DispositionsAreFinal` | `ArchiveInv`: a snapshot is written from a package whose summary came after its last table. `AloneInv`, for one worker: the package under way counts what its files hold (`Faithful`), and nothing finished is undecided when a run is about to start |

TLC checked the inductive invariants on instances like the runs' as well, and every
theorem about a property of a run states the definition that run checks.
`ListsMatchPages` proves two of the three parts of `WorkListsComplete`.

Only model-checked, and why:

- `AppendsEnd`, `RequestsEnd`: liveness under fairness, out of the prover's reach.
- `SomebodyCanMoveIt` (in `WorkListsComplete`): true because the instance has
  enough members in enough roles, and not for every community.
- `PageSound`: groups and depths follow parents to the top, at most `WalkLimit`
  times; what such a recursion computes for every input needs induction over data.
- `RecruitmentSound`: recruitment is a property of the shipped tables, so it is about
  particular data more than about every value of a constant. With it
  `DecisionsStand`, the part of `HistoryKept` about applicants; the other part,
  `RevisionsKept`, is `RevisionsStay`.

## What is not modelled

- Public pages other than the mainline, serializers, the API's parsing, event
  payloads, settings, migrations, demo data: rendering, parsing and
  configuration. What a page reads before it calls a service is in the module of
  that service.
- Login, sessions and the control administrator; registration (an account and
  its member in one transaction); edits through the Django admin, except of
  profiles and plan nodes.
- Partner applications outside the simulation, contribution ledger entries, the
  role audit and the permission set-up: single inserts or pure reads.
- Acknowledging and resolving risk alerts: nothing creates an alert, see
  `LowStockAlerted`.
- The decoding of images, archived texts and reports, titles of turns.
- Legacy (v1) event hashes, validation of public payloads (which only refuses),
  real payment backends (only the simulated one exists).
- Lock-order cycles. `create_task_with_funding` holds the tail when it asks for
  the pool, other services the pool when they ask for the tail; applications of
  change sets to different source revisions of one plan take the lock of the plan
  after that of their own rows. The database rolls one transaction back, which every
  module that has such a cycle allows at any step. The change sets of one run share
  their source revision, so `LabReview` has none.

## Plan

What remains, in this order:

1. A module for the order of row locks (Task, pool, event tail; order, accounts,
   event tail), to show that the services cannot wait for each other in a circle;
   each module has its own lock guards today.
2. The selection of questions and the visibility rules of public pages, as
   operators against reference definitions.
3. `DecisionsStand`, for every table of applicants whose decisions follow from their
   scores: the one part of an action property that no theorem states.
4. Partner applications, and the acknowledging of risk alerts once something
   creates them.

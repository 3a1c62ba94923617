----------------------------- MODULE ZeroStart -----------------------------
(***************************************************************************)
(* The zero-start simulation (simulation/zero_start*.py, projections.py):  *)
(* one founder, applicants and partners that apply by the hour and are     *)
(* screened some hours later, a startup gate of capabilities and document  *)
(* signers, and the pre-engineering milestones that follow it.             *)
(*                                                                         *)
(* A run advances by observation windows.  A window is one transaction:    *)
(* a fold of Hour over its hours, from the copy of the run the request     *)
(* read before the transaction began.  Everything else happens between     *)
(* windows: other requests, the lab's abort and disposition, and the       *)
(* application of the feedback a missed gate leaves.                       *)
(***************************************************************************)
EXTENDS Integers, Sequences, FiniteSets, SequencesExt

CONSTANTS
    Requests,        \* lab requests and command invocations
    Windows,         \* numbers of hours a window may be given
    FixedMembers,    \* MEMBER_APPLICANTS
    FixedPartners,   \* PARTNER_APPLICANTS
    MemberProfiles,  \* capability_profiles, a sequence
    PartnerProfiles, \* PARTNER_GROWTH_PROFILES, a sequence
    MemberWave,      \* when growth members apply: a record of Wave
    PartnerWave,
    Founder,         \* the founder's skills
    Capabilities,    \* STARTUP_CAPABILITY_REQUIREMENTS: [code, min, aliases]
    Documents,       \* the codes of STARTUP_DOCUMENT_SIGNER_REQUIREMENTS
    Milestones,      \* complete_after_hours of PRE_ENGINEERING_MILESTONES
    Sites,           \* PRE_ENGINEERING_SITE_CANDIDATES: [code, grid, legal]
    GridHours, LegalHours,  \* when the two site reviews become visible
    GateNode,        \* TRUE: the seeded revision has the node Z0
    FormsMayFail,    \* TRUE: a real form may be broken or closed
    MaxRuns, MaxHour, MaxRevisions  \* bounds

Wave == [first: Nat, every: Nat \ {0}, growth: Nat \ {0}, extra: Nat,
         spacing: Nat \ {0}, delay: Nat, stagger: Nat, drift: Nat]

\* The waves never overlap, so a wave cut off by the end of a window is the
\* last one and the numbers of the applicants do not depend on the window.
WavesApart ==
    \A w \in {MemberWave, PartnerWave} :
        w \in Wave /\ w.extra * w.spacing < w.every

VARIABLES
    runs,       \* sequence of simulation runs
    members,    \* members[r]: the member applications of run r, by index
    partners,   \* partners[r]: its partner applications, by index
    turns,      \* turns[r]: the virtual hours its turns stand for, in order
    revisions,  \* sequence of plan revisions
    changeSets, \* sequence of change sets
    resolved,   \* runs with a disposition or a snapshot
    request     \* request[q]: what request q holds between its two steps

vars == <<runs, members, partners, turns, revisions, changeSets, resolved, request>>

None == -1
Idle == [at |-> "idle"]

-----------------------------------------------------------------------------
(* Who applies when, as seen from a window that ends at hour h.             *)

WaveSize(w, k) == 1 + Min({k \div w.growth, w.extra})

\* The places of a wave: k-th wave, o-th applicant of it.
Places(w, h) ==
    {p \in (0..(h \div w.every)) \X (0..w.extra) :
        /\ w.first + w.every * p[1] < h
        /\ p[2] < WaveSize(w, p[1])
        /\ w.first + w.every * p[1] + w.spacing * p[2] < h}

ApplyHour(w, p) == w.first + w.every * p[1] + w.spacing * p[2]

\* Growth applicants are screened some hours after they apply, but no later
\* than the last hour of the window.
ScreenHour(w, p, h) ==
    Min({ApplyHour(w, p) + w.delay + (p[2] % 4) * w.stagger + Min({p[1], w.drift}),
         Max({h - 1, ApplyHour(w, p)})})

\* Applicants are numbered on after the fixed ones, wave by wave.
Index(w, fixed, p) ==
    Cardinality(fixed) + 1 + MapThenSumSet(LAMBDA k : WaveSize(w, k), 0..(p[1] - 1)) + p[2]

Growth(w, fixed, profiles, h) ==
    {[index   |-> Index(w, fixed, p),
      apply   |-> ApplyHour(w, p),
      screen  |-> ScreenHour(w, p, h),
      profile |-> profiles[1 + ((p[1] + p[2]) % Len(profiles))]] : p \in Places(w, h)}

\* A plausible bug: The fixed applicants are cut off by the window as well.
SpecsClipped(h) ==
    {[s EXCEPT !.screen = Min({@, Max({h - 1, s.apply})})] : s \in FixedMembers}
    \cup Growth(MemberWave, FixedMembers, MemberProfiles, h)

applicant_specs_for_hours(h) ==
    FixedMembers \cup Growth(MemberWave, FixedMembers, MemberProfiles, h)

partner_specs_for_hours(h) ==
    FixedPartners \cup Growth(PartnerWave, FixedPartners, PartnerProfiles, h)

-----------------------------------------------------------------------------
(* Screening and the startup gate.                                          *)

\* The form clamps a self-assessed score to 0..100 before it is stored.
Clamp(score) == Max({0, Min({score, 100})})

skills_match_requirement(skills, c) ==
    \E a \in c.aliases \cap DOMAIN skills : skills[a] >= 50

screening_decision(profile, h) ==
    LET matches == \E c \in Capabilities : skills_match_requirement(profile.skills, c)
    IN  IF profile.withdraw # None /\ h >= profile.withdraw THEN "withdrew"
        ELSE IF profile.available >= 8 /\ matches THEN "candidate"
        ELSE IF profile.available >= 4 \/ matches THEN "standby"
        ELSE "rejected"

Candidates(ms) == {i \in DOMAIN ms : ms[i].decision = "candidate"}

\* The documents of QUALIFIED partners that can issue them.  A partner has a
\* row for every time it was submitted.
SignedDocuments(ps) ==
    UNION {row.documents : row \in
        {x \in UNION {Range(ps[i]) : i \in DOMAIN ps} : x.status = "qualified" /\ x.issues}}

\* Members sign nothing: the application form leaves their document domains
\* empty, and the founder is seeded without any.
Missing(ms, ps) ==
    [capabilities |->
        {c.code : c \in {d \in Capabilities :
            Cardinality({i \in Candidates(ms) : skills_match_requirement(ms[i].skills, d)})
            + (IF skills_match_requirement(Founder, d) THEN 1 ELSE 0) < d.min}},
     documents |-> Documents \ SignedDocuments(ps)]

GateSatisfied(ms, ps) == Missing(ms, ps) = [capabilities |-> {}, documents |-> {}]

-----------------------------------------------------------------------------
(* Pre-engineering: milestones by hours elapsed since the gate.             *)

\* A plausible bug: Pre-engineering starts again with every window.
StartedAgain(run, h) == h

Started(run, h) == IF run.started = None THEN h ELSE run.started

Elapsed(run, h) == Max({h - Started(run, h), 0})

\* A plausible bug: One milestone is enough.
PreEngineeringAny(run, h) == \E m \in Milestones : Elapsed(run, h) >= m

PreEngineeringComplete(run, h) == \A m \in Milestones : Elapsed(run, h) >= m

Shortlisted(elapsed) ==
    {s \in Sites : /\ elapsed >= GridHours /\ s.grid \in {"conditional_pass", "needs_follow_up"}
                   /\ elapsed >= LegalHours /\ s.legal = "conditional_pass"}

Phase(gate, done) == IF ~gate THEN "preparation"
                     ELSE IF done THEN "pre_engineering_completed" ELSE "pre_engineering"

-----------------------------------------------------------------------------
(* One hour of a window.  s is the private state of the transaction: the    *)
(* run, its applications and turns, and the application whose form breaks.  *)

MemberApplication(spec) ==
    [apply |-> spec.apply, skills |-> [a \in DOMAIN spec.profile.skills |-> Clamp(spec.profile.skills[a])],
     decision |-> "registered", screenings |-> <<>>]

PartnerApplication(spec) ==
    [apply |-> spec.apply, documents |-> spec.profile.documents, issues |-> spec.profile.issues,
     status |-> "submitted", screenings |-> <<>>]

\* The applicants of hour h in the order they are submitted, up to the one
\* whose form fails.  An applicant who has applied before fails as well:
\* the account exists, so the application page shows no form.
Due(specs, h) == SetToSortSeq({s \in specs : s.apply = h}, LAMBDA a, b : a.index < b.index)

Fails(s, kind, spec, apps) ==
    \/ s.broken = <<kind, spec.index>>
    \/ kind = "member" /\ spec.index \in DOMAIN apps

Submitted(s, kind, due, apps) ==
    IF \E j \in DOMAIN due : Fails(s, kind, due[j], apps)
    THEN SubSeq(due, 1, Min({j \in DOMAIN due : Fails(s, kind, due[j], apps)}) - 1)
    ELSE due

SpecOf(specs, i) == CHOOSE s \in specs : s.index = i

Indices(due) == {due[j].index : j \in DOMAIN due}

WithMembers(ms, due) ==
    [i \in DOMAIN ms \cup Indices(due) |->
        IF i \in Indices(due) THEN MemberApplication(SpecOf(Range(due), i)) ELSE ms[i]]

WithPartners(ps, due) ==
    [i \in DOMAIN ps \cup Indices(due) |->
        (IF i \in DOMAIN ps THEN ps[i] ELSE <<>>)
        \o (IF i \in Indices(due) THEN <<PartnerApplication(SpecOf(Range(due), i))>> ELSE <<>>)]

Screened(specs, h) == {s.index : s \in {x \in specs : x.screen = h}}

screen_member_application(app, spec, h) ==
    [app EXCEPT !.decision = screening_decision(spec.profile, h),
                !.screenings = Append(@, h)]

screen_partner_application(rows, spec, h) ==
    [rows EXCEPT ![Len(rows)] =
        [@ EXCEPT !.status = spec.profile.review, !.screenings = Append(@, h)]]

\* A partner submitted in an earlier window is looked up by its reference,
\* which must name one row: with two the lookup raises and the transaction
\* is rolled back.
Ambiguous(s, ps, mine, h) ==
    \E i \in Screened(s.partnerSpecs, h) \ mine : i \notin DOMAIN ps \/ Len(ps[i]) # 1

FormFailure(s, h) ==
    [s EXCEPT !.stopped = TRUE,
              !.run.status = "failed", !.run.broken = TRUE, !.run.failure = TRUE,
              !.run.completedHours = h]

Hour(s, h) ==
    LET memberDue  == Due(s.memberSpecs, h)
        partnerDue == Due(s.partnerSpecs, h)
        memberIn   == Submitted(s, "member", memberDue, s.members)
        membersIn  == WithMembers(s.members, memberIn)
        partnerIn  == Submitted(s, "partner", partnerDue, s.partners)
        partnersIn == WithPartners(s.partners, partnerIn)
        mine       == s.mine \cup Indices(partnerIn)
        screenM    == Screened(s.memberSpecs, h)
        screenP    == Screened(s.partnerSpecs, h)
        screenedM  == [i \in DOMAIN membersIn |->
                        IF i \in screenM
                        THEN screen_member_application(membersIn[i], SpecOf(s.memberSpecs, i), h)
                        ELSE membersIn[i]]
        screenedP  == [i \in DOMAIN partnersIn |->
                        IF i \in screenP
                        THEN screen_partner_application(partnersIn[i], SpecOf(s.partnerSpecs, i), h)
                        ELSE partnersIn[i]]
        gate       == GateSatisfied(screenedM, screenedP)
    IN  IF s.stopped \/ s.crashed THEN s
        ELSE IF Len(memberIn) < Len(memberDue)
        THEN FormFailure([s EXCEPT !.members = membersIn], h)
        ELSE IF Len(partnerIn) < Len(partnerDue)
        THEN FormFailure([s EXCEPT !.members = membersIn, !.partners = partnersIn], h)
        ELSE IF Ambiguous(s, partnersIn, mine, h)
        THEN [s EXCEPT !.crashed = TRUE]
        ELSE [s EXCEPT !.members = screenedM, !.partners = screenedP, !.mine = mine,
                       !.turns = Append(@, h),
                       !.run.hour = h, !.run.gate = gate,
                       !.run.phase = Phase(gate, PreEngineeringComplete(s.run, h)),
                       !.run.started = IF gate THEN Started(s.run, h) ELSE @]

\* A plausible bug: A missed gate leaves no failure.
CloseWindowSilent(s, h) ==
    LET gate == GateSatisfied(s.members, s.partners)
        done == gate /\ PreEngineeringComplete(s.run, h)
    IN  IF s.stopped \/ s.crashed THEN s
        ELSE [s EXCEPT !.run.status = IF done THEN "completed" ELSE "running",
                       !.run.completedHours = h, !.run.gate = gate,
                       !.run.phase = Phase(gate, done),
                       !.run.started = IF gate THEN Started(s.run, h) ELSE @]

\* The end of the window: completion, or another window to come.
CloseWindow(s, h) ==
    LET gate == GateSatisfied(s.members, s.partners)
        done == gate /\ PreEngineeringComplete(s.run, h)
    IN  IF s.stopped \/ s.crashed THEN s
        ELSE [s EXCEPT !.run.status = IF done THEN "completed" ELSE "running",
                       !.run.completedHours = h, !.run.gate = gate,
                       !.run.failure = @ \/ ~gate,
                       !.run.phase = Phase(gate, done),
                       !.run.started = IF gate THEN Started(s.run, h) ELSE @]

\* A plausible bug: The window skips its first hour.
RunHoursLate(run, ms, ps, ts, hours, broken) ==
    LET end   == run.hour + 1 + hours
        state == [run |-> [run EXCEPT !.status = "running"],
                  members |-> ms, partners |-> ps, turns |-> ts,
                  memberSpecs |-> applicant_specs_for_hours(end),
                  partnerSpecs |-> partner_specs_for_hours(end),
                  mine |-> {}, broken |-> broken, stopped |-> FALSE, crashed |-> FALSE]
    IN  CloseWindow(FoldLeft(Hour, state, [i \in 1..(hours - 1) |-> run.hour + 1 + i]), end)

RunHours(run, ms, ps, ts, hours, broken) ==
    LET start == run.hour + 1
        end   == start + hours
        state == [run |-> [run EXCEPT !.status = "running"],
                  members |-> ms, partners |-> ps, turns |-> ts,
                  memberSpecs |-> applicant_specs_for_hours(end),
                  partnerSpecs |-> partner_specs_for_hours(end),
                  mine |-> {}, broken |-> broken, stopped |-> FALSE, crashed |-> FALSE]
    IN  CloseWindow(FoldLeft(Hour, state, [i \in 1..hours |-> start + i - 1]), end)

-----------------------------------------------------------------------------
(* The feedback of a missed gate.                                           *)

Codes == {c.code : c \in Capabilities} \cup Documents

\* What the node Z0 of a revision still has to require.
zero_start_requirement_coverage(rev) == Codes \ rev.requirements

\* A plausible bug: The draft is looked for among the applied change sets.
HasApplied(r) == \E c \in DOMAIN changeSets : changeSets[c].run = r /\ changeSets[c].status = "applied"

HasDraft(r) == \E c \in DOMAIN changeSets : changeSets[c].run = r /\ changeSets[c].status = "draft"

\* A plausible bug: A new gate node is proposed with its documents only.
FeedbackDocuments(r) ==
    LET rev == runs'[r].revision
    IN  [run |-> r, revision |-> rev, status |-> "draft", gate |-> ~revisions[rev].gate,
         requirements |-> IF revisions[rev].gate THEN zero_start_requirement_coverage(revisions[rev])
                          ELSE Documents]

create_zero_start_feedback(r) ==
    LET rev == runs'[r].revision
    IN  [run |-> r, revision |-> rev, status |-> "draft", gate |-> ~revisions[rev].gate,
         requirements |-> IF revisions[rev].gate THEN zero_start_requirement_coverage(revisions[rev])
                          ELSE Codes]

get_or_create_zero_start_feedback(r) ==
    IF HasDraft(r) \/ (revisions[runs'[r].revision].gate
                       /\ zero_start_requirement_coverage(revisions[runs'[r].revision]) = {})
    THEN changeSets
    ELSE Append(changeSets, create_zero_start_feedback(r))

-----------------------------------------------------------------------------
NewRun(rev) == [status |-> "running", revision |-> rev, hour |-> None, started |-> None,
                gate |-> FALSE, broken |-> FALSE, failure |-> FALSE, phase |-> "preparation", completedHours |-> 0]

\* An observation-window failure written before windows left runs running.
OldRun == [NewRun(1) EXCEPT !.status = "failed", !.failure = TRUE, !.hour = 0, !.completedHours = 1]

Init ==
    /\ revisions = <<[status |-> "published", gate |-> GateNode, requirements |-> {}]>>
    /\ \/ runs = <<>> /\ members = <<>> /\ partners = <<>> /\ turns = <<>>
       \/ runs = <<OldRun>> /\ members = << <<>> >> /\ partners = << <<>> >> /\ turns = << <<0>> >>
    /\ changeSets = <<>>
    /\ resolved = {}
    /\ request = [q \in Requests |-> Idle]

is_continuable_zero_start_observation_run(run) ==
    run.status = "failed" /\ ~run.gate /\ ~run.broken

Finished == {"failed", "completed", "aborted"}

unresolved_finished_runs ==
    {r \in DOMAIN runs : /\ runs[r].status \in Finished /\ r \notin resolved
                         /\ ~is_continuable_zero_start_observation_run(runs[r])}

\* The newest running run, whatever its disposition, else the newest
\* unresolved one that may continue, else none.
continuable_zero_start_run ==
    LET running == {r \in DOMAIN runs : runs[r].status = "running"}
        failed  == {r \in DOMAIN runs \ resolved : is_continuable_zero_start_observation_run(runs[r])}
    IN  IF running # {} THEN Max(running)
        ELSE IF failed # {} THEN Max(failed) ELSE None

Published == {v \in DOMAIN revisions : revisions[v].status = "published"}

\* seed_zero_start publishes the first revision again when none is.
Seeded == IF Published = {} THEN [revisions EXCEPT ![1].status = "published"] ELSE revisions

\* A request checks for unresolved runs, seeds the world and reads the
\* revision and the run it will continue.
BeginWindow(q, hours) ==
    /\ request[q] = Idle
    /\ unresolved_finished_runs = {}
    /\ revisions' = Seeded
    /\ LET r   == continuable_zero_start_run
           pub == {v \in DOMAIN revisions' : revisions'[v].status = "published"}
       IN  /\ r = None => Len(runs) < MaxRuns
           /\ request' = [request EXCEPT ![q] =
                [at |-> "read", run |-> r, hours |-> hours, revision |-> Max(pub),
                 copy |-> IF r = None THEN NewRun(Max(pub)) ELSE runs[r]]]
    /\ UNCHANGED <<runs, members, partners, turns, changeSets, resolved>>

\* Which form breaks in the hours start..end-1, if any does.
Breakages(start, end) ==
    {<<"none", 0>>} \cup
    (IF FormsMayFail
     THEN {<<"member", s.index>> : s \in {x \in applicant_specs_for_hours(end) : x.apply >= start}}
          \cup {<<"partner", s.index>> : s \in {x \in partner_specs_for_hours(end) : x.apply >= start}}
     ELSE {})

\* The window itself, one transaction on the copy of the run.
RunWindow(q) ==
    /\ request[q].at = "read"
    /\ request[q].copy.hour + request[q].hours < MaxHour
    /\ LET new == request[q].run = None
           r   == IF new THEN Len(runs) + 1 ELSE request[q].run
           start == request[q].copy.hour + 1
           Put(f, v) == IF new THEN Append(f, v) ELSE [f EXCEPT ![r] = v]
           Get(f) == IF new THEN <<>> ELSE f[r]
       IN  \E broken \in Breakages(start, start + request[q].hours) :
             LET s == RunHours(request[q].copy, Get(members), Get(partners), Get(turns),
                               request[q].hours, broken)
             IN  IF s.crashed
                 THEN UNCHANGED <<runs, members, partners, turns, changeSets>>
                 ELSE /\ runs' = Put(runs, s.run)
                      /\ members' = Put(members, s.members)
                      /\ partners' = Put(partners, s.partners)
                      /\ turns' = Put(turns, s.turns)
                      /\ changeSets' = IF s.stopped \/ s.run.gate THEN changeSets
                                       ELSE get_or_create_zero_start_feedback(r)
    /\ request' = [request EXCEPT ![q] = Idle]
    /\ UNCHANGED <<revisions, resolved>>

\* The lab aborts a run that is running or may continue.
AbortRun(r) ==
    /\ \/ runs[r].status = "running"
       \/ is_continuable_zero_start_observation_run(runs[r])
    /\ runs' = [runs EXCEPT ![r].status = "aborted"]
    /\ UNCHANGED <<members, partners, turns, revisions, changeSets, resolved, request>>

\* The lab archives or discards a finished run.
Dispose(r) ==
    /\ runs[r].status \in Finished
    /\ r \notin resolved
    /\ resolved' = resolved \cup {r}
    /\ UNCHANGED <<runs, members, partners, turns, revisions, changeSets, request>>

\* The lab applies a change set to a copy of its revision and publishes it.
ApplyChangeSet(c) ==
    /\ changeSets[c].status = "draft"
    /\ Len(revisions) < MaxRevisions
    /\ LET base == revisions[changeSets[c].revision]
           new  == [status |-> "published", gate |-> base.gate \/ changeSets[c].gate,
                    requirements |-> base.requirements \cup changeSets[c].requirements]
       IN  revisions' = Append([v \in DOMAIN revisions |-> [revisions[v] EXCEPT !.status =
                                    IF @ = "published" THEN "retired" ELSE @]], new)
    /\ changeSets' = [changeSets EXCEPT ![c].status = "applied"]
    /\ UNCHANGED <<runs, members, partners, turns, resolved, request>>

RejectChangeSet(c) ==
    /\ changeSets[c].status = "draft"
    /\ changeSets' = [changeSets EXCEPT ![c].status = "rejected"]
    /\ UNCHANGED <<runs, members, partners, turns, revisions, resolved, request>>

Next ==
    \/ \E q \in Requests : (\E h \in Windows : BeginWindow(q, h)) \/ RunWindow(q)
    \/ \E r \in DOMAIN runs : AbortRun(r) \/ Dispose(r)
    \/ \E c \in DOMAIN changeSets : ApplyChangeSet(c) \/ RejectChangeSet(c)

Spec == Init /\ [][Next]_vars

-----------------------------------------------------------------------------
Statuses == {"running", "failed", "completed", "aborted"}

\* The state keeps its types; a run's phase is one the observer pages know.
TypeOK ==
    /\ \A r \in DOMAIN runs :
         /\ runs[r].status \in Statuses
         /\ runs[r].revision \in DOMAIN revisions
         /\ runs[r].hour \in None..MaxHour /\ runs[r].started \in None..MaxHour
         /\ runs[r].phase \in {"preparation", "pre_engineering", "pre_engineering_completed"}
         /\ \A i \in DOMAIN members[r] :
              members[r][i].decision \in {"registered", "candidate", "standby", "rejected", "withdrew"}
    /\ \A c \in DOMAIN changeSets : changeSets[c].status \in {"draft", "applied", "rejected"}
    /\ resolved \subseteq DOMAIN runs
    /\ Cardinality(Published) = 1

\* However a run is cut into windows, an applicant whose screening is due has
\* applied at the hour of the plan and has been screened
\* (applicant_specs_for_hours is evaluated anew for every window).
NobodyForgotten ==
    \A r \in DOMAIN runs : \A s \in applicant_specs_for_hours(2 * MaxHour) :
        (s.screen <= runs[r].hour) =>
            /\ s.index \in DOMAIN members[r]
            /\ members[r][s.index].apply = s.apply
            /\ members[r][s.index].screenings # <<>>

\* An applicant screened in two windows gets the same decision both times.
DecisionsStand ==
    \A r \in DOMAIN members : \A i \in DOMAIN members[r] :
     members[r][i].decision # "registered" => members'[r][i].decision = members[r][i].decision

\* A completed run has candidates and the founder for every capability, a
\* qualified signer for every document, a site that passed both reviews, and
\* a turn for every hour since the gate opened.
CompletionEarned ==
    \A r \in DOMAIN runs : runs[r].status = "completed" =>
        /\ GateSatisfied(members[r], partners[r])
        /\ Shortlisted(runs[r].completedHours - runs[r].started) # {}
        /\ runs[r].started..(runs[r].completedHours - 1) \subseteq Range(turns[r])

\* A window leaves its run completed, with a failure on record, or in
\* pre-engineering with more to do (the check at the end of the command
\* run_zero_start_simulation).
WindowOutcome ==
    \A r \in DOMAIN runs :
        \/ runs[r].status \in {"completed", "aborted"}
        \/ runs[r].failure
        \/ runs[r].gate /\ runs[r].phase = "pre_engineering"

\* The feedback of one gate is drafted once: consecutive windows of a run
\* find the draft of the earlier ones.
OneDraft ==
    \A c, d \in DOMAIN changeSets :
        (c # d /\ changeSets[c].run = changeSets[d].run
         /\ changeSets[c].status = "draft") => changeSets[d].status # "draft"

\* What an applied change set leaves published needs no more feedback: a run
\* of a later revision finds the node Z0 with every requirement.
FeedbackSuffices ==
    \A v \in DOMAIN revisions : v > 1 =>
        revisions[v].gate /\ zero_start_requirement_coverage(revisions[v]) = {}

\* The hour the gate opens if everybody is screened at the planned hour.
PlannedGate ==
    LET specsM == applicant_specs_for_hours(2 * MaxHour)
        specsP == partner_specs_for_hours(2 * MaxHour)
        By(specs, h) == {sp \in specs : sp.screen <= h}
        ms(h) == [sp \in By(specsM, h) |->
                    screen_member_application(MemberApplication(sp), sp, sp.screen)]
        ps(h) == [sp \in By(specsP, h) |->
                    screen_partner_application(<<PartnerApplication(sp)>>, sp, sp.screen)]
    IN  Min({h \in {sp.screen : sp \in specsM \cup specsP} \cap (0..MaxHour) :
                GateSatisfied(ms(h), ps(h))})

\* A run that is still running has not come to the end of the last milestone after
\* the gate's hour.
RunningUntil(gateHour) ==
    \A r \in DOMAIN runs : runs[r].status = "running" =>
        runs[r].completedHours < gateHour + Max(Milestones)

\* Windows may open the gate earlier than planned, never later, and the first
\* window that ends after the last milestone completes the run.
GapsClose == RunningUntil(PlannedGate)

-----------------------------------------------------------------------------
(* What the repository says of itself and the code does not keep: the runs do *)
(* not check these, the README says how each fails.                           *)

\* Each virtual hour of a run has one turn.
OneTurnPerHour ==
    \A r \in DOMAIN turns : \A i, j \in DOMAIN turns[r] : turns[r][i] = turns[r][j] => i = j

\* A run that failed on a real form stays failed.
InteractionFailureTerminal ==
    [][\A r \in DOMAIN runs : runs[r].broken => runs'[r] = runs[r]]_vars

\* Consecutive observation windows do not propose what was proposed and
\* applied before.
NoFeedbackTwice ==
    \A c, d \in DOMAIN changeSets :
        (c # d /\ changeSets[c].run = changeSets[d].run /\ changeSets[c].status = "applied")
            => changeSets[c].requirements \cap changeSets[d].requirements = {}

=============================================================================

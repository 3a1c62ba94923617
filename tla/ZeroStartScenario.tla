------------------------- MODULE ZeroStartScenario -------------------------
(***************************************************************************)
(* The zero-start scenario as the repository ships it: the tables of       *)
(* zero_start_strategy.py and zero_start_pre_engineering.py and the        *)
(* founder of demo_seed/zero_start.py.  A skill has the lowest score of    *)
(* its applicant's skills where all are on the same side of the pass mark. *)
(* -1 stands for "never withdraws".                                        *)
(***************************************************************************)
EXTENDS Integers

Applicant(i, a, s, skills, av, w) ==
    [index |-> i, apply |-> a, screen |-> s,
     profile |-> [skills |-> skills, available |-> av, withdraw |-> w]]
Partner(i, a, s, review, issues, docs) ==
    [index |-> i, apply |-> a, screen |-> s,
     profile |-> [review |-> review, issues |-> issues, documents |-> docs]]
Scores(f, v) == [a \in f |-> v]

FounderSkills == Scores({"initiate", "communicate", "document", "organise"}, 70)

STARTUP_CAPABILITY_REQUIREMENTS ==
    {[code |-> "project_coordination", min |-> 1, aliases |-> {"initiate", "organise", "communicate"}],
     [code |-> "documentation_archive", min |-> 1, aliases |-> {"document", "tables", "filing"}],
     [code |-> "community_operations", min |-> 1, aliases |-> {"community", "communicate", "media"}],
     [code |-> "onsite_logistics", min |-> 2, aliases |-> {"carry", "onsite", "safety"}],
     [code |-> "procurement_records", min |-> 1, aliases |-> {"procure", "tables", "record"}],
     [code |-> "meal_support", min |-> 1, aliases |-> {"cook", "logistics", "meals"}]}

STARTUP_DOCUMENT_SIGNER_REQUIREMENTS == {"structural", "pv_design", "grid", "construction", "acceptance"}

MEMBER_APPLICANTS ==
    {Applicant(1, 7, 14, Scores({"document", "community"}, 66), 10, -1),
     Applicant(2, 18, 25, Scores({"carry", "onsite", "safety"}, 58), 30, -1),
     Applicant(3, 31, 40, [pv_hint |-> 61, electrics |-> 48], 6, -1),
     Applicant(4, 46, 58, Scores({"procure", "tables", "communicate"}, 62), 12, -1),
     Applicant(5, 68, 82, [structure_hint |-> 55, learning |-> 74], 8, 80),
     Applicant(6, 72, 90, [interest |-> 60], 2, -1)}

PARTNER_APPLICANTS == {Partner(1, 36, 52, "standby", FALSE, {}), Partner(2, 84, 110, "standby", FALSE, {})}

capability_profiles ==
    LET Q(skills, av) == [skills |-> skills, available |-> av, withdraw |-> -1]
    IN  <<Q(Scores({"cook", "logistics", "meals"}, 68), 18), Q(Scores({"onsite", "carry", "safety"}, 61), 24),
          Q(Scores({"document", "tables", "filing"}, 70), 10), Q(Scores({"community", "communicate", "media"}, 64), 12),
          Q(Scores({"procure", "record", "tables"}, 66), 8), Q([interest |-> 55], 2)>>

PARTNER_GROWTH_PROFILES ==
    LET Q(d) == [review |-> IF d = {} THEN "standby" ELSE "qualified", issues |-> d # {}, documents |-> d]
    IN  <<Q({}), Q({"structural"}), Q({"pv_design"}), Q({"grid"}), Q({"construction"}), Q({"acceptance"}), Q({})>>

MemberGrowth == [first |-> 96, every |-> 12, growth |-> 2, extra |-> 4,
                   spacing |-> 1, delay |-> 10, stagger |-> 1, drift |-> 0]

PartnerGrowth == [first |-> 132, every |-> 48, growth |-> 3, extra |-> 3,
                    spacing |-> 3, delay |-> 18, stagger |-> 4, drift |-> 5]

PRE_ENGINEERING_SITE_CANDIDATES ==
    {[code |-> "roof_a", grid |-> "conditional_pass", legal |-> "conditional_pass"],
     [code |-> "roof_b", grid |-> "needs_follow_up", legal |-> "blocked"],
     [code |-> "ground_c", grid |-> "rejected", legal |-> "blocked"]}

\* complete_after_hours of the eight milestones.
PRE_ENGINEERING_MILESTONES == {24 * d : d \in 0..7}
=============================================================================

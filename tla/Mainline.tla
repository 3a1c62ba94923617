----------------------------- MODULE Mainline -----------------------------
(***************************************************************************)
(* The mainline of the public dashboard (observer/mainline_context.py and  *)
(* the part of observer_context that feeds it): where the published plan   *)
(* stands, which work is under way, and every node of the plan grouped by  *)
(* stage.                                                                  *)
(*                                                                         *)
(* The plan is what administrators leave in it: the form of a node offers  *)
(* every node as its parent, so parents may form circles and may lie in    *)
(* another revision.  A page is computed from the state of one moment.     *)
(* The plan of a page is walked in two ways, along the parent objects for  *)
(* the current stage and through the listed nodes for the groups.          *)
(***************************************************************************)
EXTENDS Integers, Sequences, FiniteSets, FiniteSetsExt, SequencesExt

CONSTANTS
    Order,         \* the plan nodes of all revisions by sequence and id
    RevisionOf,    \* the revision of each node
    Types,         \* node types that are used
    Statuses,      \* node statuses that are used
    CurrentLimit,  \* nodes under way that observer_context reads (6)
    ShownLimit,    \* nodes under way that the page shows (4)
    WalkLimit,     \* steps of a walk up the parents (100)
    None

VARIABLES
    nodes,   \* PlanNode rows: type, status, parent
    active   \* the revision the page is about

vars == <<nodes, active>>

PlanNodes == Range(Order)
Revisions == {RevisionOf[n] : n \in PlanNodes}
Rows == [type : Types, status : Statuses, parent : PlanNodes \union {None}]

MainlineAssumption ==
    /\ IsInjective(Order)
    /\ PlanNodes \subseteq DOMAIN RevisionOf
    /\ None \notin PlanNodes
    /\ {"work_package"} \subseteq Types /\ {"planned"} \subseteq Statuses
    /\ CurrentLimit \in Nat /\ ShownLimit \in Nat \ {0}
    /\ WalkLimit \in Nat /\ WalkLimit >= Cardinality(PlanNodes)

Init ==
    /\ nodes = [n \in PlanNodes |->
                  [type |-> "work_package", status |-> "planned", parent |-> None]]
    /\ active \in Revisions

\* What the form of the Django admin writes: any parent is offered.
Saved(n, row) == row

SaveNode(n, row) ==
    /\ nodes' = [nodes EXCEPT ![n] = Saved(n, row)]
    /\ UNCHANGED active

\* Another revision becomes the latest published one, which the page is about.
Publish(r) ==
    /\ r # active
    /\ active' = r
    /\ UNCHANGED nodes

Next ==
    \/ \E n \in PlanNodes, row \in Rows : SaveNode(n, row)
    \/ \E r \in Revisions : Publish(r)

Spec == Init /\ [][Next]_vars

---------------------------------------------------------------------------
(* Walking up the parents *)

IsStageNode(n) == nodes[n].type \in {"stage", "milestone"}

OrElse(n, m) == IF n # None THEN n ELSE m
At(s, i) == IF i = 0 THEN None ELSE s[i]
First(s, P(_)) == At(s, SelectInSeq(s, P))
Take(s, k) == SubSeq(s, 1, Min({k, Len(s)}))

\* The parents of n, upwards: the walk ends at the top, outside the nodes
\* it knows, and when it meets a node again.
Ancestors(n, known) ==
    LET up[k \in 0..WalkLimit] ==
          IF k = 0 THEN <<>>
          ELSE LET below == up[k - 1]
                   parent == nodes[IF below = <<>> THEN n ELSE Last(below)].parent
               IN  IF \/ below # <<>> /\ Last(below) \notin known
                      \/ parent = None
                      \/ parent \in Range(below)
                   THEN below ELSE Append(below, parent)
    IN  up[WalkLimit]

\* A plausible bug: the outermost stage is taken.
NearestStageAncestorLast(n) == First(Reverse(Ancestors(n, PlanNodes)), IsStageNode)

\* The stage above n along the parent objects, whatever their revision.
NearestStageAncestorNode(n) == First(Ancestors(n, PlanNodes), IsStageNode)

NodeHasAncestor(n, m) == m \in Range(Ancestors(n, PlanNodes))

\* A plausible bug: the stages of all revisions are looked up.
FindNearestStageAnywhere(n, known) == NearestStageAncestorNode(n)

\* The stage above n within the nodes the page lists.
FindNearestStageAncestor(n, known) ==
    LET IsListedStage(m) == m \in known /\ IsStageNode(m)
    IN  First(Ancestors(n, known), IsListedStage)

\* A plausible bug: the first parent counts as no step.
AncestorDepthFromZero(n, known, h) == SelectInSeq(Ancestors(n, known), LAMBDA m : m = h) - 1

AncestorDepth(n, known, h) == SelectInSeq(Ancestors(n, known), LAMBDA m : m = h)

---------------------------------------------------------------------------
(* The page *)

PlanOf(r) == SelectSeq(Order, LAMBDA n : RevisionOf[n] = r)
UnderWay(n) == nodes[n].status \in {"in_progress", "blocked"}
CurrentPlanNodes(r) == Take(SelectSeq(PlanOf(r), UnderWay), CurrentLimit)
NextPlanNodes(r) ==
    Take(SelectSeq(PlanOf(r), LAMBDA n : nodes[n].status = "planned"), CurrentLimit)

FirstStageOrAncestor(s) ==
    OrElse(First(s, IsStageNode),
           First([i \in DOMAIN s |-> NearestStageAncestorNode(s[i])], LAMBDA n : n # None))

DetectStage(r) ==
    OrElse(FirstStageOrAncestor(CurrentPlanNodes(r)), FirstStageOrAncestor(NextPlanNodes(r)))

NodeBelongsToStage(n, stage) ==
    stage # None /\ (n = stage \/ NodeHasAncestor(n, stage))

\* A plausible bug: without work in the stage the page shows nothing.
CurrentNodesOfStage(r) ==
    Take(SelectSeq(CurrentPlanNodes(r),
                   LAMBDA n : ~IsStageNode(n) /\ NodeBelongsToStage(n, DetectStage(r))),
         ShownLimit)

\* Work in the current stage, or else work elsewhere, or else the stage itself.
Choice(inStage, work, itself) ==
    IF inStage # <<>> THEN Take(inStage, ShownLimit)
    ELSE IF work # <<>> THEN Take(work, ShownLimit) ELSE itself

Shown(read, stage) ==
    LET work == SelectSeq(read, LAMBDA n : ~IsStageNode(n))
    IN  Choice(SelectSeq(work, LAMBDA n : NodeBelongsToStage(n, stage)), work,
               SelectSeq(read, LAMBDA n : n = stage))

CurrentNodes(r) == Shown(CurrentPlanNodes(r), DetectStage(r))

\* The group of a stage, or the nodes without one (None).
Group(r, h) ==
    LET known == Range(PlanOf(r))
        children == SelectSeq(PlanOf(r), LAMBDA n :
                       ~IsStageNode(n) /\ FindNearestStageAncestor(n, known) = h)
    IN  [head |-> h,
         children |-> [i \in DOMAIN children |->
                         [node |-> children[i],
                          depth |-> IF h = None THEN 0
                                    ELSE AncestorDepth(children[i], known, h)]],
         is_current |-> h # None /\ h = DetectStage(r)]

BuildStages(r) ==
    LET stages == SelectSeq(PlanOf(r), IsStageNode)
        ungrouped == Group(r, None)
    IN  [i \in DOMAIN stages |-> Group(r, stages[i])]
        \o (IF ungrouped.children = <<>> THEN <<>> ELSE <<ungrouped>>)

---------------------------------------------------------------------------
(* What a reader of the page relies on *)

\* The types of the variables.
TypeOK == nodes \in [PlanNodes -> Rows] /\ active \in Revisions

\* Reference: what can be reached from n upwards without passing a stage, as
\* the least set of listed nodes that is closed under such steps.
Above(n) ==
    LET listed == Range(PlanOf(active))
        Closed(C) == \A m \in C \union {n} :
                        ~IsStageNode(m) /\ nodes[m].parent \in listed => nodes[m].parent \in C
    IN  {m \in listed : \A C \in SUBSET listed : Closed(C) => m \in C}

StageAbove(n) == {m \in Above(n) : IsStageNode(m)}

\* The groups of the detail page ("all plan nodes grouped by stage"): however
\* the parents are set, circles and other revisions included, every node is on
\* the page once, a stage as the head of a group, another node in the group of
\* the stage right above it or, without one, among the ungrouped.
GroupedByStage ==
    LET page == BuildStages(active)
        places == {<<i, j>> \in (DOMAIN page) \X (1..Len(Order)) : j \in DOMAIN page[i].children}
        NodeAt(p) == page[p[1]].children[p[2]].node
    IN  \A n \in Range(PlanOf(active)) :
          LET heads == {i \in DOMAIN page : page[i].head = n}
              at == {p \in places : NodeAt(p) = n}
          IN  IF IsStageNode(n) THEN Cardinality(heads) = 1 /\ at = {}
              ELSE /\ heads = {} /\ Cardinality(at) = 1
                   /\ \A p \in at :
                        IF StageAbove(n) = {} THEN page[p[1]].head = None
                        ELSE page[p[1]].head \in StageAbove(n)

\* The indentation of a node in its group ("direct child of stage returns 1,
\* grandchild returns 2") is the number of steps from it to the stage.
DepthIsDistance ==
    \A group \in Range(BuildStages(active)) : \A child \in Range(group.children) :
        child.depth = IF group.head = None THEN 0 ELSE Cardinality(Above(child.node))

\* The two walks agree.  In a plan whose parents lie in their own revision the
\* stage at the top of the page is a stage under way or planned, or else the
\* head of the group of such a node, and one group is marked.  Without a stage
\* no node under way or planned, as far as the page reads them, is in a group.
StageAgreesWithGroups ==
    LET stage == DetectStage(active)
        read == Range(CurrentPlanNodes(active)) \union Range(NextPlanNodes(active))
        marked == {group \in Range(BuildStages(active)) : group.is_current}
        OneRevision == \A n \in PlanNodes :
                          nodes[n].parent # None => RevisionOf[nodes[n].parent] = RevisionOf[n]
    IN  OneRevision =>
          IF stage = None THEN \A n \in read : ~IsStageNode(n) /\ StageAbove(n) = {}
          ELSE /\ \E n \in read : IF IsStageNode(n) THEN stage = n ELSE stage \in StageAbove(n)
               /\ {group.head : group \in marked} = {stage}

\* Work that is read is shown: while something is under way the page names
\* some of it, a stage only when nothing but stages is under way, and work of
\* another stage only when none of what was read belongs to the current one.
CurrentWorkShown ==
    LET read == Range(CurrentPlanNodes(active))
        shown == Range(CurrentNodes(active))
        stage == DetectStage(active)
        Below(n) == stage # None /\ NodeHasAncestor(n, stage)
    IN  /\ shown \subseteq read
        /\ read # {} => shown # {}
        /\ (\E n \in read : ~IsStageNode(n)) => \A n \in shown : ~IsStageNode(n)
        /\ (\E n \in read : ~IsStageNode(n) /\ Below(n)) => \A n \in shown : Below(n)

-----------------------------------------------------------------------------
(* What the repository says of itself and the code does not keep: the runs do *)
(* not check these, the README says how each fails.                           *)

\* What the test of the page says: nodes of another stage are not promoted
\* when the current stage has work of its own under way.
StageWorkFirst ==
    LET stage == DetectStage(active)
        work == {n \in Range(PlanOf(active)) : UnderWay(n) /\ ~IsStageNode(n)}
    IN  (\E n \in work : NodeBelongsToStage(n, stage)) =>
            \A n \in Range(CurrentNodes(active)) : NodeBelongsToStage(n, stage)

====

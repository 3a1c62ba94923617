---------------------------- MODULE MCWorkItems ----------------------------
(***************************************************************************)
(* Small instances of WorkItems for TLC: four governance members, one of   *)
(* them with finance duties too, and one more finance reviewer.  Two       *)
(* requests at a time can spend two governance approvals on one slot and   *)
(* the member with both duties can fill the finance slot, so a fourth one  *)
(* is needed.  focus says what a behaviour is about: one quote with all    *)
(* that can happen to it, or two quotes that compete for the one place of  *)
(* a list.                                                                 *)
(***************************************************************************)
EXTENDS WorkItems, TLC

CONSTANTS m1, m2, m3, m4, m5, s1, s2, q1, q2

VARIABLE focus

MCDeltas == {-1}

\* Members who submit, decide or are about to.
Actors ==
    {quotes[q].by : q \in Quotes} \cup {d.member : d \in decisions}
    \cup {sess[s].member : s \in Sessions}

\* The quotes that exist or are being submitted.
Used == {q \in Quotes : quotes[q].status # "absent"} \cup {sess[s].quote : s \in Sessions}

\* In a crowd there is one request at a time, nobody changes the stock by hand, and one
\* member with each set of duties does everything.
Bounded ==
    IF focus = "alone" THEN Cardinality(Used \ {NoQuote}) <= 1
    ELSE /\ \A q \in Quotes : quotes[q].tier # "major" /\ quotes[q].by \in {m2, NoMember}
         /\ Cardinality({s \in Sessions : sess[s] # Idle}) <= 1
         /\ \A s \in Sessions : sess[s].op # "edit"
         /\ Cardinality(Actors \cap (Governors \ Finance)) <= 1
         /\ \A t \in adjusted : t.quote # NoQuote
         /\ day = 0

MCInit == Init /\ focus \in {"alone", "crowd"}

MCNext == Next /\ UNCHANGED focus /\ Bounded'

MCSpec == MCInit /\ [][MCNext]_<<vars, focus>>

Symmetry == Permutations(Sessions) \cup Permutations(Quotes) \cup Permutations({m1, m4, m5})

=============================================================================

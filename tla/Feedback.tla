------------------------------ MODULE Feedback ------------------------------
(***************************************************************************)
(* Community feedback (core/feedback_services.py), the public Events that  *)
(* announce it, and the real-name feedback on such an Event                *)
(* (core/event_feedback_services.py) with the work list that sends members *)
(* to it (workspace/work_item_context.py).                                 *)
(*                                                                         *)
(* A request loads its object and checks the administrator role first;     *)
(* the service runs later.  Community services write the object that was   *)
(* loaded, event-feedback services re-read their row under a lock.  Each   *)
(* service is one transaction.                                             *)
(***************************************************************************)
EXTENDS Naturals, Sequences, SequencesExt, FiniteSets

CONSTANTS
  Members,     \* the members
  Posts,       \* community feedback entries that may be submitted
  Cases,       \* event-feedback entries that may be submitted
  NoOne,       \* the null member
  MaxEvents,   \* bound on the public Events written
  MaxStages    \* bound on the stages of a case when a response is asked for

FeedbackAssumption == NoOne \notin Members /\ MaxEvents \in Nat /\ MaxStages \in Nat

VARIABLES
  admins,      \* the members who administer now
  post,        \* [Posts -> community feedback]
  event,       \* the public Events, as a sequence of [post, public]
  case,        \* [Cases -> event feedback]
  ledger,      \* [Cases -> the stages its SystemEvents record]
  request      \* [Members -> the request in progress]

vars == <<admins, post, event, case, ledger, request>>

PostStatus == {"none", "open", "acknowledged", "answered", "closed", "hidden"}
CaseStatus == {"none", "submitted", "verifying", "awaiting_response",
               "concluded", "closed", "withdrawn"}

CommunityFeedback == [status : PostStatus, response : 0 .. MaxEvents]

EventFeedback ==
  [status : CaseStatus, event : 0 .. MaxEvents, submitted_by : Members \cup {NoOne},
   subject : Members \cup {NoOne}, handler : Members \cup {NoOne},
   responded_by : Members \cup {NoOne}, concluded_by : Members \cup {NoOne}]

NoCase == [status |-> "none", event |-> 0, submitted_by |-> NoOne, subject |-> NoOne,
           handler |-> NoOne, responded_by |-> NoOne, concluded_by |-> NoOne]

Idle == [op |-> "idle"]

HandlerOps == {"start", "request_response", "conclude", "close"}
PartyOps   == {"respond", "withdraw"}

Requests ==
  {Idle} \cup [op : {"reply", "hide"}, post : Posts, response : 0 .. MaxEvents]
         \cup [op : {"dispute"}, event : 1 .. MaxEvents]
         \cup [op : HandlerOps \cup PartyOps, case : Cases]

TypeOK ==
  /\ admins \subseteq Members
  /\ post \in [Posts -> CommunityFeedback]
  /\ event \in Seq([post : Posts, public : BOOLEAN]) /\ Len(event) <= MaxEvents
  /\ case \in [Cases -> EventFeedback]
  /\ ledger \in [Cases -> Seq(CaseStatus)]
  /\ request \in [Members -> Requests]

Init ==
  /\ admins \in SUBSET Members
  /\ post = [p \in Posts |-> [status |-> "none", response |-> 0]]
  /\ event = <<>>
  /\ case = [c \in Cases |-> NoCase]
  /\ ledger = [c \in Cases |-> <<>>]
  /\ request = [m \in Members |-> Idle]

Done(m) == request' = [request EXCEPT ![m] = Idle]

\* member_can_administer depends on role terms, which begin and end at any time.
AdminChanges(m) ==
  /\ admins' = IF m \in admins THEN admins \ {m} ELSE admins \cup {m}
  /\ UNCHANGED <<post, event, case, ledger, request>>

(***************************************************************************)
(* Community feedback.                                                     *)
(***************************************************************************)
WritePublicEvent(p) ==
  /\ Len(event) < MaxEvents
  /\ event' = Append(event, [post |-> p, public |-> TRUE])

SubmitFeedback(m, p) ==
  /\ request[m] = Idle /\ post[p].status = "none"
  /\ post' = [post EXCEPT ![p].status = "open"]
  /\ WritePublicEvent(p)
  /\ UNCHANGED <<admins, case, ledger, request>>

\* feedback_respond: load the entry, check the role, then call the service.
OpenPost(m, p, op) ==
  /\ request[m] = Idle /\ m \in admins /\ post[p].status # "none"
  /\ request' = [request EXCEPT ![m] = [op |-> op, post |-> p,
                                        response |-> post[p].response]]
  /\ UNCHANGED <<admins, post, event, case, ledger>>

\* The n-th Event carries the n-th response, so its number names the text.
RespondToFeedback(m, answer) ==
  /\ request[m].op = "reply" /\ m \in admins
  /\ LET p == request[m].post
     IN /\ post' = [post EXCEPT ![p] = [status |-> answer, response |-> Len(event) + 1]]
        /\ WritePublicEvent(p)
  /\ Done(m)
  /\ UNCHANGED <<admins, case, ledger>>

\* A plausible bug: hide_feedback retires only the Event of the submission.
HideFirstEvent(m) ==
  /\ request[m].op = "hide" /\ m \in admins
  /\ LET p == request[m].post
     IN /\ post' = [post EXCEPT ![p] = [status |-> "hidden",
                                        response |-> request[m].response]]
        /\ event' = [i \in DOMAIN event |->
                      [event[i] EXCEPT !.public =
                         @ /\ (event[i].post # p \/ \E j \in 1 .. i - 1 : event[j].post = p)]]
  /\ Done(m)
  /\ UNCHANGED <<admins, case, ledger>>

\* An entry hidden without a reason keeps the response the request had loaded.
HideFeedback(m) ==
  /\ request[m].op = "hide" /\ m \in admins
  /\ LET p == request[m].post
     IN /\ post' = [post EXCEPT ![p] = [status |-> "hidden",
                                        response |-> request[m].response]]
        /\ event' = [i \in DOMAIN event |->
                      [event[i] EXCEPT !.public = @ /\ event[i].post # p]]
  /\ Done(m)
  /\ UNCHANGED <<admins, case, ledger>>

(***************************************************************************)
(* Event feedback.                                                         *)
(***************************************************************************)
\* The event page is shown, and its form accepted, only for a public Event.
OpenEvent(m, i) ==
  /\ request[m] = Idle /\ event[i].public
  /\ request' = [request EXCEPT ![m] = [op |-> "dispute", event |-> i]]
  /\ UNCHANGED <<admins, post, event, case, ledger>>

\* The visibility test reads the Event object the request loaded.
SubmitEventFeedback(m, c, subject) ==
  /\ request[m].op = "dispute" /\ case[c].status = "none"
  /\ case' = [case EXCEPT ![c] = [NoCase EXCEPT !.status = "submitted",
                                    !.event = request[m].event,
                                    !.submitted_by = m, !.subject = subject]]
  /\ ledger' = [ledger EXCEPT ![c] = Append(@, "submitted")]
  /\ Done(m)
  /\ UNCHANGED <<admins, post, event>>

CasePageReachable(c) == case[c].status # "none" /\ event[case[c].event].public

OpenCase(m, c, op) ==
  /\ request[m] = Idle /\ CasePageReachable(c)
  /\ op \in HandlerOps => m \in admins
  /\ request' = [request EXCEPT ![m] = [op |-> op, case |-> c]]
  /\ UNCHANGED <<admins, post, event, case, ledger>>

\* A transition of the case m's request names: write the row, append the event.
Move(m, row) ==
  /\ case' = [case EXCEPT ![request[m].case] = row]
  /\ ledger' = [ledger EXCEPT ![request[m].case] = Append(@, row.status)]
  /\ Done(m)
  /\ UNCHANGED <<admins, post, event>>

\* A plausible bug: The status is not tested again under the lock.
StartUnchecked(m) ==
  /\ request[m].op = "start"
  /\ Move(m, [case[request[m].case] EXCEPT !.status = "verifying", !.handler = m])

StartVerification(m) ==
  /\ request[m].op = "start"
  /\ LET row == case[request[m].case]
     IN /\ row.status = "submitted"
        /\ Move(m, [row EXCEPT !.status = "verifying", !.handler = m])

RequestResponse(m) ==
  /\ request[m].op = "request_response"
  /\ LET row == case[request[m].case]
     IN /\ row.status = "verifying" /\ row.subject # NoOne
        /\ Len(ledger[request[m].case]) < MaxStages
        /\ Move(m, [row EXCEPT !.status = "awaiting_response", !.handler = m])

\* A plausible bug: The response is taken from any logged-in member.
RespondAnyone(m) ==
  /\ request[m].op = "respond"
  /\ LET row == case[request[m].case]
     IN /\ row.status = "awaiting_response"
        /\ Move(m, [row EXCEPT !.status = "verifying", !.responded_by = m])

Respond(m) ==
  /\ request[m].op = "respond"
  /\ LET row == case[request[m].case]
     IN /\ row.status = "awaiting_response" /\ row.subject = m
        /\ Move(m, [row EXCEPT !.status = "verifying", !.responded_by = m])

\* A plausible bug: A conclusion is accepted in every stage that has a handler.
ConcludeAgain(m) ==
  /\ request[m].op = "conclude"
  /\ LET row == case[request[m].case]
     IN /\ row.status \in {"verifying", "awaiting_response", "concluded"}
        /\ case' = [case EXCEPT ![request[m].case] =
                      [row EXCEPT !.status = "concluded", !.concluded_by = m]]
        /\ ledger' = IF row.status = "concluded" THEN ledger
                     ELSE [ledger EXCEPT ![request[m].case] = Append(@, "concluded")]
        /\ Done(m)
  /\ UNCHANGED <<admins, post, event>>

Conclude(m) ==
  /\ request[m].op = "conclude"
  /\ LET row == case[request[m].case]
     IN /\ row.status \in {"verifying", "awaiting_response"}
        /\ Move(m, [row EXCEPT !.status = "concluded", !.concluded_by = m])

Close(m) ==
  /\ request[m].op = "close"
  /\ LET row == case[request[m].case]
     IN /\ row.status = "concluded"
        /\ Move(m, [row EXCEPT !.status = "closed"])

Withdraw(m) ==
  /\ request[m].op = "withdraw"
  /\ LET row == case[request[m].case]
     IN /\ row.status = "submitted" /\ row.submitted_by = m
        /\ Move(m, [row EXCEPT !.status = "withdrawn"])

\* A service raised DomainError, or the request was lost before it ran.
Abandon(m) ==
  /\ request[m] # Idle
  /\ Done(m)
  /\ UNCHANGED <<admins, post, event, case, ledger>>

Next ==
  \E m \in Members :
    \/ AdminChanges(m)
    \/ \E p \in Posts : SubmitFeedback(m, p)
    \/ \E p \in Posts, op \in {"reply", "hide"} : OpenPost(m, p, op)
    \/ \E answer \in {"acknowledged", "answered", "closed"} : RespondToFeedback(m, answer)
    \/ HideFeedback(m)
    \/ \E i \in DOMAIN event : OpenEvent(m, i)
    \/ \E c \in Cases, s \in Members \cup {NoOne} : SubmitEventFeedback(m, c, s)
    \/ \E c \in Cases, op \in HandlerOps \cup PartyOps : OpenCase(m, c, op)
    \/ StartVerification(m) \/ RequestResponse(m) \/ Respond(m)
    \/ Conclude(m) \/ Close(m) \/ Withdraw(m)
    \/ Abandon(m)

Spec == Init /\ [][Next]_vars

(***************************************************************************)
(* What the work list and the pages show.                                  *)
(***************************************************************************)
SubjectMustRespond(m, c) == case[c].status = "awaiting_response" /\ case[c].subject = m

HandlerMustAct(m, c) ==
  case[c].handler = m /\ case[c].status \in {"verifying", "concluded"}

\* A member to whom build_member_matters shows the case under "needs me".
NeedsMember(m, c) == SubjectMustRespond(m, c) \/ HandlerMustAct(m, c)

Lifecycle ==
  [submitted         |-> {"verifying", "withdrawn"},
   verifying         |-> {"awaiting_response", "concluded"},
   awaiting_response |-> {"verifying", "concluded"},
   concluded         |-> {"closed"},
   closed            |-> {},
   withdrawn         |-> {}]

(***************************************************************************)
(* Properties.                                                             *)
(***************************************************************************)
\* The SystemEvents of a case tell its whole life: they follow the lifecycle of
\* event_feedback_services from submission on, each legal step once, and the row
\* is where the last one left it, whichever requests raced for the row.
LedgerTellsLifecycle ==
  \A c \in Cases :
    LET log == ledger[c]
    IN /\ case[c].status = IF log = <<>> THEN "none" ELSE Last(log)
       /\ log # <<>> => Head(log) = "submitted"
       /\ \A i \in 1 .. Len(log) - 1 : log[i + 1] \in Lifecycle[log[i]]

\* Who is answerable for a case is on its row whenever the stage needs it: a handler
\* from verification on, a concluding member from the conclusion on and not before,
\* and a response only from the member the case is about.
ResponsibleRecorded ==
  \A c \in Cases :
    LET row == case[c]
    IN /\ (row.handler # NoOne) <=> (row.status \in {"verifying", "awaiting_response", "concluded", "closed"})
       /\ (row.concluded_by # NoOne) <=> (row.status \in {"concluded", "closed"})
       /\ row.responded_by \in {NoOne, row.subject}

\* A conclusion is published once: after it nothing the case says about its handler,
\* its response or its conclusion changes any more.
ConclusionFinal ==
  \A c \in Cases : case[c].concluded_by # NoOne =>
    [case'[c] EXCEPT !.status = case[c].status] = case[c]

\* While an entry is hidden no public Event speaks of it, whatever replies were
\* written before or at the same time (hide_feedback "avoids amplifying hidden content").
HiddenIsSilent ==
  \A i \in DOMAIN event : post[event[i].post].status = "hidden" => ~event[i].public

\* What the public is told: the events of a case tell its whole life and who answers for
\* it, and no public Event speaks of a hidden entry.
RecordTold == TypeOK /\ LedgerTellsLifecycle /\ ResponsibleRecorded /\ HiddenIsSilent

-----------------------------------------------------------------------------
(* What the repository says of itself and the code does not keep: the runs do *)
(* not check these, the README says how each fails.                           *)

\* A case the work list shows under "needs me" can be acted on: its page opens.
NeededCaseOpens ==
  \A m \in Members, c \in Cases : NeedsMember(m, c) => CasePageReachable(c)

\* A case is filed only on an Event that is visible at that moment.
FiledOnVisibleEvent ==
  [][\A c \in Cases : case[c].status = "none" /\ case'[c].status # "none"
       => event[case'[c].event].public]_vars

=============================================================================

------------------------------ MODULE EventLog ------------------------------
(***************************************************************************)
(* What the system event ledger promises its readers: a log that only ever *)
(* grows at its end.  SystemEvent.save refuses everything but the insert   *)
(* that append_event makes (core/models/events.py).                        *)
(***************************************************************************)
EXTENDS Naturals, Sequences

CONSTANT Bodies    \* what an event says: type, subject and payload

VARIABLE log

Init == log = <<>>

\* A transaction adds all of its events, or none.
Append_events ==
    /\ log' \in Seq(Bodies)
    /\ Len(log') > Len(log)
    /\ \A i \in DOMAIN log : log'[i] = log[i]

Spec == Init /\ [][Append_events]_log

=============================================================================

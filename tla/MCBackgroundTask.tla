-------------------------- MODULE MCBackgroundTask --------------------------
(* BackgroundTask, on two tasks of one participant. *)
EXTENDS BackgroundTask, TLC

CONSTANTS t1, t2, a1

SameOwner == [t \in Tasks |-> a1]

\* One task with three of its faults and stops, or two without.
Within ==
  \/ launch[t2] = "no" /\ faults + stopsAsked <= 3
  \/ faults = 0 /\ stopsAsked = 0 /\ ~gone /\ \A t \in Tasks : accepted[t] = 0
=============================================================================

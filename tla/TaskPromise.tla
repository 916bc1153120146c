---------------------------- MODULE TaskPromise ----------------------------
(***************************************************************************)
(* What a background task promises its session, whoever carries it out (its *)
(* workflow, a member's stop, the server's sweep): a task recorded ends     *)
(* once, and its participant hears of it only once it has ended by itself.  *)
(***************************************************************************)
CONSTANT Tasks

VARIABLES
  status,   \* status[t]: "none" (not recorded, or dropped), "running", or its end
  told,     \* the tasks whose participant was sent their message
  deleted   \* the session is deleted

Ending == {"done", "failed", "cancelled"}

Init ==
  /\ status = [t \in Tasks |-> "none"]
  /\ told = {}
  /\ deleted = FALSE

\* A task is recorded before its workflow starts; one that never starts is
\* dropped.
Record(t) ==
  /\ status[t] = "none" /\ ~deleted
  /\ status' = [status EXCEPT ![t] = "running"]
  /\ UNCHANGED <<told, deleted>>

Drop(t) ==
  /\ status[t] = "running"
  /\ status' = [status EXCEPT ![t] = "none"]
  /\ UNCHANGED <<told, deleted>>

\* It ends, once.
End(t) ==
  /\ status[t] = "running"
  /\ \E e \in Ending : status' = [status EXCEPT ![t] = e]
  /\ UNCHANGED <<told, deleted>>

\* Its participant is sent its message; one on its way when the session is
\* deleted may still arrive.
Tell(t) ==
  /\ status[t] \in {"done", "failed"} \/ deleted
  /\ told' = told \cup {t}
  /\ UNCHANGED <<status, deleted>>

\* The session goes, and its tasks with it.
Delete ==
  /\ ~deleted
  /\ deleted' = TRUE
  /\ status' = [t \in Tasks |-> "none"]
  /\ UNCHANGED told

Next == Delete \/ \E t \in Tasks : Record(t) \/ Drop(t) \/ End(t) \/ Tell(t)

Spec == Init /\ [][Next]_<<status, told, deleted>>
=============================================================================

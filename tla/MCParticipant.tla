--------------------------- MODULE MCParticipant ---------------------------
(* Participant, on two agents and two messages. *)
EXTENDS Participant, TLC

CONSTANTS alice, bob, a1, a2, m1, m2

TwoAuthors == (m1 :> alice) @@ (m2 :> bob)

\* m1 addresses both agents, m2 the second alone: a relay meets a queue.
RelayMeetsQueue == (m1 :> <<a1, a2>>) @@ (m2 :> <<a2>>)

\* A clear, or two of a fault, a stop, an agent deleted, the session deleted.
TwoOfThem ==
  faults + stopsAsked + 2 * clearsAsked + Cardinality(agentsGone)
    + (IF sessionGone THEN 1 ELSE 0) <= 2
=============================================================================

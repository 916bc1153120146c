---------------------------- MODULE MCAgentTurn ----------------------------
(* AgentTurn, with two machines. *)
EXTENDS AgentTurn

CONSTANTS m1, m2

\* A machine in trouble at a time; a key refused is the run's only fault, or
\* ends it.
OneTrouble ==
    /\ Cardinality({m \in Machines : mach[m] # [linked |-> TRUE, seen |-> TRUE, offered |-> TRUE,
                                                key |-> TRUE, aside |-> FALSE]}) <= 1
    /\ (\E m \in Machines : ~mach[m].key) => faults <= 1 \/ out # "none"
=============================================================================

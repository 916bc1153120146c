---------------------------- MODULE MCDirective ----------------------------
(* Directive, on one machine. *)
EXTENDS Directive

CONSTANTS d1, d2, c1, c2, c3

\* Nothing tells two connections apart.
ConnSymmetry == Permutations(Conns)

\* Nor two directives.
Symmetry == ConnSymmetry \cup Permutations(Directives)

\* One directive through a reconnection, a fault and a crash, or two of them
\* on one connection and in time, for the cap.
OneOrTwo ==
  \/ Cardinality({d \in Directives : row[d] # Absent \/ worker[d] # "no"}) <= 1
  \/ /\ faults = 0 /\ crashes = 0 /\ Cardinality(used) <= 1
     /\ \A d \in Directives : ~due[d]

\* A cancel through a reconnection, in time, or a fault or a revocation on one
\* connection.
CancelOrRevoke ==
  \/ faults = 0 /\ ~revoked /\ \A d \in Directives : ~due[d]
  \/ cancels = 0 /\ Cardinality(used) <= 1 /\ (faults = 0 \/ ~revoked)
=============================================================================

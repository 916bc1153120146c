------------------------------ MODULE MCServer ------------------------------
(***************************************************************************)
(* The parts of the server, each on a small instance: MachineToken on a    *)
(* machine's directory and a copy of it.                                   *)
(***************************************************************************)
EXTENDS Server

CONSTANTS c1, c2, c3, home, copy

\* The bounds of the parts that have one of their own; the connections, which
\* nothing tells apart, are made in their order.
Small ==
    /\ part = "tokens" => /\ conn[c2].stage # "unused" => conn[c1].stage # "unused"
                          /\ conn[c3].stage # "unused" => conn[c2].stage # "unused"
    /\ part = "turns" => Turns!Small
    /\ part = "catalog" => Catalog!Small
    /\ part = "forks" => Forks!Small
=============================================================================

--------------------------- MODULE MCMachineToken ---------------------------
(* MachineToken, on a machine's directory and a copy of it. *)
EXTENDS MachineToken, TLC

CONSTANTS c1, c2, c3, home, copy
=============================================================================

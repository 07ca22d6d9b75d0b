---------------------------- MODULE MCConvIndex ----------------------------
(* An instance of ConvIndex for TLC.                                         *)
EXTENDS ConvIndex

CONSTANTS h1, t1

\* A message of three batches, one of one, one that is too short.
Sizes == [m \in Messages |-> CASE m = 1 -> 3 [] m = 2 -> 1 [] OTHER -> 0]
=============================================================================

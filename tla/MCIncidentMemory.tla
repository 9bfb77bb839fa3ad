--------------------------- MODULE MCIncidentMemory ---------------------------
(***************************************************************************)
(* Three calls of write_incident on two incidents; calls are               *)
(* interchangeable.                                                        *)
(***************************************************************************)
EXTENDS IncidentMemory, TLC

CONSTANTS inc1, inc2, w1, w2, w3

Symmetry == Permutations({w1, w2, w3}) \cup Permutations({inc1, inc2})
=============================================================================

---------------------------- MODULE MCConnectors ----------------------------
(* The charge point and one connector, two callers and two workers.        *)
EXTENDS Connectors, TLC

CONSTANTS p, q, v, w, tx, rs

MCCallers == {p, q}
MCWorkers == {v, w}
MCSymmetry == Permutations(MCCallers) \cup Permutations(MCWorkers)
=============================================================================

---------------------------- MODULE MCJobStream ----------------------------
(* Small instances of JobStream for TLC.                                   *)
EXTENDS JobStream, TLC

CONSTANTS j1, j2, w1, w2, p1, p2

WorkerSymmetry == Permutations(Workers) \cup Permutations(Pumps)
=============================================================================

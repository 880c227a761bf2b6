---------------------------- MODULE MCVerifierCache ----------------------------
(* Small instances of VerifierCache for TLC. *)
EXTENDS VerifierCache, TLC

CONSTANTS p1, p2, k1, k2

Symmetry == Permutations(Request)
=============================================================================

-------------------------- MODULE MCJsonlSessionStore --------------------------
(* Small instances of JsonlSessionStore for TLC. *)
EXTENDS JsonlReplay, JsonlRegistry, TLC

CONSTANTS p1, p2, f1, f2, d1, b1, b2

\* One channel of a reviewed profile: its evidence may change between rounds.
ReviewedDocOf == f1 :> d1
ReviewedEvidence == f1 :> {b1, b2}
ReviewedNotAfter == f1 :> 9

\* Two fingerprints over one document, as two verification rounds over the
\* same evidence give; the first's evidence may change between rounds.
SharedDocOf == f1 :> d1 @@ f2 :> d1
SharedEvidence == f1 :> {b1, b2} @@ f2 :> {b1}
SharedNotAfter == f1 :> 9 @@ f2 :> 1

Symmetry == Permutations({p1, p2})
=============================================================================

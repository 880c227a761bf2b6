--------------------------- MODULE MCAttestedReceipts ---------------------------
(* Small instances of AttestedReceipts for TLC. *)
EXTENDS AttestedReceipts, TLC

CONSTANTS p1, p2, f1, f2, d1, d2, b1, b2, r1, r2, c1, c2

OneDocOf == f1 :> d1
OneEvidence == f1 :> {b1}
OneNotAfter == f1 :> 9
OneEvent == {[channels |-> {f1}, multi |-> FALSE]}

\* Unverified upstreams only: receipts that cite nothing.
NoneEvent == {[channels |-> {}, multi |-> FALSE]}

\* Two instances behind one upstream, verified together, the second's keyset
\* about to expire.
TwoDocOf == f1 :> d1 @@ f2 :> d2
TwoEvidence == f1 :> {b1} @@ f2 :> {b1}
TwoNotAfter == f1 :> 9 @@ f2 :> 2
TwoEvent == {[channels |-> {f1, f2}, multi |-> TRUE]}

\* Either kind of upstream.
AnyEvent == OneEvent \cup TwoEvent

Symmetry == Permutations(Holder) \cup Permutations(Receipt)
=============================================================================

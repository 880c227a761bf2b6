--------------------------------- MODULE Maps ---------------------------------
(* The Rust maps of the stores, as functions on finite domains. *)
EXTENDS Naturals

EmptyMap == [x \in {} |-> {}]

\* HashMap::insert, and HashMap::remove of a set of keys.
Put(f, k, v) == [x \in DOMAIN f \cup {k} |-> IF x = k THEN v ELSE f[x]]
Without(f, S) == [x \in DOMAIN f \ S |-> f[x]]

Later(a, b) == IF a >= b THEN a ELSE b

=============================================================================

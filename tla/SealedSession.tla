----------------------------- MODULE SealedSession -----------------------------
(***************************************************************************)
(* What seal_attested_session of src/aggregator/service/forward.rs asks    *)
(* the session store for: the document it would seal for a channel, and    *)
(* the retention it wants.                                                 *)
(***************************************************************************)
EXTENDS SessionIndex

CONSTANTS
    EvidenceOf,    \* the bundles a verification for a fingerprint may carry:
                   \* one, or several for a reviewed profile
    NotAfter,      \* expiry of the upstream keyset sealed into a channel
    SessionTtl,    \* attested_session_ttl_seconds
    ReceiptTtl     \* receipt_ttl_seconds

ASSUME SealConstants ==
    /\ Fingerprint # {} /\ Bundle # {}
    /\ EvidenceOf \in [Fingerprint -> SUBSET Bundle]
    /\ NotAfter \in [Fingerprint -> Nat]
    /\ SessionTtl \in Nat
    /\ ReceiptTtl \in Nat

\* The validity a document sealed for fp at `now` gets.
ExpiresAt(fp, now) ==
    IF now + SessionTtl <= NotAfter[fp] THEN now + SessionTtl ELSE NotAfter[fp]

\* "attested keyset expired before admission" otherwise.
Sealable(fp, now) == ExpiresAt(fp, now) > now

\* The document sealed for fp at `now` with evidence b, which is its id.
Sealed(fp, b, now) ==
    [ doc |-> DocOf[fp], bundle |-> b,
      established_at |-> now, expires_at |-> ExpiresAt(fp, now) ]

\* Initial retention covers at least one receipt.
AskedRetention(now) == now + ReceiptTtl

=============================================================================

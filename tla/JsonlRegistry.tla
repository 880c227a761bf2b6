----------------------------- MODULE JsonlRegistry -----------------------------
(***************************************************************************)
(* JsonlSessionStore implements SessionRegistry.  A session is stored while*)
(* the index has it or, with the process down, while replaying the log     *)
(* would; what a restart is bound to bring back is what the last fsync     *)
(* covers.                                                                 *)
(***************************************************************************)
EXTENDS JsonlSessionStore

Deadlines(ix) == [id \in DOMAIN ix.by_id |-> ix.by_id[id].retention_until]

Stored == IF phase = "down" THEN ReplayedUntil(log, clock) ELSE Deadlines(index)
Durable == ReplayedUntil(SubSeq(log, 1, synced), 0)
Leases ==
    [p \in {q \in Holder : pc[q] = "leased"} |->
        [channel |-> req[p].fingerprint, session |-> req[p].id]]

Registry == INSTANCE SessionRegistry
    WITH Channel <- Fingerprint, now <- clock, until <- Stored, saved <- Durable,
         leases <- Leases

\* Every step of the store, with its two locks, partial writes, compaction and
\* replay, is a step of the registry or none: acquiring a session is atomic to
\* its callers, and a crash loses leases but nothing a compaction had written.
ImplementsRegistry == Registry!Spec

=============================================================================

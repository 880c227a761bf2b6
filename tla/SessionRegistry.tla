---------------------------- MODULE SessionRegistry ----------------------------
(***************************************************************************)
(* What the trait SessionStore promises its callers, without log, index or *)
(* locks: sessions with a deadline, leases on them, and a set of sessions  *)
(* that a restart is bound to bring back.  Acquiring a lease is one step.  *)
(***************************************************************************)
EXTENDS Maps

CONSTANTS
    Channel,   \* fingerprints
    Holder     \* owners of a lease

VARIABLES
    now,      \* the clock
    until,    \* stored session (with its expires_at) -> the deadline it is served to
    saved,    \* session -> the deadline a restart is bound to bring back
    leases    \* holder -> the channel it asked for and the session it got

vars == <<now, until, saved, leases>>

Leased == {leases[h].session : h \in DOMAIN leases}
Valid(s) == now < s.expires_at

\* The clock and all deadlines are seconds.
Seconds ==
    /\ now \in Nat
    /\ \A s \in DOMAIN until : until[s] \in Nat
    /\ \A s \in DOMAIN saved : saved[s] \in Nat

\* Sessions other than S keep their deadline, or go: past it, and not leased.
Undisturbed(S) ==
    \A s \in DOMAIN until \ S :
        IF s \in DOMAIN until' THEN until'[s] = until[s]
        ELSE until[s] <= now' /\ s \notin Leased

\* What a restart brings back is stored now, to a deadline no earlier.
Covered ==
    \A s \in DOMAIN saved : saved[s] > now => s \in DOMAIN until /\ until[s] >= saved[s]

Init ==
    /\ now = 0
    /\ until = EmptyMap
    /\ saved = EmptyMap
    /\ leases = EmptyMap

\* current_or_seal: the channel's session, found or sealed. Callers that hold
\* valid sessions of one channel hold the same one.
Acquire(h, c, s) ==
    /\ h \notin DOMAIN leases
    /\ \A g \in DOMAIN leases :
          leases[g].channel = c /\ Valid(leases[g].session) /\ Valid(s) => leases[g].session = s
    /\ leases' = Put(leases, h, [channel |-> c, session |-> s])
    /\ DOMAIN until' \subseteq DOMAIN until \cup {s}
    /\ until'[s] >= s.expires_at
    /\ s \in DOMAIN until => until'[s] >= until[s]
    /\ UNCHANGED <<now, saved>>
    /\ Undisturbed({s})

\* extend_retention: never refused to a holder, never shortens.
Extend(h) ==
    /\ h \in DOMAIN leases
    /\ LET s == leases[h].session IN
       /\ DOMAIN until' = DOMAIN until
       /\ s \in DOMAIN until => until'[s] >= until[s]
       /\ UNCHANGED <<now, saved, leases>>
       /\ Undisturbed({s})

\* The lease is dropped.
Release(h) ==
    /\ h \in DOMAIN leases
    /\ leases' = Without(leases, {h})
    /\ UNCHANGED <<now, until, saved>>

\* Lapsed sessions go, in a pass of their own or as time passes.
Collect ==
    /\ now' >= now
    /\ DOMAIN until' \subseteq DOMAIN until
    /\ UNCHANGED <<saved, leases>>
    /\ Undisturbed({})

\* compact: every stored session will survive, none with less than before.
Checkpoint ==
    /\ DOMAIN until' \subseteq DOMAIN until
    /\ DOMAIN until' \subseteq DOMAIN saved'
    /\ \A s \in DOMAIN until' \cap DOMAIN saved : saved'[s] >= saved[s]
    /\ UNCHANGED <<now, leases>>
    /\ Undisturbed({})
    /\ Covered'

\* A crash: leases end, and at least what was saved comes back. A retention
\* extended since then may be shorter again, never longer.
Crash ==
    /\ leases' = EmptyMap
    /\ \A s \in DOMAIN until \cap DOMAIN until' : until'[s] <= until[s]
    /\ UNCHANGED <<now, saved>>
    /\ Covered'

Next ==
    /\ Seconds'
    /\ \/ \E h \in Holder, c \in Channel, s \in DOMAIN until' : Acquire(h, c, s)
       \/ \E h \in Holder : Extend(h) \/ Release(h)
       \/ Collect \/ Checkpoint \/ Crash

Spec == Init /\ [][Next]_vars

-----------------------------------------------------------------------------

\* Whoever holds a lease can fetch its session, however old it is.
LeasedStored == Leased \subseteq DOMAIN until

=============================================================================

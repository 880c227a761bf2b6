-------------------------- MODULE SessionRegistryProofs --------------------------
(***************************************************************************)
(* What every implementation of SessionRegistry gives its callers, for any *)
(* holders and channels.                                                   *)
(***************************************************************************)
EXTENDS SessionRegistry, TLAPS

\* Whoever holds a lease from current_or_seal can fetch its session, whatever
\* was collected, extended, checkpointed or lost in a crash since.
THEOREM LeasesHold == Spec => []LeasedStored
<1>1. Init => LeasedStored
  BY DEF Init, LeasedStored, Leased, EmptyMap
<1>2. LeasedStored /\ [Next]_vars => LeasedStored'
  <2> SUFFICES ASSUME LeasedStored, [Next]_vars PROVE LeasedStored'
    OBVIOUS
  <2>1. CASE \E h \in Holder, c \in Channel, s \in DOMAIN until' : Acquire(h, c, s)
    <3>1. PICK h \in Holder, c \in Channel, s \in DOMAIN until' : Acquire(h, c, s)
      BY <2>1
    <3>2. Leased' \subseteq Leased \cup {s}
      BY <3>1 DEF Acquire, Leased, Put
    <3>3. Leased \subseteq DOMAIN until'
      BY <3>1 DEF Acquire, LeasedStored, Undisturbed
    <3> QED
      BY <3>2, <3>3 DEF LeasedStored
  <2>2. CASE \E h \in Holder : Extend(h)
    BY <2>2 DEF Extend, LeasedStored, Leased
  <2>3. CASE \E h \in Holder : Release(h)
    BY <2>3 DEF Release, LeasedStored, Leased, Without
  <2>4. CASE Collect
    BY <2>4 DEF Collect, LeasedStored, Leased, Undisturbed
  <2>5. CASE Checkpoint
    BY <2>5 DEF Checkpoint, LeasedStored, Leased, Undisturbed
  <2>6. CASE Crash
    BY <2>6 DEF Crash, LeasedStored, Leased, EmptyMap
  <2>7. CASE UNCHANGED vars
    BY <2>7 DEF vars, LeasedStored, Leased
  <2> QED
    BY <2>1, <2>2, <2>3, <2>4, <2>5, <2>6, <2>7 DEF Next
<1> QED
  BY <1>1, <1>2, PTL DEF Spec

=============================================================================

---------------------------- MODULE MCRequestOutcome ----------------------------
(* Small instances of RequestOutcome: a chain that names one route twice. *)
EXTENDS RequestOutcome

CONSTANTS r1, r2

TwinChain == <<r1, r2, r1>>
PlainChain == <<r1, r2>>
===============================================================================

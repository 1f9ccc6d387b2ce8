---------------------------- MODULE MCVerifierRelay ----------------------------
(* The relay worker on a small instance for TLC. *)
EXTENDS VerifierRelayWorker

\* Every envelope has an Action ID of its own.
MCIdOf == [e \in Envelopes |-> e]
==============================================================================

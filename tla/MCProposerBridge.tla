--------------------------- MODULE MCProposerBridge ---------------------------
(* The proposer bridge on a small instance for TLC: two processes with equal  *)
(* rights, and no symmetry set, because the runs check liveness.             *)
EXTENDS ProposerBridge
==============================================================================

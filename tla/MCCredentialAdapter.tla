------------------------- MODULE MCCredentialAdapter -------------------------
(***************************************************************************)
(* Instances of the Credential Adapter for TLC: one envelope in two        *)
(* different requests, and one Action ID carried by two envelopes; an      *)
(* older release may have spent the Action ID in its flattened form.       *)
(***************************************************************************)
EXTENDS CredentialAdapter, TLC

CONSTANTS a1, l1, e1, e2, r1, r2, r3

MCLegacy == a1 :> l1

RaceIdOf == e1 :> a1
RaceEnvOf == r1 :> e1 @@ r2 :> e1

FaultsIdOf == e1 :> a1 @@ e2 :> a1
FaultsEnvOf == r1 :> e1 @@ r3 :> e2
=============================================================================

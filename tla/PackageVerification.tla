------------------------- MODULE PackageVerification -------------------------
(***************************************************************************)
(* The stateless verification of an Action Package                         *)
(* (sdk/protocol/src/lib/verification.ts).  An envelope hash stands for    *)
(* the Action; an Approval is its top-level fields with the payload that   *)
(* its signature covers and the key that made it.  What is wrong with the  *)
(* form of a document is a member of pkg.defects.                          *)
(***************************************************************************)
EXTENDS ApprovalRequirements

NoExpiry == 0

\* A signed payload: who signed what, when, and until when it holds.
Signed(s, a, dec, at, until) ==
  [signer |-> s, act |-> a, decision |-> dec, created |-> at, expires |-> until]

\* The top-level fields repeat the signed ones; `key' is whose key signed.
Approval(pay, a, dec, key) ==
  [payload |-> pay, act |-> a, decision |-> dec, key |-> key]

\* validateActionEnvelope: the form, and the clock where it is asked
EnvelopeForm(pkg) == "envelope" \notin pkg.defects /\ pkg.created < pkg.expires

ValidEnvelope(pkg, now) == EnvelopeForm(pkg) /\ pkg.created <= now

\* validateApprovalBundleStructure
BundleStructure(pkg) == "bundle" \notin pkg.defects /\ pkg.approvals # {}

\* parseActionPackage: the form of the package with its envelope and bundle
PackageForm(pkg) == "package" \notin pkg.defects /\ EnvelopeForm(pkg)

ParseActionPackage(pkg) == PackageForm(pkg) /\ BundleStructure(pkg)

Expired(pkg, now) == pkg.expires <= now

ExceedsMaxValidity(pkg, now, max) == pkg.expires - now > max

\* validateApprovalTime, with no clock tolerance
ApprovalTimely(ap, pkg, now) ==
  LET until == IF ap.payload.expires = NoExpiry THEN pkg.expires
               ELSE ap.payload.expires
  IN  /\ ap.payload.created <= now
      /\ pkg.created <= ap.payload.created /\ ap.payload.created <= pkg.expires
      /\ ap.payload.created < until /\ until <= pkg.expires /\ now < until

\* Mutated form of ApprovalValid: the top-level fields are not compared with
\* the ones that were signed.
ApprovalValidUnbound(ap, pkg, now, trusted) ==
  /\ ap.act = pkg.act
  /\ ap.payload.signer \in trusted /\ ap.key = ap.payload.signer
  /\ ApprovalTimely(ap, pkg, now)

\* One Approval of verifyApprovalBundle: bound to this envelope, by a trusted
\* signer, with that signer's key, saying what was signed, and in time.
ApprovalValid(ap, pkg, now, trusted) ==
  /\ ap.act = pkg.act
  /\ ap.payload.signer \in trusted /\ ap.key = ap.payload.signer
  /\ ap.payload.act = ap.act /\ ap.payload.decision = ap.decision
  /\ ApprovalTimely(ap, pkg, now)

\* verifyApprovalBundle: one Approval that fails makes the whole bundle fail.
VerifyApprovalBundle(pkg, now, trusted) ==
  /\ pkg.bundleAct = pkg.act
  /\ \A ap \in pkg.approvals : ApprovalValid(ap, pkg, now, trusted)

ProposerSigned(pkg) ==
  \E ap \in pkg.approvals :
    ap.decision = "propose" /\ ap.payload.signer = pkg.proposer

\* verifyActionPackage: the checks, in order, each with its code.
Checks(pkg, now, trusted, max) ==
  << <<PackageForm(pkg), "INVALID_ACTION_PACKAGE">>,
     <<BundleStructure(pkg), "MALFORMED_APPROVAL_BUNDLE">>,
     <<ValidEnvelope(pkg, now), "INVALID_ACTION_ENVELOPE">>,
     <<~Expired(pkg, now), "EXPIRED_ACTION_ENVELOPE">>,
     <<~ExceedsMaxValidity(pkg, now, max), "ENVELOPE_VALIDITY_TOO_LONG">>,
     <<"application" \notin pkg.defects, "UNKNOWN_APPLICATION">>,
     <<"profile" \notin pkg.defects, "UNSUPPORTED_EXECUTION_PROFILE">>,
     <<"payload" \notin pkg.defects, "INVALID_EXECUTION_PAYLOAD">>,
     <<"actionId" \notin pkg.defects, "INVALID_ACTION_ID">>,
     <<"payloadHash" \notin pkg.defects, "PAYLOAD_HASH_MISMATCH">>,
     <<VerifyApprovalBundle(pkg, now, trusted), "APPROVAL_BUNDLE_INVALID">>,
     <<ProposerSigned(pkg), "MISSING_PROPOSER_APPROVAL">> >>

Defects == {"package", "bundle", "envelope", "application", "profile",
            "payload", "actionId", "payloadHash", "binding", "toolsCall"}

FirstFailure(checks) ==
  LET failed == {i \in DOMAIN checks : ~checks[i][1]}
  IN  IF failed = {} THEN "verified"
      ELSE checks[CHOOSE i \in failed : \A j \in failed : i <= j][2]

VerifyActionPackage(pkg, now, trusted, max) ==
  FirstFailure(Checks(pkg, now, trusted, max))
==============================================================================

\* Three signers; a call is replaced once; the clock runs past the envelope.
CONSTANTS
  p = p  a = a  b = b  o = o
  Dids = {p, a, b, o}
  Proposer = p
  Directories <- MCConditional
  Evidence <- MCEvidence
  Responses <- MCResponses
  Chain = "main"
  MaxDepth = 3
  MaxNodes = 8
  Application = "app"
  Operation = "call"
  Arguments <- MCConditionalArguments
  Validity = 2
  MaxValidity = 2
  MaxRounds = 2
  MaxTime = 4
SPECIFICATION Spec
INVARIANT ArgumentsAsPublished
CHECK_DEADLOCK FALSE

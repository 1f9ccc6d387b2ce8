------------------------- MODULE AtMostOnceDispatch -------------------------
(***************************************************************************)
(* What the Verifier promises of an Action ID (Core specification, 6.9):   *)
(* unknown, then executing, then resolved for good, and transmitted at     *)
(* most once, while it is executing.  A definite outcome (executed,        *)
(* failed) presupposes the transmission; indeterminate does not.           *)
(***************************************************************************)
EXTENDS Naturals

CONSTANT ActionIds

VARIABLES
  status,  \* the lifecycle condition of each Action ID
  sent     \* how often its request was transmitted

lifecycleVars == <<status, sent>>

Definite == {"executed", "failed"}
Conditions == {"unknown", "executing", "indeterminate"} \cup Definite

Authorize(a) ==
  /\ status[a] = "unknown"
  /\ status' = [status EXCEPT ![a] = "executing"]
  /\ UNCHANGED sent

Transmit(a) ==
  /\ status[a] = "executing"
  /\ sent[a] = 0
  /\ sent' = [sent EXCEPT ![a] = 1]
  /\ UNCHANGED status

Resolve(a, result) ==
  /\ status[a] = "executing"
  /\ result \in Definite => sent[a] = 1
  /\ status' = [status EXCEPT ![a] = result]
  /\ UNCHANGED sent

\* A restart gives up on any number of executing actions at once.
GiveUp(S) ==
  /\ \A a \in S : status[a] = "executing"
  /\ status' = [a \in ActionIds |-> IF a \in S THEN "indeterminate" ELSE status[a]]
  /\ UNCHANGED sent

\* An earlier release may have left actions in any condition.
Init ==
  /\ status \in [ActionIds -> Conditions]
  /\ sent = [a \in ActionIds |-> 0]

Next ==
  \/ \E a \in ActionIds :
       Authorize(a) \/ Transmit(a) \/ \E r \in Definite \cup {"indeterminate"} : Resolve(a, r)
  \/ \E S \in SUBSET ActionIds : GiveUp(S)

Spec == Init /\ [][Next]_lifecycleVars
=============================================================================

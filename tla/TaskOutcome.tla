----------------------------- MODULE TaskOutcome -----------------------------
(***************************************************************************)
(* What the proposer bridge promises for a Task: a client's tool call is   *)
(* executed through at most one of its Actions, it gets one outcome, and   *)
(* the outcome is true.                                                    *)
(***************************************************************************)
CONSTANT Actions

VARIABLES
  work,      \* what the Verifier has done about each Action
  outcome    \* what a client is told of the Task

Outcomes == {"executed", "rejected", "replay", "cancelled", "unresolvable"}

Untouched == \A a \in Actions : work[a] = "none"

Init == work = [a \in Actions |-> "none"] /\ outcome = "none"

Create == outcome = "none" /\ outcome' = "working" /\ UNCHANGED work

\* Nothing is executed without a Task, twice, or after a client was told that
\* the call is rejected; a Task that was given up may still be executed.
Execute(a) ==
  /\ outcome \notin {"none", "rejected"} /\ Untouched
  /\ \E s \in {"executing", "done"} : work' = [work EXCEPT ![a] = s]
  /\ UNCHANGED outcome

Complete(a) ==
  /\ work[a] = "executing" /\ work' = [work EXCEPT ![a] = "done"]
  /\ UNCHANGED outcome

Warranted(told) ==
  /\ told = "executed" => \E a \in Actions : work[a] = "done"
  /\ told = "replay" => ~Untouched
  /\ told = "rejected" => Untouched

End(told) == outcome = "working" /\ Warranted(told) /\ outcome' = told /\ UNCHANGED work

Purge == outcome \in Outcomes /\ outcome' = "purged" /\ UNCHANGED work

Next ==
  \/ Create \/ Purge
  \/ \E a \in Actions : Execute(a) \/ Complete(a)
  \/ \E told \in Outcomes : End(told)

Spec == Init /\ [][Next]_<<work, outcome>>
==============================================================================

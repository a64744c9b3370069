----------------------------- MODULE TaskForest -----------------------------
(***************************************************************************)
(* What the kernel promises of a forest of tasks, without decisions, calls *)
(* or deferral.  A task is opened under a parent that is not closed.  It   *)
(* ends well (done) or not (stopped).  One step closes one task and only   *)
(* what follows from that: everything open below it when it is stopped,    *)
(* and ancestors that have nothing open left below them.                   *)
(***************************************************************************)
EXTENDS FiniteSets

CONSTANTS Task, None, Parent, Above, Retried

VARIABLE status

Statuses == {"none", "open", "done", "stopped"}
Closed   == {"done", "stopped"}

Init == status = [t \in Task |-> "none"]

\* t is opened, again if its client retries it.
Open(t) ==
  /\ status[t] \in Closed => t \in Retried
  /\ Parent[t] # None => status[Parent[t]] = "open"
  /\ status' = [status EXCEPT ![t] = "open"]

\* t ends; the ancestors in up end with it.
End(t, outcome, up) ==
  LET below   == {d \in Task : t \in Above[d] /\ status[d] = "open"}
      stopped == IF outcome = "stopped" THEN {t} \cup below ELSE {t}
  IN  /\ status[t] \in Closed => t \in Retried
      /\ outcome = "done" => below = {}
      /\ \A d \in up : status[d] = "open"
      /\ status' \in [Task -> Statuses]
      /\ \A d \in stopped : status'[d] = outcome
      /\ \A d \in up : status'[d] \in Closed
      /\ \A d \in Task \ (stopped \cup up) : status'[d] = status[d]
      /\ \A d \in up : \A c \in Task : Parent[c] = d =>
           /\ status'[c] # "open"
           /\ status'[d] = "done" => status'[c] # "stopped"

Next ==
  \E t \in Task :
    \/ Open(t)
    \/ \E outcome \in Closed : \E up \in SUBSET Above[t] : End(t, outcome, up)

Spec == Init /\ [][Next]_status
=============================================================================

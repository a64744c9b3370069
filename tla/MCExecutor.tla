----------------------------- MODULE MCExecutor -----------------------------
(***************************************************************************)
(* One runtime with one request: the handler, the operator and the drain   *)
(* are three threads that may resolve it, and up to three processes one     *)
(* after the other have each a reader.                                      *)
(***************************************************************************)
EXTENDS ExecutorSidecar

CONSTANTS r1, x1

OneRuntime == {r1}
OneRequest == {x1}
OfFirst == [x \in Request |-> r1]
=============================================================================

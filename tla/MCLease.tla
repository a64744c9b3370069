------------------------------ MODULE MCLease ------------------------------
(***************************************************************************)
(* The writer scope with two agents: two runs of each, so that a run can   *)
(* be nested in, or overlap, another of its own agent.                     *)
(***************************************************************************)
EXTENDS EnvironmentLease, TLC

CONSTANTS a1, a2, b1, b2, A, B

Runs == {a1, a2, b1, b2}
Agents == {A, B}
Owners == a1 :> A @@ a2 :> A @@ b1 :> B @@ b2 :> B
=============================================================================

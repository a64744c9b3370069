---------------------------- MODULE MCHumanAssist ----------------------------
(***************************************************************************)
(* Three records: one to be resumed, one issued while it is, and one that  *)
(* looks like a fresh recovery; work of nobody and of two assignments.      *)
(***************************************************************************)
EXTENDS HumanAssist

CONSTANTS h1, h2, h3, p1, k1, k2

Records == {h1, h2, h3}
Recoveries == {h3}
Nobody == [profile |-> None, task |-> None]
Of(k) == [profile |-> p1, task |-> k]
Asks == {Nobody, Of(None), Of(k1), Of(k2)}
=============================================================================

------------------------------- MODULE MCMcp --------------------------------
(* Two clients with two enabled configurations each, and one caller.       *)
EXTENDS McpClients

CONSTANTS v1, v2, c1
Keys == {"a", "b"}
Versions == {v1, v2}
Callers == {c1}
Targets == [c \in Callers |-> "a"]

\* Both clients as they were, both changed, one switched off and one no
\* longer named.
Contents == {[a |-> v1, b |-> v1], [a |-> v2, b |-> v2], [a |-> "disabled", b |-> "absent"]}
=============================================================================

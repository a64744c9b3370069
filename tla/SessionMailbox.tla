--------------------------- MODULE SessionMailbox ---------------------------
(***************************************************************************)
(* What a channel promises its users: the messages of a session are        *)
(* answered in turns, one at a time, in the order they came, and a turn    *)
(* takes everything that has come since the last one.  A channel with no   *)
(* room left loses a message that comes, or all that came during a turn.   *)
(***************************************************************************)
EXTENDS Naturals, Sequences

CONSTANTS Session, MaxMessages

VARIABLES
    arrived,   \* number of messages of each session that came
    inbox,     \* messages that wait for a turn
    answered,  \* messages that a turn took
    inTurn     \* sessions whose turn is going on

vars == <<arrived, inbox, answered, inTurn>>

Init ==
    /\ arrived = [s \in Session |-> 0]
    /\ inbox = [s \in Session |-> <<>>]
    /\ answered = [s \in Session |-> <<>>]
    /\ inTurn = {}

Arrive(s) ==
    /\ arrived[s] < MaxMessages[s]
    /\ arrived' = [arrived EXCEPT ![s] = @ + 1]
    /\ \/ inbox' = [inbox EXCEPT ![s] = Append(@, arrived[s] + 1)]
       \/ UNCHANGED inbox
    /\ UNCHANGED <<answered, inTurn>>

TakeTurn(s) ==
    /\ s \notin inTurn
    /\ inbox[s] # <<>>
    /\ answered' = [answered EXCEPT ![s] = @ \o inbox[s]]
    /\ inbox' = [inbox EXCEPT ![s] = <<>>]
    /\ inTurn' = inTurn \cup {s}
    /\ UNCHANGED arrived

EndTurn(s) ==
    /\ s \in inTurn
    /\ inTurn' = inTurn \ {s}
    /\ \/ inbox' = [inbox EXCEPT ![s] = <<>>]
       \/ UNCHANGED inbox
    /\ UNCHANGED <<arrived, answered>>

Next == \E s \in Session : Arrive(s) \/ TakeTurn(s) \/ EndTurn(s)

Spec == Init /\ [][Next]_vars
=============================================================================

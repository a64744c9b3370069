----------------------------- MODULE MCChannel -----------------------------
(***************************************************************************)
(* One channel with two sessions.  Two workers are enough for every race   *)
(* between workers over a session, three for one to hold a payload while   *)
(* two others overlap.                                                     *)
(***************************************************************************)
EXTENDS ChannelManager

CONSTANTS s1, s2, w1, w2, w3, w4

Sessions == {s1, s2}
ThreeWorkers == {w1, w2, w3}
FourWorkers == {w1, w2, w3, w4}
OneCrew == [w \in ThreeWorkers |-> 0]
TwoCrews == [w \in FourWorkers |-> IF w = w4 THEN 1 ELSE 0]
FourEach == [s \in Sessions |-> 4]
ThreeEach == [s \in Sessions |-> 3]
ThreeAndOne == [s \in Sessions |-> IF s = s1 THEN 3 ELSE 1]
=============================================================================

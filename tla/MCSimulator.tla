---------------------------- MODULE MCSimulator ----------------------------
(* Instances of Simulator for TLC: pods a, b, c, the test pod t and two     *)
(* nodes.                                                                   *)
EXTENDS SimulatorInvariant

CONSTANTS a, b, c, t, big, small

TwoNodes == <<big, small>>

Two == <<a, b>>
Three == <<a, b, c>>
Again == <<a, b, c, a>>

NoNodeName == [p \in Pod |-> Unbound]
AOnBig == [p \in Pod |-> IF p = a THEN big ELSE Unbound]

(* a asks for one unit, b and c for two each.                               *)
Requests == [p \in Pod |-> CASE p = t -> 0 [] p = a -> 1 [] OTHER -> 2]
NoRequests == [p \in Pod |-> 0]
\* a takes no room, so that it may be added to the scheduler's cache late.
RequestsButA == [Requests EXCEPT ![a] = 0]
Capacity == [x \in Node |-> IF x = big THEN 2 ELSE 1]
Unit == [x \in Node |-> 1]
OneUnit == [p \in Pod |-> IF p = t THEN 0 ELSE 1]
Roomy == [x \in Node |-> 9]
=============================================================================

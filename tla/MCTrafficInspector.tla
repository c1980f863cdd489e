------------------------- MODULE MCTrafficInspector -------------------------
(* Model-checking instances of TrafficInspector.                           *)
EXTENDS TrafficInspector, TLC

CONSTANTS req, resp   \* a RADIUS request code and a response code

Symmetry == Permutations(Buffers)

Radius(k, c, w) == [leaf |-> "RADIUS", ident |-> k, code |-> c, whole |-> w]
Other(l) == [leaf |-> l, ident |-> 1, code |-> req, whole |-> FALSE]

(* Requests and responses of one conversation, requests of one and of two, *)
(* traffic of several leaves and traffic that no leaf takes.               *)
OneId == {Radius(1, req, TRUE), Radius(1, resp, TRUE)}
NoLeaf == {Other("none")}
OneRequest == {Radius(1, req, TRUE)}
TwoIds == {Radius(k, req, TRUE) : k \in 1..2}
Mixed == {Radius(1, req, TRUE), Other("TCP"), Other("none")}

OneRadius == <<"RADIUS">>
TwoRadius == <<"RADIUS", "RADIUS">>
AllLeaves == <<"RADIUS", "UDP", "TCP">>
RadiusAndTCP == <<"RADIUS", "TCP">>
=============================================================================

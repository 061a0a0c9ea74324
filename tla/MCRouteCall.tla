---------------------------- MODULE MCRouteCall ----------------------------
(* A model-checking instance: a provider process and two descendants. *)
EXTENDS RouteCall

CONSTANTS leader, p1, p2

MCProcs == {leader, p1, p2}
=============================================================================

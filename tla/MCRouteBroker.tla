--------------------------- MODULE MCRouteBroker ----------------------------
(* One device address with a preferred and a fallback route (the router),  *)
(* and one target without fallback (the single-target server).             *)
EXTENDS RouteBroker, TLC

CONSTANTS c1, c2

MCClients == {c1, c2}
MCOneClient == {c1}
MCTwoRoutes == <<"can", "serial">>
MCSymmetry == Permutations(MCClients)
=============================================================================

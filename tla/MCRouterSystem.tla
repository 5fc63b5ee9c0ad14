--------------------------- MODULE MCRouterSystem ---------------------------
(* Two connections that come and go from two hosts or from none, two       *)
(* devices, and commands that name a device or address 0.                  *)
EXTENDS RouterSystem, TLC

CONSTANTS a, b, hostA, hostB, set

MCConns == {a, b}
MCHosts == {hostA, hostB}
MCSymmetry == Permutations(MCConns) \cup Permutations(MCHosts)
MCDevices == {80, 81}
MCOrder == <<80, 81>>
MCCallers == MCConns \cup Legs
MCFrame(d) == [addr |-> d, cmd |-> set]
MCFrames == {MCFrame(d) : d \in {0, 80, 81}}
MCFanouts == {[cmd |-> set, addrs |-> {}, allow |-> TRUE], [cmd |-> set, addrs |-> {81}, allow |-> FALSE]}
MCNoFanouts == {}
MCZeroFrames == {MCFrame(0)}
MCResults == {"reply", "error"}

VARIABLE part   \* two connections, or one beside a fanout

MCInit == Init /\ part \in {"clients", "fanout"}
MCNext ==
    /\ Next /\ UNCHANGED part
    /\ part = "clients" => fan' = fan /\ \A c \in Conns : frame'[c] # MCFrame(80)
    /\ part = "fanout" => next' <= 1 /\ \A c \in Conns : frame'[c] \in {NoKey, MCFrame(81)}
MCSpec == MCInit /\ [][MCNext]_<<part, vars>>
=============================================================================

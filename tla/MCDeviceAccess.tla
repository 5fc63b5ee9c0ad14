--------------------------- MODULE MCDeviceAccess ---------------------------
(* What goes through to a device: writes of the gateway, readouts, and the *)
(* frames of the bridge; a behaviour is one of either.                     *)
(*                                                                         *)
(* write.  Two operators writing one parameter of one device.              *)
(*                                                                         *)
(* readout.  Pointers wrap at 13, a ring of 5 bytes, frames of 3 and       *)
(* windows of 2 to 4 bytes; one parameter in the ring, and another in the  *)
(* queue or polled manually only.                                          *)
(*                                                                         *)
(* bridge.  That of MCDeviceBridge.                                        *)
EXTENDS GatewayWrite, Readout, MCDeviceBridge

CONSTANTS w1, w2, object, sink

VARIABLE part   \* which of them this behaviour is of

MCWriters == {w1, w2}
MCNone == {}
MCErrors == {"ErrTimeout"}
MCSymmetry == Permutations(MCWriters)

MCParams == {object, sink}
MCConfigured == {<<>>, <<sink>>}
MCRingParams == <<object>>

MCInit ==
    /\ part \in {"write", "readout", "bridge"}
    /\ WriteInit /\ ReadoutInit /\ BridgeInit
    /\ part # "write" => value = 1
    /\ part # "readout" => normal = <<>>
    /\ part # "bridge" => role = "bridge"

MCNext ==
    \/ part = "write" /\ WriteNext /\ UNCHANGED <<part, readoutVars, bridgeVars>>
    \/ part = "readout" /\ ReadoutNext /\ UNCHANGED <<part, gatewayVars, bridgeVars>>
    \/ part = "bridge" /\ BridgeNext /\ UNCHANGED <<part, gatewayVars, readoutVars>>

MCSpec == MCInit /\ [][MCNext]_<<part, gatewayVars, readoutVars, bridgeVars>>
=============================================================================

--------------------------- MODULE MCGatewayState ---------------------------
(* State that the gateway's goroutines share; the parts do not meet, and a *)
(* behaviour is one of either.                                             *)
(*                                                                         *)
(* lease.  Two devices and two holders, with leases of one or three ticks  *)
(* so that renewals both shorten and lengthen the expiry.                  *)
(*                                                                         *)
(* power.  A light, a middle and a heavy load, so that a change of load is *)
(* seen as ohmic or not; set points that are far below and above those of  *)
(* the target; three events of operators, hardware and failures.           *)
(*                                                                         *)
(* receiver.  Two bindings of a device, pairs of up to two.                *)
(*                                                                         *)
(* graph.  That of MCGraphHistory.                                         *)
EXTENDS WriteLease, PowerControl, RingReceiver, MCGraphHistory

CONSTANTS d1, d2, h1, h2

VARIABLE part   \* which of them this behaviour is of

MCSpikes == {[v |-> 300, i |-> 2500]}
MCSetPoints == {[v |-> 100, i |-> 50], [v |-> 780, i |-> 250]}

leaseVars == vars

MCInit ==
    /\ part \in {"lease", "power", "receiver", "graph"}
    /\ Init /\ ReceiverInit /\ GraphInit /\ PowerInit
    /\ part # "power" => load = 200 /\ supply.v = 100

MCNext ==
    \/ part = "lease" /\ Next /\ UNCHANGED <<part, powerVars, receiverVars, graphVars>>
    \/ part = "power" /\ PowerNext /\ UNCHANGED <<part, leaseVars, receiverVars, graphVars>>
    \/ part = "receiver" /\ ReceiverNext /\ UNCHANGED <<part, leaseVars, powerVars, graphVars>>
    \/ part = "graph" /\ GraphNext /\ UNCHANGED <<part, leaseVars, powerVars, receiverVars>>

MCSpec ==
    /\ MCInit /\ [][MCNext]_<<part, leaseVars, powerVars, receiverVars, graphVars>>
    /\ WF_powerVars(part = "power" /\ Loop) /\ WF_powerVars(part = "power" /\ SetTarget)
=============================================================================

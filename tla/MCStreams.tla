----------------------------- MODULE MCStreams ------------------------------
(* The three ways telemetry reaches a consumer, which share nothing; a     *)
(* behaviour is one of either.                                             *)
(*                                                                         *)
(* ring.  Pointers wrap at 13, a ring of 5 bytes, chunks of at most 4,     *)
(* frames of 3: chunks cut through frames, pointers wrap inside and        *)
(* between chunks, and the producer can overrun the reader before and      *)
(* during a fetch.                                                         *)
(*                                                                         *)
(* subscriber.  A buffer of two, as for two parameters, and enough cycles  *)
(* to overrun it several times.                                            *)
(*                                                                         *)
(* scheduler.  Two subscriptions to one device and one to a device it was  *)
(* not configured with.                                                    *)
EXTENDS RingReader, Subscriber, PollScheduler

CONSTANTS s1, s2, s3

VARIABLE part   \* which of them this behaviour is of

MCSubs == {s1, s2, s3}
MCAddrOf == [s \in MCSubs |-> IF s = s3 THEN 2 ELSE 1]

MCInit ==
    /\ part \in {"ring", "subscriber", "scheduler"}
    /\ Init /\ SubscriberInit /\ SchedulerInit

MCNext ==
    \/ part = "ring" /\ Next /\ UNCHANGED <<part, subscriberVars, schedulerVars>>
    \/ part = "subscriber" /\ SubscriberNext /\ UNCHANGED <<part, vars, schedulerVars>>
    \/ part = "scheduler" /\ SchedulerNext /\ UNCHANGED <<part, vars, subscriberVars>>

MCSpec ==
    /\ MCInit /\ [][MCNext]_<<part, vars, subscriberVars, schedulerVars>>
    /\ WF_vars(part = "ring" /\ ReaderStep) /\ WF_vars(part = "ring" /\ Receive)
    /\ WF_subscriberVars(part = "subscriber" /\ at = "first" /\ pollOnce)
    /\ WF_subscriberVars(part = "subscriber" /\ EmitStep)
    /\ SF_subscriberVars(part = "subscriber" /\ RunReturns)
    /\ WF_schedulerVars(part = "scheduler" /\ PollerStep)
=============================================================================

----------------------------- MODULE Subscriber -----------------------------
(***************************************************************************)
(* Subscriber (mecom/subscriber.go): a goroutine polls a device and emits  *)
(* one telemetry item per parameter into a bounded channel.  emit makes    *)
(* room by dropping the oldest item; it tries to send, and drops, in two   *)
(* separate selects, between which the consumer may receive.               *)
(*                                                                         *)
(* An item is the number it was emitted under.  The consumer is the SSE    *)
(* handler, which cancels the context when its peer goes away.             *)
(***************************************************************************)
EXTENDS Naturals, Sequences

CONSTANTS
    OutBuffer, \* capacity of the channel
    PerCycle,  \* parameters, so items per poll cycle
    MaxItems   \* bound on the items emitted

ASSUME SubscriberConstants == {OutBuffer, PerCycle, MaxItems} \subseteq Nat \ {0}

VARIABLES
    out,        \* s.out
    closed,     \* it is closed
    cancelled,  \* ctx is done
    at,         \* Run: "first", "select", "done"; emit: "send", "drop"
    item,       \* the item being emitted, or emitted last
    left,       \* items of this cycle after it
    taken       \* the item the consumer received last

subscriberVars == <<out, closed, cancelled, at, item, left, taken>>

SubscriberInit ==
    /\ out = <<>> /\ closed = FALSE
    /\ cancelled = FALSE
    /\ at = "first"
    /\ item = 0 /\ left = 0 /\ taken = 0

-----------------------------------------------------------------------------
(* Run and pollOnce *)

(* The device is read, with success or not: there is an item either way.   *)
pollOnce ==
    /\ at \in {"first", "select"}
    /\ item < MaxItems
    /\ item' = item + 1
    /\ left' = PerCycle - 1
    /\ at' = "send"
    /\ UNCHANGED <<out, closed, cancelled, taken>>

\* A mutant for StreamNeverHangs: Run waits until its output has been drained.
RunReturnsWhenDrained ==
    /\ at = "select"
    /\ cancelled
    /\ out = <<>>
    /\ at' = "done"
    /\ closed' = TRUE
    /\ UNCHANGED <<out, cancelled, item, left, taken>>

RunReturns ==
    /\ at = "select"
    /\ cancelled
    /\ at' = "done"
    /\ closed' = TRUE
    /\ UNCHANGED <<out, cancelled, item, left, taken>>

(* emit has returned.                                                      *)
NextItem ==
    IF left > 0 /\ ~cancelled /\ item < MaxItems
    THEN at' = "send" /\ item' = item + 1 /\ left' = left - 1
    ELSE at' = "select" /\ left' = 0 /\ UNCHANGED item

-----------------------------------------------------------------------------
(* emit *)

SendItem ==
    /\ at = "send"
    /\ Len(out) < OutBuffer
    /\ out' = Append(out, item)
    /\ NextItem
    /\ UNCHANGED <<closed, cancelled, taken>>

EmitCancelled ==
    /\ at = "send"
    /\ cancelled
    /\ at' = "select" /\ left' = 0
    /\ UNCHANGED <<out, closed, cancelled, item, taken>>

SendFull ==
    /\ at = "send"
    /\ Len(out) = OutBuffer
    /\ ~cancelled
    /\ at' = "drop"
    /\ UNCHANGED <<out, closed, cancelled, item, left, taken>>

\* A mutant for NewestIsKept: a full subscriber drops the new sample.
DropNewest ==
    /\ at = "drop"
    /\ NextItem
    /\ UNCHANGED <<out, closed, cancelled, taken>>

Drop ==
    /\ at = "drop"
    /\ out' = IF out = <<>> THEN out ELSE Tail(out)
    /\ at' = "send"
    /\ UNCHANGED <<closed, cancelled, item, left, taken>>

-----------------------------------------------------------------------------
(* The consumer *)

Consume ==
    /\ out # <<>>
    /\ taken' = Head(out)
    /\ out' = Tail(out)
    /\ UNCHANGED <<closed, cancelled, at, item, left>>

CancelRun ==
    /\ ~cancelled
    /\ cancelled' = TRUE
    /\ UNCHANGED <<out, closed, at, item, left, taken>>

EmitStep == SendItem \/ EmitCancelled \/ SendFull \/ Drop
SubscriberNext == pollOnce \/ RunReturns \/ EmitStep \/ Consume \/ CancelRun

SubscriberSpec == SubscriberInit /\ [][SubscriberNext]_subscriberVars

(* The goroutine runs: its first cycle, every emit and the return are      *)
(* taken, the return strongly because select picks at random between it    *)
(* and a tick that is ready too.  Nothing is assumed of the consumer or of *)
(* the ticker.                                                             *)
SubscriberFairness ==
    /\ WF_subscriberVars(at = "first" /\ pollOnce)
    /\ WF_subscriberVars(EmitStep)
    /\ SF_subscriberVars(RunReturns)

-----------------------------------------------------------------------------

(***************************************************************************)
(* However far the consumer is behind, the newest item emitted is never    *)
(* the one that is dropped, and what the consumer has yet to get is newer  *)
(* than what it took (emit drops the oldest).                              *)
(***************************************************************************)
NewestIsKept ==
    /\ at = "select" /\ ~cancelled /\ item > 0 =>
          taken = item \/ (out # <<>> /\ out[Len(out)] = item)
    /\ \A i \in DOMAIN out : out[i] > taken /\ \A j \in 1 .. i - 1 : out[j] < out[i]

(***************************************************************************)
(* "a stalled consumer never stalls the device side" (subscriber.go:125-   *)
(* 126): emit returns although nobody receives.  And Run "always closes    *)
(* the output channel before returning", and returns once its context is   *)
(* done, wherever the cancellation found it: the SSE handler that ranges   *)
(* over the channel is not left waiting.                                   *)
(***************************************************************************)
StreamNeverHangs ==
    /\ at \in {"send", "drop"} ~> at \in {"select", "done"}
    /\ cancelled ~> closed
=============================================================================

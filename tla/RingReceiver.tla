---------------------------- MODULE RingReceiver ----------------------------
(***************************************************************************)
(* runDeviceRingReceiver (cmd/mecomgw/main.go): the goroutine that takes   *)
(* the samples of a device's ring and pairs voltages with currents for the *)
(* power control.  Resetting the binding stops ring and goroutine, binding *)
(* again starts new ones; a goroutine that already holds a sample when its *)
(* ring is stopped finds the next ring in its place.                       *)
(*                                                                         *)
(* The ring's configuration is the same for every binding of a device, so  *)
(* a sample is known by its quantity and the time it was taken at.         *)
(***************************************************************************)
EXTENDS Integers, Sequences

CONSTANTS
    Window,     \* voltage and current closer than this are a pair (100 ms)
    Pairs,      \* pairs that are kept (5)
    Channel,    \* samples the channel of a ring holds
    MaxRings,   \* bound: bindings of the device
    MaxTaken    \* bound: samples, and with it time

ASSUME ReceiverConstants == Window \in Nat \ {0} /\ Pairs \in Nat /\ MaxRings \in Nat

VARIABLES
    ring,       \* the ring that is bound, or 0
    rings,      \* rings bound so far
    feed,       \* per ring: samples in its channel
    hands,      \* per ring: what its goroutine holds, or where it is
    volt, amp,  \* latest voltage and current not yet paired
    power,      \* the pairs, powerHistory
    takenAt     \* the time of the last sample

receiverVars == <<ring, rings, feed, hands, volt, amp, power, takenAt>>

Unpaired == [of |-> "none", at |-> 0]
Selecting == [of |-> "select", at |-> 0]
Returned == [of |-> "returned", at |-> 0]

ReceiverInit ==
    /\ ring = 0 /\ rings = 0 /\ takenAt = 0
    /\ feed = [g \in 1 .. MaxRings |-> <<>>] /\ hands = [g \in 1 .. MaxRings |-> Returned]
    /\ volt = Unpaired /\ amp = Unpaired /\ power = <<>>

\* bind: a ring and its goroutine
BindRing ==
    /\ ring = 0 /\ rings < MaxRings
    /\ rings' = rings + 1 /\ ring' = rings'
    /\ hands' = [hands EXCEPT ![rings'] = Selecting]
    /\ UNCHANGED <<feed, volt, amp, power, takenAt>>

\* resetDeviceBinding
ResetRing ==
    /\ ring # 0 /\ ring' = 0
    /\ volt' = Unpaired /\ amp' = Unpaired /\ power' = <<>>
    /\ UNCHANGED <<rings, feed, hands, takenAt>>

\* The ring's goroutine sends a sample; time may pass between two.
RingSends(of, gap) ==
    /\ ring # 0 /\ Len(feed[ring]) < Channel /\ takenAt + gap <= MaxTaken
    /\ takenAt' = takenAt + gap
    /\ feed' = [feed EXCEPT ![ring] = Append(@, [of |-> of, at |-> takenAt'])]
    /\ UNCHANGED <<ring, rings, hands, volt, amp, power>>

\* select: of a stopped ring, a sample or the stop
Receives(g) ==
    /\ hands[g] = Selecting /\ feed[g] # <<>>
    /\ hands' = [hands EXCEPT ![g] = Head(feed[g])]
    /\ feed' = [feed EXCEPT ![g] = Tail(@)]
    /\ UNCHANGED <<ring, rings, volt, amp, power, takenAt>>
Stops(g) ==
    /\ hands[g] = Selecting /\ ring # g
    /\ hands' = [hands EXCEPT ![g] = Returned]
    /\ UNCHANGED <<ring, rings, feed, volt, amp, power, takenAt>>

\* A mutant for PairsAreOfOneMoment: the paired times are kept.
PairedStays(v, i) ==
    /\ power' = LET h == Append(power, [v |-> v.at, i |-> i.at])
                IN  IF Len(h) > Pairs THEN Tail(h) ELSE h
    /\ volt' = v /\ amp' = i

\* A pair enters the history and is used up.
Paired(v, i) ==
    /\ power' = LET h == Append(power, [v |-> v.at, i |-> i.at])
                IN  IF Len(h) > Pairs THEN Tail(h) ELSE h
    /\ volt' = Unpaired /\ amp' = Unpaired

Close(v, i) == v.at - i.at < Window /\ i.at - v.at < Window

\* Under the lock of the binding; a goroutine that finds no ring returns.
Applies(g) ==
    LET v == IF hands[g].of = "volt" THEN hands[g] ELSE volt
        i == IF hands[g].of = "amp" THEN hands[g] ELSE amp
    IN  /\ hands[g].of \in {"volt", "amp"}
        /\ hands' = [hands EXCEPT ![g] = IF ring = 0 THEN Returned ELSE Selecting]
        /\ IF ring = 0 THEN UNCHANGED <<volt, amp, power>>
           ELSE IF v # Unpaired /\ i # Unpaired /\ Close(v, i) THEN Paired(v, i)
           ELSE volt' = v /\ amp' = i /\ power' = power
        /\ UNCHANGED <<ring, rings, feed, takenAt>>

ReceiverNext ==
    \/ BindRing \/ ResetRing
    \/ \E of \in {"volt", "amp"}, gap \in {1, Window} : RingSends(of, gap)
    \/ \E g \in 1 .. MaxRings : Receives(g) \/ Stops(g) \/ Applies(g)

ReceiverSpec == ReceiverInit /\ [][ReceiverNext]_receiverVars

(* Every pair the power control averages is of one moment, and no          *)
(* measurement counts twice, also while the goroutine of a ring that was   *)
(* stopped still delivers beside the new one's.                            *)
PairsAreOfOneMoment ==
    \A k \in DOMAIN power :
       /\ power[k].v - power[k].i < Window /\ power[k].i - power[k].v < Window
       /\ \A l \in DOMAIN power \ {k} : power[k].v # power[l].v /\ power[k].i # power[l].i
=============================================================================

--------------------------- MODULE PollScheduler ----------------------------
(***************************************************************************)
(* RouterPollScheduler (mecomserver/poller.go): PollOnce polls every       *)
(* device and publishes each batch to the device's subscribers, all of it  *)
(* under s.mu; Subscribe, cancel and EnqueueFront take the same lock.      *)
(* Receivers do not.  publishReadoutBatch makes three non-blocking         *)
(* attempts (send, drop the oldest, send), between which the receiver may  *)
(* take from the channel.                                                  *)
(*                                                                         *)
(* A batch is the number of the poll of its device that produced it.  A    *)
(* subscription is made and cancelled once, as its callers do.             *)
(***************************************************************************)
EXTENDS Naturals, Sequences, FiniteSets

CONSTANTS
    Addresses,   \* device addresses
    Configured,  \* the ones NewRouterPollScheduler is given
    Subs,        \* subscriptions
    AddrOf,      \* AddrOf[s]: the address s subscribes to
    Buffer,      \* capacity of a subscription's channel
    MaxPolls,    \* bound on the polls of a device
    None

ASSUME SchedulerConstants ==
    /\ Configured \subseteq Addresses
    /\ AddrOf \in [Subs -> Addresses]
    /\ Buffer \in Nat \ {0} /\ MaxPolls \in Nat
    /\ None \notin Addresses \cup Subs

VARIABLES
    devices,      \* DOMAIN s.devices
    subscribers,  \* [a]: dev.subscribers
    chan,         \* [s]: contents of the channel
    chState,      \* [s]: "none" before Subscribe, "open", "closed"
    phase,        \* PollOnce: "idle" (s.mu free), "range", "publish"
    todo,         \* devices still to be ranged over
    dev,          \* the device being published, or None
    rest,         \* its subscribers still to be ranged over
    sub,          \* the subscriber being published to, with the
    attempt,      \*   attempt of publishReadoutBatch: 1, 2 (drop), 3
    polls,        \* [a]: number of a's last batch
    got,          \* [s]: the batch received last
    joined        \* [s]: polls of its device when s subscribed (history)

schedulerVars == <<devices, subscribers, chan, chState, phase, todo, dev, rest, sub,
                   attempt, polls, got, joined>>
pollVars == <<phase, todo, dev, rest, sub, attempt, polls>>

SchedulerInit ==
    /\ devices = Configured
    /\ subscribers = [a \in Addresses |-> {}]
    /\ chan = [s \in Subs |-> <<>>]
    /\ chState = [s \in Subs |-> "none"]
    /\ phase = "idle" /\ todo = {} /\ dev = None /\ rest = {}
    /\ sub = None /\ attempt = 0
    /\ polls = [a \in Addresses |-> 0]
    /\ got = [s \in Subs |-> 0]
    /\ joined = [s \in Subs |-> 0]

Unlocked == phase = "idle"

-----------------------------------------------------------------------------
(* The callers of the scheduler *)

(* The readout queue that EnqueueFront goes on to is PollQueue's.          *)
EnqueueFront(a) ==
    /\ Unlocked
    /\ devices' = devices \cup {a}
    /\ UNCHANGED <<subscribers, chan, chState, got, joined>> /\ UNCHANGED pollVars

Subscribe(s) ==
    /\ Unlocked
    /\ chState[s] = "none"
    /\ devices' = devices \cup {AddrOf[s]}
    /\ subscribers' = [subscribers EXCEPT ![AddrOf[s]] = @ \cup {s}]
    /\ chState' = [chState EXCEPT ![s] = "open"]
    /\ joined' = [joined EXCEPT ![s] = polls[AddrOf[s]]]
    /\ UNCHANGED <<chan, got>> /\ UNCHANGED pollVars

\* A mutant for NewestBatchIsKept: Cancel closes the channel without the lock.
CancelUnlocked(s) ==
    /\ chState[s] = "open"
    /\ subscribers' = [subscribers EXCEPT ![AddrOf[s]] = @ \ {s}]
    /\ chState' = [chState EXCEPT ![s] = "closed"]
    /\ UNCHANGED <<devices, chan, got, joined>> /\ UNCHANGED pollVars

Cancel(s) ==
    /\ Unlocked
    /\ chState[s] = "open"
    /\ subscribers' = [subscribers EXCEPT ![AddrOf[s]] = @ \ {s}]
    /\ chState' = [chState EXCEPT ![s] = "closed"]
    /\ UNCHANGED <<devices, chan, got, joined>> /\ UNCHANGED pollVars

ReceiveBatch(s) ==
    /\ chan[s] # <<>>
    /\ got' = [got EXCEPT ![s] = Head(chan[s])]
    /\ chan' = [chan EXCEPT ![s] = Tail(@)]
    /\ UNCHANGED <<devices, subscribers, chState, joined>> /\ UNCHANGED pollVars

-----------------------------------------------------------------------------
(* PollOnce *)

PollOnce ==
    /\ Unlocked
    /\ \A a \in devices : polls[a] < MaxPolls
    /\ phase' = "range"
    /\ todo' = devices
    /\ UNCHANGED <<devices, subscribers, chan, chState, dev, rest, sub, attempt,
                   polls, got, joined>>

(* The next device, in any order: its readout is polled, and the batch has *)
(* values or errors.                                                       *)
Poll(a) ==
    /\ phase = "range" /\ a \in todo
    /\ polls' = [polls EXCEPT ![a] = @ + 1]
    /\ todo' = todo \ {a}
    /\ dev' = a
    /\ rest' = subscribers[a]
    /\ phase' = "publish"
    /\ UNCHANGED <<devices, subscribers, chan, chState, sub, attempt, got, joined>>

Publish(s) ==
    /\ phase = "publish" /\ sub = None
    /\ s \in rest
    /\ rest' = rest \ {s}
    /\ sub' = s
    /\ attempt' = 1
    /\ UNCHANGED <<devices, subscribers, chan, chState, phase, todo, dev, polls, got, joined>>

Published ==
    /\ phase = "publish" /\ sub = None /\ rest = {}
    /\ phase' = "range"
    /\ dev' = None
    /\ UNCHANGED <<devices, subscribers, chan, chState, todo, rest, sub, attempt,
                   polls, got, joined>>

PollOnceReturns ==
    /\ phase = "range" /\ todo = {}
    /\ phase' = "idle"
    /\ UNCHANGED <<devices, subscribers, chan, chState, todo, dev, rest, sub, attempt,
                   polls, got, joined>>

-----------------------------------------------------------------------------
(* publishReadoutBatch *)

\* A mutant for LockIsReleased: a full channel blocks the sender.
TrySendBlocks ==
    /\ attempt \in {1, 3}
    /\ Len(chan[sub]) < Buffer
    /\ chan' = [chan EXCEPT ![sub] = Append(@, polls[dev])]
    /\ sub' = None /\ attempt' = 0
    /\ UNCHANGED <<devices, subscribers, chState, phase, todo, dev, rest, polls, got, joined>>

TrySend ==
    /\ attempt \in {1, 3}
    /\ IF Len(chan[sub]) < Buffer
       THEN /\ chan' = [chan EXCEPT ![sub] = Append(@, polls[dev])]
            /\ sub' = None /\ attempt' = 0
       ELSE /\ sub' = (IF attempt = 3 THEN None ELSE sub)
            /\ attempt' = (IF attempt = 3 THEN 0 ELSE 2)
            /\ UNCHANGED chan
    /\ UNCHANGED <<devices, subscribers, chState, phase, todo, dev, rest, polls, got, joined>>

DropOldest ==
    /\ attempt = 2
    /\ chan' = [chan EXCEPT ![sub] = IF @ = <<>> THEN @ ELSE Tail(@)]
    /\ attempt' = 3
    /\ UNCHANGED <<devices, subscribers, chState, phase, todo, dev, rest, sub, polls, got, joined>>

PollerStep == \/ \E a \in Addresses : Poll(a)
              \/ \E s \in Subs : Publish(s)
              \/ Published \/ PollOnceReturns \/ TrySend \/ DropOldest

SchedulerNext == \/ \E a \in Addresses : EnqueueFront(a)
        \/ \E s \in Subs : Subscribe(s) \/ Cancel(s) \/ ReceiveBatch(s)
        \/ PollOnce
        \/ PollerStep

SchedulerSpec == SchedulerInit /\ [][SchedulerNext]_schedulerVars

(* PollOnce, once it has the lock, runs.  Nothing is assumed of receivers. *)
SchedulerFairness == WF_schedulerVars(PollerStep)

-----------------------------------------------------------------------------

(***************************************************************************)
(* When the poller is between two polls, every open subscription has the   *)
(* newest batch of its device, received or waiting in its channel, however *)
(* its receiver's steps fell between the three attempts; what waits is in  *)
(* order and newer than what was received.  The poller never sends on a    *)
(* channel that cancel has closed, which would panic, although cancel may  *)
(* be called at any moment.                                                *)
(***************************************************************************)
NewestBatchIsKept ==
    /\ sub # None => chState[sub] = "open"
    /\ \A s \in Subs :
          LET newest == polls[AddrOf[s]]
              c == chan[s] IN
          /\ phase = "idle" /\ chState[s] = "open" /\ newest > joined[s] =>
                got[s] = newest \/ (c # <<>> /\ c[Len(c)] = newest)
          /\ \A i \in DOMAIN c : c[i] > got[s] /\ \A j \in 1 .. i - 1 : c[j] < c[i]

(***************************************************************************)
(* A subscriber that never receives does not hold up the poller: PollOnce  *)
(* gives s.mu back, on which Subscribe, cancel and EnqueueFront wait.      *)
(***************************************************************************)
LockIsReleased == []<>Unlocked
=============================================================================

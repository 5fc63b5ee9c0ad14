---------------------------- MODULE StreamProofs ----------------------------
(***************************************************************************)
(* The two publishers that drop the oldest item of a full channel in       *)
(* several non-blocking attempts, with the receiver in between: emit of    *)
(* the subscriber, and publishReadoutBatch of the poll scheduler.          *)
(*                                                                         *)
(* And the selector that leases address 0 to the connections of a host,    *)
(* AddressZero: its proof counts connections, and is the only one to need  *)
(* the theorems about finite sets.                                         *)
(***************************************************************************)
EXTENDS Subscriber, PollScheduler, AddressZero, TLAPS

-----------------------------------------------------------------------------
(* Sequences                                                               *)

LEMMA ElementOfSeq ==
    ASSUME NEW S, NEW s \in Seq(S), NEW n \in 1 .. Len(s) PROVE s[n] \in S
  OBVIOUS

LEMMA LenProperties ==
    ASSUME NEW S, NEW s \in Seq(S)
    PROVE  Len(s) \in Nat /\ s \in [1 .. Len(s) -> S] /\ DOMAIN s = 1 .. Len(s)
  OBVIOUS

LEMMA EmptySeq ==
    ASSUME NEW S
    PROVE  /\ <<>> \in Seq(S) /\ Len(<<>>) = 0
           /\ \A s \in Seq(S) : s # <<>> => Len(s) \in Nat \ {0}
  OBVIOUS

LEMMA HeadTailProperties ==
    ASSUME NEW S, NEW s \in Seq(S), s # <<>>
    PROVE  /\ Head(s) \in S /\ Tail(s) \in Seq(S) /\ Len(Tail(s)) = Len(s) - 1
           /\ \A i \in 1 .. Len(Tail(s)) : Tail(s)[i] = s[i + 1]
  OBVIOUS

LEMMA AppendProperties ==
    ASSUME NEW S, NEW s \in Seq(S), NEW e \in S
    PROVE  /\ Append(s, e) \in Seq(S) /\ Len(Append(s, e)) = Len(s) + 1
           /\ \A i \in 1 .. Len(s) : Append(s, e)[i] = s[i]
           /\ Append(s, e)[Len(s) + 1] = e
  OBVIOUS

-----------------------------------------------------------------------------
(* Channels.  What waits in one is in order and newer than what the        *)
(* receiver took last.                                                     *)

Ascending(q, low) ==
    \A i \in DOMAIN q : q[i] > low /\ \A j \in 1 .. i - 1 : q[j] < q[i]
UpTo(q, high) == \A i \in DOMAIN q : q[i] <= high
Below(q, high) == \A i \in DOMAIN q : q[i] < high
LastIs(q, x) == q # <<>> /\ q[Len(q)] = x

(* A send of something newer than all that waits.                          *)
LEMMA SendKeepsOrder ==
    ASSUME NEW q \in Seq(Nat), NEW low \in Nat, NEW x \in Nat,
           Ascending(q, low), Below(q, x), low < x
    PROVE  /\ Append(q, x) \in Seq(Nat) /\ Len(Append(q, x)) = Len(q) + 1
           /\ Ascending(Append(q, x), low)
           /\ UpTo(Append(q, x), x) /\ LastIs(Append(q, x), x)
<1>1. /\ Append(q, x) \in Seq(Nat) /\ Append(q, x) # <<>>
      /\ Len(Append(q, x)) = Len(q) + 1
      /\ \A i \in 1 .. Len(q) : Append(q, x)[i] = q[i]
      /\ Append(q, x)[Len(q) + 1] = x
  BY AppendProperties
<1>2. Len(q) \in Nat /\ DOMAIN q = 1 .. Len(q) /\ \A i \in 1 .. Len(q) : q[i] \in Nat
  BY LenProperties, ElementOfSeq
<1>3. DOMAIN Append(q, x) = 1 .. Len(q) + 1
  BY <1>1, LenProperties
<1>a. \A i \in 1 .. Len(q) :
        /\ Append(q, x)[i] = q[i] /\ q[i] > low /\ q[i] < x
        /\ \A j \in 1 .. i - 1 : Append(q, x)[j] = q[j] /\ q[j] < q[i]
  BY <1>1, <1>2, SMTT(30) DEF Ascending, Below
<1>b. \A i \in 1 .. Len(q) + 1 : i \in 1 .. Len(q) \/ (i = Len(q) + 1 /\ i - 1 = Len(q))
  BY <1>2
<1>4. Ascending(Append(q, x), low)
  BY <1>1, <1>3, <1>a, <1>b DEF Ascending
<1>5. UpTo(Append(q, x), x) /\ LastIs(Append(q, x), x)
  BY <1>1, <1>2, <1>3 DEF Below, UpTo, LastIs
<1>. QED BY <1>1, <1>4, <1>5

(* The oldest is taken or dropped: the rest is newer than it, ...          *)
LEMMA TailKeepsOrder ==
    ASSUME NEW q \in Seq(Nat), NEW low \in Nat, q # <<>>, Ascending(q, low)
    PROVE  /\ Tail(q) \in Seq(Nat) /\ Len(Tail(q)) = Len(q) - 1
           /\ Head(q) \in Nat /\ Head(q) > low
           /\ Ascending(Tail(q), Head(q)) /\ Ascending(Tail(q), low)
<1>1. /\ Tail(q) \in Seq(Nat) /\ Len(Tail(q)) = Len(q) - 1
      /\ \A i \in 1 .. Len(Tail(q)) : Tail(q)[i] = q[i + 1]
      /\ Head(q) \in Nat
  BY HeadTailProperties
<1>2. /\ Len(q) \in Nat \ {0} /\ DOMAIN q = 1 .. Len(q)
      /\ \A i \in 1 .. Len(q) : q[i] \in Nat
  BY LenProperties, ElementOfSeq, EmptySeq
<1>3. DOMAIN Tail(q) = 1 .. Len(q) - 1
  BY <1>1, LenProperties
<1>4. Head(q) = q[1]
  OBVIOUS
<1>5. \A i \in 1 .. Len(q) - 1 :
        /\ Tail(q)[i] = q[i + 1] /\ q[i + 1] > q[1]
        /\ \A j \in 1 .. i - 1 : Tail(q)[j] = q[j + 1] /\ q[j + 1] < q[i + 1]
  BY <1>1, <1>2, SMTT(30) DEF Ascending
<1>6. q[1] > low
  BY <1>2 DEF Ascending
<1>7. Ascending(Tail(q), q[1])
  BY <1>3, <1>5, Zenon DEF Ascending
<1>8. Ascending(Tail(q), low)
  BY <1>2, <1>3, <1>5, <1>6, SMTT(30) DEF Ascending
<1>. QED BY <1>1, <1>4, <1>6, <1>7, <1>8

(* ... keeps the bounds it had, and ends with the item it ended with.      *)
LEMMA TailKeepsBounds ==
    ASSUME NEW q \in Seq(Nat), q # <<>>, NEW high \in Nat
    PROVE  /\ UpTo(q, high) => UpTo(Tail(q), high) /\ Head(q) <= high
           /\ Below(q, high) => Below(Tail(q), high) /\ Head(q) < high
           /\ LastIs(q, high) => Head(q) = high \/ LastIs(Tail(q), high)
<1>1. /\ Tail(q) \in Seq(Nat) /\ Len(Tail(q)) = Len(q) - 1
      /\ \A i \in 1 .. Len(Tail(q)) : Tail(q)[i] = q[i + 1]
  BY HeadTailProperties
<1>2. Len(q) \in Nat \ {0} /\ DOMAIN q = 1 .. Len(q)
  BY LenProperties, EmptySeq
<1>3. DOMAIN Tail(q) = 1 .. Len(q) - 1
  BY <1>1, LenProperties
<1>4. Head(q) = q[1]
  OBVIOUS
<1>5. UpTo(q, high) => UpTo(Tail(q), high) /\ Head(q) <= high
  BY <1>1, <1>2, <1>3, <1>4 DEF UpTo
<1>6. Below(q, high) => Below(Tail(q), high) /\ Head(q) < high
  BY <1>1, <1>2, <1>3, <1>4 DEF Below
<1>7. ASSUME LastIs(q, high), Len(q) > 1 PROVE LastIs(Tail(q), high)
  <2>1. Tail(q)[Len(q) - 1] = q[Len(q)] /\ Len(Tail(q)) # 0
    BY <1>1, <1>2, <1>7
  <2>2. Tail(q) # <<>>
    <3>1. Len(<<>>) = 0
      OBVIOUS
    <3>. QED BY <2>1, <3>1, Zenon
  <2>3. Len(Tail(q)) = Len(q) - 1 /\ q[Len(q)] = high
    BY <1>1, <1>7, Zenon DEF LastIs
  <2>. QED BY <2>1, <2>2, <2>3, Zenon DEF LastIs
<1>8. ASSUME LastIs(q, high), ~(Len(q) > 1) PROVE Head(q) = high
  BY <1>2, <1>4, <1>8 DEF LastIs
<1>. QED BY <1>5, <1>6, <1>7, <1>8

-----------------------------------------------------------------------------
(***************************************************************************)
(* The subscriber.  NewestIsKept speaks of the moments between two cycles; *)
(* the invariant says what carries it through emit: an item on its way is  *)
(* newer than all that waits and than what was taken, so whichever of the  *)
(* two selects the consumer gets between, what is dropped is older.        *)
(***************************************************************************)

Emitting == at \in {"send", "drop"}

SubscriberInv ==
    /\ out \in Seq(Nat)
    /\ item \in Nat /\ left \in Nat /\ taken \in Nat
    /\ at \in {"first", "select", "done", "send", "drop"}
    /\ Ascending(out, taken)
    /\ Emitting => Below(out, item) /\ taken < item
    /\ UpTo(out, item) /\ taken <= item
    /\ at = "select" /\ ~cancelled /\ item > 0 => taken = item \/ LastIs(out, item)

(* An empty channel, nothing emitted.                                      *)
LEMMA SubscriberStarts == SubscriberInit => SubscriberInv
<1>. SUFFICES ASSUME SubscriberInit PROVE SubscriberInv
  OBVIOUS
<1>1. out = <<>> /\ DOMAIN out = {} /\ out \in Seq(Nat)
  BY DEF SubscriberInit
<1>. QED BY <1>1 DEF SubscriberInit, SubscriberInv, Ascending, UpTo, Emitting

(* A new item is newer than everything before it (pollOnce, and the next   *)
(* item of a cycle).                                                       *)
LEMMA NewItemIsNewer ==
    ASSUME NEW q \in Seq(Nat), NEW n \in Nat, UpTo(q, n)
    PROVE  Below(q, n + 1) /\ UpTo(q, n + 1)
<1>1. \A i \in DOMAIN q : q[i] \in Nat
  BY LenProperties, ElementOfSeq
<1>. QED BY <1>1 DEF UpTo, Below

(* Every step of emit, of Run and of the consumer keeps the invariant.     *)
LEMMA SubscriberKeeps == SubscriberInv /\ [SubscriberNext]_subscriberVars => SubscriberInv'
<1>. SUFFICES ASSUME SubscriberInv, [SubscriberNext]_subscriberVars PROVE SubscriberInv'
  OBVIOUS
<1>a. /\ out \in Seq(Nat) /\ item \in Nat /\ left \in Nat /\ taken \in Nat
      /\ at \in {"first", "select", "done", "send", "drop"}
      /\ Ascending(out, taken) /\ UpTo(out, item) /\ taken <= item
      /\ Emitting => Below(out, item) /\ taken < item
      /\ at = "select" /\ ~cancelled /\ item > 0 => taken = item \/ LastIs(out, item)
  BY DEF SubscriberInv
<1>b. Below(out, item + 1) /\ UpTo(out, item + 1)
  BY <1>a, NewItemIsNewer
<1>1. CASE pollOnce
  <2>1. /\ item' = item + 1 /\ at' = "send" /\ out' = out /\ taken' = taken
        /\ left' \in Nat
    BY <1>1, SubscriberConstants DEF pollOnce
  <2>. QED BY <1>a, <1>b, <2>1 DEF SubscriberInv, Emitting
<1>2. CASE RunReturns
  BY <1>a, <1>2 DEF RunReturns, SubscriberInv, Emitting
<1>3. CASE SendItem
  <2>1. out' = Append(out, item) /\ taken' = taken /\ cancelled' = cancelled /\ NextItem
    BY <1>3 DEF SendItem
  <2>2. Below(out, item) /\ taken < item
    BY <1>a, <1>3 DEF SendItem, Emitting
  <2>3. /\ out' \in Seq(Nat) /\ Ascending(out', taken') /\ taken' < item
        /\ UpTo(out', item) /\ LastIs(out', item)
    BY <1>a, <2>1, <2>2, SendKeepsOrder
  <2>4. Below(out', item + 1) /\ UpTo(out', item + 1)
    BY <1>a, <2>3, NewItemIsNewer
  <2>5. CASE left > 0 /\ ~cancelled /\ item < MaxItems
    BY <1>a, <2>1, <2>3, <2>4, <2>5 DEF NextItem, SubscriberInv, Emitting
  <2>6. CASE ~(left > 0 /\ ~cancelled /\ item < MaxItems)
    BY <1>a, <2>1, <2>3, <2>6 DEF NextItem, SubscriberInv, Emitting
  <2>. QED BY <2>5, <2>6
<1>4. CASE EmitCancelled
  BY <1>a, <1>4 DEF EmitCancelled, SubscriberInv, Emitting
<1>5. CASE SendFull
  BY <1>a, <1>5 DEF SendFull, SubscriberInv, Emitting
<1>6. CASE Drop
  <2>1. /\ at = "drop" /\ at' = "send" /\ item' = item /\ left' = left /\ taken' = taken
        /\ out' = IF out = <<>> THEN out ELSE Tail(out)
    BY <1>6 DEF Drop
  <2>2. out' \in Seq(Nat) /\ Ascending(out', taken) /\ UpTo(out', item) /\ Below(out', item)
    <3>1. CASE out = <<>>
      BY <1>a, <2>1, <3>1 DEF Emitting
    <3>2. CASE out # <<>>
      BY <1>a, <2>1, <3>2, TailKeepsOrder, TailKeepsBounds DEF Emitting
    <3>. QED BY <3>1, <3>2
  <2>. QED BY <1>a, <2>1, <2>2 DEF SubscriberInv, Emitting
<1>7. CASE Consume
  <2>1. /\ out # <<>> /\ out' = Tail(out) /\ taken' = Head(out) /\ at' = at /\ item' = item
        /\ left' = left /\ cancelled' = cancelled
    BY <1>7 DEF Consume
  <2>2. out' \in Seq(Nat) /\ taken' \in Nat /\ Ascending(out', taken')
    BY <1>a, <2>1, TailKeepsOrder
  <2>3. /\ UpTo(out', item) /\ taken' <= item
        /\ Below(out, item) => Below(out', item) /\ taken' < item
        /\ LastIs(out, item) => taken' = item \/ LastIs(out', item)
    BY <1>a, <2>1, TailKeepsBounds
  <2>4. taken = item => taken' = item
    BY <1>a, <2>1, <2>2, <2>3, TailKeepsOrder
  <2>. QED BY <1>a, <2>1, <2>2, <2>3, <2>4 DEF SubscriberInv, Emitting
<1>8. CASE CancelRun
  BY <1>a, <1>8 DEF CancelRun, SubscriberInv, Emitting
<1>9. CASE UNCHANGED subscriberVars
  BY <1>a, <1>9 DEF subscriberVars, SubscriberInv, Emitting
<1>. QED BY <1>1, <1>2, <1>3, <1>4, <1>5, <1>6, <1>7, <1>8, <1>9
         DEF SubscriberNext, EmitStep

(***************************************************************************)
(* Whatever the buffer, the cycle length and the consumer's speed: emit    *)
(* never drops the newest item, and the consumer gets items in order.      *)
(***************************************************************************)
THEOREM SubscriberKeepsNewest == SubscriberSpec => []NewestIsKept
<1>1. SubscriberInv => NewestIsKept
  BY DEF SubscriberInv, NewestIsKept, Ascending, LastIs
<1>. QED BY SubscriberStarts, SubscriberKeeps, <1>1, PTL DEF SubscriberSpec

-----------------------------------------------------------------------------
(***************************************************************************)
(* The scheduler.  Between two polls every open subscription has its       *)
(* newest batch; during one, those still to be published to do not.  The   *)
(* third attempt finds room, which only the drop before it shows: a full   *)
(* channel there would lose the newest batch.  The lock is in Members:     *)
(* what PollOnce ranges over are open subscriptions of the device.         *)
(***************************************************************************)

(* s is still to get the batch that is being published.                    *)
Pending(s) == phase = "publish" /\ dev = AddrOf[s] /\ (s \in rest \/ s = sub)

SchedulerTypeOK ==
    /\ devices \in SUBSET Addresses /\ todo \in SUBSET Addresses
    /\ subscribers \in [Addresses -> SUBSET Subs]
    /\ chan \in [Subs -> Seq(Nat)]
    /\ chState \in [Subs -> {"none", "open", "closed"}]
    /\ phase \in {"idle", "range", "publish"}
    /\ dev \in Addresses \cup {None}
    /\ rest \in SUBSET Subs /\ sub \in Subs \cup {None}
    /\ attempt \in 0 .. 3
    /\ polls \in [Addresses -> Nat]
    /\ got \in [Subs -> Nat] /\ joined \in [Subs -> Nat]

Members ==
    /\ \A s \in Subs : \A a \in Addresses :
          s \in subscribers[a] <=> AddrOf[s] = a /\ chState[s] = "open"
    /\ sub = None <=> attempt = 0
    /\ phase # "publish" => rest = {} /\ sub = None
    /\ phase = "publish" => /\ dev \in Addresses
                            /\ rest \in SUBSET subscribers[dev]
                            /\ sub # None => sub \in subscribers[dev] \ rest

Room(s) ==
    /\ Len(chan[s]) <= Buffer
    /\ attempt = 3 /\ s = sub => Len(chan[s]) < Buffer

Ordered(s) ==
    /\ Ascending(chan[s], got[s])
    /\ UpTo(chan[s], polls[AddrOf[s]]) /\ got[s] <= polls[AddrOf[s]]
    /\ Pending(s) => Below(chan[s], polls[AddrOf[s]]) /\ got[s] < polls[AddrOf[s]]

HasNewest(s) ==
    chState[s] = "open" /\ polls[AddrOf[s]] > joined[s] /\ ~Pending(s) =>
        got[s] = polls[AddrOf[s]] \/ LastIs(chan[s], polls[AddrOf[s]])

SchedulerInv ==
    /\ SchedulerTypeOK /\ Members
    /\ \A s \in Subs : Room(s) /\ Ordered(s) /\ HasNewest(s)

(* No subscription, no batch.                                              *)
LEMMA SchedulerStarts == SchedulerInit => SchedulerInv
<1>. SUFFICES ASSUME SchedulerInit PROVE SchedulerInv
  OBVIOUS
<1>1. SchedulerTypeOK /\ Members
  BY SchedulerConstants DEF SchedulerInit, SchedulerTypeOK, Members
<1>2. ASSUME NEW s \in Subs PROVE Room(s) /\ Ordered(s) /\ HasNewest(s)
  <2>1. chan[s] = <<>> /\ got[s] = 0 /\ polls[AddrOf[s]] = 0 /\ chState[s] = "none"
    BY SchedulerConstants DEF SchedulerInit
  <2>2. DOMAIN chan[s] = {} /\ Len(chan[s]) = 0
    BY <2>1
  <2>3. Ascending(chan[s], got[s]) /\ UpTo(chan[s], polls[AddrOf[s]])
    BY <2>2 DEF Ascending, UpTo
  <2>4. ~Pending(s)
    BY DEF SchedulerInit, Pending
  <2>5. attempt = 0
    BY DEF SchedulerInit
  <2>. QED BY <2>1, <2>2, <2>3, <2>4, <2>5, SchedulerConstants DEF Room, Ordered, HasNewest
<1>. QED BY <1>1, <1>2 DEF SchedulerInv

(* A subscription that a step does not concern is as well off after it.    *)
LEMMA Bystander ==
    ASSUME NEW s \in Subs, Ordered(s), HasNewest(s),
           chan'[s] = chan[s], got'[s] = got[s], polls'[AddrOf[s]] = polls[AddrOf[s]],
           chState'[s] = chState[s], joined'[s] = joined[s], Pending(s)' <=> Pending(s)
    PROVE  Ordered(s)' /\ HasNewest(s)'
  BY DEF Ordered, HasNewest

(* The callers, who have the lock: none is being published to.             *)
LEMMA CallersKeep ==
    ASSUME SchedulerInv,
           \/ \E a \in Addresses : EnqueueFront(a)
           \/ \E s \in Subs : Subscribe(s) \/ Cancel(s)
    PROVE  SchedulerInv'
<1>a. SchedulerTypeOK /\ Members /\ \A s \in Subs : Room(s) /\ Ordered(s) /\ HasNewest(s)
  BY DEF SchedulerInv
<1>b. /\ phase = "idle" /\ phase' = "idle" /\ UNCHANGED pollVars /\ UNCHANGED <<chan, got>>
  BY DEF EnqueueFront, Subscribe, Cancel, Unlocked, pollVars
<1>c. \A s \in Subs : ~Pending(s) /\ ~Pending(s)' /\ Room(s)'
  BY <1>a, <1>b DEF Pending, Room, pollVars
<1>d. SchedulerTypeOK' /\ Members'
  <2>1. CASE \E a \in Addresses : EnqueueFront(a)
    BY <1>a, <1>b, <2>1 DEF EnqueueFront, SchedulerTypeOK, Members, pollVars
  <2>2. ASSUME NEW s \in Subs, Subscribe(s) PROVE SchedulerTypeOK' /\ Members'
    <3>1. AddrOf[s] \in Addresses
      BY SchedulerConstants
    <3>2. SchedulerTypeOK'
      BY <1>a, <1>b, <2>2, <3>1 DEF Subscribe, SchedulerTypeOK, pollVars
    <3>3. Members'
      BY <1>a, <1>b, <2>2, <3>1 DEF Subscribe, SchedulerTypeOK, Members, pollVars
    <3>. QED BY <3>2, <3>3
  <2>3. ASSUME NEW s \in Subs, Cancel(s) PROVE SchedulerTypeOK' /\ Members'
    <3>1. AddrOf[s] \in Addresses
      BY SchedulerConstants
    <3>2. SchedulerTypeOK'
      BY <1>a, <1>b, <2>3, <3>1 DEF Cancel, SchedulerTypeOK, pollVars
    <3>3. Members'
      BY <1>a, <1>b, <2>3, <3>1 DEF Cancel, SchedulerTypeOK, Members, pollVars
    <3>. QED BY <3>2, <3>3
  <2>. QED BY <2>1, <2>2, <2>3
<1>e. ASSUME NEW r \in Subs PROVE Ordered(r)' /\ HasNewest(r)'
  <2>1. CASE chState'[r] = chState[r] /\ joined'[r] = joined[r]
    BY <1>a, <1>b, <1>c, <2>1, Bystander DEF pollVars
  <2>2. Ordered(r)'
    BY <1>a, <1>b, <1>c DEF Ordered, pollVars
  <2>3. CASE Subscribe(r)
    <3>1. joined'[r] = polls[AddrOf[r]] /\ polls' = polls /\ polls[AddrOf[r]] \in Nat
      BY <1>a, <1>b, <2>3, SchedulerConstants, Zenon DEF Subscribe, SchedulerTypeOK, pollVars
    <3>. QED BY <2>2, <3>1 DEF HasNewest
  <2>4. CASE Cancel(r)
    BY <1>a, <2>2, <2>4 DEF Cancel, HasNewest, SchedulerTypeOK
  <2>5. ASSUME NEW s \in Subs, Subscribe(s) \/ Cancel(s), s # r
        PROVE  chState'[r] = chState[r] /\ joined'[r] = joined[r]
    BY <1>a, <2>5 DEF Subscribe, Cancel, SchedulerTypeOK
  <2>6. ASSUME NEW a \in Addresses, EnqueueFront(a)
        PROVE  chState'[r] = chState[r] /\ joined'[r] = joined[r]
    BY <2>6 DEF EnqueueFront
  <2>. QED BY <2>1, <2>3, <2>4, <2>5, <2>6
<1>. QED BY <1>c, <1>d, <1>e DEF SchedulerInv

(* The receiver takes the oldest batch, at any moment.                     *)
LEMMA ReceiveBatchKeeps ==
    ASSUME SchedulerInv, NEW s \in Subs, ReceiveBatch(s) PROVE SchedulerInv'
<1>a. SchedulerTypeOK /\ Members /\ \A r \in Subs : Room(r) /\ Ordered(r) /\ HasNewest(r)
  BY DEF SchedulerInv
<1>b. /\ UNCHANGED <<devices, subscribers, chState, joined>> /\ UNCHANGED pollVars
      /\ chan[s] # <<>> /\ chan[s] \in Seq(Nat) /\ got[s] \in Nat
      /\ polls[AddrOf[s]] \in Nat
      /\ got' = [got EXCEPT ![s] = Head(chan[s])]
      /\ chan' = [chan EXCEPT ![s] = Tail(chan[s])]
  BY <1>a, SchedulerConstants DEF ReceiveBatch, SchedulerTypeOK
<1>c. chan'[s] = Tail(chan[s]) /\ got'[s] = Head(chan[s])
  BY <1>a, <1>b, Zenon DEF SchedulerTypeOK
<1>d. /\ chan'[s] \in Seq(Nat) /\ Len(chan'[s]) = Len(chan[s]) - 1 /\ got'[s] \in Nat
      /\ got'[s] > got[s] /\ Ascending(chan'[s], got'[s])
  BY <1>a, <1>b, <1>c, TailKeepsOrder, Zenon DEF Ordered
<1>e. /\ UpTo(chan'[s], polls[AddrOf[s]]) /\ got'[s] <= polls[AddrOf[s]]
      /\ Below(chan[s], polls[AddrOf[s]]) =>
            Below(chan'[s], polls[AddrOf[s]]) /\ got'[s] < polls[AddrOf[s]]
      /\ LastIs(chan[s], polls[AddrOf[s]]) =>
            got'[s] = polls[AddrOf[s]] \/ LastIs(chan'[s], polls[AddrOf[s]])
  BY <1>a, <1>b, <1>c, TailKeepsBounds, Zenon DEF Ordered
<1>f. got[s] # polls[AddrOf[s]]
  BY <1>b, <1>d, <1>e
<1>1. SchedulerTypeOK' /\ Members'
  BY <1>a, <1>b, <1>c, <1>d, Zenon DEF SchedulerTypeOK, Members, pollVars
<1>2. \A r \in Subs : Pending(r)' <=> Pending(r)
  BY <1>b DEF Pending, pollVars
<1>3. Room(s)'
  <2>1. Len(chan[s]) \in Nat
    BY <1>b, LenProperties, Zenon
  <2>2. /\ Len(chan[s]) <= Buffer /\ (attempt = 3 /\ s = sub => Len(chan[s]) < Buffer)
        /\ attempt' = attempt /\ sub' = sub
    BY <1>a, <1>b, Zenon DEF Room, pollVars
  <2>. QED BY <1>d, <2>1, <2>2, SchedulerConstants DEF Room
<1>4. Ordered(s)' /\ HasNewest(s)'
  BY <1>a, <1>b, <1>2, <1>d, <1>e, <1>f, Zenon DEF Ordered, HasNewest, pollVars
<1>5. ASSUME NEW r \in Subs, r # s PROVE Room(r)' /\ Ordered(r)' /\ HasNewest(r)'
  <2>1. chan'[r] = chan[r] /\ got'[r] = got[r]
    BY <1>a, <1>b, <1>5 DEF SchedulerTypeOK
  <2>2. Room(r)'
    BY <1>a, <1>b, <2>1, Zenon DEF Room, pollVars
  <2>. QED BY <1>a, <1>b, <1>2, <2>1, <2>2, Bystander, Zenon DEF pollVars
<1>. QED BY <1>1, <1>3, <1>4, <1>5 DEF SchedulerInv

(* PollOnce takes the lock, goes from one device to the next and from one  *)
(* subscriber to the next, and gives the lock back: no channel changes.    *)
LEMMA RangingKeeps ==
    ASSUME SchedulerInv,
           PollOnce \/ PollOnceReturns \/ Published \/ \E s \in Subs : Publish(s)
    PROVE  SchedulerInv'
<1>a. SchedulerTypeOK /\ Members /\ \A r \in Subs : Room(r) /\ Ordered(r) /\ HasNewest(r)
  BY DEF SchedulerInv
<1>b. UNCHANGED <<devices, subscribers, chan, chState, polls, got, joined>>
  BY DEF PollOnce, PollOnceReturns, Published, Publish
<1>1. CASE PollOnce \/ PollOnceReturns \/ Published
  <2>1. /\ SchedulerTypeOK' /\ Members' /\ attempt' = attempt /\ sub' = sub
    <3>1. /\ UNCHANGED <<rest, sub, attempt>> /\ todo' \in SUBSET Addresses
          /\ dev' \in {dev, None} /\ phase' \in {"idle", "range"}
          /\ rest = {} /\ sub = None
      BY <1>a, <1>1 DEF PollOnce, PollOnceReturns, Published, SchedulerTypeOK, Members, Unlocked
    <3>2. SchedulerTypeOK'
      BY <1>a, <1>b, <3>1 DEF SchedulerTypeOK
    <3>3. Members'
      BY <1>a, <1>b, <3>1 DEF Members
    <3>. QED BY <3>1, <3>2, <3>3, Zenon
  <2>2. \A r \in Subs : ~Pending(r) /\ ~Pending(r)'
    BY <1>1, SchedulerConstants, Zenon DEF PollOnce, PollOnceReturns, Published, Pending, Unlocked
  <2>3. ASSUME NEW r \in Subs PROVE Room(r)' /\ Ordered(r)' /\ HasNewest(r)'
    <3>1. Room(r)'
      BY <1>a, <1>b, <2>1 DEF Room
    <3>. QED BY <1>a, <1>b, <2>2, <3>1, Bystander
  <2>. QED BY <2>1, <2>3 DEF SchedulerInv
<1>2. ASSUME NEW s \in Subs, Publish(s) PROVE SchedulerInv'
  <2>1. /\ phase = "publish" /\ phase' = phase /\ dev' = dev /\ todo' = todo /\ sub = None
        /\ sub' = s /\ attempt' = 1 /\ s \in rest /\ rest' = rest \ {s}
    BY <1>2 DEF Publish
  <2>2. SchedulerTypeOK'
    BY <1>a, <1>b, <2>1 DEF SchedulerTypeOK
  <2>3. Members'
    BY <1>a, <1>b, <2>1, SchedulerConstants DEF SchedulerTypeOK, Members
  <2>4. \A r \in Subs : Pending(r)' <=> Pending(r)
    BY <2>1, SchedulerConstants DEF Pending
  <2>5. ASSUME NEW r \in Subs PROVE Room(r)' /\ Ordered(r)' /\ HasNewest(r)'
    <3>1. Room(r)'
      BY <1>a, <1>b, <2>1 DEF Room
    <3>. QED BY <1>a, <1>b, <2>4, <3>1, Bystander, Zenon
  <2>. QED BY <2>2, <2>3, <2>5 DEF SchedulerInv
<1>. QED BY <1>1, <1>2

(* A poll makes a batch that every open subscription of the device is      *)
(* still to get, and that is newer than all they have.                     *)
LEMMA PollKeeps ==
    ASSUME SchedulerInv, NEW a \in Addresses, Poll(a) PROVE SchedulerInv'
<1>a. SchedulerTypeOK /\ Members /\ \A r \in Subs : Room(r) /\ Ordered(r) /\ HasNewest(r)
  BY DEF SchedulerInv
<1>b. /\ UNCHANGED <<devices, subscribers, chan, chState, sub, attempt, got, joined>>
      /\ phase = "range" /\ phase' = "publish" /\ dev' = a /\ rest' = subscribers[a]
      /\ polls' = [polls EXCEPT ![a] = @ + 1] /\ todo' = todo \ {a}
  BY Zenon DEF Poll
<1>c. sub = None /\ attempt = 0
  BY <1>a, <1>b DEF Members
<1>1. SchedulerTypeOK'
  BY <1>a, <1>b DEF SchedulerTypeOK
<1>2. Members'
  BY <1>a, <1>b, <1>c DEF Members
<1>3. ASSUME NEW r \in Subs PROVE Room(r)' /\ Ordered(r)' /\ HasNewest(r)'
  <2>1. Room(r)'
    BY <1>a, <1>b DEF Room
  <2>2. ~Pending(r) /\ AddrOf[r] \in Addresses
    BY <1>b, SchedulerConstants DEF Pending
  <2>3. CASE AddrOf[r] # a
    <3>1. polls'[AddrOf[r]] = polls[AddrOf[r]] /\ ~Pending(r)'
      BY <1>a, <1>b, <2>2, <2>3, Zenon DEF SchedulerTypeOK, Pending
    <3>. QED BY <1>a, <1>b, <2>1, <2>2, <3>1, Bystander
  <2>4. CASE AddrOf[r] = a
    <3>1. polls'[a] = polls[a] + 1 /\ polls[a] \in Nat /\ chan[r] \in Seq(Nat) /\ got[r] \in Nat
      BY <1>a, <1>b, Zenon DEF SchedulerTypeOK
    <3>2. Below(chan[r], polls[a] + 1) /\ UpTo(chan[r], polls[a] + 1) /\ got[r] < polls[a] + 1
      <4>1. UpTo(chan[r], polls[a]) /\ got[r] <= polls[a]
        BY <1>a, <2>4, Zenon DEF Ordered
      <4>. QED BY <3>1, <4>1, NewItemIsNewer
    <3>3. Ordered(r)'
      <4>1. chan'[r] = chan[r] /\ got'[r] = got[r] /\ polls'[AddrOf[r]] = polls[a] + 1
        BY <1>b, <2>4, <3>1
      <4>2. got[r] <= polls[a] + 1
        BY <3>1, <3>2
      <4>3. Ascending(chan[r], got[r])
        BY <1>a, Zenon DEF Ordered
      <4>. QED BY <3>2, <4>1, <4>2, <4>3, Zenon DEF Ordered
    <3>4. chState'[r] = "open" => Pending(r)'
      BY <1>a, <1>b, <2>4, Zenon DEF Members, Pending
    <3>. QED BY <2>1, <3>3, <3>4 DEF HasNewest
  <2>. QED BY <2>3, <2>4
<1>. QED BY <1>1, <1>2, <1>3 DEF SchedulerInv

(* The subscriber being published to, and what publishReadoutBatch may     *)
(* rely on of its channel.                                                 *)
LEMMA PublishingTo ==
    ASSUME SchedulerInv, attempt # 0
    PROVE  /\ phase = "publish" /\ sub \in Subs /\ dev = AddrOf[sub] /\ Pending(sub)
           /\ chState[sub] = "open" /\ sub \notin rest /\ sub \in subscribers[dev]
           /\ chan[sub] \in Seq(Nat) /\ Len(chan[sub]) \in Nat /\ Len(chan[sub]) <= Buffer
           /\ got[sub] \in Nat /\ polls[dev] \in Nat
           /\ Ascending(chan[sub], got[sub]) /\ UpTo(chan[sub], polls[dev])
           /\ Below(chan[sub], polls[dev]) /\ got[sub] < polls[dev]
<1>a. SchedulerTypeOK /\ Members /\ \A r \in Subs : Room(r) /\ Ordered(r)
  BY DEF SchedulerInv
<1>1. sub \in Subs /\ phase = "publish"
  BY <1>a DEF SchedulerTypeOK, Members
<1>2. dev \in Addresses /\ sub \in subscribers[dev] /\ sub \notin rest
  BY <1>a, <1>1, SchedulerConstants DEF Members
<1>3. dev = AddrOf[sub] /\ chState[sub] = "open"
  BY <1>a, <1>1, <1>2 DEF Members
<1>4. Pending(sub)
  BY <1>1, <1>3 DEF Pending
<1>5. /\ chan[sub] \in Seq(Nat) /\ Len(chan[sub]) \in Nat /\ got[sub] \in Nat
      /\ polls[dev] \in Nat
  BY <1>a, <1>1, <1>2, LenProperties DEF SchedulerTypeOK
<1>. QED BY <1>a, <1>1, <1>2, <1>3, <1>4, <1>5 DEF Room, Ordered

(* A drop makes room and takes the oldest; the batch is still to come.     *)
LEMMA DropOldestKeeps == ASSUME SchedulerInv, DropOldest PROVE SchedulerInv'
<1>a. SchedulerTypeOK /\ Members /\ \A r \in Subs : Room(r) /\ Ordered(r) /\ HasNewest(r)
  BY DEF SchedulerInv
<1>b. /\ UNCHANGED <<devices, subscribers, chState, phase, todo, dev, rest, sub, polls,
                     got, joined>>
      /\ attempt = 2 /\ attempt' = 3
      /\ chan' = [chan EXCEPT ![sub] = IF @ = <<>> THEN @ ELSE Tail(@)]
  BY DEF DropOldest
<1>c. PICK q \in Seq(Nat) : q = chan[sub]
  BY <1>b, PublishingTo
<1>d. PICK r \in Seq(Nat) : r = IF q = <<>> THEN q ELSE Tail(q)
  BY <1>c, HeadTailProperties, Zenon
<1>e. PICK t \in Subs : t = sub
  BY <1>b, PublishingTo
<1>g. /\ dev = AddrOf[t] /\ Pending(t) /\ got[t] \in Nat /\ polls[dev] \in Nat
      /\ got[t] < polls[dev] /\ q = chan[t]
  BY <1>b, <1>c, <1>e, PublishingTo
<1>f. chan' = [chan EXCEPT ![t] = r] /\ chan'[t] = r
  BY <1>a, <1>b, <1>c, <1>d, <1>e DEF SchedulerTypeOK
<1>1. /\ Ascending(r, got[t]) /\ UpTo(r, polls[dev]) /\ Below(r, polls[dev])
      /\ Len(r) < Buffer
  <2>1. CASE q = <<>>
    BY <1>b, <1>c, <1>d, <1>e, <2>1, PublishingTo, SchedulerConstants
  <2>2. CASE q # <<>>
    <3>1. Ascending(r, got[t]) /\ Len(r) = Len(q) - 1
      BY <1>b, <1>c, <1>d, <1>e, <1>g, <2>2, PublishingTo, TailKeepsOrder
    <3>2. UpTo(r, polls[dev]) /\ Below(r, polls[dev])
      BY <1>b, <1>c, <1>d, <1>g, <2>2, PublishingTo, TailKeepsBounds
    <3>3. Len(q) \in Nat /\ Len(q) <= Buffer
      BY <1>b, <1>c, PublishingTo
    <3>. QED BY <3>1, <3>2, <3>3, SchedulerConstants
  <2>. QED BY <2>1, <2>2
<1>2. SchedulerTypeOK' /\ Members'
  <2>1. SchedulerTypeOK'
    BY <1>a, <1>b, <1>d, <1>e, <1>f DEF SchedulerTypeOK
  <2>. QED BY <1>a, <1>b, <2>1 DEF Members
<1>3. \A s \in Subs : Pending(s)' <=> Pending(s)
  BY <1>b DEF Pending
<1>4. Room(t)' /\ Ordered(t)' /\ HasNewest(t)'
  <2>1. Len(r) \in Nat
    BY LenProperties
  <2>2. Room(t)'
    BY <1>f, <1>1, <2>1, SchedulerConstants DEF Room
  <2>3. polls'[AddrOf[t]] = polls[dev] /\ got'[t] = got[t]
    BY <1>b, <1>g, Zenon
  <2>4. Ordered(t)'
    BY <1>f, <1>g, <1>1, <2>3 DEF Ordered
  <2>. QED BY <1>g, <1>3, <2>2, <2>4 DEF HasNewest
<1>5. ASSUME NEW s \in Subs, s # t PROVE Room(s)' /\ Ordered(s)' /\ HasNewest(s)'
  <2>1. chan'[s] = chan[s]
    BY <1>a, <1>f, <1>5 DEF SchedulerTypeOK
  <2>2. Room(s)'
    BY <1>a, <1>b, <1>e, <1>5, <2>1 DEF Room
  <2>. QED BY <1>a, <1>b, <1>3, <2>1, <2>2, Bystander
<1>. QED BY <1>2, <1>4, <1>5 DEF SchedulerInv

(* A send puts the batch last; when the channel is full the first attempt  *)
(* goes on to the drop, and the last attempt does not happen.              *)
LEMMA TrySendKeeps == ASSUME SchedulerInv, TrySend PROVE SchedulerInv'
<1>a. SchedulerTypeOK /\ Members /\ \A r \in Subs : Room(r) /\ Ordered(r) /\ HasNewest(r)
  BY DEF SchedulerInv
<1>b. /\ UNCHANGED <<devices, subscribers, chState, phase, todo, dev, rest, polls, got, joined>>
      /\ attempt \in {1, 3}
  BY DEF TrySend
<1>c. PICK t \in Subs : t = sub
  BY <1>b, PublishingTo
<1>d. /\ phase = "publish" /\ dev = AddrOf[t] /\ Pending(t) /\ got[t] \in Nat
      /\ polls[dev] \in Nat /\ got[t] < polls[dev] /\ chan[t] \in Seq(Nat)
      /\ Len(chan[t]) \in Nat /\ Below(chan[t], polls[dev]) /\ Ascending(chan[t], got[t])
      /\ t \notin rest
  BY <1>b, <1>c, PublishingTo
<1>1. CASE Len(chan[t]) < Buffer
  <2>1. /\ chan' = [chan EXCEPT ![t] = Append(chan[t], polls[dev])]
        /\ sub' = None /\ attempt' = 0
    BY <1>c, <1>1 DEF TrySend
  <2>2. PICK r \in Seq(Nat) : r = Append(chan[t], polls[dev])
    BY <1>d, AppendProperties, Zenon
  <2>3. chan' = [chan EXCEPT ![t] = r] /\ chan'[t] = r
    BY <1>a, <2>1, <2>2 DEF SchedulerTypeOK
  <2>4. /\ Len(r) = Len(chan[t]) + 1 /\ Ascending(r, got[t])
        /\ UpTo(r, polls[dev]) /\ LastIs(r, polls[dev])
    BY <1>d, <2>2, SendKeepsOrder
  <2>5. SchedulerTypeOK'
    BY <1>a, <1>b, <2>1, <2>3 DEF SchedulerTypeOK
  <2>6. Members'
    BY <1>a, <1>b, <2>1 DEF Members
  <2>7. ~Pending(t)' /\ \A s \in Subs : s # t => (Pending(s)' <=> Pending(s))
    BY <1>b, <1>c, <1>d, <2>1, SchedulerConstants, Zenon DEF Pending
  <2>8. Room(t)' /\ Ordered(t)' /\ HasNewest(t)'
    <3>1. Room(t)'
      BY <1>1, <1>d, <2>1, <2>3, <2>4, SchedulerConstants DEF Room
    <3>2. got[t] <= polls[dev]
      BY <1>d
    <3>3. got'[t] = got[t] /\ polls'[AddrOf[t]] = polls[dev]
      BY <1>b, <1>d
    <3>. QED BY <2>3, <2>4, <2>7, <3>1, <3>2, <3>3, Zenon DEF Ordered, HasNewest
  <2>9. ASSUME NEW s \in Subs, s # t PROVE Room(s)' /\ Ordered(s)' /\ HasNewest(s)'
    <3>1. chan'[s] = chan[s]
      BY <1>a, <2>3, <2>9, Zenon DEF SchedulerTypeOK
    <3>2. Room(s)'
      <4>1. attempt' = 0 /\ Room(s)
        BY <1>a, <2>1
      <4>. QED BY <3>1, <4>1 DEF Room
    <3>3. Pending(s)' <=> Pending(s)
      BY <2>7, <2>9
    <3>. QED BY <1>a, <1>b, <3>3, <3>1, <3>2, Bystander, Zenon
  <2>. QED BY <2>5, <2>6, <2>8, <2>9 DEF SchedulerInv
<1>2. CASE ~(Len(chan[t]) < Buffer)
  <2>1. attempt = 1
    BY <1>a, <1>b, <1>c, <1>2 DEF Room
  <2>2. chan' = chan /\ sub' = sub /\ attempt' = 2
    BY <1>c, <1>2, <2>1 DEF TrySend
  <2>3. SchedulerTypeOK'
    BY <1>a, <1>b, <2>2 DEF SchedulerTypeOK
  <2>4. Members'
    BY <1>a, <1>b, <2>1, <2>2 DEF Members
  <2>5. ASSUME NEW s \in Subs PROVE Room(s)' /\ Ordered(s)' /\ HasNewest(s)'
    <3>1. Room(s)' /\ (Pending(s)' <=> Pending(s))
      BY <1>a, <1>b, <2>2 DEF Room, Pending
    <3>. QED BY <1>a, <1>b, <2>2, <3>1, Bystander, Zenon
  <2>. QED BY <2>3, <2>4, <2>5 DEF SchedulerInv
<1>. QED BY <1>1, <1>2

(***************************************************************************)
(* Whatever the subscriptions, the buffer and the order of the receivers'  *)
(* steps: between two polls every open subscription has the newest batch   *)
(* of its device, gets batches in order, and the poller never sends on a   *)
(* channel that cancel has closed.                                         *)
(***************************************************************************)
THEOREM SchedulerKeepsNewest == SchedulerSpec => []NewestBatchIsKept
<1>1. SchedulerInv /\ [SchedulerNext]_schedulerVars => SchedulerInv'
  <2>. SUFFICES ASSUME SchedulerInv, [SchedulerNext]_schedulerVars PROVE SchedulerInv'
    OBVIOUS
  <2>1. CASE UNCHANGED schedulerVars
    <3>1. SchedulerTypeOK' /\ Members'
      BY <2>1 DEF SchedulerInv, SchedulerTypeOK, Members, schedulerVars
    <3>2. ASSUME NEW s \in Subs PROVE Room(s)' /\ Ordered(s)' /\ HasNewest(s)'
      BY <2>1, Zenon DEF SchedulerInv, Room, Ordered, HasNewest, Pending, schedulerVars
    <3>. QED BY <3>1, <3>2, Zenon DEF SchedulerInv
  <2>. QED BY <2>1, CallersKeep, ReceiveBatchKeeps, RangingKeeps, PollKeeps, TrySendKeeps,
              DropOldestKeeps DEF SchedulerNext, PollerStep
<1>2. SchedulerInv => NewestBatchIsKept
  <2>. SUFFICES ASSUME SchedulerInv PROVE NewestBatchIsKept
    BY Zenon
  <2>1. sub # None => chState[sub] = "open"
    BY PublishingTo DEF SchedulerInv, Members
  <2>2. phase = "idle" => \A s \in Subs : ~Pending(s)
    BY DEF Pending
  <2>. QED BY <2>1, <2>2, Zenon DEF SchedulerInv, HasNewest, Ordered, Ascending, LastIs,
                                    NewestBatchIsKept
<1>. QED BY SchedulerStarts, <1>1, <1>2, PTL DEF SchedulerSpec

-----------------------------------------------------------------------------
(***************************************************************************)
(* All connections of a host talk to one device through address 0, for any *)
(* number of connections and hosts and any route order.  The argument is   *)
(* the count of references: a host's lease counts exactly its open         *)
(* connections, so it is kept while there is one and all have its address. *)
(* (What it needs of finite sets is taken in only here: with it the proofs *)
(* above would be slower.)                                                 *)
(***************************************************************************)
INSTANCE FiniteSetTheorems

OpenFrom(h) == {c \in Conns : conn[c].open /\ conn[c].from = h}

(* A lease has as many references as its host has connections.             *)
Counted == InOrder => \A h \in Hosts : leased[h].refs = Cardinality(OpenFrom(h))

(* A connection has the address of its host's lease, or the fixed one.     *)
Shared ==
    \A c \in Conns : conn[c].open =>
        /\ InOrder /\ conn[c].from # NoHost => conn[c].address = leased[conn[c].from].address
        /\ ~InOrder => conn[c].address = Fixed

ZeroInv ==
    /\ ZeroTypeOK
    /\ Counted
    /\ Shared

(* Next hands out an address of the configuration.                         *)
LEMMA NextAddressType ==
    ASSUME next \in Nat
    PROVE  NextAddress \in ConfiguredAddresses
<1>. USE ZeroConstants
<1>1. CASE InOrder
  <2>1. Len(Order) \in Nat \ {0}
    BY <1>1 DEF InOrder
  <2>2. (next % Len(Order)) + 1 \in 1 .. Len(Order)
    BY <2>1
  <2>. QED BY <1>1, <2>2 DEF NextAddress, ConfiguredAddresses
<1>2. CASE ~InOrder
  BY <1>2 DEF NextAddress, ConfiguredAddresses
<1>. QED BY <1>1, <1>2

(* The connections of a host are finitely many.                            *)
LEMMA OpenFromFinite ==
    ASSUME NEW h
    PROVE  IsFiniteSet(OpenFrom(h)) /\ Cardinality(OpenFrom(h)) \in Nat
<1>1. OpenFrom(h) \subseteq Conns
  BY DEF OpenFrom
<1>2. IsFiniteSet(OpenFrom(h))
  BY <1>1, ZeroConstants, FS_Subset
<1>. QED BY <1>2, FS_CardinalityType

LEMMA InitZeroInv == ZeroInit => ZeroInv
<1>. SUFFICES ASSUME ZeroInit PROVE ZeroInv
  OBVIOUS
<1>1. ZeroTypeOK
  BY DEF ZeroInit, NoLease, Closed, ZeroTypeOK, ConfiguredAddresses
<1>2. \A h : OpenFrom(h) = {}
  BY DEF ZeroInit, Closed, OpenFrom
<1>3. Counted
  BY <1>2, FS_EmptySet DEF ZeroInit, NoLease, Counted
<1>4. Shared
  BY DEF ZeroInit, Closed, Shared
<1>. QED BY <1>1, <1>3, <1>4 DEF ZeroInv

(* A finite set with one element more, and with one less.                  *)
LEMMA OneMore ==
    ASSUME NEW S, NEW T, NEW x, IsFiniteSet(S), x \notin S, T = S \cup {x}
    PROVE  Cardinality(T) = Cardinality(S) + 1
BY FS_AddElement

LEMMA OneLess ==
    ASSUME NEW S, NEW T, NEW x, IsFiniteSet(S), x \in S, T = S \ {x}
    PROVE  IsFiniteSet(T) /\ Cardinality(T) = Cardinality(S) - 1
BY FS_RemoveElement, Zenon

(* Opening a connection adds it to those of its host only.                 *)
LEMMA OpenAdds ==
    ASSUME ZeroTypeOK,
           NEW c \in Conns, NEW h \in Hosts \cup {NoHost}, NEW a,
           ~conn[c].open, conn' = [conn EXCEPT ![c] = OpenFor(h, a)]
    PROVE  /\ OpenFrom(h)' = OpenFrom(h) \cup {c}
           /\ c \notin OpenFrom(h)
           /\ \A g \in Hosts \ {h} : OpenFrom(g)' = OpenFrom(g)
BY SMTT(30) DEF OpenFrom, OpenFor, ZeroTypeOK

(* Closing one takes it from those of its host only.                       *)
LEMMA CloseRemoves ==
    ASSUME ZeroTypeOK,
           NEW c \in Conns, NEW h, h = conn[c].from,
           conn[c].open, conn' = [conn EXCEPT ![c] = Closed]
    PROVE  /\ c \in OpenFrom(h)
           /\ OpenFrom(h)' = OpenFrom(h) \ {c}
           /\ \A g \in Hosts \ {h} : OpenFrom(g)' = OpenFrom(g)
BY DEF OpenFrom, Closed, ZeroTypeOK

(* A connection whose host keeps no lease, or has none yet.                *)
LEMMA LeaseNewInv ==
    ASSUME ZeroInv, NEW c \in Conns, NEW h \in Hosts \cup {NoHost}, LeaseNew(c, h)
    PROVE  ZeroInv'
<1>a. ZeroTypeOK /\ Counted /\ Shared
  BY DEF ZeroInv
<1>1. ZeroTypeOK'
  BY <1>a, NextAddressType DEF LeaseNew, ZeroTypeOK, OpenFor, Sticky
<1>2. /\ OpenFrom(h)' = OpenFrom(h) \cup {c}
      /\ c \notin OpenFrom(h)
      /\ \A g \in Hosts \ {h} : OpenFrom(g)' = OpenFrom(g)
  BY <1>a, OpenAdds, Zenon DEF LeaseNew
<1>3. CASE Sticky(h)
  <2>1. h \in Hosts /\ InOrder
    BY <1>3 DEF Sticky
  <2>2. OpenFrom(h) = {}
    BY <1>a, <1>3, <2>1, OpenFromFinite, FS_EmptySet DEF LeaseNew, Counted
  <2>3. Cardinality(OpenFrom(h)') = 1
    <3>1. OpenFrom(h)' = {c}
      BY <1>2, <2>2
    <3>. QED BY <3>1, FS_Singleton
  <2>4. leased' = [leased EXCEPT ![h] = [address |-> NextAddress, refs |-> 1]]
    BY <1>3 DEF LeaseNew
  <2>5. Counted'
    BY <1>a, <1>2, <2>1, <2>3, <2>4, Zenon DEF Counted, ZeroTypeOK
  <2>6. \A d \in Conns \ {c} : conn'[d] = conn[d] /\ ~(conn[d].open /\ conn[d].from = h)
    BY <1>a, <2>2, Zenon DEF LeaseNew, OpenFrom, ZeroTypeOK
  <2>7. Shared'
    <3>1. conn'[c] = OpenFor(h, NextAddress)
      BY <1>a, Zenon DEF LeaseNew, ZeroTypeOK
    <3>2. leased'[h].address = NextAddress /\ \A g \in Hosts \ {h} : leased'[g] = leased[g]
      BY <1>a, <2>1, <2>4 DEF ZeroTypeOK
    <3>3. \A d \in Conns : conn[d].from \in Hosts \cup {NoHost}
      BY <1>a DEF ZeroTypeOK
    <3>4. ASSUME NEW d \in Conns \ {c}, conn'[d].open
          PROVE  InOrder /\ conn'[d].from # NoHost => conn'[d].address = leased'[conn'[d].from].address
      <4>1. conn'[d] = conn[d] /\ conn[d].open /\ conn[d].from # h
        BY <2>6, <3>4, Zenon
      <4>2. InOrder /\ conn[d].from # NoHost => conn[d].address = leased[conn[d].from].address
        BY <1>a, <4>1, Zenon DEF Shared
      <4>3. conn[d].from # NoHost => leased'[conn[d].from] = leased[conn[d].from]
        BY <3>2, <3>3, <4>1, Zenon
      <4>. QED BY <4>1, <4>2, <4>3, Zenon
    <3>5. conn'[c].address = leased'[conn'[c].from].address
      BY <3>1, <3>2 DEF OpenFor
    <3>. QED BY <2>1, <3>4, <3>5, Zenon DEF Shared
  <2>. QED BY <1>1, <2>5, <2>7 DEF ZeroInv
<1>4. CASE ~Sticky(h)
  <2>1. leased' = leased
    BY <1>4 DEF LeaseNew
  <2>2. InOrder => h = NoHost
    BY <1>4, Zenon DEF Sticky
  <2>3. Counted'
    BY <1>a, <1>2, <2>1, <2>2, ZeroConstants, Zenon DEF Counted, InOrder
  <2>4. Shared'
    BY <1>a, <2>1, <2>2 DEF LeaseNew, Shared, OpenFor, NextAddress, ZeroTypeOK, InOrder
  <2>. QED BY <1>1, <2>3, <2>4 DEF ZeroInv
<1>. QED BY <1>3, <1>4

(* A further connection of a host that has one.                            *)
LEMMA LeaseSharedInv ==
    ASSUME ZeroInv, NEW c \in Conns, NEW h \in Hosts \cup {NoHost}, LeaseShared(c, h)
    PROVE  ZeroInv'
<1>a. ZeroTypeOK /\ Counted /\ Shared
  BY DEF ZeroInv
<1>0. h \in Hosts /\ InOrder
  BY Zenon DEF LeaseShared, Sticky
<1>1. ZeroTypeOK'
  BY <1>a, <1>0 DEF LeaseShared, ZeroTypeOK, OpenFor
<1>2. /\ OpenFrom(h)' = OpenFrom(h) \cup {c}
      /\ c \notin OpenFrom(h)
      /\ \A g \in Hosts \ {h} : OpenFrom(g)' = OpenFrom(g)
  BY <1>a, OpenAdds, Zenon DEF LeaseShared
<1>3. Cardinality(OpenFrom(h)') = Cardinality(OpenFrom(h)) + 1
  <2>1. IsFiniteSet(OpenFrom(h))
    BY OpenFromFinite
  <2>. QED BY <1>2, <2>1, OneMore
<1>4. Counted'
  BY <1>a, <1>0, <1>2, <1>3, Zenon DEF Counted, LeaseShared, ZeroTypeOK
<1>5. Shared'
  BY <1>a, <1>0, SMTT(30) DEF LeaseShared, Shared, OpenFor, ZeroTypeOK
<1>. QED BY <1>1, <1>4, <1>5 DEF ZeroInv

(* A connection ends; the lease goes with the last of its host.            *)
LEMMA ReleaseInv ==
    ASSUME ZeroInv, NEW c \in Conns, Release(c)
    PROVE  ZeroInv'
<1>a. ZeroTypeOK /\ Counted /\ Shared
  BY DEF ZeroInv
<1>0. PICK h : h = conn[c].from
  OBVIOUS
<1>1. ZeroTypeOK'
  <2>1. next' \in Nat
    BY <1>a DEF ZeroTypeOK, Release
  <2>2. conn' \in [Conns -> [open : BOOLEAN, from : Hosts \cup {NoHost}, address : ConfiguredAddresses]]
    BY <1>a, Zenon DEF ZeroTypeOK, Release, Closed, ConfiguredAddresses
  <2>3. leased' \in [Hosts -> [address : ConfiguredAddresses, refs : Nat]]
    <3>1. NoLease \in [address : ConfiguredAddresses, refs : Nat]
      BY DEF NoLease, ConfiguredAddresses
    <3>2. ASSUME h \in Hosts, ~(leased[h].refs <= 1)
          PROVE  [address |-> leased[h].address, refs |-> leased[h].refs - 1]
                   \in [address : ConfiguredAddresses, refs : Nat]
      BY <1>a, <3>2 DEF ZeroTypeOK
    <3>3. Sticky(h) => h \in Hosts
      BY <1>a, <1>0 DEF ZeroTypeOK, Sticky
    <3>. QED BY <1>a, <1>0, <3>1, <3>2, <3>3, Zenon DEF ZeroTypeOK, Release
  <2>. QED BY <2>1, <2>2, <2>3 DEF ZeroTypeOK
<1>2. /\ c \in OpenFrom(h)
      /\ OpenFrom(h)' = OpenFrom(h) \ {c}
      /\ \A g \in Hosts \ {h} : OpenFrom(g)' = OpenFrom(g)
  BY <1>a, <1>0, CloseRemoves, Zenon DEF Release
<1>3. /\ IsFiniteSet(OpenFrom(h)')
      /\ Cardinality(OpenFrom(h)') = Cardinality(OpenFrom(h)) - 1
  <2>1. IsFiniteSet(OpenFrom(h))
    BY OpenFromFinite
  <2>. QED BY <1>2, <2>1, OneLess
<1>4. \A d \in Conns : conn'[d].open => d # c /\ conn'[d] = conn[d]
  BY <1>a, Zenon DEF ZeroTypeOK, Release, Closed
<1>5. CASE ~Sticky(h)
  <2>1. leased' = leased
    BY <1>0, <1>5 DEF Release
  <2>2. Counted'
    BY <1>a, <1>0, <1>2, <1>5, <2>1, ZeroConstants, SMTT(30) DEF Counted, Sticky, ZeroTypeOK, InOrder
  <2>3. Shared'
    BY <1>a, <1>4, <2>1 DEF Shared, InOrder
  <2>. QED BY <1>1, <2>2, <2>3 DEF ZeroInv
<1>6. CASE Sticky(h) /\ leased[h].refs <= 1
  <2>0. h \in Hosts /\ InOrder
    BY <1>a, <1>0, <1>6 DEF Sticky, ZeroTypeOK
  <2>1. leased' = [leased EXCEPT ![h] = NoLease]
    BY <1>0, <1>6 DEF Release
  <2>2. Cardinality(OpenFrom(h)) # 0
    BY <1>2, OpenFromFinite, FS_EmptySet
  <2>3. Cardinality(OpenFrom(h)') = 0
    <3>1. PICK n \in Nat : n = Cardinality(OpenFrom(h))
      BY OpenFromFinite
    <3>2. leased[h].refs = n
      BY <1>a, <2>0, <3>1 DEF Counted
    <3>3. n = 1
      BY <1>6, <2>2, <3>1, <3>2
    <3>. QED BY <1>3, <3>1, <3>3
  <2>4. Counted'
    BY <1>a, <1>2, <2>0, <2>1, <2>3, Zenon DEF Counted, NoLease, ZeroTypeOK
  <2>5. OpenFrom(h) = {c}
    <3>1. OpenFrom(h)' = {}
      BY <1>3, <2>3, FS_EmptySet
    <3>. QED BY <1>2, <3>1
  <2>6. \A d \in Conns : conn'[d].open => conn[d].from # h
    BY <1>4, <2>5, Zenon DEF OpenFrom
  <2>7. Shared'
    BY <1>a, <1>4, <2>0, <2>1, <2>6 DEF Shared, ZeroTypeOK
  <2>. QED BY <1>1, <2>4, <2>7 DEF ZeroInv
<1>7. CASE Sticky(h) /\ ~(leased[h].refs <= 1)
  <2>0. h \in Hosts /\ InOrder
    BY <1>a, <1>0, <1>7, SMTT(30) DEF Sticky, ZeroTypeOK
  <2>1. leased' = [leased EXCEPT ![h] = [address |-> @.address, refs |-> @.refs - 1]]
    BY <1>0, <1>7 DEF Release
  <2>2. Counted'
    BY <1>a, <1>2, <1>3, <2>0, <2>1, Zenon DEF Counted, ZeroTypeOK
  <2>3. Shared'
    BY <1>a, <1>4, <2>0, <2>1 DEF Shared, ZeroTypeOK
  <2>. QED BY <1>1, <2>2, <2>3 DEF ZeroInv
<1>. QED BY <1>5, <1>6, <1>7

(* The selector's inductive invariant (addressZeroSelector.Lease and the   *)
(* functions it returns): every lease counts the open connections of its   *)
(* host, which all have its address.                                       *)
THEOREM SelectorInvariant == ZeroSpec => []ZeroInv
<1>1. ZeroInv /\ [ZeroNext]_zeroVars => ZeroInv'
  <2>. SUFFICES ASSUME ZeroInv, [ZeroNext]_zeroVars PROVE ZeroInv'
    OBVIOUS
  <2>1. ASSUME NEW c \in Conns, Lease(c) PROVE ZeroInv'
    <3>1. PICK h \in Hosts \cup {NoHost} : LeaseNew(c, h) \/ LeaseShared(c, h)
      BY <2>1 DEF Lease
    <3>. QED BY <3>1, LeaseNewInv, LeaseSharedInv
  <2>2. ASSUME NEW c \in Conns, Release(c) PROVE ZeroInv'
    BY <2>2, ReleaseInv
  <2>3. CASE UNCHANGED zeroVars
    BY <2>3 DEF zeroVars, ZeroInv, ZeroTypeOK, Counted, Shared, OpenFrom
  <2>. QED BY <2>1, <2>2, <2>3 DEF ZeroNext
<1>. QED BY InitZeroInv, <1>1, PTL DEF ZeroSpec

(* While a host has several connections open, address 0 means the same     *)
(* device on all of them (addressZeroSelector.Lease), for any connections, *)
(* hosts and route order.                                                  *)
THEOREM HostsKeepTheirDevice == ZeroSpec => []SameHostSameDevice
<1>1. ZeroInv => SameHostSameDevice
  BY DEF ZeroInv, Shared, SameHostSameDevice
<1>. QED BY <1>1, SelectorInvariant, PTL
=============================================================================

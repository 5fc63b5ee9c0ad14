------------------------- MODULE RouteBrokerProofs --------------------------
(***************************************************************************)
(* For any clients, routes, queue capacity and bounds: a client's answer   *)
(* is the device's reply to its own call, and a read fails only when its   *)
(* routes are exhausted.  The invariant is RoutingInv of RouteFrameProofs. *)
(*                                                                         *)
(* And RouteBroker implements RouteContract: a write goes out at most      *)
(* once, whatever times out, breaks or stops, and is answered with a reply *)
(* only if it went out.  A write call has one request, which is in one     *)
(* place, and is sent when its broker moves from writing to reading.       *)
(***************************************************************************)
EXTENDS RouteFrameProofs

(* The broker takes the head of its queue: it is answered at once when     *)
(* nobody waits for it any more, and is the broker's alone otherwise.      *)
LEMMA TakeKeeps == ASSUME RoutingInv, NEW r \in Route, Take(r) PROVE RoutingInv'
<1>a. /\ br[r] \in BrokerState /\ br[r].cur \in Nat
      /\ wire[r] \in Seq(Nat) /\ back[r] \in Seq(DeviceReply)
      /\ br \in [Route -> BrokerState] /\ queue \in [Route -> Seq(Nat)]
      /\ wire \in [Route -> Seq(Nat)] /\ back \in [Route -> Seq(DeviceReply)]
      /\ reqs \in Seq(Request) /\ CurOK(r) /\ LinkOK(r)
  BY RouteTypes
<1>b. /\ br[r].pc = "idle" /\ queue[r] # <<>> /\ queue' = [queue EXCEPT ![r] = Tail(@)]
      /\ UNCHANGED <<cl, wire, back, stopped>>
  BY DEF Take
<1>c. br[r].cur = 0 /\ wire[r] = <<>> /\ back[r] = <<>>
  BY <1>a, <1>b DEF CurOK, LinkOK
<1>d. wire' = [wire EXCEPT ![r] = wire[r]] /\ back' = [back EXCEPT ![r] = back[r]]
  BY <1>a, <1>b
<1>e. LinkOK(r)'
  BY <1>b, <1>c DEF LinkOK
<1>f. PICK id : id = Head(queue[r])
  OBVIOUS
<1>1. CASE Done(id)
  <2>1. br' = br /\ reqs' = WithRes(reqs, id, Error("other"))
    BY <1>1, <1>f DEF Take, WithRes
  <2>2. id \in DOMAIN reqs
    <3>1. QueueOK(r) /\ queue[r] \in Seq(Nat)
      BY RouteTypes
    <3>2. 1 \in DOMAIN queue[r] /\ id = queue[r][1]
      BY <1>b, <1>f, <3>1, LenProperties, EmptySeq
    <3>. QED BY <3>1, <3>2 DEF QueueOK
  <2>3. Error("other") \in Result /\ Error("other").err # "none"
    BY ErrorIsAResult
  <2>4. /\ Kept(reqs, reqs')
        /\ \A k \in DOMAIN reqs : reqs'[k].sent = reqs[k].sent
    BY <1>a, <2>1, <2>2, <2>3, ResChange
  <2>5. br'[r].cur \in {0, Head(queue[r])}
    BY <1>c, <2>1
  <2>6. /\ QueueOK(r)' /\ Tail(queue[r]) \in Seq(Nat)
        /\ queue' = [queue EXCEPT ![r] = Tail(queue[r])] /\ reqs[id].route = r
    BY <1>b, <1>c, <1>f, <2>4, <2>5, QueueMoves, Zenon
  <2>7. CurOK(r)'
    BY <1>b, <1>c, <2>1 DEF CurOK
  <2>8. RouteOK(r)'
    BY <1>e, <2>6, <2>7 DEF RouteOK
  <2>9. br' = [br EXCEPT ![r] = br[r]]
    BY <1>a, <2>1
  <2>10. PICK v \in Result : v = Error("other") /\ v.err # "none"
    BY <2>3
  <2>11. /\ br[r] \in BrokerState /\ wire[r] \in Seq(Nat) /\ back[r] \in Seq(DeviceReply)
         /\ UNCHANGED <<cl, stopped>> /\ reqs' = WithRes(reqs, id, v)
    BY <1>a, <1>b, <2>1, <2>10
  <2>. QED BY <1>d, <2>2, <2>6, <2>8, <2>9, <2>10, <2>11, AnswerRoute, Zenon
<1>2. CASE ~Done(id)
  <2>1. PICK pc \in {"dial", "write"} : pc = IF br[r].conn = "none" THEN "dial" ELSE "write"
    OBVIOUS
  <2>2. PICK y : y = [br[r] EXCEPT !.pc = pc, !.cur = id]
    OBVIOUS
  <2>3. br' = [br EXCEPT ![r] = y] /\ reqs' = reqs
    BY <1>2, <1>f, <2>1, <2>2 DEF Take
  <2>4. y.cur = id /\ y.pc = pc
    BY <1>a, <2>2 DEF BrokerState
  <2>5. br'[r] = y
    BY <1>a, <2>3
  <2>6. Kept(reqs, reqs') /\ \A k \in DOMAIN reqs : reqs'[k].sent = reqs[k].sent
    BY <2>3 DEF Kept
  <2>7. br'[r].cur \in {0, Head(queue[r])}
    BY <1>f, <2>4, <2>5
  <2>8. /\ QueueOK(r)' /\ Tail(queue[r]) \in Seq(Nat)
        /\ queue' = [queue EXCEPT ![r] = Tail(queue[r])]
        /\ id \in DOMAIN reqs /\ id \in Nat \ {0} /\ reqs[id].route = r /\ reqs[id].sent = 0
    BY <1>b, <1>c, <1>f, <2>6, <2>7, QueueMoves, Zenon
  <2>9. y \in BrokerState
    BY <1>a, <2>2, <2>8, BrokerChange, Zenon
  <2>10. ~reqs[id].lapsed
    <3>1. RequestOK(id)
      BY <2>8 DEF RoutingInv
    <3>. QED BY <1>2, <3>1 DEF RequestOK, Done
  <2>11. CurOK(r)'
    BY <2>3, <2>4, <2>5, <2>8, <2>10 DEF CurOK
  <2>12. RouteOK(r)'
    BY <1>e, <2>8, <2>11 DEF RouteOK
  <2>. QED BY <1>a, <1>b, <1>d, <2>3, <2>8, <2>9, <2>12, QuietRoute, Zenon
<1>. QED BY <1>1, <1>2

(* The request the broker works on.                                        *)
LEMMA CurrentRequest ==
    ASSUME RoutingInv, NEW r \in Route, br[r].pc \in {"dial", "write", "read"}
    PROVE  /\ br[r].cur \in DOMAIN reqs /\ br[r].cur # 0 /\ reqs[br[r].cur].route = r
           /\ ~reqs[br[r].cur].lapsed
           /\ reqs[br[r].cur].sent = IF br[r].pc = "read" THEN 1 ELSE 0
<1>1. CurOK(r)
  BY RouteTypes
<1>. QED BY <1>1 DEF CurOK

(* The broker gives up its request with an error: nothing of the exchange  *)
(* stays in the connection.                                                *)
LEMMA FailureKeeps ==
    ASSUME RoutingInv, NEW r \in Route, DialFail(r) \/ ExchangeAborted(r) \/ LinkLost(r)
    PROVE  RoutingInv'
<1>a. /\ br[r] \in BrokerState /\ br[r].errors \in Nat
      /\ queue[r] \in Seq(Nat) /\ wire[r] \in Seq(Nat) /\ back[r] \in Seq(DeviceReply)
      /\ br \in [Route -> BrokerState] /\ queue \in [Route -> Seq(Nat)]
      /\ wire \in [Route -> Seq(Nat)] /\ back \in [Route -> Seq(DeviceReply)]
      /\ reqs \in Seq(Request) /\ LinkOK(r)
  BY RouteTypes
<1>b. PICK id \in DOMAIN reqs : id = br[r].cur /\ reqs[id].route = r
  BY CurrentRequest DEF DialFail, ExchangeAborted, LinkLost
<1>c. PICK n \in Nat : n = MoreErrors(br[r].errors)
  BY <1>a DEF MoreErrors
<1>d. UNCHANGED <<cl, stopped, queue>>
  BY DEF DialFail, ExchangeAborted, LinkLost, FailExchange
<1>e. PICK e \in {"transient", "other"} : Reply(r, Error(e))
  BY DEF DialFail, ExchangeAborted, LinkLost, FailExchange
<1>f. PICK v \in Result : v = Error(e) /\ v.err # "none"
  BY ErrorIsAResult
<1>g. reqs' = WithRes(reqs, id, v)
  BY <1>b, <1>e, <1>f DEF Reply, Cur, WithRes
<1>h. /\ Kept(reqs, reqs') /\ \A k \in DOMAIN reqs : reqs'[k].sent = reqs[k].sent
  BY <1>a, <1>f, <1>g, ResChange
<1>i. <<>> \in Seq(Nat) /\ <<>> \in Seq(DeviceReply)
  OBVIOUS
<1>1. PICK y \in BrokerState : /\ br' = [br EXCEPT ![r] = y] /\ y.cur = 0
                               /\ y.pc \in {"idle", "sleep"}
  <2>1. CASE DialFail(r)
    <3>1. PICK y \in BrokerState :
            y = [br[r] EXCEPT !.pc = "sleep", !.cur = 0, !.connected = FALSE, !.errors = n]
      BY <1>a, BrokerChange, Zenon
    <3>2. y.cur = 0 /\ y.pc = "sleep"
      BY <1>a, <3>1 DEF BrokerState
    <3>. QED BY <1>c, <2>1, <3>1, <3>2, Zenon DEF DialFail
  <2>2. CASE ~DialFail(r)
    <3>1. PICK y \in BrokerState :
            y = [br[r] EXCEPT !.pc = "idle", !.cur = 0, !.conn = "none",
                              !.connected = FALSE, !.errors = n]
      BY <1>a, BrokerChange, Zenon
    <3>2. y.cur = 0 /\ y.pc = "idle"
      BY <1>a, <3>1 DEF BrokerState
    <3>. QED BY <1>c, <2>2, <3>1, <3>2, Zenon DEF ExchangeAborted, LinkLost, FailExchange
  <2>. QED BY <2>1, <2>2
<1>2. br'[r] = y
  BY <1>a, <1>1
<1>3. /\ wire' = [wire EXCEPT ![r] = <<>>] /\ back' = [back EXCEPT ![r] = <<>>]
      /\ wire'[r] = <<>> /\ back'[r] = <<>>
  <2>1. CASE DialFail(r)
    <3>1. UNCHANGED <<wire, back>> /\ wire[r] = <<>> /\ back[r] = <<>>
      BY <1>a, <2>1 DEF DialFail, LinkOK
    <3>. QED BY <1>a, <3>1
  <2>2. CASE ~DialFail(r)
    <3>1. CloseConn(r)
      BY <2>2 DEF ExchangeAborted, LinkLost, FailExchange
    <3>. QED BY <1>a, <3>1 DEF CloseConn
  <2>. QED BY <2>1, <2>2
<1>4. QueueOK(r)'
  <2>1. queue'[r] = queue[r] /\ br'[r].cur \in {0, br[r].cur}
    BY <1>d, <1>1, <1>2
  <2>. QED BY <1>h, <2>1, QueueWaits
<1>5. CurOK(r)' /\ LinkOK(r)'
  BY <1>1, <1>2, <1>3 DEF CurOK, LinkOK
<1>6. RouteOK(r)'
  BY <1>4, <1>5 DEF RouteOK
<1>7. queue' = [queue EXCEPT ![r] = queue[r]] /\ queue[r] \in Seq(Nat) /\ UNCHANGED <<cl, stopped>>
  BY <1>a, <1>d
<1>. QED BY <1>b, <1>f, <1>g, <1>i, <1>1, <1>3, <1>6, <1>7, AnswerRoute, Zenon

(* The reply that is read is the device's to the frame of this exchange.   *)
LEMMA ReadReplyKeeps == ASSUME RoutingInv, NEW r \in Route, ReadReply(r) PROVE RoutingInv'
<1>a. /\ br[r] \in BrokerState
      /\ queue[r] \in Seq(Nat) /\ wire[r] \in Seq(Nat) /\ back[r] \in Seq(DeviceReply)
      /\ br \in [Route -> BrokerState] /\ queue \in [Route -> Seq(Nat)]
      /\ wire \in [Route -> Seq(Nat)] /\ back \in [Route -> Seq(DeviceReply)]
      /\ reqs \in Seq(Request) /\ LinkOK(r)
  BY RouteTypes
<1>b. br[r].pc = "read" /\ back[r] # <<>> /\ UNCHANGED <<cl, queue, wire, stopped>>
  BY DEF ReadReply
<1>c. PICK id \in DOMAIN reqs : id = br[r].cur /\ reqs[id].route = r /\ reqs[id].sent = 1
  BY <1>b, CurrentRequest
<1>d. id \in Nat
  BY <1>a, <1>c, LenProperties
<1>e. PICK k \in Kinds : wire[r] = <<>> /\ back[r] = <<[id |-> id, kind |-> k]>>
  BY <1>a, <1>b, <1>c DEF LinkOK
<1>f. Head(back[r]).id = id /\ Head(back[r]).kind = k /\ Tail(back[r]) = <<>>
  BY <1>e
<1>j. PICK v : v = [err |-> "none", kind |-> k, by |-> id]
  BY Zenon
<1>g. v \in Result /\ v.by = id
  BY <1>d, <1>j DEF Result
<1>h. reqs' = WithRes(reqs, id, v)
  BY <1>c, <1>f, <1>j, Zenon DEF ReadReply, Reply, Cur, WithRes
<1>i. /\ Kept(reqs, reqs') /\ \A j \in DOMAIN reqs : reqs'[j].sent = reqs[j].sent
  BY <1>a, <1>g, <1>h, ResChange
<1>1. PICK conn \in {"open", "dead"} :
         br' = [br EXCEPT ![r] = [@ EXCEPT !.pc = "idle", !.cur = 0, !.conn = conn]]
  BY Zenon DEF ReadReply
<1>2. PICK y \in BrokerState : y = [br[r] EXCEPT !.pc = "idle", !.cur = 0, !.conn = conn]
  BY <1>a, BrokerChange, Zenon
<1>3. br' = [br EXCEPT ![r] = y] /\ br'[r] = y
  BY <1>a, <1>1, <1>2
<1>4. y.cur = 0 /\ y.pc = "idle"
  BY <1>a, <1>2 DEF BrokerState
<1>5. PICK b \in Seq(DeviceReply) : b = Tail(back[r])
  BY <1>a, <1>b, HeadTailProperties, Zenon
<1>6. back' = [back EXCEPT ![r] = b] /\ back'[r] = <<>> /\ wire'[r] = <<>>
  BY <1>a, <1>b, <1>e, <1>f, <1>5 DEF ReadReply
<1>7. QueueOK(r)'
  <2>1. queue'[r] = queue[r] /\ br'[r].cur \in {0, br[r].cur}
    BY <1>b, <1>3, <1>4
  <2>. QED BY <1>i, <2>1, QueueWaits
<1>8. CurOK(r)' /\ LinkOK(r)'
  BY <1>3, <1>4, <1>6 DEF CurOK, LinkOK
<1>9. RouteOK(r)'
  BY <1>7, <1>8 DEF RouteOK
<1>10. /\ queue' = [queue EXCEPT ![r] = queue[r]] /\ wire' = [wire EXCEPT ![r] = wire[r]]
       /\ queue[r] \in Seq(Nat) /\ wire[r] \in Seq(Nat) /\ UNCHANGED <<cl, stopped>>
  BY <1>a, <1>b
<1>. QED BY <1>c, <1>g, <1>h, <1>3, <1>6, <1>9, <1>10, AnswerRoute, Zenon

(* The frame goes out, for the first time, on an empty connection.         *)
LEMMA WriteFrameKeeps == ASSUME RoutingInv, NEW r \in Route, WriteFrame(r) PROVE RoutingInv'
<1>a. /\ br[r] \in BrokerState /\ wire[r] \in Seq(Nat)
      /\ br \in [Route -> BrokerState] /\ queue \in [Route -> Seq(Nat)]
      /\ wire \in [Route -> Seq(Nat)] /\ back \in [Route -> Seq(DeviceReply)]
      /\ reqs \in Seq(Request) /\ LinkOK(r)
  BY RouteTypes
<1>b. br[r].pc = "write" /\ UNCHANGED <<cl, queue, back, stopped>>
  BY DEF WriteFrame
<1>c. PICK id \in DOMAIN reqs : /\ id = br[r].cur /\ reqs[id].route = r
                                /\ reqs[id].sent = 0 /\ ~reqs[id].lapsed /\ id # 0
  BY <1>b, CurrentRequest
<1>d. id \in Nat
  BY <1>a, <1>c, LenProperties
<1>e. reqs' = WithSent(reqs, id)
  BY <1>c DEF WriteFrame, Cur, WithSent
<1>f. /\ reqs' \in Seq(Request) /\ Kept(reqs, reqs')
      /\ \A k \in DOMAIN reqs : /\ reqs'[k].expired = reqs[k].expired
                                /\ reqs'[k].lapsed = reqs[k].lapsed
                                /\ reqs'[k].res = reqs[k].res
                                /\ k # id => reqs'[k] = reqs[k]
      /\ reqs'[id].sent = 1
  <2>1. /\ reqs' \in Seq(Request) /\ Kept(reqs, reqs')
        /\ \A k \in DOMAIN reqs : /\ reqs'[k].expired = reqs[k].expired
                                  /\ reqs'[k].lapsed = reqs[k].lapsed
                                  /\ reqs'[k].res = reqs[k].res
                                  /\ k # id => reqs'[k] = reqs[k]
        /\ reqs'[id].sent = reqs[id].sent + 1
    BY <1>a, <1>e, SentChange, SMTT(30)
  <2>2. reqs'[id].sent = 1
    BY <1>c, <2>1
  <2>. QED BY <2>1, <2>2
<1>g. PICK y \in BrokerState : y = [br[r] EXCEPT !.pc = "read"]
  BY <1>a, BrokerChange, Zenon
<1>h. br' = [br EXCEPT ![r] = y] /\ br'[r] = y
  BY <1>a, <1>g DEF WriteFrame
<1>i. y.pc = "read" /\ y.cur = id
  BY <1>a, <1>c, <1>g DEF BrokerState
<1>j. wire[r] = <<>> /\ back[r] = <<>>
  BY <1>a, <1>b DEF LinkOK
<1>k. PICK w \in Seq(Nat) : w = Append(wire[r], id)
  BY <1>a, <1>d, AppendProperties, Zenon
<1>l. w = <<id>>
  BY <1>j, <1>k
<1>m. wire' = [wire EXCEPT ![r] = w] /\ wire'[r] = <<id>> /\ back'[r] = <<>>
  BY <1>a, <1>b, <1>c, <1>j, <1>k, <1>l DEF WriteFrame, Cur
<1>1. BrokerTypeOK'
  <2>1. br' \in [Route -> BrokerState] /\ wire' \in [Route -> Seq(Nat)]
    BY <1>a, <1>h, <1>m
  <2>. QED BY <1>b, <1>f, <2>1 DEF RoutingInv, BrokerTypeOK
<1>2. OtherRoutesKept(r)
  BY <1>a, <1>b, <1>h, <1>m DEF OtherRoutesKept
<1>3. QueueOK(r)'
  <2>1. queue'[r] = queue[r] /\ br'[r].cur \in {0, br[r].cur}
    BY <1>b, <1>c, <1>h, <1>i
  <2>2. \A k \in DOMAIN reqs : k # br[r].cur => reqs'[k].sent = reqs[k].sent
    BY <1>c, <1>f
  <2>. QED BY <1>f, <2>1, <2>2, QueueWaits
<1>4. CurOK(r)'
  BY <1>c, <1>f, <1>h, <1>i DEF CurOK, Kept
<1>5. LinkOK(r)'
  BY <1>h, <1>i, <1>m DEF LinkOK
<1>6. RequestOK(id)'
  <2>1. RequestOK(id)
    BY <1>c, Zenon DEF RoutingInv
  <2>2. ~(reqs[id].res # None /\ reqs[id].res.err = "none")
    BY <1>c, <2>1 DEF RequestOK
  <2>3. /\ ~reqs'[id].lapsed /\ reqs'[id].sent = 1 /\ reqs'[id].res = reqs[id].res
        /\ Kept(reqs, reqs') /\ cl' = cl
    BY <1>b, <1>c, <1>f
  <2>. QED BY <2>1, <2>2, <2>3, RequestChange, Zenon
<1>7. RouteOK(r)'
  BY <1>3, <1>4, <1>5 DEF RouteOK
<1>8. \A k \in DOMAIN reqs : reqs'[k] # reqs[k] => reqs[k].route = r /\ RequestOK(k)'
  BY <1>c, <1>f, <1>6
<1>9. \A k \in DOMAIN reqs : reqs[k].sent = 1 => reqs'[k].sent = 1
  BY <1>f
<1>. QED BY <1>b, <1>f, <1>1, <1>2, <1>7, <1>8, <1>9, OneRoute

(* The request timeout: what it finds in a queue has not been sent, and    *)
(* what a broker has taken is in no queue.                                 *)
LEMMA ExpireKeeps ==
    ASSUME RoutingInv, NEW id \in DOMAIN reqs, Expire(id) PROVE RoutingInv'
<1>a. /\ BrokerTypeOK /\ \A q \in Route : RouteOK(q)
      /\ \A k \in DOMAIN reqs : RequestOK(k)
      /\ \A d \in Clients : ClientOK(d)
  BY DEF RoutingInv
<1>b. UNCHANGED <<cl, queue, br, wire, back, stopped>>
  BY DEF Expire
<1>c. PICK b \in BOOLEAN : b = \E q \in Route : IsQueued(q, id)
  BY Zenon
<1>d. /\ reqs' = [reqs EXCEPT ![id] = [reqs[id] EXCEPT !.expired = TRUE, !.lapsed = b]]
      /\ reqs \in Seq(Request) /\ stopped \in BOOLEAN
  BY <1>a, <1>c DEF Expire, BrokerTypeOK
<1>e. /\ reqs' \in Seq(Request) /\ Kept(reqs, reqs')
      /\ \A k \in DOMAIN reqs : /\ reqs'[k].sent = reqs[k].sent /\ reqs'[k].res = reqs[k].res
                                /\ k # id => reqs'[k] = reqs[k]
      /\ reqs'[id].expired = TRUE /\ reqs'[id].lapsed = b
  <2>1. reqs[id] \in Request
    BY <1>d, ElementOfSeq, LenProperties
  <2>2. PICK x \in Request : x = [reqs[id] EXCEPT !.expired = TRUE, !.lapsed = b]
    BY <2>1, Zenon DEF Request
  <2>3. /\ x.client = reqs[id].client /\ x.call = reqs[id].call
        /\ x.route = reqs[id].route /\ x.read = reqs[id].read
        /\ x.expired = TRUE /\ x.lapsed = b
        /\ x.sent = reqs[id].sent /\ x.res = reqs[id].res
    BY <2>1, <2>2 DEF Request
  <2>4. reqs' = [reqs EXCEPT ![id] = x]
    BY <1>d, <2>2
  <2>5. /\ reqs' \in Seq(Request) /\ DOMAIN reqs' = DOMAIN reqs
        /\ reqs'[id] = x /\ \A k \in DOMAIN reqs : k # id => reqs'[k] = reqs[k]
    BY <1>d, <2>4, OneRequest
  <2>. QED BY <2>3, <2>5 DEF Kept
<1>g. ASSUME NEW q \in Route, IsQueued(q, id)
      PROVE  reqs[id].route = q /\ reqs[id].sent = 0 /\ id # br[q].cur
  <2>1. PICK n \in DOMAIN queue[q] : queue[q][n] = id
    BY <1>g DEF IsQueued
  <2>2. QueueOK(q)
    BY <1>a DEF RouteOK
  <2>. QED BY <2>1, <2>2 DEF QueueOK
<1>f. b => reqs[id].sent = 0
  BY <1>c, <1>g, Zenon
<1>1. BrokerTypeOK'
  BY <1>a, <1>b, <1>e DEF BrokerTypeOK
<1>2. ASSUME NEW q \in Route PROVE RouteOK(q)'
  <2>1. QueueOK(q) /\ CurOK(q) /\ LinkOK(q)
    BY <1>a DEF RouteOK
  <2>2. LinkOK(q)'
    BY <1>b, <2>1, Zenon DEF LinkOK
  <2>5. QueueOK(q)'
    BY <1>b, <1>e, <2>1 DEF QueueOK, Kept
  <2>3. ASSUME br[q].cur = id, br[q].cur # 0 PROVE ~b
    <3>1. reqs[id].route = q
      BY <2>1, <2>3 DEF CurOK
    <3>. QED BY <1>c, <1>g, <2>3, <3>1
  <2>4. CurOK(q)'
    <3>1. CASE br[q].cur = id
      BY <1>b, <1>e, <2>1, <2>3, <3>1, Zenon DEF CurOK, Kept
    <3>2. CASE br[q].cur # id
      BY <1>b, <1>e, <2>1, <3>2 DEF CurOK, Kept
    <3>. QED BY <3>1, <3>2
  <2>. QED BY <2>2, <2>4, <2>5 DEF RouteOK
<1>3. ASSUME NEW k \in DOMAIN reqs' PROVE RequestOK(k)'
  <2>1. k \in DOMAIN reqs /\ RequestOK(k) /\ cl' = cl
    BY <1>a, <1>b, <1>e DEF Kept
  <2>2. CASE k # id
    BY <1>e, <2>1, <2>2, RequestFrame, Zenon
  <2>3. CASE k = id
    <3>1. /\ reqs[id].sent \in {0, 1}
          /\ reqs[id].res # None /\ reqs[id].res.err = "none" =>
                reqs[id].res.by = id /\ reqs[id].sent = 1
      BY <2>1, <2>3 DEF RequestOK
    <3>2. reqs'[id].sent = reqs[id].sent /\ reqs'[id].res = reqs[id].res
      BY <1>e
    <3>. QED BY <1>e, <1>f, <2>1, <2>3, <3>1, <3>2, RequestChange, Zenon
  <2>. QED BY <2>2, <2>3
<1>4. ASSUME NEW d \in Clients PROVE ClientOK(d)'
  <2>1. /\ ClientOK(d) /\ cl'[d] = cl[d] /\ (stopped => stopped')
        /\ stopped' \in BOOLEAN /\ stopped \in BOOLEAN
        /\ \A k \in DOMAIN reqs : reqs[k].sent = 1 => reqs'[k].sent = 1
    BY <1>a, <1>b, <1>d, <1>e
  <2>. QED BY <1>e, <2>1, ClientFrame
<1>. QED BY <1>1, <1>2, <1>3, <1>4 DEF RoutingInv

(* The end of the server's context only relaxes what holds of the clients. *)
LEMMA StopKeeps == ASSUME RoutingInv, Stop \/ UNCHANGED vars PROVE RoutingInv'
<1>a. UNCHANGED <<cl, reqs, queue, br, wire, back>> /\ stopped' \in {TRUE, stopped}
  BY Zenon DEF Stop, vars
<1>b. BrokerTypeOK' /\ stopped \in BOOLEAN /\ stopped' \in BOOLEAN
  BY <1>a, Zenon DEF RoutingInv, BrokerTypeOK
<1>c. Kept(reqs, reqs')
  BY <1>a DEF Kept
<1>1. ASSUME NEW q \in Route PROVE RouteOK(q)'
  BY <1>a, <1>c, RouteFrame DEF RoutingInv
<1>2. ASSUME NEW k \in DOMAIN reqs' PROVE RequestOK(k)'
  BY <1>a, <1>c, RequestFrame DEF RoutingInv
<1>3. ASSUME NEW d \in Clients PROVE ClientOK(d)'
  BY <1>a, <1>b, <1>c, ClientFrame, Zenon DEF RoutingInv
<1>. QED BY <1>b, <1>1, <1>2, <1>3 DEF RoutingInv

(* Nobody has called, and every connection is empty.                       *)
LEMMA RoutingStarts == ASSUME Init PROVE RoutingInv
<1>a. Routes \in Seq(Route) /\ Len(Routes) \in Nat \ {0}
  <2>1. Routes \in Seq(STRING) /\ Len(Routes) \in Nat /\ DOMAIN Routes = 1 .. Len(Routes)
    BY BrokerConstants, LenProperties
  <2>2. Routes \in [1 .. Len(Routes) -> Route]
    BY <2>1, LenProperties DEF Route
  <2>3. Len(Routes) # 0
    BY <2>1, BrokerConstants, EmptySeq
  <2>. QED BY <2>1, <2>2, <2>3, IsASeq
<1>b. reqs = <<>> /\ DOMAIN reqs = {} /\ reqs \in Seq(Request) /\ stopped = FALSE
  BY EmptySeq DEF Init
<1>1. ASSUME NEW r \in Route
      PROVE  /\ RouteOK(r) /\ br[r] \in BrokerState
  <2>1. /\ queue[r] = <<>> /\ wire[r] = <<>> /\ back[r] = <<>>
        /\ br[r] = [pc |-> "idle", cur |-> 0, conn |-> "none",
                    connected |-> FALSE, errors |-> 0]
    BY DEF Init
  <2>2. br[r] \in BrokerState /\ br[r].pc = "idle" /\ br[r].cur = 0
    BY <2>1 DEF BrokerState
  <2>3. DOMAIN queue[r] = {}
    BY <2>1
  <2>4. QueueOK(r) /\ CurOK(r) /\ LinkOK(r)
    BY <2>1, <2>2, <2>3 DEF QueueOK, CurOK, LinkOK
  <2>. QED BY <2>2, <2>4 DEF RouteOK
<1>2. ASSUME NEW c \in Clients PROVE ClientOK(c) /\ cl[c] \in ClientState
  <2>1. PICK b \in BOOLEAN :
           cl[c] = [direct |-> b, pc |-> "idle", read |-> FALSE,
                    cands |-> Routes, i |-> 1, attempt |-> 0, req |-> 0,
                    calls |-> 0, answer |-> None]
    BY Zenon DEF Init
  <2>2. /\ cl[c] \in ClientState /\ cl[c].pc = "idle" /\ cl[c].cands = Routes /\ cl[c].i = 1
        /\ cl[c].read = FALSE /\ cl[c].calls = 0 /\ cl[c].answer = None /\ cl[c].req = 0
    BY <1>a, <2>1 DEF ClientState
  <2>3. ClientOK(c)
    BY <1>a, <2>2, BrokerConstants DEF ClientOK, Busy
  <2>. QED BY <2>2, <2>3
<1>3. BrokerTypeOK
  <2>1. cl \in [Clients -> ClientState]
    BY <1>2, Zenon DEF Init
  <2>2. br \in [Route -> BrokerState]
    BY <1>1 DEF Init
  <2>3. /\ queue \in [Route -> Seq(Nat)] /\ wire \in [Route -> Seq(Nat)]
        /\ back \in [Route -> Seq(DeviceReply)]
    BY EmptySeq DEF Init
  <2>. QED BY <1>b, <2>1, <2>2, <2>3, Zenon DEF BrokerTypeOK
<1>. QED BY <1>b, <1>1, <1>2, <1>3 DEF RoutingInv

(* The steps of one client and of one route and its device.                *)
LEMMA ClientKeeps ==
    ASSUME RoutingInv, NEW c \in Clients,
           \/ \E read \in BOOLEAN : Call(c, read)
           \/ ClientStep(c)
           \/ ~stopped /\ Leave(c)
    PROVE  RoutingInv'
<1>1. ASSUME NEW read \in BOOLEAN, Call(c, read) PROVE RoutingInv'
  BY <1>1, CallKeeps
<1>2. CASE Enqueue(c)
  BY <1>2, EnqueueKeeps
<1>3. CASE RouteFrameStep(c)
  BY <1>3, RouteFrameKeeps
<1>. QED BY <1>1, <1>2, <1>3 DEF ClientStep, RouteFrameStep

LEMMA RouteKeeps ==
    ASSUME RoutingInv, NEW r \in Route,
           BrokerStep(r) \/ LinkLost(r) \/ DeviceAnswers(r) \/ DeviceSilent(r)
    PROVE  RoutingInv'
<1>1. CASE DialOK(r) \/ SleepDone(r) \/ BrokerExit(r)
  BY <1>1, IdleBrokerKeeps
<1>2. CASE DeviceAnswers(r) \/ DeviceSilent(r)
  BY <1>2, DeviceKeeps
<1>3. CASE Take(r)
  BY <1>3, TakeKeeps
<1>4. CASE DialFail(r) \/ ExchangeAborted(r) \/ LinkLost(r)
  BY <1>4, FailureKeeps
<1>5. CASE ReadReply(r)
  BY <1>5, ReadReplyKeeps
<1>6. CASE WriteFrame(r)
  BY <1>6, WriteFrameKeeps
<1>. QED BY <1>1, <1>2, <1>3, <1>4, <1>5, <1>6 DEF BrokerStep

LEMMA RoutingKept == RoutingInv /\ [Next]_vars => RoutingInv'
<1>1. SUFFICES ASSUME RoutingInv, [Next]_vars PROVE RoutingInv'
  OBVIOUS
<1>2. CASE UNCHANGED vars
  BY <1>1, <1>2, StopKeeps
<1>3. CASE Next
  <2>1. CASE Stop
    BY <1>1, <2>1, StopKeeps
  <2>2. ASSUME NEW id \in DOMAIN reqs, Expire(id) PROVE RoutingInv'
    BY <1>1, <2>2, ExpireKeeps
  <2>. QED BY <1>1, <1>3, <2>1, <2>2, ClientKeeps, RouteKeeps DEF Next
<1>. QED BY <1>1, <1>2, <1>3

(***************************************************************************)
(* A client is answered by the device's reply to a frame sent for this     *)
(* very call, and a request that timed out in its queue is never sent, for *)
(* any clients, routes and queue capacity (routeFrame, runBroker,          *)
(* exchange).                                                              *)
(***************************************************************************)
THEOREM AnswersMatch == Spec => []AnswersAreForThisCall
<1>1. Init => RoutingInv
  BY RoutingStarts
<1>2. RoutingInv => AnswersAreForThisCall
  BY Zenon DEF RoutingInv, ClientOK, RequestOK, AnswersAreForThisCall
<1>. QED BY <1>1, <1>2, RoutingKept, PTL DEF Spec

(***************************************************************************)
(* routeFrame fails a read only when it has tried the last candidate, as   *)
(* long as the server runs.                                                *)
(***************************************************************************)
THEOREM ReadsExhaust == Spec => []ReadsExhaustTheirRoutes
<1>1. Init => RoutingInv
  BY RoutingStarts
<1>2. RoutingInv => ReadsExhaustTheirRoutes
  BY DEF RoutingInv, ClientOK, ReadsExhaustTheirRoutes
<1>. QED BY <1>1, <1>2, RoutingKept, PTL DEF Spec

-----------------------------------------------------------------------------
(* The contract of routing                                                 *)

(* A step that sends no frame of a write.                                  *)
LEMMA OutsSame ==
    ASSUME RoutingInv, RoutingInv',
           \A c \in Clients, n \in 1 .. MaxCalls : WentOut(c, n)' <=> WentOut(c, n)
    PROVE  Outs' = Outs
<1>1. ASSUME NEW c \in Clients, NEW n \in 1 .. MaxCalls
      PROVE  WritesSent(c, n)' = WritesSent(c, n)
  <2>1. WritesSent(c, n)' = IF WentOut(c, n)' THEN 1 ELSE 0
    BY WritesCountNext, Zenon
  <2>. QED BY <2>1, WritesCount
<1>. QED BY <1>1 DEF Outs

LEMMA OutsKept ==
    ASSUME RoutingInv, RoutingInv', Kept(reqs, reqs'),
           \A k \in DOMAIN reqs : reqs'[k].sent = reqs[k].sent
    PROVE  Outs' = Outs
  BY OutsSame DEF WentOut, Kept

(* What the contract sees of a client that changes.                        *)
LEMMA CallsChange ==
    ASSUME NEW c \in Clients, NEW x, cl \in [Clients -> ClientState],
           cl' = [cl EXCEPT ![c] = x]
    PROVE  Calls' = [Calls EXCEPT ![c] = Seen(x)]
<1>1. \A d \in Clients : Seen(cl'[d]) = IF d = c THEN Seen(x) ELSE Seen(cl[d])
  BY Zenon DEF Seen
<1>. QED BY <1>1, Zenon DEF Calls

LEMMA SeenFields ==
    ASSUME RoutingInv, NEW c \in Clients
    PROVE  /\ Calls[c] = Seen(cl[c])
           /\ Calls[c].pc = IF Busy(c) THEN "busy" ELSE cl[c].pc
           /\ Calls[c].n = cl[c].calls /\ Calls[c].read = cl[c].read
           /\ Calls[c].outcome = "reply" => cl[c].answer \notin {None, Failed}
  BY BrokerConstants, Zenon DEF Calls, Seen, Busy

(* Call begins a call.                                                     *)
LEMMA CallBegins ==
    ASSUME RoutingInv, NEW c \in Clients, NEW read \in BOOLEAN, Call(c, read)
    PROVE  Contract!Begin(c, read)
<1>a. PICK x \in ClientState : /\ cl' = [cl EXCEPT ![c] = x]
                               /\ x.pc = "enqueue" /\ x.read = read
                               /\ x.calls = cl[c].calls + 1 /\ x.answer = None
  BY CallKeeps
<1>b. /\ RoutingInv' /\ reqs' = reqs /\ cl[c].pc = "idle" /\ cl[c].calls < MaxCalls
  BY CallKeeps, Zenon
<1>c. cl \in [Clients -> ClientState]
  BY DEF RoutingInv, BrokerTypeOK
<1>1. Outs' = Outs
  BY <1>b, OutsKept, Zenon DEF Kept
<1>2. Calls[c].pc = "idle" /\ Calls[c].n = cl[c].calls
  BY <1>b, SeenFields, Zenon DEF Busy
<1>3. Seen(x) = [pc |-> "busy", n |-> Calls[c].n + 1, read |-> read, outcome |-> None]
  BY <1>a, <1>2 DEF Seen
<1>4. Calls' = [Calls EXCEPT ![c] = Seen(x)]
  BY <1>a, <1>c, CallsChange, Zenon
<1>. QED BY <1>b, <1>1, <1>2, <1>3, <1>4, Zenon DEF Contract!Begin

(* Making a request changes nothing the contract sees.                     *)
LEMMA EnqueueStutters ==
    ASSUME RoutingInv, NEW c \in Clients, Enqueue(c)
    PROVE  Calls' = Calls /\ Outs' = Outs
<1>a. /\ RoutingInv' /\ DOMAIN reqs \subseteq DOMAIN reqs'
      /\ \A k \in DOMAIN reqs : reqs'[k] = reqs[k]
      /\ \A k \in DOMAIN reqs' : k \notin DOMAIN reqs => reqs'[k].sent = 0
  BY EnqueueKeeps, Zenon
<1>b. cl \in [Clients -> ClientState] /\ cl[c] \in ClientState
  BY DEF RoutingInv, BrokerTypeOK
<1>1. \A d, k : WentOut(d, k)' <=> WentOut(d, k)
  BY <1>a DEF WentOut
<1>2. PICK x : x = [cl[c] EXCEPT !.pc = "wait", !.req = Len(reqs) + 1]
  OBVIOUS
<1>3. /\ x.pc = "wait" /\ cl[c].pc = "enqueue" /\ x.calls = cl[c].calls
      /\ x.read = cl[c].read /\ x.answer = cl[c].answer
  BY <1>b, <1>2, Zenon DEF Enqueue, ClientState
<1>4. Seen(x) = Seen(cl[c])
  BY <1>3 DEF Seen
<1>5. cl' = [cl EXCEPT ![c] = x]
  BY <1>b, <1>2 DEF Enqueue
<1>6. Calls' = [Calls EXCEPT ![c] = Seen(cl[c])]
  BY <1>b, <1>4, <1>5, CallsChange, Zenon
<1>7. Calls' = Calls
  BY <1>6, Zenon DEF Calls
<1>. QED BY <1>a, <1>1, <1>7, OutsSame, Zenon

(* routeFrame moves a read on unseen, or the call is answered or fails, or *)
(* the client leaves.                                                      *)
LEMMA RouteFrameEnds ==
    ASSUME RoutingInv, NEW c \in Clients, RouteFrameStep(c)
    PROVE  \/ Calls' = Calls /\ Outs' = Outs
           \/ Contract!Answer(c) \/ Contract!Fail(c) \/ Contract!Leave(c)
<1>a. /\ RoutingInv' /\ reqs' = reqs /\ cl \in [Clients -> ClientState]
      /\ cl[c] \in ClientState /\ ClientOK(c)
  BY RouteFrameKeeps, RouteFrameEffect, Zenon DEF RoutingInv, BrokerTypeOK
<1>b. PICK x \in ClientState : /\ cl' = [cl EXCEPT ![c] = x] /\ SameCall(c, x)
                               /\ MovesOn(c, x) \/ Ends(c, x)
  BY RouteFrameEffect, Zenon
<1>c. Outs' = Outs
  BY <1>a, OutsKept DEF Kept
<1>d. Calls' = [Calls EXCEPT ![c] = Seen(x)]
  BY <1>a, <1>b, CallsChange, Zenon
<1>e. x.calls = cl[c].calls /\ x.read = cl[c].read
  BY <1>b, Zenon DEF SameCall
<1>f. /\ Calls[c] = Seen(cl[c]) /\ Calls[c].pc = IF Busy(c) THEN "busy" ELSE cl[c].pc
      /\ Calls[c].n = cl[c].calls /\ Calls[c].read = cl[c].read
  BY SeenFields, Zenon
<1>g. ASSUME NEW pc, NEW out,
             pc = IF x.pc \in {"enqueue", "wait"} THEN "busy" ELSE x.pc,
             out = IF x.answer = None THEN None
                   ELSE IF x.answer = Failed THEN "error" ELSE "reply"
      PROVE  Contract!Ends(c, pc, out)
  <2>1. Seen(x) = [pc |-> pc, n |-> Calls[c].n, read |-> Calls[c].read, outcome |-> out]
    BY <1>e, <1>f, <1>g, Zenon DEF Seen
  <2>. QED BY <1>c, <1>d, <2>1, Zenon DEF Contract!Ends
<1>1. CASE MovesOn(c, x)
  <2>1. Seen(x) = Seen(cl[c])
    BY <1>1, <1>e DEF MovesOn, Seen, Busy
  <2>2. Calls' = Calls
    BY <1>d, <2>1, Zenon DEF Calls
  <2>. QED BY <1>c, <2>2, Zenon
<1>2. CASE EndsInReply(c, x)
  <2>1. x.answer \in Requests(c) /\ reqs[x.answer].sent = 1 /\ x.pc = "idle" /\ Busy(c)
    BY <1>2, Zenon DEF EndsInReply
  <2>2. x.answer \in DOMAIN reqs /\ x.answer \in Nat \ {0}
    BY <2>1, LenProperties DEF Requests, RoutingInv, BrokerTypeOK
  <2>3. x.answer # None /\ x.answer # Failed
    BY <2>2, BrokerConstants, Zenon DEF Failed
  <2>4. Contract!Ends(c, "idle", "reply")
    BY <1>g, <2>1, <2>3, Zenon
  <2>5. ASSUME ~cl[c].read PROVE Outs[c][cl[c].calls] = 1
    <3>6. cl[c].calls >= 1 /\ cl[c].calls <= MaxCalls
      BY <1>a, <2>1 DEF ClientOK
    <3>7. cl[c].calls \in Nat
      BY <1>a DEF ClientState
    <3>1. cl[c].calls \in 1 .. MaxCalls
      BY <3>6, <3>7, BrokerConstants
    <3>2. RequestOK(x.answer) /\ reqs[x.answer].client = c /\ reqs[x.answer].call = cl[c].calls
      BY <2>1, <2>2, Zenon DEF RoutingInv, Requests
    <3>3. ~reqs[x.answer].read
      BY <2>5, <3>2, Zenon DEF RequestOK
    <3>4. WentOut(c, cl[c].calls)
      BY <2>1, <2>2, <3>2, <3>3 DEF WentOut
    <3>5. WritesSent(c, cl[c].calls) = 1
      BY <3>4, WritesCount, Zenon
    <3>. QED BY <3>1, <3>5, Zenon DEF Outs
  <2>. QED BY <1>f, <2>1, <2>4, <2>5, Zenon DEF Contract!Answer
<1>3. CASE EndsInError(c, x)
  <2>1. Busy(c) /\ x.answer = Failed /\ x.pc \in {"idle", "gone"}
    BY <1>3 DEF EndsInError
  <2>2. Failed # None
    BY BrokerConstants DEF Failed
  <2>3. Contract!Ends(c, x.pc, "error")
    BY <1>g, <2>1, <2>2, Zenon
  <2>. QED BY <1>f, <2>1, <2>3 DEF Contract!Fail
<1>4. CASE cl[c].pc # "gone" /\ x.pc = "gone" /\ x.answer = None
  <2>1. Contract!Ends(c, "gone", None)
    BY <1>g, <1>4, Zenon
  <2>2. Calls[c].pc \in {"idle", "busy"}
    BY <1>a, <1>f, <1>4 DEF Busy, ClientState
  <2>. QED BY <2>1, <2>2 DEF Contract!Leave
<1>. QED BY <1>b, <1>1, <1>2, <1>3, <1>4, Zenon DEF Ends

(* The frame of a write goes out, that of a read is not the contract's     *)
(* concern.                                                                *)
LEMMA WriteFrameGoesOut ==
    ASSUME RoutingInv, NEW r \in Route, WriteFrame(r)
    PROVE  \/ Calls' = Calls /\ Outs' = Outs
           \/ \E c \in Clients, n \in 1 .. MaxCalls : Contract!GoOut(c, n)
<1>a. RoutingInv'
  BY WriteFrameKeeps
<1>b. br[r].pc = "write" /\ cl' = cl
  BY Zenon DEF WriteFrame
<1>c. PICK id \in DOMAIN reqs : id = br[r].cur /\ reqs[id].sent = 0
  BY <1>b, CurrentRequest, Zenon
<1>d. reqs \in Seq(Request) /\ reqs' = WithSent(reqs, id)
  BY <1>c, Zenon DEF WriteFrame, Cur, WithSent, RoutingInv, BrokerTypeOK
<1>e. /\ Kept(reqs, reqs') /\ reqs'[id].sent = 1
      /\ \A k \in DOMAIN reqs : k # id => reqs'[k] = reqs[k]
  BY <1>c, <1>d, SentChange
<1>f. Calls' = Calls
  BY <1>b DEF Calls
<1>1. CASE reqs[id].read
  <2>1. \A d, k : WentOut(d, k)' <=> WentOut(d, k)
    BY <1>1, <1>e, Zenon DEF WentOut, Kept
  <2>. QED BY <1>a, <1>f, <2>1, OutsSame, Zenon
<1>2. CASE ~reqs[id].read
  <2>1. RequestOK(id) /\ reqs[id] \in Request
    BY <1>d, ElementOfSeq, LenProperties, Zenon DEF RoutingInv
  <2>2. PICK c \in Clients : c = reqs[id].client
    BY <2>1 DEF Request
  <2>3. PICK n : n = reqs[id].call
    BY Zenon
  <2>4. ClientOK(c) /\ cl[c] \in ClientState
    BY Zenon DEF RoutingInv, BrokerTypeOK
  <2>5. n \in 1 .. cl[c].calls /\ n \in 1 .. MaxCalls
    <3>1. n \in 1 .. cl[c].calls /\ cl[c].calls \in Nat /\ cl[c].calls <= MaxCalls
      BY <2>1, <2>2, <2>3, <2>4, Zenon DEF RequestOK, ClientOK, ClientState
    <3>. QED BY <3>1, BrokerConstants
  <2>6. \A k \in DOMAIN reqs : reqs[k].client = c /\ reqs[k].call = n => k = id
    BY <1>2, <2>1, <2>2, <2>3, Zenon DEF RequestOK
  <2>7. ~WentOut(c, n) /\ WentOut(c, n)'
    BY <1>2, <1>c, <1>e, <2>2, <2>3, <2>6 DEF WentOut, Kept
  <2>8. \A d, k : ~(d = c /\ k = n) => (WentOut(d, k)' <=> WentOut(d, k))
    BY <1>e, <2>2, <2>3 DEF WentOut, Kept
  <2>9. ASSUME n = cl[c].calls
        PROVE  ~cl[c].read /\ Calls[c].outcome # "reply"
    <3>1. ~cl[c].read
      BY <1>2, <2>1, <2>2, <2>3, <2>9 DEF RequestOK
    <3>2. ASSUME Calls[c].outcome = "reply" PROVE FALSE
      <4>1. cl[c].answer \in Requests(c) /\ reqs[cl[c].answer].sent = 1
        BY <2>4, <3>2, SeenFields, Zenon DEF ClientOK
      <4>2. cl[c].answer = id
        BY <2>6, <2>9, <4>1, Zenon DEF Requests
      <4>. QED BY <1>c, <4>1, <4>2
    <3>. QED BY <3>1, <3>2, Zenon
  <2>10. ASSUME NEW d \in Clients, NEW k \in 1 .. MaxCalls
         PROVE  /\ WritesSent(d, k) = IF WentOut(d, k) THEN 1 ELSE 0
                /\ WritesSent(d, k)' = IF d = c /\ k = n THEN 1 ELSE WritesSent(d, k)
    <3>1. WritesSent(d, k) = IF WentOut(d, k) THEN 1 ELSE 0
      BY WritesCount
    <3>2. WritesSent(d, k)' = IF WentOut(d, k)' THEN 1 ELSE 0
      BY <1>a, WritesCountNext
    <3>. QED BY <2>7, <2>8, <3>1, <3>2
  <2>11. Outs[c][n] = 0
    BY <2>5, <2>7, <2>10 DEF Outs
  <2>12. Outs' = [Outs EXCEPT ![c] = [Outs[c] EXCEPT ![n] = 1]]
    <3>1. Outs' = [d \in Clients |-> [k \in 1 .. MaxCalls |->
                      IF d = c /\ k = n THEN 1 ELSE Outs[d][k]]]
      BY <2>10, Zenon DEF Outs
    <3>2. /\ Outs = [d \in Clients |-> [k \in 1 .. MaxCalls |-> Outs[d][k]]]
          /\ \A d \in Clients : Outs[d] = [k \in 1 .. MaxCalls |-> Outs[d][k]]
      BY DEF Outs
    <3>3. [Outs[c] EXCEPT ![n] = 1] =
             [k \in 1 .. MaxCalls |-> IF k = n THEN 1 ELSE Outs[c][k]]
      BY <2>5, <3>2, Zenon
    <3>. QED BY <3>1, <3>2, <3>3, Zenon
  <2>13. Calls[c].n = cl[c].calls /\ Calls[c].read = cl[c].read
    BY SeenFields, Zenon
  <2>14. Contract!GoOut(c, n)
    BY <1>f, <2>5, <2>9, <2>11, <2>12, <2>13 DEF Contract!GoOut
  <2>. QED BY <2>5, <2>14, Zenon
<1>. QED BY <1>1, <1>2

(* Everything else at a route changes only results, and no client.         *)
LEMMA RouteStutters ==
    ASSUME RoutingInv, NEW r \in Route,
           BrokerStep(r) \/ LinkLost(r) \/ DeviceAnswers(r) \/ DeviceSilent(r),
           ~WriteFrame(r)
    PROVE  Calls' = Calls /\ Outs' = Outs
<1>a. RoutingInv' /\ reqs \in Seq(Request)
  BY RouteKeeps, Zenon DEF RoutingInv, BrokerTypeOK
<1>b. cl' = cl
  BY Zenon DEF BrokerStep, Take, DialOK, DialFail, SleepDone, ExchangeAborted, FailExchange,
         ReadReply, BrokerExit, LinkLost, DeviceAnswers, DeviceSilent
<1>c. ASSUME NEW id \in DOMAIN reqs, NEW v,
             reqs' = [reqs EXCEPT ![id] = [reqs[id] EXCEPT !.res = v]]
      PROVE  Kept(reqs, reqs') /\ \A k \in DOMAIN reqs : reqs'[k].sent = reqs[k].sent
  <2>1. reqs[id] \in Request
    BY <1>a, ElementOfSeq, LenProperties
  <2>2. PICK x : x = [reqs[id] EXCEPT !.res = v]
    BY Zenon
  <2>3. /\ x.client = reqs[id].client /\ x.call = reqs[id].call /\ x.sent = reqs[id].sent
        /\ x.route = reqs[id].route /\ x.read = reqs[id].read
    BY <2>1, <2>2 DEF Request
  <2>4. reqs' = [reqs EXCEPT ![id] = x]
    BY <1>c, <2>2, Zenon
  <2>. QED BY <2>3, <2>4 DEF Kept
<1>1. Kept(reqs, reqs') /\ \A k \in DOMAIN reqs : reqs'[k].sent = reqs[k].sent
  <2>1. CASE reqs' = reqs
    BY <2>1 DEF Kept
  <2>2. ASSUME br[r].pc \in {"dial", "write", "read"}, NEW v, Reply(r, v)
        PROVE  Kept(reqs, reqs') /\ \A k \in DOMAIN reqs : reqs'[k].sent = reqs[k].sent
    <3>1. br[r].cur \in DOMAIN reqs
      BY <2>2, CurrentRequest
    <3>. QED BY <1>c, <2>2, <3>1, Zenon DEF Reply, Cur
  <2>3. CASE Take(r)
    <3>1. Head(queue[r]) \in DOMAIN reqs
      <4>1. QueueOK(r) /\ queue[r] \in Seq(Nat) /\ queue[r] # <<>>
        BY <2>3, RouteTypes, Zenon DEF Take
      <4>2. Head(queue[r]) = queue[r][1] /\ 1 \in DOMAIN queue[r]
        BY <4>1, EmptySeq, LenProperties, HeadTailProperties
      <4>. QED BY <4>1, <4>2, Zenon DEF QueueOK
    <3>. QED BY <1>c, <2>1, <2>3, <3>1, Zenon DEF Take
  <2>4. CASE DialFail(r)
    BY <2>2, <2>4 DEF DialFail
  <2>5. CASE ExchangeAborted(r) \/ LinkLost(r)
    BY <2>2, <2>5 DEF ExchangeAborted, LinkLost, FailExchange
  <2>6. CASE ReadReply(r)
    BY <2>2, <2>6, Zenon DEF ReadReply
  <2>7. CASE DialOK(r) \/ SleepDone(r) \/ BrokerExit(r) \/ DeviceAnswers(r) \/ DeviceSilent(r)
    BY <2>1, <2>7, Zenon DEF DialOK, SleepDone, BrokerExit, DeviceAnswers, DeviceSilent
  <2>. QED BY <2>3, <2>4, <2>5, <2>6, <2>7 DEF BrokerStep
<1>. QED BY <1>a, <1>b, <1>1, OutsKept, Zenon DEF Calls

LEMMA ContractStarts == ASSUME Init PROVE Contract!Init
<1>a. RoutingInv
  BY RoutingStarts, Zenon
<1>b. DOMAIN reqs = {}
  BY EmptySeq DEF Init
<1>1. ASSUME NEW c \in Clients
      PROVE  Seen(cl[c]) = [pc |-> "idle", n |-> 0, read |-> FALSE, outcome |-> None]
  <2>1. cl[c].pc = "idle" /\ cl[c].calls = 0 /\ cl[c].read = FALSE /\ cl[c].answer = None
    BY DEF Init
  <2>. QED BY <2>1, Zenon DEF Seen
<1>2. ASSUME NEW c \in Clients, NEW n \in 1 .. MaxCalls PROVE WritesSent(c, n) = 0
  BY <1>a, <1>b, WritesCount DEF WentOut
<1>3. Calls = [c \in Clients |-> [pc |-> "idle", n |-> 0, read |-> FALSE, outcome |-> None]]
  BY <1>1, Zenon DEF Calls
<1>4. Outs = [c \in Clients |-> [n \in 1 .. MaxCalls |-> 0]]
  BY <1>2 DEF Outs
<1>. QED BY <1>3, <1>4 DEF Contract!Init

LEMMA ContractSteps ==
    RoutingInv /\ [Next]_vars => [Contract!Next]_(Contract!contractVars)
<1>1. SUFFICES ASSUME RoutingInv, [Next]_vars
               PROVE  Contract!Next \/ (Calls' = Calls /\ Outs' = Outs)
  BY DEF Contract!contractVars
<1>a. RoutingInv'
  BY <1>1, RoutingKept
<1>2. CASE UNCHANGED vars
  <2>1. cl' = cl /\ reqs' = reqs
    BY <1>2 DEF vars
  <2>2. Outs' = Outs
    BY <1>1, <1>a, <2>1, OutsKept DEF Kept
  <2>. QED BY <2>1, <2>2 DEF Calls
<1>3. ASSUME NEW c \in Clients, NEW read \in BOOLEAN, Call(c, read) PROVE Contract!Next
  BY <1>1, <1>3, CallBegins DEF Contract!Next
<1>4. ASSUME NEW c \in Clients, ClientStep(c) \/ (~stopped /\ Leave(c))
      PROVE  Contract!Next \/ (Calls' = Calls /\ Outs' = Outs)
  <2>1. CASE Enqueue(c)
    BY <1>1, <2>1, EnqueueStutters
  <2>2. CASE RouteFrameStep(c)
    BY <1>1, <2>2, RouteFrameEnds, Zenon DEF Contract!Next
  <2>. QED BY <1>4, <2>1, <2>2 DEF ClientStep, RouteFrameStep
<1>5. ASSUME NEW id \in DOMAIN reqs, Expire(id) PROVE Calls' = Calls /\ Outs' = Outs
  <2>1. cl' = cl /\ reqs \in Seq(Request)
    BY <1>1, <1>5 DEF Expire, RoutingInv, BrokerTypeOK
  <2>2. reqs[id] \in Request
    BY <2>1, ElementOfSeq, LenProperties
  <2>3. PICK x : x = [reqs[id] EXCEPT !.expired = TRUE,
                                      !.lapsed = \E r \in Route : IsQueued(r, id)]
    BY Zenon
  <2>4. /\ x.client = reqs[id].client /\ x.call = reqs[id].call /\ x.sent = reqs[id].sent
        /\ x.route = reqs[id].route /\ x.read = reqs[id].read
    BY <2>2, <2>3 DEF Request
  <2>5. reqs' = [reqs EXCEPT ![id] = x]
    BY <1>5, <2>3, Zenon DEF Expire
  <2>6. Kept(reqs, reqs') /\ \A k \in DOMAIN reqs : reqs'[k].sent = reqs[k].sent
    BY <2>4, <2>5 DEF Kept
  <2>. QED BY <1>1, <1>a, <2>1, <2>6, OutsKept DEF Calls
<1>6. ASSUME NEW r \in Route,
             BrokerStep(r) \/ LinkLost(r) \/ DeviceAnswers(r) \/ DeviceSilent(r)
      PROVE  Contract!Next \/ (Calls' = Calls /\ Outs' = Outs)
  <2>1. CASE WriteFrame(r)
    BY <1>1, <2>1, WriteFrameGoesOut, Zenon DEF Contract!Next
  <2>2. CASE ~WriteFrame(r)
    BY <1>1, <1>6, <2>2, RouteStutters
  <2>. QED BY <2>1, <2>2
<1>7. CASE Stop
  <2>1. cl' = cl /\ reqs' = reqs
    BY <1>7 DEF Stop
  <2>2. Outs' = Outs
    BY <1>1, <1>a, <2>1, OutsKept DEF Kept
  <2>. QED BY <2>1, <2>2 DEF Calls
<1>8. ASSUME Next PROVE Contract!Next \/ (Calls' = Calls /\ Outs' = Outs)
  <2>1. ASSUME NEW c \in Clients,
               \/ \E read \in BOOLEAN : Call(c, read)
               \/ ClientStep(c)
               \/ ~stopped /\ Leave(c)
        PROVE  Contract!Next \/ (Calls' = Calls /\ Outs' = Outs)
    <3>1. CASE \E read \in BOOLEAN : Call(c, read)
      BY <1>3, <3>1, Zenon
    <3>2. CASE ClientStep(c) \/ (~stopped /\ Leave(c))
      BY <1>4, <3>2, Zenon
    <3>. QED BY <2>1, <3>1, <3>2, Zenon
  <2>. QED BY <1>5, <1>6, <1>7, <1>8, <2>1, Zenon DEF Next
<1>. QED BY <1>1, <1>2, <1>8

(***************************************************************************)
(* Routing keeps its contract: whatever clients, brokers, timers and       *)
(* devices do, a write is put on the wire at most once, only while or      *)
(* after its call is made, and a write is answered with a reply only if it *)
(* went out (routeFrame, runBroker, exchange).                             *)
(***************************************************************************)
THEOREM RoutingImplementsContract == Spec => ImplementsContract
<1>1. Init => RoutingInv /\ Contract!Init
  BY RoutingStarts, ContractStarts
<1>. QED BY <1>1, RoutingKept, ContractSteps, PTL DEF Spec, ImplementsContract, Contract!Spec

=============================================================================

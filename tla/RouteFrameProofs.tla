-------------------------- MODULE RouteFrameProofs --------------------------
(***************************************************************************)
(* Where requests and frames are: the inductive invariant of the route     *)
(* brokers, the clients' steps, and what the brokers' steps leave alone of *)
(* it.  RouteBrokerProofs has the brokers' steps and what follows.         *)
(*                                                                         *)
(* MeCom replies carry no identity that exchange compares.  The argument   *)
(* is therefore about places: a request is in one queue at most, or with   *)
(* one broker, never both; and a connection holds at most one frame, that  *)
(* of the exchange under way, which closeConn takes away with it.          *)
(***************************************************************************)
EXTENDS RouteBroker, TLAPS

-----------------------------------------------------------------------------
(* Sequences                                                               *)

LEMMA ElementOfSeq ==
    ASSUME NEW S, NEW s \in Seq(S), NEW n \in 1 .. Len(s) PROVE s[n] \in S
  OBVIOUS

LEMMA LenProperties ==
    ASSUME NEW S, NEW s \in Seq(S)
    PROVE  Len(s) \in Nat /\ s \in [1 .. Len(s) -> S] /\ DOMAIN s = 1 .. Len(s)
  OBVIOUS

LEMMA EmptySeq ==
    ASSUME NEW S
    PROVE  /\ <<>> \in Seq(S) /\ Len(<<>>) = 0
           /\ \A s \in Seq(S) : s # <<>> => Len(s) \in Nat \ {0}
  OBVIOUS

LEMMA HeadTailProperties ==
    ASSUME NEW S, NEW s \in Seq(S), s # <<>>
    PROVE  /\ Head(s) \in S /\ Tail(s) \in Seq(S) /\ Len(Tail(s)) = Len(s) - 1
           /\ \A i \in 1 .. Len(Tail(s)) : Tail(s)[i] = s[i + 1]
  OBVIOUS

LEMMA AppendProperties ==
    ASSUME NEW S, NEW s \in Seq(S), NEW e \in S
    PROVE  /\ Append(s, e) \in Seq(S) /\ Len(Append(s, e)) = Len(s) + 1
           /\ \A i \in 1 .. Len(s) : Append(s, e)[i] = s[i]
           /\ Append(s, e)[Len(s) + 1] = e
  OBVIOUS

LEMMA ExceptSeq ==
    ASSUME NEW S, NEW s \in Seq(S), NEW i \in 1 .. Len(s), NEW e \in S
    PROVE  /\ [s EXCEPT ![i] = e] \in Seq(S) /\ Len([s EXCEPT ![i] = e]) = Len(s)
           /\ \A j \in 1 .. Len(s) : [s EXCEPT ![i] = e][j] = IF j = i THEN e ELSE s[j]
  OBVIOUS

LEMMA IsASeq == ASSUME NEW S, NEW n \in Nat, NEW f \in [1 .. n -> S] PROVE f \in Seq(S)
  OBVIOUS

-----------------------------------------------------------------------------
(* The inductive invariant                                                 *)

ClientState ==
    [direct : BOOLEAN, pc : {"idle", "enqueue", "wait", "gone"}, read : BOOLEAN,
     cands : Seq(Route), i : Nat, attempt : Nat, req : Nat, calls : Nat,
     answer : Nat \cup {None}]

Result == [err : {"none", "transient", "other"}, kind : Kinds \cup {None}, by : Nat]

Request ==
    [client : Clients, call : Nat, route : Route, read : BOOLEAN, expired : BOOLEAN,
     lapsed : BOOLEAN, sent : Nat, res : Result \cup {None}]

BrokerState ==
    [pc : {"idle", "dial", "sleep", "write", "read", "exited"}, cur : Nat,
     conn : {"none", "open", "dead"}, connected : BOOLEAN, errors : Nat]

DeviceReply == [id : Nat, kind : Kinds]

BrokerTypeOK ==
    /\ cl \in [Clients -> ClientState]
    /\ reqs \in Seq(Request)
    /\ queue \in [Route -> Seq(Nat)]
    /\ br \in [Route -> BrokerState]
    /\ wire \in [Route -> Seq(Nat)]
    /\ back \in [Route -> Seq(DeviceReply)]
    /\ stopped \in BOOLEAN

(* What is queued has not been sent, is queued once, and is not with the   *)
(* broker.                                                                 *)
QueueOK(r) ==
    /\ \A n \in DOMAIN queue[r] :
          /\ queue[r][n] \in DOMAIN reqs /\ queue[r][n] # br[r].cur
          /\ reqs[queue[r][n]].route = r /\ reqs[queue[r][n]].sent = 0
    /\ \A n, m \in DOMAIN queue[r] : queue[r][n] = queue[r][m] => n = m

(* What the broker has taken is sent when it reads, and not before, and    *)
(* its caller was there when it was taken.                                 *)
CurOK(r) ==
    /\ br[r].cur # 0 <=> br[r].pc \in {"dial", "write", "read"}
    /\ br[r].cur # 0 =>
          /\ br[r].cur \in DOMAIN reqs
          /\ reqs[br[r].cur].route = r /\ ~reqs[br[r].cur].lapsed
          /\ reqs[br[r].cur].sent = IF br[r].pc = "read" THEN 1 ELSE 0

(* A connection holds nothing but the frame of the exchange under way.     *)
LinkOK(r) ==
    \/ wire[r] = <<>> /\ back[r] = <<>>
    \/ br[r].pc = "read" /\ wire[r] = <<br[r].cur>> /\ back[r] = <<>>
    \/ /\ br[r].pc = "read" /\ wire[r] = <<>>
       /\ \E k \in Kinds : back[r] = <<[id |-> br[r].cur, kind |-> k]>>

RouteOK(r) == QueueOK(r) /\ CurOK(r) /\ LinkOK(r)

(* A reply is the device's to this request; a write has one request.       *)
RequestOK(id) ==
    /\ reqs[id].lapsed => reqs[id].expired /\ reqs[id].sent = 0
    /\ reqs[id].sent \in {0, 1}
    /\ reqs[id].res # None /\ reqs[id].res.err = "none" =>
          reqs[id].res.by = id /\ reqs[id].sent = 1
    /\ reqs[id].call \in 1 .. cl[reqs[id].client].calls
    /\ reqs[id].call = cl[reqs[id].client].calls =>
          reqs[id].read = cl[reqs[id].client].read
    /\ ~reqs[id].read =>
          \A k \in DOMAIN reqs :
             reqs[k].client = reqs[id].client /\ reqs[k].call = reqs[id].call => k = id

Busy(c) == cl[c].pc \in {"enqueue", "wait"}

ClientOK(c) ==
    /\ cl[c].calls <= MaxCalls
    /\ cl[c].i \in 1 .. Len(cl[c].cands)
    /\ Busy(c) /\ cl[c].direct => Len(cl[c].cands) = 1
    /\ cl[c].pc = "wait" => cl[c].req \in Requests(c)
    /\ cl[c].pc # "wait" => cl[c].req = 0
    /\ Busy(c) => cl[c].answer = None /\ cl[c].attempt >= 1 /\ cl[c].calls >= 1
    /\ cl[c].pc = "enqueue" /\ ~cl[c].read => Requests(c) = {}
    /\ cl[c].answer \notin {None, Failed} =>
          cl[c].answer \in Requests(c) /\ reqs[cl[c].answer].sent = 1
    /\ cl[c].read /\ cl[c].answer = Failed /\ ~stopped => cl[c].i = Len(cl[c].cands)

RoutingInv ==
    /\ BrokerTypeOK
    /\ \A r \in Route : RouteOK(r)
    /\ \A id \in DOMAIN reqs : RequestOK(id)
    /\ \A c \in Clients : ClientOK(c)

-----------------------------------------------------------------------------
(* What a step does to the requests                                        *)

(* Who a request is for, and where it goes, never changes.                 *)
Kept(q, p) ==
    /\ DOMAIN p = DOMAIN q
    /\ \A k \in DOMAIN q :
          /\ p[k].client = q[k].client /\ p[k].call = q[k].call
          /\ p[k].route = q[k].route /\ p[k].read = q[k].read

WithRes(q, id, v) == [q EXCEPT ![id] = [q[id] EXCEPT !.res = v]]
WithSent(q, id) == [q EXCEPT ![id] = [q[id] EXCEPT !.sent = @ + 1]]

(* Replacing one request of the sequence.                                  *)
LEMMA OneRequest ==
    ASSUME NEW q \in Seq(Request), NEW id \in DOMAIN q, NEW x \in Request,
           NEW p, p = [q EXCEPT ![id] = x]
    PROVE  /\ p \in Seq(Request) /\ DOMAIN p = DOMAIN q
           /\ p[id] = x /\ \A k \in DOMAIN q : k # id => p[k] = q[k]
  BY ExceptSeq, LenProperties

(* Reply changes res and nothing else.                                     *)
LEMMA ResChange ==
    ASSUME NEW q \in Seq(Request), NEW id \in DOMAIN q, NEW v \in Result \cup {None},
           NEW p, p = WithRes(q, id, v)
    PROVE  /\ p \in Seq(Request) /\ Kept(q, p)
           /\ \A k \in DOMAIN q : /\ p[k].expired = q[k].expired
                                  /\ p[k].lapsed = q[k].lapsed /\ p[k].sent = q[k].sent
                                  /\ k # id => p[k] = q[k]
           /\ p[id].res = v
<1>1. q[id] \in Request
  BY ElementOfSeq, LenProperties
<1>2. PICK x \in Request : x = [q[id] EXCEPT !.res = v]
  BY <1>1, Zenon DEF Request
<1>3. /\ x.client = q[id].client /\ x.call = q[id].call /\ x.route = q[id].route
      /\ x.read = q[id].read /\ x.expired = q[id].expired /\ x.lapsed = q[id].lapsed
      /\ x.sent = q[id].sent /\ x.res = v
  BY <1>1, <1>2 DEF Request
<1>4. p = [q EXCEPT ![id] = x]
  BY <1>2 DEF WithRes
<1>5. /\ p \in Seq(Request) /\ DOMAIN p = DOMAIN q
      /\ p[id] = x /\ \A k \in DOMAIN q : k # id => p[k] = q[k]
  BY <1>4, OneRequest
<1>. QED BY <1>3, <1>5 DEF Kept

(* WriteFrame counts the frame.                                            *)
LEMMA SentChange ==
    ASSUME NEW q \in Seq(Request), NEW id \in DOMAIN q,
           NEW p, p = WithSent(q, id)
    PROVE  /\ p \in Seq(Request) /\ Kept(q, p)
           /\ \A k \in DOMAIN q : /\ p[k].expired = q[k].expired
                                  /\ p[k].lapsed = q[k].lapsed /\ p[k].res = q[k].res
                                  /\ k # id => p[k] = q[k]
           /\ p[id].sent = q[id].sent + 1
<1>1. q[id] \in Request
  BY ElementOfSeq, LenProperties
<1>2. PICK n \in Nat : n = q[id].sent + 1
  BY <1>1 DEF Request
<1>3. PICK x \in Request : x = [q[id] EXCEPT !.sent = n]
  BY <1>1, Zenon DEF Request
<1>4. /\ x.client = q[id].client /\ x.call = q[id].call /\ x.route = q[id].route
      /\ x.read = q[id].read /\ x.expired = q[id].expired /\ x.lapsed = q[id].lapsed
      /\ x.sent = n /\ x.res = q[id].res
  BY <1>1, <1>3 DEF Request
<1>5. p = [q EXCEPT ![id] = x]
  BY <1>2, <1>3 DEF WithSent
<1>6. /\ p \in Seq(Request) /\ DOMAIN p = DOMAIN q
      /\ p[id] = x /\ \A k \in DOMAIN q : k # id => p[k] = q[k]
  BY <1>5, OneRequest
<1>. QED BY <1>2, <1>4, <1>6 DEF Kept

(* A route the step does not concern.                                      *)
LEMMA RouteFrame ==
    ASSUME NEW r \in Route, RouteOK(r),
           queue'[r] = queue[r], br'[r] = br[r], wire'[r] = wire[r], back'[r] = back[r],
           Kept(reqs, reqs'),
           \A k \in DOMAIN reqs : reqs[k].route = r =>
              reqs'[k].sent = reqs[k].sent /\ reqs'[k].lapsed = reqs[k].lapsed
    PROVE  RouteOK(r)'
<1>1. QueueOK(r)'
  BY DEF RouteOK, QueueOK, Kept
<1>2. CurOK(r)'
  BY DEF RouteOK, CurOK, Kept
<1>3. LinkOK(r)'
  BY Zenon DEF RouteOK, LinkOK
<1>. QED BY <1>1, <1>2, <1>3 DEF RouteOK

(* A request the step does not concern.                                    *)
LEMMA RequestFrame ==
    ASSUME NEW id \in DOMAIN reqs, RequestOK(id), Kept(reqs, reqs'),
           reqs'[id] = reqs[id],
           cl'[reqs[id].client].calls = cl[reqs[id].client].calls,
           cl'[reqs[id].client].read = cl[reqs[id].client].read
    PROVE  RequestOK(id)'
  BY DEF RequestOK, Kept

(* A request that is sent, answered or timed out stays with its call.      *)
LEMMA RequestChange ==
    ASSUME NEW id \in DOMAIN reqs, RequestOK(id), Kept(reqs, reqs'), cl' = cl,
           reqs'[id].lapsed => reqs'[id].expired /\ reqs'[id].sent = 0,
           reqs'[id].sent \in {0, 1},
           reqs'[id].res # None /\ reqs'[id].res.err = "none" =>
              reqs'[id].res.by = id /\ reqs'[id].sent = 1
    PROVE  RequestOK(id)'
<1>1. /\ reqs'[id].client = reqs[id].client /\ reqs'[id].call = reqs[id].call
      /\ reqs'[id].read = reqs[id].read
  BY DEF Kept
<1>2. /\ reqs[id].call \in 1 .. cl[reqs[id].client].calls
      /\ reqs[id].call = cl[reqs[id].client].calls =>
            reqs[id].read = cl[reqs[id].client].read
  BY DEF RequestOK
<1>3. ~reqs[id].read =>
         \A k \in DOMAIN reqs' :
            reqs'[k].client = reqs[id].client /\ reqs'[k].call = reqs[id].call => k = id
  BY DEF RequestOK, Kept
<1>. QED BY <1>1, <1>2, <1>3 DEF RequestOK

(* A client the step does not concern.                                     *)
LEMMA ClientFrame ==
    ASSUME NEW c \in Clients, ClientOK(c), cl'[c] = cl[c], stopped => stopped',
           stopped \in BOOLEAN, stopped' \in BOOLEAN, Kept(reqs, reqs'),
           \A k \in DOMAIN reqs : reqs[k].sent = 1 => reqs'[k].sent = 1
    PROVE  ClientOK(c)' /\ Requests(c)' = Requests(c)
<1>1. Requests(c)' = Requests(c)
  BY DEF Requests, Kept
<1>2. ClientOK(c)'
  BY <1>1 DEF ClientOK, Busy, Requests
<1>. QED BY <1>1, <1>2

-----------------------------------------------------------------------------
(* The client: routeFrame                                                  *)

(* What stays with a client for the whole call.                            *)
SameCall(c, x) ==
    /\ x.direct = cl[c].direct /\ x.read = cl[c].read
    /\ x.cands = cl[c].cands /\ x.calls = cl[c].calls

(* A read goes to its next candidate, or tries the same one again.         *)
MovesOn(c, x) ==
    /\ Busy(c) /\ cl[c].read
    /\ x.pc = "enqueue" /\ x.req = 0 /\ x.attempt >= 1
    /\ x.answer = cl[c].answer /\ x.i \in 1 .. Len(cl[c].cands)

EndsInReply(c, x) ==
    /\ Busy(c) /\ x.pc = "idle"
    /\ x.answer \in Requests(c) /\ reqs[x.answer].sent = 1

EndsInError(c, x) ==
    /\ Busy(c) /\ x.answer = Failed /\ x.pc \in {"idle", "gone"}
    /\ cl[c].read /\ ~stopped => cl[c].i = Len(cl[c].cands)

(* The call is over, or the client leaves.                                 *)
Ends(c, x) ==
    /\ x.req = 0 /\ x.i = cl[c].i
    /\ \/ EndsInReply(c, x)
       \/ EndsInError(c, x)
       \/ cl[c].pc # "gone" /\ x.pc = "gone" /\ x.answer = None

(* A client's record with the fields that routeFrame changes.              *)
LEMMA ClientChange ==
    ASSUME NEW x \in ClientState, NEW pc \in {"idle", "enqueue", "wait", "gone"},
           NEW i \in Nat, NEW a \in Nat, NEW ans \in Nat \cup {None}, NEW q \in Nat
    PROVE  /\ [x EXCEPT !.pc = pc, !.i = i, !.attempt = a, !.req = 0] \in ClientState
           /\ [x EXCEPT !.pc = pc, !.attempt = a, !.req = 0] \in ClientState
           /\ [x EXCEPT !.pc = pc, !.req = 0, !.answer = ans] \in ClientState
           /\ [x EXCEPT !.pc = pc, !.req = q] \in ClientState
  BY Zenon DEF ClientState

(* Giving up a candidate: a read with further candidates moves on, and     *)
(* everything else is over with an error.                                  *)
LEMMA GivenUpEffect ==
    ASSUME RoutingInv, NEW c \in Clients, Busy(c), NEW d \in BOOLEAN, d => stopped
    PROVE  /\ GivenUp(c, d) \in ClientState /\ SameCall(c, GivenUp(c, d))
           /\ MovesOn(c, GivenUp(c, d)) \/ Ends(c, GivenUp(c, d))
<1>a. /\ cl[c] \in ClientState /\ ClientOK(c) /\ stopped \in BOOLEAN
      /\ cl[c].i \in Nat /\ Len(cl[c].cands) \in Nat
  <2>1. cl[c] \in ClientState /\ ClientOK(c) /\ stopped \in BOOLEAN
    BY DEF RoutingInv, BrokerTypeOK
  <2>2. cl[c].i \in Nat /\ cl[c].cands \in Seq(Route)
    BY <2>1 DEF ClientState
  <2>. QED BY <2>1, <2>2, LenProperties
<1>1. CASE cl[c].read /\ HasNext(c) /\ ~d
  <2>1. PICK n \in Nat : n = cl[c].i + 1
    BY <1>a
  <2>2. n \in 1 .. Len(cl[c].cands)
    BY <1>a, <1>1, <2>1 DEF ClientOK, HasNext
  <2>3. PICK x \in ClientState : x = [cl[c] EXCEPT !.pc = "enqueue", !.i = n, !.attempt = 1, !.req = 0]
    BY <1>a, ClientChange, Zenon
  <2>4. GivenUp(c, d) = x
    BY <1>1, <2>1, <2>3 DEF GivenUp
  <2>5. /\ x.direct = cl[c].direct /\ x.read = cl[c].read /\ x.cands = cl[c].cands
        /\ x.calls = cl[c].calls /\ x.answer = cl[c].answer
        /\ x.pc = "enqueue" /\ x.i = n /\ x.attempt = 1 /\ x.req = 0
    BY <1>a, <2>3 DEF ClientState
  <2>. QED BY <1>1, <2>2, <2>4, <2>5 DEF SameCall, MovesOn
<1>2. CASE ~(cl[c].read /\ HasNext(c) /\ ~d)
  <2>1. PICK pc \in {"idle", "gone"} : pc = IF stopped THEN "gone" ELSE "idle"
    OBVIOUS
  <2>2. PICK x \in ClientState : x = [cl[c] EXCEPT !.pc = pc, !.req = 0, !.answer = Failed]
    BY <1>a, ClientChange, Zenon DEF Failed
  <2>3. GivenUp(c, d) = x
    BY <1>2, <2>1, <2>2 DEF GivenUp
  <2>4. /\ x.direct = cl[c].direct /\ x.read = cl[c].read /\ x.cands = cl[c].cands
        /\ x.calls = cl[c].calls /\ x.answer = Failed
        /\ x.pc = pc /\ x.i = cl[c].i /\ x.req = 0
    BY <1>a, <2>2 DEF ClientState
  <2>5. cl[c].read /\ ~stopped => cl[c].i = Len(cl[c].cands)
    BY <1>a, <1>2 DEF ClientOK, HasNext
  <2>. QED BY <2>1, <2>3, <2>4, <2>5 DEF SameCall, Ends, EndsInError
<1>. QED BY <1>1, <1>2

(* A timeout: the single-target client closes its connection.              *)
LEMMA TimedOutEffect ==
    ASSUME RoutingInv, NEW c \in Clients, Busy(c)
    PROVE  /\ TimedOut(c) \in ClientState /\ SameCall(c, TimedOut(c))
           /\ MovesOn(c, TimedOut(c)) \/ Ends(c, TimedOut(c))
<1>a. cl[c] \in ClientState /\ ClientOK(c) /\ stopped \in BOOLEAN
  BY DEF RoutingInv, BrokerTypeOK
<1>1. CASE ~cl[c].direct
  <2>1. TimedOut(c) = GivenUp(c, stopped)
    BY <1>1 DEF TimedOut
  <2>. QED BY <1>a, <2>1, GivenUpEffect
<1>2. CASE cl[c].direct
  <2>1. PICK x \in ClientState : x = [cl[c] EXCEPT !.pc = "gone", !.req = 0, !.answer = Failed]
    BY <1>a, ClientChange, Zenon DEF Failed
  <2>2. TimedOut(c) = x
    BY <1>2, <2>1 DEF TimedOut
  <2>3. /\ x.direct = cl[c].direct /\ x.read = cl[c].read /\ x.cands = cl[c].cands
        /\ x.calls = cl[c].calls /\ x.answer = Failed
        /\ x.pc = "gone" /\ x.i = cl[c].i /\ x.req = 0
    BY <1>a, <2>1 DEF ClientState
  <2>4. cl[c].i = Len(cl[c].cands)
    <3>1. cl[c].i \in 1 .. Len(cl[c].cands) /\ Len(cl[c].cands) = 1
      BY <1>a, <1>2 DEF ClientOK
    <3>. QED BY <3>1
  <2>. QED BY <2>2, <2>3, <2>4 DEF SameCall, Ends, EndsInError
<1>. QED BY <1>1, <1>2

(* The steps of routeFrame after the request was made, and of a client     *)
(* that leaves.                                                            *)
RouteFrameStep(c) ==
    EnqueueTimeout(c) \/ TakeReply(c) \/ TakeError(c) \/ WaitTimeout(c) \/ Leave(c)

(* Each of them moves a read on or ends the call; a reply is the device's  *)
(* to a request of this call.                                              *)
LEMMA RouteFrameEffect ==
    ASSUME RoutingInv, NEW c \in Clients, RouteFrameStep(c)
    PROVE  /\ UNCHANGED <<reqs, queue, br, wire, back, stopped>>
           /\ \E x \in ClientState : /\ cl' = [cl EXCEPT ![c] = x] /\ SameCall(c, x)
                                     /\ MovesOn(c, x) \/ Ends(c, x)
<1>a. /\ cl[c] \in ClientState /\ ClientOK(c) /\ stopped \in BOOLEAN /\ cl[c].i \in Nat
      /\ cl[c].attempt \in Nat /\ reqs \in Seq(Request)
      /\ cl[c].cands \in Seq(Route) /\ Len(cl[c].cands) \in Nat
  <2>1. /\ cl[c] \in ClientState /\ ClientOK(c) /\ stopped \in BOOLEAN
        /\ reqs \in Seq(Request)
    BY DEF RoutingInv, BrokerTypeOK
  <2>2. cl[c].i \in Nat /\ cl[c].attempt \in Nat /\ cl[c].cands \in Seq(Route)
    BY <2>1 DEF ClientState
  <2>. QED BY <2>1, <2>2, LenProperties
<1>b. UNCHANGED <<reqs, queue, br, wire, back, stopped>>
  BY Zenon DEF RouteFrameStep, EnqueueTimeout, TakeReply, TakeError, WaitTimeout, Leave
<1>1. CASE EnqueueTimeout(c) \/ WaitTimeout(c)
  <2>1. Busy(c) /\ cl' = [cl EXCEPT ![c] = TimedOut(c)]
    BY <1>1 DEF EnqueueTimeout, WaitTimeout, Busy
  <2>. QED BY <1>b, <2>1, TimedOutEffect, Zenon
<1>2. CASE TakeReply(c)
  <2>1. PICK id \in Requests(c) : id = cl[c].req
    BY <1>a, <1>2, Zenon DEF TakeReply, ClientOK
  <2>2. RequestOK(id) /\ reqs[id].res.by = id /\ reqs[id].sent = 1 /\ id \in Nat
    <3>1. id \in DOMAIN reqs /\ RequestOK(id)
      BY DEF Requests, RoutingInv
    <3>2. id \in Nat
      BY <1>a, <3>1, LenProperties
    <3>. QED BY <1>2, <2>1, <3>1, <3>2 DEF TakeReply, RequestOK
  <2>3. Busy(c) /\ cl[c].pc = "wait"
    BY <1>2 DEF TakeReply, Busy
  <2>4. CASE cl[c].read /\ HasNext(c) /\ reqs[id].res.kind = "nackFallThrough"
    <3>1. PICK n \in Nat : n = cl[c].i + 1
      BY <1>a
    <3>2. n \in 1 .. Len(cl[c].cands)
      BY <1>a, <2>4, <3>1 DEF ClientOK, HasNext
    <3>3. PICK x \in ClientState : x = [cl[c] EXCEPT !.pc = "enqueue", !.i = n, !.attempt = 1, !.req = 0]
      BY <1>a, ClientChange, Zenon
    <3>4. cl' = [cl EXCEPT ![c] = x]
      BY <1>2, <2>1, <2>4, <3>1, <3>3 DEF TakeReply
    <3>5. /\ x.direct = cl[c].direct /\ x.read = cl[c].read /\ x.cands = cl[c].cands
          /\ x.calls = cl[c].calls /\ x.answer = cl[c].answer
          /\ x.pc = "enqueue" /\ x.i = n /\ x.attempt = 1 /\ x.req = 0
      BY <1>a, <3>3 DEF ClientState
    <3>6. SameCall(c, x) /\ MovesOn(c, x)
      BY <2>3, <2>4, <3>2, <3>5 DEF SameCall, MovesOn
    <3>. QED BY <1>b, <3>4, <3>6, Zenon
  <2>5. CASE ~(cl[c].read /\ HasNext(c) /\ reqs[id].res.kind = "nackFallThrough")
    <3>1. PICK x \in ClientState : x = [cl[c] EXCEPT !.pc = "idle", !.req = 0, !.answer = id]
      BY <1>a, <2>2, ClientChange, Zenon
    <3>2. cl' = [cl EXCEPT ![c] = x]
      BY <1>2, <2>1, <2>2, <2>5, <3>1, Zenon DEF TakeReply
    <3>3. /\ x.direct = cl[c].direct /\ x.read = cl[c].read /\ x.cands = cl[c].cands
          /\ x.calls = cl[c].calls /\ x.answer = id
          /\ x.pc = "idle" /\ x.i = cl[c].i /\ x.req = 0
      BY <1>a, <3>1 DEF ClientState
    <3>4. SameCall(c, x) /\ Ends(c, x)
      BY <2>2, <2>3, <3>3 DEF SameCall, Ends, EndsInReply
    <3>. QED BY <1>b, <3>2, <3>4, Zenon
  <2>. QED BY <2>4, <2>5
<1>3. CASE TakeError(c)
  <2>1. Busy(c)
    BY <1>3 DEF TakeError, Busy
  <2>2. CASE Retries(c)
    <3>1. PICK n \in Nat : n = cl[c].attempt + 1
      BY <1>a
    <3>2. cl[c].read /\ n >= 1
      BY <1>a, <2>1, <2>2, <3>1 DEF ClientOK, Retries, Attempts
    <3>3. PICK x \in ClientState : x = [cl[c] EXCEPT !.pc = "enqueue", !.attempt = n, !.req = 0]
      BY <1>a, ClientChange, Zenon
    <3>4. cl' = [cl EXCEPT ![c] = x]
      BY <1>3, <2>2, <3>1, <3>3 DEF TakeError
    <3>5. /\ x.direct = cl[c].direct /\ x.read = cl[c].read /\ x.cands = cl[c].cands
          /\ x.calls = cl[c].calls /\ x.answer = cl[c].answer
          /\ x.pc = "enqueue" /\ x.i = cl[c].i /\ x.attempt = n /\ x.req = 0
      BY <1>a, <3>3 DEF ClientState
    <3>6. cl[c].i \in 1 .. Len(cl[c].cands)
      BY <1>a DEF ClientOK
    <3>7. SameCall(c, x) /\ MovesOn(c, x)
      BY <2>1, <3>2, <3>5, <3>6 DEF SameCall, MovesOn
    <3>. QED BY <1>b, <3>4, <3>7, Zenon
  <2>3. CASE ~Retries(c)
    <3>1. cl' = [cl EXCEPT ![c] = GivenUp(c, FALSE)]
      BY <1>3, <2>3 DEF TakeError
    <3>. QED BY <1>b, <2>1, <3>1, GivenUpEffect, Zenon
  <2>. QED BY <2>2, <2>3
<1>4. CASE Leave(c)
  <2>1. PICK x \in ClientState : x = [cl[c] EXCEPT !.pc = "gone", !.req = 0, !.answer = None]
    BY <1>a, ClientChange, Zenon
  <2>2. cl' = [cl EXCEPT ![c] = x] /\ cl[c].pc # "gone"
    BY <1>4, <2>1 DEF Leave
  <2>3. /\ x.direct = cl[c].direct /\ x.read = cl[c].read /\ x.cands = cl[c].cands
        /\ x.calls = cl[c].calls /\ x.answer = None
        /\ x.pc = "gone" /\ x.i = cl[c].i /\ x.req = 0
    BY <1>a, <2>1 DEF ClientState
  <2>4. SameCall(c, x) /\ Ends(c, x)
    BY <2>2, <2>3 DEF SameCall, Ends
  <2>. QED BY <1>b, <2>2, <2>4, Zenon
<1>. QED BY <1>1, <1>2, <1>3, <1>4 DEF RouteFrameStep

(* A step that changes one client and no request.                          *)
LEMMA OneClient ==
    ASSUME RoutingInv, NEW c \in Clients, NEW x \in ClientState,
           cl' = [cl EXCEPT ![c] = x], UNCHANGED <<reqs, queue, br, wire, back, stopped>>,
           x.calls >= cl[c].calls, x.calls = cl[c].calls => x.read = cl[c].read,
           ClientOK(c)'
    PROVE  RoutingInv'
<1>a. /\ BrokerTypeOK /\ \A r \in Route : RouteOK(r)
      /\ \A id \in DOMAIN reqs : RequestOK(id)
      /\ \A d \in Clients : ClientOK(d)
  BY DEF RoutingInv
<1>b. Kept(reqs, reqs')
  BY DEF Kept
<1>c. cl \in [Clients -> ClientState] /\ reqs \in Seq(Request) /\ stopped \in BOOLEAN
  BY <1>a DEF BrokerTypeOK
<1>d. cl'[c] = x /\ \A d \in Clients : d # c => cl'[d] = cl[d]
  BY <1>c
<1>1. BrokerTypeOK'
  <2>1. cl' \in [Clients -> ClientState]
    BY <1>c
  <2>. QED BY <1>a, <2>1 DEF BrokerTypeOK
<1>2. \A r \in Route : RouteOK(r)'
  BY <1>a, <1>b, RouteFrame
<1>3. ASSUME NEW id \in DOMAIN reqs' PROVE RequestOK(id)'
  <2>1. id \in DOMAIN reqs /\ reqs[id] \in Request /\ RequestOK(id)
    BY <1>a, <1>c, ElementOfSeq, LenProperties
  <2>2. reqs[id].client \in Clients /\ reqs[id].call \in Nat
    BY <2>1 DEF Request
  <2>3. cl[c].calls \in Nat /\ x.calls \in Nat
    BY <1>c DEF ClientState
  <2>4. CASE reqs[id].client # c \/ x.calls = cl[c].calls
    BY <1>b, <1>d, <2>1, <2>2, <2>4, RequestFrame
  <2>5. CASE reqs[id].client = c /\ x.calls > cl[c].calls
    BY <1>d, <2>1, <2>2, <2>3, <2>5 DEF RequestOK
  <2>. QED BY <2>3, <2>4, <2>5
<1>4. ASSUME NEW d \in Clients, d # c PROVE ClientOK(d)'
  <2>1. /\ ClientOK(d) /\ cl'[d] = cl[d] /\ stopped' = stopped /\ stopped' \in BOOLEAN
        /\ \A k \in DOMAIN reqs : reqs'[k].sent = reqs[k].sent
    BY <1>a, <1>c, <1>d, <1>4
  <2>. QED BY <1>b, <1>c, <2>1, ClientFrame
<1>. QED BY <1>1, <1>2, <1>3, <1>4 DEF RoutingInv

(* routeFrame keeps the invariant.                                         *)
LEMMA RouteFrameKeeps ==
    ASSUME RoutingInv, NEW c \in Clients, RouteFrameStep(c) PROVE RoutingInv'
<1>1. UNCHANGED <<reqs, queue, br, wire, back, stopped>>
  BY RouteFrameEffect
<1>2. PICK x \in ClientState : /\ cl' = [cl EXCEPT ![c] = x] /\ SameCall(c, x)
                               /\ MovesOn(c, x) \/ Ends(c, x)
  BY RouteFrameEffect
<1>3. ClientOK(c) /\ cl \in [Clients -> ClientState] /\ reqs \in Seq(Request)
  BY DEF RoutingInv, BrokerTypeOK
<1>4. cl'[c] = x /\ cl[c].calls \in Nat /\ x.calls = cl[c].calls /\ x.read = cl[c].read
  BY <1>2, <1>3 DEF SameCall, ClientState
<1>5. Requests(c)' = Requests(c)
  BY <1>1, <1>4 DEF Requests
<1>6. \A id \in Requests(c) : id \in Nat \ {0}
  BY <1>3, LenProperties DEF Requests
<1>7. ClientOK(c)'
  <2>1. CASE MovesOn(c, x)
    <3>1. /\ x.calls <= MaxCalls /\ x.calls >= 1 /\ x.attempt >= 1 /\ x.read
          /\ x.pc = "enqueue" /\ x.req = 0 /\ x.answer = None /\ None # 0
      BY <1>2, <1>3, <2>1, BrokerConstants DEF ClientOK, MovesOn, SameCall
    <3>2. x.i \in 1 .. Len(x.cands) /\ (x.direct => Len(x.cands) = 1)
      BY <1>2, <1>3, <2>1, Zenon DEF ClientOK, MovesOn, SameCall
    <3>. QED BY <1>4, <3>1, <3>2 DEF ClientOK, Busy, Failed
  <2>2. CASE Ends(c, x) /\ EndsInReply(c, x)
    BY <1>1, <1>2, <1>3, <1>4, <1>5, <1>6, <2>2, Zenon
    DEF ClientOK, Busy, Ends, EndsInReply, SameCall, Failed
  <2>3. CASE Ends(c, x) /\ EndsInError(c, x)
    BY <1>1, <1>2, <1>3, <1>4, <1>5, <2>3, Zenon
    DEF ClientOK, Busy, Ends, EndsInError, SameCall, Failed
  <2>4. CASE Ends(c, x) /\ x.pc = "gone" /\ x.answer = None
    BY <1>1, <1>2, <1>3, <1>4, <1>5, <2>4, BrokerConstants
    DEF ClientOK, Busy, Ends, SameCall, Failed
  <2>. QED BY <1>2, <2>1, <2>2, <2>3, <2>4 DEF Ends
<1>8. x.calls >= cl[c].calls
  BY <1>4
<1>. QED BY <1>1, <1>2, <1>4, <1>7, <1>8, OneClient, Zenon

(* Every order of the candidates is a non-empty sequence of routes.        *)
LEMMA OrdersAreRoutes ==
    ASSUME NEW read \in BOOLEAN, NEW s \in CandidateOrders(read)
    PROVE  s \in Seq(Route) /\ Len(s) \in Nat \ {0}
<1>1. Routes \in Seq(Route) /\ Len(Routes) \in Nat \ {0} /\ DOMAIN Routes = 1 .. Len(Routes)
  <2>1. Routes \in Seq(STRING) /\ Len(Routes) \in Nat \ {0} /\ DOMAIN Routes = 1 .. Len(Routes)
    BY BrokerConstants, LenProperties, EmptySeq
  <2>. QED BY <2>1 DEF Route
<1>2. ASSUME NEW t \in Orders PROVE t \in Seq(Route) /\ Len(t) = Len(Routes)
  BY <1>1 DEF Orders
<1>3. s \in Orders \/ s = Routes
  BY DEF CandidateOrders, DynamicOrders, NativeFirst
<1>. QED BY <1>1, <1>2, <1>3

(* A new call has no request yet.                                          *)
LEMMA CallKeeps ==
    ASSUME RoutingInv, NEW c \in Clients, NEW read \in BOOLEAN, Call(c, read)
    PROVE  /\ RoutingInv' /\ UNCHANGED <<reqs, queue, br, wire, back, stopped>>
           /\ cl[c].pc = "idle" /\ cl[c].calls < MaxCalls
           /\ \E x \in ClientState : /\ cl' = [cl EXCEPT ![c] = x]
                                     /\ x.pc = "enqueue" /\ x.read = read
                                     /\ x.calls = cl[c].calls + 1 /\ x.answer = None
<1>a. /\ cl[c] \in ClientState /\ cl \in [Clients -> ClientState] /\ ClientOK(c)
      /\ cl[c].calls \in Nat /\ reqs \in Seq(Request)
      /\ \A id \in DOMAIN reqs : RequestOK(id)
  <2>1. /\ cl[c] \in ClientState /\ cl \in [Clients -> ClientState] /\ ClientOK(c)
        /\ reqs \in Seq(Request) /\ \A id \in DOMAIN reqs : RequestOK(id)
    BY DEF RoutingInv, BrokerTypeOK
  <2>. QED BY <2>1 DEF ClientState
<1>1. PICK order \in CandidateOrders(read) :
        cl' = [cl EXCEPT ![c] =
                 [cl[c] EXCEPT
                    !.pc = "enqueue", !.read = read,
                    !.cands = IF cl[c].direct THEN <<Routes[1]>> ELSE order,
                    !.i = 1, !.attempt = 1, !.req = 0,
                    !.calls = @ + 1, !.answer = None]]
  BY Zenon DEF Call
<1>b. PICK cands : cands = IF cl[c].direct THEN <<Routes[1]>> ELSE order
  BY Zenon
<1>2. /\ cands \in Seq(Route) /\ Len(cands) \in Nat \ {0}
      /\ cl[c].direct => Len(cands) = 1
  <2>1. Routes[1] \in Route
    BY BrokerConstants, LenProperties, EmptySeq DEF Route
  <2>2. order \in Seq(Route) /\ Len(order) \in Nat \ {0}
    BY OrdersAreRoutes
  <2>3. CASE cl[c].direct
    BY <1>b, <2>1, <2>3
  <2>4. CASE ~cl[c].direct
    BY <1>b, <2>2, <2>4
  <2>. QED BY <2>3, <2>4
<1>3. PICK n \in Nat : n = cl[c].calls + 1
  BY <1>a
<1>4. PICK x : x = [cl[c] EXCEPT !.pc = "enqueue", !.read = read, !.cands = cands,
                                 !.i = 1, !.attempt = 1, !.req = 0,
                                 !.calls = n, !.answer = None]
  OBVIOUS
<1>5. x \in ClientState
  BY <1>a, <1>2, <1>4, Zenon DEF ClientState
<1>6. cl' = [cl EXCEPT ![c] = x]
  BY <1>1, <1>b, <1>3, <1>4
<1>7. /\ x.direct = cl[c].direct /\ x.read = read /\ x.cands = cands /\ x.calls = n
      /\ x.pc = "enqueue" /\ x.i = 1 /\ x.attempt = 1 /\ x.req = 0 /\ x.answer = None
  BY <1>a, <1>4 DEF ClientState
<1>8. /\ UNCHANGED <<reqs, queue, br, wire, back, stopped>>
      /\ cl[c].pc = "idle" /\ cl[c].calls < MaxCalls
  BY DEF Call
<1>9. cl'[c] = x
  BY <1>a, <1>6
<1>10. Requests(c)' = {}
  <2>1. \A id \in DOMAIN reqs : reqs[id].client = c => reqs[id].call # n
    BY <1>a, <1>3 DEF RequestOK
  <2>. QED BY <1>7, <1>8, <1>9, <2>1 DEF Requests
<1>11. ClientOK(c)'
  <2>1. 1 \in 1 .. Len(cands) /\ n <= MaxCalls /\ n >= 1
    BY <1>a, <1>2, <1>3, <1>8, BrokerConstants
  <2>2. x.i \in 1 .. Len(x.cands) /\ (x.direct => Len(x.cands) = 1) /\ None # 0
    BY <1>2, <1>7, <2>1, BrokerConstants
  <2>. QED BY <1>7, <1>9, <1>10, <2>1, <2>2 DEF ClientOK, Busy, Failed
<1>12. RoutingInv'
  <2>1. x.calls >= cl[c].calls /\ x.calls # cl[c].calls
    BY <1>a, <1>3, <1>7
  <2>. QED BY <1>5, <1>6, <1>8, <1>11, <2>1, OneClient, Zenon
<1>. QED BY <1>3, <1>5, <1>6, <1>7, <1>8, <1>12, Zenon

(* The request that Enqueue makes.                                         *)
NewRequest(c, r) ==
    [client |-> c, call |-> cl[c].calls, route |-> r, read |-> cl[c].read,
     expired |-> FALSE, lapsed |-> FALSE, sent |-> 0, res |-> None]

(* A new request is in no queue and with no broker, and for a write it is  *)
(* the only one of its call.                                               *)
LEMMA EnqueueKeeps ==
    ASSUME RoutingInv, NEW c \in Clients, Enqueue(c)
    PROVE  /\ RoutingInv' /\ DOMAIN reqs \subseteq DOMAIN reqs'
           /\ \A k \in DOMAIN reqs : reqs'[k] = reqs[k]
           /\ \A k \in DOMAIN reqs' : k \notin DOMAIN reqs => reqs'[k].sent = 0
<1>a. /\ BrokerTypeOK /\ \A r \in Route : RouteOK(r)
      /\ \A id \in DOMAIN reqs : RequestOK(id)
      /\ \A d \in Clients : ClientOK(d)
  BY DEF RoutingInv
<1>b. /\ cl \in [Clients -> ClientState] /\ cl[c] \in ClientState /\ reqs \in Seq(Request)
      /\ queue \in [Route -> Seq(Nat)] /\ stopped \in BOOLEAN
  BY <1>a DEF BrokerTypeOK
<1>c. PICK n \in Nat : n = Len(reqs) /\ DOMAIN reqs = 1 .. n
  BY <1>b, LenProperties
<1>d. PICK id \in Nat : id = n + 1
  BY <1>c
<1>e. /\ cl[c].i \in Nat /\ cl[c].cands \in Seq(Route) /\ cl[c].calls \in Nat
      /\ cl[c].read \in BOOLEAN
  BY <1>b DEF ClientState
<1>f. PICK r \in Route : r = Cand(c)
  <2>1. cl[c].i \in 1 .. Len(cl[c].cands)
    BY <1>a DEF ClientOK
  <2>. QED BY <1>e, <2>1, ElementOfSeq DEF Cand
<1>g. PICK new \in Request : new = NewRequest(c, r)
  BY <1>e, Zenon DEF Request, NewRequest
<1>h. /\ new.client = c /\ new.call = cl[c].calls /\ new.route = r /\ new.read = cl[c].read
      /\ ~new.lapsed /\ new.sent = 0 /\ new.res = None
  BY <1>g DEF NewRequest
<1>i. /\ reqs' = Append(reqs, new) /\ queue' = [queue EXCEPT ![r] = Append(queue[r], id)]
      /\ cl' = [cl EXCEPT ![c] = [@ EXCEPT !.pc = "wait", !.req = id]]
      /\ UNCHANGED <<br, wire, back, stopped>> /\ cl[c].pc = "enqueue"
  BY <1>c, <1>d, <1>f, <1>g DEF Enqueue, NewRequest
<1>j. /\ reqs' \in Seq(Request) /\ DOMAIN reqs' = 1 .. id /\ reqs'[id] = new
      /\ \A k \in 1 .. n : reqs'[k] = reqs[k]
  BY <1>b, <1>c, <1>d, <1>i, AppendProperties, LenProperties
<1>k. PICK x \in ClientState : x = [cl[c] EXCEPT !.pc = "wait", !.req = id]
  BY <1>b, ClientChange, Zenon
<1>l. /\ cl' = [cl EXCEPT ![c] = x] /\ cl'[c] = x
      /\ \A d \in Clients : d # c => cl'[d] = cl[d]
  BY <1>b, <1>i, <1>k
<1>m. /\ x.direct = cl[c].direct /\ x.read = cl[c].read /\ x.cands = cl[c].cands
      /\ x.calls = cl[c].calls /\ x.answer = cl[c].answer /\ x.attempt = cl[c].attempt
      /\ x.pc = "wait" /\ x.i = cl[c].i /\ x.req = id
  BY <1>b, <1>k DEF ClientState
<1>o. queue'[r] = Append(queue[r], id) /\ \A q \in Route : q # r => queue'[q] = queue[q]
  BY <1>b, <1>i
<1>p. \A k \in DOMAIN reqs' : k \in 1 .. n \/ k = id
  BY <1>d, <1>j
<1>q. DOMAIN reqs \subseteq DOMAIN reqs' /\ id \in DOMAIN reqs' /\ id \notin DOMAIN reqs
  BY <1>c, <1>d, <1>j
<1>1. BrokerTypeOK'
  <2>1. cl' \in [Clients -> ClientState]
    BY <1>b, <1>l
  <2>2. queue' \in [Route -> Seq(Nat)]
    BY <1>b, <1>d, <1>i, <1>o, AppendProperties
  <2>. QED BY <1>a, <1>i, <1>j, <2>1, <2>2 DEF BrokerTypeOK
<1>2. ASSUME NEW q \in Route PROVE RouteOK(q)'
  <2>1. QueueOK(q) /\ CurOK(q) /\ LinkOK(q) /\ br'[q] = br[q]
    BY <1>a, <1>i DEF RouteOK
  <2>2. CurOK(q)' /\ LinkOK(q)'
    BY <1>c, <1>i, <1>j, <1>q, <2>1, Zenon DEF CurOK, LinkOK
  <2>3. br[q].cur # id
    BY <1>d, <1>q, <2>1 DEF CurOK
  <2>4. CASE q # r
    BY <1>c, <1>j, <1>o, <1>q, <2>1, <2>2, <2>4 DEF RouteOK, QueueOK
  <2>5. CASE q = r
    <3>1. PICK m \in Nat : m = Len(queue[r]) /\ DOMAIN queue[r] = 1 .. m
      BY <1>b, LenProperties, Zenon
    <3>2. /\ DOMAIN queue'[r] = 1 .. m + 1 /\ queue'[r][m + 1] = id
          /\ \A k \in 1 .. m : queue'[r][k] = queue[r][k]
      BY <1>b, <1>d, <1>o, <3>1, AppendProperties, LenProperties
    <3>3. ASSUME NEW k \in 1 .. m
          PROVE  /\ queue'[r][k] = queue[r][k] /\ queue[r][k] \in DOMAIN reqs
                 /\ queue[r][k] # id /\ queue[r][k] # br[r].cur
                 /\ reqs'[queue[r][k]].route = r /\ reqs'[queue[r][k]].sent = 0
      <4>1. /\ queue'[r][k] = queue[r][k] /\ queue[r][k] \in DOMAIN reqs
            /\ queue[r][k] # br[r].cur
            /\ reqs[queue[r][k]].route = r /\ reqs[queue[r][k]].sent = 0
        BY <2>1, <2>5, <3>1, <3>2 DEF QueueOK
      <4>. QED BY <1>c, <1>j, <1>q, <4>1, Zenon
    <3>4. \A k \in 1 .. m + 1 : k \in 1 .. m \/ k = m + 1
      BY <3>1
    <3>5. \A k, j \in 1 .. m : queue[r][k] = queue[r][j] => k = j
      BY <2>1, <2>5, <3>1, Zenon DEF QueueOK
    <3>6. ASSUME NEW k \in DOMAIN queue'[r]
          PROVE  /\ queue'[r][k] \in DOMAIN reqs' /\ queue'[r][k] # br'[r].cur
                 /\ reqs'[queue'[r][k]].route = r /\ reqs'[queue'[r][k]].sent = 0
      <4>1. CASE k = m + 1
        BY <1>h, <1>j, <1>q, <2>1, <2>3, <2>5, <3>2, <4>1
      <4>2. CASE k \in 1 .. m
        BY <1>q, <2>1, <2>5, <3>3, <4>2
      <4>. QED BY <3>2, <3>4, <4>1, <4>2
    <3>7. ASSUME NEW k \in DOMAIN queue'[r], NEW j \in DOMAIN queue'[r],
                 queue'[r][k] = queue'[r][j]
          PROVE  k = j
      <4>1. (k \in 1 .. m \/ k = m + 1) /\ (j \in 1 .. m \/ j = m + 1)
        BY <3>2, <3>4
      <4>. QED BY <3>2, <3>3, <3>5, <3>7, <4>1
    <3>8. QueueOK(r)'
      BY <3>6, <3>7 DEF QueueOK
    <3>. QED BY <2>2, <2>5, <3>8 DEF RouteOK
  <2>. QED BY <2>4, <2>5
<1>3. /\ ClientOK(c) /\ cl[c].calls >= 1 /\ cl[c].answer = None /\ cl[c].attempt >= 1
      /\ ~cl[c].read => Requests(c) = {}
  BY <1>a, <1>i, Zenon DEF ClientOK, Busy
<1>4. ASSUME NEW k \in 1 .. n PROVE RequestOK(k)'
  <2>1. RequestOK(k) /\ reqs'[k] = reqs[k] /\ reqs[k].client \in Clients
    <3>1. RequestOK(k) /\ reqs'[k] = reqs[k] /\ reqs[k] \in Request
      BY <1>a, <1>b, <1>c, <1>j, ElementOfSeq, Zenon
    <3>. QED BY <3>1 DEF Request
  <2>2. /\ cl'[reqs[k].client].calls = cl[reqs[k].client].calls
        /\ cl'[reqs[k].client].read = cl[reqs[k].client].read
    BY <1>l, <1>m, <2>1
  <2>3. ASSUME ~reqs[k].read PROVE ~(reqs[k].client = c /\ reqs[k].call = cl[c].calls)
    BY <1>3, <1>c, <2>1, <2>3, Zenon DEF RequestOK, Requests
  <2>4. ~reqs[k].read =>
          \A j \in DOMAIN reqs' :
             reqs'[j].client = reqs[k].client /\ reqs'[j].call = reqs[k].call => j = k
    BY <1>c, <1>h, <1>j, <1>p, <2>1, <2>3 DEF RequestOK
  <2>. QED BY <2>1, <2>2, <2>4 DEF RequestOK
<1>5. RequestOK(id)'
  <2>1. cl'[c].calls = cl[c].calls /\ cl'[c].read = cl[c].read
    BY <1>l, <1>m
  <2>2. cl[c].calls \in 1 .. cl[c].calls
    BY <1>3, <1>e
  <2>3. ~cl[c].read => \A k \in 1 .. n : ~(reqs[k].client = c /\ reqs[k].call = cl[c].calls)
    BY <1>3, <1>c DEF Requests
  <2>4. ~new.read =>
          \A j \in DOMAIN reqs' :
             reqs'[j].client = new.client /\ reqs'[j].call = new.call => j = id
    BY <1>h, <1>j, <1>p, <2>3
  <2>. QED BY <1>h, <1>j, <2>1, <2>2, <2>4 DEF RequestOK
<1>6. ClientOK(c)'
  <2>1. id \in Requests(c)'
    BY <1>h, <1>j, <1>l, <1>m, <1>q DEF Requests
  <2>2. None # 0
    BY BrokerConstants
  <2>. QED BY <1>3, <1>i, <1>l, <1>m, <2>1, <2>2 DEF ClientOK, Busy, Failed
<1>7. ASSUME NEW d \in Clients, d # c PROVE ClientOK(d)'
  <2>1. cl'[d] = cl[d] /\ ClientOK(d) /\ stopped' = stopped
    BY <1>a, <1>i, <1>l, <1>7, Zenon
  <2>2. Requests(d)' = Requests(d)
    BY <1>7, <1>c, <1>h, <1>j, <1>p, <1>q, <2>1 DEF Requests
  <2>3. \A k \in Requests(d) : reqs'[k] = reqs[k]
    BY <1>c, <1>j DEF Requests
  <2>. QED BY <2>1, <2>2, <2>3 DEF ClientOK, Busy
<1>8. RoutingInv'
  BY <1>1, <1>2, <1>4, <1>5, <1>6, <1>7, <1>p, Zenon DEF RoutingInv
<1>. QED BY <1>c, <1>h, <1>j, <1>p, <1>q, <1>8

-----------------------------------------------------------------------------
(* The broker and the device: runBroker and exchange                       *)

OtherRoutesKept(r) ==
    \A q \in Route : q # r => /\ queue'[q] = queue[q] /\ br'[q] = br[q]
                              /\ wire'[q] = wire[q] /\ back'[q] = back[q]

(* A step of one route, which changes no request but one of its own.       *)
LEMMA OneRoute ==
    ASSUME RoutingInv, NEW r \in Route, UNCHANGED <<cl, stopped>>,
           BrokerTypeOK', Kept(reqs, reqs'), OtherRoutesKept(r), RouteOK(r)',
           \A k \in DOMAIN reqs : reqs[k].sent = 1 => reqs'[k].sent = 1,
           \A k \in DOMAIN reqs : reqs'[k] # reqs[k] => reqs[k].route = r /\ RequestOK(k)'
    PROVE  RoutingInv'
<1>a. /\ BrokerTypeOK /\ \A q \in Route : RouteOK(q)
      /\ \A id \in DOMAIN reqs : RequestOK(id)
      /\ \A d \in Clients : ClientOK(d)
  BY Zenon DEF RoutingInv
<1>b. stopped \in BOOLEAN /\ stopped' = stopped /\ cl' = cl
  BY <1>a DEF BrokerTypeOK
<1>1. ASSUME NEW q \in Route PROVE RouteOK(q)'
  <2>1. CASE q # r
    <3>1. /\ queue'[q] = queue[q] /\ br'[q] = br[q] /\ wire'[q] = wire[q]
          /\ back'[q] = back[q] /\ RouteOK(q)
      BY <1>a, <2>1 DEF OtherRoutesKept
    <3>2. \A k \in DOMAIN reqs : reqs[k].route = q =>
             reqs'[k].sent = reqs[k].sent /\ reqs'[k].lapsed = reqs[k].lapsed
      BY <2>1
    <3>. QED BY <3>1, <3>2, RouteFrame, Zenon
  <2>. QED BY <2>1, Zenon
<1>2. ASSUME NEW k \in DOMAIN reqs' PROVE RequestOK(k)'
  <2>1. k \in DOMAIN reqs /\ RequestOK(k)
    BY <1>a, Zenon DEF Kept
  <2>. QED BY <1>b, <2>1, RequestFrame
<1>3. ASSUME NEW d \in Clients PROVE ClientOK(d)'
  <2>1. ClientOK(d) /\ cl'[d] = cl[d] /\ (stopped => stopped') /\ stopped' \in BOOLEAN
    BY <1>a, <1>b
  <2>. QED BY <1>b, <2>1, ClientFrame
<1>. QED BY <1>1, <1>2, <1>3, Zenon DEF RoutingInv

(* The broker's record with the fields that a step changes.                *)
LEMMA BrokerChange ==
    ASSUME NEW y \in BrokerState, NEW n \in Nat, NEW e \in Nat,
           NEW pc \in {"idle", "dial", "sleep", "write", "read", "exited"},
           NEW conn \in {"none", "open", "dead"}, NEW b \in BOOLEAN
    PROVE  /\ [y EXCEPT !.pc = pc] \in BrokerState
           /\ [y EXCEPT !.pc = pc, !.cur = n] \in BrokerState
           /\ [y EXCEPT !.pc = pc, !.conn = conn] \in BrokerState
           /\ [y EXCEPT !.pc = pc, !.cur = n, !.conn = conn] \in BrokerState
           /\ [y EXCEPT !.pc = pc, !.conn = conn, !.connected = b] \in BrokerState
           /\ [y EXCEPT !.pc = pc, !.cur = n, !.connected = b, !.errors = e] \in BrokerState
           /\ [y EXCEPT !.pc = pc, !.cur = n, !.conn = conn, !.connected = b,
                        !.errors = e] \in BrokerState
  BY Zenon DEF BrokerState

(* The types of one route.                                                 *)
LEMMA RouteTypes ==
    ASSUME RoutingInv, NEW r \in Route
    PROVE  /\ br[r] \in BrokerState /\ br[r].cur \in Nat /\ br[r].errors \in Nat
           /\ queue[r] \in Seq(Nat) /\ wire[r] \in Seq(Nat) /\ back[r] \in Seq(DeviceReply)
           /\ br \in [Route -> BrokerState] /\ queue \in [Route -> Seq(Nat)]
           /\ wire \in [Route -> Seq(Nat)] /\ back \in [Route -> Seq(DeviceReply)]
           /\ reqs \in Seq(Request) /\ QueueOK(r) /\ CurOK(r) /\ LinkOK(r)
<1>1. BrokerTypeOK /\ RouteOK(r)
  BY DEF RoutingInv
<1>2. br[r] \in BrokerState
  BY <1>1 DEF BrokerTypeOK
<1>3. br[r].cur \in Nat /\ br[r].errors \in Nat
  BY <1>2, Zenon DEF BrokerState
<1>. QED BY <1>1, <1>2, <1>3 DEF BrokerTypeOK, RouteOK

(* A step that leaves every request as it is and changes nothing but the   *)
(* broker, its connection and its queue.                                   *)
LEMMA QuietRoute ==
    ASSUME RoutingInv, NEW r \in Route, UNCHANGED <<cl, reqs, stopped>>,
           NEW y \in BrokerState, NEW q \in Seq(Nat), NEW w \in Seq(Nat),
           NEW b \in Seq(DeviceReply),
           br' = [br EXCEPT ![r] = y], queue' = [queue EXCEPT ![r] = q],
           wire' = [wire EXCEPT ![r] = w], back' = [back EXCEPT ![r] = b],
           RouteOK(r)'
    PROVE  RoutingInv'
<1>a. /\ br \in [Route -> BrokerState] /\ queue \in [Route -> Seq(Nat)]
      /\ wire \in [Route -> Seq(Nat)] /\ back \in [Route -> Seq(DeviceReply)]
  BY RouteTypes
<1>1. /\ br' \in [Route -> BrokerState] /\ queue' \in [Route -> Seq(Nat)]
      /\ wire' \in [Route -> Seq(Nat)] /\ back' \in [Route -> Seq(DeviceReply)]
  BY <1>a
<1>2. BrokerTypeOK'
  BY <1>1 DEF RoutingInv, BrokerTypeOK
<1>3. OtherRoutesKept(r)
  BY <1>a DEF OtherRoutesKept
<1>4. Kept(reqs, reqs')
  BY DEF Kept
<1>. QED BY <1>2, <1>3, <1>4, OneRoute

(* Dialling, the pause after a failed dial, and the broker's return.       *)
LEMMA IdleBrokerKeeps ==
    ASSUME RoutingInv, NEW r \in Route, DialOK(r) \/ SleepDone(r) \/ BrokerExit(r)
    PROVE  RoutingInv'
<1>a. /\ br[r] \in BrokerState /\ br[r].cur \in Nat
      /\ queue[r] \in Seq(Nat) /\ wire[r] \in Seq(Nat) /\ back[r] \in Seq(DeviceReply)
      /\ br \in [Route -> BrokerState] /\ queue \in [Route -> Seq(Nat)]
      /\ wire \in [Route -> Seq(Nat)] /\ back \in [Route -> Seq(DeviceReply)]
      /\ QueueOK(r) /\ CurOK(r) /\ LinkOK(r)
  BY RouteTypes
<1>b. UNCHANGED <<cl, reqs, stopped, queue>>
  BY DEF DialOK, SleepDone, BrokerExit
<1>c. br[r].pc # "read" /\ wire[r] = <<>> /\ back[r] = <<>>
  BY <1>a DEF LinkOK, DialOK, SleepDone, BrokerExit
<1>d. UNCHANGED <<wire, back>>
  BY <1>a, <1>c DEF DialOK, SleepDone, BrokerExit, CloseConn
<1>e. PICK y \in BrokerState :
        /\ br' = [br EXCEPT ![r] = y] /\ y.cur = br[r].cur
        /\ \/ br[r].pc = "dial" /\ y.pc = "write"
           \/ br[r].pc \in {"idle", "sleep"} /\ y.pc \in {"idle", "exited"}
  <2>1. CASE DialOK(r)
    <3>1. PICK y \in BrokerState :
            y = [br[r] EXCEPT !.pc = "write", !.conn = "open", !.connected = TRUE]
      BY <1>a, BrokerChange, Zenon
    <3>2. y.cur = br[r].cur /\ y.pc = "write"
      BY <1>a, <3>1 DEF BrokerState
    <3>. QED BY <2>1, <3>1, <3>2, Zenon DEF DialOK
  <2>2. CASE SleepDone(r)
    <3>1. PICK y \in BrokerState : y = [br[r] EXCEPT !.pc = "idle"]
      BY <1>a, BrokerChange, Zenon
    <3>2. y.cur = br[r].cur /\ y.pc = "idle"
      BY <1>a, <3>1 DEF BrokerState
    <3>. QED BY <2>2, <3>1, <3>2, Zenon DEF SleepDone
  <2>3. CASE BrokerExit(r)
    <3>1. PICK y \in BrokerState : y = [br[r] EXCEPT !.pc = "exited", !.conn = "none"]
      BY <1>a, BrokerChange, Zenon
    <3>2. y.cur = br[r].cur /\ y.pc = "exited"
      BY <1>a, <3>1 DEF BrokerState
    <3>. QED BY <2>3, <3>1, <3>2, Zenon DEF BrokerExit
  <2>. QED BY <2>1, <2>2, <2>3
<1>f. br'[r] = y
  BY <1>a, <1>e, Zenon
<1>1. QueueOK(r)'
  BY <1>a, <1>b, <1>e, <1>f, Zenon DEF QueueOK
<1>2. CurOK(r)'
  BY <1>a, <1>b, <1>e, <1>f, Zenon DEF CurOK
<1>3. LinkOK(r)'
  BY <1>c, <1>d DEF LinkOK
<1>4. /\ queue' = [queue EXCEPT ![r] = queue[r]] /\ wire' = [wire EXCEPT ![r] = wire[r]]
      /\ back' = [back EXCEPT ![r] = back[r]]
  BY <1>a, <1>b, <1>d
<1>. QED BY <1>a, <1>b, <1>e, <1>1, <1>2, <1>3, <1>4, QuietRoute, Zenon DEF RouteOK

(* The device answers the one frame it has, or swallows it.                *)
LEMMA DeviceKeeps ==
    ASSUME RoutingInv, NEW r \in Route, DeviceAnswers(r) \/ DeviceSilent(r)
    PROVE  RoutingInv'
<1>a. /\ br[r] \in BrokerState /\ br[r].cur \in Nat
      /\ queue[r] \in Seq(Nat) /\ wire[r] \in Seq(Nat) /\ back[r] \in Seq(DeviceReply)
      /\ br \in [Route -> BrokerState] /\ queue \in [Route -> Seq(Nat)]
      /\ wire \in [Route -> Seq(Nat)] /\ back \in [Route -> Seq(DeviceReply)]
      /\ QueueOK(r) /\ CurOK(r) /\ LinkOK(r)
  BY RouteTypes
<1>b. /\ UNCHANGED <<cl, reqs, stopped, queue, br>>
      /\ wire[r] # <<>> /\ wire' = [wire EXCEPT ![r] = Tail(wire[r])]
  BY <1>a DEF DeviceAnswers, DeviceSilent
<1>c. br[r].pc = "read" /\ wire[r] = <<br[r].cur>> /\ back[r] = <<>>
  BY <1>a, <1>b DEF LinkOK
<1>d. PICK w \in Seq(Nat) : w = Tail(wire[r])
  BY <1>a, <1>b, HeadTailProperties, Zenon
<1>e. wire' = [wire EXCEPT ![r] = w] /\ wire'[r] = <<>>
  <2>1. Tail(<<br[r].cur>>) = <<>>
    BY <1>a
  <2>. QED BY <1>a, <1>b, <1>c, <1>d, <2>1
<1>1. QueueOK(r)' /\ CurOK(r)'
  BY <1>a, <1>b DEF QueueOK, CurOK
<1>2. queue' = [queue EXCEPT ![r] = queue[r]] /\ br' = [br EXCEPT ![r] = br[r]]
  BY <1>a, <1>b
<1>g. /\ br[r] \in BrokerState /\ queue[r] \in Seq(Nat) /\ back[r] \in Seq(DeviceReply)
      /\ UNCHANGED <<cl, reqs, stopped>>
  BY <1>a, <1>b
<1>3. CASE DeviceSilent(r)
  <2>1. back' = [back EXCEPT ![r] = back[r]] /\ back'[r] = <<>>
    BY <1>a, <1>c, <1>3 DEF DeviceSilent
  <2>2. LinkOK(r)'
    BY <1>e, <2>1 DEF LinkOK
  <2>3. RouteOK(r)'
    BY <1>1, <2>2 DEF RouteOK
  <2>. QED BY <1>e, <1>g, <1>2, <2>1, <2>3, QuietRoute, Zenon
<1>4. CASE DeviceAnswers(r)
  <2>1. PICK k \in Kinds : back' = [back EXCEPT ![r] = Append(back[r], [id |-> Head(wire[r]), kind |-> k])]
    BY <1>4, Zenon DEF DeviceAnswers
  <2>2. PICK rep \in DeviceReply : rep = [id |-> br[r].cur, kind |-> k]
    BY <1>a, Zenon DEF DeviceReply
  <2>3. Head(wire[r]) = br[r].cur
    BY <1>a, <1>c
  <2>4. Append(back[r], rep) = <<rep>> /\ <<rep>> \in Seq(DeviceReply)
    BY <1>c
  <2>5. PICK b \in Seq(DeviceReply) : b = Append(back[r], rep)
    BY <1>a, AppendProperties, Zenon
  <2>6. back' = [back EXCEPT ![r] = b] /\ back'[r] = <<rep>>
    BY <1>a, <2>1, <2>2, <2>3, <2>4, <2>5, Zenon
  <2>7. LinkOK(r)'
    <3>1. br'[r].pc = "read" /\ br'[r].cur = br[r].cur
      BY <1>b, <1>c
    <3>. QED BY <1>e, <2>2, <2>6, <3>1 DEF LinkOK
  <2>8. RouteOK(r)'
    BY <1>1, <2>7 DEF RouteOK
  <2>. QED BY <1>e, <1>g, <1>2, <2>6, <2>8, QuietRoute, Zenon
<1>. QED BY <1>3, <1>4, Zenon

(* The broker answers one of its requests.                                 *)
LEMMA AnswerRoute ==
    ASSUME RoutingInv, NEW r \in Route, UNCHANGED <<cl, stopped>>,
           NEW id \in DOMAIN reqs, reqs[id].route = r, NEW v \in Result,
           v.err = "none" => v.by = id /\ reqs[id].sent = 1,
           reqs' = WithRes(reqs, id, v),
           NEW y \in BrokerState, NEW q \in Seq(Nat), NEW b \in Seq(DeviceReply),
           NEW w \in Seq(Nat),
           br' = [br EXCEPT ![r] = y], queue' = [queue EXCEPT ![r] = q],
           wire' = [wire EXCEPT ![r] = w], back' = [back EXCEPT ![r] = b],
           RouteOK(r)'
    PROVE  RoutingInv'
<1>a. /\ br \in [Route -> BrokerState] /\ queue \in [Route -> Seq(Nat)]
      /\ wire \in [Route -> Seq(Nat)] /\ back \in [Route -> Seq(DeviceReply)]
      /\ reqs \in Seq(Request)
  BY RouteTypes, Zenon
<1>b. /\ reqs' \in Seq(Request) /\ Kept(reqs, reqs')
      /\ \A k \in DOMAIN reqs : /\ reqs'[k].expired = reqs[k].expired
                                /\ reqs'[k].lapsed = reqs[k].lapsed
                                /\ reqs'[k].sent = reqs[k].sent
                                /\ k # id => reqs'[k] = reqs[k]
      /\ reqs'[id].res = v
  <2>1. v \in Result \cup {None}
    BY Zenon
  <2>. QED BY <1>a, <2>1, ResChange
<1>1. /\ br' \in [Route -> BrokerState] /\ queue' \in [Route -> Seq(Nat)]
      /\ wire' \in [Route -> Seq(Nat)] /\ back' \in [Route -> Seq(DeviceReply)]
  BY <1>a, Zenon
<1>2. BrokerTypeOK'
  BY <1>b, <1>1, Zenon DEF RoutingInv, BrokerTypeOK
<1>3. OtherRoutesKept(r)
  BY <1>a, Zenon DEF OtherRoutesKept
<1>4. RequestOK(id)'
  <2>1. RequestOK(id)
    BY Zenon DEF RoutingInv
  <2>2. /\ reqs[id].lapsed => reqs[id].expired /\ reqs[id].sent = 0
        /\ reqs[id].sent \in {0, 1}
    BY <2>1, Zenon DEF RequestOK
  <2>3. /\ reqs'[id].lapsed = reqs[id].lapsed /\ reqs'[id].expired = reqs[id].expired
        /\ reqs'[id].sent = reqs[id].sent /\ reqs'[id].res = v /\ Kept(reqs, reqs')
        /\ cl' = cl
    BY <1>b, Zenon
  <2>. QED BY <2>1, <2>2, <2>3, RequestChange
<1>5. \A k \in DOMAIN reqs : reqs'[k] # reqs[k] => reqs[k].route = r /\ RequestOK(k)'
  BY <1>b, <1>4, Zenon
<1>6. \A k \in DOMAIN reqs : reqs[k].sent = 1 => reqs'[k].sent = 1
  BY <1>b, Zenon
<1>. QED BY <1>b, <1>2, <1>3, <1>5, <1>6, OneRoute, Zenon

(* A queue keeps its promise while the broker is done with its request.    *)
LEMMA QueueWaits ==
    ASSUME RoutingInv, NEW r \in Route, queue'[r] = queue[r],
           br'[r].cur \in {0, br[r].cur}, Kept(reqs, reqs'),
           \A k \in DOMAIN reqs : k # br[r].cur => reqs'[k].sent = reqs[k].sent
    PROVE  QueueOK(r)'
<1>1. QueueOK(r) /\ reqs \in Seq(Request)
  BY RouteTypes, Zenon
<1>2. 0 \notin DOMAIN reqs
  <2>1. DOMAIN reqs = 1 .. Len(reqs) /\ Len(reqs) \in Nat
    BY <1>1, LenProperties, Zenon
  <2>. QED BY <2>1
<1>. QED BY <1>1, <1>2 DEF QueueOK, Kept

(* The head of a queue leaves it.                                          *)
LEMMA QueueMoves ==
    ASSUME RoutingInv, NEW r \in Route, queue[r] # <<>>, br[r].cur = 0,
           queue' = [queue EXCEPT ![r] = Tail(@)],
           br'[r].cur \in {0, Head(queue[r])}, Kept(reqs, reqs'),
           \A k \in DOMAIN reqs : reqs'[k].sent = reqs[k].sent
    PROVE  /\ QueueOK(r)' /\ Tail(queue[r]) \in Seq(Nat)
           /\ queue' = [queue EXCEPT ![r] = Tail(queue[r])]
           /\ Head(queue[r]) \in DOMAIN reqs /\ Head(queue[r]) \in Nat \ {0}
           /\ reqs[Head(queue[r])].route = r /\ reqs[Head(queue[r])].sent = 0
<1>a. /\ QueueOK(r) /\ reqs \in Seq(Request) /\ queue[r] \in Seq(Nat)
      /\ queue \in [Route -> Seq(Nat)]
  BY RouteTypes, Zenon
<1>b. PICK n \in Nat : n = Len(reqs) /\ DOMAIN reqs = 1 .. n
  BY <1>a, LenProperties
<1>c. PICK m \in Nat \ {0} : m = Len(queue[r]) /\ DOMAIN queue[r] = 1 .. m
  BY <1>a, LenProperties, EmptySeq, Zenon
<1>d. PICK t \in Seq(Nat) : t = Tail(queue[r])
  BY <1>a, HeadTailProperties, Zenon
<1>e. DOMAIN t = 1 .. m - 1 /\ \A k \in 1 .. m - 1 : t[k] = queue[r][k + 1]
  BY <1>a, <1>c, <1>d, HeadTailProperties, LenProperties
<1>f. queue' = [queue EXCEPT ![r] = t] /\ queue'[r] = t
  BY <1>a, <1>d
<1>g. Head(queue[r]) = queue[r][1]
  BY <1>a
<1>1. /\ Head(queue[r]) \in DOMAIN reqs /\ Head(queue[r]) \in Nat \ {0}
      /\ reqs[Head(queue[r])].route = r /\ reqs[Head(queue[r])].sent = 0
  <2>1. 1 \in DOMAIN queue[r]
    BY <1>c
  <2>. QED BY <1>a, <1>b, <1>g, <2>1 DEF QueueOK
<1>2. ASSUME NEW k \in 1 .. m - 1
      PROVE  /\ t[k] \in DOMAIN reqs' /\ t[k] # br'[r].cur
             /\ reqs'[t[k]].route = r /\ reqs'[t[k]].sent = 0
  <2>1. t[k] = queue[r][k + 1] /\ k + 1 \in 1 .. m /\ 1 \in 1 .. m /\ k + 1 # 1
    BY <1>c, <1>e
  <2>2. /\ t[k] \in DOMAIN reqs /\ t[k] # Head(queue[r])
        /\ reqs[t[k]].route = r /\ reqs[t[k]].sent = 0
    BY <1>a, <1>c, <1>g, <2>1, Zenon DEF QueueOK
  <2>3. t[k] # 0
    BY <1>b, <2>2
  <2>. QED BY <2>2, <2>3 DEF Kept
<1>3. ASSUME NEW j \in 1 .. m - 1, NEW k \in 1 .. m - 1, t[j] = t[k] PROVE j = k
  <2>1. j + 1 \in 1 .. m /\ k + 1 \in 1 .. m
    BY <1>c
  <2>2. queue[r][j + 1] = queue[r][k + 1]
    BY <1>3, <1>e
  <2>3. j + 1 = k + 1
    BY <1>a, <1>c, <2>1, <2>2, Zenon DEF QueueOK
  <2>. QED BY <2>3
<1>4. QueueOK(r)'
  BY <1>e, <1>f, <1>2, <1>3, Zenon DEF QueueOK
<1>. QED BY <1>d, <1>f, <1>1, <1>4, Zenon

(* An error is no reply.                                                   *)
LEMMA ErrorIsAResult ==
    ASSUME NEW e \in {"transient", "other"}
    PROVE  Error(e) \in Result /\ Error(e).err # "none"
  BY DEF Error, Result

-----------------------------------------------------------------------------
(* The frames of a write                                                   *)

(* The cardinalities that are needed, from the definition.                 *)
LEMMA NoElement == Cardinality({}) = 0
<1>. DEFINE def(f) == f = [T \in SUBSET {} |-> IF T = {} THEN 0
                                               ELSE 1 + f[T \ {CHOOSE x : x \in T}]]
            CS == CHOOSE f : def(f)
<1>1. Cardinality({}) = CS[{}]
  BY DEF Cardinality
<1>2. def([T \in SUBSET {} |-> 0])
  OBVIOUS
<1>3. def(CS)
  BY <1>2, Zenon
<1>. HIDE DEF CS
<1>4. CS[{}] = 0
  BY <1>3
<1>. QED BY <1>1, <1>4

LEMMA OneElement == ASSUME NEW a PROVE Cardinality({a}) = 1
<1>. DEFINE def(f) == f = [T \in SUBSET {a} |-> IF T = {} THEN 0
                                                ELSE 1 + f[T \ {CHOOSE x : x \in T}]]
            CS == CHOOSE f : def(f)
            g == [T \in SUBSET {a} |-> IF T = {} THEN 0 ELSE 1]
<1>0. \A T \in SUBSET {a} : T # {} => T = {a} /\ T \ {CHOOSE x : x \in T} = {}
  <2>. SUFFICES ASSUME NEW T \in SUBSET {a}, T # {} PROVE T = {a} /\ T \ {CHOOSE x : x \in T} = {}
    OBVIOUS
  <2>1. T = {a}
    OBVIOUS
  <2>2. (CHOOSE x : x \in T) \in T
    BY Zenon
  <2>. QED BY <2>1, <2>2
<1>1. Cardinality({a}) = CS[{a}]
  BY DEF Cardinality
<1>2. def(g)
  <2>1. \A T \in SUBSET {a} : g[T] = IF T = {} THEN 0 ELSE 1 + g[T \ {CHOOSE x : x \in T}]
    BY <1>0
  <2>. QED BY <2>1
<1>3. def(CS)
  BY <1>2, Zenon
<1>. HIDE DEF CS
<1>4. CS[{}] = 0
  BY <1>3
<1>5. CS[{a}] = 1 + CS[{a} \ {CHOOSE x : x \in {a}}]
  BY <1>3
<1>. QED BY <1>0, <1>1, <1>4, <1>5

(* The frame of write call n of client c has been sent.                    *)
WentOut(c, n) ==
    \E id \in DOMAIN reqs : /\ reqs[id].client = c /\ reqs[id].call = n
                            /\ ~reqs[id].read /\ reqs[id].sent = 1

(* A write has one request, which is sent at most once.                    *)
LEMMA WritesCount ==
    ASSUME RoutingInv, NEW c, NEW n
    PROVE  WritesSent(c, n) = IF WentOut(c, n) THEN 1 ELSE 0
<1>. DEFINE ids == {id \in DOMAIN reqs : /\ reqs[id].client = c /\ reqs[id].call = n
                                         /\ ~reqs[id].read}
            frames == {{id} \X (1 .. reqs[id].sent) : id \in ids}
<1>a. \A id \in DOMAIN reqs : RequestOK(id)
  BY DEF RoutingInv
<1>b. WritesSent(c, n) = Cardinality(UNION frames)
  BY DEF WritesSent
<1>1. CASE WentOut(c, n)
  <2>1. PICK id \in DOMAIN reqs : /\ reqs[id].client = c /\ reqs[id].call = n
                                  /\ ~reqs[id].read /\ reqs[id].sent = 1
    BY <1>1, Zenon DEF WentOut
  <2>2. ids = {id}
    BY <1>a, <2>1 DEF RequestOK
  <2>3. 1 .. reqs[id].sent = {1}
    BY <2>1
  <2>4. frames = {{id} \X {1}}
    BY <2>2, <2>3
  <2>6. {id} \X {1} = {<<id, 1>>}
    OBVIOUS
  <2>5. UNION frames = {<<id, 1>>}
    BY <2>4, <2>6, Zenon
  <2>. QED BY <1>1, <1>b, <2>5, OneElement, Zenon
<1>2. CASE ~WentOut(c, n)
  <2>1. \A id \in ids : reqs[id].sent = 0
    BY <1>2, <1>a, Zenon DEF WentOut, RequestOK
  <2>2. \A id \in ids : {id} \X (1 .. reqs[id].sent) = {}
    BY <2>1
  <2>3. UNION frames = {}
    BY <2>2
  <2>. QED BY <1>2, <1>b, <2>3, NoElement, Zenon
<1>. QED BY <1>1, <1>2

LEMMA WritesCountNext ==
    (RoutingInv => \A c, n : WritesSent(c, n) = IF WentOut(c, n) THEN 1 ELSE 0)'
<1>1. RoutingInv => \A c, n : WritesSent(c, n) = IF WentOut(c, n) THEN 1 ELSE 0
  BY WritesCount
<1>. QED BY <1>1, PTL

=============================================================================

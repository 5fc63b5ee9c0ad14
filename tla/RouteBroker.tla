---------------------------- MODULE RouteBroker -----------------------------
(***************************************************************************)
(* How mecomserver moves one frame: routeFrame (router.go) on the client   *)
(* side, runBroker and exchange (server.go) on the side that owns the      *)
(* downstream connection, and the device behind it.                        *)
(*                                                                         *)
(* A client is a goroutine of handleRoutedClient or, in the single-target  *)
(* server, of handleClientWithSelector, which uses the first route only    *)
(* (direct).  Each attempt is a request with a context of its own; one     *)
(* that timed out may still sit in a broker's queue or be in an exchange,  *)
(* so requests have identities.  A connection is "none" (conn = nil),      *)
(* "open", or "dead": closed by the exchange watchdog after the reply had  *)
(* already been read, while the broker still takes it for open.            *)
(*                                                                         *)
(* Data: a frame is its kind (read or write); a reply is the identity of   *)
(* the request the device answers, plus whether it is a NACK that lets a   *)
(* read fall through to the next route (shouldFallThroughRouteNACK) or any *)
(* other reply, which is passed on.                                        *)
(***************************************************************************)
EXTENDS Naturals, Sequences, FiniteSets

CONSTANTS
    Clients,    \* client goroutines
    Servers,    \* "router" or "single" or, to check both, the two
    Routes,     \* routes in configured order: <<preferred, fallback, ...>>
    Native,     \* the routes whose target speaks MeCom natively (not CAN)
    Dynamic,    \* RouteSelectionDynamic
    QueueCap,   \* capacity of a route's request channel (256)
    MaxCalls,   \* bound on the frames a client sends
    MaxReqs,    \* bound on the requests created
    MaxErrors,  \* where the model stops counting a route's errors
    MayStop,    \* whether the server's context may end
    None

ASSUME BrokerConstants ==
    /\ Servers \subseteq {"router", "single"}
    /\ Routes \in Seq(STRING)
    /\ Routes # <<>>
    /\ Dynamic \in BOOLEAN
    /\ QueueCap \in Nat \ {0}
    /\ MaxCalls \in Nat
    /\ MaxReqs \in Nat
    /\ MaxErrors \in Nat
    /\ MayStop \in BOOLEAN
    /\ None \notin Nat /\ None # "reply"

Route == {Routes[i] : i \in DOMAIN Routes}

VARIABLES
    cl,      \* per client: direct, pc, read, cands, i, attempt, req, calls, answer
    reqs,    \* the requests created so far
    queue,   \* per route: the request channel
    br,      \* per route: the broker's pc, cur, conn and its statistics
    wire,    \* per route: requests on their way to the device
    back,    \* per route: replies the device has sent on the connection
    stopped  \* ctx of the server is done

vars == <<cl, reqs, queue, br, wire, back, stopped>>

Kinds == {"answer", "nackFallThrough"}

(* A client's answer is the request whose reply it got, or Failed.         *)
Failed == 0

(* A request's context is done when it expired or the server stops.        *)
Done(id) == reqs[id].expired \/ stopped

Init ==
    /\ \E server \in Servers :
          cl = [c \in Clients |->
                  [direct |-> server = "single", pc |-> "idle", read |-> FALSE,
                   cands |-> Routes, i |-> 1, attempt |-> 0, req |-> 0,
                   calls |-> 0, answer |-> None]]
    /\ reqs = <<>>
    /\ queue = [r \in Route |-> <<>>]
    /\ br = [r \in Route |->
               [pc |-> "idle", cur |-> 0, conn |-> "none",
                connected |-> FALSE, errors |-> 0]]
    /\ wire = [r \in Route |-> <<>>]
    /\ back = [r \in Route |-> <<>>]
    /\ stopped = FALSE

-----------------------------------------------------------------------------
(* Choosing the route.                                                     *)

Place(s, r) == CHOOSE i \in DOMAIN s : s[i] = r

Priority(r) == Place(Routes, r) - 1

(* routeCandidateScore of a read; lower is better (offset to stay in Nat). *)
Score(r) ==
    LET s == br[r]
        base == 1000 + 200 * Priority(r) + Len(queue[r])
        errs == IF s.errors = 0 THEN 0
                ELSE 250 + 25 * s.errors + (IF s.connected THEN 0 ELSE 250)
        bonus == (IF s.connected THEN 25 ELSE 0)
                 + (IF Priority(r) = 0 THEN 25 ELSE 0)
    IN  base + errs - bonus

(* orderRouteCandidates for a dynamic read: a stable sort by score.        *)
SortedByScore(s) ==
    \A i, j \in DOMAIN s :
        i < j => \/ Score(s[i]) < Score(s[j])
                 \/ /\ Score(s[i]) = Score(s[j])
                    /\ Priority(s[i]) < Priority(s[j])

Orders ==
    {s \in [DOMAIN Routes -> Route] : \A i, j \in DOMAIN Routes : s[i] = s[j] => i = j}

DynamicOrders == {s \in Orders : SortedByScore(s)}

(* preferNativeMeComRouteForVirtualRead: a read of a virtual parameter     *)
(* tries the native routes first, each group in the order it had in s.     *)
NativeFirst(s) ==
    {t \in Orders :
        \A i, j \in DOMAIN t :
            i < j => \/ t[i] \in Native /\ t[j] \notin Native
                     \/ /\ t[i] \in Native <=> t[j] \in Native
                        /\ Place(s, t[i]) < Place(s, t[j])}

(* The orders a frame may be tried in: a write has the configured one, a   *)
(* read may name a virtual parameter or not.                               *)
CandidateOrders(read) ==
    LET orders == IF Dynamic /\ read THEN DynamicOrders ELSE {Routes}
    IN  IF read THEN orders \cup UNION {NativeFirst(s) : s \in orders} ELSE orders

(* A frame arrives that is neither rejected nor handled by the router.     *)
Call(c, read) ==
    /\ cl[c].pc = "idle"
    /\ cl[c].calls < MaxCalls
    /\ \E order \in CandidateOrders(read) :
          cl' = [cl EXCEPT ![c] =
                   [cl[c] EXCEPT
                      !.pc = "enqueue", !.read = read,
                      !.cands = IF cl[c].direct THEN <<Routes[1]>> ELSE order,
                      !.i = 1, !.attempt = 1, !.req = 0,
                      !.calls = @ + 1, !.answer = None]]
    /\ UNCHANGED <<reqs, queue, br, wire, back, stopped>>

-----------------------------------------------------------------------------
(* routeFrame.                                                             *)

Cand(c) == cl[c].cands[cl[c].i]
HasNext(c) == cl[c].i < Len(cl[c].cands)
Attempts(c) == IF cl[c].read /\ ~cl[c].direct THEN 2 ELSE 1

\* A mutant for ImplementsContract: a write is replayed on the fallback route.
WriteFallsBackToo(c, ctxDone) ==
    IF HasNext(c) /\ ~ctxDone
    THEN [cl[c] EXCEPT !.pc = "enqueue", !.i = @ + 1, !.attempt = 1, !.req = 0]
    ELSE [cl[c] EXCEPT !.pc = IF stopped THEN "gone" ELSE "idle",
                       !.req = 0, !.answer = Failed]

\* A mutant for ReadsExhaustTheirRoutes: a read fails with its first route.
ReadGivesUpAtOnce(c, ctxDone) ==
    [cl[c] EXCEPT !.pc = IF stopped THEN "gone" ELSE "idle",
                  !.req = 0, !.answer = Failed]

(* The next state of a client that gives up this candidate with an error:  *)
(* a read moves to the next candidate while there is one, a write fails.   *)
GivenUp(c, ctxDone) ==
    IF cl[c].read /\ HasNext(c) /\ ~ctxDone
    THEN [cl[c] EXCEPT !.pc = "enqueue", !.i = @ + 1, !.attempt = 1, !.req = 0]
    ELSE [cl[c] EXCEPT !.pc = IF stopped THEN "gone" ELSE "idle",
                       !.req = 0, !.answer = Failed]

(* A single-target client closes its connection when a request times out.  *)
TimedOut(c) ==
    IF cl[c].direct
    THEN [cl[c] EXCEPT !.pc = "gone", !.req = 0, !.answer = Failed]
    ELSE GivenUp(c, stopped)

Enqueue(c) ==
    LET r == Cand(c) IN
    /\ cl[c].pc = "enqueue"
    /\ Len(queue[r]) < QueueCap
    /\ Len(reqs) < MaxReqs
    /\ reqs' = Append(reqs, [client |-> c, call |-> cl[c].calls, route |-> r,
                             read |-> cl[c].read, expired |-> FALSE,
                             lapsed |-> FALSE, sent |-> 0, res |-> None])
    /\ queue' = [queue EXCEPT ![r] = Append(@, Len(reqs) + 1)]
    /\ cl' = [cl EXCEPT ![c] = [@ EXCEPT !.pc = "wait", !.req = Len(reqs) + 1]]
    /\ UNCHANGED <<br, wire, back, stopped>>

(* The channel stayed full until the request's context expired.            *)
EnqueueTimeout(c) ==
    /\ cl[c].pc = "enqueue"
    /\ Len(queue[Cand(c)]) = QueueCap
    /\ cl' = [cl EXCEPT ![c] = TimedOut(c)]
    /\ UNCHANGED <<reqs, queue, br, wire, back, stopped>>

IsQueued(r, id) == \E n \in DOMAIN queue[r] : queue[r][n] = id

\* A mutant for NobodyWaitsForEver: requests have no deadline.
ExpireOnStopOnly(id) ==
    /\ stopped
    /\ ~reqs[id].expired
    /\ cl[reqs[id].client].req = id
    /\ reqs' = [reqs EXCEPT ![id].expired = TRUE]
    /\ UNCHANGED <<cl, queue, br, wire, back, stopped>>

(* The request timeout of an unanswered request fires.                     *)
Expire(id) ==
    /\ ~reqs[id].expired
    /\ cl[reqs[id].client].req = id
    /\ reqs' = [reqs EXCEPT ![id] =
                   [@ EXCEPT !.expired = TRUE, !.lapsed = \E r \in Route : IsQueued(r, id)]]
    /\ UNCHANGED <<cl, queue, br, wire, back, stopped>>

(* The result channel delivers a frame: a read with further candidates may *)
(* fall through on a NACK, everything else is the client's answer.         *)
TakeReply(c) ==
    LET id == cl[c].req IN
    /\ cl[c].pc = "wait"
    /\ reqs[id].res # None
    /\ reqs[id].res.err = "none"
    /\ cl' = [cl EXCEPT ![c] =
                IF cl[c].read /\ HasNext(c) /\ reqs[id].res.kind = "nackFallThrough"
                THEN [cl[c] EXCEPT !.pc = "enqueue", !.i = @ + 1, !.attempt = 1, !.req = 0]
                ELSE [cl[c] EXCEPT !.pc = "idle", !.req = 0,
                                   !.answer = reqs[id].res.by]]
    /\ UNCHANGED <<reqs, queue, br, wire, back, stopped>>

(* The result channel delivers an error: a read retries once on the same   *)
(* candidate when the error is transient, then moves on; a write fails.    *)
Retries(c) ==
    /\ reqs[cl[c].req].res.err = "transient"
    /\ cl[c].attempt < Attempts(c)
    /\ ~stopped

TakeError(c) ==
    LET id == cl[c].req IN
    /\ cl[c].pc = "wait"
    /\ reqs[id].res # None
    /\ reqs[id].res.err # "none"
    /\ cl' = [cl EXCEPT ![c] =
                IF Retries(c)
                THEN [cl[c] EXCEPT !.pc = "enqueue", !.attempt = @ + 1, !.req = 0]
                ELSE GivenUp(c, FALSE)]
    /\ UNCHANGED <<reqs, queue, br, wire, back, stopped>>

(* reqCtx.Done() wins the select while the request is queued or under way. *)
WaitTimeout(c) ==
    /\ cl[c].pc = "wait"
    /\ reqs[cl[c].req].expired
    /\ cl' = [cl EXCEPT ![c] = TimedOut(c)]
    /\ UNCHANGED <<reqs, queue, br, wire, back, stopped>>

(* The client hangs up, or the server stops and closes its connection.     *)
Leave(c) ==
    /\ cl[c].pc \in {"idle"} \cup (IF stopped THEN {"enqueue", "wait"} ELSE {})
    /\ cl' = [cl EXCEPT ![c] = [@ EXCEPT !.pc = "gone", !.req = 0, !.answer = None]]
    /\ UNCHANGED <<reqs, queue, br, wire, back, stopped>>

Stop ==
    /\ MayStop
    /\ ~stopped
    /\ stopped' = TRUE
    /\ UNCHANGED <<cl, reqs, queue, br, wire, back>>

-----------------------------------------------------------------------------
(* runBroker and exchange.                                                 *)

Cur(r) == br[r].cur

(* The broker answers its current request and goes back to its select.     *)
Reply(r, res) == reqs' = [reqs EXCEPT ![Cur(r)] = [@ EXCEPT !.res = res]]

Error(e) == [err |-> e, kind |-> None, by |-> 0]

(* markDisconnected's error count.                                         *)
MoreErrors(n) == IF n < MaxErrors THEN n + 1 ELSE n

\* A mutant for AnswersAreForThisCall: a failed connection is kept and its
\* late reply read.
CloseConnForgotten(r) ==
    UNCHANGED <<wire, back>>

(* closeConn: what is in the connection is lost to the broker.  A frame    *)
(* already written may still reach the device; it counts as sent.          *)
CloseConn(r) ==
    /\ wire' = [wire EXCEPT ![r] = <<>>]
    /\ back' = [back EXCEPT ![r] = <<>>]

\* A mutant for AnswersAreForThisCall: the broker sends requests whose
\* caller has gone.
TakeWithoutCheck(r) ==
    LET id == Head(queue[r]) IN
    /\ br[r].pc = "idle"
    /\ queue[r] # <<>>
    /\ queue' = [queue EXCEPT ![r] = Tail(@)]
    /\ br' = [br EXCEPT ![r] =
                 [@ EXCEPT !.pc = IF br[r].conn = "none" THEN "dial" ELSE "write",
                           !.cur = id]]
    /\ UNCHANGED <<reqs, cl, wire, back, stopped>>

(* A request whose context is done before the broker reaches it is         *)
(* answered with the context's error and never sent.                       *)
Take(r) ==
    LET id == Head(queue[r]) IN
    /\ br[r].pc = "idle"
    /\ queue[r] # <<>>
    /\ queue' = [queue EXCEPT ![r] = Tail(@)]
    /\ IF Done(id)
       THEN /\ reqs' = [reqs EXCEPT ![id] = [@ EXCEPT !.res = Error("other")]]
            /\ UNCHANGED br
       ELSE /\ br' = [br EXCEPT ![r] =
                         [@ EXCEPT !.pc = IF br[r].conn = "none" THEN "dial" ELSE "write",
                                   !.cur = id]]
            /\ UNCHANGED reqs
    /\ UNCHANGED <<cl, wire, back, stopped>>

DialOK(r) ==
    /\ br[r].pc = "dial"
    /\ br' = [br EXCEPT ![r] =
                 [@ EXCEPT !.pc = "write", !.conn = "open", !.connected = TRUE]]
    /\ UNCHANGED <<cl, reqs, queue, wire, back, stopped>>

DialFail(r) ==
    /\ br[r].pc = "dial"
    /\ \E e \in {"transient", "other"} : Reply(r, Error(e))
    /\ br' = [br EXCEPT ![r] =
                 [br[r] EXCEPT !.pc = "sleep", !.cur = 0,
                               !.connected = FALSE, !.errors = MoreErrors(@)]]
    /\ UNCHANGED <<cl, queue, wire, back, stopped>>

(* sleepOrDone(ctx, ReconnectDelay)                                        *)
SleepDone(r) ==
    /\ br[r].pc = "sleep"
    /\ br' = [br EXCEPT ![r] = [@ EXCEPT !.pc = "idle"]]
    /\ UNCHANGED <<cl, reqs, queue, wire, back, stopped>>

(* The exchange fails with e: the connection is closed and forgotten.      *)
FailExchange(r, e) ==
    /\ Reply(r, Error(e))
    /\ br' = [br EXCEPT ![r] =
                 [br[r] EXCEPT !.pc = "idle", !.cur = 0, !.conn = "none",
                               !.connected = FALSE, !.errors = MoreErrors(@)]]
    /\ CloseConn(r)
    /\ UNCHANGED <<cl, queue, stopped>>

WriteFrame(r) ==
    /\ br[r].pc = "write"
    /\ br[r].conn = "open"
    /\ wire' = [wire EXCEPT ![r] = Append(@, Cur(r))]
    /\ reqs' = [reqs EXCEPT ![Cur(r)] = [reqs[Cur(r)] EXCEPT !.sent = @ + 1]]
    /\ br' = [br EXCEPT ![r] = [@ EXCEPT !.pc = "read"]]
    /\ UNCHANGED <<cl, queue, back, stopped>>

(* The write or the read fails because the context is done (the watchdog   *)
(* closes the connection, or the deadline passes), or because the          *)
(* connection is the one an earlier watchdog closed.                       *)
ExchangeAborted(r) ==
    /\ br[r].pc \in {"write", "read"}
    /\ \/ Done(Cur(r)) /\ FailExchange(r, "other")
       \/ br[r].conn = "dead" /\ FailExchange(r, "transient")

(* The link breaks under the exchange: EPIPE, ECONNRESET or EOF.           *)
LinkLost(r) ==
    /\ br[r].pc \in {"write", "read"}
    /\ br[r].conn = "open"
    /\ FailExchange(r, "transient")

(* A frame has been read up to its terminator.  When the context is done   *)
(* by then, the watchdog may have decided to close the connection already. *)
ReadReply(r) ==
    LET rep == Head(back[r]) IN
    /\ br[r].pc = "read"
    /\ back[r] # <<>>
    /\ back' = [back EXCEPT ![r] = Tail(@)]
    /\ Reply(r, [err |-> "none", kind |-> rep.kind, by |-> rep.id])
    /\ \E conn \in {"open"} \cup (IF Done(Cur(r)) THEN {"dead"} ELSE {}) :
          br' = [br EXCEPT ![r] = [@ EXCEPT !.pc = "idle", !.cur = 0, !.conn = conn]]
    /\ UNCHANGED <<cl, queue, wire, stopped>>

\* A mutant for NobodyWaitsForEver: a connected broker does not see the stop.
BrokerExitsOnlyDisconnected(r) ==
    /\ stopped
    /\ br[r].pc = "idle"
    /\ br[r].conn = "none"
    /\ br' = [br EXCEPT ![r].pc = "exited"]
    /\ UNCHANGED <<cl, reqs, queue, wire, back, stopped>>

BrokerExit(r) ==
    /\ stopped
    /\ br[r].pc = "idle"
    /\ br' = [br EXCEPT ![r] = [@ EXCEPT !.pc = "exited", !.conn = "none"]]
    /\ CloseConn(r)
    /\ UNCHANGED <<cl, reqs, queue, stopped>>

-----------------------------------------------------------------------------
(* The device answers the frames that reach it in order, or swallows one.  *)

DeviceAnswers(r) ==
    /\ wire[r] # <<>>
    /\ wire' = [wire EXCEPT ![r] = Tail(@)]
    /\ \E k \in Kinds :
          back' = [back EXCEPT ![r] = Append(@, [id |-> Head(wire[r]), kind |-> k])]
    /\ UNCHANGED <<cl, reqs, queue, br, stopped>>

DeviceSilent(r) ==
    /\ wire[r] # <<>>
    /\ wire' = [wire EXCEPT ![r] = Tail(@)]
    /\ UNCHANGED <<cl, reqs, queue, br, back, stopped>>

-----------------------------------------------------------------------------

ClientStep(c) ==
    \/ Enqueue(c)
    \/ EnqueueTimeout(c)
    \/ TakeReply(c)
    \/ TakeError(c)
    \/ WaitTimeout(c)
    \/ stopped /\ Leave(c)

BrokerStep(r) ==
    \/ Take(r)
    \/ DialOK(r)
    \/ DialFail(r)
    \/ SleepDone(r)
    \/ WriteFrame(r)
    \/ ExchangeAborted(r)
    \/ ReadReply(r)
    \/ BrokerExit(r)

Next ==
    \/ \E c \in Clients :
          \/ \E read \in BOOLEAN : Call(c, read)
          \/ ClientStep(c)
          \/ ~stopped /\ Leave(c)
    \/ \E id \in DOMAIN reqs : Expire(id)
    \/ \E r \in Route :
          \/ BrokerStep(r)
          \/ LinkLost(r)
          \/ DeviceAnswers(r)
          \/ DeviceSilent(r)
    \/ Stop

Spec == Init /\ [][Next]_vars

(***************************************************************************)
(* Goroutines run, request timers fire, and a dial ends within its         *)
(* timeout.  Nothing is assumed of the device, the link, or the clients'   *)
(* will to send or leave.                                                  *)
(***************************************************************************)
FairSpec ==
    /\ Spec
    /\ \A c \in Clients : WF_vars(ClientStep(c))
    /\ \A r \in Route : WF_vars(BrokerStep(r))
    /\ \A id \in 1 .. MaxReqs : WF_vars(id \in DOMAIN reqs /\ Expire(id))

-----------------------------------------------------------------------------

Requests(c) ==
    {id \in DOMAIN reqs : reqs[id].client = c /\ reqs[id].call = cl[c].calls}

(***************************************************************************)
(* A client is answered by what the device said to a frame sent for this   *)
(* very call, never by what is left over from an earlier call of its own   *)
(* or of another client.  MeCom replies are matched by position only       *)
(* (exchange compares neither address nor sequence number), so this rests  *)
(* on every failed or timed-out exchange closing the connection its late   *)
(* reply would arrive on; and on runBroker dropping the requests that      *)
(* timed out while they were queued, whose replies nobody would take.      *)
(***************************************************************************)
AnswersAreForThisCall ==
    /\ \A c \in Clients :
          cl[c].answer \notin {None, Failed} =>
              /\ cl[c].answer \in Requests(c)
              /\ reqs[cl[c].answer].sent = 1
    /\ \A id \in DOMAIN reqs : reqs[id].lapsed => reqs[id].sent = 0

(***************************************************************************)
(* A read is failed only after the last of its candidate routes was tried. *)
(***************************************************************************)
ReadsExhaustTheirRoutes ==
    \A c \in Clients :
        cl[c].read /\ cl[c].answer = Failed /\ ~stopped
        => cl[c].i = Len(cl[c].cands)

(***************************************************************************)
(* Every frame a client sends is answered or its connection is closed, no  *)
(* matter how silent the device is; and after the server's context ends    *)
(* every client goroutine and every broker returns (routeFrame, runBroker  *)
(* and its watchdog never wait for one another for good).                  *)
(***************************************************************************)
NobodyWaitsForEver ==
    /\ \A c \in Clients : cl[c].pc \in {"enqueue", "wait"} ~> cl[c].pc \in {"idle", "gone"}
    /\ stopped ~> /\ \A c \in Clients : cl[c].pc = "gone"
                  /\ \A r \in Route : br[r].pc = "exited"

(* How often a call of a client that is a write was put on the wire.       *)
WritesSent(c, n) ==
    LET ids == {id \in DOMAIN reqs : /\ reqs[id].client = c
                                     /\ reqs[id].call = n
                                     /\ ~reqs[id].read}
    IN  Cardinality(UNION {{id} \X (1 .. reqs[id].sent) : id \in ids})

(* What the contract sees of a client.                                     *)
Seen(x) ==
    [pc |-> IF x.pc \in {"enqueue", "wait"} THEN "busy" ELSE x.pc,
     n |-> x.calls,
     read |-> x.read,
     outcome |-> IF x.answer = None THEN None
                 ELSE IF x.answer = Failed THEN "error"
                 ELSE "reply"]

Calls == [c \in Clients |-> Seen(cl[c])]
Outs == [c \in Clients |-> [n \in 1 .. MaxCalls |-> WritesSent(c, n)]]

Contract == INSTANCE RouteContract WITH call <- Calls, outs <- Outs

(***************************************************************************)
(* Routing keeps its contract: seen through the calls and the frames that  *)
(* went out, every step of clients, brokers and devices is a step of       *)
(* RouteContract.                                                          *)
(***************************************************************************)
ImplementsContract == Contract!Spec
=============================================================================

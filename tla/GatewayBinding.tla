--------------------------- MODULE GatewayBinding ---------------------------
(***************************************************************************)
(* One device of the HTTP gateway (cmd/mecomgw): the binding every handler *)
(* shares.  bind opens the device's client lazily, resetDeviceBinding      *)
(* closes it after a failure, and in between handlers use the client they  *)
(* took a snapshot of, which may have been replaced since.                 *)
(*                                                                         *)
(* Clients are numbered in the order they are opened; 0 stands for nil.    *)
(* The ASCII proxy (mecom/proxy.go) lends the bound client's transport to  *)
(* external tools.  resetDeviceBinding stops the proxy while it holds      *)
(* b.mu, and ProxyServer.Stop waits for the proxy's connections, so the    *)
(* mutex is state: mu is the handler inside resetDeviceBinding, or None.   *)
(* The other critical sections do not wait for anybody and are one step.   *)
(***************************************************************************)
EXTENDS Naturals, FiniteSets

CONSTANTS
    Readers,     \* one-shot users of the client: handleRead, the lazy poll
    Streams,     \* handlePollSSE: they use one client until the peer leaves
    Writers,     \* handleWrite; its steps after bind are GatewayWrite's
    Tools,       \* external tools that may connect to the proxy
    ProxyOn,     \* proxyBasePort > 0 and an ASCII transport
    Errors,      \* the errors a client call may return
    MaxClients,  \* bound on the clients opened
    None

Handlers == Readers \cup Streams \cup Writers

Transport == {"ErrUnreachable", "ErrTimeout"}

Benign == {"ErrUnknownParameter", "ErrParameterReadOnly", "ErrWriteRejected",
           "ErrTransportNotSupported", "ErrBadAddress", "ErrInvalidArgument"}

(* Errors that wrap none of the sentinels: a lost connection, a client     *)
(* that has been closed, a NACK or a malformed reply of the ASCII          *)
(* protocol, a cancelled request, a readback mismatch, a rejected lease.   *)
Unclassified == {"eof", "closed", "nack", "canceled", "mismatch", "lease"}

ASSUME BindingConstants ==
    /\ Readers \cap Streams = {}
    /\ Readers \cap Writers = {}
    /\ Streams \cap Writers = {}
    /\ None \notin Handlers
    /\ ProxyOn \in BOOLEAN
    /\ Errors \subseteq Transport \cup Benign \cup Unclassified
    /\ MaxClients \in Nat

VARIABLES
    client,     \* b.client
    opened,     \* how many clients have been opened
    closed,     \* the clients whose transport has been closed
    proxy,      \* the client b.proxy serves, or 0 when b.proxy is nil
    listening,  \* the proxy's listener accepts connections
    ring,       \* the client b.ring reads, or 0 when b.ring is nil
    lastErr,    \* b.lastErr
    mu,         \* who holds b.mu across steps
    req,        \* per handler: pc, snap (its client) and err
    tool,       \* per tool: its session with the proxy, pc and the client
    failedOn    \* history: clients with a failed call that calls for a reset

bindingVars == <<client, opened, closed, proxy, listening, ring, lastErr, mu,
                 req, tool, failedOn>>

(* Where a handler is; the lease and write steps are GatewayWrite's.       *)
PCs == {"idle", "bind", "use", "reset", "stopping", "authorize", "backoff",
        "preread", "recheck", "write", "readback", "verify"}

AnyError == Transport \cup Benign \cup Unclassified \cup {None}

RequestState == [pc : PCs, snap : Nat, err : AnyError]

Idle == [pc |-> "idle", snap |-> 0, err |-> None]
NoSession == [pc |-> "out", on |-> 0]

(* The bound client, the closed ones and every handler's snapshot are      *)
(* among the clients opened, and handlers and tools are where bind,        *)
(* resetDeviceBinding and handleConn can leave them.                       *)
BindingTypeOK ==
    /\ opened \in 0 .. MaxClients
    /\ client \in 0 .. opened
    /\ closed \subseteq 1 .. opened
    /\ proxy \in 0 .. opened
    /\ listening \in BOOLEAN
    /\ ring \in 0 .. opened
    /\ lastErr \in AnyError
    /\ mu \in Handlers \cup {None}
    /\ req \in [Handlers -> RequestState]
    /\ \A h \in Handlers : req[h].snap <= opened
    /\ tool \in [Tools -> [pc : {"out", "idle", "busy"}, on : Nat]]
    /\ failedOn \subseteq 1 .. opened

BindingInit ==
    /\ client = 0
    /\ opened = 0
    /\ closed = {}
    /\ proxy = 0
    /\ listening = FALSE
    /\ ring = 0
    /\ lastErr = None
    /\ mu = None
    /\ req = [h \in Handlers |-> Idle]
    /\ tool = [t \in Tools |-> NoSession]
    /\ failedOn = {}

-----------------------------------------------------------------------------
(* bind *)

AfterBind(h) == IF h \in Writers THEN "authorize" ELSE "use"

Request(h) ==
    /\ req[h].pc = "idle"
    /\ req' = [req EXCEPT ![h].pc = "bind"]
    /\ UNCHANGED <<client, opened, closed, proxy, listening, ring, lastErr, mu, tool, failedOn>>

BindBound(h) ==
    /\ req[h].pc = "bind"
    /\ mu = None
    /\ client # 0
    /\ req' = [req EXCEPT ![h] = [@ EXCEPT !.pc = AfterBind(h), !.snap = client]]
    /\ UNCHANGED <<client, opened, closed, proxy, listening, ring, lastErr, mu, tool, failedOn>>

\* A mutant for NoLeakedClient: a client is opened over the one already bound.
BindOpensAnyway(h) ==
    /\ req[h].pc = "bind"
    /\ mu = None
    /\ opened < MaxClients
    /\ opened' = opened + 1
    /\ client' = opened + 1
    /\ req' = [req EXCEPT ![h] = [@ EXCEPT !.pc = AfterBind(h), !.snap = opened + 1]]
    /\ UNCHANGED <<closed, proxy, listening, ring, lastErr, mu, tool, failedOn>>

(* One of the configured endpoints answers.  The proxy is started when     *)
(* there is none; b.proxy is set even when its listener cannot be opened.  *)
(* The ring reader is started too, and b.ring is nil when that fails.      *)
BindOpens(h) ==
    /\ req[h].pc = "bind"
    /\ mu = None
    /\ client = 0
    /\ opened < MaxClients
    /\ opened' = opened + 1
    /\ client' = opened + 1
    /\ lastErr' = None
    /\ IF ProxyOn /\ proxy = 0
       THEN proxy' = opened + 1 /\ listening' \in BOOLEAN
       ELSE UNCHANGED <<proxy, listening>>
    /\ ring' \in IF ring = 0 THEN {0, opened + 1} ELSE {ring}
    /\ req' = [req EXCEPT ![h] = [@ EXCEPT !.pc = AfterBind(h), !.snap = opened + 1]]
    /\ UNCHANGED <<closed, mu, tool, failedOn>>

BindFails(h) ==
    /\ req[h].pc = "bind"
    /\ mu = None
    /\ client = 0
    /\ lastErr' = "ErrUnreachable"
    /\ req' = [req EXCEPT ![h] = Idle]
    /\ UNCHANGED <<client, opened, closed, proxy, listening, ring, mu, tool, failedOn>>

Bind(h) == BindBound(h) \/ BindOpens(h) \/ BindFails(h)

-----------------------------------------------------------------------------
(* Using the snapshot's client *)

ShouldReset(e) == e \notin Benign

(* What a call on client c may return: a closed client always fails.       *)
Outcomes(c) == IF c \in closed THEN {"closed"} ELSE Errors

(* After a call a stream waits for its next interval, with the client it   *)
(* has; a one-shot handler answers.                                        *)
Carry(h) == IF h \in Streams THEN [req[h] EXCEPT !.pc = "use", !.err = None]
            ELSE Idle

UseOK(h) ==
    /\ req[h].pc = "use"
    /\ req[h].snap \notin closed
    /\ req' = [req EXCEPT ![h] = Carry(h)]
    /\ UNCHANGED <<client, opened, closed, proxy, listening, ring, lastErr, mu, tool, failedOn>>

Failed(h, e) ==
    /\ req' = [req EXCEPT ![h] = IF ShouldReset(e)
                                 THEN [@ EXCEPT !.pc = "reset", !.err = e]
                                 ELSE Carry(h)]
    /\ failedOn' = IF ShouldReset(e) THEN failedOn \cup {req[h].snap} ELSE failedOn

UseFails(h) ==
    /\ req[h].pc = "use"
    /\ \E e \in Outcomes(req[h].snap) : Failed(h, e)
    /\ UNCHANGED <<client, opened, closed, proxy, listening, ring, lastErr, mu, tool>>

(* The peer of a stream goes away.                                         *)
StreamEnds(h) ==
    /\ h \in Streams
    /\ req[h].pc = "use"
    /\ req' = [req EXCEPT ![h] = Idle]
    /\ UNCHANGED <<client, opened, closed, proxy, listening, ring, lastErr, mu, tool, failedOn>>

-----------------------------------------------------------------------------
(* resetDeviceBinding *)

\* A mutant for HealthyClientsStayOpen: a failure resets the binding another
\* request made.
ResetWhoever(h) ==
    /\ req[h].pc = "reset"
    /\ mu = None
    /\ mu' = h
    /\ closed' = closed \cup ({client} \ {0})
    /\ listening' = FALSE
    /\ req' = [req EXCEPT ![h].pc = "stopping"]
    /\ UNCHANGED <<client, opened, proxy, ring, lastErr, tool, failedOn>>

(* b.client is no longer the client that failed.                           *)
ResetStale(h) ==
    /\ req[h].pc = "reset"
    /\ mu = None
    /\ client # req[h].snap
    /\ req' = [req EXCEPT ![h] = Carry(h)]
    /\ UNCHANGED <<client, opened, closed, proxy, listening, ring, lastErr, mu, tool, failedOn>>

(* The client is closed and the proxy told to stop: its listener is closed *)
(* and its quit channel too.                                               *)
ResetBegins(h) ==
    /\ req[h].pc = "reset"
    /\ mu = None
    /\ client = req[h].snap
    /\ mu' = h
    /\ closed' = closed \cup {client}
    /\ listening' = FALSE
    /\ req' = [req EXCEPT ![h].pc = "stopping"]
    /\ UNCHANGED <<client, opened, proxy, ring, lastErr, tool, failedOn>>

\* A mutant for BindingIsWhole: the reset does not wait for the proxy's
\* connections.
ResetWithoutWaiting(h) ==
    /\ req[h].pc = "stopping"
    /\ proxy' = 0
    /\ ring' = 0
    /\ client' = 0
    /\ lastErr' = req[h].err
    /\ mu' = None
    /\ req' = [req EXCEPT ![h] = Carry(h)]
    /\ UNCHANGED <<opened, closed, listening, tool, failedOn>>

(* ProxyServer.Stop returns once every connection of the proxy has ended.  *)
ResetEnds(h) ==
    /\ req[h].pc = "stopping"
    /\ \A t \in Tools : tool[t].pc = "out"
    /\ proxy' = 0
    /\ ring' = 0
    /\ client' = 0
    /\ lastErr' = req[h].err
    /\ mu' = None
    /\ req' = [req EXCEPT ![h] = Carry(h)]
    /\ UNCHANGED <<opened, closed, listening, tool, failedOn>>

Reset(h) == ResetStale(h) \/ ResetBegins(h) \/ ResetEnds(h)

-----------------------------------------------------------------------------
(* The proxy's connections: readFrame waits for the tool ("idle"), then    *)
(* roundTripRaw for the device ("busy").                                   *)

ToolConnects(t) ==
    /\ listening
    /\ tool[t].pc = "out"
    /\ tool' = [tool EXCEPT ![t] = [pc |-> "idle", on |-> proxy]]
    /\ UNCHANGED <<client, opened, closed, proxy, listening, ring, lastErr, mu, req, failedOn>>

ToolSends(t) ==
    /\ tool[t].pc = "idle"
    /\ tool' = [tool EXCEPT ![t].pc = "busy"]
    /\ UNCHANGED <<client, opened, closed, proxy, listening, ring, lastErr, mu, req, failedOn>>

ToolLeaves(t) ==
    /\ tool[t].pc = "idle"
    /\ tool' = [tool EXCEPT ![t] = NoSession]
    /\ UNCHANGED <<client, opened, closed, proxy, listening, ring, lastErr, mu, req, failedOn>>

ProxyForwards(t) ==
    /\ tool[t].pc = "busy"
    /\ tool[t].on \notin closed
    /\ tool' = [tool EXCEPT ![t].pc = "idle"]
    /\ UNCHANGED <<client, opened, closed, proxy, listening, ring, lastErr, mu, req, failedOn>>

\* A mutant for NextRequestReconnects: a failed proxy connection is not ended.
ProxyFailsAndStays(t) ==
    /\ tool[t].pc = "busy"
    /\ tool' = [tool EXCEPT ![t].pc = "idle"]
    /\ UNCHANGED <<client, opened, closed, proxy, listening, ring, lastErr, mu, req, failedOn>>

(* A transport error, or quit, ends the connection; neither resets the     *)
(* binding.                                                                *)
ProxyFails(t) ==
    /\ tool[t].pc = "busy"
    /\ tool' = [tool EXCEPT ![t] = NoSession]
    /\ UNCHANGED <<client, opened, closed, proxy, listening, ring, lastErr, mu, req, failedOn>>

ProxyStep(t) == ProxyForwards(t) \/ ProxyFails(t)
ToolStep(t) == ToolSends(t) \/ ToolLeaves(t)

-----------------------------------------------------------------------------

HandlerStep(h) ==
    \/ Bind(h)
    \/ UseOK(h)
    \/ UseFails(h)
    \/ Reset(h)

BindingNext ==
    \/ \E h \in Handlers : Request(h) \/ HandlerStep(h) \/ StreamEnds(h)
    \/ \E t \in Tools : ToolConnects(t) \/ ToolStep(t) \/ ProxyStep(t)

BindingSpec == BindingInit /\ [][BindingNext]_bindingVars

(* Goroutines run, calls on a client return (they have a timeout), and     *)
(* bind's dial attempts end.  Nothing is assumed of the tools.             *)
BindingFairness ==
    /\ \A h \in Handlers : WF_bindingVars(HandlerStep(h))
    /\ \A t \in Tools : WF_bindingVars(ProxyStep(t))

FairBindingSpec == BindingSpec /\ BindingFairness

(* Tools that keep talking to the proxy or hang up.                        *)
TalkativeSpec == FairBindingSpec /\ \A t \in Tools : WF_bindingVars(ToolStep(t))

-----------------------------------------------------------------------------

(***************************************************************************)
(* resetDeviceBinding closes a client only after a call on that very       *)
(* client failed: a handler whose client was replaced meanwhile does not   *)
(* close the replacement.                                                  *)
(***************************************************************************)
HealthyClientsStayOpen == closed \subseteq failedOn

(***************************************************************************)
(* Outside resetDeviceBinding the binding is whole: the bound client is    *)
(* open, the proxy and the ring reader, when there are any, use it, and no *)
(* tool's session outlives the client it was lent, so no tool talks on a   *)
(* closed or replaced transport.                                           *)
(***************************************************************************)
BindingIsWhole ==
    mu = None => /\ client \notin closed
                 /\ proxy \in {0, client}
                 /\ ring \in {0, client}
                 /\ \A t \in Tools : tool[t].pc # "out" => tool[t].on = client

(***************************************************************************)
(* No connection is leaked: every client bind opened is the bound one or   *)
(* has been closed.                                                        *)
(***************************************************************************)
NoLeakedClient == \A c \in 1 .. opened : c = client \/ c \in closed

(***************************************************************************)
(* Clients are "reset after transport failures so the next request can     *)
(* reconnect" (main.go:327, bind): a request that waits for the binding    *)
(* gets a client or an error.                                              *)
(***************************************************************************)
NextRequestReconnects ==
    \A h \in Handlers : req[h].pc = "bind" ~> req[h].pc # "bind"
=============================================================================

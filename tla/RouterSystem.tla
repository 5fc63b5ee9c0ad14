---------------------------- MODULE RouterSystem ----------------------------
(***************************************************************************)
(* The router as a whole, for commands: ServeRouter accepts connections    *)
(* and leases address-zero devices to them (AddressZero), and              *)
(* handleRoutedClient sends every non-read frame through the idempotency   *)
(* cache (CommandCache), whose owner routes it (RouteContract).            *)
(*                                                                         *)
(* The cache's callers are the connections' goroutines, its keys the       *)
(* frames: a frame is its MeCom address and its command, and two clients   *)
(* that send the same address, sequence number and payload send the same.  *)
(*                                                                         *)
(* Fanout (fanout.go) is the other caller of cache and routing: it         *)
(* rewrites one command for several devices and routes each in a goroutine *)
(* of its own, a leg.                                                      *)
(***************************************************************************)
EXTENDS AddressZero, CommandCache

CONSTANTS
    Devices,   \* addresses with a route
    Fanouts,   \* fanout requests: [cmd, addrs, allow], allow the write policy
    MaxCalls   \* bound on the frames routed for a connection or leg

Leg(d) == <<"leg", d>>
Legs == {Leg(d) : d \in Devices}

\* A mutant for AddressedRepliesComeFromTheirDevice: the template's own
\* address stays in the frame.
FrameForUnchanged(d, cmd) == [addr |-> Order[1], cmd |-> cmd]

(* fanoutTemplate.frameFor: the command, addressed to d.                   *)
FrameFor(d, cmd) == [addr |-> d, cmd |-> cmd]

ASSUME SystemConstants ==
    /\ Callers = Conns \cup Legs
    /\ Conns \cap Legs = {}
    /\ 0 \notin Devices
    /\ \A f \in Keys : f.addr \in Devices \cup {0}
    /\ \A req \in Fanouts, d \in Devices : FrameFor(d, req.cmd) \in Keys
    /\ Results = {"reply", "error"}
    /\ NoKey = NoResult
    /\ MaxCalls \in Nat

VARIABLES
    call, outs,  \* RouteContract
    frame,       \* per connection or leg: the frame it works on
    target,      \* per connection or leg and routing call: device and frame
    fan,         \* the fanout that runs: its command and the legs not started
    executed     \* the commands that went out to each device

routeVars == <<call, outs>>
vars == <<zeroVars, cacheVars, routeVars, frame, target, fan, executed>>

Routing == INSTANCE RouteContract WITH Clients <- Callers, None <- NoResult

NoFanout == [cmd |-> NoKey, legs |-> {}]

Init ==
    /\ ZeroInit
    /\ CacheInit
    /\ Routing!Init
    /\ frame = [c \in Callers |-> NoKey]
    /\ fan = NoFanout
    /\ target = [c \in Callers |-> [n \in 1 .. MaxCalls |-> NoKey]]
    /\ executed = {}

(* ServeRouter: accept a connection and lease its address-zero device.     *)
Accept(c) ==
    /\ Lease(c)
    /\ UNCHANGED <<cacheVars, routeVars, frame, target, fan, executed>>

(* The connection's goroutine ends between two frames; what it was         *)
(* answered goes with it.                                                  *)
Close(c) ==
    /\ pc[c] = "idle"
    /\ Release(c)
    /\ frame' = [frame EXCEPT ![c] = NoKey]
    /\ answer' = [answer EXCEPT ![c] = NoResult]
    /\ UNCHANGED <<now, pc, key, sampled, held, entries, map>>
    /\ UNCHANGED <<routeVars, target, fan, executed>>

(* routeAddressedFrame: a leg goes to the routes of the device it is for.  *)
LegTarget(l) == l[2]

(* selectRouteCandidates: address 0 stands for the leased device.          *)
Resolve(c, f) ==
    IF c \in Legs THEN LegTarget(c) ELSE IF f.addr = 0 THEN conn[c].address ELSE f.addr

(* A frame without a route gets an error reply and changes nothing, so     *)
(* only routable frames are steps.                                         *)
Receive(c, f) ==
    /\ conn[c].open
    /\ Resolve(c, f) \in Devices
    /\ frame' = [frame EXCEPT ![c] = f]
    /\ Call(c, f)
    /\ UNCHANGED <<zeroVars, routeVars, target, fan, executed>>

Hit(c) ==
    /\ LookupHit(c)
    /\ UNCHANGED <<zeroVars, routeVars, frame, target, fan, executed>>

\* A mutant for AddressedRepliesComeFromTheirDevice: every frame goes to the
\* first device.
MissAlwaysFirstDevice(c) ==
    /\ LookupMiss(c)
    /\ Routing!Begin(c, FALSE)
    /\ target' = [target EXCEPT ![c] = [@ EXCEPT ![call'[c].n] =
                    [device |-> Order[1], frame |-> key[c]]]]
    /\ UNCHANGED <<zeroVars, frame, fan, executed>>

(* The owner of a new entry starts routing the frame to its device.        *)
Miss(c) ==
    /\ LookupMiss(c)
    /\ Routing!Begin(c, FALSE)
    /\ target' = [target EXCEPT ![c] = [@ EXCEPT ![call'[c].n] =
                    [device |-> Resolve(c, key[c]), frame |-> key[c]]]]
    /\ UNCHANGED <<zeroVars, frame, fan, executed>>

GoOut(c, n) ==
    /\ Routing!GoOut(c, n)
    /\ executed' = executed \cup {target[c][n]}
    /\ UNCHANGED <<zeroVars, cacheVars, frame, target, fan>>

RouteReturns(c) ==
    /\ Routing!Answer(c) \/ (Routing!Fail(c) /\ call'[c].pc = "idle")
    /\ UNCHANGED <<zeroVars, cacheVars, frame, target, fan, executed>>

Finish(c) ==
    /\ call[c].pc = "idle"
    /\ call[c].outcome # NoResult
    /\ Complete(c, call[c].outcome)
    /\ UNCHANGED <<zeroVars, routeVars, frame, target, fan, executed>>

Joined(c) ==
    /\ Join(c)
    /\ UNCHANGED <<zeroVars, routeVars, frame, target, fan, executed>>

TimePasses ==
    /\ Tick
    /\ UNCHANGED <<zeroVars, routeVars, frame, target, fan, executed>>

(* fanoutAddresses: all devices when the request names none.              *)
FanoutAddresses(addrs) == IF addrs = {} THEN Devices ELSE addrs

(* Fanout of a command: refused unless the policy allows it and every      *)
(* address has a route.  A refusal changes nothing, so only accepted ones  *)
(* are steps.                                                              *)
Fanout(req) ==
    /\ fan = NoFanout /\ req.allow /\ req.addrs \subseteq Devices
    /\ fan' = [cmd |-> req.cmd, legs |-> FanoutAddresses(req.addrs)]
    /\ UNCHANGED <<zeroVars, cacheVars, routeVars, frame, target, executed>>

(* The goroutine of one device: its frame goes through cache and routing.  *)
LegStarts(d) ==
    /\ d \in fan.legs
    /\ fan' = [fan EXCEPT !.legs = @ \ {d}]
    /\ frame' = [frame EXCEPT ![Leg(d)] = FrameFor(d, fan.cmd)]
    /\ Call(Leg(d), FrameFor(d, fan.cmd))
    /\ UNCHANGED <<zeroVars, routeVars, target, executed>>

(* wg.Wait: the responses are complete when every leg has returned.        *)
FanoutReturns ==
    /\ fan # NoFanout /\ fan.legs = {}
    /\ \A l \in Legs : pc[l] = "idle"
    /\ fan' = NoFanout
    /\ UNCHANGED <<zeroVars, cacheVars, routeVars, frame, target, executed>>

(* What the goroutine of a connection or a leg does between a frame and    *)
(* its reply.                                                              *)
HandlerStep(c) == Hit(c) \/ Miss(c) \/ RouteReturns(c) \/ Finish(c) \/ Joined(c)

Next ==
    \/ TimePasses
    \/ \E c \in Conns : Accept(c) \/ Close(c) \/ \E f \in Keys : Receive(c, f)
    \/ \E req \in Fanouts : Fanout(req)
    \/ \E d \in Devices : LegStarts(d)
    \/ FanoutReturns
    \/ \E c \in Callers : HandlerStep(c) \/ \E n \in 1 .. MaxCalls : GoOut(c, n)

Spec == Init /\ [][Next]_vars

-----------------------------------------------------------------------------

(* A connection or a leg that was told its command was carried out.        *)
ToldItSucceeded(c) ==
    (c \in Conns => conn[c].open) /\ pc[c] = "idle" /\ answer[c] = "reply"

DidIt(c) == [device |-> Resolve(c, frame[c]), frame |-> frame[c]] \in executed

(***************************************************************************)
(* A connection that is told its command was carried out had it carried    *)
(* out by the device the frame addresses on that connection: the addressed *)
(* one, or for address 0 the one leased to it.                             *)
(***************************************************************************)
RepliesComeFromOwnDevice == \A c \in Conns : ToldItSucceeded(c) => DidIt(c)

(***************************************************************************)
(* The same for the frames that name a device and for the legs of a        *)
(* fanout: neither handleRoutedClient nor Fanout reports what became of a  *)
(* frame for another device, although callers are coalesced, connections   *)
(* come and go, and a fanout and clients send the same frames.             *)
(***************************************************************************)
AddressedRepliesComeFromTheirDevice ==
    \A c \in Callers : ToldItSucceeded(c) /\ frame[c].addr # 0 => DidIt(c)
=============================================================================

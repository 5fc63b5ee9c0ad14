---------------------------- MODULE PowerControl ----------------------------
(***************************************************************************)
(* The power control of one channel (cmd/mecomgw/main.go): once a second a *)
(* goroutine reads the target, the measurements and the state of the       *)
(* supply, and moves its voltage and current limit towards the target      *)
(* power.  Operators set the target (handleWrite, parameter 2035) and the  *)
(* set points at any time; nothing keeps them and the loop apart.          *)
(*                                                                         *)
(* Set points are in tenths of V and A, measured currents and resistances  *)
(* in hundredths of A and Ohm, power in W.  The values the loop keeps for  *)
(* its own log line (2041, 2042) are left out.                             *)
(***************************************************************************)
EXTENDS Integers, Sequences

CONSTANTS
    Loads,       \* resistances of the load
    Spikes,      \* false measurements [v, i] that a history may hold
    Targets,     \* what operators ask for
    SetPoints,   \* [v, i] the supply starts with, and operators write
    MaxEvents    \* bound: steps of operators and of the supply, reads and
                 \* writes that fail, and histories that are off

VoltLimit == 800
AmpLimit == 250
PowerLimit == 500

ASSUME PowerConstants ==
    /\ Loads \subseteq Nat \ {0}
    /\ Spikes \subseteq [v : Nat, i : Nat]
    /\ SetPoints \subseteq [v : 0 .. VoltLimit, i : 0 .. AmpLimit]

VARIABLES
    ctl,     \* virtual parameters: target 2035, status 2038, r 2037, odd 2043
    supply,  \* the device: err, on, v, i
    load,
    tick,    \* the loop: where it is, and what it has read
    oper,    \* an operator's request for a target, once it passed the check
    stop,    \* whether a stop is in force, and the loop's writes since (history)
    events   \* counter of the bound

powerVars == <<ctl, supply, load, tick, oper, stop, events>>

Idle(m) == [at |-> "wait", p |-> 0, m |-> m, vals |-> <<>>, v |-> 0, i |-> 0, failed |-> FALSE]
Waiting == Idle(tick.m)
NoRequest == [at |-> "none", val |-> 0]
Standby == 0
Controlling == 1
Fallback == 2

PowerInit ==
    /\ ctl = [target |-> 0, status |-> Standby, r |-> 0, odd |-> 0]
    /\ load \in Loads
    /\ \E s \in SetPoints : supply = [err |-> FALSE, on |-> TRUE, v |-> s.v, i |-> s.i]
    /\ tick = Idle([v |-> 0, i |-> 0]) /\ oper = NoRequest
    /\ stop = [in |-> FALSE, writes |-> 0]
    /\ events = 0

Event == events < MaxEvents /\ events' = events + 1
Abs(n) == IF n < 0 THEN -n ELSE n
Least(a, b) == IF a < b THEN a ELSE b
Greatest(a, b) == IF a < b THEN b ELSE a
Clamp(n, low, high) == IF n < low THEN low ELSE IF n > high THEN high ELSE n
\* The integral square root of n < 64000000, found in two strides
Root[n \in Nat] ==
    LET high == CHOOSE k \in 0 .. 249 : 1024 * k * k <= n /\ n < 1024 * (k + 1) * (k + 1)
    IN  CHOOSE k \in 32 * high .. 32 * high + 31 : k * k <= n /\ n < (k + 1) * (k + 1)

-----------------------------------------------------------------------------
(* The loop.                                                               *)

\* external: what is measured: the voltage that is set, or the one at which
\* the current limit is reached
Output == IF supply.on THEN Least(supply.v, (supply.i * load) \div 100) ELSE 0
Measured == [v |-> Output, i |-> (1000 * Output) \div load]

\* What runDeviceRingReceiver may have collected by the tick: nothing (the
\* loop then reads the device itself) or pairs of this moment; when the ring
\* lags, also pairs of the last tick or false ones.
Histories == {<<>>, <<Measured>>}
OddHistories == {<<tick.m>>} \cup {<<tick.m, s, Measured>> : s \in Spikes}

\* smoothSamples: the latest of one or two, else the mean without the least
\* and the greatest, of voltages and currents apart; of three that is the
\* middle one
Trimmed(a, b, c) == Clamp(c, Least(a, b), Greatest(a, b))
SmoothSamples(h) ==
    IF Len(h) < 3 THEN h[Len(h)]
    ELSE [v |-> Trimmed(h[1].v, h[2].v, h[3].v), i |-> Trimmed(h[1].i, h[2].i, h[3].i)]

\* The tick begins with the target and the measurements.
TickBegins ==
    /\ tick.at = "wait"
    /\ \E h \in Histories \cup OddHistories :
          /\ tick' = [Waiting EXCEPT !.at = "read", !.p = ctl.target,
                        !.m = IF h = <<>> THEN Measured ELSE SmoothSamples(h)]
          /\ IF h \in Histories THEN events' = events ELSE Event
    /\ UNCHANGED <<ctl, supply, load, oper, stop>>

\* ReadBulk of error number, output enable, voltage and current limit; when it
\* fails, and when the one-shot read before does, the tick ends.
ReadSupply ==
    /\ tick.at = "read"
    /\ \/ tick' = [tick EXCEPT !.at = "decide", !.vals = supply] /\ events' = events
       \/ tick' = Waiting /\ Event
    /\ UNCHANGED <<ctl, supply, load, oper, stop>>

\* A mutant for LoopIsContained: the target is not zeroed on a device error.
BackOffOnly(c) == [c EXCEPT !.status = Fallback, !.odd = 0]

\* The state of the loop after a device error; the target is zeroed.
BackOff(c) == [c EXCEPT !.target = 0, !.status = Fallback, !.odd = 0]

\* A mutant for PowerComesNear: the dead band is 15 %.
CandidateWide(raw) ==
    LET c == (8 * ctl.r + 2 * raw) \div 10
    IN  IF ctl.r = 0 THEN raw
        ELSE IF 100 * Abs(c - ctl.r) < 15 * ctl.r THEN ctl.r ELSE c

\* The filtered resistance, with its dead band of 1.5 %
Candidate(raw) ==
    LET c == (8 * ctl.r + 2 * raw) \div 10
    IN  IF ctl.r = 0 THEN raw
        ELSE IF 1000 * Abs(c - ctl.r) < 15 * ctl.r THEN ctl.r ELSE c
NonOhmic(raw) ==
    \/ raw < 10 \/ raw > 100000
    \/ ctl.r > 0 /\ (2 * raw < ctl.r \/ raw > 2 * ctl.r)

Target(p, r) ==
    [v |-> Clamp(Root[p * r], 0, VoltLimit), i |-> Clamp(Root[(10000 * p) \div r], 0, AmpLimit)]

\* A fraction of the way, and no more than a step
Towards(cmd, goal, step) == cmd + Clamp((4 * (goal - cmd)) \div 10, -step, step)

Decide ==
    LET raw == (1000 * tick.m.v) \div tick.m.i
        odd == IF NonOhmic(raw) THEN Least(ctl.odd + 1, 3) ELSE 0
        kept == [ctl EXCEPT !.odd = odd, !.r = IF NonOhmic(raw) THEN @ ELSE Candidate(raw)]
        Ends(c) == ctl' = c /\ tick' = Waiting /\ stop' = stop
    IN  /\ tick.at = "decide"
        /\ IF tick.vals.err
           THEN ctl' = BackOff(ctl) /\ tick' = Waiting /\ stop' = [in |-> TRUE, writes |-> 0]
           ELSE IF ~tick.vals.on \/ tick.m.i < 5
           THEN Ends([ctl EXCEPT !.status = Standby, !.odd = 0])
           ELSE IF tick.p <= 0 THEN Ends([kept EXCEPT !.status = Standby])
           ELSE IF odd >= 3 THEN Ends([kept EXCEPT !.status = Fallback])
           ELSE IF odd > 0 THEN Ends([kept EXCEPT !.status = Controlling])
           ELSE \E goal \in {Target(tick.p, Candidate(raw))} :
                /\ ctl' = [kept EXCEPT !.status = Controlling] /\ stop' = stop
                /\ tick' = [tick EXCEPT !.at = "writeV",
                              !.v = Towards(tick.vals.v, goal.v, 50),
                              !.i = Towards(tick.vals.i, Least((12 * goal.i) \div 10, AmpLimit), 20)]
        /\ UNCHANGED <<supply, load, oper, events>>

Counted == stop' = IF stop.in THEN [stop EXCEPT !.writes = @ + 1] ELSE stop

WriteVoltage ==
    /\ tick.at = "writeV"
    /\ \/ /\ supply' = [supply EXCEPT !.v = tick.v] /\ events' = events
          /\ tick' = [tick EXCEPT !.at = "writeI"]
       \/ /\ Event /\ supply' \in {supply, [supply EXCEPT !.v = tick.v]}
          /\ tick' = [tick EXCEPT !.at = "writeI", !.failed = TRUE]
    /\ Counted
    /\ UNCHANGED <<ctl, load, oper>>

\* The limit is written whether or not the voltage was; after a failure the
\* status is Fallback until the next tick.
WriteCurrent ==
    /\ tick.at = "writeI" /\ tick' = Waiting
    /\ \/ /\ supply' = [supply EXCEPT !.i = tick.i] /\ events' = events
          /\ ctl' = IF tick.failed THEN [ctl EXCEPT !.status = Fallback] ELSE ctl
       \/ /\ Event /\ supply' \in {supply, [supply EXCEPT !.i = tick.i]}
          /\ ctl' = [ctl EXCEPT !.status = Fallback]
    /\ Counted
    /\ UNCHANGED <<load, oper>>

-----------------------------------------------------------------------------
(* Operators and the supply.                                               *)

\* handleWrite of 2035 up to gatewayWriteDeviceErrorBackoff: with an error on
\* the device only a zero passes, unless the error cannot be read.
RequestTarget(p, readable) ==
    /\ oper = NoRequest /\ Event
    /\ p \in 0 .. PowerLimit /\ (supply.err /\ readable => p = 0)
    /\ oper' = [at |-> "checked", val |-> p]
    /\ UNCHANGED <<ctl, supply, load, tick, stop>>

SetTarget ==
    /\ oper.at = "checked" /\ oper' = NoRequest
    /\ ctl' = [ctl EXCEPT !.target = oper.val]
    /\ stop' = [in |-> oper.val = 0, writes |-> 0]
    /\ UNCHANGED <<supply, load, tick, events>>

\* A write of the set points themselves, and what the hardware does
SetPointsWritten ==
    /\ Event /\ \E s \in SetPoints : supply' = [supply EXCEPT !.v = s.v, !.i = s.i]
    /\ UNCHANGED <<ctl, load, tick, oper, stop>>
SupplyChanges ==
    /\ Event
    /\ \/ load' \in Loads /\ supply' = supply
       \/ load' = load /\ supply' = [supply EXCEPT !.err = ~@]
       \/ load' = load /\ supply' = [supply EXCEPT !.on = ~@]
    /\ UNCHANGED <<ctl, tick, oper, stop>>

Loop == TickBegins \/ ReadSupply \/ Decide \/ WriteVoltage \/ WriteCurrent
PowerNext == Loop \/ SetTarget \/ SetPointsWritten \/ SupplyChanges
             \/ \E p \in Targets, readable \in BOOLEAN : RequestTarget(p, readable)

\* The ticker fires once a second, and every read and write has a deadline.
PowerSpec == PowerInit /\ [][PowerNext]_powerVars /\ WF_powerVars(Loop) /\ WF_powerVars(SetTarget)

-----------------------------------------------------------------------------
(* Properties.                                                             *)

(* runChannelPowerControl: once an operator's zero is acknowledged, or the *)
(* loop has seen a device error, no more than one pair of writes, of a     *)
(* tick that had begun, still reaches the supply until an operator asks    *)
(* for power again; an error that goes away does not resume the control.   *)
(* The set points stay within 80 V and 25 A also when those the loop read  *)
(* were replaced before it writes.                                         *)
LoopIsContained ==
    /\ stop.writes <= 2
    /\ supply.v \in 0 .. VoltLimit /\ supply.i \in 0 .. AmpLimit

Delivered == (Output * Output) \div load
InReach == ctl.target * load < VoltLimit * VoltLimit /\ 10000 * ctl.target < AmpLimit * AmpLimit * load
Controls == ctl.target > 0 /\ ctl.status = Controlling /\ InReach
Near == 8 * Abs(Delivered - ctl.target) <= ctl.target

(* Once operators, load and hardware are left alone, the power comes and   *)
(* stays within an eighth of a target in reach, or the loop stops          *)
(* controlling: the filter of the resistance, its dead band and the        *)
(* bounded steps neither stop short of the target nor oscillate around it. *)
PowerComesNear == <>[](Controls => Near)
=============================================================================

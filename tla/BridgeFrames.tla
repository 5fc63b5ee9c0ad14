---------------------------- MODULE BridgeFrames ----------------------------
(***************************************************************************)
(* How the device bridge (mecomserver/device_bridge.go) answers one ASCII  *)
(* MeCom frame with a typed CAN client and its parameter store, and what   *)
(* the router learns from the answer of a downstream route.  Operators     *)
(* only: DeviceBridge.tla has the processes.                               *)
(*                                                                         *)
(* A parameter stands for an identifier with an instance; the catalogue    *)
(* (the SDO map and the loose CoSo table) gives its type and kind:         *)
(*   virtual    a virtual_parameter transform, kept by the bridge          *)
(*   loose      in the loose CoSo table and not in the SDO map             *)
(*   constant, synthesized, masked      the transforms of those names      *)
(*   live       a mapped parameter marked metadata_live_actual             *)
(*   mapped     any other mapped parameter, the LATIN1 ones included       *)
(*   bytes      a canopen_pdo_config_bytes transform                       *)
(*   none, unsafe   not in either table; unsafe: marked nack_bulk_read     *)
(* Values are integers, NaN one of them; a string is 0 when it is empty.   *)
(***************************************************************************)
EXTENDS Integers, Sequences, SequencesExt

CONSTANTS
    BridgeParams,
    Type,       \* [BridgeParams -> {"int", "float", "latin", "byte", "unsupported"}]
    Kind,       \* [BridgeParams -> Kinds]
    Writable,   \* parameters the catalogue lets a client write
    OutOfRange, \* parameters whose instance is beyond the maximum
    Source,     \* [BridgeParams -> BridgeParams]: source_mecom_id of a synthesized one
    Default,    \* [BridgeParams -> values]: deviceBridgeVirtualParameterDefault
    ConstantValue

NaN == -1
Kinds == {"virtual", "loose", "constant", "synthesized", "masked", "live",
          "mapped", "bytes", "none", "unsafe"}

\* A loose parameter is outside the map, which alone can make one writable:
\* the stores of the loose branches of VS and VB are never reached.
ASSUME Catalogue ==
    /\ Type \in [BridgeParams -> {"int", "float", "latin", "byte", "unsupported"}]
    /\ Kind \in [BridgeParams -> Kinds]
    /\ OutOfRange \subseteq BridgeParams /\ Source \in [BridgeParams -> BridgeParams]
    /\ Default \in [BridgeParams -> Int] /\ ConstantValue \in Nat
    /\ Writable \subseteq {p \in BridgeParams : Kind[p] \in {"virtual", "live", "mapped"}}
    /\ \A p \in BridgeParams :
          /\ Kind[p] \in {"none", "unsafe"} <=> Type[p] = "unsupported"
          /\ Kind[p] = "bytes" <=> Type[p] = "byte"
          /\ Kind[p] \in {"constant", "masked"} => Type[p] = "int"
          /\ Kind[p] = "synthesized" => Type[p] = "float"

Numeric(p) == Type[p] \in {"int", "float"}
IsVirtual(p) == Kind[p] = "virtual"
Soft(p) == Kind[p] \in {"virtual", "loose"}
LiveActual(p) == Kind[p] \in {"live", "virtual"}
Compatible(p, v) == IF Kind[p] = "masked" THEN v % 2 ELSE v
Synthesized(v) == 10 * v

-----------------------------------------------------------------------------
(* The store: a map from parameters to entries.  Its `write' and           *)
(* `readNumeric', and so the virtual store, are used by no caller.         *)

EmptyStore == [p \in {} |-> 0]
Entry(v, source) == [value |-> v, source |-> source]
Stored(st, p, e) ==
    IF p \in OutOfRange \/ Type[p] \notin {"int", "float", "latin"} THEN st
    ELSE [q \in DOMAIN st \cup {p} |-> IF q = p THEN e ELSE st[q]]

\* A value of the store that is not a placeholder, else 0
Cached(st, p) == IF p \in DOMAIN st THEN st[p].value ELSE 0

\* The JSON of a store leaves out the floats that are not numbers, and a
\* reader of it the placeholders, of which a store never has any.
Snapshot(st) ==
    [p \in {q \in DOMAIN st : Type[q] = "float" => st[q].value # NaN} |-> st[p]]

-----------------------------------------------------------------------------
(* Replies: a result is the reply and the entries it adds to the store,    *)
(* in the order in which they are written, each followed by a flush.       *)

NackReply(code) == [kind |-> "nack", code |-> code, data |-> <<>>]
Data(values) == [kind |-> "data", code |-> 0, data |-> values]
Ok == [kind |-> "ok", code |-> 0, data |-> <<>>]
Result(reply, writes) == [reply |-> reply, writes |-> writes]
WriteParameter(p, v, source) == [p |-> p, entry |-> Entry(v, source)]

\* deviceBridgeStoreLiveNumericValue: what is not a number is not stored
StoreLive(p, v) == IF v = NaN THEN <<>> ELSE <<WriteParameter(p, v, "downstream")>>

\* Reads: d are the device's values, down the parameters it does not answer.

\* deviceBridgeSoftParameterValue: the device, else the store, else nothing
SoftValue(st, d, down, p) ==
    IF Numeric(p) /\ p \notin down
    THEN [value |-> Compatible(p, d[p]), source |-> "downstream",
          writes |-> StoreLive(p, Compatible(p, d[p]))]
    ELSE IF p \in DOMAIN st
    THEN [value |-> st[p].value, source |-> st[p].source, writes |-> <<>>]
    ELSE [value |-> 0, source |-> "placeholder", writes |-> <<>>]

VirtualValue(st, d, down, p) ==
    LET soft == SoftValue(st, d, down, p)
    IN  IF soft.source = "placeholder" THEN [soft EXCEPT !.value = Default[p]] ELSE soft

\* What the typed client reads for a parameter that has no soft value; the
\* entry is stored by the caller.
ReadDevice(d, down, p) ==
    IF Kind[p] = "synthesized"
    THEN [ok |-> Source[p] \notin down, value |-> Synthesized(d[Source[p]])]
    ELSE [ok |-> p \notin down, value |-> d[p]]

\* ?VR.  A read that fails is refused with code 3, or 5 when the node aborts
\* the transfer, which makes no difference here.
SingleRead(st, d, down, p) ==
    LET live == ReadDevice(d, down, p)
        v == Compatible(p, live.value)
        soft == IF IsVirtual(p) THEN VirtualValue(st, d, down, p)
                                ELSE SoftValue(st, d, down, p)
    IN  IF Soft(p) /\ p \in OutOfRange THEN Result(NackReply(4), <<>>)
        ELSE IF Kind[p] = "loose" /\ Type[p] = "latin" THEN Result(Data(<<0>>), <<>>)
        ELSE IF ~Numeric(p) THEN Result(NackReply(1), <<>>)
        ELSE IF Soft(p) THEN Result(Data(<<soft.value>>), soft.writes)
        ELSE IF Kind[p] = "constant" THEN Result(Data(<<ConstantValue>>), <<>>)
        ELSE IF live.ok THEN Result(Data(<<v>>), StoreLive(p, v))
        ELSE Result(NackReply(3), <<>>)

\* ?VX, one slot.  `now' is stored while the slots are gone through, `late'
\* when the answer is put together.  bulk: whether ReadBulk succeeds; it
\* gives NaN for a parameter that fails by itself, and when it fails the
\* parameters are read one by one.
BulkSlot(st, d, down, bulk, p) ==
    LET soft == IF IsVirtual(p) THEN VirtualValue(st, d, down, p)
                                ELSE SoftValue(st, d, down, p)
        live == ReadDevice(d, down, p)
        slot(v, now, late) == [value |-> v, now |-> now, late |-> late]
    IN  IF Type[p] = "unsupported" \/ (Soft(p) /\ (p \in OutOfRange \/ ~Numeric(p)))
        THEN slot(0, <<>>, <<>>)
        ELSE IF Soft(p) THEN slot(soft.value, soft.writes, <<>>)
        ELSE IF Kind[p] = "constant" THEN slot(ConstantValue, <<>>, <<>>)
        ELSE IF live.ok /\ Numeric(p)
        THEN slot(live.value, <<>>, StoreLive(p, Compatible(p, live.value)))
        ELSE IF Kind[p] = "synthesized" THEN slot(0, <<>>, <<>>)
        ELSE IF Kind[p] = "live" THEN slot(Cached(st, p), <<>>, <<>>)
        ELSE slot(IF bulk THEN NaN ELSE 0, <<>>, <<>>)

\* A mutant for ReadsAgree: the compatibility mask is forgotten.
EncodedUnmasked(p, v) == IF Type[p] = "int" /\ v = NaN THEN 0 ELSE v

\* How a value is written into the answer
Encoded(p, v) ==
    IF Type[p] = "int" THEN IF v = NaN THEN 0 ELSE Compatible(p, v) ELSE v

BulkRead(st, d, down, bulk, ps) ==
    LET Step(acc, p) ==
            LET s == BulkSlot(acc.st, d, down, bulk, p)
            IN  [st |-> FoldLeft(LAMBDA t, w : Stored(t, w.p, w.entry), acc.st, s.now),
                 now |-> acc.now \o s.now,
                 late |-> acc.late \o (IF acc.bad THEN <<>> ELSE s.late),
                 data |-> Append(acc.data, Encoded(p, s.value)),
                 bad |-> acc.bad \/ (Type[p] = "latin" /\ Kind[p] # "loose")]
        all == FoldLeft(Step, [st |-> st, now |-> <<>>, late |-> <<>>,
                               data |-> <<>>, bad |-> FALSE], ps)
    IN  IF \E i \in DOMAIN ps : Type[ps[i]] = "byte" \/ Kind[ps[i]] = "unsafe"
        THEN Result(NackReply(1), <<>>)
        ELSE Result(IF all.bad THEN NackReply(1) ELSE Data(all.data), all.now \o all.late)

\* ?VM: the actual value of the answer, the rest of which is the catalogue's
Metadata(st, d, down, p) ==
    LET live == SingleRead(st, d, down, p)
    IN  IF Kind[p] = "unsafe" THEN Result(NackReply(5), <<>>)
        ELSE IF ~LiveActual(p) \/ ~Numeric(p) THEN Result(Data(<<0>>), <<>>)
        ELSE IF live.reply.kind = "data" THEN live
        ELSE Result(Data(<<Cached(st, p)>>), <<>>)

\* ?VL, the ring commands of a client that has no ring, ?BC, and the rest:
\* answers that depend on no state.
Limits(p) == Result(IF Type[p] = "unsupported" THEN NackReply(1) ELSE Data(<<0>>), <<>>)
RingPayload == [ringPointer |-> Data(<<0>>), ringChunk |-> Data(<<0>>),
                ringConfig |-> Data(<<0>>), ringSync |-> Data(<<0>>),
                ringOther |-> NackReply(1)]
BootloaderStatus == Data(<<0>>)
Fixed == [probe |-> Data(<<>>), save |-> Ok, reset |-> NackReply(1), unknown |-> NackReply(1)]

-----------------------------------------------------------------------------
(* Big data.                                                               *)

\* deviceBridgeBigDataResponse: the elements [start, start + max) of data
Segment(data, start, max) ==
    IF max = 0 \/ start >= Len(data) THEN <<>>
    ELSE SubSeq(data, start + 1, IF start + max > Len(data) THEN Len(data) ELSE start + max)

\* deviceBridgeCANopenPDOConfigBytes: reads is the sequence of SDO reads, each
\* with the width it fills and the bytes it gave, <<>> where it failed.
Padded(bytes, width) == [i \in 1 .. width |-> IF i <= Len(bytes) THEN bytes[i] ELSE 0]

\* A mutant for ReadsAgree: a failed read leaves its bytes out.
PDOConfigBytesUnpadded(reads, max) ==
    Padded(FoldLeft(LAMBDA out, r : out \o r.bytes, <<>>, reads), max)

PDOConfigBytes(reads, max) ==
    Padded(FoldLeft(LAMBDA out, r : out \o Padded(r.bytes, r.width), <<>>, reads), max)

\* ?VB: a string comes from the store alone; a string is one element here.
\* raw: whether some raw SDO read succeeds.
BigDataRead(st, raw, p) ==
    IF Kind[p] = "bytes" THEN Result(IF raw THEN Data(<<1>>) ELSE NackReply(3), <<>>)
    ELSE IF Type[p] = "latin" /\ p \in OutOfRange THEN Result(NackReply(4), <<>>)
    ELSE IF Type[p] = "latin" /\ Cached(st, p) # 0 THEN Result(Data(<<st[p].value>>), <<>>)
    ELSE Result(Data(<<>>), <<>>)

-----------------------------------------------------------------------------
(* Writes: only a virtual parameter is kept by the bridge; the rest is the *)
(* device's to take.                                                       *)

SingleWrite(accepted, p, v) ==
    IF p \notin Writable THEN Result(NackReply(6), <<>>)
    ELSE IF IsVirtual(p) /\ p \in OutOfRange THEN Result(NackReply(4), <<>>)
    ELSE IF IsVirtual(p) THEN Result(Ok, <<WriteParameter(p, v, "local")>>)
    ELSE IF Numeric(p) THEN Result(IF accepted THEN Ok ELSE NackReply(3), <<>>)
    ELSE Result(NackReply(1), <<>>)

\* VB: the CAN client writes no strings
BigDataWrite(p) == Result(IF p \notin Writable THEN NackReply(6) ELSE NackReply(1), <<>>)

-----------------------------------------------------------------------------
(* A frame is its command, its parameters and, for a write, its value.     *)

Handle(st, d, down, bulk, accepted, f) ==
    LET p == f.ps[1]
    IN  CASE f.cmd = "VR" -> SingleRead(st, d, down, p)
          [] f.cmd = "VX" -> BulkRead(st, d, down, bulk, f.ps)
          [] f.cmd = "VM" -> Metadata(st, d, down, p)
          [] f.cmd = "VL" -> Limits(p)
          [] f.cmd = "VBread" -> BigDataRead(st, p \notin down, p)
          [] f.cmd = "VS" -> SingleWrite(accepted, p, f.v)
          [] f.cmd = "VBwrite" -> BigDataWrite(p)
          [] f.cmd = "BC" -> Result(BootloaderStatus, <<>>)
          [] f.cmd \in DOMAIN RingPayload -> Result(RingPayload[f.cmd], <<>>)
          [] f.cmd \in DOMAIN Fixed -> Result(Fixed[f.cmd], <<>>)

\* handleDeviceBridgeRouterLocalFrame: the router answers a write of a
\* virtual parameter by itself, with a client that can read nothing.
RouterLocal(f) == f.cmd \in {"VS", "VBwrite"} /\ IsVirtual(f.ps[1])

\* deviceBridgeObservePayload: what the router stores of an exchange.
ObserveValue(p, v, source) ==
    IF ~Numeric(p) /\ Type[p] # "latin" THEN <<>>
    ELSE IF Type[p] = "float" /\ v = NaN THEN <<>>
    ELSE <<WriteParameter(p, Compatible(p, v), source)>>

ReadsValues(f) ==
    \/ f.cmd \in {"VR", "VX"}
    \/ f.cmd = "VM" /\ LiveActual(f.ps[1])
    \/ f.cmd = "VBread" /\ Type[f.ps[1]] = "latin"
WritesValue(f) ==
    \/ f.cmd = "VS"
    \/ f.cmd = "VBwrite" /\ Type[f.ps[1]] = "latin"

\* A mutant for CacheIsRealAndWhole: a write is kept whatever its answer.
ObserveUnacknowledged(f, reply) ==
    CASE WritesValue(f) -> ObserveValue(f.ps[1], f.v, "local")
      [] reply.kind = "data" /\ ReadsValues(f) ->
            FlattenSeq([i \in DOMAIN reply.data |->
                          ObserveValue(f.ps[i], reply.data[i], "downstream")])
      [] OTHER -> <<>>

Observe(f, reply) ==
    CASE reply.kind = "data" /\ ReadsValues(f) ->
            FlattenSeq([i \in DOMAIN reply.data |->
                          ObserveValue(f.ps[i], reply.data[i], "downstream")])
      [] reply.kind = "ok" /\ WritesValue(f) -> ObserveValue(f.ps[1], f.v, "local")
      [] OTHER -> <<>>
=============================================================================

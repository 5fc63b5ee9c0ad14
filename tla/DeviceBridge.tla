---------------------------- MODULE DeviceBridge ----------------------------
(***************************************************************************)
(* The processes that share a parameter cache (mecomserver/                *)
(* device_bridge.go, router.go) and the JSON file it is kept in.           *)
(*                                                                         *)
(* A behaviour has one of three roles:                                     *)
(*   bridge   the sessions are the bridges of a CAN endpoint, one dialled  *)
(*            after the other: each has a store of its own, which it loads *)
(*            from the file, and one that was given up may still be        *)
(*            answering its last frame;                                    *)
(*   serial   the sessions are clients of the router with a native route:  *)
(*            they share the store of the address, in which the router     *)
(*            keeps what it observes of their exchanges;                   *)
(*   can      the same with a route that is itself a bridge, whose own     *)
(*            store is `under'.                                            *)
(* A flush takes no lock.  It copies the store, truncates and writes the   *)
(* temporary file and renames it, and ignores every error.                 *)
(***************************************************************************)
EXTENDS BridgeFrames, FiniteSets

CONSTANTS
    Sessions, Roles, BridgeRequests, Readings,
    Bounds   \* how many frames, moves of the device, crashes and disk
             \* errors a behaviour of each role has

VARIABLES
    role,
    dev,     \* the device's values
    ever,    \* values each parameter has had (history)
    store,   \* soft parameters of each session, or of the first for all
    under,   \* the store of the bridge below the router
    live,    \* role bridge: the session the broker talks to
    at,      \* where a session is: "idle" or in a step of storing an entry
    todo,    \* entries still to be stored
    snap, fd, \* a flush's copy of the store, and its open temporary file
    inode,   \* contents of the files: whole, and the cache it holds
    tmp, file, \* the inodes of the two names, 0 for none
    tainted, \* flushes have overlapped or failed (history)
    used     \* counters of the bounds

sessionVars == <<live, at, todo, snap, fd>>
fileVars == <<inode, tmp, file>>
bridgeVars == <<role, dev, ever, store, under, sessionVars, fileVars, tainted, used>>

First == CHOOSE s \in Sessions : TRUE
Own(s) == IF role = "bridge" THEN s ELSE First
Inodes == 1 .. Cardinality(Sessions) + 3
Torn == [whole |-> FALSE, cache |-> EmptyStore]
NoAnswer == [kind |-> "error", code |-> 0, data |-> <<>>]

BridgeInit ==
    /\ role \in Roles
    /\ dev = [p \in BridgeParams |-> IF Kind[p] = "masked" THEN 3 ELSE 1]
    /\ ever = [p \in BridgeParams |-> {dev[p]}]
    /\ store = [s \in Sessions |-> EmptyStore] /\ under = EmptyStore
    /\ live = First
    /\ at = [s \in Sessions |-> "idle"] /\ todo = [s \in Sessions |-> <<>>]
    /\ snap = [s \in Sessions |-> EmptyStore] /\ fd = [s \in Sessions |-> 0]
    /\ inode = [i \in Inodes |-> Torn] /\ tmp = 0 /\ file = 0
    /\ tainted = FALSE
    /\ used = [frames |-> 0, moves |-> 0, crashes |-> 0, errors |-> 0]

-----------------------------------------------------------------------------
(* Frames.                                                                 *)

Range1(f) == {f.ps[i] : i \in DOMAIN f.ps}
Unread(f) == SUBSET (Range1(f) \cup {Source[p] : p \in Range1(f)})

\* The session has its answer; it stores the entries before it replies.
Begin(s, writes) ==
    /\ at[s] = "idle" /\ used.frames < Bounds[role].frames
    /\ used' = [used EXCEPT !.frames = @ + 1]
    /\ todo' = [todo EXCEPT ![s] = writes]
    /\ at' = [at EXCEPT ![s] = IF writes = <<>> THEN "idle" ELSE "store"]
    /\ UNCHANGED <<role, live, snap, fd, fileVars, tainted>>

\* The device takes a write it accepts, and may have taken one whose
\* acknowledgement was lost.
DeviceTakes(f, a) ==
    LET p == f.ps[1]
        sent == f.cmd \in {"VS", "VBwrite"} /\ ~IsVirtual(p)
    IN  \/ sent /\ a \in {Ok, NackReply(3), NoAnswer} /\ dev' = [dev EXCEPT ![p] = f.v]
        \/ ~(sent /\ a = Ok) /\ dev' = dev

\* Values the parameters have now: the device's, and what a client was told
\* is a virtual one's.
Remember(f, a) ==
    ever' = [p \in BridgeParams |->
                ever[p] \cup {dev'[p]}
                        \cup IF f.cmd = "VS" /\ f.ps[1] = p /\ a.kind = "ok" THEN {f.v} ELSE {}]

\* runDeviceClientBridge: the session the broker talks to answers a frame
BridgeFrame(s, f) ==
    /\ role = "bridge" /\ live = s
    /\ \E down \in Unread(f), bulk, accepted \in BOOLEAN :
          LET r == Handle(store[s], dev, down, bulk, accepted, f)
          IN  Begin(s, r.writes) /\ DeviceTakes(f, r.reply) /\ Remember(f, r.reply)
    /\ UNCHANGED <<store, under>>

\* A virtual parameter's write is answered by the router itself.
LocalFrame(s, f) ==
    /\ role # "bridge" /\ RouterLocal(f)
    /\ LET r == Handle(store[First], dev, BridgeParams, FALSE, FALSE, f)
       IN  Begin(s, r.writes) /\ DeviceTakes(f, r.reply) /\ Remember(f, r.reply)
    /\ UNCHANGED <<store, under>>

\* routeFrame with a native route: the device answers, refuses or is silent
SerialFrame(s, f) ==
    /\ role = "serial" /\ ~RouterLocal(f)
    /\ \E a \in {NoAnswer, NackReply(3),
                 IF f.cmd \in {"VS", "VBwrite"} THEN Ok
                 ELSE Data([i \in DOMAIN f.ps |-> dev[f.ps[i]]])} :
          /\ Begin(s, Observe(f, a))
          /\ DeviceTakes(f, a) /\ Remember(f, a)
    /\ UNCHANGED <<store, under>>

\* routeFrame with a bridge for its route
CanFrame(s, f) ==
    /\ role = "can" /\ ~RouterLocal(f)
    /\ \E down \in Unread(f), bulk, accepted, answered \in BOOLEAN :
          LET r == Handle(under, dev, down, bulk, accepted, f)
              a == IF answered THEN r.reply ELSE NoAnswer
          IN  /\ Begin(s, Observe(f, a))
              /\ DeviceTakes(f, r.reply) /\ Remember(f, r.reply)
              /\ under' = FoldLeft(LAMBDA t, w : Stored(t, w.p, w.entry), under, r.writes)
    /\ UNCHANGED store

-----------------------------------------------------------------------------
(* storeParameterValue, writeParameter and flushCacheBestEffort.           *)

Flushing(s) == at[s] \in {"open", "write", "rename"}

\* The entry is done with.
Finish(s) ==
    LET rest == Tail(todo[s])
    IN  /\ todo' = [todo EXCEPT ![s] = rest]
        /\ at' = [at EXCEPT ![s] = IF rest = <<>> THEN "idle" ELSE "store"]
        /\ fd' = [fd EXCEPT ![s] = 0] /\ snap' = [snap EXCEPT ![s] = EmptyStore]

StoreEntry(s) ==
    /\ at[s] = "store"
    /\ LET w == Head(todo[s]) IN
       /\ store' = [store EXCEPT ![Own(s)] = Stored(@, w.p, w.entry)]
       /\ IF w.p \in OutOfRange
          THEN Finish(s)
          ELSE at' = [at EXCEPT ![s] = "snap"] /\ UNCHANGED <<todo, snap, fd>>
    /\ UNCHANGED <<role, dev, ever, under, live, fileVars, tainted, used>>

TakeSnapshot(s) ==
    /\ at[s] = "snap"
    /\ snap' = [snap EXCEPT ![s] = Snapshot(store[Own(s)])]
    /\ at' = [at EXCEPT ![s] = "open"]
    /\ tainted' = (tainted \/ \E t \in Sessions \ {s} : Flushing(t))
    /\ UNCHANGED <<role, dev, ever, store, under, live, todo, fd,
                   fileVars, used>>

\* A mutant for CacheIsRealAndWhole: the cache file itself is opened and rewritten.
OpenTmpInPlace(s) ==
    /\ at[s] = "open"
    /\ LET i == IF file # 0 THEN file ELSE 1
       IN  /\ inode' = [inode EXCEPT ![i] = Torn]
           /\ tmp' = i /\ fd' = [fd EXCEPT ![s] = i]
    /\ at' = [at EXCEPT ![s] = "write"]
    /\ UNCHANGED <<role, dev, ever, store, under, live, todo, snap,
                   file, tainted, used>>

\* os.WriteFile opens the temporary file, and truncates it when it is there
OpenTmp(s) ==
    /\ at[s] = "open"
    /\ LET free == Inodes \ ({tmp, file} \cup {fd[t] : t \in Sessions})
           i == IF tmp # 0 THEN tmp ELSE CHOOSE j \in free : \A k \in free : j <= k
       IN  /\ inode' = [inode EXCEPT ![i] = Torn]
           /\ tmp' = i /\ fd' = [fd EXCEPT ![s] = i]
    /\ at' = [at EXCEPT ![s] = "write"]
    /\ UNCHANGED <<role, dev, ever, store, under, live, todo, snap,
                   file, tainted, used>>

\* ... and writes it.  Over what another flush wrote meanwhile, the tail of
\* the longer text may be left.
WriteTmp(s) ==
    /\ at[s] = "write"
    /\ \/ inode' = [inode EXCEPT ![fd[s]] = [whole |-> TRUE, cache |-> snap[s]]]
       \/ inode[fd[s]].whole /\ inode' = [inode EXCEPT ![fd[s]] = Torn]
    /\ at' = [at EXCEPT ![s] = "rename"]
    /\ UNCHANGED <<role, dev, ever, store, under, live, todo, snap, fd,
                   tmp, file, tainted, used>>

RenameTmp(s) ==
    /\ at[s] = "rename" /\ Finish(s)
    /\ IF tmp = 0 THEN UNCHANGED <<tmp, file>> ELSE file' = tmp /\ tmp' = 0
    /\ UNCHANGED <<role, dev, ever, store, under, live, inode, tainted, used>>

\* The disk refuses to open or to write the file
FlushFails(s) ==
    /\ at[s] \in {"open", "write"} /\ used.errors < Bounds[role].errors /\ Finish(s)
    /\ used' = [used EXCEPT !.errors = @ + 1] /\ tainted' = TRUE
    /\ UNCHANGED <<role, dev, ever, store, under, live, fileVars>>

-----------------------------------------------------------------------------
(* newDeviceBridgeState: a redialled bridge, a restarted process.          *)

\* loadCacheBestEffort
Loaded == IF file = 0 THEN EmptyStore ELSE inode[file].cache

\* The broker gave up its connection; the bridge behind it ends after the
\* frame it is answering.
Redial(s) ==
    /\ role = "bridge" /\ live # s /\ at[s] = "idle"
    /\ live' = s /\ store' = [store EXCEPT ![s] = Loaded]
    /\ tainted' = (tainted \/ at[live] # "idle")
    /\ UNCHANGED <<role, dev, ever, under, at, todo, snap, fd,
                   fileVars, used>>

Crash ==
    /\ used.crashes < Bounds[role].crashes /\ used' = [used EXCEPT !.crashes = @ + 1]
    /\ live' = First /\ store' = [s \in Sessions |-> Loaded]
    /\ under' \in {under, EmptyStore}
    /\ at' = [s \in Sessions |-> "idle"] /\ todo' = [s \in Sessions |-> <<>>]
    /\ fd' = [s \in Sessions |-> 0] /\ snap' = [s \in Sessions |-> EmptyStore]
    /\ UNCHANGED <<role, dev, ever, fileVars, tainted>>

\* external: the device's value changes
DeviceMoves(p) ==
    /\ used.moves < Bounds[role].moves /\ used' = [used EXCEPT !.moves = @ + 1]
    /\ \E v \in Readings \ {dev[p]} : dev' = [dev EXCEPT ![p] = v]
    /\ ever' = [ever EXCEPT ![p] = @ \cup {dev'[p]}]
    /\ UNCHANGED <<role, store, under, sessionVars, fileVars, tainted>>

BridgeNext ==
    \/ \E s \in Sessions, f \in BridgeRequests :
          BridgeFrame(s, f) \/ LocalFrame(s, f) \/ SerialFrame(s, f) \/ CanFrame(s, f)
    \/ \E s \in Sessions :
          \/ StoreEntry(s) \/ TakeSnapshot(s) \/ OpenTmp(s) \/ WriteTmp(s)
          \/ RenameTmp(s) \/ FlushFails(s) \/ Redial(s)
    \/ Crash
    \/ \E f \in BridgeRequests : \E p \in Range1(f) : DeviceMoves(p)

BridgeSpec == BridgeInit /\ [][BridgeNext]_bridgeVars

-----------------------------------------------------------------------------
(* Properties.                                                             *)

Real(p) ==
    IF Kind[p] = "synthesized" THEN ever[p] \cup {Synthesized(v) : v \in ever[Source[p]]}
    ELSE {Compatible(p, v) : v \in ever[p]}
Quiet == \A s \in Sessions : at[s] = "idle"
KeepsReal(st) == \A p \in DOMAIN st : st[p].value \in Real(p)

(* What the cache and its file keep for a parameter is a value that it had *)
(* (deviceBridgeObserveFrame, deviceBridgeStoreLiveNumericValue,           *)
(* loadCacheBestEffort): no refused or unanswered write, no failed read    *)
(* and no compatibility zero gets in, whatever overlaps, fails or crashes. *)
(* It is said of every store but those above a bridge, whose zeros the     *)
(* router cannot tell from values (PlaceholdersAreNotPersisted).           *)
(* flushCacheBestEffort: as long as no two flushes overlap and the disk    *)
(* refuses nothing, the file is whole at every moment, a crash at any      *)
(* moment included, and it is the cache whenever no frame is being         *)
(* answered.                                                               *)
CacheIsRealAndWhole ==
    /\ role # "can" => /\ \A s \in Sessions : KeepsReal(store[s])
                       /\ KeepsReal(Loaded)
    /\ ~tainted => /\ file # 0 => inode[file].whole
                   /\ Quiet => Loaded = Snapshot(store[Own(live)])

(* docs/coso_compatibility_bridge.md:36: placeholder values are not        *)
(* persisted.                                                              *)
PlaceholdersAreNotPersisted == KeepsReal(Loaded)

SomeBytes == UNION {[1 .. n -> {1, 2}] : n \in 0 .. 2}
SomeReads == [1 .. 3 -> {[width |-> w, bytes |-> b] : w \in {1, 2}, b \in SomeBytes}]
(* A client that asks for one segment after the other until one is empty   *)
(* gets the data exactly once and in order (deviceBridgeBigDataResponse);  *)
(* and in the PDO configuration a failed or short read never moves the     *)
(* bytes of the others (deviceBridgeCANopenPDOConfigBytes).                *)
BigDataIsAligned ==
    /\ \A n \in 0 .. 4, max \in 1 .. 3 :
          LET data == [i \in 1 .. n |-> i]
          IN  FlattenSeq([k \in 1 .. n + 1 |-> Segment(data, (k - 1) * max, max)]) = data
    /\ \A reads \in SomeReads, k \in 1 .. 3 :
          LET total == reads[1].width + reads[2].width + reads[3].width
              lost == [reads EXCEPT ![k].bytes = <<>>]
              from == IF k = 1 THEN 0 ELSE IF k = 2 THEN reads[1].width
                      ELSE reads[1].width + reads[2].width
          IN  \A i \in (1 .. total) \ ((from + 1) .. (from + reads[k].width)) :
                 PDOConfigBytes(reads, total)[i] = PDOConfigBytes(lost, total)[i]

(* The ways to read the same thing agree.  A bulk read of a parameter      *)
(* (deviceBridgeBulkReadWithState) and a single one                        *)
(* (deviceBridgeSingleReadWithState): when the single read is answered,    *)
(* the slot of the bulk read has the same value and the same entries are   *)
(* stored, however ReadBulk goes.  And big data read whole and in parts,   *)
(* which is about operators alone and evaluated after a first restart      *)
(* only.                                                                   *)
ReadsAgree ==
    /\ Quiet /\ used.frames > 0 =>
          \A p \in BridgeParams : \A down \in SUBSET {p, Source[p]} :
             LET one == SingleRead(store[Own(live)], dev, down, p)
             IN  one.reply.kind = "data" =>
                    \A bulk \in BOOLEAN :
                       BulkRead(store[Own(live)], dev, down, bulk, <<p>>) = one
    /\ used.frames = 0 /\ used.crashes = 1 => BigDataIsAligned
=============================================================================

------------------------------ MODULE Readout -------------------------------
(***************************************************************************)
(* Readout (mecom/readout.go), which RouterPollScheduler polls for one     *)
(* device: high-priority parameters are captured by the device's ring      *)
(* buffer (RingDevice), the others, and manual polls, are read in bulk     *)
(* through the poll queue (PollQueue).                                     *)
(*                                                                         *)
(* A poll makes several requests, and the device produces between them.    *)
(* PollOnce holds the scheduler's mutex for the whole poll, so manual      *)
(* polls come in between polls only.                                       *)
(***************************************************************************)
EXTENDS RingDevice, PollQueue

CONSTANTS
    RingParams,   \* the parameters NewReadout gives to the ring
    MinWindow,    \* r.ringMinBytes
    MaxWindow,    \* r.ringMaxLimit
    Supports,     \* what the clients' SupportsRingReadout answers
    MaxFailures   \* bound on the ring requests that fail

ASSUME ReadoutConstants ==
    /\ RingParams \in Seq(Params)
    /\ {MinWindow, MaxWindow} \subseteq 1 .. C /\ MinWindow <= MaxWindow
    /\ Supports \subseteq BOOLEAN
    /\ MaxFailures \in Nat

VARIABLES
    captured,        \* r.ringItems, and the parameters of r.ringConfig
    configured,      \* r.ringConfigured
    cursor, tail,    \* r.ringCursor, r.ringTail
    window,          \* r.ringMaxBytes
    pc,              \* "idle" between polls, or the request under way
    failures,        \* ring requests that failed so far
    reported, from,  \* history: frames reported since the cursor was set, and
                     \* the byte it stood for then
    cut,             \* history: frames since then with a marker cut in two
    newest           \* history: the newest frame reported

ringVars == <<captured, configured, cursor, tail, window>>
readoutHistory == <<reported, from, cut, newest>>
readoutVars == <<device, queue, ringVars, pc, failures, readoutHistory>>

ReadoutInit ==
    /\ DeviceInit
    /\ QueueInit
    /\ captured = RingParams
    /\ configured = FALSE
    /\ cursor = 0 /\ tail = <<>> /\ window = MinWindow
    /\ pc = "idle"
    /\ failures = 0
    /\ reported = <<>> /\ from = 0 /\ cut = {} /\ newest = 0

-----------------------------------------------------------------------------
(* pollRing *)

(* moveRingCaptureToBackground: Enqueue and EnqueueFront for each of them. *)
New(s, t) == SelectSeq(t, LAMBDA p : p \notin Elements(s))

\* A mutant for NothingLostOrRepeated: the captured parameters are read once
\* and not put back into the rotation.
MoveToFrontOnly ==
    /\ front' = front \o New(front, captured)
    /\ latest' = [p \in Params |-> IF p \in Elements(captured) /\ latest[p] = "none"
                                   THEN "not_sampled" ELSE latest[p]]
    /\ captured' = <<>> /\ configured' = FALSE /\ tail' = <<>>
    /\ UNCHANGED <<normal, pos, chunk, waited, cursor, window>>

MoveRingCaptureToBackground ==
    /\ normal' = normal \o New(normal, captured)
    /\ front' = front \o New(front, captured)
    /\ latest' = [p \in Params |-> IF p \in Elements(captured) /\ latest[p] = "none"
                                   THEN "not_sampled" ELSE latest[p]]
    /\ captured' = <<>> /\ configured' = FALSE /\ tail' = <<>>
    /\ UNCHANGED <<pos, chunk, waited, cursor, window>>

(* A poll begins.                                                          *)
PollWithoutRing ==
    /\ pc = "idle"
    /\ captured = <<>>
    /\ pc' = "background"
    /\ UNCHANGED <<device, queue, ringVars, failures, readoutHistory>>

PollUnsupported ==
    /\ pc = "idle"
    /\ captured # <<>>
    /\ FALSE \in Supports
    /\ MoveRingCaptureToBackground
    /\ pc' = "background"
    /\ UNCHANGED <<device, failures, readoutHistory>>

PollRing ==
    /\ pc = "idle"
    /\ captured # <<>>
    /\ TRUE \in Supports
    /\ pc' = IF configured THEN "chunk" ELSE "configure"
    /\ UNCHANGED <<device, queue, ringVars, failures, readoutHistory>>

(* ConfigureRingCapture, then TriggerRingSync, whose error is only noted.  *)
Configure ==
    /\ pc = "configure"
    /\ pc' = "pointer"
    /\ UNCHANGED <<device, queue, ringVars, failures, readoutHistory>>

(* The cursor starts at the device's pointer.                              *)
CursorAt(p) ==
    /\ cursor' = p
    /\ from' = head - Behind(p)
    /\ reported' = <<>> /\ cut' = {}
    /\ UNCHANGED newest

Pointer ==
    /\ pc = "pointer"
    /\ CursorAt(ptr)
    /\ configured' = TRUE
    /\ pc' = "background"
    /\ UNCHANGED <<device, queue, captured, tail, window, failures>>

(* A request fails: a chunk that cannot be read makes the next poll        *)
(* configure the ring again.                                               *)
RequestFails ==
    /\ pc \in {"configure", "pointer", "chunk"}
    /\ failures < MaxFailures
    /\ failures' = failures + 1
    /\ configured' = FALSE
    /\ pc' = "background"
    /\ UNCHANGED <<device, queue, captured, cursor, tail, window, readoutHistory>>

(* The device has overwritten what the cursor points to.                   *)
Overlap ==
    /\ pc = "chunk"
    /\ Behind(cursor) > kept
    /\ pc' = "resync"
    /\ UNCHANGED <<device, queue, ringVars, failures, readoutHistory>>

Resync ==
    /\ pc = "resync"
    /\ \/ CursorAt(ptr) /\ UNCHANGED failures
       \/ /\ failures < MaxFailures /\ failures' = failures + 1
          /\ UNCHANGED <<cursor, readoutHistory>>
    /\ tail' = <<>>
    /\ window' = MaxWindow
    /\ pc' = "background"
    /\ UNCHANGED <<device, queue, captured, configured>>

(* tuneRingReadWindow after n bytes of which there are more or not.        *)
Tuned(n, more) ==
    IF more \/ n >= (window * 3) \div 4
    THEN Lesser(2 * window, MaxWindow)
    ELSE IF n < window \div 4 /\ window > MinWindow
    THEN IF window \div 2 < MinWindow THEN MinWindow ELSE window \div 2
    ELSE window

Newest(frames) ==
    LET n == Len(frames)
    IN  IF n = 0 \/ frames[n] = Mixed THEN newest ELSE frames[n]

\* A mutant for RingValuesAreTheFramesRead: the start of a frame cut by the
\* chunk's end is dropped.
ChunkDropsPartial ==
    /\ pc = "chunk"
    /\ Behind(cursor) \in 1 .. kept
    /\ LET new == BytesFrom(cursor, window)
       IN  \E p \in Parsed(tail, new) :
             /\ cursor' = (cursor + Len(new)) % W
             /\ window' = Tuned(Len(new), Len(new) < Behind(cursor))
             /\ tail' = <<>>
             /\ reported' = reported \o p.frames
             /\ newest' = Newest(p.frames)
             /\ cut' = cut \cup CutBy(new[Len(new)])
    /\ pc' = "background"
    /\ UNCHANGED <<device, queue, captured, configured, failures, from>>

(* A chunk is read, parsed and reported.                                   *)
Chunk ==
    /\ pc = "chunk"
    /\ Behind(cursor) \in 1 .. kept
    /\ LET new == BytesFrom(cursor, window)
       IN  \E p \in Parsed(tail, new) :
             /\ cursor' = (cursor + Len(new)) % W
             /\ window' = Tuned(Len(new), Len(new) < Behind(cursor))
             /\ tail' = p.tail
             /\ reported' = reported \o p.frames
             /\ newest' = Newest(p.frames)
             /\ cut' = cut \cup CutBy(new[Len(new)])
    /\ pc' = "background"
    /\ UNCHANGED <<device, queue, captured, configured, failures, from>>

(* There is nothing new; the tail is parsed again and stays.               *)
NoBytes ==
    /\ pc = "chunk"
    /\ Behind(cursor) = 0
    /\ window' = Tuned(0, FALSE)
    /\ pc' = "background"
    /\ UNCHANGED <<device, queue, captured, configured, cursor, tail, failures,
                   readoutHistory>>

-----------------------------------------------------------------------------
(* pollBackground *)

Background ==
    /\ pc = "background"
    /\ NextChunk
    /\ pc' = "record"
    /\ UNCHANGED <<device, ringVars, failures, readoutHistory>>

NoBackground ==
    /\ pc = "background"
    /\ Manual + Turns = 0
    /\ pc' = "idle"
    /\ UNCHANGED <<device, queue, ringVars, failures, readoutHistory>>

Record ==
    /\ pc = "record"
    /\ RecordBulk
    /\ pc' = "idle"
    /\ UNCHANGED <<device, ringVars, failures, readoutHistory>>

(* RouterPollScheduler.EnqueueFront                                        *)
ManualPoll(p) ==
    /\ pc = "idle"
    /\ EnqueueFront(p)
    /\ UNCHANGED <<device, ringVars, pc, failures, readoutHistory>>

DeviceStep ==
    /\ Produce \/ Restart
    /\ UNCHANGED <<queue, ringVars, pc, failures, readoutHistory>>

ReadoutNext ==
    \/ DeviceStep
    \/ PollWithoutRing \/ PollUnsupported \/ PollRing
    \/ Configure \/ Pointer \/ RequestFails
    \/ Overlap \/ Resync \/ Chunk \/ NoBytes
    \/ Background \/ NoBackground \/ Record
    \/ \E p \in Params : ManualPoll(p)

ReadoutSpec == ReadoutInit /\ [][ReadoutNext]_readoutVars

-----------------------------------------------------------------------------

(***************************************************************************)
(* When no ring request fails, the samples reported since the cursor was   *)
(* set are the frames up to the cursor, each once and whole, except those  *)
(* whose start marker a chunk cut in two, however the window is tuned.     *)
(***************************************************************************)
RingValuesAreTheFramesRead ==
    configured /\ restarts = 0 /\ failures = 0 =>
        reported = SelectSeq(Frames(from, head - Behind(cursor)), LAMBDA n : n \notin cut)

(***************************************************************************)
(* "A route that reports no ring capability must move ring candidates into *)
(* the background queue" (docs/gateway/readout_scheduling.md:62-64): no    *)
(* parameter that has a place in the ring or in the rotation is left       *)
(* without one (moveRingCaptureToBackground).  And no frame is reported    *)
(* twice or after a later one, although cursors are set again after        *)
(* failures, overlaps and restarts of the device.                          *)
(***************************************************************************)
NothingLostOrRepeated ==
    [][/\ Elements(captured) \cup Elements(normal)
             \subseteq Elements(captured') \cup Elements(normal')
       /\ \A i \in Len(reported) + 1 .. Len(reported') :
             reported'[i] # Mixed => reported'[i] > newest]_readoutVars
=============================================================================

----------------------------- MODULE RingReader -----------------------------
(***************************************************************************)
(* RingReader (mecom/ring_reader.go): the poller that follows the device's *)
(* CRTVStream ring buffer with a 32-bit cursor, and the device behind it.  *)
(*                                                                         *)
(* fetch talks to the device several times, and the device produces        *)
(* between the calls.                                                      *)
(***************************************************************************)
EXTENDS RingDevice

CONSTANTS
    MaxChunks,     \* ringReaderMaxChunksFetch
    FailureLimit,  \* ringReaderConsecutiveFailureLimit
    ResetLimit,    \* ringReaderConsecutiveResetLimit
    WindowLimit,   \* ringReaderResetWindowLimit
    Capacity       \* of the Samples channel

ASSUME ReaderConstants ==
    {MaxChunks, FailureLimit, ResetLimit, WindowLimit, Capacity} \subseteq Nat \ {0}

VARIABLES
    last, tail,        \* r.lastPointer, r.tail
    failures, resets, windowResets,  \* r.consecutive..., r.resetWindowResets
    disabled, quit,    \* r.disabled; r.quit is closed
    pc,                \* "idle" between fetches, "chunk", "send", "done"
    fetch,             \* fetch's locals: target (its ptr), remaining, chunks,
                       \* and the chunk in hand: got (bytes), more
                       \* (HasMoreData) and out (the samples left to send)
    queued,            \* samples in the Samples channel
    sent, from,        \* history: samples sent since the last cursor reset,
                       \* (until quit), and the byte the cursor stood for then
    cut,               \* history: frames since then with a marker cut in two
    readTo,            \* history: the byte the cursor stands for
    newest             \* history: the newest frame sent until quit

counters == <<failures, resets, windowResets, disabled, quit>>
history == <<sent, from, cut, readTo, newest>>
vars == <<device, last, tail, counters, pc, fetch, queued, history>>

NoFetch == [target |-> 0, remaining |-> 0, chunks |-> 0,
            got |-> 0, more |-> FALSE, out |-> <<>>]

Init ==
    /\ DeviceInit
    /\ last = StartPtr /\ tail = <<>>
    /\ failures = 0 /\ resets = 0 /\ windowResets = 0
    /\ disabled = FALSE /\ quit = FALSE
    /\ pc = "idle"
    /\ fetch = NoFetch
    /\ queued = 0
    /\ sent = <<>> /\ from = 0 /\ cut = {} /\ readTo = 0 /\ newest = 0

-----------------------------------------------------------------------------
(* Failure accounting *)

FetchReturns == pc' = "idle" /\ fetch' = NoFetch

NoteHealthy == failures' = 0 /\ resets' = 0 /\ UNCHANGED <<windowResets, disabled, quit>>

\* A mutant for CatchesUpOrStops: failures are never counted to the limit.
NoteFailureForgiving == failures' = 0 /\ resets' = 0 /\ UNCHANGED <<windowResets, disabled, quit>>

NoteFailure ==
    /\ failures' = failures + 1
    /\ resets' = 0
    /\ disabled' = (disabled \/ failures + 1 >= FailureLimit)
    /\ quit' = (quit \/ disabled')
    /\ UNCHANGED windowResets

(* The 30 s window may have passed since it was opened.                    *)
NoteCursorReset ==
    /\ failures' = 0
    /\ resets' = resets + 1
    /\ windowResets' \in {1, windowResets + 1}
    /\ disabled' = (disabled \/ resets' >= ResetLimit \/ windowResets' >= WindowLimit)
    /\ quit' = (quit \/ disabled')

\* A mutant for OnlyCutMarkersAreSkipped: the cursor restarts but the tail
\* of the old frames stays.
CursorResetKeepsTail(p) ==
    /\ NoteCursorReset
    /\ IF disabled' THEN UNCHANGED <<last, tail, history>>
       ELSE /\ last' = p /\ tail' = tail
            /\ readTo' = head - Behind(p)
            /\ from' = readTo'
            /\ sent' = <<>> /\ cut' = {}
            /\ UNCHANGED newest
    /\ FetchReturns
    /\ UNCHANGED <<device, queued>>

(* The reader gives up what lies between its cursor and p, or stops.       *)
CursorReset(p) ==
    /\ NoteCursorReset
    /\ IF disabled' THEN UNCHANGED <<last, tail, history>>
       ELSE /\ last' = p /\ tail' = <<>>
            /\ readTo' = head - Behind(p)
            /\ from' = readTo'
            /\ sent' = <<>> /\ cut' = {}
            /\ UNCHANGED newest
    /\ FetchReturns
    /\ UNCHANGED <<device, queued>>

-----------------------------------------------------------------------------
(* fetch: the pointer *)

(* ringPointerDistance, and its second result.                             *)
Distance(a, b) == IF b >= a THEN b - a ELSE b + W - a
Forward(a, b) == b >= a \/ Distance(a, b) <= S

Polls == pc = "idle" /\ ~disabled

FetchNothing ==
    /\ Polls
    /\ ptr = last
    /\ NoteHealthy
    /\ UNCHANGED <<device, last, tail, pc, fetch, queued, history>>

FetchLost ==
    /\ Polls
    /\ ~Forward(last, ptr) \/ Distance(last, ptr) > S
    /\ CursorReset(ptr)

FetchSome ==
    /\ Polls
    /\ ptr # last
    /\ Forward(last, ptr)
    /\ Distance(last, ptr) <= S
    /\ pc' = "chunk"
    /\ fetch' = [NoFetch EXCEPT !.target = ptr, !.remaining = Distance(last, ptr)]
    /\ UNCHANGED <<device, last, tail, counters, queued, history>>

(* The pointer or the chunk cannot be read.                                *)
RequestFails ==
    /\ Polls \/ pc = "chunk"
    /\ NoteFailure
    /\ FetchReturns
    /\ UNCHANGED <<device, last, tail, queued, history>>

-----------------------------------------------------------------------------
(* fetch: the chunks *)

Overlap ==
    /\ pc = "chunk"
    /\ Behind(last) > kept
    /\ CursorReset(fetch.target)

NoBytes ==
    /\ pc = "chunk"
    /\ Behind(last) = 0
    /\ NoteHealthy
    /\ FetchReturns
    /\ UNCHANGED <<device, last, tail, queued, history>>

(* A chunk arrives and is parsed.                                          *)
Chunk ==
    /\ pc = "chunk"
    /\ Behind(last) \in 1 .. kept
    /\ LET new == BytesFrom(last, Least(C, fetch.remaining))
       IN  \E p \in Parsed(tail, new) :
             /\ IF p.ok THEN NoteHealthy ELSE NoteFailure
             /\ tail' = p.tail
             /\ fetch' = [fetch EXCEPT !.got = Len(new), !.more = Len(new) < Behind(last),
                                       !.out = p.frames]
             /\ cut' = cut \cup CutBy(new[Len(new)])
    /\ pc' = "send"
    /\ UNCHANGED <<device, last, queued, sent, from, readTo, newest>>

Send ==
    /\ pc = "send"
    /\ fetch.out # <<>>
    /\ queued < Capacity
    /\ queued' = queued + 1
    /\ sent' = IF quit THEN sent ELSE Append(sent, Head(fetch.out))
    /\ newest' = IF quit \/ Head(fetch.out) = Mixed THEN newest ELSE Head(fetch.out)
    /\ fetch' = [fetch EXCEPT !.out = Tail(@)]
    /\ UNCHANGED <<device, last, tail, counters, pc, from, cut, readTo>>

SendQuits ==
    /\ pc = "send"
    /\ fetch.out # <<>>
    /\ quit
    /\ FetchReturns
    /\ UNCHANGED <<device, last, tail, counters, queued, history>>

(* The cursor moves on.  What came after target is read too while the      *)
(* device says that there is more.                                         *)
Advance ==
    /\ pc = "send"
    /\ fetch.out = <<>>
    /\ last' = (last + fetch.got) % W
    /\ readTo' = readTo + fetch.got
    /\ IF fetch.more /\ fetch.chunks + 1 < MaxChunks
       THEN LET left == IF Forward(last', fetch.target)
                        THEN Distance(last', fetch.target) ELSE 0
            IN  /\ pc' = "chunk"
                /\ fetch' = [NoFetch EXCEPT !.target = fetch.target, !.chunks = fetch.chunks + 1,
                                            !.remaining = IF left = 0 THEN C ELSE left]
       ELSE FetchReturns
    /\ UNCHANGED <<device, tail, counters, queued, sent, from, cut, newest>>

-----------------------------------------------------------------------------

(* runDeviceRingReceiver takes a sample.                                   *)
Receive ==
    /\ queued > 0
    /\ queued' = queued - 1
    /\ UNCHANGED <<device, last, tail, counters, pc, fetch, history>>

Stop ==
    /\ ~quit
    /\ quit' = TRUE
    /\ UNCHANGED <<device, last, tail, failures, resets, windowResets, disabled, pc, fetch,
                   queued, history>>

PollReturns ==
    /\ pc = "idle"
    /\ quit
    /\ pc' = "done"
    /\ UNCHANGED <<device, last, tail, counters, fetch, queued, history>>

ReaderStep ==
    \/ FetchNothing \/ FetchLost \/ FetchSome
    \/ RequestFails
    \/ Overlap \/ NoBytes \/ Chunk
    \/ Send \/ SendQuits \/ Advance
    \/ PollReturns

DeviceStep ==
    /\ Produce \/ Restart
    /\ UNCHANGED <<last, tail, counters, pc, fetch, queued, history>>

Next == DeviceStep \/ ReaderStep \/ Receive \/ Stop

Spec == Init /\ [][Next]_vars

(* The ticker ticks, requests end (they have a timeout), and the receiver  *)
(* takes what there is.                                                    *)
FairSpec == Spec /\ WF_vars(ReaderStep) /\ WF_vars(Receive)

-----------------------------------------------------------------------------

(***************************************************************************)
(* Until it is stopped, fetch puts into Samples every frame since the last *)
(* cursor reset once, in order and whole, except those whose start marker  *)
(* a chunk cut in two, wherever else the chunks cut and wherever pointers  *)
(* wrap; and the cursor stands for the byte it claims.  When the device    *)
(* restarts, its pointer is all the reader sees of it, but no frame is     *)
(* repeated or reordered then either.                                      *)
(***************************************************************************)
OnlyCutMarkersAreSkipped ==
    ~quit =>
        /\ \A i \in 1 .. Len(fetch.out) : fetch.out[i] # Mixed => fetch.out[i] > newest
        /\ restarts = 0 =>
              /\ sent \o fetch.out = SelectSeq(Frames(from, readTo + fetch.got),
                                               LAMBDA n : n \notin cut)
              /\ readTo = head - Behind(last)

(***************************************************************************)
(* The reader catches up with the device or stops for good, however often  *)
(* requests fail: failures and resets cannot alternate for ever without    *)
(* progress (noteFailure, noteCursorReset, noteHealthy).                   *)
(***************************************************************************)
CatchesUpOrStops == <>[](quit \/ last = ptr)
=============================================================================

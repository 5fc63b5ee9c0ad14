------------------------------ MODULE CanRing -------------------------------
(***************************************************************************)
(* The CAN capture ring file (canring/ring.go): a writer appends frames in *)
(* chunks to a file of fixed size and commits each chunk with a header     *)
(* written to the two superblocks in turn; readers take snapshots of the   *)
(* same file from another process, without a lock.                         *)
(*                                                                         *)
(* A chunk is its number, the sequence number of its first record and how  *)
(* many it has.  What a checksum is for is modelled by the value Torn: a   *)
(* block whose write is under way, failed, or was cut off.  The writer's   *)
(* caller is ringSink (cmd/teccanprobe/main.go), which closes a writer     *)
(* that reports an error and does not use it again.                        *)
(***************************************************************************)
EXTENDS Integers, FiniteSets, FiniteSetsExt

CONSTANTS
    Settings,    \* what the ring may be configured with and may meet:
                 \*   sizes: chunk counts it is opened with, over time
                 \*   sync: Config.SyncOnChunk
                 \*   limits: arguments of Snapshot, 0 for all; {}: no reader
                 \*   records: bound on sequence numbers
                 \*   errors, crashes, losses: bounds on failed writes, on
                 \*     ends of the writer's process, on power failures
                 \*   eras: bound on initialisations of the file
    PerChunk,    \* maxRecordsPerChunk
    Blank, Torn  \* zeroes; a block that fails its checksum

ASSUME RingConstants ==
    /\ PerChunk \in Nat \ {0}
    /\ \A s \in Settings :
          /\ s.sizes # {} /\ s.sizes \subseteq Nat \ {0, 1} /\ s.limits \subseteq Nat
          /\ s.sync \in BOOLEAN
          /\ {s.records, s.errors, s.crashes, s.losses, s.eras} \subseteq Nat

VARIABLES
    setting, \* the setting of this behaviour
    super,   \* [0 .. 1]: header, Blank or Torn
    slots,   \* chunk slots of the file: chunk, Blank or Torn
    synced,  \* the values of both that are on the medium
    pc,      \* writer: "closed", "clear", "chunk", "header", "sync", "open"
    w,       \* Writer
    rpc,     \* reader: "idle", "scan", "payload", "done"
    r,       \* Reader with the local state of Snapshot
    faults,  \* number of errors, crashes and losses so far
    durable, \* chunks whose flush returned after a Sync (history)
    written, \* chunks on disk at some time since Snapshot began (history)
    watch    \* what the writer did since Snapshot began (history):
             \*   "still", "moved", "restarted"

ringVars == <<setting, super, slots, synced, pc, w, rpc, r, faults, durable, written, watch>>
disk == <<super, slots, synced>>
readerVars == <<rpc, r>>

Index == 0 .. Max(UNION {s.sizes : s \in Settings}) - 1
NoWriter == [n |-> 0, next |-> 0, chunks |-> 0, records |-> 0, gen |-> 0,
             buffered |-> 0, closing |-> FALSE, cleared |-> 0, era |-> 0]
NoReader == [h |-> Blank, limit |-> 0, scanned |-> 0, got |-> {}, chunk |-> Blank]

RingInit ==
    /\ setting \in Settings
    /\ super = [i \in 0 .. 1 |-> Blank]
    /\ slots = [i \in Index |-> Blank]
    /\ synced = [super |-> super, slots |-> slots]
    /\ pc = "closed" /\ w = NoWriter
    /\ rpc = "idle" /\ r = NoReader
    /\ faults = [errors |-> 0, crashes |-> 0, losses |-> 0]
    /\ durable = {} /\ written = {}
    /\ watch = "still"

Valid(block) == block \notin {Blank, Torn}
Seqs(c) == c.first .. c.first + c.n - 1

(* readLatestHeader; Blank if there is none.                               *)
LatestHeader ==
    LET hs == {super[i] : i \in {i \in 0 .. 1 : Valid(super[i])}} IN
    IF hs = {} THEN Blank ELSE CHOOSE h \in hs : \A o \in hs : o.gen <= h.gen

-----------------------------------------------------------------------------
(* The writer *)

Header == [gen |-> w.gen, n |-> w.n, next |-> w.next, chunks |-> w.chunks,
           records |-> w.records, era |-> w.era]

\* A mutant for CommittedChunksAreKept: the header is always written to the
\* same slot.
SuperFixed(gen) == 0

Super(gen) == gen % 2

Moved == watch' = IF watch = "still" THEN "moved" ELSE watch

(* writeHeader begins: its superblock is overwritten from here on.         *)
HeaderBegins(v) ==
    /\ w' = [v EXCEPT !.gen = @ + 1]
    /\ super' = [super EXCEPT ![Super(v.gen + 1)] = Torn]
    /\ pc' = "header"

(* flushChunk begins.                                                      *)
FlushBegins(v) ==
    /\ w' = v
    /\ slots' = [slots EXCEPT ![v.next] = Torn]
    /\ pc' = "chunk"
    /\ Moved
    /\ UNCHANGED <<super, synced>>

\* A mutant for CommittedChunksAreKept: the record count is not taken over
\* from the header.
ResumedFromZero(v, h) ==
    [v EXCEPT !.next = h.next % v.n, !.chunks = h.chunks, !.era = h.era]

(* The state that OpenWriter takes over from a header of its geometry.     *)
Resumed(v, h) ==
    [v EXCEPT !.next = h.next % v.n, !.chunks = h.chunks, !.records = h.records, !.era = h.era]

\* A mutant for CommittedChunksAreKept: a ring of another geometry is not
\* cleared.
OpenWriterUncleared(n) ==
    LET h == LatestHeader
        fresh == [NoWriter EXCEPT !.n = n, !.cleared = n,
                      !.gen = IF Valid(h) THEN h.gen ELSE 0,
                      !.era = IF Valid(h) THEN h.era + 1 ELSE 1] IN
    /\ pc = "closed"
    /\ slots' = [i \in Index |-> IF i < n THEN slots[i] ELSE Blank]
    /\ IF Valid(h) /\ h.n = n
       THEN pc' = "open" /\ w' = Resumed(fresh, h)
       ELSE fresh.era <= setting.eras /\ pc' = "clear" /\ w' = fresh
    /\ watch' = "restarted"
    /\ UNCHANGED <<super, synced, faults, durable, written>> /\ UNCHANGED readerVars

OpenWriter(n) ==
    LET h == LatestHeader
        fresh == [NoWriter EXCEPT !.n = n,
                      !.gen = IF Valid(h) THEN h.gen ELSE 0,
                      !.era = IF Valid(h) THEN h.era + 1 ELSE 1] IN
    /\ pc = "closed"
    /\ slots' = [i \in Index |-> IF i < n THEN slots[i] ELSE Blank]
    /\ IF Valid(h) /\ h.n = n
       THEN pc' = "open" /\ w' = Resumed(fresh, h)
       ELSE fresh.era <= setting.eras /\ pc' = "clear" /\ w' = fresh
    /\ watch' = "restarted"
    /\ UNCHANGED <<super, synced, faults, durable, written>> /\ UNCHANGED readerVars

(* clearDataRegion, block by block, and the first header.                  *)
Clear ==
    /\ pc = "clear"
    /\ IF w.cleared < w.n
       THEN /\ slots' = [slots EXCEPT ![w.cleared] = Blank]
            /\ w' = [w EXCEPT !.cleared = @ + 1]
            /\ UNCHANGED <<super, pc>>
       ELSE HeaderBegins(w) /\ UNCHANGED slots
    /\ Moved
    /\ UNCHANGED <<synced, faults, durable, written>> /\ UNCHANGED readerVars

WriterAppend ==
    LET v == [w EXCEPT !.buffered = @ + 1, !.records = @ + 1] IN
    /\ pc = "open"
    /\ w.records < setting.records
    /\ IF v.buffered >= PerChunk
       THEN FlushBegins(v)
       ELSE w' = v /\ UNCHANGED <<pc, watch>> /\ UNCHANGED disk
    /\ UNCHANGED <<faults, durable, written>> /\ UNCHANGED readerVars

Close ==
    /\ pc = "open"
    /\ IF w.buffered > 0
       THEN FlushBegins([w EXCEPT !.closing = TRUE])
       ELSE pc' = "closed" /\ w' = NoWriter /\ UNCHANGED watch /\ UNCHANGED disk
    /\ UNCHANGED <<faults, durable, written>> /\ UNCHANGED readerVars

(* WriteAt of the chunk returns; writeHeader is next.                      *)
ChunkWritten ==
    LET chunk == [num |-> w.chunks, first |-> w.records - w.buffered,
                  n |-> w.buffered, era |-> w.era] IN
    /\ pc = "chunk"
    /\ slots' = [slots EXCEPT ![w.next] = chunk]
    /\ written' = IF rpc \in {"scan", "payload"} THEN written \cup {chunk} ELSE written
    /\ HeaderBegins([w EXCEPT !.next = (@ + 1) % w.n, !.chunks = @ + 1, !.buffered = 0])
    /\ Moved
    /\ UNCHANGED <<synced, faults, durable>> /\ UNCHANGED readerVars

(* flushChunk, OpenWriter or Close returns.                                *)
Returns ==
    IF w.closing THEN pc' = "closed" /\ w' = NoWriter
                 ELSE pc' = "open" /\ UNCHANGED w

HeaderWritten ==
    /\ pc = "header"
    /\ super' = [super EXCEPT ![Super(w.gen)] = Header]
    /\ IF setting.sync /\ w.chunks > 0
       THEN pc' = "sync" /\ UNCHANGED w
       ELSE Returns
    /\ Moved
    /\ UNCHANGED <<slots, synced, faults, durable, written>> /\ UNCHANGED readerVars

\* A mutant for CommittedChunksAreKept: the header is left out of the sync.
SyncedBeforeHeader ==
    /\ pc = "sync"
    /\ synced' = [super |-> synced.super, slots |-> slots]
    /\ durable' = durable \cup {slots[(w.next + w.n - 1) % w.n]}
    /\ Returns
    /\ UNCHANGED <<super, slots, faults, written, watch>> /\ UNCHANGED readerVars

Synced ==
    /\ pc = "sync"
    /\ synced' = [super |-> super, slots |-> slots]
    /\ durable' = durable \cup {slots[(w.next + w.n - 1) % w.n]}
    /\ Returns
    /\ UNCHANGED <<super, slots, faults, written, watch>> /\ UNCHANGED readerVars

(* A write fails.  ringSink closes the writer, and Close writes a chunk    *)
(* that is still buffered once more.                                       *)
WriteFails ==
    /\ pc \in {"clear", "chunk", "header", "sync"}
    /\ faults.errors < setting.errors
    /\ faults' = [faults EXCEPT !.errors = @ + 1]
    /\ IF pc = "chunk" /\ ~w.closing
       THEN w' = [w EXCEPT !.closing = TRUE] /\ UNCHANGED pc
       ELSE pc' = "closed" /\ w' = NoWriter
    /\ Moved
    /\ UNCHANGED <<durable, written>> /\ UNCHANGED disk /\ UNCHANGED readerVars

(* The process ends where it is; the kernel keeps what was written.        *)
Crash ==
    /\ pc # "closed"
    /\ faults.crashes < setting.crashes
    /\ faults' = [faults EXCEPT !.crashes = @ + 1]
    /\ pc' = "closed" /\ w' = NoWriter
    /\ Moved
    /\ UNCHANGED <<durable, written>> /\ UNCHANGED disk /\ UNCHANGED readerVars

(* Of every block written since the last Sync the medium has the old       *)
(* contents, the new ones or a mixture.                                    *)
Fates == {"old", "new", "torn"}
After(fate, old, new) ==
    IF fate = "new" \/ new = old THEN new ELSE IF fate = "old" THEN old ELSE Torn

PowerLoss ==
    /\ faults.losses < setting.losses
    /\ faults' = [faults EXCEPT !.losses = @ + 1]
    /\ \E fate \in [0 .. 1 -> Fates] :
          super' = [i \in 0 .. 1 |-> After(fate[i], synced.super[i], super[i])]
    /\ \E fate \in [Index -> Fates] :
          slots' = [i \in Index |-> After(fate[i], synced.slots[i], slots[i])]
    /\ synced' = [super |-> super', slots |-> slots']
    /\ pc' = "closed" /\ w' = NoWriter
    /\ rpc' = "idle" /\ r' = NoReader
    /\ watch' = "moved"
    /\ UNCHANGED <<durable, written>>

-----------------------------------------------------------------------------
(* The reader *)

Snapshot(limit) ==
    /\ rpc \in {"idle", "done"}
    /\ Valid(LatestHeader)
    /\ r' = [NoReader EXCEPT !.h = LatestHeader, !.limit = limit]
    /\ rpc' = "scan"
    /\ watch' = IF pc \in {"open", "closed"} THEN "still" ELSE "moved"
    /\ written' = {slots[i] : i \in {i \in Index : Valid(slots[i])}}
    /\ UNCHANGED <<pc, w, faults, durable>> /\ UNCHANGED disk

MaxChunks == IF r.h.chunks < r.h.n THEN r.h.chunks ELSE r.h.n

\* A mutant for SnapshotIsWholeAndNewest: the snapshot starts one slot late.
ScanIndexFromNext ==
    IF r.limit = 0 THEN r.scanned
    ELSE (r.h.next + r.h.n - r.scanned) % r.h.n

(* readAllChunks goes up from 0, readRecentChunks down from NextChunk.     *)
ScanIndex ==
    IF r.limit = 0 THEN r.scanned
    ELSE (r.h.next + r.h.n - 1 - r.scanned) % r.h.n

(* readChunk reads the chunk header, and then the payload, whose checksum  *)
(* fails if another chunk has been written in between.                     *)
ReadChunkHeader ==
    /\ rpc = "scan" /\ r.scanned < MaxChunks
    /\ IF Valid(slots[ScanIndex])
       THEN r' = [r EXCEPT !.chunk = slots[ScanIndex]] /\ rpc' = "payload"
       ELSE r' = [r EXCEPT !.scanned = @ + 1] /\ UNCHANGED rpc
    /\ UNCHANGED <<pc, w, faults, durable, written, watch>> /\ UNCHANGED disk

Records(chunks) == UNION {Seqs(c) : c \in chunks}

\* A mutant for SnapshotIsWholeAndNewest: a chunk is copied without checking
\* its sequence afterwards.
ReadPayloadUnchecked ==
    LET new == slots[ScanIndex]
        got == r.got \cup (IF Valid(new) THEN {[r.chunk EXCEPT !.first = new.first]} ELSE {}) IN
    /\ rpc = "payload"
    /\ r' = [r EXCEPT !.got = got, !.scanned = @ + 1, !.chunk = Blank]
    /\ rpc' = "scan"
    /\ UNCHANGED <<pc, w, faults, durable, written, watch>> /\ UNCHANGED disk

ReadPayload ==
    LET got == r.got \cup (IF slots[ScanIndex] = r.chunk THEN {r.chunk} ELSE {})
        count == MapThenSumSet(LAMBDA c : c.n, got) IN
    /\ rpc = "payload"
    /\ r' = [r EXCEPT !.got = got, !.scanned = @ + 1, !.chunk = Blank]
    /\ rpc' = IF r.limit > 0 /\ count >= r.limit THEN "done" ELSE "scan"
    /\ UNCHANGED <<pc, w, faults, durable, written, watch>> /\ UNCHANGED disk

ScanEnds ==
    /\ rpc = "scan" /\ r.scanned >= MaxChunks
    /\ rpc' = "done"
    /\ UNCHANGED <<r, pc, w, faults, durable, written, watch>> /\ UNCHANGED disk

(* The newest k of a set of sequence numbers, all of them if k is 0.       *)
Newest(k, S) == {s \in S : k = 0 \/ Cardinality({t \in S : t > s}) < k}

(* What Snapshot returns: the records in order, cut to the limit.          *)
Returned == Newest(r.limit, Records(r.got))

RingNext ==
    /\ \/ \E n \in setting.sizes : OpenWriter(n)
       \/ Clear \/ WriterAppend \/ Close
       \/ ChunkWritten \/ HeaderWritten \/ Synced
       \/ WriteFails \/ Crash \/ PowerLoss
       \/ \E limit \in setting.limits : Snapshot(limit)
       \/ ReadChunkHeader \/ ReadPayload \/ ScanEnds
    /\ UNCHANGED setting

RingSpec == RingInit /\ [][RingNext]_ringVars
-----------------------------------------------------------------------------

(* A ring of one size with chunks has a header, and that header has its    *)
(* chunks: the last ones before NextChunk, but for the slot overwritten    *)
(* next, are whole, in place and without a gap in their numbers; and no    *)
(* two chunks have a sequence number in common, also when the writer lost  *)
(* the records it had buffered and numbers new ones from there.            *)
HeaderHasItsChunks(h) ==
    /\ (\E i \in Index : Valid(slots[i])) => Valid(h)
    /\ Valid(h) =>
        \A k \in 1 .. Min({h.chunks, h.n - 1}) :
            LET c == slots[(h.next + h.n - k) % h.n] IN
            /\ Valid(c) /\ c.num = h.chunks - k
            /\ k = 1 => c.first + c.n = h.records
            /\ k > 1 => LET d == slots[(h.next + h.n - k + 1) % h.n] IN c.first + c.n = d.first

OneRecordPerSeq ==
    \A i, j \in Index :
        i # j /\ Valid(slots[i]) /\ Valid(slots[j]) => Seqs(slots[i]) \cap Seqs(slots[j]) = {}

(* With SyncOnChunk a chunk whose flush returned outlives a power failure  *)
(* that keeps, loses or tears any of the later writes: a header is left,   *)
(* it counts that chunk, and the chunk is there until it is overwritten.   *)
DurableChunksSurvive(h) ==
    \A c \in durable :
        /\ Valid(h) /\ h.chunks > c.num
        /\ c.num + h.n > h.chunks => slots[c.num % h.n] = c

(***************************************************************************)
(* The header by which the next OpenWriter and every reader go describes   *)
(* the file, whatever writes fail and wherever the writer's process ends   *)
(* (flushChunk writes the chunk before the header, and the header beside   *)
(* the last good one); what was synced outlives power failures; and        *)
(* "incompatible files are reinitialized in place" (ring.go:263): under a  *)
(* header of the new size there is no chunk written before, also when a    *)
(* reinitialisation was cut off and the size changed again.                *)
(***************************************************************************)
CommittedChunksAreKept ==
    \E h \in {LatestHeader} :
       /\ faults.losses = 0 /\ Cardinality(setting.sizes) = 1 => HeaderHasItsChunks(h)
       /\ faults.losses = 0 => OneRecordPerSeq
       /\ DurableChunksSurvive(h)
       /\ Valid(h) => \A i \in 0 .. h.n - 1 : Valid(slots[i]) => slots[i].era = h.era

(***************************************************************************)
(* "A positive limit keeps the most recent records" (ring.go:408): when    *)
(* nothing was written meanwhile, Snapshot returns exactly the newest      *)
(* committed records on disk, together at most with those of a chunk whose *)
(* header was never written.  And one taken while the writer laps the      *)
(* reader has only chunks that were written as they are returned, never    *)
(* the header of one with the records of another (readChunk reads the two  *)
(* apart, without a lock).                                                 *)
(***************************************************************************)
SnapshotIsWholeAndNewest ==
    /\ r.got \subseteq written
    /\ rpc = "done" /\ watch = "still" =>
          LET readable == {slots[i] : i \in {i \in 0 .. r.h.n - 1 : Valid(slots[i])}}
              committed == {c \in readable : c.num < r.h.chunks} IN
          Returned \in {Newest(r.limit, Records(S)) : S \in {readable, committed}}

=============================================================================

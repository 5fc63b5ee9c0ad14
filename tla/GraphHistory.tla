---------------------------- MODULE GraphHistory ----------------------------
(***************************************************************************)
(* The graph history of the gateway (cmd/mecomgw/graph_tiles.go,           *)
(* archive.go, arrow_export.go).  Of every series there is a raw buffer of *)
(* the last Hot time units, kept sorted, and a pyramid of buckets (a       *)
(* library, external) that keeps everything.  Ring receivers, pollers, API *)
(* reads and imports record samples concurrently, each first in the        *)
(* pyramid and then, under another lock, in the raw buffer; tiles are      *)
(* built from both.                                                        *)
(*                                                                         *)
(* A sample has the time it was taken and an identity instead of a value.  *)
(* recordGraphRawSample has no caller outside the tests, so the derivation *)
(* worker finds nothing to do and is left out.                             *)
(***************************************************************************)
EXTENDS Integers, Sequences, FiniteSets, SequencesExt

CONSTANTS
    Configured,   \* the configured devices
    SeriesOf,     \* series: <<device, parameter, instance>>
    Recorders,    \* goroutines that record
    Hot,          \* time units the raw buffer holds (15 minutes)
    Finest,       \* width of a bucket
    Retention,    \* width of a session tile (3 days)
    Quiet,        \* after this long without samples a session tile ends early
    Levels,       \* widths of the other tiles and of exports
    Ranges,       \* <<t0, t1>> that a range tile may be asked for
    Spark,        \* samples of a sparkline (30)
    ImportLimit,  \* samples an import may have
    Bodies,       \* JSON imports: sequences of [top, source, at]
    Rows,         \* Arrow and NDJSON imports: sequences of [s, at], or Bad
    Bad,          \* a row that cannot be decoded; a time that cannot be parsed
    MaxClock,     \* bound: the clock
    MaxSamples    \* bound: samples recorded

VARIABLES
    clock,
    raw,       \* per series: the raw buffer, a sequence of samples
    hotLatest, \* per series: the latest time recorded
    derived,   \* per series: the samples in the pyramid
    jobs,      \* per recorder: entries to record, and where it is
    tile,      \* a tile or export that is being built
    done,      \* samples recorded completely (history)
    refused,   \* samples of refused imports (history)
    ids        \* identities given out

graphVars == <<clock, raw, hotLatest, derived, jobs, tile, done, refused, ids>>

Resting == [todo |-> <<>>, at |-> "derived"]
NoTile == [at |-> "none", s |-> 0, t0 |-> 0, t1 |-> 0, owed |-> {}, out |-> {}]

GraphInit ==
    /\ clock = Hot
    /\ raw = [s \in SeriesOf |-> <<>>] /\ derived = [s \in SeriesOf |-> {}]
    /\ hotLatest = [s \in SeriesOf |-> 0]
    /\ jobs = [r \in Recorders |-> Resting]
    /\ tile = NoTile /\ done = [s \in SeriesOf |-> {}] /\ refused = {} /\ ids = 0

-----------------------------------------------------------------------------
(* The raw buffer and the pyramid of one series.                           *)

\* A mutant for HotTilesAreExact: a late sample is appended.
InsertLast(q, x) == Append(q, x)

\* insertRawSampleLocked: after every earlier sample; a late one goes before
\* those of its own time, the newest after them
Insert(q, x) ==
    IF q = <<>> \/ x.at >= Last(q).at THEN Append(q, x)
    ELSE InsertAt(q, 1 + Cardinality({k \in DOMAIN q : q[k].at < x.at}), x)

\* sort.Search for the first sample that is not before the cutoff: on a sorted
\* buffer, what is left of the earlier ones
From(q, cutoff) ==
    LET idx == CHOOSE k \in 1 .. Len(q) + 1 :
                  /\ k <= Len(q) => q[k].at >= cutoff
                  /\ k > 1 => q[k - 1].at < cutoff
    IN  SubSeq(q, idx, Len(q))

\* external: the pyramid's buckets, by their start, and its bounds
Start(at) == (at \div Finest) * Finest
Buckets(s) == {Start(x.at) : x \in derived[s]}

-----------------------------------------------------------------------------
(* Recording.                                                              *)

Records(r, todo) == jobs' = [jobs EXCEPT ![r].todo = todo]

\* A live sample of the ring, a poll or a read.  It may have waited a little
\* between the reading of the clock and here.
Sampled(r, s) ==
    /\ jobs[r] = Resting /\ ids < MaxSamples /\ s[1] \in Configured
    /\ ids' = ids + 1
    /\ \E at \in {clock - 1, clock} : Records(r, <<[s |-> s, at |-> at, id |-> ids + 1]>>)
    /\ UNCHANGED <<clock, raw, hotLatest, derived, tile, done, refused>>

\* The entries of an import as samples
Numbered(q) == [k \in DOMAIN q |-> [s |-> q[k].s, at |-> q[k].at, id |-> ids + k]]

\* resolveGraphHistoryImportIdentity: what a series and its source say of the
\* device, the parameter and the instance (0: nothing) may not differ
Conflict(e) == \E k \in 1 .. 3 : e.top[k] # 0 /\ e.source[k] # 0 /\ e.top[k] # e.source[k]
Identity(e) == [k \in 1 .. 3 |-> IF e.top[k] # 0 THEN e.top[k] ELSE e.source[k]]
Resolves(e) == ~Conflict(e) /\ \A k \in 1 .. 3 : Identity(e)[k] # 0

\* parseGraphHistoryImportSamples, and the sort by time: the readable samples
\* of one series of the body
Parsed(e) ==
    LET times == SortSeq(SelectSeq(e.at, LAMBDA at : at # Bad), <)
    IN  [j \in DOMAIN times |-> [s |-> Identity(e), at |-> times[j]]]
PlanOf(body) == FlattenSeq([k \in DOMAIN body |-> Parsed(body[k])])

\* handleGraphHistoryImport checks all of the body before it records
Refuses(body) ==
    \/ \E k \in DOMAIN body : ~Resolves(body[k]) \/ Identity(body[k])[1] \notin Configured
    \/ Len(PlanOf(body)) \notin 1 .. ImportLimit

Import(r, body) ==
    /\ jobs[r] = Resting
    /\ \E q \in {Numbered(PlanOf(body))} :
          /\ ids + Len(q) <= MaxSamples /\ ids' = ids + Len(q)
          /\ Records(r, IF Refuses(body) THEN <<>> ELSE q)
          /\ refused' = IF Refuses(body) THEN refused \cup ToSet(q) ELSE refused
    /\ UNCHANGED <<clock, raw, hotLatest, derived, tile, done>>

\* readArrowImportSamples: rows without a time, device or parameter are
\* dropped, a batch that cannot be read or is too long refuses all; the device
\* need not be a configured one
Usable(row) == row.at # Bad /\ row.s[1] # 0 /\ row.s[2] # 0
ImportArrow(r, rows) ==
    LET good == SelectSeq(rows, LAMBDA row : row # Bad)
        refuses == Contains(rows, Bad) \/ Len(rows) > ImportLimit
    IN  /\ jobs[r] = Resting
        /\ \E q \in {Numbered(SelectSeq(good, Usable))} :
              /\ ids + Len(q) <= MaxSamples /\ ids' = ids + Len(q)
              /\ Records(r, IF refuses THEN <<>> ELSE q)
              /\ refused' = IF refuses THEN refused \cup ToSet(q) ELSE refused
        /\ UNCHANGED <<clock, raw, hotLatest, derived, tile, done>>

\* handleLogImport records row by row up to one it cannot decode; a missing
\* instance is the first
BeforeBad(rows) ==
    SubSeq(rows, 1, Min({Len(rows)} \cup {k - 1 : k \in {j \in DOMAIN rows : rows[j] = Bad}}))
FirstInstance(row) == IF row.s[3] = 0 THEN [row EXCEPT !.s[3] = 1] ELSE row
ImportLog(r, rows) ==
    LET read == SelectSeq(BeforeBad(rows), Usable)
    IN  /\ jobs[r] = Resting
        /\ ids + Len(read) <= MaxSamples /\ ids' = ids + Len(read)
        /\ Records(r, Numbered([k \in DOMAIN read |-> FirstInstance(read[k])]))
        /\ UNCHANGED <<clock, raw, hotLatest, derived, tile, done, refused>>

Recording(r) == jobs[r].todo # <<>>

\* recordGraphSample: first the pyramid,
RecordDerived(r) ==
    LET x == Head(jobs[r].todo)
    IN  /\ Recording(r) /\ jobs[r].at = "derived"
        /\ derived' = [derived EXCEPT ![x.s] = @ \cup {x}]
        /\ jobs' = [jobs EXCEPT ![r].at = "raw"]
        /\ UNCHANGED <<clock, raw, hotLatest, tile, done, refused, ids>>

\* then the raw buffer, which is trimmed by the latest time it has seen.
RecordRaw(r) ==
    LET x == Head(jobs[r].todo)
        latest == IF x.at > hotLatest[x.s] THEN x.at ELSE hotLatest[x.s]
        left == Tail(jobs[r].todo)
    IN  /\ Recording(r) /\ jobs[r].at = "raw"
        /\ hotLatest' = [hotLatest EXCEPT ![x.s] = latest]
        /\ raw' = [raw EXCEPT ![x.s] = From(Insert(@, x), latest - Hot)]
        /\ done' = [done EXCEPT ![x.s] = @ \cup ({x} \ refused)]
        /\ jobs' = [jobs EXCEPT ![r] = IF left = <<>> THEN Resting
                                       ELSE [todo |-> left, at |-> "derived"]]
        /\ UNCHANGED <<clock, derived, tile, refused, ids>>

GraphTick ==
    /\ clock < MaxClock /\ clock' = clock + 1
    /\ UNCHANGED <<raw, hotLatest, derived, jobs, tile, done, refused, ids>>

-----------------------------------------------------------------------------
(* Tiles.                                                                  *)

\* lookupGraphRange.  A window that is short enough is answered from the raw
\* buffer, whatever its end; another from the pyramid, or from the raw buffer
\* when the pyramid has nothing for it.
UsesHotBuffer(t0, t1) == t1 - t0 \in 1 .. Hot
HotAnswer(s, t0) == {x.at : x \in ToSet(From(raw[s], t0))}
Lookup(s, t0, t1) ==
    LET coarse == {b \in Buckets(s) : b >= t0 /\ b <= t1}
    IN  IF (UsesHotBuffer(t0, t1) /\ raw[s] # <<>>) \/ coarse = {} THEN HotAnswer(s, t0) ELSE coarse

\* graphHistoryBounds
Known(s) == Buckets(s) \cup {x.at : x \in ToSet(raw[s])}

\* A mutant for TilesAreComplete: the range does not reach back to the
\* first sample.
SessionRangeShort(s) ==
    LET t1 == IF Known(s) # {} /\ clock - Max(Known(s)) > Quiet THEN Max(Known(s)) ELSE clock
    IN  <<t1 - Retention, t1>>

\* graphTileTimeRange of a session tile
SessionRange(s) ==
    LET t1 == IF Known(s) # {} /\ clock - Max(Known(s)) > Quiet THEN Max(Known(s)) ELSE clock
        t0 == t1 - Retention
    IN  IF Known(s) # {} /\ Min(Known(s)) < t0 THEN <<Min(Known(s)), t1>> ELSE <<t0, t1>>

\* A tile takes its range first and looks the samples up later.
Begins(s, range, owed) ==
    /\ tile = NoTile
    /\ tile' = [at |-> "range", s |-> s, t0 |-> range[1], t1 |-> range[2],
                owed |-> owed, out |-> {}]
    /\ UNCHANGED <<clock, raw, hotLatest, derived, jobs, done, refused, ids>>
Within(s, t0, t1) == {x \in done[s] : Start(x.at) >= t0 /\ x.at <= t1}
SessionTile(s) == Begins(s, SessionRange(s), {x \in done[s] : x.at <= clock})
LevelTile(s, w) == Begins(s, <<clock - w, clock>>, Within(s, clock - w, clock))
RangeTile(s, t0, t1) == Begins(s, <<t0, t1>>, Within(s, t0, t1))

TileLooksUp ==
    /\ tile.at = "range"
    /\ tile' = [tile EXCEPT !.at = "built", !.out = Lookup(tile.s, tile.t0, tile.t1)]
    /\ UNCHANGED <<clock, raw, hotLatest, derived, jobs, done, refused, ids>>
TileServed ==
    /\ tile.at = "built" /\ tile' = NoTile
    /\ UNCHANGED <<clock, raw, hotLatest, derived, jobs, done, refused, ids>>

\* graphTileSeries: a live tile (the shortest level) that found nothing reads
\* the device, and records what it read.
ReadLive(r) ==
    /\ tile.at = "built" /\ tile.out = {} /\ tile.t1 - tile.t0 = Min(Levels) /\ tile.s[1] \in Configured
    /\ jobs[r] = Resting /\ ids < MaxSamples /\ ids' = ids + 1
    /\ Records(r, <<[s |-> tile.s, at |-> clock, id |-> ids + 1]>>)
    /\ tile' = NoTile
    /\ UNCHANGED <<clock, raw, hotLatest, derived, done, refused>>

\* handleGraphSparklines: the newest samples of the raw buffer; an empty one
\* has an empty pyramid beside it
Sparkline(s) == ToSet(SubSeq(raw[s], Max({1, Len(raw[s]) - Spark + 1}), Len(raw[s])))

GraphNext ==
    \/ GraphTick \/ TileLooksUp \/ TileServed
    \/ \E s \in SeriesOf : \/ SessionTile(s)
                          \/ \E w \in Levels : LevelTile(s, w)
                          \/ \E range \in Ranges : RangeTile(s, range[1], range[2])
    \/ \E r \in Recorders :
          \/ RecordDerived(r) \/ RecordRaw(r) \/ ReadLive(r)
          \/ \E s \in SeriesOf : Sampled(r, s)
          \/ \E body \in Bodies : Import(r, body)
          \/ \E rows \in Rows : ImportArrow(r, rows) \/ ImportLog(r, rows)

GraphSpec == GraphInit /\ [][GraphNext]_graphVars

-----------------------------------------------------------------------------
(* Properties.                                                             *)

(* addSampleWithDerivationLocked: whatever the order in which recorders    *)
(* deliver, and with imports of old samples among them, the raw buffer is  *)
(* sorted and holds exactly the recorded samples of the last Hot units, so *)
(* that a short tile up to the present and the sparkline show them.  Of an *)
(* import that is refused there is nothing in it.                          *)
HotTilesAreExact ==
    \A s \in SeriesOf :
       /\ \A k \in 1 .. Len(raw[s]) - 1 : raw[s][k].at <= raw[s][k + 1].at
       /\ ToSet(raw[s]) = {x \in done[s] : x.at >= hotLatest[s] - Hot}
       /\ raw[s] # <<>> =>
             /\ \A t0 \in clock - Hot .. clock - 1 :
                   Lookup(s, t0, clock) = {x.at : x \in {y \in ToSet(raw[s]) : y.at >= t0}}
             /\ \E x \in Sparkline(s) : x.at = hotLatest[s]

(* graphTileTimeRange and lookupGraphRange: a session tile has the bucket  *)
(* of every sample that was recorded when it was requested, however old an *)
(* import made the history and whatever is recorded meanwhile; another     *)
(* tile, an export and a range that is too long for the raw buffer have    *)
(* those of their range.                                                   *)
TilesAreComplete ==
    tile.at = "built" /\ ~UsesHotBuffer(tile.t0, tile.t1) =>
        \A x \in tile.owed : Start(x.at) \in tile.out

(* "Switching to historical mode freezes the current viewport and backfills *)
(* data from the /api/graph/tiles range endpoints" with "controls (...) for *)
(* precise navigation through deep historical buffers" (docs/SYNERGY.md:49, *)
(* 53): a range tile shows the recorded samples of its range.               *)
RangesAreBackfilled ==
    tile.at = "built" => \A x \in tile.owed : {x.at, Start(x.at)} \cap tile.out # {}
=============================================================================

---------------------------- MODULE MergeRecords ----------------------------
(***************************************************************************)
(* MergeRecords (canring/ring.go): the records of a primary and a fallback *)
(* ring are combined, mirrored frames once, the newest at most limit.      *)
(* Sorted inputs with a limit are merged in one pass over a circular       *)
(* buffer (mergeRecordsTail); others are collected, sorted and cut         *)
(* (mergeRecordsFull).                                                     *)
(*                                                                         *)
(* A record has a time, a sequence number of its ring, its data and the    *)
(* ring it is from.  Frames are mirrored when time and data agree; order   *)
(* is by time and sequence number, so that records can tie.                *)
(***************************************************************************)
EXTENDS Naturals, Sequences, FiniteSets, SequencesExt

CONSTANTS Times, SeqNos, Data, MaxLen, MergeLimits

ASSUME MergeConstants == Times \cup SeqNos \cup MergeLimits \cup {MaxLen} \subseteq Nat

VARIABLES
    primary, fallback, limit,  \* the arguments
    mpc,          \* "call", "merge", "done"
    i, j,         \* records of each taken
    tail, start, count,        \* the circular buffer
    seenPrimary, seenFallback,
    result

mergeVars == <<primary, fallback, limit, mpc, i, j, tail, start, count,
               seenPrimary, seenFallback, result>>
args == <<primary, fallback, limit>>

MergeRecord(ring) == [time : Times, seq : SeqNos, data : Data, ring : {ring}]

MergeInit ==
    /\ primary \in BoundedSeq(MergeRecord("primary"), MaxLen)
    /\ fallback \in BoundedSeq(MergeRecord("fallback"), MaxLen)
    /\ limit \in MergeLimits
    /\ mpc = "call"
    /\ i = 0 /\ j = 0 /\ tail = <<>> /\ start = 0 /\ count = 0
    /\ seenPrimary = {} /\ seenFallback = {} /\ result = <<>>

Key(rec) == <<rec.time, rec.data>>
Before(a, b) == a.time < b.time \/ (a.time = b.time /\ a.seq < b.seq)
Sorted(s) == \A k \in 2 .. Len(s) : ~Before(s[k], s[k - 1])
LastOf(s, k) == IF k > 0 /\ Len(s) > k THEN SubSeq(s, Len(s) - k + 1, Len(s)) ELSE s

-----------------------------------------------------------------------------
(* mergeRecordsFull *)

(* The first record of each key.                                           *)
FirstOfKeys(s) ==
    LET first == {k \in DOMAIN s : \A l \in 1 .. k - 1 : Key(s[l]) # Key(s[k])} IN
    [n \in 1 .. Cardinality(first) |->
        s[CHOOSE k \in first : Cardinality({l \in first : l <= k}) = n]]

StableSort(s) ==
    LET rank(k) == Cardinality({l \in DOMAIN s : Before(s[l], s[k])
                                  \/ (~Before(s[k], s[l]) /\ l <= k)}) IN
    [n \in DOMAIN s |-> s[CHOOSE k \in DOMAIN s : rank(k) = n]]

MergeFull(p, f, k) == LastOf(StableSort(FirstOfKeys(p \o f)), k)

-----------------------------------------------------------------------------
(* mergeRecordsTail *)

Call ==
    /\ mpc = "call"
    /\ IF limit > 0 /\ Sorted(primary) /\ Sorted(fallback)
       THEN /\ mpc' = "merge"
            /\ tail' = [k \in 0 .. limit - 1 |-> 0]
            /\ UNCHANGED result
       ELSE /\ mpc' = "done"
            /\ result' = MergeFull(primary, fallback, limit)
            /\ UNCHANGED tail
    /\ UNCHANGED <<i, j, start, count, seenPrimary, seenFallback>> /\ UNCHANGED args

Push(rec) ==
    IF count < limit
    THEN /\ tail' = [tail EXCEPT ![(start + count) % limit] = rec]
         /\ count' = count + 1 /\ UNCHANGED start
    ELSE /\ tail' = [tail EXCEPT ![start] = rec]
         /\ start' = (start + 1) % limit /\ UNCHANGED count

(* On a tie the primary goes first.                                        *)
TakesPrimary ==
    i < Len(primary) /\ (j < Len(fallback) => ~Before(fallback[j + 1], primary[i + 1]))

TakePrimary ==
    LET rec == primary[i + 1] IN
    /\ mpc = "merge" /\ TakesPrimary
    /\ IF Key(rec) \in seenPrimary
       THEN UNCHANGED <<tail, start, count, seenPrimary>>
       ELSE Push(rec) /\ seenPrimary' = seenPrimary \cup {Key(rec)}
    /\ i' = i + 1
    /\ UNCHANGED <<mpc, j, seenFallback, result>> /\ UNCHANGED args

\* A mutant for MergedAsPromised: only the primary records merged so far
\* hide a fallback record.
TakeFallbackSoFar ==
    LET rec == fallback[j + 1] IN
    /\ mpc = "merge" /\ ~TakesPrimary /\ j < Len(fallback)
    /\ IF Key(rec) \in seenPrimary \cup seenFallback
       THEN UNCHANGED <<tail, start, count, seenFallback>>
       ELSE Push(rec) /\ seenFallback' = seenFallback \cup {Key(rec)}
    /\ j' = j + 1
    /\ UNCHANGED <<mpc, i, seenPrimary, result>> /\ UNCHANGED args

TakeFallback ==
    LET rec == fallback[j + 1]
        primaryKeys == {Key(primary[k]) : k \in DOMAIN primary} IN
    /\ mpc = "merge" /\ ~TakesPrimary /\ j < Len(fallback)
    /\ IF Key(rec) \in primaryKeys \cup seenFallback
       THEN UNCHANGED <<tail, start, count, seenFallback>>
       ELSE Push(rec) /\ seenFallback' = seenFallback \cup {Key(rec)}
    /\ j' = j + 1
    /\ UNCHANGED <<mpc, i, seenPrimary, result>> /\ UNCHANGED args

Return ==
    /\ mpc = "merge" /\ i = Len(primary) /\ j = Len(fallback)
    /\ result' = [k \in 1 .. count |-> tail[(start + k - 1) % limit]]
    /\ mpc' = "done"
    /\ UNCHANGED <<i, j, tail, start, count, seenPrimary, seenFallback>> /\ UNCHANGED args

MergeNext == Call \/ TakePrimary \/ TakeFallback \/ Return

MergeSpec == MergeInit /\ [][MergeNext]_mergeVars

-----------------------------------------------------------------------------

(***************************************************************************)
(* The one-pass merge returns what collecting, sorting and cutting         *)
(* everything would: same records, from the same ring, in the same order,  *)
(* also when records tie or are mirrored under other sequence numbers.     *)
(* And that is what MergeRecords promises ("preferring the primary record  *)
(* when both rings contain the same frame", ring.go:70-71): the result is  *)
(* in order, has no frame twice and none of the fallback that the primary  *)
(* has, and leaves out only records older than all it has.                 *)
(***************************************************************************)
MergedAsPromised ==
    LET keys(s) == {Key(s[k]) : k \in DOMAIN s} IN
    mpc = "done" =>
        /\ result = MergeFull(primary, fallback, limit)
        /\ Sorted(result)
        /\ \A k, l \in DOMAIN result : Key(result[k]) = Key(result[l]) => k = l
        /\ \A k \in DOMAIN result :
              result[k].ring = "fallback" => Key(result[k]) \notin keys(primary)
        /\ limit > 0 => Len(result) <= limit
        /\ \A key \in keys(primary \o fallback) \ keys(result) :
              limit > 0 /\ Len(result) = limit /\ key[1] <= result[1].time
=============================================================================

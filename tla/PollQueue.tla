----------------------------- MODULE PollQueue ------------------------------
(***************************************************************************)
(* PollQueue (mecom/pollqueue.go): which parameters the next bulk read     *)
(* asks a device for, and the latest result of each.  Normal parameters    *)
(* take turns; manual polls go before them.                                *)
(*                                                                         *)
(* One goroutine polls (pollBackground, pollLazyReadoutOnce): it takes a   *)
(* chunk, reads it from the device and records the results.  Others queue  *)
(* parameters meanwhile.  The sets normalSet and frontSet hold the keys of *)
(* normal and front, so they are not state here.                           *)
(***************************************************************************)
EXTENDS Naturals, Sequences

CONSTANTS
    Params,      \* the parameters, by their ParameterKey
    Configured,  \* lists of normal parameters NewPollQueue may get
    BulkChunk    \* how many are read at once

ASSUME QueueConstants ==
    /\ Configured \subseteq Seq(Params)
    /\ \A s \in Configured : \A i, j \in DOMAIN s : s[i] = s[j] => i = j
    /\ BulkChunk \in Nat \ {0}

VARIABLES
    normal, pos,  \* q.normal, and q.normalPos counted from 0
    front,        \* q.front
    latest,       \* q.latest: "none" when absent, "not_sampled", "sampled"
    chunk,        \* the parameters the poller is reading
    waited        \* history: normal turns since the parameter's own

queue == <<normal, pos, front, latest, chunk, waited>>

Lesser(a, b) == IF a < b THEN a ELSE b
Elements(s) == {s[i] : i \in DOMAIN s}
Distinct(s) == \A i, j \in DOMAIN s : s[i] = s[j] => i = j

(* seedLatestLocked *)
Seeded(p) == [latest EXCEPT ![p] = IF @ = "none" THEN "not_sampled" ELSE @]

QueueInit ==
    /\ normal \in Configured
    /\ pos = 0
    /\ front = <<>>
    /\ latest = [p \in Params |-> IF p \in Elements(normal) THEN "not_sampled" ELSE "none"]
    /\ chunk = <<>>
    /\ waited = [p \in Params |-> 0]

Enqueue(p) ==
    /\ latest' = Seeded(p)
    /\ normal' = IF p \in Elements(normal) THEN normal ELSE Append(normal, p)
    /\ waited' = IF p \in Elements(normal) THEN waited ELSE [waited EXCEPT ![p] = 0]
    /\ UNCHANGED <<pos, front, chunk>>

EnqueueFront(p) ==
    /\ latest' = Seeded(p)
    /\ front' = IF p \in Elements(front) THEN front ELSE Append(front, p)
    /\ UNCHANGED <<normal, pos, chunk, waited>>

-----------------------------------------------------------------------------
(* NextChunk *)

Manual == Lesser(BulkChunk, Len(front))
Turns == Lesser(BulkChunk - Manual, Len(normal))

(* k steps into the rotation, counted from 0 and wrapped once.             *)
Wrapped(k) == IF k < Len(normal) THEN k ELSE k - Len(normal)

(* The parameter whose turn is the i-th from now.                          *)
Turn(i) == normal[Wrapped(pos + i - 1) + 1]

\* A mutant for TurnWithinOneRotation: manual parameters advance the
\* rotation too.
NextPosCountsManual ==
    IF normal = <<>> THEN pos ELSE Wrapped(Wrapped(pos + Turns) + Manual)

(* The position moves with the parameters taken by turn, not with manual   *)
(* ones.                                                                   *)
NextPos == IF normal = <<>> THEN pos ELSE Wrapped(pos + Turns)

NextChunk ==
    /\ chunk = <<>>
    /\ Manual + Turns > 0
    /\ chunk' = SubSeq(front, 1, Manual) \o [i \in 1 .. Turns |-> Turn(i)]
    /\ front' = SubSeq(front, Manual + 1, Len(front))
    /\ pos' = NextPos
    /\ waited' = [p \in Params |->
                    IF \E i \in 1 .. Turns : Turn(i) = p
                    THEN Turns - (CHOOSE i \in 1 .. Turns : Turn(i) = p)
                    ELSE IF p \in Elements(normal) THEN waited[p] + Turns
                    ELSE 0]
    /\ UNCHANGED <<normal, latest>>

(* RecordBulk with the values read, or with the error of the whole read.   *)
RecordBulk ==
    /\ chunk # <<>>
    /\ latest' = [p \in Params |-> IF p \in Elements(chunk) THEN "sampled" ELSE latest[p]]
    /\ chunk' = <<>>
    /\ UNCHANGED <<normal, pos, front, waited>>

-----------------------------------------------------------------------------

PollerStep == NextChunk \/ RecordBulk

QueueNext ==
    \/ \E p \in Params : Enqueue(p) \/ EnqueueFront(p)
    \/ PollerStep

QueueSpec == QueueInit /\ [][QueueNext]_queue

-----------------------------------------------------------------------------

(***************************************************************************)
(* A normal parameter is read again before any other one has its second    *)
(* turn, however manual polls and new parameters come in between           *)
(* (NextChunk keeps its place in the rotation).                            *)
(***************************************************************************)
TurnWithinOneRotation ==
    \A p \in Elements(normal) : waited[p] < Len(normal)

=============================================================================

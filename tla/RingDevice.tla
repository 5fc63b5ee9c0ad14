----------------------------- MODULE RingDevice -----------------------------
(***************************************************************************)
(* The device's CRTVStream ring buffer, as its readers (RingReader,        *)
(* Readout) use it, and ParseRingFrames, which both apply to what they     *)
(* read.                                                                   *)
(*                                                                         *)
(* The device numbers the bytes it ever produced 1, 2, ...; its pointer    *)
(* moves on by one per byte and wraps at W.  A frame is L consecutive      *)
(* bytes, the first two its start marker, and carries one sample, so frame *)
(* n is the bytes (n-1)L+1 .. nL.  The device keeps its last S bytes.      *)
(***************************************************************************)
EXTENDS Naturals, Sequences

CONSTANTS
    W,           \* pointers wrap here (2^32)
    S,           \* RingBufferSizeBytes
    C,           \* MaxRingReadMaxBytes
    L,           \* bytes of a frame
    StartPtr,    \* the device's pointer when its reader starts
    MaxHead,     \* bound on the bytes produced
    MaxRestarts  \* bound on the device's restarts

ASSUME RingConstants ==
    /\ {W, S, C, L} \subseteq Nat \ {0}
    /\ {StartPtr, MaxHead, MaxRestarts} \subseteq Nat
    /\ StartPtr < W /\ L > 2
    /\ 2 * S < W /\ MaxHead < W

VARIABLES
    head,     \* bytes produced
    ptr,      \* its pointer
    kept,     \* bytes it can give
    restarts  \* how often it restarted

device == <<head, ptr, kept, restarts>>

Least(a, b) == IF a < b THEN a ELSE b

DeviceInit == head = 0 /\ ptr = StartPtr /\ kept = 0 /\ restarts = 0

Produce ==
    /\ head < MaxHead
    /\ head' = head + 1
    /\ ptr' = (ptr + 1) % W
    /\ kept' = Least(S, kept + 1)
    /\ UNCHANGED restarts

(* It starts again with an empty ring and a new frame.                     *)
Restart ==
    /\ restarts < MaxRestarts
    /\ head + L <= MaxHead
    /\ restarts' = restarts + 1
    /\ head' = L * (head \div L + 1)
    /\ ptr' = 0
    /\ kept' = 0

(* How far the device is ahead of pointer p.                               *)
Behind(p) == (ptr + W - p) % W

(* The bytes the device answers with when asked for at most n from p on.   *)
BytesFrom(p, n) == [i \in 1 .. Least(n, Behind(p)) |-> head - Behind(p) + i]

-----------------------------------------------------------------------------
(* ParseRingFrames *)

Contiguous(data) == \A i \in 1 .. Len(data) - 1 : data[i + 1] = data[i] + 1

(* The whole frames among the bytes a + 1 .. b.                            *)
Frames(a, b) ==
    LET first == (a + L - 1) \div L
        n == IF b \div L > first THEN b \div L - first ELSE 0
    IN  [i \in 1 .. n |-> first + i]

(* The beginning of a frame at the end of consecutive bytes, from its      *)
(* start marker on.  findRingStart wants both bytes of the marker.         *)
Rest(data) ==
    LET k == data[Len(data)] % L
    IN  IF k > 1 /\ Len(data) >= k THEN SubSeq(data, Len(data) - k + 1, Len(data))
        ELSE <<>>

(* The frame whose start marker the last byte b of a chunk cuts in two.    *)
CutBy(b) == IF b % L = 1 THEN {b \div L + 1} ELSE {}

(* A sample decoded from bytes of two frames.                              *)
Mixed == 0

(* What parsing the bytes new after the bytes tail may give.  When they do *)
(* not follow each other, everything up to the next end marker is taken    *)
(* for one frame: an error if a start marker lies inside, else an error or *)
(* a sample made of both, for frames carry no checksum.                    *)
Parsed(tail, new) ==
    LET data == tail \o new
        b == new[Len(new)]
        ends == {i \in Len(tail) + 1 .. Len(data) : data[i] % L = 0}
        e == CHOOSE i \in ends : \A j \in ends : i <= j
        Error == [ok |-> FALSE, frames |-> <<>>, tail |-> <<>>]
    IN  IF Contiguous(data)
        THEN {[ok |-> TRUE, frames |-> Frames(data[1] - 1, b), tail |-> Rest(data)]}
        ELSE IF ends = {}
        THEN {[ok |-> TRUE, frames |-> <<>>, tail |-> data]}
        ELSE IF \E i \in 2 .. e : data[i] % L = 1
        THEN {Error}
        ELSE {Error, [ok |-> TRUE, frames |-> <<Mixed>> \o Frames(data[e], b),
                      tail |-> Rest(new)]}
=============================================================================

----------------------------- MODULE SdoClient ------------------------------
(***************************************************************************)
(* The two clients that talk to a controller over CAN: CANopenClient       *)
(* (mecom/canopen_client.go, service data objects) and CANClient           *)
(* (mecom/can_client.go, binary MeCom), each on a socket of its own        *)
(* (socketcan/socketcan_linux.go).                                         *)
(*                                                                         *)
(* A client has one exchange at a time, under its mutex.  The socket keeps *)
(* every frame of the bus in order, also those that come after a request   *)
(* was given up, and those that another master asked for.  An SDO answer   *)
(* names its object and no request; a binary one has the low bits of the   *)
(* sequence number and no object.                                          *)
(***************************************************************************)
EXTENDS Integers, Sequences, FiniteSets

CONSTANTS
    Callers,
    Objects,
    NodeHas,     \* [Objects -> {"word", "short", "long", "absent"}]
    NodeFixed,   \* objects the node lets nobody write
    Unmapped,    \* parameters the SDO map does not have
    MapFixed,    \* parameters it does not mark as writable
    Calls,       \* calls made: [op, objs], a bulk read having several objs
    SeqTurn,      \* 128: seven bits of the sequence number are sent
    SeqMax,      \* 65535
    StartSeq,    \* sequence numbers a client may have come to
    MaxRequests, MaxForeign   \* bounds

ASSUME SeqAssumption ==
    /\ SeqTurn \in Nat \ {0, 1} /\ SeqMax \in Nat /\ StartSeq \subseteq 0 .. SeqMax
    /\ (SeqMax + 1) % SeqTurn = 0

ASSUME ClientAssumption ==
    /\ "nobody" \notin Callers
    /\ NodeHas \in [Objects -> {"word", "short", "long", "absent"}]
    /\ \A k \in Calls : k.op \in {"read", "write", "raw", "bulk"}
                      /\ k.objs \in Seq(Objects) /\ k.objs # <<>>

VARIABLES
    proto,    \* "sdo" or "binary"
    call,     \* per caller: the call it makes
    holder,   \* who has the mutex, or Nobody
    seq,      \* CANClient.seq
    wire,     \* requests the node has not served
    inbox,    \* frames the socket has for the client
    sent,     \* number of requests sent; a request's identity (history)
    foreign,  \* requests of another master
    soiled,   \* what late answers may be about: directions of objects (history)
    streak    \* requests given up one after the other (history)

sdoVars == <<proto, call, holder, seq, wire, inbox, sent, foreign, soiled, streak>>

Nobody == "nobody"
Idle == [at |-> "idle", op |-> "", objs |-> <<>>, id |-> 0, seq |-> 0]

SdoInit ==
    /\ proto \in {"sdo", "binary"}
    /\ call = [c \in Callers |-> Idle] /\ holder = Nobody
    /\ seq \in StartSeq
    /\ wire = <<>> /\ inbox = <<>>
    /\ sent = 0 /\ foreign = 0 /\ soiled = {} /\ streak = 0

-----------------------------------------------------------------------------
(* Calls.                                                                  *)

\* The checks of WriteFloat32, WriteInt32 and readNumeric before a request
Refused(op, o) ==
    /\ proto = "sdo" /\ op # "raw"
    /\ o \in Unmapped \/ (op = "write" /\ o \in MapFixed)

\* What a caller does next: a call of its choice, or the rest of a bulk read
Pending(c) ==
    IF call[c].at = "next" THEN {call[c]}
    ELSE {[Idle EXCEPT !.op = k.op, !.objs = k.objs] :
             k \in {j \in Calls : proto = "binary" => j.op \in {"read", "bulk"}}}

\* nextSeq: sixteen bits, of which zero is left out
NextSeq == IF seq = SeqMax THEN 1 ELSE seq + 1

Direction(op) == IF op = "write" THEN "download" ELSE "upload"

\* How a call goes on after one of its exchanges: a bulk read puts NaN in the
\* slot of a parameter that is unknown or timed out, and ends with any other
\* error (readBulkShouldReturnError); the rest returns.  Values are left out.
Ends(k, outcome) ==
    IF k.op = "bulk" /\ outcome \in {"ok", "unknown", "timeout"} /\ Len(k.objs) > 1
    THEN [Idle EXCEPT !.at = "next", !.op = k.op, !.objs = Tail(k.objs)]
    ELSE Idle

\* A request that got no answer; once a whole turn of the sequence numbers
\* got none, an answer may be taken for another for good.
Unanswered == streak + 1
Answered == IF streak >= SeqTurn - 1 THEN streak ELSE 0

\* The mutex is taken and the request sent; Send may fail.
Send(c) ==
    /\ call[c].at \in {"idle", "next"} /\ sent < MaxRequests
    /\ \E k \in Pending(c) :
          LET o == Head(k.objs)
              n == IF proto = "binary" THEN NextSeq ELSE seq
          IN  /\ ~Refused(k.op, o) /\ holder = Nobody
              /\ seq' = n /\ sent' = sent + 1
              /\ \/ /\ holder' = c /\ streak' = streak
                    /\ call' = [call EXCEPT ![c] = [k EXCEPT !.at = "wait", !.id = sent', !.seq = n]]
                    /\ wire' = Append(wire, [id |-> sent', op |-> Direction(k.op), o |-> o,
                                             seq |-> n % SeqTurn])
                 \/ /\ call' = [call EXCEPT ![c] = Ends(k, "error")]
                    /\ streak' = Unanswered /\ UNCHANGED <<holder, wire>>
    /\ UNCHANGED <<proto, inbox, foreign, soiled>>

\* An error before any request: no mapping, not writable, or, in CANClient,
\* which looks, a context that has ended
SendRefused(c) ==
    /\ call[c].at \in {"idle", "next"}
    /\ \E k \in Pending(c) :
          LET o == Head(k.objs)
          IN  \/ /\ Refused(k.op, o)
                 /\ call' = [call EXCEPT ![c] =
                               Ends(k, IF o \in Unmapped THEN "unknown" ELSE "readOnly")]
              \/ proto = "binary" /\ holder = Nobody /\ call' = [call EXCEPT ![c] = Ends(k, "canceled")]
    /\ UNCHANGED <<proto, holder, seq, wire, inbox, sent, foreign, soiled, streak>>

-----------------------------------------------------------------------------
(* The bus.                                                                *)

\* external: the node's answer to an SDO request and to a binary one
Answer(q) ==
    LET kind == IF proto = "binary" THEN IF NodeHas[q.o] = "absent" THEN "nack" ELSE "value"
                ELSE IF NodeHas[q.o] = "absent" \/ (q.op = "download" /\ q.o \in NodeFixed)
                THEN "abort"
                ELSE IF q.op = "download" THEN "ack"
                ELSE NodeHas[q.o]
    IN  [id |-> q.id, kind |-> kind, o |-> q.o, seq |-> q.seq]

\* external: the node serves a request, or one of the two frames is lost
NodeServes ==
    /\ wire # <<>> /\ wire' = Tail(wire)
    /\ inbox' \in {inbox, Append(inbox, Answer(Head(wire)))}
    /\ UNCHANGED <<proto, call, holder, seq, sent, foreign, soiled, streak>>

\* external: another master of the same node, whose answers we see as well
ForeignRequest ==
    /\ proto = "sdo" /\ foreign < MaxForeign /\ foreign' = foreign + 1
    /\ \E o \in Objects, d \in {"upload", "download"} :
          /\ wire' = Append(wire, [id |-> 0, op |-> d, o |-> o, seq |-> 0])
          /\ soiled' = soiled \cup {<<o, d>>}
    /\ UNCHANGED <<proto, call, holder, seq, inbox, sent, streak>>

-----------------------------------------------------------------------------
(* Answers.                                                                *)

\* What a client makes of a frame: an outcome, or it goes on waiting.  "long"
\* is a segmented upload, "short" one whose size is not four bytes.

\* BinaryResponseMatchesRequest: seven bits of the sequence number, and no
\* parameter.
BinaryMatches(k, r) == r.kind = "value" /\ r.seq = k.seq % SeqTurn
TakesBinary(k, r) == IF BinaryMatches(k, r) THEN "ok" ELSE "ignored"

\* A mutant for LateAnswersAreRecognised: the command byte of an answer is
\* not looked at.
TakesAnyDownload(k, r) ==
    IF r.o # Head(k.objs) THEN "ignored"
    ELSE IF r.kind = "abort" THEN "rejected" ELSE "ok"

TakesDownload(k, r) ==
    IF r.o # Head(k.objs) THEN "ignored"
    ELSE IF r.kind = "abort" THEN "rejected"
    ELSE IF r.kind = "ack" THEN "ok" ELSE "ignored"

\* ParseSDOUploadResponse takes no segmented upload
IsUpload(r) == r.kind \in {"word", "short"}

TakesNumeric(k, r) ==
    IF r.o # Head(k.objs) THEN "ignored"
    ELSE IF r.kind = "abort" THEN "unknown"
    ELSE IF ~IsUpload(r) THEN "ignored"
    ELSE IF r.kind = "word" THEN "ok" ELSE "size"

TakesRaw(k, r) ==
    IF r.o # Head(k.objs) THEN "ignored"
    ELSE IF r.kind = "abort" THEN "abort"
    ELSE IF IsUpload(r) THEN "ok" ELSE "ignored"

Takes(k, r) ==
    IF proto = "binary" THEN TakesBinary(k, r)
    ELSE IF k.op = "write" THEN TakesDownload(k, r)
    ELSE IF k.op = "raw" THEN TakesRaw(k, r)
    ELSE TakesNumeric(k, r)

Recv(c) ==
    /\ call[c].at = "wait" /\ inbox # <<>> /\ inbox' = Tail(inbox)
    /\ LET r == Head(inbox)
           t == Takes(call[c], r)
           ours == <<Head(call[c].objs), Direction(call[c].op)>>
       IN  IF t = "ignored" THEN UNCHANGED <<call, holder, streak, soiled>>
           ELSE /\ call' = [call EXCEPT ![c] = Ends(@, t)]
                /\ holder' = Nobody /\ streak' = Answered
                /\ soiled' = IF r.id = call[c].id THEN soiled ELSE soiled \cup {ours}
    /\ UNCHANGED <<proto, seq, wire, sent, foreign>>

\* The deadline is found to have passed, or the socket's Recv times out first
\* (socketcan.ErrTimeout, which is not mecom.ErrTimeout), the context ends,
\* or the socket fails.
GiveUp(c) ==
    /\ call[c].at = "wait"
    /\ \E outcome \in {"timeout", "socketTimeout", "canceled", "error"} :
          call' = [call EXCEPT ![c] = Ends(@, outcome)]
    /\ holder' = Nobody /\ streak' = Unanswered
    /\ soiled' = soiled \cup {<<Head(call[c].objs), Direction(call[c].op)>>}
    /\ UNCHANGED <<proto, seq, wire, inbox, sent, foreign>>

SdoNext == \/ \E c \in Callers : Send(c) \/ SendRefused(c) \/ Recv(c) \/ GiveUp(c)
           \/ NodeServes \/ ForeignRequest

SdoSpec == SdoInit /\ [][SdoNext]_sdoVars

-----------------------------------------------------------------------------
(* Properties.                                                             *)

(* canopen_client.go:118, can_client.go:90: the answer that ends a wait is *)
(* the answer to the request that was sent.  With SDO it may be another    *)
(* one only if an exchange of the same object in the same direction was    *)
(* made by another master, given up, or ended by such an answer before; an *)
(* abort, which names no direction, in either direction.  With binary      *)
(* MeCom it may be another one only if the requests of almost a whole turn *)
(* of the seven bits of the sequence number were given up without a break; *)
(* the turn is one shorter where the sixteen-bit counter wraps and leaves  *)
(* out zero.                                                               *)
LateAnswersAreRecognised ==
    \A c \in Callers :
       LET k == call[c]
           r == Head(inbox)
           o == Head(k.objs)
           ours == IF r.kind = "abort" THEN {<<o, "upload">>, <<o, "download">>}
                   ELSE {<<o, Direction(k.op)>>}
       IN  k.at = "wait" /\ inbox # <<>> /\ Takes(k, r) # "ignored" /\ r.id # k.id
              => IF proto = "binary" THEN streak >= SeqTurn - 1
                                     ELSE ours \cap soiled # {}
=============================================================================

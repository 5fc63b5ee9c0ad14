--------------------------- MODULE CanClientProofs --------------------------
(***************************************************************************)
(* The clients on the CAN bus: which frames may still come, and for which  *)
(* request a client may take them.                                         *)
(***************************************************************************)
EXTENDS SdoClient, TLAPS

-----------------------------------------------------------------------------
(* Sequences                                                               *)

Elems(s) == {s[i] : i \in 1 .. Len(s)}

LEMMA SeqFacts ==
    ASSUME NEW S, NEW s \in Seq(S)
    PROVE  /\ Len(s) \in Nat /\ Elems(s) \subseteq S
           /\ <<>> \in Seq(S) /\ Elems(<<>>) = {}
           /\ s # <<>> => Len(s) > 0
  BY DEF Elems

LEMMA AppendFacts ==
    ASSUME NEW S, NEW s \in Seq(S), NEW e \in S
    PROVE  /\ Append(s, e) \in Seq(S) /\ Len(Append(s, e)) = Len(s) + 1
           /\ \A i \in 1 .. Len(s) : Append(s, e)[i] = s[i]
           /\ Append(s, e)[Len(s) + 1] = e
  OBVIOUS

LEMMA ElemsAppend ==
    ASSUME NEW S, NEW s \in Seq(S), NEW e \in S
    PROVE  Elems(Append(s, e)) = Elems(s) \cup {e}
  BY AppendFacts DEF Elems

LEMMA TailFacts ==
    ASSUME NEW S, NEW s \in Seq(S), s # <<>>
    PROVE  /\ Tail(s) \in Seq(S) /\ Len(Tail(s)) = Len(s) - 1
           /\ \A i \in 1 .. Len(Tail(s)) : Tail(s)[i] = s[i + 1]
           /\ Head(s) = s[1] /\ Len(s) \in Nat \ {0}
  OBVIOUS

LEMMA ElemsTail ==
    ASSUME NEW S, NEW s \in Seq(S), s # <<>>
    PROVE  Elems(Tail(s)) \subseteq Elems(s) /\ Head(s) \in Elems(s)
  BY TailFacts DEF Elems

-----------------------------------------------------------------------------
(* The invariant of the two clients                                        *)

Directions == {"upload", "download"}
RequestFrames == [id : Nat, op : Directions, o : Objects, seq : Nat]
AnswerFrames == [id : Nat, kind : {"word", "short", "long", "ack", "abort", "value", "nack"},
                 o : Objects, seq : Nat]
Ops == {"", "read", "write", "raw", "bulk"}
CallStates == [at : {"idle", "next", "wait"}, op : Ops, objs : Seq(Objects),
               id : Nat, seq : Nat]

ClientTypeOK ==
    /\ proto \in {"sdo", "binary"}
    /\ call \in [Callers -> CallStates]
    /\ holder \in Callers \cup {Nobody}
    /\ seq \in 0 .. SeqMax /\ sent \in Nat /\ streak \in Nat
    /\ wire \in Seq(RequestFrames) /\ inbox \in Seq(AnswerFrames)

(* The mutex: whoever waits has it, and its request is the last one sent.  *)
OneExchange ==
    /\ holder # Nobody => sent > 0
    /\ \A c \in Callers :
          /\ call[c].at = "wait" <=> holder = c
          /\ holder = c => call[c].id = sent /\ call[c].seq = seq
          /\ call[c].at # "idle" => call[c].objs # <<>>

Ours(x) == holder # Nobody /\ x.id = sent
Asked == <<Head(call[holder].objs), Direction(call[holder].op)>>

(* Frames are in the order of their requests, the node's answers before    *)
(* the requests it has not served.                                         *)
Before(x, y) == x.id = 0 \/ y.id = 0 \/ x.id < y.id
Ascending(s) == \A i, j \in 1 .. Len(s) : i < j => Before(s[i], s[j])
FramesInOrder ==
    /\ Ascending(wire) /\ Ascending(inbox)
    /\ \A x \in Elems(inbox), y \in Elems(wire) : Before(x, y)
    /\ \A x \in Elems(inbox) \cup Elems(wire) :
          x.id <= sent /\ (proto = "binary" => x.id # 0)

(* A frame is of the request that waits, or of one that has soiled its     *)
(* object.                                                                 *)
Accounted(x, d) == IF Ours(x) THEN <<x.o, d>> = Asked ELSE <<x.o, d>> \in soiled
Fits(kind, d) ==
    /\ kind = "ack" => d = "download"
    /\ kind \in {"word", "short", "long"} => d = "upload"
FramesAccounted ==
    proto = "sdo" =>
       /\ \A q \in Elems(wire) : Accounted(q, q.op)
       /\ \A r \in Elems(inbox) : \E d \in Directions : Fits(r.kind, d) /\ Accounted(r, d)

(* Without a turn of unanswered requests, a frame's request is at most     *)
(* that many requests back, and its sequence number as many numbers; where *)
(* the counter wrapped in between, one number more, as it leaves out zero. *)
Lag(x) == sent - x.id
Since(s, lag) == s + lag = seq \/ (s + lag = seq + SeqMax /\ seq <= lag)
Recent(x) ==
    /\ Lag(x) < streak + (IF holder = Nobody THEN 0 ELSE 1)
    /\ \E s \in 0 .. SeqMax : x.seq = s % SeqTurn /\ Since(s, Lag(x))
FramesRecent ==
    proto = "binary" /\ streak < SeqTurn - 1
      => \A x \in Elems(inbox) \cup Elems(wire) : Recent(x)

ClientInv ==
    /\ ClientTypeOK
    /\ OneExchange
    /\ FramesInOrder
    /\ FramesAccounted
    /\ FramesRecent

-----------------------------------------------------------------------------
(* Frames in order                                                         *)

LEMMA AscendingAppend ==
    ASSUME NEW S, NEW s \in Seq(S), NEW e \in S, Ascending(s),
           \A x \in Elems(s) : Before(x, e)
    PROVE  Ascending(Append(s, e))
<1>. SUFFICES ASSUME NEW i \in 1 .. Len(s) + 1, NEW j \in 1 .. Len(s) + 1, i < j
              PROVE  Before(Append(s, e)[i], Append(s, e)[j])
  BY AppendFacts DEF Ascending
<1>1. i \in 1 .. Len(s) /\ Append(s, e)[i] = s[i]
  BY AppendFacts, SeqFacts
<1>2. CASE j = Len(s) + 1
  BY <1>1, <1>2, AppendFacts DEF Elems
<1>3. CASE j # Len(s) + 1
  <2>1. j \in 1 .. Len(s) /\ Append(s, e)[j] = s[j]
    BY <1>3, AppendFacts, SeqFacts
  <2>. QED BY <1>1, <2>1 DEF Ascending
<1>. QED BY <1>2, <1>3

LEMMA AscendingTail ==
    ASSUME NEW S, NEW s \in Seq(S), s # <<>>, Ascending(s)
    PROVE  Ascending(Tail(s)) /\ \A x \in Elems(Tail(s)) : Before(Head(s), x)
<1>1. ASSUME NEW i \in 1 .. Len(Tail(s)), NEW j \in 1 .. Len(Tail(s)), i < j
      PROVE  Before(Tail(s)[i], Tail(s)[j])
  <2>1. i + 1 \in 1 .. Len(s) /\ j + 1 \in 1 .. Len(s) /\ i + 1 < j + 1
    BY <1>1, TailFacts
  <2>2. Tail(s)[i] = s[i + 1] /\ Tail(s)[j] = s[j + 1]
    BY TailFacts
  <2>. QED BY <2>1, <2>2 DEF Ascending
<1>2. ASSUME NEW i \in 1 .. Len(Tail(s)) PROVE Before(Head(s), Tail(s)[i])
  <2>1. i + 1 \in 1 .. Len(s) /\ 1 \in 1 .. Len(s) /\ 1 < i + 1
    BY TailFacts
  <2>2. Tail(s)[i] = s[i + 1] /\ Head(s) = s[1]
    BY TailFacts
  <2>. QED BY <2>1, <2>2 DEF Ascending
<1>. QED BY <1>1, <1>2 DEF Ascending, Elems

-----------------------------------------------------------------------------
(* Sequence numbers                                                        *)

(* Numbers less than a turn apart differ in the bits that are sent.        *)
LEMMA LowBitsDiffer ==
    ASSUME NEW a \in Nat, NEW b \in Nat, NEW q \in Nat, NEW T \in Nat \ {0},
           NEW d \in Nat, a + d = b + T * q, 0 < d, d < T
    PROVE  a % T # b % T
<1>. SUFFICES ASSUME a % T = b % T PROVE FALSE
  OBVIOUS
<1>1. a \div T \in Int /\ a = T * (a \div T) + (a % T)
  OBVIOUS
<1>2. b \div T \in Int /\ b = T * (b \div T) + (b % T)
  OBVIOUS
<1>. DEFINE m == a \div T
            n == b \div T
<1>m. m \in Int /\ n \in Int /\ a = T * m + (a % T) /\ b = T * n + (b % T)
  BY <1>1, <1>2
<1>. HIDE DEF m, n
<1>3. d = T * (n + q - m)
  BY <1>m
<1>4. CASE n + q - m <= 0
  BY <1>m, <1>3, <1>4
<1>5. CASE n + q - m >= 1
  BY <1>m, <1>3, <1>5
<1>. QED BY <1>m, <1>4, <1>5

(* A turn of the bits that are sent goes into one of the counter.          *)
LEMMA WholeTurns ==
    /\ SeqTurn \in Nat \ {0, 1} /\ SeqMax \in Nat
    /\ SeqMax >= SeqTurn - 1
    /\ \E q \in Nat : SeqMax + 1 = SeqTurn * q
<1>0. SeqTurn \in Nat \ {0, 1} /\ SeqMax \in Nat /\ (SeqMax + 1) % SeqTurn = 0
  BY SeqAssumption
<1>1. PICK q \in Int : SeqMax + 1 = SeqTurn * q + ((SeqMax + 1) % SeqTurn)
  <2>1. /\ (SeqMax + 1) \div SeqTurn \in Int
        /\ SeqMax + 1 = SeqTurn * ((SeqMax + 1) \div SeqTurn) + ((SeqMax + 1) % SeqTurn)
    BY <1>0
  <2>. QED BY <2>1
<1>2. SeqMax + 1 = SeqTurn * q
  BY <1>0, <1>1
<1>3. q >= 1
  BY <1>0, <1>2
<1>4. SeqTurn * q >= SeqTurn
  BY <1>0, <1>3
<1>. QED BY <1>0, <1>2, <1>3, <1>4

-----------------------------------------------------------------------------
(* What the invariant says of the answer at the head of the socket         *)

LEMMA HeadIsOurs ==
    ASSUME ClientInv, proto = "binary", streak < SeqTurn - 1, NEW c \in Callers,
           call[c].at = "wait", inbox # <<>>, BinaryMatches(call[c], Head(inbox))
    PROVE  Head(inbox).id = sent
<1>. DEFINE r == Head(inbox)
            lag == sent - r.id
<1>a. ClientTypeOK /\ OneExchange /\ FramesInOrder /\ FramesRecent
  BY DEF ClientInv
<1>1. r \in Elems(inbox) /\ r \in AnswerFrames
  BY <1>a, ElemsTail, SeqFacts DEF ClientTypeOK
<1>2. holder # Nobody /\ call[c].seq = seq
  BY <1>a, ClientAssumption DEF OneExchange, Nobody
<1>3. r.id \in Nat /\ r.id <= sent /\ sent \in Nat /\ seq \in Nat /\ streak \in Nat
  BY <1>a, <1>1 DEF FramesInOrder, ClientTypeOK, AnswerFrames
<1>4. Recent(r)
  BY <1>a, <1>1 DEF FramesRecent
<1>5. lag \in Nat /\ lag < SeqTurn - 1
  BY <1>2, <1>3, <1>4, WholeTurns DEF Recent, Lag
<1>6. PICK s \in 0 .. SeqMax : r.seq = s % SeqTurn /\ Since(s, lag)
  BY <1>4 DEF Recent, Lag
<1>7. s % SeqTurn = seq % SeqTurn
  BY <1>2, <1>6 DEF BinaryMatches
<1>. SUFFICES ASSUME lag # 0 PROVE FALSE
  BY <1>3
<1>8. s \in Nat /\ SeqTurn \in Nat \ {0, 1} /\ SeqMax \in Nat
  BY WholeTurns
<1>. HIDE DEF lag
<1>9. CASE s + lag = seq
  <2>1. s + lag = seq + SeqTurn * 0 /\ 0 < lag /\ lag < SeqTurn
    BY <1>3, <1>5, <1>8, <1>9
  <2>. QED BY <1>3, <1>5, <1>7, <1>8, <2>1, LowBitsDiffer, Zenon
<1>10. CASE s + lag = seq + SeqMax
  <2>1. PICK q \in Nat : SeqMax + 1 = SeqTurn * q
    BY WholeTurns
  <2>2. s + (lag + 1) = seq + SeqTurn * q /\ 0 < lag + 1 /\ lag + 1 < SeqTurn /\ lag + 1 \in Nat
    BY <1>3, <1>5, <1>8, <1>10, <2>1
  <2>. QED BY <1>3, <1>5, <1>7, <1>8, <2>2, LowBitsDiffer, Zenon
<1>. QED BY <1>6, <1>9, <1>10 DEF Since

LEMMA Recognised == ClientInv => LateAnswersAreRecognised
<1>. SUFFICES ASSUME ClientInv, NEW c \in Callers, call[c].at = "wait", inbox # <<>>,
                     Takes(call[c], Head(inbox)) # "ignored", Head(inbox).id # call[c].id
              PROVE  IF proto = "binary" THEN streak >= SeqTurn - 1
                     ELSE (IF Head(inbox).kind = "abort"
                           THEN {<<Head(call[c].objs), "upload">>, <<Head(call[c].objs), "download">>}
                           ELSE {<<Head(call[c].objs), Direction(call[c].op)>>}) \cap soiled # {}
  BY Zenon DEF LateAnswersAreRecognised
<1>. DEFINE r == Head(inbox)
            o == Head(call[c].objs)
<1>a. ClientTypeOK /\ OneExchange /\ FramesAccounted
  BY DEF ClientInv
<1>1. holder # Nobody /\ holder = c /\ call[c].id = sent
  BY <1>a, ClientAssumption DEF OneExchange, Nobody
<1>2. CASE proto = "binary"
  <2>1. BinaryMatches(call[c], r)
    BY <1>2 DEF Takes, TakesBinary
  <2>2. ~(streak < SeqTurn - 1)
    BY <1>1, <1>2, <2>1, HeadIsOurs
  <2>. QED BY <1>a, <1>2, <2>2, WholeTurns DEF ClientTypeOK
<1>3. CASE proto = "sdo"
  <2>1. r \in Elems(inbox)
    BY <1>a, ElemsTail DEF ClientTypeOK
  <2>2. PICK d \in Directions : Fits(r.kind, d) /\ Accounted(r, d)
    BY <1>a, <1>3, <2>1 DEF FramesAccounted
  <2>3. <<r.o, d>> \in soiled
    BY <1>1, <2>2 DEF Accounted, Ours
  <2>4. r.o = o
    BY <1>3 DEF Takes, TakesDownload, TakesRaw, TakesNumeric
  <2>5. r.kind = "abort" \/ d = Direction(call[c].op)
    BY <1>3, <2>2 DEF Takes, TakesDownload, TakesRaw, TakesNumeric, IsUpload, Fits, Directions,
      Direction
  <2>. QED BY <1>3, <2>3, <2>4, <2>5 DEF Directions
<1>. QED BY <1>a, <1>2, <1>3 DEF ClientTypeOK

-----------------------------------------------------------------------------
(* The steps of the clients                                                *)

LEMMA IdleType == Idle \in CallStates /\ Idle.at = "idle"
<1>1. <<>> \in Seq(Objects)
  OBVIOUS
<1>. QED BY <1>1 DEF Idle, CallStates, Ops

LEMMA InitClientInv == SdoInit => ClientInv
<1>. SUFFICES ASSUME SdoInit PROVE ClientInv
  OBVIOUS
<1>1. Idle \in CallStates /\ Idle.at = "idle"
  BY IdleType
<1>2. Elems(wire) = {} /\ Elems(inbox) = {} /\ Len(wire) = 0 /\ Len(inbox) = 0
  BY DEF SdoInit, Elems
<1>3. ClientTypeOK
  BY <1>1, SeqAssumption DEF SdoInit, ClientTypeOK
<1>4. OneExchange
  BY <1>1, ClientAssumption DEF SdoInit, OneExchange, Nobody
<1>5. FramesInOrder
  BY <1>2 DEF FramesInOrder, Ascending
<1>6. FramesAccounted /\ FramesRecent
  BY <1>2 DEF FramesAccounted, FramesRecent
<1>. QED BY <1>3, <1>4, <1>5, <1>6 DEF ClientInv

LEMMA EndsType ==
    ASSUME NEW k \in CallStates, NEW outcome
    PROVE  /\ Ends(k, outcome) \in CallStates
           /\ Ends(k, outcome).at \in {"idle", "next"}
           /\ Ends(k, outcome).at = "next" => Ends(k, outcome).objs # <<>>
<1>1. Idle \in CallStates /\ Idle.at = "idle"
  BY IdleType
<1>2. ASSUME Len(k.objs) > 1 PROVE Tail(k.objs) \in Seq(Objects) /\ Tail(k.objs) # <<>>
  <2>1. k.objs \in Seq(Objects) /\ k.objs # <<>>
    BY <1>2 DEF CallStates
  <2>2. Tail(k.objs) \in Seq(Objects) /\ Len(Tail(k.objs)) = Len(k.objs) - 1
    BY <2>1
  <2>3. Len(Tail(k.objs)) > 0
    BY <1>2, <2>1, <2>2
  <2>4. Len(<<>>) = 0
    OBVIOUS
  <2>5. ~(0 > 0)
    OBVIOUS
  <2>. QED BY <2>2, <2>3, <2>4, <2>5, Zenon
<1>. QED BY <1>1, <1>2, Zenon DEF Ends, Idle, CallStates

LEMMA PendingType ==
    ASSUME ClientTypeOK, OneExchange, NEW c \in Callers, NEW k \in Pending(c)
    PROVE  k \in CallStates /\ k.objs # <<>> /\ Head(k.objs) \in Objects
<1>1. k \in CallStates /\ k.objs # <<>>
  <2>1. CASE call[c].at = "next"
    BY <2>1 DEF Pending, ClientTypeOK, OneExchange
  <2>2. CASE call[c].at # "next"
    <3>1. PICK j \in Calls : k = [Idle EXCEPT !.op = j.op, !.objs = j.objs]
      BY <2>2, Zenon DEF Pending
    <3>2. j.op \in Ops /\ j.objs \in Seq(Objects) /\ j.objs # <<>>
      BY ClientAssumption, Zenon DEF Ops
    <3>. QED BY <3>1, <3>2, Zenon DEF Idle, CallStates
  <2>. QED BY <2>1, <2>2
<1>. QED BY <1>1 DEF CallStates

(* An exchange ends; the frames of its request that may still come have    *)
(* soiled its object, and are counted.                                     *)
LEMMA ExchangeEnds ==
    ASSUME ClientInv, NEW c \in Callers, call[c].at = "wait", NEW e \in CallStates,
           e.at \in {"idle", "next"}, e.at = "next" => e.objs # <<>>,
           call' = [call EXCEPT ![c] = e], holder' = Nobody,
           UNCHANGED <<proto, seq, wire, sent>>,
           inbox' \in Seq(AnswerFrames), Elems(inbox') \subseteq Elems(inbox), Ascending(inbox'),
           soiled \subseteq soiled', streak' \in Nat,
           \A x \in Elems(inbox') \cup Elems(wire) : Ours(x) => Asked \in soiled',
           proto = "binary" /\ streak' < SeqTurn - 1
             => /\ streak < SeqTurn - 1
                /\ \A x \in Elems(inbox') \cup Elems(wire) : Lag(x) < streak'
    PROVE  ClientInv'
<1>a. ClientTypeOK /\ OneExchange /\ FramesInOrder /\ FramesAccounted /\ FramesRecent
  BY DEF ClientInv
<1>b. holder = c /\ c # Nobody
  BY <1>a, ClientAssumption DEF OneExchange, Nobody
<1>1. ClientTypeOK'
  BY <1>a DEF ClientTypeOK
<1>2. OneExchange'
  <2>1. ASSUME NEW d \in Callers
        PROVE  call'[d].at # "wait" /\ (call'[d].at # "idle" => call'[d].objs # <<>>)
    BY <1>a, <1>b, <2>1 DEF OneExchange, ClientTypeOK
  <2>. QED BY <2>1, ClientAssumption DEF OneExchange, Nobody
<1>3. FramesInOrder'
  BY <1>a DEF FramesInOrder
<1>4. FramesAccounted'
  <2>. SUFFICES ASSUME proto = "sdo" PROVE FramesAccounted'
    BY DEF FramesAccounted
  <2>1. \A d : \A x \in Elems(inbox') \cup Elems(wire) : Accounted(x, d) => Accounted(x, d)'
    BY DEF Accounted, Ours
  <2>2. ASSUME NEW q \in Elems(wire) PROVE Accounted(q, q.op)'
    BY <1>a, <2>1, <2>2 DEF FramesAccounted
  <2>3. ASSUME NEW r \in Elems(inbox')
        PROVE  \E d \in Directions : Fits(r.kind, d) /\ Accounted(r, d)'
    BY <1>a, <2>1, <2>3 DEF FramesAccounted
  <2>. QED BY <2>2, <2>3 DEF FramesAccounted
<1>5. FramesRecent'
  <2>. SUFFICES ASSUME proto = "binary", streak' < SeqTurn - 1,
                       NEW x \in Elems(inbox') \cup Elems(wire)
                PROVE  Recent(x)'
    BY DEF FramesRecent
  <2>1. Recent(x) /\ Lag(x) < streak'
    BY <1>a DEF FramesRecent
  <2>. QED BY <2>1 DEF Recent, Lag, Since
<1>. QED BY <1>1, <1>2, <1>3, <1>4, <1>5 DEF ClientInv

LEMMA GiveUpInv ==
    ASSUME ClientInv, NEW c \in Callers, GiveUp(c)
    PROVE  ClientInv'
<1>a. ClientTypeOK /\ OneExchange /\ FramesInOrder /\ FramesRecent
  BY DEF ClientInv
<1>b. call[c].at = "wait" /\ holder = c /\ c # Nobody
  BY <1>a, ClientAssumption DEF OneExchange, Nobody, GiveUp
<1>1. PICK outcome : call' = [call EXCEPT ![c] = Ends(call[c], outcome)]
  BY <1>a, Zenon DEF GiveUp, ClientTypeOK
<1>2. /\ Ends(call[c], outcome) \in CallStates
      /\ Ends(call[c], outcome).at \in {"idle", "next"}
      /\ Ends(call[c], outcome).at = "next" => Ends(call[c], outcome).objs # <<>>
  BY <1>a, EndsType DEF ClientTypeOK
<1>3. soiled' = soiled \cup {Asked}
  BY <1>b DEF GiveUp, Asked
<1>4. streak' = streak + 1 /\ streak \in Nat
  BY <1>a DEF GiveUp, Unanswered, ClientTypeOK
<1>5. proto = "binary" /\ streak' < SeqTurn - 1
        => /\ streak < SeqTurn - 1
           /\ \A x \in Elems(inbox) \cup Elems(wire) : Lag(x) < streak'
  <2>. SUFFICES ASSUME proto = "binary", streak' < SeqTurn - 1
                PROVE  /\ streak < SeqTurn - 1
                       /\ \A x \in Elems(inbox) \cup Elems(wire) : Lag(x) < streak'
    OBVIOUS
  <2>1. streak < SeqTurn - 1
    BY <1>4, WholeTurns
  <2>. QED BY <1>a, <1>b, <1>4, <2>1 DEF FramesRecent, Recent
<1>6. UNCHANGED <<proto, seq, wire, sent, inbox>> /\ holder' = Nobody
  BY DEF GiveUp
<1>7. inbox' \in Seq(AnswerFrames) /\ Elems(inbox') \subseteq Elems(inbox) /\ Ascending(inbox')
  BY <1>a, <1>6 DEF ClientTypeOK, FramesInOrder
<1>8. streak' \in Nat
  BY <1>4
<1>. QED BY <1>b, <1>1, <1>2, <1>3, <1>5, <1>6, <1>7, <1>8, ExchangeEnds, Zenon

(* Nothing of a request is left once its answer was taken.                 *)
LEMMA NoneLeft ==
    ASSUME ClientInv, holder # Nobody, inbox # <<>>, Head(inbox).id = sent,
           NEW x \in Elems(Tail(inbox)) \cup Elems(wire)
    PROVE  ~Ours(x) /\ proto # "binary"
<1>a. ClientTypeOK /\ OneExchange /\ FramesInOrder
  BY DEF ClientInv
<1>1. Head(inbox) \in Elems(inbox) /\ Elems(Tail(inbox)) \subseteq Elems(inbox)
  BY <1>a, ElemsTail DEF ClientTypeOK
<1>2. Before(Head(inbox), x)
  BY <1>a, <1>1, AscendingTail DEF FramesInOrder, ClientTypeOK
<1>3. x.id \in Nat /\ sent \in Nat
  <2>1. Elems(inbox) \subseteq AnswerFrames /\ Elems(wire) \subseteq RequestFrames
    BY <1>a, SeqFacts DEF ClientTypeOK
  <2>. QED BY <1>a, <1>1, <2>1 DEF ClientTypeOK, AnswerFrames, RequestFrames
<1>4. x.id <= sent /\ sent > 0 /\ (proto = "binary" => x.id # 0)
  BY <1>a, <1>1 DEF FramesInOrder, OneExchange
<1>. QED BY <1>2, <1>3, <1>4 DEF Before, Ours

LEMMA RecvInv ==
    ASSUME ClientInv, NEW c \in Callers, Recv(c)
    PROVE  ClientInv'
<1>. DEFINE r == Head(inbox)
            t == Takes(call[c], r)
<1>a. ClientTypeOK /\ OneExchange /\ FramesInOrder /\ FramesAccounted /\ FramesRecent
  BY DEF ClientInv
<1>b. call[c].at = "wait" /\ holder = c /\ c # Nobody /\ call[c].id = sent
  BY <1>a, ClientAssumption DEF OneExchange, Nobody, Recv
<1>1. /\ inbox # <<>> /\ inbox' = Tail(inbox)
      /\ inbox' \in Seq(AnswerFrames) /\ Elems(inbox') \subseteq Elems(inbox) /\ Ascending(inbox')
  BY <1>a, TailFacts, ElemsTail, AscendingTail DEF Recv, ClientTypeOK, FramesInOrder
<1>2. UNCHANGED <<proto, seq, wire, sent>>
  BY DEF Recv
<1>3. CASE t = "ignored"
  <2>1. UNCHANGED <<call, holder, streak, soiled>>
    BY <1>3 DEF Recv
  <2>2. ClientTypeOK'
    BY <1>a, <1>1, <1>2, <2>1 DEF ClientTypeOK
  <2>3. OneExchange'
    BY <1>a, <1>2, <2>1 DEF OneExchange
  <2>4. FramesInOrder'
    BY <1>a, <1>1, <1>2, <2>1 DEF FramesInOrder
  <2>5. FramesAccounted'
    BY <1>a, <1>1, <1>2, <2>1, Zenon DEF FramesAccounted, Accounted, Ours, Asked
  <2>6. FramesRecent'
    BY <1>a, <1>1, <1>2, <2>1 DEF FramesRecent, Recent, Lag, Since
  <2>. QED BY <2>2, <2>3, <2>4, <2>5, <2>6 DEF ClientInv
<1>4. CASE t # "ignored"
  <2>1. /\ call' = [call EXCEPT ![c] = Ends(call[c], t)]
        /\ holder' = Nobody /\ streak' = Answered
        /\ soiled' = IF r.id = sent THEN soiled ELSE soiled \cup {Asked}
    BY <1>a, <1>b, <1>4, Zenon DEF Recv, ClientTypeOK, Asked
  <2>2. /\ Ends(call[c], t) \in CallStates
        /\ Ends(call[c], t).at \in {"idle", "next"}
        /\ Ends(call[c], t).at = "next" => Ends(call[c], t).objs # <<>>
    BY <1>a, EndsType DEF ClientTypeOK
  <2>3. streak' \in Nat
    BY <1>a, <2>1 DEF Answered, ClientTypeOK
  <2>4. \A x \in Elems(inbox') \cup Elems(wire) : Ours(x) => Asked \in soiled'
    BY <1>b, <1>1, <2>1, NoneLeft
  <2>5. ASSUME proto = "binary", streak' < SeqTurn - 1
        PROVE  /\ streak < SeqTurn - 1
               /\ \A x \in Elems(inbox') \cup Elems(wire) : Lag(x) < streak'
    <3>1. streak < SeqTurn - 1
      BY <1>a, <2>1, <2>5, WholeTurns DEF Answered, ClientTypeOK
    <3>2. BinaryMatches(call[c], r)
      BY <1>4, <2>5 DEF Takes, TakesBinary
    <3>3. r.id = sent
      BY <1>b, <1>1, <2>5, <3>1, <3>2, HeadIsOurs
    <3>. QED BY <1>b, <1>1, <2>5, <3>1, <3>3, NoneLeft
  <2>6. soiled \subseteq soiled'
    BY <2>1
  <2>. QED BY <1>b, <1>1, <1>2, <2>1, <2>2, <2>3, <2>4, <2>5, <2>6, ExchangeEnds, Zenon
<1>. QED BY <1>3, <1>4

(* A request is refused before anything is sent.                           *)
LEMMA SendRefusedInv ==
    ASSUME ClientInv, NEW c \in Callers, SendRefused(c)
    PROVE  ClientInv'
<1>a. ClientTypeOK /\ OneExchange /\ FramesInOrder /\ FramesAccounted /\ FramesRecent
  BY DEF ClientInv
<1>0. PICK k \in Pending(c) : \E outcome : call' = [call EXCEPT ![c] = Ends(k, outcome)]
  BY DEF SendRefused
<1>o. PICK outcome : call' = [call EXCEPT ![c] = Ends(k, outcome)]
  BY <1>0, Zenon
<1>1. UNCHANGED <<proto, holder, seq, wire, inbox, sent, soiled, streak>>
  BY DEF SendRefused
<1>2. /\ Ends(k, outcome) \in CallStates
      /\ Ends(k, outcome).at \in {"idle", "next"}
      /\ Ends(k, outcome).at = "next" => Ends(k, outcome).objs # <<>>
  BY <1>a, EndsType, PendingType
<1>3. holder # c
  BY <1>a DEF SendRefused, OneExchange
<1>4. ClientTypeOK'
  BY <1>a, <1>o, <1>1, <1>2 DEF ClientTypeOK
<1>5. call'[c].at \in {"idle", "next"} /\ (call'[c].at = "next" => call'[c].objs # <<>>)
  BY <1>a, <1>o, <1>2 DEF ClientTypeOK
<1>6. \A d \in Callers \ {c} : call'[d] = call[d]
  BY <1>a, <1>o DEF ClientTypeOK
<1>7. OneExchange'
  BY <1>a, <1>1, <1>3, <1>5, <1>6 DEF OneExchange
<1>8. FramesInOrder' /\ FramesRecent'
  BY <1>a, <1>1 DEF FramesInOrder, FramesRecent, Recent, Lag, Since
<1>9. FramesAccounted'
  <2>1. holder # Nobody => Asked' = Asked
    BY <1>a, <1>1, <1>3, <1>6 DEF ClientTypeOK, Asked
  <2>2. \A x, d : Accounted(x, d)' = Accounted(x, d)
    BY <1>1, <2>1 DEF Accounted, Ours
  <2>. QED BY <1>a, <1>1, <2>2 DEF FramesAccounted
<1>. QED BY <1>4, <1>7, <1>8, <1>9 DEF ClientInv

(* The sequence number of a request, and how far the others fall behind.   *)
LEMMA SeqMovesOn ==
    ASSUME ClientInv, proto = "binary", seq' = NextSeq, sent' = sent + 1, holder = Nobody,
           streak < SeqTurn - 1, NEW x \in Elems(inbox) \cup Elems(wire)
    PROVE  \E s \in 0 .. SeqMax : x.seq = s % SeqTurn /\ Since(s, Lag(x))'
<1>a. ClientTypeOK /\ FramesInOrder /\ FramesRecent
  BY DEF ClientInv
<1>1. x.id \in Nat /\ x.id <= sent /\ sent \in Nat /\ seq \in 0 .. SeqMax /\ streak \in Nat
  <2>1. Elems(inbox) \subseteq AnswerFrames /\ Elems(wire) \subseteq RequestFrames
    BY <1>a, SeqFacts DEF ClientTypeOK
  <2>2. x.id \in Nat
    BY <2>1 DEF AnswerFrames, RequestFrames
  <2>. QED BY <1>a, <2>2 DEF ClientTypeOK, FramesInOrder
<1>2. Recent(x)
  BY <1>a DEF FramesRecent
<1>3. PICK s \in 0 .. SeqMax : x.seq = s % SeqTurn /\ Since(s, Lag(x))
  BY <1>2 DEF Recent
<1>4. Lag(x) \in Nat /\ Lag(x)' = Lag(x) + 1 /\ Lag(x) < SeqTurn - 1
  BY <1>1, <1>2, WholeTurns DEF Lag, Recent
<1>5. Since(s, Lag(x))'
  <2>. DEFINE lag == Lag(x)
  <2>1. lag \in Nat /\ lag < SeqTurn - 1 /\ Since(s, lag)
    BY <1>3, <1>4
  <2>. HIDE DEF lag
  <2>2. s + (lag + 1) = NextSeq \/ (s + (lag + 1) = NextSeq + SeqMax /\ NextSeq <= lag + 1)
    BY <1>1, <2>1, WholeTurns DEF Since, NextSeq
  <2>. QED BY <1>4, <2>2 DEF Since, lag
<1>. QED BY <1>3, <1>5

(* What the two ways of a Send have in common.                             *)
LEMMA SendCounts ==
    ASSUME ClientInv, NEW c \in Callers, Send(c)
    PROVE  /\ holder = Nobody /\ sent' = sent + 1 /\ sent \in Nat
           /\ seq' \in 0 .. SeqMax /\ (proto = "binary" => seq' = NextSeq)
           /\ UNCHANGED <<proto, inbox, soiled>>
<1>a. ClientTypeOK
  BY DEF ClientInv
<1>1. holder = Nobody /\ sent' = sent + 1 /\ sent \in Nat /\ UNCHANGED <<proto, inbox, soiled>>
  BY <1>a DEF Send, ClientTypeOK
<1>2. seq' = IF proto = "binary" THEN NextSeq ELSE seq
  BY DEF Send
<1>3. NextSeq \in 0 .. SeqMax
  BY <1>a, WholeTurns DEF NextSeq, ClientTypeOK
<1>. QED BY <1>a, <1>1, <1>2, <1>3 DEF ClientTypeOK

LEMMA SendFailsInv ==
    ASSUME ClientInv, NEW c \in Callers, Send(c), NEW k \in Pending(c),
           call' = [call EXCEPT ![c] = Ends(k, "error")],
           streak' = Unanswered, UNCHANGED <<holder, wire>>
    PROVE  ClientInv'
<1>a. ClientTypeOK /\ OneExchange /\ FramesInOrder /\ FramesAccounted /\ FramesRecent
  BY DEF ClientInv
<1>1. /\ holder = Nobody /\ sent' = sent + 1 /\ sent \in Nat
      /\ seq' \in 0 .. SeqMax /\ (proto = "binary" => seq' = NextSeq)
      /\ UNCHANGED <<proto, inbox, soiled>>
  BY SendCounts
<1>2. /\ Ends(k, "error") \in CallStates
      /\ Ends(k, "error").at \in {"idle", "next"}
      /\ Ends(k, "error").at = "next" => Ends(k, "error").objs # <<>>
  BY <1>a, EndsType, PendingType
<1>3. streak' = streak + 1 /\ streak \in Nat
  BY <1>a DEF Unanswered, ClientTypeOK
<1>4. ClientTypeOK'
  BY <1>a, <1>1, <1>2, <1>3 DEF ClientTypeOK
<1>5. call'[c].at \in {"idle", "next"} /\ (call'[c].at = "next" => call'[c].objs # <<>>)
  BY <1>a, <1>2 DEF ClientTypeOK
<1>6. \A d \in Callers \ {c} : call'[d] = call[d]
  BY <1>a DEF ClientTypeOK
<1>7. OneExchange'
  BY <1>a, <1>1, <1>5, <1>6, ClientAssumption DEF OneExchange, Nobody
<1>8. FramesInOrder'
  <2>1. \A x \in Elems(inbox) \cup Elems(wire) : x.id <= sent + 1
    <3>1. Elems(inbox) \subseteq AnswerFrames /\ Elems(wire) \subseteq RequestFrames
      BY <1>a, SeqFacts DEF ClientTypeOK
    <3>2. \A x \in Elems(inbox) \cup Elems(wire) : x.id \in Nat
      BY <3>1 DEF AnswerFrames, RequestFrames
    <3>. QED BY <1>a, <1>1, <3>2 DEF FramesInOrder
  <2>. QED BY <1>a, <1>1, <2>1 DEF FramesInOrder
<1>9. FramesAccounted'
  <2>1. \A x, d : Accounted(x, d) => Accounted(x, d)'
    BY <1>1 DEF Accounted, Ours
  <2>. QED BY <1>a, <1>1, <2>1 DEF FramesAccounted
<1>10. FramesRecent'
  <2>. SUFFICES ASSUME proto = "binary", streak' < SeqTurn - 1,
                       NEW x \in Elems(inbox) \cup Elems(wire)
                PROVE  Recent(x)'
    BY <1>1 DEF FramesRecent
  <2>1. streak < SeqTurn - 1
    BY <1>3, WholeTurns
  <2>2. Recent(x) /\ \E s \in 0 .. SeqMax : x.seq = s % SeqTurn /\ Since(s, Lag(x))'
    BY <1>a, <1>1, <2>1, SeqMovesOn DEF FramesRecent
  <2>3. Lag(x)' < streak'
    <3>1. Elems(inbox) \subseteq AnswerFrames /\ Elems(wire) \subseteq RequestFrames
      BY <1>a, SeqFacts DEF ClientTypeOK
    <3>2. x.id \in Nat
      BY <3>1 DEF AnswerFrames, RequestFrames
    <3>. QED BY <1>1, <1>3, <2>2, <3>2 DEF Recent, Lag
  <2>4. streak' + (IF holder' = Nobody THEN 0 ELSE 1) = streak'
    BY <1>1, <1>3
  <2>. QED BY <2>2, <2>3, <2>4 DEF Recent
<1>. QED BY <1>4, <1>7, <1>8, <1>9, <1>10 DEF ClientInv

LEMMA SendGoesOutInv ==
    ASSUME ClientInv, NEW c \in Callers, Send(c), NEW k \in Pending(c),
           holder' = c, streak' = streak,
           call' = [call EXCEPT ![c] = [k EXCEPT !.at = "wait", !.id = sent', !.seq = seq']],
           wire' = Append(wire, [id |-> sent', op |-> Direction(k.op), o |-> Head(k.objs),
                                 seq |-> seq' % SeqTurn])
    PROVE  ClientInv'
<1>q. PICK q : q = [id |-> sent', op |-> Direction(k.op), o |-> Head(k.objs),
                    seq |-> seq' % SeqTurn]
  OBVIOUS
<1>n. PICK n : n = seq'
  OBVIOUS
<1>. DEFINE e == [k EXCEPT !.at = "wait", !.id = sent', !.seq = seq']
<1>a. ClientTypeOK /\ OneExchange /\ FramesInOrder /\ FramesAccounted /\ FramesRecent
  BY DEF ClientInv
<1>b. c # Nobody
  BY ClientAssumption DEF Nobody
<1>1. /\ holder = Nobody /\ sent' = sent + 1 /\ sent \in Nat
      /\ seq' \in 0 .. SeqMax /\ (proto = "binary" => seq' = NextSeq)
      /\ UNCHANGED <<proto, inbox, soiled>>
  BY SendCounts
<1>2. k \in CallStates /\ k.objs # <<>> /\ Head(k.objs) \in Objects
  BY <1>a, PendingType
<1>3. seq' \in Nat /\ sent' \in Nat /\ seq' % SeqTurn \in Nat
  BY <1>1, WholeTurns
<1>4. /\ e \in CallStates /\ e.at = "wait" /\ e.id = sent' /\ e.seq = seq'
      /\ e.objs = k.objs /\ e.op = k.op
  BY <1>2, <1>3, Zenon DEF CallStates
<1>5. q \in RequestFrames /\ q.id = sent + 1 /\ q.o = Head(k.objs) /\ q.op = Direction(k.op)
  BY <1>q, <1>1, <1>2, <1>3 DEF RequestFrames, Direction, Directions
<1>6. q.seq = n % SeqTurn
  BY <1>q, <1>n
<1>. HIDE DEF e
<1>7. call' = [call EXCEPT ![c] = e] /\ wire' = Append(wire, q)
  BY <1>q DEF e
<1>8. /\ wire' \in Seq(RequestFrames) /\ Elems(wire') = Elems(wire) \cup {q}
  BY <1>a, <1>5, <1>7, AppendFacts, ElemsAppend DEF ClientTypeOK
<1>9. ClientTypeOK'
  BY <1>a, <1>1, <1>3, <1>4, <1>7, <1>8 DEF ClientTypeOK
<1>10. call'[c] = e /\ \A d \in Callers \ {c} : call'[d] = call[d]
  BY <1>a, <1>7 DEF ClientTypeOK
<1>11. OneExchange'
  <2>1. ASSUME NEW d \in Callers
        PROVE  /\ call'[d].at = "wait" <=> c = d
               /\ c = d => call'[d].id = sent' /\ call'[d].seq = seq'
               /\ call'[d].at # "idle" => call'[d].objs # <<>>
    <3>1. CASE d = c
      BY <1>2, <1>4, <1>10, <3>1
    <3>2. CASE d # c
      BY <1>a, <1>1, <1>10, <3>2, ClientAssumption DEF OneExchange, Nobody
    <3>. QED BY <3>1, <3>2
  <2>2. sent' > 0
    BY <1>1
  <2>. QED BY <2>1, <2>2 DEF OneExchange
<1>12. \A x \in Elems(inbox) \cup Elems(wire) : x.id \in Nat /\ x.id <= sent
  <2>1. Elems(inbox) \subseteq AnswerFrames /\ Elems(wire) \subseteq RequestFrames
    BY <1>a, SeqFacts DEF ClientTypeOK
  <2>2. \A x \in Elems(inbox) \cup Elems(wire) : x.id \in Nat
    BY <2>1 DEF AnswerFrames, RequestFrames
  <2>. QED BY <1>a, <2>2 DEF FramesInOrder
<1>13. \A x \in Elems(inbox) \cup Elems(wire) : Before(x, q)
  BY <1>1, <1>5, <1>12 DEF Before
<1>14. FramesInOrder'
  <2>1. Ascending(wire')
    BY <1>a, <1>5, <1>7, <1>13, AscendingAppend DEF FramesInOrder, ClientTypeOK
  <2>2. \A x \in Elems(inbox), y \in Elems(wire') : Before(x, y)
    BY <1>a, <1>8, <1>13 DEF FramesInOrder
  <2>3. \A x \in Elems(inbox) \cup Elems(wire') :
           x.id <= sent' /\ (proto = "binary" => x.id # 0)
    BY <1>a, <1>1, <1>5, <1>8, <1>12 DEF FramesInOrder
  <2>. QED BY <1>a, <1>1, <2>1, <2>2, <2>3 DEF FramesInOrder
<1>15. FramesAccounted'
  <2>. SUFFICES ASSUME proto = "sdo" PROVE FramesAccounted'
    BY <1>1 DEF FramesAccounted
  <2>1. \A d : \A x \in Elems(inbox) \cup Elems(wire) : Accounted(x, d) => Accounted(x, d)'
    BY <1>1, <1>12 DEF Accounted, Ours
  <2>2. Accounted(q, q.op)'
    BY <1>b, <1>1, <1>4, <1>5, <1>10 DEF Accounted, Ours, Asked
  <2>. QED BY <1>a, <1>1, <1>8, <2>1, <2>2 DEF FramesAccounted
<1>16. FramesRecent'
  <2>. SUFFICES ASSUME proto = "binary", streak < SeqTurn - 1,
                       NEW x \in Elems(inbox) \cup Elems(wire')
                PROVE  Recent(x)'
    BY <1>1 DEF FramesRecent
  <2>0. streak' + (IF holder' = Nobody THEN 0 ELSE 1) = streak + 1 /\ streak \in Nat
    BY <1>a, <1>b DEF ClientTypeOK
  <2>1. CASE x = q
    <3>1. Lag(x)' = 0
      BY <1>1, <1>5, <2>1 DEF Lag
    <3>2. Since(n, Lag(x))'
      BY <1>n, <1>1, <3>1 DEF Since
    <3>. QED BY <1>n, <1>1, <1>6, <2>0, <2>1, <3>1, <3>2 DEF Recent
  <2>2. CASE x \in Elems(inbox) \cup Elems(wire)
    <3>1. Recent(x) /\ \E s \in 0 .. SeqMax : x.seq = s % SeqTurn /\ Since(s, Lag(x))'
      BY <1>a, <1>1, <2>2, SeqMovesOn DEF FramesRecent
    <3>2. Lag(x)' < streak + 1
      BY <1>1, <1>12, <2>0, <2>2, <3>1 DEF Recent, Lag
    <3>. QED BY <2>0, <3>1, <3>2 DEF Recent
  <2>. QED BY <1>8, <2>1, <2>2
<1>. QED BY <1>9, <1>11, <1>14, <1>15, <1>16 DEF ClientInv

LEMMA AnswerType ==
    ASSUME ClientTypeOK, NEW q \in RequestFrames
    PROVE  /\ Answer(q) \in AnswerFrames
           /\ Answer(q).id = q.id /\ Answer(q).o = q.o /\ Answer(q).seq = q.seq
           /\ proto = "sdo" => Fits(Answer(q).kind, q.op)
<1>1. /\ q.id \in Nat /\ q.o \in Objects /\ q.seq \in Nat /\ q.op \in {"upload", "download"}
      /\ NodeHas[q.o] \in {"word", "short", "long", "absent"}
  BY ClientAssumption DEF RequestFrames, Directions
<1>. QED BY <1>1 DEF Answer, AnswerFrames, Fits

LEMMA NodeServesInv ==
    ASSUME ClientInv, NodeServes
    PROVE  ClientInv'
<1>. DEFINE q == Head(wire)
<1>a. ClientTypeOK /\ OneExchange /\ FramesInOrder /\ FramesAccounted /\ FramesRecent
  BY DEF ClientInv
<1>1. /\ wire # <<>> /\ wire' = Tail(wire)
      /\ UNCHANGED <<proto, call, holder, seq, sent, soiled, streak>>
  BY DEF NodeServes
<1>2. /\ wire' \in Seq(RequestFrames) /\ Elems(wire') \subseteq Elems(wire) /\ Ascending(wire')
      /\ q \in Elems(wire) /\ q \in RequestFrames
      /\ \A y \in Elems(wire') : Before(q, y)
  BY <1>a, <1>1, TailFacts, ElemsTail, AscendingTail, SeqFacts DEF ClientTypeOK, FramesInOrder
<1>3. PICK r : r = Answer(q)
  OBVIOUS
<1>4. /\ r \in AnswerFrames /\ r.id = q.id /\ r.o = q.o /\ r.seq = q.seq
      /\ proto = "sdo" => Fits(r.kind, q.op)
  BY <1>a, <1>2, <1>3, AnswerType
<1>5. inbox' = inbox \/ inbox' = Append(inbox, r)
  BY <1>3 DEF NodeServes
<1>6. /\ inbox' \in Seq(AnswerFrames) /\ Elems(inbox') \subseteq Elems(inbox) \cup {r}
      /\ Ascending(inbox')
  <2>1. \A x \in Elems(inbox) : Before(x, r)
    BY <1>a, <1>2, <1>4 DEF FramesInOrder, Before
  <2>2. inbox \in Seq(AnswerFrames) /\ Ascending(inbox)
    BY <1>a DEF ClientTypeOK, FramesInOrder
  <2>3. Append(inbox, r) \in Seq(AnswerFrames) /\ Elems(Append(inbox, r)) = Elems(inbox) \cup {r}
    BY <1>4, <2>2, AppendFacts, ElemsAppend
  <2>4. Ascending(Append(inbox, r))
    BY <1>4, <2>1, <2>2, AscendingAppend
  <2>. QED BY <1>5, <2>2, <2>3, <2>4, Zenon
<1>7. ClientTypeOK'
  BY <1>a, <1>1, <1>2, <1>6 DEF ClientTypeOK
<1>8. OneExchange'
  BY <1>a, <1>1 DEF OneExchange
<1>9. FramesInOrder'
  <2>1. \A x \in Elems(inbox'), y \in Elems(wire') : Before(x, y)
    BY <1>a, <1>2, <1>4, <1>6 DEF FramesInOrder, Before
  <2>2. \A x \in Elems(inbox') \cup Elems(wire') :
           x.id <= sent /\ (proto = "binary" => x.id # 0)
    BY <1>a, <1>2, <1>4, <1>6 DEF FramesInOrder
  <2>. QED BY <1>1, <1>2, <1>6, <2>1, <2>2 DEF FramesInOrder
<1>10. FramesAccounted'
  <2>. SUFFICES ASSUME proto = "sdo" PROVE FramesAccounted'
    BY <1>1 DEF FramesAccounted
  <2>1. \A x, d : Accounted(x, d)' = Accounted(x, d)
    BY <1>1 DEF Accounted, Ours, Asked
  <2>2. q.op \in Directions /\ Fits(r.kind, q.op) /\ Accounted(r, q.op)
    BY <1>a, <1>2, <1>4 DEF RequestFrames, FramesAccounted, Accounted, Ours
  <2>. QED BY <1>a, <1>1, <1>2, <1>6, <2>1, <2>2 DEF FramesAccounted
<1>11. FramesRecent'
  <2>1. \A x : Recent(x)' = Recent(x)
    BY <1>1 DEF Recent, Lag, Since
  <2>2. Recent(q) => Recent(r)
    BY <1>4 DEF Recent, Lag
  <2>. QED BY <1>a, <1>1, <1>2, <1>6, <2>1, <2>2 DEF FramesRecent
<1>. QED BY <1>7, <1>8, <1>9, <1>10, <1>11 DEF ClientInv

LEMMA ForeignRequestInv ==
    ASSUME ClientInv, ForeignRequest
    PROVE  ClientInv'
<1>a. ClientTypeOK /\ OneExchange /\ FramesInOrder /\ FramesAccounted
  BY DEF ClientInv
<1>1. PICK o \in Objects, d \in Directions :
         /\ wire' = Append(wire, [id |-> 0, op |-> d, o |-> o, seq |-> 0])
         /\ soiled' = soiled \cup {<<o, d>>}
  BY DEF ForeignRequest, Directions
<1>2. proto = "sdo" /\ UNCHANGED <<proto, call, holder, seq, inbox, sent, streak>>
  BY DEF ForeignRequest
<1>3. PICK q : q = [id |-> 0, op |-> d, o |-> o, seq |-> 0]
  BY Zenon
<1>4. q \in RequestFrames /\ q.id = 0 /\ q.o = o /\ q.op = d
  BY <1>3 DEF RequestFrames
<1>5. wire' \in Seq(RequestFrames) /\ Elems(wire') = Elems(wire) \cup {q}
  BY <1>a, <1>1, <1>3, <1>4, AppendFacts, ElemsAppend DEF ClientTypeOK
<1>6. ClientTypeOK'
  BY <1>a, <1>2, <1>5 DEF ClientTypeOK
<1>7. OneExchange'
  BY <1>a, <1>2 DEF OneExchange
<1>8. \A x : Before(x, q)
  BY <1>4 DEF Before
<1>9. FramesInOrder'
  <2>1. Ascending(wire')
    BY <1>a, <1>1, <1>3, <1>4, <1>8, AscendingAppend DEF FramesInOrder, ClientTypeOK
  <2>2. q.id <= sent
    BY <1>a, <1>4 DEF ClientTypeOK
  <2>3. proto # "binary"
    BY <1>2
  <2>. QED BY <1>a, <1>2, <1>5, <1>8, <2>1, <2>2, <2>3 DEF FramesInOrder
<1>10. FramesAccounted'
  <2>1. \A x, e : Accounted(x, e) => Accounted(x, e)'
    BY <1>1, <1>2 DEF Accounted, Ours, Asked
  <2>2. Accounted(q, d)'
    <3>1. ~Ours(q)'
      BY <1>a, <1>2, <1>4 DEF Ours, OneExchange, ClientTypeOK
    <3>. QED BY <1>1, <1>4, <3>1 DEF Accounted
  <2>. QED BY <1>a, <1>2, <1>4, <1>5, <2>1, <2>2 DEF FramesAccounted
<1>11. FramesRecent'
  BY <1>2 DEF FramesRecent
<1>. QED BY <1>6, <1>7, <1>9, <1>10, <1>11 DEF ClientInv

(* The clients' inductive invariant: one exchange at a time, whose request *)
(* is the last one sent; frames in the order of their requests; every      *)
(* other frame on an object that is soiled (CANopenClient) or, as long as  *)
(* no turn of requests went unanswered, fewer than a turn back             *)
(* (CANClient, nextSeq).                                                   *)
THEOREM ClientInvariant == SdoSpec => []ClientInv
<1>1. ClientInv /\ [SdoNext]_sdoVars => ClientInv'
  <2>. SUFFICES ASSUME ClientInv, [SdoNext]_sdoVars PROVE ClientInv'
    OBVIOUS
  <2>1. ASSUME NEW c \in Callers, Send(c) PROVE ClientInv'
    <3>1. PICK k \in Pending(c) :
             \/ /\ holder' = c /\ streak' = streak
                /\ call' = [call EXCEPT ![c] = [k EXCEPT !.at = "wait", !.id = sent', !.seq = seq']]
                /\ wire' = Append(wire, [id |-> sent', op |-> Direction(k.op), o |-> Head(k.objs),
                                         seq |-> seq' % SeqTurn])
             \/ /\ call' = [call EXCEPT ![c] = Ends(k, "error")]
                /\ streak' = Unanswered /\ UNCHANGED <<holder, wire>>
      BY <2>1, Zenon DEF Send
    <3>. QED BY <2>1, <3>1, SendGoesOutInv, SendFailsInv, Zenon
  <2>2. ASSUME NEW c \in Callers, SendRefused(c) PROVE ClientInv'
    BY <2>2, SendRefusedInv
  <2>3. ASSUME NEW c \in Callers, Recv(c) PROVE ClientInv'
    BY <2>3, RecvInv
  <2>4. ASSUME NEW c \in Callers, GiveUp(c) PROVE ClientInv'
    BY <2>4, GiveUpInv
  <2>5. CASE NodeServes
    BY <2>5, NodeServesInv
  <2>6. CASE ForeignRequest
    BY <2>6, ForeignRequestInv, Zenon
  <2>7. CASE UNCHANGED sdoVars
    BY <2>7 DEF sdoVars, ClientInv, ClientTypeOK, OneExchange, FramesInOrder, FramesAccounted,
      FramesRecent, Accounted, Ours, Asked, Recent, Lag, Since
  <2>. QED BY <2>1, <2>2, <2>3, <2>4, <2>5, <2>6, <2>7 DEF SdoNext
<1>. QED BY InitClientInv, <1>1, PTL DEF SdoSpec

(* A client takes another request's answer for its own only on an object   *)
(* whose direction is soiled, or after almost a turn of the sequence       *)
(* numbers without an answer (readNumeric, writeSDO, ReadSDORaw), for any  *)
(* callers, calls, objects and widths of the sequence number.              *)
THEOREM ClientsRecogniseLateAnswers == SdoSpec => []LateAnswersAreRecognised
<1>. QED BY ClientInvariant, Recognised, PTL
=============================================================================

----------------------------- MODULE PowerProofs -----------------------------
(***************************************************************************)
(* What the gateway does with a channel of a supply: the pairs of voltage  *)
(* and current that it makes of the samples of the rings (RingReceiver),   *)
(* and the loop that controls the power (PowerControl).                    *)
(***************************************************************************)
EXTENDS RingReceiver, PowerControl, TLAPS

-----------------------------------------------------------------------------
(* The samples of the rings, RingReceiver                                  *)

Rings == 1 .. MaxRings
Sample == [of : {"volt", "amp"}, at : Nat \ {0}]
PowerPairs == [v : Nat \ {0}, i : Nat \ {0}]

ReceiverTypeOK ==
    /\ ring \in 0 .. MaxRings /\ rings \in 0 .. MaxRings /\ takenAt \in Nat
    /\ feed \in [Rings -> Seq(Sample)]
    /\ hands \in [Rings -> Sample \cup {Selecting, Returned}]
    /\ volt \in [of : {"volt"}, at : Nat \ {0}] \cup {Unpaired}
    /\ amp \in [of : {"amp"}, at : Nat \ {0}] \cup {Unpaired}
    /\ power \in Seq(PowerPairs)

Held(g) == hands[g] \in Sample
InPower(s) == \E k \in 1 .. Len(power) :
                 s.at = IF s.of = "volt" THEN power[k].v ELSE power[k].i
Used(s) == s = volt \/ s = amp \/ InPower(s)

(* No sample is of the future.                                             *)
NoneLater ==
    /\ \A g \in Rings : Held(g) => hands[g].at <= takenAt
    /\ \A g \in Rings : \A k \in 1 .. Len(feed[g]) : feed[g][k].at <= takenAt
    /\ volt.at <= takenAt /\ amp.at <= takenAt
    /\ \A k \in 1 .. Len(power) : power[k].v <= takenAt /\ power[k].i <= takenAt

(* A sample is in one channel, in one hand or used, and there once.        *)
OneChannel ==
    \A g, h \in Rings : \A j \in 1 .. Len(feed[g]), k \in 1 .. Len(feed[h]) :
       feed[g][j] = feed[h][k] => g = h /\ j = k
OneHand ==
    /\ \A g, h \in Rings : Held(g) /\ hands[g] = hands[h] => g = h
    /\ \A g, h \in Rings : \A k \in 1 .. Len(feed[h]) : hands[g] # feed[h][k]
NotUsed ==
    /\ \A g \in Rings : Held(g) => ~Used(hands[g])
    /\ \A g \in Rings : \A k \in 1 .. Len(feed[g]) : ~Used(feed[g][k])
UsedOnce ==
    /\ volt # Unpaired => ~InPower(volt)
    /\ amp # Unpaired => ~InPower(amp)
    /\ \A k, l \in 1 .. Len(power) :
          power[k].v = power[l].v \/ power[k].i = power[l].i => k = l
PairsClose == \A k \in 1 .. Len(power) :
                 power[k].v - power[k].i < Window /\ power[k].i - power[k].v < Window

ReceiverInv ==
    ReceiverTypeOK /\ NoneLater /\ OneChannel /\ OneHand /\ NotUsed /\ UsedOnce /\ PairsClose

LEMMA InitReceiver == ReceiverInit => ReceiverInv
<1>. SUFFICES ASSUME ReceiverInit PROVE ReceiverInv
  OBVIOUS
<1>1. ReceiverTypeOK
  BY ReceiverConstants DEF ReceiverInit, ReceiverTypeOK, Rings
<1>2. Len(power) = 0 /\ \A g \in Rings : Len(feed[g]) = 0 /\ ~Held(g)
  BY DEF ReceiverInit, Rings, Held, Sample, Returned
<1>3. volt.at = 0 /\ amp.at = 0
  BY DEF ReceiverInit, Unpaired
<1>4. NoneLater /\ OneChannel /\ NotUsed /\ UsedOnce /\ PairsClose
  <2>1. NoneLater
    <3>. takenAt = 0 /\ 0 <= 0
      BY DEF ReceiverInit
    <3>. QED BY <1>2, <1>3 DEF NoneLater
  <2>2. OneChannel /\ NotUsed
    BY <1>2 DEF OneChannel, NotUsed
  <2>3. UsedOnce /\ PairsClose
    BY <1>2 DEF ReceiverInit, UsedOnce, PairsClose
  <2>. QED BY <2>1, <2>2, <2>3
<1>5. OneHand
  BY <1>2 DEF OneHand
<1>. QED BY <1>1, <1>4, <1>5 DEF ReceiverInv

LEMMA BindRingInv == ReceiverInv /\ BindRing => ReceiverInv'
<1>. SUFFICES ASSUME ReceiverInv, BindRing PROVE ReceiverInv'
  OBVIOUS
<1>. USE DEF ReceiverInv
<1>1. PICK n \in Rings : n = rings'
  BY ReceiverConstants DEF BindRing, ReceiverTypeOK, Rings
<1>2. /\ hands' = [hands EXCEPT ![n] = Selecting] /\ ring' = n
      /\ UNCHANGED <<feed, volt, amp, power, takenAt>>
  BY <1>1 DEF BindRing
<1>3. ReceiverTypeOK'
  BY <1>1, <1>2 DEF ReceiverTypeOK, Rings
<1>4. \A g \in Rings : hands'[g] = (IF g = n THEN Selecting ELSE hands[g])
  BY <1>2 DEF ReceiverTypeOK
<1>5. \A g \in Rings : (Held(g)' => Held(g) /\ hands'[g] = hands[g])
  BY <1>4 DEF Held, Selecting, Sample
<1>6. NoneLater' /\ OneChannel' /\ NotUsed' /\ UsedOnce' /\ PairsClose'
  BY <1>2, <1>5 DEF NoneLater, OneChannel, NotUsed, UsedOnce, PairsClose, Used, InPower
<1>7. \A g \in Rings : \A k \in 1 .. Len(feed[g]) : feed[g][k] \in Sample
  BY DEF ReceiverTypeOK
<1>8. OneHand'
  BY <1>2, <1>4, <1>5, <1>7 DEF OneHand, Selecting, Sample, Held
<1>. QED BY <1>3, <1>6, <1>8

LEMMA ResetRingInv == ReceiverInv /\ ResetRing => ReceiverInv'
<1>. SUFFICES ASSUME ReceiverInv, ResetRing PROVE ReceiverInv'
  OBVIOUS
<1>. USE DEF ReceiverInv
<1>1. /\ volt' = Unpaired /\ amp' = Unpaired /\ power' = <<>> /\ ring' = 0
      /\ UNCHANGED <<rings, feed, hands, takenAt>>
  BY DEF ResetRing
<1>2. ReceiverTypeOK'
  BY <1>1, ReceiverConstants DEF ReceiverTypeOK
<1>3. NoneLater' /\ OneChannel' /\ OneHand' /\ UsedOnce' /\ PairsClose'
  BY <1>1 DEF NoneLater, OneChannel, OneHand, UsedOnce, PairsClose, Unpaired, ReceiverTypeOK, Held
<1>4. \A s \in Sample : ~Used(s)'
  BY <1>1 DEF Used, InPower, Unpaired, Sample
<1>5. NotUsed'
  BY <1>1, <1>4 DEF NotUsed, Held, ReceiverTypeOK
<1>. QED BY <1>2, <1>3, <1>5

LEMMA RingSendsInv ==
    ASSUME ReceiverInv, NEW of \in {"volt", "amp"}, NEW gap \in {1, Window}, RingSends(of, gap)
    PROVE  ReceiverInv'
<1>. USE DEF ReceiverInv
<1>1. PICK n \in Nat \ {0} : n = takenAt' /\ n > takenAt
  BY ReceiverConstants DEF RingSends, ReceiverTypeOK
<1>2. PICK r \in Rings : r = ring
  BY DEF RingSends, ReceiverTypeOK, Rings
<1>3. PICK s \in Sample : s = [of |-> of, at |-> n]
  BY Zenon DEF Sample
<1>4. /\ feed' = [feed EXCEPT ![r] = Append(@, s)]
      /\ UNCHANGED <<ring, rings, hands, volt, amp, power>>
  BY <1>1, <1>2, <1>3 DEF RingSends
<1>5. PICK m \in Nat : m = Len(feed[r])
  BY DEF ReceiverTypeOK
<1>6. /\ feed' \in [Rings -> Seq(Sample)] /\ Len(feed'[r]) = m + 1 /\ feed'[r][m + 1] = s
      /\ \A k \in 1 .. m : feed'[r][k] = feed[r][k]
      /\ \A g \in Rings \ {r} : feed'[g] = feed[g]
  BY <1>4, <1>5 DEF ReceiverTypeOK
<1>7. ReceiverTypeOK'
  BY <1>1, <1>4, <1>6 DEF ReceiverTypeOK
<1>8. ~(s.at <= takenAt)
  BY <1>1, <1>3 DEF ReceiverTypeOK
<1>a. \A g \in Rings : \A k \in 1 .. Len(feed'[g]) :
         \/ k \in 1 .. Len(feed[g]) /\ feed'[g][k] = feed[g][k]
         \/ g = r /\ k = m + 1 /\ feed'[g][k] = s
  BY <1>5, <1>6
<1>b. ~Used(s)
  BY <1>8 DEF Used, InPower, NoneLater
<1>c. \A g \in Rings : hands[g] # s
  BY <1>8 DEF NoneLater, Held
<1>d. \A g \in Rings : \A k \in 1 .. Len(feed[g]) : feed[g][k] # s
  BY <1>8 DEF NoneLater
<1>e. NoneLater'
  <2>1. \A x \in Nat : x <= takenAt => x <= n
    BY <1>1 DEF ReceiverTypeOK
  <2>2. n <= n
    OBVIOUS
  <2>3. \A g \in Rings : Held(g)' => hands'[g].at <= n
    BY <1>4, <2>1 DEF NoneLater, Held, Sample
  <2>4. \A g \in Rings : \A k \in 1 .. Len(feed[g]) : feed[g][k].at \in Nat
    <3>. \A g \in Rings : \A k \in 1 .. Len(feed[g]) : feed[g][k] \in Sample
      BY DEF ReceiverTypeOK
    <3>. QED BY DEF Sample
  <2>5. \A g \in Rings : \A k \in 1 .. Len(feed'[g]) : feed'[g][k].at <= n
    BY <1>3, <1>a, <2>1, <2>2, <2>4 DEF NoneLater
  <2>6. volt.at \in Nat /\ amp.at \in Nat
    BY DEF ReceiverTypeOK, Unpaired
  <2>7. \A k \in 1 .. Len(power) : power[k].v \in Nat /\ power[k].i \in Nat
    <3>. \A k \in 1 .. Len(power) : power[k] \in PowerPairs
      BY DEF ReceiverTypeOK
    <3>. QED BY DEF PowerPairs
  <2>8. volt'.at <= n /\ amp'.at <= n
    BY <1>4, <2>1, <2>6 DEF NoneLater
  <2>9. \A k \in 1 .. Len(power') : power'[k].v <= n /\ power'[k].i <= n
    BY <1>4, <2>1, <2>7 DEF NoneLater
  <2>. QED BY <1>1, <2>3, <2>5, <2>8, <2>9 DEF NoneLater
<1>f. OneChannel'
  <2>. SUFFICES ASSUME NEW g \in Rings, NEW h \in Rings,
                       NEW j \in 1 .. Len(feed'[g]), NEW k \in 1 .. Len(feed'[h]),
                       feed'[g][j] = feed'[h][k]
                PROVE  g = h /\ j = k
    BY DEF OneChannel
  <2>1. \/ j \in 1 .. Len(feed[g]) /\ feed'[g][j] = feed[g][j]
        \/ g = r /\ j = m + 1 /\ feed'[g][j] = s
    BY <1>a, Zenon
  <2>2. \/ k \in 1 .. Len(feed[h]) /\ feed'[h][k] = feed[h][k]
        \/ h = r /\ k = m + 1 /\ feed'[h][k] = s
    BY <1>a, Zenon
  <2>3. CASE /\ j \in 1 .. Len(feed[g]) /\ feed'[g][j] = feed[g][j]
             /\ k \in 1 .. Len(feed[h]) /\ feed'[h][k] = feed[h][k]
    <3>1. feed[g][j] = feed[h][k]
      BY <2>3, Zenon
    <3>2. \A x \in 1 .. Len(feed[g]), y \in 1 .. Len(feed[h]) :
             feed[g][x] = feed[h][y] => g = h /\ x = y
      BY Zenon DEF OneChannel
    <3>. QED BY <2>3, <3>1, <3>2
  <2>4. CASE g = r /\ j = m + 1 /\ feed'[g][j] = s
    BY <1>d, <2>2, <2>4, Zenon
  <2>5. CASE h = r /\ k = m + 1 /\ feed'[h][k] = s
    BY <1>d, <2>1, <2>5, Zenon
  <2>. QED BY <2>1, <2>2, <2>3, <2>4, <2>5, Zenon
<1>g. OneHand'
  BY <1>4, <1>a, <1>c DEF OneHand, Held
<1>h. NotUsed' /\ UsedOnce' /\ PairsClose'
  BY <1>4, <1>a, <1>b DEF NotUsed, UsedOnce, PairsClose, Used, InPower, Held
<1>. QED BY <1>7, <1>e, <1>f, <1>g, <1>h

LEMMA StopsInv ==
    ASSUME ReceiverInv, NEW g \in Rings, Stops(g)
    PROVE  ReceiverInv'
<1>. USE DEF ReceiverInv
<1>1. /\ hands' = [hands EXCEPT ![g] = Returned]
      /\ UNCHANGED <<ring, rings, feed, volt, amp, power, takenAt>>
  BY DEF Stops
<1>2. ReceiverTypeOK'
  BY <1>1 DEF ReceiverTypeOK
<1>3. \A h \in Rings : hands'[h] = (IF h = g THEN Returned ELSE hands[h])
  BY <1>1 DEF ReceiverTypeOK
<1>4. \A h \in Rings : (Held(h)' => Held(h) /\ hands'[h] = hands[h])
  BY <1>3 DEF Held, Returned, Sample
<1>5. NoneLater' /\ OneChannel' /\ NotUsed' /\ UsedOnce' /\ PairsClose'
  BY <1>1, <1>4 DEF NoneLater, OneChannel, NotUsed, UsedOnce, PairsClose, Used, InPower
<1>6. \A h \in Rings : \A k \in 1 .. Len(feed[h]) : feed[h][k] \in Sample
  BY DEF ReceiverTypeOK
<1>7. OneHand'
  BY <1>1, <1>3, <1>4, <1>6 DEF OneHand, Returned, Sample, Held
<1>. QED BY <1>2, <1>5, <1>7

LEMMA ReceivesInv ==
    ASSUME ReceiverInv, NEW g \in Rings, Receives(g)
    PROVE  ReceiverInv'
<1>. USE DEF ReceiverInv
<1>1. PICK m \in Nat : m = Len(feed[g]) /\ m >= 1
  BY DEF Receives, ReceiverTypeOK
<1>2. PICK s \in Sample : s = feed[g][1]
  BY <1>1 DEF ReceiverTypeOK
<1>3. /\ hands' = [hands EXCEPT ![g] = s] /\ feed' = [feed EXCEPT ![g] = Tail(@)]
      /\ UNCHANGED <<ring, rings, volt, amp, power, takenAt>>
  BY <1>1, <1>2 DEF Receives, ReceiverTypeOK
<1>4. /\ feed' \in [Rings -> Seq(Sample)] /\ Len(feed'[g]) = m - 1
      /\ \A k \in 1 .. m - 1 : feed'[g][k] = feed[g][k + 1]
      /\ \A h \in Rings \ {g} : feed'[h] = feed[h]
  BY <1>1, <1>3 DEF ReceiverTypeOK
<1>5. ReceiverTypeOK'
  BY <1>3, <1>4 DEF ReceiverTypeOK
<1>6. \A h \in Rings : hands'[h] = (IF h = g THEN s ELSE hands[h])
  BY <1>3 DEF ReceiverTypeOK
<1>7. \A h \in Rings : \A k \in 1 .. Len(feed'[h]) :
         \/ h # g /\ k \in 1 .. Len(feed[h]) /\ feed'[h][k] = feed[h][k]
         \/ h = g /\ k + 1 \in 2 .. m /\ feed'[h][k] = feed[h][k + 1]
  BY <1>1, <1>4
<1>a. \A h \in Rings : \A k \in 1 .. Len(feed'[h]) : feed'[h][k] # s
  BY <1>1, <1>2, <1>7 DEF OneChannel
<1>b. \A h \in Rings : hands[h] # s
  BY <1>1, <1>2 DEF OneHand
<1>c. s.at <= takenAt /\ ~Used(s)
  BY <1>1, <1>2 DEF NoneLater, NotUsed
<1>d. NoneLater'
  BY <1>1, <1>3, <1>6, <1>7, <1>c DEF NoneLater, Held
<1>e. OneChannel'
  <2>. SUFFICES ASSUME NEW a \in Rings, NEW b \in Rings, NEW j \in 1 .. Len(feed'[a]),
                       NEW k \in 1 .. Len(feed'[b]), feed'[a][j] = feed'[b][k]
                PROVE  a = b /\ j = k
    BY DEF OneChannel
  <2>. DEFINE up(h) == IF h = g THEN 1 ELSE 0
  <2>0. j \in Nat /\ k \in Nat
    OBVIOUS
  <2>1. feed'[a][j] = feed[a][j + up(a)] /\ j + up(a) \in 1 .. Len(feed[a])
    BY <1>1, <1>7, <2>0
  <2>2. feed'[b][k] = feed[b][k + up(b)] /\ k + up(b) \in 1 .. Len(feed[b])
    BY <1>1, <1>7, <2>0
  <2>3. up(a) \in Nat /\ up(b) \in Nat
    OBVIOUS
  <2>. HIDE DEF up
  <2>4. a = b /\ j + up(a) = k + up(b)
    <3>1. PICK J \in 1 .. Len(feed[a]) : J = j + up(a)
      BY <2>1
    <3>2. PICK K \in 1 .. Len(feed[b]) : K = k + up(b)
      BY <2>2
    <3>3. feed[a][J] = feed[b][K]
      BY <2>1, <2>2, <3>1, <3>2, Zenon
    <3>. QED BY <3>1, <3>2, <3>3 DEF OneChannel
  <2>. QED BY <2>0, <2>3, <2>4
<1>f. OneHand'
  <2>1. \A a, b \in Rings : Held(a)' /\ hands'[a] = hands'[b] => a = b
    BY <1>6, <1>b DEF OneHand, Held
  <2>2. \A a, b \in Rings : \A k \in 1 .. Len(feed'[b]) : hands'[a] # feed'[b][k]
    BY <1>1, <1>6, <1>7, <1>a DEF OneHand
  <2>. QED BY <2>1, <2>2 DEF OneHand
<1>g. NotUsed' /\ UsedOnce' /\ PairsClose'
  <2>2. \A h \in Rings : Held(h)' => ~Used(hands[h])'
    BY <1>3, <1>6, <1>c DEF NotUsed, Held, Used, InPower
  <2>3. \A h \in Rings : \A k \in 1 .. Len(feed'[h]) : ~Used(feed[h][k])'
    <3>. TAKE h \in Rings
    <3>. TAKE k \in 1 .. Len(feed'[h])
    <3>1. PICK K \in 1 .. Len(feed[h]) : feed'[h][k] = feed[h][K]
      BY <1>1, <1>7
    <3>2. ~Used(feed[h][K])
      BY DEF NotUsed
    <3>. QED BY <1>3, <3>1, <3>2 DEF Used, InPower
  <2>4. UsedOnce' /\ PairsClose'
    BY <1>3 DEF UsedOnce, PairsClose, InPower
  <2>. QED BY <2>2, <2>3, <2>4 DEF NotUsed
<1>. QED BY <1>5, <1>d, <1>e, <1>f, <1>g

(* A sample that leaves the hand of its goroutine, and what is used then.  *)
LEMMA HandEmptied ==
    ASSUME ReceiverInv, NEW g \in Rings, Held(g), NEW x \in {Selecting, Returned},
           hands' = [hands EXCEPT ![g] = x], UNCHANGED <<ring, rings, feed, takenAt>>,
           \A s \in Sample : Used(s)' => Used(s) \/ s = hands[g]
    PROVE  /\ hands' \in [Rings -> Sample \cup {Selecting, Returned}]
           /\ \A h \in Rings : Held(h)' => hands'[h].at <= takenAt
           /\ OneChannel' /\ OneHand' /\ NotUsed'
<1>. USE DEF ReceiverInv
<1>1. hands' \in [Rings -> Sample \cup {Selecting, Returned}]
  BY DEF ReceiverTypeOK
<1>2. \A h \in Rings : hands'[h] = (IF h = g THEN x ELSE hands[h])
  BY DEF ReceiverTypeOK
<1>3. x \notin Sample
  BY DEF Selecting, Returned, Sample
<1>4. \A h \in Rings : (Held(h)' => h # g /\ Held(h) /\ hands'[h] = hands[h])
  BY <1>2, <1>3 DEF Held
<1>5. \A h \in Rings : Held(h)' => hands'[h].at <= takenAt
  BY <1>4 DEF NoneLater
<1>6. OneChannel'
  BY DEF OneChannel
<1>7. \A h \in Rings : \A k \in 1 .. Len(feed[h]) : feed[h][k] \in Sample
  BY DEF ReceiverTypeOK
<1>8. OneHand'
  BY <1>2, <1>3, <1>4, <1>7 DEF OneHand, Held
<1>9. \A h \in Rings : Held(h)' => ~Used(hands[h])'
  <2>. SUFFICES ASSUME NEW h \in Rings, Held(h)' PROVE ~Used(hands[h])'
    OBVIOUS
  <2>1. PICK s \in Sample : s = hands'[h] /\ s = hands[h] /\ h # g
    BY <1>4 DEF Held
  <2>2. ~Used(s) /\ s # hands[g]
    BY <2>1 DEF NotUsed, OneHand, Held
  <2>3. ~Used(s)'
    BY <2>2
  <2>. QED BY <2>1, <2>3 DEF Used, InPower
<1>10. \A h \in Rings : \A k \in 1 .. Len(feed'[h]) : ~Used(feed[h][k])'
  <2>. SUFFICES ASSUME NEW h \in Rings, NEW k \in 1 .. Len(feed[h]) PROVE ~Used(feed[h][k])'
    OBVIOUS
  <2>1. PICK s \in Sample : s = feed[h][k]
    BY <1>7
  <2>2. ~Used(s) /\ s # hands[g]
    BY <2>1 DEF NotUsed, OneHand
  <2>3. ~Used(s)'
    BY <2>2
  <2>. QED BY <2>1, <2>3 DEF Used, InPower
<1>. QED BY <1>1, <1>5, <1>6, <1>8, <1>9, <1>10 DEF NotUsed

LEMMA AppliesInv ==
    ASSUME ReceiverInv, NEW g \in Rings, Applies(g)
    PROVE  ReceiverInv'
<1>. DEFINE VoltSample == [of : {"volt"}, at : Nat \ {0}]
            AmpSample == [of : {"amp"}, at : Nat \ {0}]
<1>a. ReceiverTypeOK /\ NoneLater /\ OneHand /\ NotUsed /\ UsedOnce /\ PairsClose
  BY DEF ReceiverInv
<1>1. PICK s \in Sample : s = hands[g]
  BY <1>a DEF Applies, ReceiverTypeOK, Selecting, Returned
<1>2. PICK v : v = IF s.of = "volt" THEN s ELSE volt
  OBVIOUS
<1>3. PICK i : i = IF s.of = "amp" THEN s ELSE amp
  OBVIOUS
<1>4. Held(g) /\ ~Used(s) /\ s.at <= takenAt
  BY <1>a, <1>1 DEF Held, NotUsed, NoneLater
<1>5. /\ v \in VoltSample \cup {Unpaired} /\ (v = s \/ v = volt) /\ v.at <= takenAt
      /\ i \in AmpSample \cup {Unpaired} /\ (i = s \/ i = amp) /\ i.at <= takenAt
      /\ s = v \/ s = i
  BY <1>a, <1>2, <1>3, <1>4 DEF Sample, ReceiverTypeOK, NoneLater
<1>6. (v # Unpaired => ~InPower(v)) /\ (i # Unpaired => ~InPower(i))
  BY <1>a, <1>4, <1>5 DEF UsedOnce, Used
<1>7. UNCHANGED <<ring, rings, feed, takenAt>>
  BY DEF Applies
<1>8. CASE ring = 0
  <2>1. hands' = [hands EXCEPT ![g] = Returned] /\ UNCHANGED <<volt, amp, power>>
    BY <1>8 DEF Applies
  <2>2. \A x \in Sample : Used(x)' => Used(x) \/ x = hands[g]
    BY <2>1 DEF Used, InPower
  <2>3. /\ hands' \in [Rings -> Sample \cup {Selecting, Returned}]
        /\ \A h \in Rings : Held(h)' => hands'[h].at <= takenAt
        /\ OneChannel' /\ OneHand' /\ NotUsed'
    BY <1>4, <1>7, <2>1, <2>2, HandEmptied, Zenon
  <2>4. ReceiverTypeOK'
    BY <1>a, <1>7, <2>1, <2>3 DEF ReceiverTypeOK
  <2>5. NoneLater' /\ UsedOnce' /\ PairsClose'
    BY <1>a, <1>7, <2>1, <2>3 DEF NoneLater, UsedOnce, PairsClose, InPower
  <2>. QED BY <2>3, <2>4, <2>5 DEF ReceiverInv
<1>9. CASE ring # 0 /\ volt' = v /\ amp' = i /\ power' = power
  <2>1. hands' = [hands EXCEPT ![g] = Selecting]
    BY <1>9 DEF Applies
  <2>2. \A x \in Sample : Used(x)' => Used(x) \/ x = hands[g]
    BY <1>1, <1>5, <1>9 DEF Used, InPower
  <2>3. /\ hands' \in [Rings -> Sample \cup {Selecting, Returned}]
        /\ \A h \in Rings : Held(h)' => hands'[h].at <= takenAt
        /\ OneChannel' /\ OneHand' /\ NotUsed'
    BY <1>4, <1>7, <2>1, <2>2, HandEmptied, Zenon
  <2>4. ReceiverTypeOK'
    BY <1>a, <1>5, <1>7, <1>9, <2>3 DEF ReceiverTypeOK
  <2>5. NoneLater' /\ PairsClose'
    BY <1>a, <1>5, <1>7, <1>9, <2>3 DEF NoneLater, PairsClose
  <2>6. UsedOnce'
    BY <1>a, <1>6, <1>9 DEF UsedOnce, InPower
  <2>. QED BY <2>3, <2>4, <2>5, <2>6 DEF ReceiverInv
<1>10. CASE ring # 0 /\ v # Unpaired /\ i # Unpaired /\ Close(v, i) /\ Paired(v, i)
  <2>1. hands' = [hands EXCEPT ![g] = Selecting] /\ volt' = Unpaired /\ amp' = Unpaired
    BY <1>10 DEF Applies, Paired
  <2>2. v \in VoltSample /\ i \in AmpSample
    BY <1>5, <1>10
  <2>3. PICK new \in PowerPairs : new = [v |-> v.at, i |-> i.at]
    BY <2>2, Zenon DEF PowerPairs
  <2>4. PICK n \in Nat : n = Len(power)
    BY <1>a DEF ReceiverTypeOK
  <2>. power \in Seq(PowerPairs)
    BY <1>a DEF ReceiverTypeOK
  <2>a. Append(power, new) \in Seq(PowerPairs)
    OBVIOUS
  <2>5. PICK hist : hist = Append(power, new)
    BY Zenon
  <2>b. hist \in Seq(PowerPairs)
    BY <2>a, <2>5
  <2>6. Len(hist) = n + 1 /\ hist[n + 1] = new /\ \A k \in 1 .. n : hist[k] = power[k]
    BY <1>a, <2>4, <2>5 DEF ReceiverTypeOK
  <2>7. power' = IF Len(hist) > Pairs THEN Tail(hist) ELSE hist
    BY <1>10, <2>3, <2>5 DEF Paired
  <2>8. PICK o \in {0, 1} :
           /\ power' \in Seq(PowerPairs) /\ Len(power') = n + 1 - o
           /\ \A k \in 1 .. Len(power') : power'[k] = hist[k + o] /\ k + o \in 1 .. n + 1
    <3>1. CASE Len(hist) > Pairs
      BY <3>1, <2>b, <2>6, <2>7
    <3>2. CASE ~(Len(hist) > Pairs)
      BY <3>2, <2>b, <2>6, <2>7
    <3>. QED BY <3>1, <3>2
  <2>9. /\ new.v <= takenAt /\ new.i <= takenAt
        /\ new.v - new.i < Window /\ new.i - new.v < Window
        /\ \A k \in 1 .. n : new.v # power[k].v /\ new.i # power[k].i
    <3>1. v.of = "volt" /\ i.of = "amp" /\ ~InPower(v) /\ ~InPower(i)
      BY <1>6, <1>10, <2>2
    <3>2. \A k \in 1 .. n : v.at # power[k].v /\ i.at # power[k].i
      BY <3>1, <2>4 DEF InPower
    <3>. QED BY <1>5, <1>10, <2>3, <3>2 DEF Close
  <2>10. \A k \in 1 .. n + 1 : hist[k].v <= takenAt /\ hist[k].i <= takenAt
    BY <1>a, <2>4, <2>6, <2>9 DEF NoneLater
  <2>11. \A k \in 1 .. n + 1 : hist[k].v - hist[k].i < Window /\ hist[k].i - hist[k].v < Window
    BY <1>a, <2>4, <2>6, <2>9 DEF PairsClose
  <2>12. \A k, l \in 1 .. n + 1 : hist[k].v = hist[l].v \/ hist[k].i = hist[l].i => k = l
    <3>. SUFFICES ASSUME NEW k \in 1 .. n + 1, NEW l \in 1 .. n + 1,
                         hist[k].v = hist[l].v \/ hist[k].i = hist[l].i
                  PROVE  k = l
      OBVIOUS
    <3>1. CASE k \in 1 .. n /\ l \in 1 .. n
      BY <3>1, <1>a, <2>4, <2>6 DEF UsedOnce
    <3>2. CASE k = n + 1 \/ l = n + 1
      BY <3>2, <2>6, <2>9
    <3>. QED BY <3>1, <3>2
  <2>13. \A x \in Sample : Used(x)' => Used(x) \/ x = hands[g]
    <3>. SUFFICES ASSUME NEW x \in Sample, Used(x)' PROVE Used(x) \/ x = s
      BY <1>1
    <3>1. PICK k \in 1 .. Len(power') : x.at = IF x.of = "volt" THEN power'[k].v ELSE power'[k].i
      BY <2>1 DEF Used, InPower, Unpaired, Sample
    <3>2. PICK l \in 1 .. n + 1 : x.at = IF x.of = "volt" THEN hist[l].v ELSE hist[l].i
      BY <2>8, <3>1, Zenon
    <3>3. CASE l \in 1 .. n
      BY <3>2, <3>3, <2>4, <2>6 DEF Used, InPower
    <3>4. CASE l = n + 1
      <4>1. x.at = IF x.of = "volt" THEN v.at ELSE i.at
        BY <3>2, <3>4, <2>3, <2>6
      <4>2. x = v \/ x = i
        BY <4>1, <2>2 DEF Sample
      <4>. QED BY <4>2, <1>5, Zenon DEF Used
    <3>. QED BY <3>3, <3>4
  <2>14. /\ hands' \in [Rings -> Sample \cup {Selecting, Returned}]
         /\ \A h \in Rings : Held(h)' => hands'[h].at <= takenAt
         /\ OneChannel' /\ OneHand' /\ NotUsed'
    BY <1>4, <1>7, <2>1, <2>13, HandEmptied, Zenon
  <2>15. ReceiverTypeOK'
    BY <1>a, <1>7, <2>1, <2>8, <2>14 DEF ReceiverTypeOK
  <2>16. NoneLater'
    <3>. volt'.at <= takenAt /\ amp'.at <= takenAt
      BY <1>a, <2>1 DEF ReceiverTypeOK, Unpaired
    <3>. QED BY <1>a, <1>7, <2>8, <2>10, <2>14, Zenon DEF NoneLater
  <2>17. PairsClose'
    BY <2>8, <2>11, Zenon DEF PairsClose
  <2>18. UsedOnce'
    <3>1. \A k, l \in 1 .. Len(power') :
             power'[k].v = power'[l].v \/ power'[k].i = power'[l].i => k = l
      <4>. SUFFICES ASSUME NEW k \in 1 .. Len(power'), NEW l \in 1 .. Len(power'),
                           power'[k].v = power'[l].v \/ power'[k].i = power'[l].i
                    PROVE  k = l
        OBVIOUS
      <4>1. PICK K \in 1 .. n + 1 : K = k + o /\ power'[k] = hist[K]
        BY <2>8
      <4>2. PICK L \in 1 .. n + 1 : L = l + o /\ power'[l] = hist[L]
        BY <2>8
      <4>3. K = L
        BY <4>1, <4>2, <2>12
      <4>. QED BY <4>1, <4>2, <4>3
    <3>. QED BY <2>1, <3>1 DEF UsedOnce
  <2>. QED BY <2>14, <2>15, <2>16, <2>17, <2>18 DEF ReceiverInv
<1>. QED BY <1>1, <1>2, <1>3, <1>8, <1>9, <1>10 DEF Applies

(* runDeviceRingReceiver, bind and resetDeviceBinding, whatever number of  *)
(* rings follow each other: a sample is in one place.                      *)
THEOREM ReceiverInvariant == ReceiverSpec => []ReceiverInv
<1>1. ReceiverInit => ReceiverInv
  BY InitReceiver
<1>2. ReceiverInv /\ [ReceiverNext]_receiverVars => ReceiverInv'
  <2>. SUFFICES ASSUME ReceiverInv, [ReceiverNext]_receiverVars PROVE ReceiverInv'
    OBVIOUS
  <2>1. CASE UNCHANGED receiverVars
    <3>1. UNCHANGED <<ring, rings, takenAt, feed, hands, volt, amp, power>>
      BY <2>1 DEF receiverVars
    <3>2. ReceiverTypeOK'
      BY <3>1 DEF ReceiverInv, ReceiverTypeOK
    <3>3. NoneLater' /\ OneChannel'
      BY <3>1 DEF ReceiverInv, NoneLater, OneChannel, Held
    <3>4. OneHand' /\ NotUsed'
      BY <3>1 DEF ReceiverInv, OneHand, NotUsed, Held, Used, InPower
    <3>5. UsedOnce' /\ PairsClose'
      BY <3>1 DEF ReceiverInv, UsedOnce, InPower, PairsClose
    <3>. QED BY <3>2, <3>3, <3>4, <3>5 DEF ReceiverInv
  <2>2. CASE \E of \in {"volt", "amp"}, gap \in {1, Window} : RingSends(of, gap)
    BY <2>2, RingSendsInv
  <2>3. CASE \E g \in 1 .. MaxRings : Receives(g) \/ Stops(g) \/ Applies(g)
    BY <2>3, ReceivesInv, StopsInv, AppliesInv DEF Rings
  <2>. QED BY <2>1, <2>2, <2>3, BindRingInv, ResetRingInv DEF ReceiverNext
<1>. QED BY <1>1, <1>2, PTL DEF ReceiverSpec

(* runDeviceRingReceiver: every pair in powerHistory is of one moment and  *)
(* no measurement is in two of them, also while the goroutine of a stopped *)
(* ring delivers beside the new one's.                                     *)
THEOREM PairsStayOfOneMoment == ReceiverSpec => []PairsAreOfOneMoment
<1>1. ReceiverInv => PairsAreOfOneMoment
  <2>1. ReceiverInv => DOMAIN power = 1 .. Len(power)
    BY DEF ReceiverInv, ReceiverTypeOK
  <2>. QED BY <2>1, Zenon DEF ReceiverInv, PairsClose, UsedOnce, PairsAreOfOneMoment
<1>. QED BY <1>1, ReceiverInvariant, PTL

-----------------------------------------------------------------------------
(* The power control, PowerControl                                         *)

LEMMA Squares ==
    ASSUME NEW a \in Nat, NEW b \in Nat
    PROVE  (a <= b => a * a <= b * b) /\ (a * a < b * b => a < b)
<1>1. ASSUME NEW x \in Nat, NEW y \in Nat, x <= y PROVE x * x <= y * y
  <2>1. x * x <= x * y
    BY <1>1
  <2>2. x * y <= y * y
    BY <1>1
  <2>. QED BY <2>1, <2>2
<1>. QED BY <1>1

RootLimit == 64000000
(* The root of n is in a stretch of w numbers, or in half of it.           *)
RootWithin(n, w) == \E a \in Nat : a * a <= n /\ n < (a + w) * (a + w)

LEMMA Halved ==
    ASSUME NEW n \in Nat, NEW w \in Nat, NEW v, v = 2 * w, RootWithin(n, v)
    PROVE  RootWithin(n, w)
<1>1. PICK a \in Nat : a * a <= n /\ n < (a + v) * (a + v)
  BY DEF RootWithin
<1>2. CASE n < (a + w) * (a + w)
  BY <1>1, <1>2 DEF RootWithin
<1>3. CASE ~(n < (a + w) * (a + w))
  <2>1. PICK b \in Nat : b = a + w
    OBVIOUS
  <2>2. b + w = a + v
    BY <2>1
  <2>3. b * b <= n
    <3>1. (a + w) * (a + w) \in Int
      OBVIOUS
    <3>. QED BY <1>3, <2>1, <3>1
  <2>. QED BY <1>1, <2>2, <2>3 DEF RootWithin
<1>. QED BY <1>2, <1>3

LEMMA RootExists ==
    ASSUME NEW n \in Nat, n < RootLimit
    PROVE  \E k \in Nat : k * k <= n /\ n < (k + 1) * (k + 1)
<1>1. RootWithin(n, 8192)
  <2>1. 0 * 0 <= n /\ n < (0 + 8192) * (0 + 8192)
    BY SMT DEF RootLimit
  <2>. QED BY <2>1 DEF RootWithin
<1>2. ASSUME NEW w \in Nat, NEW v, v = 16 * w, RootWithin(n, v) PROVE RootWithin(n, w)
  <2>1. RootWithin(n, 8 * w)
    BY <1>2, Halved
  <2>2. RootWithin(n, 4 * w)
    BY <1>2, <2>1, Halved
  <2>3. RootWithin(n, 2 * w)
    BY <1>2, <2>2, Halved
  <2>. QED BY <1>2, <2>3, Halved
<1>3. RootWithin(n, 512)
  BY <1>1, <1>2
<1>4. RootWithin(n, 32)
  BY <1>2, <1>3
<1>5. RootWithin(n, 2)
  BY <1>2, <1>4
<1>6. RootWithin(n, 1)
  BY <1>5, Halved
<1>. QED BY <1>6 DEF RootWithin

LEMMA RootFacts ==
    ASSUME NEW n \in Nat, n < RootLimit
    PROVE  Root[n] \in Nat /\ Root[n] * Root[n] <= n /\ n < (Root[n] + 1) * (Root[n] + 1)
<1>. DEFINE IsHigh(k) == 1024 * k * k <= n /\ n < 1024 * (k + 1) * (k + 1)
            high == CHOOSE k \in 0 .. 249 : IsHigh(k)
            IsRoot(k) == k * k <= n /\ n < (k + 1) * (k + 1)
<1>1. PICK r \in Nat : IsRoot(r)
  BY RootExists
<1>2. r < 8000
  <2>1. r * r < 8000 * 8000
    BY <1>1, SMT DEF RootLimit
  <2>. QED BY <2>1, Squares
<1>3. PICK h \in 0 .. 249 : 32 * h <= r /\ r <= 32 * h + 31
  <2>1. r \div 32 \in 0 .. 249 /\ 32 * (r \div 32) <= r /\ r <= 32 * (r \div 32) + 31
    BY <1>2
  <2>. QED BY <2>1
<1>4. IsHigh(h)
  <2>1. (32 * h) * (32 * h) <= r * r
    BY <1>3, Squares
  <2>2. (r + 1) * (r + 1) <= (32 * (h + 1)) * (32 * (h + 1))
    BY <1>3, Squares
  <2>3. (32 * h) * (32 * h) = 1024 * h * h /\ (32 * (h + 1)) * (32 * (h + 1)) = 1024 * (h + 1) * (h + 1)
    OBVIOUS
  <2>. QED BY <1>1, <2>1, <2>2, <2>3
<1>5. high \in 0 .. 249 /\ IsHigh(high)
  <2>. HIDE DEF IsHigh
  <2>. QED BY <1>4, Zenon
<1>a. Root[n] = CHOOSE x \in 32 * high .. 32 * high + 31 : IsRoot(x)
  BY DEF Root
<1>. HIDE DEF high
<1>6. PICK k \in 0 .. 249 : k = high /\ IsHigh(k)
  BY <1>5
<1>7. r \in 32 * k .. 32 * k + 31
  <2>1. (32 * k) * (32 * k) = 1024 * k * k /\ (32 * (k + 1)) * (32 * (k + 1)) = 1024 * (k + 1) * (k + 1)
    OBVIOUS
  <2>2. (32 * k) * (32 * k) < (r + 1) * (r + 1)
    <3>. IsHigh(k) /\ IsRoot(r)
      BY <1>1, <1>6
    <3>. QED BY <2>1
  <2>3. r * r < (32 * (k + 1)) * (32 * (k + 1))
    <3>. IsHigh(k) /\ IsRoot(r)
      BY <1>1, <1>6
    <3>. QED BY <2>1
  <2>4. 32 * k < r + 1
    BY <2>2, Squares
  <2>5. r < 32 * (k + 1)
    BY <2>3, Squares
  <2>. QED BY <2>4, <2>5
<1>8. Root[n] = CHOOSE x \in 32 * k .. 32 * k + 31 : IsRoot(x)
  BY <1>6, <1>a
<1>9. Root[n] \in 32 * k .. 32 * k + 31 /\ IsRoot(Root[n])
  <2>. HIDE DEF IsRoot
  <2>. QED BY <1>1, <1>7, <1>8, Zenon
<1>. QED BY <1>9

Ohms == {x \in Int : 10 <= x /\ x <= 100000}

LEMMA Limits == VoltLimit \in Nat /\ AmpLimit \in Nat /\ PowerLimit \in Nat
  BY SMT DEF VoltLimit, AmpLimit, PowerLimit

LEMMA Zeros == 0 \in 0 .. PowerLimit /\ 0 \in 0 .. 3 /\ 0 \in {0} \cup Ohms /\ 0 \in Nat
  BY Limits

LEMMA Division ==
    ASSUME NEW a \in Nat, NEW b \in Nat \ {0}
    PROVE  a \div b \in Nat /\ b * (a \div b) <= a
  OBVIOUS

LEMMA GoalInRange ==
    ASSUME NEW p \in 1 .. PowerLimit, NEW r \in Ohms
    PROVE  Target(p, r).v \in 0 .. VoltLimit /\ Target(p, r).i \in 0 .. AmpLimit
<1>0. p \in Nat /\ p <= 500 /\ r \in Nat \ {0} /\ r <= 100000
  <2>1. p \in Nat /\ p <= PowerLimit
    BY Limits, SMT
  <2>. QED BY <2>1, SMT DEF Ohms, PowerLimit
<1>1. p * r \in Nat /\ p * r < RootLimit
  <2>1. p * r \in Nat /\ p * r <= 500 * r
    BY <1>0, SMT
  <2>. QED BY <1>0, <2>1, SMT DEF RootLimit
<1>2. PICK q : q = (10000 * p) \div r
  OBVIOUS
<1>3. q \in Nat /\ q < RootLimit
  <2>1. PICK a \in Nat : a = 10000 * p /\ a <= 5000000
    BY <1>0, SMT
  <2>2. q \in Nat /\ r * q <= a
    BY <1>0, <1>2, <2>1, Division, SMT
  <2>3. q <= r * q
    BY <1>0, <2>2, SMT
  <2>4. q <= a
    <3>. PICK z \in Int : z = r * q
      BY <1>0, <2>2, SMT
    <3>. QED BY <2>1, <2>2, <2>3, SMT
  <2>. QED BY <2>1, <2>2, <2>4, SMT DEF RootLimit
<1>4. PICK v \in Nat : v = Root[p * r]
  BY <1>1, RootFacts
<1>5. PICK i \in Nat : i = Root[q]
  BY <1>3, RootFacts
<1>6. Target(p, r) = [v |-> Clamp(v, 0, VoltLimit), i |-> Clamp(i, 0, AmpLimit)]
  BY <1>2, <1>4, <1>5 DEF Target
<1>. QED BY <1>6, Limits, SMT DEF Clamp

LEMMA TowardsInRange ==
    ASSUME NEW top \in Nat, NEW cmd \in 0 .. top, NEW goal \in 0 .. top, NEW step \in Nat
    PROVE  Towards(cmd, goal, step) \in 0 .. top
<1>1. PICK d \in Int : d = (4 * (goal - cmd)) \div 10
  OBVIOUS
<1>2. (0 <= goal - cmd => 0 <= d /\ d <= goal - cmd) /\ (goal - cmd < 0 => goal - cmd <= d /\ d <= 0)
  BY <1>1
<1>3. Towards(cmd, goal, step) = cmd + Clamp(d, -step, step)
  BY <1>1 DEF Towards
<1>. QED BY <1>2, <1>3 DEF Clamp

LEMMA CandidateInRange ==
    ASSUME NEW raw \in Ohms, ctl.r \in {0} \cup Ohms
    PROVE  Candidate(raw) \in Ohms
<1>1. CASE ctl.r = 0
  BY <1>1 DEF Candidate
<1>2. CASE ctl.r \in Ohms
  <2>1. PICK c : c = (8 * ctl.r + 2 * raw) \div 10
    OBVIOUS
  <2>2. c \in Ohms
    BY <1>2, <2>1, SMT DEF Ohms
  <2>3. Candidate(raw) \in {raw, ctl.r, c}
    BY <2>1 DEF Candidate
  <2>. QED BY <1>2, <2>2, <2>3
<1>. QED BY <1>1, <1>2

Shapes ==
    /\ ctl = [target |-> ctl.target, status |-> ctl.status, r |-> ctl.r, odd |-> ctl.odd]
    /\ supply = [err |-> supply.err, on |-> supply.on, v |-> supply.v, i |-> supply.i]
    /\ tick = [at |-> tick.at, p |-> tick.p, m |-> tick.m, vals |-> tick.vals, v |-> tick.v, i |-> tick.i,
               failed |-> tick.failed]
    /\ stop = [in |-> stop.in, writes |-> stop.writes]

InRange(v, i) == v \in 0 .. VoltLimit /\ i \in 0 .. AmpLimit
Numbers ==
    /\ ctl.target \in 0 .. PowerLimit /\ ctl.r \in {0} \cup Ohms /\ ctl.odd \in 0 .. 3
    /\ load \in Nat \ {0} /\ tick.p \in 0 .. PowerLimit /\ oper.val \in 0 .. PowerLimit
    /\ tick.m.v \in Nat /\ tick.m.i \in Nat

(* The set points, those the loop has read and those it is about to write. *)
SetPointsInRange ==
    /\ InRange(supply.v, supply.i)
    /\ tick.at = "decide" => InRange(tick.vals.v, tick.vals.i)
    /\ tick.at \in {"writeV", "writeI"} => InRange(tick.v, tick.i)

(* The writes a tick may still make.                                       *)
Remaining ==
    IF tick.at \in {"read", "decide"} /\ tick.p > 0 THEN 2
    ELSE IF tick.at = "writeV" THEN 2
    ELSE IF tick.at = "writeI" THEN 1 ELSE 0
StopHolds ==
    /\ stop.writes \in Nat /\ stop.writes <= 2
    /\ stop.in => ctl.target = 0 /\ stop.writes + Remaining <= 2

PowerInv == Shapes /\ Numbers /\ SetPointsInRange /\ StopHolds

LEMMA InitPower == PowerInit => PowerInv
<1>. SUFFICES ASSUME PowerInit PROVE PowerInv
  OBVIOUS
<1>1. PICK s \in SetPoints : supply = [err |-> FALSE, on |-> TRUE, v |-> s.v, i |-> s.i]
  BY Zenon DEF PowerInit
<1>2. InRange(s.v, s.i)
  BY PowerConstants, Zenon DEF InRange
<1>3. Shapes
  BY <1>1, Zenon DEF PowerInit, Shapes, Idle
<1>4. SetPointsInRange
  BY <1>1, <1>2, Zenon DEF PowerInit, SetPointsInRange, Idle
<1>5. Numbers
  <2>1. load \in Nat \ {0}
    BY PowerConstants, Zenon DEF PowerInit
  <2>. QED BY <2>1, Zeros, Zenon DEF PowerInit, Numbers, Idle, NoRequest
<1>6. StopHolds
  BY DEF PowerInit, StopHolds, Remaining, Idle
<1>. QED BY <1>3, <1>4, <1>5, <1>6 DEF PowerInv

LEMMA MeasuredFacts ==
    ASSUME Numbers, SetPointsInRange
    PROVE  Measured.v \in Nat /\ Measured.i \in Nat
<1>1. load \in Nat \ {0} /\ supply.v \in Nat /\ supply.i \in Nat
  BY Limits DEF Numbers, SetPointsInRange, InRange
<1>2. supply.i * load \in Nat
  BY <1>1
<1>3. PICK q \in Nat : q = (supply.i * load) \div 100
  BY <1>2
<1>4. PICK o \in Nat : o = Output
  BY <1>1, <1>3 DEF Output, Least
<1>5. 1000 * o \in Nat
  BY <1>4
<1>6. PICK i \in Nat : i = (1000 * o) \div load
  BY <1>1, <1>5, Division
<1>. QED BY <1>4, <1>6 DEF Measured

LEMMA SmoothFacts ==
    ASSUME Numbers, SetPointsInRange, NEW h \in Histories \cup OddHistories, h # <<>>
    PROVE  SmoothSamples(h).v \in Nat /\ SmoothSamples(h).i \in Nat
<1>0. Measured.v \in Nat /\ Measured.i \in Nat /\ tick.m.v \in Nat /\ tick.m.i \in Nat
  BY MeasuredFacts DEF Numbers
<1>1. PICK m : m = Measured
  OBVIOUS
<1>2. PICK l : l = tick.m
  OBVIOUS
<1>3. CASE h = <<m>> \/ h = <<l>>
  BY <1>0, <1>1, <1>2, <1>3 DEF SmoothSamples
<1>4. CASE \E s \in Spikes : h = <<l, s, m>>
  <2>1. PICK s \in Spikes : h = <<l, s, m>>
    BY <1>4
  <2>2. s.v \in Nat /\ s.i \in Nat
    BY PowerConstants
  <2>3. SmoothSamples(h) = [v |-> Trimmed(l.v, s.v, m.v), i |-> Trimmed(l.i, s.i, m.i)]
    BY <2>1 DEF SmoothSamples
  <2>4. \A a, b, c \in Nat : Trimmed(a, b, c) \in Nat
    BY DEF Trimmed, Clamp, Least, Greatest
  <2>5. l.v \in Nat /\ m.v \in Nat /\ l.i \in Nat /\ m.i \in Nat
    BY <1>0, <1>1, <1>2
  <2>6. Trimmed(l.v, s.v, m.v) \in Nat /\ Trimmed(l.i, s.i, m.i) \in Nat
    BY <2>2, <2>4, <2>5, Zenon
  <2>. QED BY <2>3, <2>6
<1>. QED BY <1>1, <1>2, <1>3, <1>4 DEF Histories, OddHistories

LEMMA TickBeginsInv == PowerInv /\ TickBegins => PowerInv'
<1>. SUFFICES ASSUME PowerInv, TickBegins PROVE PowerInv'
  OBVIOUS
<1>a. Shapes /\ Numbers /\ SetPointsInRange /\ StopHolds
  BY DEF PowerInv
<1>1. PICK h \in Histories \cup OddHistories :
         tick' = [Waiting EXCEPT !.at = "read", !.p = ctl.target,
                    !.m = IF h = <<>> THEN Measured ELSE SmoothSamples(h)]
  BY Zenon DEF TickBegins
<1>2. PICK m : m = IF h = <<>> THEN Measured ELSE SmoothSamples(h)
  OBVIOUS
<1>3. m.v \in Nat /\ m.i \in Nat
  BY <1>a, <1>2, MeasuredFacts, SmoothFacts
<1>4. tick' = [at |-> "read", p |-> ctl.target, m |-> m, vals |-> <<>>, v |-> 0, i |-> 0, failed |-> FALSE]
  BY <1>1, <1>2, Zenon DEF Waiting, Idle
<1>5. UNCHANGED <<ctl, supply, load, oper, stop>>
  BY Zenon DEF TickBegins
<1>6. Shapes'
  BY <1>a, <1>4, <1>5, SMTT(30) DEF Shapes
<1>7. Numbers' /\ SetPointsInRange'
  BY <1>a, <1>3, <1>4, <1>5, Zenon DEF Numbers, SetPointsInRange
<1>8. StopHolds'
  BY <1>a, <1>4, <1>5 DEF StopHolds, Remaining, Numbers
<1>. QED BY <1>6, <1>7, <1>8 DEF PowerInv

(* A tick that ends early.                                                 *)
LEMMA WaitingInv ==
    ASSUME PowerInv, tick' = Waiting, UNCHANGED <<supply, load, oper, stop>>,
           NEW c, ctl' = c, c = [target |-> c.target, status |-> c.status, r |-> c.r, odd |-> c.odd],
           c.target = ctl.target, c.r \in {0} \cup Ohms, c.odd \in 0 .. 3
    PROVE  PowerInv'
<1>a. Shapes /\ Numbers /\ SetPointsInRange /\ StopHolds
  BY DEF PowerInv
<1>1. tick' = [at |-> "wait", p |-> 0, m |-> tick.m, vals |-> <<>>, v |-> 0, i |-> 0, failed |-> FALSE]
  BY Zenon DEF Waiting, Idle
<1>2. Shapes'
  BY <1>a, <1>1, Zenon DEF Shapes
<1>3. Numbers' /\ SetPointsInRange'
  <2>1. ctl'.target \in 0 .. PowerLimit /\ ctl'.r \in {0} \cup Ohms /\ ctl'.odd \in 0 .. 3
    BY <1>a, Zenon DEF Numbers
  <2>2. tick'.at = "wait" /\ tick'.p = 0 /\ tick'.m = tick.m
    BY <1>1
  <2>. QED BY <1>a, <2>1, <2>2, Zeros, Zenon DEF Numbers, SetPointsInRange
<1>4. StopHolds'
  BY <1>a, <1>1 DEF StopHolds, Remaining
<1>. QED BY <1>2, <1>3, <1>4 DEF PowerInv

LEMMA ReadSupplyInv == PowerInv /\ ReadSupply => PowerInv'
<1>. SUFFICES ASSUME PowerInv, ReadSupply PROVE PowerInv'
  OBVIOUS
<1>a. Shapes /\ Numbers /\ SetPointsInRange /\ StopHolds
  BY DEF PowerInv
<1>b. UNCHANGED <<ctl, supply, load, oper, stop>> /\ tick.at = "read"
  BY Zenon DEF ReadSupply
<1>1. CASE tick' = Waiting
  BY <1>a, <1>b, <1>1, WaitingInv DEF Shapes, Numbers
<1>2. CASE tick' = [tick EXCEPT !.at = "decide", !.vals = supply]
  <2>1. tick' = [at |-> "decide", p |-> tick.p, m |-> tick.m, vals |-> supply, v |-> tick.v, i |-> tick.i,
                 failed |-> tick.failed]
    BY <1>a, <1>2, Zenon DEF Shapes
  <2>2. Shapes'
    BY <1>a, <1>b, <2>1, Zenon DEF Shapes
  <2>3. Numbers' /\ SetPointsInRange'
    BY <1>a, <1>b, <2>1 DEF Numbers, SetPointsInRange
  <2>4. StopHolds'
    BY <1>a, <1>b, <2>1 DEF StopHolds, Remaining
  <2>. QED BY <2>2, <2>3, <2>4 DEF PowerInv
<1>. QED BY <1>1, <1>2 DEF ReadSupply

LEMMA DecideInv == PowerInv /\ Decide => PowerInv'
<1>. SUFFICES ASSUME PowerInv, Decide PROVE PowerInv'
  OBVIOUS
<1>a. Shapes /\ Numbers /\ SetPointsInRange /\ StopHolds
  BY DEF PowerInv
<1>b. UNCHANGED <<supply, load, oper, events>> /\ tick.at = "decide"
  BY DEF Decide
<1>c. InRange(tick.vals.v, tick.vals.i)
  BY <1>a, <1>b DEF SetPointsInRange
<1>. DEFINE odds(raw) == IF NonOhmic(raw) THEN Least(ctl.odd + 1, 3) ELSE 0
            res(raw) == IF NonOhmic(raw) THEN ctl.r ELSE Candidate(raw)
            after(raw, status) == [target |-> ctl.target, status |-> status, r |-> res(raw), odd |-> odds(raw)]
<1>0. PICK raw : raw = (1000 * tick.m.v) \div tick.m.i
  OBVIOUS
<1>1. CASE tick.vals.err
  <2>1. ctl' = [target |-> 0, status |-> Fallback, r |-> ctl.r, odd |-> 0]
    BY <1>a, <1>1, Zenon DEF Decide, BackOff, Shapes
  <2>2. tick' = [at |-> "wait", p |-> 0, m |-> tick.m, vals |-> <<>>, v |-> 0, i |-> 0, failed |-> FALSE]
    BY <1>1 DEF Decide, Waiting, Idle
  <2>3. stop' = [in |-> TRUE, writes |-> 0]
    BY <1>1, Zenon DEF Decide
  <2>4. Shapes'
    BY <1>a, <1>b, <2>1, <2>2, <2>3, SMTT(30) DEF Shapes
  <2>5. Numbers' /\ SetPointsInRange'
    BY <1>a, <1>b, <2>1, <2>2, Zeros, Zenon DEF Numbers, SetPointsInRange
  <2>6. StopHolds'
    BY <2>1, <2>2, <2>3 DEF StopHolds, Remaining
  <2>. QED BY <2>4, <2>5, <2>6 DEF PowerInv
<1>2. CASE ~tick.vals.err /\ (~tick.vals.on \/ tick.m.i < 5)
  <2>1. PICK c : c = [target |-> ctl.target, status |-> Standby, r |-> ctl.r, odd |-> 0]
    BY Zenon
  <2>2. ctl' = c /\ tick' = Waiting /\ stop' = stop
    BY <1>a, <1>2, <2>1, Zenon DEF Decide, Shapes
  <2>. QED BY <1>a, <1>b, <2>1, <2>2, WaitingInv DEF Numbers
<1>3. CASE ~tick.vals.err /\ ~(~tick.vals.on \/ tick.m.i < 5)
  <2>1. raw \in Int /\ tick.m.i \in Nat \ {0} /\ tick.m.v \in Nat
    <3>1. tick.m.i \in Nat \ {0} /\ 1000 * tick.m.v \in Nat
      BY <1>a, <1>3 DEF Numbers
    <3>. QED BY <1>a, <1>0, <3>1, Division DEF Numbers
  <2>2. ~NonOhmic(raw) => raw \in Ohms
    BY <2>1, SMT DEF NonOhmic, Ohms
  <2>3. res(raw) \in {0} \cup Ohms /\ (~NonOhmic(raw) => Candidate(raw) \in Ohms)
    BY <1>a, <2>2, CandidateInRange DEF Numbers
  <2>4. odds(raw) \in 0 .. 3 /\ (odds(raw) = 0 => ~NonOhmic(raw))
    BY <1>a DEF Numbers, Least
  <2>5. CASE \E status : ctl' = after(raw, status) /\ tick' = Waiting /\ stop' = stop
    <3>1. PICK status : ctl' = after(raw, status) /\ tick' = Waiting /\ stop' = stop
      BY <2>5, Zenon
    <3>2. PICK c : c = after(raw, status)
      BY Zenon
    <3>3. /\ c = [target |-> c.target, status |-> c.status, r |-> c.r, odd |-> c.odd]
          /\ c.target = ctl.target /\ c.r = res(raw) /\ c.odd = odds(raw)
      BY <3>2
    <3>. HIDE DEF odds, res, after
    <3>. QED BY <1>b, <2>3, <2>4, <3>1, <3>2, <3>3, WaitingInv
  <2>6. CASE /\ tick.p > 0 /\ odds(raw) = 0 /\ ctl' = after(raw, Controlling) /\ stop' = stop
             /\ \E goal \in {Target(tick.p, Candidate(raw))} :
                  tick' = [tick EXCEPT !.at = "writeV",
                              !.v = Towards(tick.vals.v, goal.v, 50),
                              !.i = Towards(tick.vals.i, Least((12 * goal.i) \div 10, AmpLimit), 20)]
    <3>1. PICK goal : goal = Target(tick.p, Candidate(raw))
      OBVIOUS
    <3>2. tick.p \in 1 .. PowerLimit /\ Candidate(raw) \in Ohms
      BY <1>a, <2>3, <2>4, <2>6, Limits DEF Numbers
    <3>3. goal.v \in 0 .. VoltLimit /\ goal.i \in 0 .. AmpLimit
      BY <3>1, <3>2, GoalInRange
    <3>4. PICK v \in 0 .. VoltLimit : v = Towards(tick.vals.v, goal.v, 50)
      BY <1>c, <3>3, Limits, TowardsInRange, Zenon DEF InRange
    <3>5. PICK top \in 0 .. AmpLimit : top = Least((12 * goal.i) \div 10, AmpLimit)
      BY <3>3, Limits DEF Least
    <3>6. PICK i \in 0 .. AmpLimit : i = Towards(tick.vals.i, top, 20)
      BY <1>c, Limits, TowardsInRange, Zenon DEF InRange
    <3>7. tick' = [at |-> "writeV", p |-> tick.p, m |-> tick.m, vals |-> tick.vals, v |-> v, i |-> i,
                   failed |-> tick.failed]
      <4>1. tick' = [tick EXCEPT !.at = "writeV", !.v = v, !.i = i]
        BY <2>6, <3>1, <3>4, <3>5, <3>6, Zenon
      <4>. QED BY <1>a, <4>1, Zenon DEF Shapes
    <3>8. PICK c : c = ctl' /\ c = after(raw, Controlling)
      BY <2>6
    <3>9. /\ c = [target |-> c.target, status |-> c.status, r |-> c.r, odd |-> c.odd]
          /\ c.target = ctl.target /\ c.r = res(raw) /\ c.odd = odds(raw)
      BY <3>8
    <3>. HIDE DEF odds, res, after
    <3>10. Shapes'
      BY <1>a, <1>b, <2>6, <3>7, <3>8, <3>9, Zenon DEF Shapes
    <3>11. Numbers' /\ SetPointsInRange'
      BY <1>a, <1>b, <2>3, <2>4, <3>7, <3>8, <3>9, Zenon DEF Numbers, SetPointsInRange, InRange
    <3>12. StopHolds'
      BY <1>a, <1>b, <2>6, <3>7, <3>8, <3>9 DEF StopHolds, Remaining
    <3>. QED BY <3>10, <3>11, <3>12 DEF PowerInv
  <2>7. PICK kept : kept = [ctl EXCEPT !.odd = odds(raw), !.r = IF NonOhmic(raw) THEN @ ELSE Candidate(raw)]
    OBVIOUS
  <2>8. kept = [target |-> ctl.target, status |-> ctl.status, r |-> res(raw), odd |-> odds(raw)]
    BY <1>a, <2>7, Zenon DEF Shapes
  <2>9. \A status : [kept EXCEPT !.status = status] = after(raw, status)
    BY <2>8
  <2>. DEFINE ends(c) == ctl' = c /\ tick' = Waiting /\ stop' = stop
  <2>10. IF tick.p <= 0 THEN ends([kept EXCEPT !.status = Standby])
         ELSE IF odds(raw) >= 3 THEN ends([kept EXCEPT !.status = Fallback])
         ELSE IF odds(raw) > 0 THEN ends([kept EXCEPT !.status = Controlling])
         ELSE \E goal \in {Target(tick.p, Candidate(raw))} :
                /\ ctl' = [kept EXCEPT !.status = Controlling] /\ stop' = stop
                /\ tick' = [tick EXCEPT !.at = "writeV",
                              !.v = Towards(tick.vals.v, goal.v, 50),
                              !.i = Towards(tick.vals.i, Least((12 * goal.i) \div 10, AmpLimit), 20)]
    BY <1>0, <1>3, <2>7, SMTT(30) DEF Decide
  <2>11. tick.p \in Int /\ odds(raw) \in Int /\ odds(raw) >= 0
    BY <1>a, <2>4, Limits DEF Numbers
  <2>. HIDE DEF odds, res, after
  <2>12. CASE tick.p <= 0 \/ odds(raw) >= 3 \/ odds(raw) > 0
    <3>1. PICK status : ends([kept EXCEPT !.status = status])
      BY <2>10, <2>12
    <3>. QED BY <2>5, <2>9, <3>1, Zenon
  <2>13. CASE ~(tick.p <= 0) /\ ~(odds(raw) >= 3) /\ ~(odds(raw) > 0)
    <3>1. tick.p > 0 /\ odds(raw) = 0
      BY <2>11, <2>13
    <3>2. [kept EXCEPT !.status = Controlling] = after(raw, Controlling)
      BY <2>9, Zenon
    <3>. QED BY <2>6, <2>10, <2>13, <3>1, <3>2
  <2>. QED BY <2>12, <2>13
<1>. QED BY <1>1, <1>2, <1>3

LEMMA OneMoreWrite ==
    ASSUME NEW w \in Nat
    PROVE  /\ w + 1 \in Nat
           /\ w + 1 <= 2 => (w + 1) + 0 <= 2
           /\ w + 2 <= 2 => w + 1 <= 2 /\ (w + 1) + 1 <= 2
  OBVIOUS

(* A write of the loop, which the supply takes or not.                     *)
LEMMA WriteInv ==
    ASSUME PowerInv, tick.at \in {"writeV", "writeI"}, Counted, UNCHANGED <<load, oper>>,
           NEW v \in 0 .. VoltLimit, NEW i \in 0 .. AmpLimit,
           supply' = [err |-> supply.err, on |-> supply.on, v |-> v, i |-> i],
           NEW status, ctl' = [target |-> ctl.target, status |-> status, r |-> ctl.r, odd |-> ctl.odd],
           \/ tick.at = "writeI" /\ tick' = Waiting
           \/ /\ tick.at = "writeV"
              /\ \E f : tick' = [at |-> "writeI", p |-> tick.p, m |-> tick.m, vals |-> tick.vals,
                                 v |-> tick.v, i |-> tick.i, failed |-> f]
    PROVE  PowerInv'
<1>a. Shapes /\ Numbers /\ SetPointsInRange /\ StopHolds
  BY Zenon DEF PowerInv
<1>1. PICK a, p, vals, x, y, f :
         /\ tick' = [at |-> a, p |-> p, m |-> tick.m, vals |-> vals, v |-> x, i |-> y, failed |-> f]
         /\ p \in 0 .. PowerLimit
         /\ \/ a = "wait" /\ tick.at = "writeI"
            \/ a = "writeI" /\ tick.at = "writeV" /\ x = tick.v /\ y = tick.i
  <2>1. CASE tick.at = "writeI" /\ tick' = Waiting
    BY <2>1, Zeros, Zenon DEF Waiting, Idle
  <2>2. CASE tick.at = "writeV"
    BY <1>a, <2>2, Zenon DEF Numbers
  <2>. QED BY <2>1, <2>2, Zenon
<1>2. PICK w \in Nat : w = stop.writes
  BY <1>a DEF StopHolds
<1>3. stop' = [in |-> stop.in, writes |-> IF stop.in THEN w + 1 ELSE w]
  BY <1>a, <1>2, Zenon DEF Counted, Shapes
<1>4. Shapes'
  BY <1>1, <1>3, Zenon DEF Shapes
<1>5. Numbers'
  BY <1>a, <1>1, Zenon DEF Numbers
<1>6. SetPointsInRange'
  BY <1>a, <1>1, Zenon DEF SetPointsInRange, InRange
<1>7. StopHolds'
  <2>1. \/ Remaining = 1 /\ Remaining' = 0
        \/ Remaining = 2 /\ Remaining' = 1
    BY <1>1, Zenon DEF Remaining
  <2>2. /\ stop.in => ctl.target = 0 /\ w + Remaining <= 2
        /\ w <= 2 /\ ctl'.target = ctl.target
    BY <1>a, <1>2, Zenon DEF StopHolds
  <2>3. stop'.in = stop.in /\ stop'.writes = IF stop.in THEN w + 1 ELSE w
    BY <1>3
  <2>4. stop'.writes \in Nat /\ stop'.writes <= 2 /\ (stop.in => stop'.writes + Remaining' <= 2)
    <3>1. CASE stop.in
      <4>1. stop'.writes = w + 1 /\ w + Remaining <= 2
        BY <2>2, <2>3, <3>1, Zenon
      <4>2. w + 1 \in Nat /\ w + 1 <= 2 /\ (w + 1) + Remaining' <= 2
        <5>1. CASE Remaining = 1 /\ Remaining' = 0
          <6>1. w + 1 <= 2
            BY <4>1, <5>1, Zenon
          <6>. QED BY <5>1, <6>1, OneMoreWrite, Zenon
        <5>2. CASE Remaining = 2 /\ Remaining' = 1
          <6>1. w + 2 <= 2
            BY <4>1, <5>2, Zenon
          <6>. QED BY <5>2, <6>1, OneMoreWrite, Zenon
        <5>. QED BY <2>1, <5>1, <5>2, Zenon
      <4>. QED BY <4>1, <4>2, Zenon
    <3>2. CASE ~stop.in
      BY <1>2, <2>2, <2>3, <3>2, Zenon
    <3>. QED BY <3>1, <3>2, Zenon
  <2>. QED BY <2>2, <2>3, <2>4, Zenon DEF StopHolds
<1>. QED BY <1>4, <1>5, <1>6, <1>7, Zenon DEF PowerInv

LEMMA WriteVoltageInv == PowerInv /\ WriteVoltage => PowerInv'
<1>. SUFFICES ASSUME PowerInv, WriteVoltage PROVE PowerInv'
  OBVIOUS
<1>a. Shapes /\ Numbers /\ SetPointsInRange
  BY DEF PowerInv
<1>b. tick.at = "writeV" /\ Counted /\ UNCHANGED <<ctl, load, oper>>
  BY DEF WriteVoltage
<1>1. PICK v \in 0 .. VoltLimit :
         supply' = [err |-> supply.err, on |-> supply.on, v |-> v, i |-> supply.i]
  <2>1. /\ supply = [err |-> supply.err, on |-> supply.on, v |-> supply.v, i |-> supply.i]
        /\ supply.v \in 0 .. VoltLimit /\ tick.v \in 0 .. VoltLimit
    BY <1>a, <1>b DEF Shapes, SetPointsInRange, InRange
  <2>2. supply' = supply \/ supply' = [supply EXCEPT !.v = tick.v]
    BY DEF WriteVoltage
  <2>3. [supply EXCEPT !.v = tick.v] = [err |-> supply.err, on |-> supply.on, v |-> tick.v, i |-> supply.i]
    BY <2>1
  <2>. QED BY <2>1, <2>2, <2>3, Zenon
<1>2. PICK f : tick' = [at |-> "writeI", p |-> tick.p, m |-> tick.m, vals |-> tick.vals,
                        v |-> tick.v, i |-> tick.i, failed |-> f]
  <2>1. tick = [at |-> tick.at, p |-> tick.p, m |-> tick.m, vals |-> tick.vals, v |-> tick.v, i |-> tick.i,
                failed |-> tick.failed]
    BY <1>a DEF Shapes
  <2>2. \/ tick' = [tick EXCEPT !.at = "writeI"]
        \/ tick' = [tick EXCEPT !.at = "writeI", !.failed = TRUE]
    BY Zenon DEF WriteVoltage
  <2>. QED BY <2>1, <2>2, Zenon
<1>3. ctl' = [target |-> ctl.target, status |-> ctl.status, r |-> ctl.r, odd |-> ctl.odd]
  BY <1>a, <1>b, SMTT(30) DEF Shapes
<1>4. supply.i \in 0 .. AmpLimit
  BY <1>a, Zenon DEF SetPointsInRange, InRange
<1>. QED BY <1>b, <1>1, <1>2, <1>3, <1>4, WriteInv, Zenon

LEMMA WriteCurrentInv == PowerInv /\ WriteCurrent => PowerInv'
<1>. SUFFICES ASSUME PowerInv, WriteCurrent PROVE PowerInv'
  OBVIOUS
<1>a. Shapes /\ Numbers /\ SetPointsInRange
  BY DEF PowerInv
<1>b. tick.at = "writeI" /\ tick' = Waiting /\ Counted /\ UNCHANGED <<load, oper>>
  BY DEF WriteCurrent
<1>1. PICK i \in 0 .. AmpLimit :
         supply' = [err |-> supply.err, on |-> supply.on, v |-> supply.v, i |-> i]
  <2>1. /\ supply = [err |-> supply.err, on |-> supply.on, v |-> supply.v, i |-> supply.i]
        /\ supply.i \in 0 .. AmpLimit /\ tick.i \in 0 .. AmpLimit
    BY <1>a, <1>b DEF Shapes, SetPointsInRange, InRange
  <2>2. supply' = supply \/ supply' = [supply EXCEPT !.i = tick.i]
    BY DEF WriteCurrent
  <2>3. [supply EXCEPT !.i = tick.i] = [err |-> supply.err, on |-> supply.on, v |-> supply.v, i |-> tick.i]
    BY <2>1
  <2>. QED BY <2>1, <2>2, <2>3, Zenon
<1>2. PICK status : ctl' = [target |-> ctl.target, status |-> status, r |-> ctl.r, odd |-> ctl.odd]
  <2>1. ctl = [target |-> ctl.target, status |-> ctl.status, r |-> ctl.r, odd |-> ctl.odd]
    BY <1>a DEF Shapes
  <2>2. ctl' = ctl \/ ctl' = [ctl EXCEPT !.status = Fallback]
    BY DEF WriteCurrent
  <2>. QED BY <2>1, <2>2, Zenon
<1>3. supply.v \in 0 .. VoltLimit
  BY <1>a DEF SetPointsInRange, InRange
<1>. QED BY <1>b, <1>1, <1>2, <1>3, WriteInv

LEMMA SetTargetInv == PowerInv /\ SetTarget => PowerInv'
<1>. SUFFICES ASSUME PowerInv, SetTarget PROVE PowerInv'
  OBVIOUS
<1>a. Shapes /\ Numbers /\ SetPointsInRange /\ StopHolds
  BY DEF PowerInv
<1>1. PICK p \in 0 .. PowerLimit : p = oper.val
  BY <1>a DEF Numbers
<1>2. ctl' = [target |-> p, status |-> ctl.status, r |-> ctl.r, odd |-> ctl.odd]
  BY <1>a, <1>1 DEF SetTarget, Shapes
<1>3. PICK b : stop' = [in |-> b, writes |-> 0] /\ (b => p = 0)
  BY <1>1, Zenon DEF SetTarget
<1>4. UNCHANGED <<supply, load, tick>> /\ oper' = NoRequest
  BY Zenon DEF SetTarget
<1>5. Shapes'
  BY <1>a, <1>2, <1>3, <1>4, Zenon DEF Shapes
<1>6. Numbers' /\ SetPointsInRange'
  BY <1>a, <1>2, <1>4, Limits, SMTT(30) DEF Numbers, SetPointsInRange, NoRequest
<1>7. StopHolds'
  BY <1>2, <1>3 DEF StopHolds, Remaining
<1>. QED BY <1>5, <1>6, <1>7 DEF PowerInv

(* What happens to the supply and to a request besides the loop.           *)
LEMMA OutsideInv ==
    ASSUME PowerInv, UNCHANGED <<ctl, tick, stop>>, load' \in Nat \ {0}, oper'.val \in 0 .. PowerLimit,
           supply' = [err |-> supply'.err, on |-> supply'.on, v |-> supply'.v, i |-> supply'.i],
           InRange(supply'.v, supply'.i)
    PROVE  PowerInv'
<1>a. Shapes /\ Numbers /\ SetPointsInRange /\ StopHolds
  BY Zenon DEF PowerInv
<1>1. Shapes'
  BY <1>a, SMTT(30) DEF Shapes
<1>2. Numbers' /\ SetPointsInRange'
  BY <1>a DEF Numbers, SetPointsInRange, InRange
<1>3. StopHolds'
  BY <1>a DEF StopHolds, Remaining
<1>. QED BY <1>1, <1>2, <1>3 DEF PowerInv

LEMMA OthersInv ==
    ASSUME PowerInv,
           \/ SetPointsWritten \/ SupplyChanges
           \/ \E p \in Targets, readable \in BOOLEAN : RequestTarget(p, readable)
    PROVE  PowerInv'
<1>a. Shapes /\ Numbers /\ SetPointsInRange
  BY Zenon DEF PowerInv
<1>b. /\ supply = [err |-> supply.err, on |-> supply.on, v |-> supply.v, i |-> supply.i]
      /\ InRange(supply.v, supply.i) /\ load \in Nat \ {0} /\ oper.val \in 0 .. PowerLimit
  BY <1>a DEF Shapes, Numbers, SetPointsInRange
<1>1. CASE SetPointsWritten
  <2>1. PICK s \in SetPoints : supply' = [supply EXCEPT !.v = s.v, !.i = s.i]
    BY <1>1, Zenon DEF SetPointsWritten
  <2>2. supply' = [err |-> supply.err, on |-> supply.on, v |-> s.v, i |-> s.i]
    BY <1>b, <2>1, Zenon
  <2>3. InRange(s.v, s.i)
    BY PowerConstants DEF InRange
  <2>. QED BY <1>b, <1>1, <2>2, <2>3, OutsideInv, Zenon DEF SetPointsWritten
<1>2. CASE SupplyChanges
  <2>1. PICK e, o : supply' = [err |-> e, on |-> o, v |-> supply.v, i |-> supply.i]
    <3>1. supply' = supply \/ supply' = [supply EXCEPT !.err = ~@] \/ supply' = [supply EXCEPT !.on = ~@]
      BY <1>2 DEF SupplyChanges
    <3>2. supply' = supply \/ (\E x : supply' = [supply EXCEPT !.err = x]) \/ \E x : supply' = [supply EXCEPT !.on = x]
      BY <3>1
    <3>. QED BY <1>b, <3>2
  <2>2. load' \in Nat \ {0}
    BY <1>b, <1>2, PowerConstants DEF SupplyChanges
  <2>3. UNCHANGED <<ctl, tick, oper, stop>>
    BY <1>2 DEF SupplyChanges
  <2>. QED BY <1>b, <2>1, <2>2, <2>3, OutsideInv
<1>3. CASE \E p \in Targets, readable \in BOOLEAN : RequestTarget(p, readable)
  <2>1. oper'.val \in 0 .. PowerLimit /\ UNCHANGED <<ctl, supply, load, tick, stop>>
    BY <1>3 DEF RequestTarget
  <2>. QED BY <1>b, <2>1, OutsideInv
<1>. QED BY <1>1, <1>2, <1>3

(* runChannelPowerControl, with operators and the supply beside it.        *)
THEOREM PowerInvariant == PowerSpec => []PowerInv
<1>1. PowerInit => PowerInv
  BY InitPower
<1>2. PowerInv /\ [PowerNext]_powerVars => PowerInv'
  <2>. SUFFICES ASSUME PowerInv, [PowerNext]_powerVars PROVE PowerInv'
    OBVIOUS
  <2>1. CASE UNCHANGED powerVars
    BY <2>1, Zenon DEF powerVars, PowerInv, Shapes, Numbers, SetPointsInRange, StopHolds, Remaining
  <2>2. CASE PowerNext
    BY <2>2, TickBeginsInv, ReadSupplyInv, DecideInv, WriteVoltageInv, WriteCurrentInv, SetTargetInv,
       OthersInv DEF PowerNext, Loop
  <2>. QED BY <2>1, <2>2
<1>. QED BY <1>1, <1>2, PTL DEF PowerSpec

(* runChannelPowerControl, for any loads, false measurements and set       *)
(* points: at most one pair of writes after a stop, and set points within  *)
(* 80 V and 25 A whatever the loop read and computed.                      *)
THEOREM LoopStaysContained == PowerSpec => []LoopIsContained
<1>1. PowerInv => LoopIsContained
  BY DEF PowerInv, StopHolds, SetPointsInRange, InRange, LoopIsContained
<1>. QED BY <1>1, PowerInvariant, PTL
=============================================================================

--------------------------- MODULE PdoPlanProofs ----------------------------
(***************************************************************************)
(* The PDO tool, for any node, inputs and number of runs that do not       *)
(* overlap: a PDO that is valid has the identifier and the mapping that it *)
(* had at first or that one run asked for.  The argument is what the steps *)
(* of a plan that are done have made of the record (Applied): from the     *)
(* second step to the last but two it is not valid.                        *)
(***************************************************************************)
EXTENDS PdoPlan, TLAPS

-----------------------------------------------------------------------------
(* The plan                                                                *)

PlanSteps == [field : {"preop", "cob", "count", "slot", "type", "timer", "start"},
              value : Nat \cup [cob : 0 .. MaxCobID, valid : BOOLEAN] \cup [k : Nat, entry : Entries]]
Timers(in) == IF in.timer THEN 1 ELSE 0
Length(in) == Len(in.map) + 7 + Timers(in)

LEMMA ConcatFacts ==
    ASSUME NEW S, NEW s \in Seq(S), NEW t \in Seq(S)
    PROVE  /\ s \o t \in Seq(S) /\ Len(s \o t) = Len(s) + Len(t)
           /\ \A i \in 1 .. Len(s) : (s \o t)[i] = s[i]
           /\ \A i \in 1 .. Len(t) : (s \o t)[Len(s) + i] = t[i]
  OBVIOUS

(* What the steps of a plan are.                                           *)
IsPlan(P, in) ==
    LET m == Len(in.map)
        n == Length(in) IN
    /\ P \in Seq(PlanSteps) /\ Len(P) = n
    /\ P[1].field = "preop"
    /\ P[2] = Step("cob", [cob |-> in.cob, valid |-> FALSE])
    /\ P[3] = Step("count", 0)
    /\ \A k \in 1 .. m : P[3 + k] = Step("slot", [k |-> k, entry |-> in.map[k]])
    /\ \A j \in m + 4 .. n - 3 : P[j].field \in {"type", "timer"}
    /\ P[n - 2] = Step("count", m)
    /\ P[n - 1] = Step("cob", [cob |-> in.cob, valid |-> FinallyValid(in)])
    /\ P[n].field = "start"

LEMMA PlanFacts ==
    ASSUME NEW in \in Inputs, InputIsValid(in)
    PROVE  IsPlan(BuildPDOPlan(in), in)
<1>. DEFINE m == Len(in.map)
            A == <<Step("preop", 0), Step("cob", [cob |-> in.cob, valid |-> FALSE]), Step("count", 0)>>
            B == [k \in DOMAIN in.map |-> Step("slot", [k |-> k, entry |-> in.map[k]])]
            C == <<Step("type", 0)>>
            D == IF in.timer THEN <<Step("timer", 0)>> ELSE <<>>
            F == <<Step("count", Len(in.map)),
                   Step("cob", [cob |-> in.cob, valid |-> FinallyValid(in)]), Step("start", 0)>>
<1>0. /\ in.map \in Seq(Entries) /\ m \in Nat /\ DOMAIN in.map = 1 .. m
      /\ in.cob \in 0 .. MaxCobID
  <2>1. in.map \in Seq(Entries) /\ in.cob \in 1 .. MaxCobID
    BY PlanConstants DEF InputIsValid
  <2>. QED BY <2>1
<1>1. A \in Seq(PlanSteps) /\ Len(A) = 3 /\ A[1].field = "preop"
      /\ A[2] = Step("cob", [cob |-> in.cob, valid |-> FALSE]) /\ A[3] = Step("count", 0)
  BY <1>0 DEF PlanSteps, Step
<1>2. B \in Seq(PlanSteps) /\ Len(B) = m
      /\ \A k \in 1 .. m : B[k] = Step("slot", [k |-> k, entry |-> in.map[k]])
  BY <1>0 DEF PlanSteps, Step
<1>3. C \in Seq(PlanSteps) /\ Len(C) = 1 /\ C[1].field = "type"
  BY DEF PlanSteps, Step
<1>4. /\ D \in Seq(PlanSteps) /\ Len(D) = Timers(in)
      /\ \A j \in 1 .. Len(D) : D[j].field = "timer"
  <2>1. CASE in.timer
    <3>1. D = <<Step("timer", 0)>>
      BY <2>1
    <3>2. Step("timer", 0) \in PlanSteps /\ Step("timer", 0).field = "timer"
      BY DEF PlanSteps, Step
    <3>3. Timers(in) = 1
      BY <2>1 DEF Timers
    <3>. QED BY <3>1, <3>2, <3>3
  <2>2. CASE ~in.timer
    <3>1. D = <<>> /\ Timers(in) = 0
      BY <2>2 DEF Timers
    <3>. QED BY <3>1
  <2>. QED BY <2>1, <2>2
<1>5. F \in Seq(PlanSteps) /\ Len(F) = 3 /\ F[1] = Step("count", m)
      /\ F[2] = Step("cob", [cob |-> in.cob, valid |-> FinallyValid(in)])
      /\ F[3].field = "start"
  <2>1. Step("count", m) \in PlanSteps /\ Step("start", 0) \in PlanSteps
    BY <1>0 DEF PlanSteps, Step
  <2>2. FinallyValid(in) \in BOOLEAN
    BY DEF FinallyValid
  <2>3. [cob |-> in.cob, valid |-> FinallyValid(in)] \in [cob : 0 .. MaxCobID, valid : BOOLEAN]
    BY <1>0, <2>2
  <2>4. Step("cob", [cob |-> in.cob, valid |-> FinallyValid(in)]) \in PlanSteps
    BY <2>3 DEF PlanSteps, Step
  <2>5. Step("start", 0).field = "start"
    BY DEF Step
  <2>. QED BY <2>1, <2>4, <2>5
<1>. HIDE DEF A, B, C, D, F
<1>. DEFINE Joined(s, u, v) ==
                /\ v \in Seq(PlanSteps) /\ Len(v) = Len(s) + Len(u)
                /\ \A i \in 1 .. Len(s) : v[i] = s[i]
                /\ \A i \in 1 .. Len(u) : v[Len(s) + i] = u[i]
<1>j. \A s, u \in Seq(PlanSteps) : Joined(s, u, s \o u)
  <2>1. ASSUME NEW s \in Seq(PlanSteps), NEW u \in Seq(PlanSteps) PROVE Joined(s, u, s \o u)
    BY ConcatFacts
  <2>. QED BY <2>1, Zenon
<1>. DEFINE X == A \o B
            Y == X \o C
            Z == Y \o D
            P == Z \o F
            t == Timers(in)
<1>t. t \in {0, 1} /\ Len(D) = t /\ Length(in) = m + 7 + t
  BY <1>4 DEF Length, Timers
<1>6. /\ X \in Seq(PlanSteps) /\ Len(X) = 3 + m
      /\ \A i \in 1 .. 3 : X[i] = A[i]
      /\ \A i \in 1 .. m : X[3 + i] = B[i]
  <2>1. Joined(A, B, X)
    BY <1>j, <1>1, <1>2, Zenon
  <2>. HIDE DEF X
  <2>. QED BY <1>1, <1>2, <2>1
<1>. HIDE DEF t
<1>7. /\ Y \in Seq(PlanSteps) /\ Len(Y) = 4 + m
      /\ \A i \in 1 .. 3 + m : Y[i] = X[i]
      /\ Y[4 + m] = C[1]
  <2>1. Joined(X, C, Y)
    BY <1>j, <1>3, <1>6, Zenon
  <2>. HIDE DEF X, Y
  <2>2. Y[Len(X) + 1] = C[1]
    BY <1>3, <2>1
  <2>3. Len(X) + 1 = 4 + m
    BY <1>0, <1>6
  <2>. QED BY <1>0, <1>3, <1>6, <2>1, <2>2, <2>3
<1>8. /\ Z \in Seq(PlanSteps) /\ Len(Z) = 4 + m + t
      /\ \A i \in 1 .. 4 + m : Z[i] = Y[i]
      /\ \A i \in 1 .. t : Z[4 + m + i] = D[i]
  <2>1. Joined(Y, D, Z)
    BY <1>j, <1>4, <1>7, Zenon
  <2>. HIDE DEF Y, Z
  <2>. QED BY <1>t, <1>4, <1>7, <2>1
<1>9. /\ P \in Seq(PlanSteps) /\ Len(P) = 7 + m + t
      /\ \A i \in 1 .. 4 + m + t : P[i] = Z[i]
      /\ P[5 + m + t] = F[1] /\ P[6 + m + t] = F[2] /\ P[7 + m + t] = F[3]
  <2>1. Joined(Z, F, P)
    BY <1>j, <1>5, <1>8, Zenon
  <2>. HIDE DEF Z, P
  <2>2. P[Len(Z) + 1] = F[1] /\ P[Len(Z) + 2] = F[2] /\ P[Len(Z) + 3] = F[3]
    BY <1>5, <2>1
  <2>3. Len(Z) + 1 = 5 + m + t /\ Len(Z) + 2 = 6 + m + t /\ Len(Z) + 3 = 7 + m + t
    BY <1>0, <1>t, <1>8
  <2>. QED BY <1>5, <1>8, <2>1, <2>2, <2>3, Zenon
<1>10. BuildPDOPlan(in) = P
  BY DEF BuildPDOPlan, P, Z, Y, X, A, B, C, D, F
<1>. HIDE DEF P, Z, Y, X
<1>i. \A i \in 1 .. 3 + m : P[i] = X[i]
  <2>1. ASSUME NEW i \in 1 .. 3 + m PROVE P[i] = X[i]
    <3>1. i \in 1 .. 4 + m /\ i \in 1 .. 4 + m + t
      BY <1>0, <1>t
    <3>. QED BY <1>7, <1>8, <1>9, <3>1, Zenon
  <2>. QED BY <2>1
<1>11. P[1] = A[1] /\ P[2] = A[2] /\ P[3] = A[3]
  BY <1>0, <1>i, <1>6
<1>12. \A k \in 1 .. m : P[3 + k] = B[k]
  <2>1. ASSUME NEW k \in 1 .. m PROVE P[3 + k] = B[k]
    <3>1. 3 + k \in 1 .. 3 + m
      BY <1>0
    <3>. QED BY <1>i, <1>6, <3>1
  <2>. QED BY <2>1
<1>13. P[4 + m].field = "type"
  <2>1. 4 + m \in 1 .. 4 + m /\ 4 + m \in 1 .. 4 + m + t
    BY <1>0, <1>t
  <2>. QED BY <1>3, <1>7, <1>8, <1>9, <2>1, Zenon
<1>14. \A j \in m + 4 .. Length(in) - 3 : P[j].field \in {"type", "timer"}
  <2>1. ASSUME NEW j \in m + 4 .. Length(in) - 3, j # 4 + m PROVE P[j].field = "timer"
    <3>1. t = 1 /\ j = 4 + m + 1 /\ j \in 1 .. 4 + m + t
      BY <1>0, <1>t, <2>1
    <3>a. 1 \in 1 .. t /\ 1 \in 1 .. Len(D)
      BY <1>t, <3>1
    <3>2. Z[4 + m + 1] = D[1] /\ D[1].field = "timer"
      BY <1>4, <1>8, <3>a, Zenon
    <3>. QED BY <1>9, <3>1, <3>2
  <2>. QED BY <1>13, <2>1
<1>15. Length(in) - 2 = 5 + m + t /\ Length(in) - 1 = 6 + m + t /\ Length(in) = 7 + m + t
  BY <1>0, <1>t
<1>. QED BY <1>1, <1>2, <1>5, <1>9, <1>10, <1>11, <1>12, <1>14, <1>15, Zenon DEF IsPlan

-----------------------------------------------------------------------------
(* A PDO record while a plan is carried out                                *)

(* What n steps of the plan have made of it.                               *)
Applied(rec, in, n) ==
    LET m == Len(in.map)
        last == Length(in) IN
    /\ n \in 2 .. last - 2 => ~rec.valid
    /\ n >= 2 => rec.cob = in.cob
    /\ \A k \in 1 .. m : k + 3 <= n => rec.slots[k] = in.map[k]
    /\ n >= last - 2 => rec.count = m
    /\ n >= last - 1 => Wire(rec) = Wanted(in)

LEMMA SlotSet ==
    ASSUME NEW slots \in [1 .. MaxSlots -> Entries], NEW k \in 1 .. MaxSlots, NEW e \in Entries
    PROVE  \A j \in 1 .. MaxSlots :
              [slots EXCEPT ![k] = e][j] = IF j = k THEN e ELSE slots[j]
  OBVIOUS

LEMMA StepApplies ==
    ASSUME NEW in \in Inputs, InputIsValid(in), NEW P, IsPlan(P, in),
           NEW n \in 0 .. Length(in) - 1,
           NEW rec \in PDORecords, Applied(rec, in, n)
    PROVE  /\ Taken(rec, P[n + 1]) \in PDORecords
           /\ Applied(Taken(rec, P[n + 1]), in, n + 1)
           /\ Taken(rec, P[n + 1]).valid
                => Taken(rec, P[n + 1]) = rec \/ Wire(Taken(rec, P[n + 1])) = Wanted(in)
<1>. DEFINE m == Len(in.map)
            last == Length(in)
<1>0. /\ in.map \in Seq(Entries) /\ m \in Nat /\ DOMAIN in.map = 1 .. m /\ m <= MaxSlots
      /\ in.cob \in 0 .. MaxCobID /\ MaxSlots \in Nat
  <2>1. in.map \in Seq(Entries) /\ in.cob \in 1 .. MaxCobID /\ Len(in.map) <= MaxSlots /\ MaxSlots \in Nat
    BY PlanConstants DEF InputIsValid
  <2>. QED BY <2>1
<1>1. last \in Nat /\ last >= m + 7 /\ last <= m + 8
  <2>1. Timers(in) \in {0, 1}
    BY Zenon DEF Timers
  <2>. QED BY <1>0, <2>1 DEF Length
<1>2. PICK s : s = P[n + 1]
  OBVIOUS
<1>3. PICK new : new = Taken(rec, s)
  OBVIOUS
<1>4. FinallyValid(in) \in BOOLEAN /\ FALSE \in BOOLEAN
  BY DEF FinallyValid
<1>q. in \in [dir : Dirs, pdo : Nat, cob : Nat, timer : BOOLEAN, disabled : BOOLEAN,
             sub0 : BOOLEAN, map : Seq(Entries)]
  BY PlanConstants
<1>c. in.cob \in 0 .. MaxCobID
  BY <1>0
<1>r. /\ rec.cob \in 0 .. MaxCobID /\ rec.valid \in BOOLEAN /\ rec.count \in 0 .. MaxSlots
      /\ rec.slots \in [1 .. MaxSlots -> Entries]
  BY DEF PDORecords
<1>. HIDE DEF last, m
<1>5. CASE n = 0
  <2>1. s.field = "preop"
    BY <1>2, <1>5 DEF IsPlan
  <2>2. new = rec
    BY <1>3, <2>1 DEF Taken
  <2>3. Applied(rec, in, 1)
    BY <1>0, <1>1, <1>5 DEF Applied, last, m
  <2>. QED BY <1>2, <1>3, <1>5, <2>2, <2>3
<1>6. CASE n = 1
  <2>1. s = Step("cob", [cob |-> in.cob, valid |-> FALSE])
    BY <1>2, <1>6 DEF IsPlan
  <2>2. new = Record(in.cob, FALSE, rec.count, rec.slots)
    BY <1>3, <2>1, Zenon DEF Taken, Step
  <2>3. new \in PDORecords /\ ~new.valid /\ new.cob = in.cob
    <3>c. PICK c \in 0 .. MaxCobID : c = in.cob
      BY <1>c
    <3>r. new = [cob |-> c, valid |-> FALSE, count |-> rec.count, slots |-> rec.slots]
      BY <2>2, <3>c DEF Record
    <3>1. new \in PDORecords
      BY <1>r, <3>r DEF PDORecords
    <3>2. ~new.valid /\ new.cob = in.cob
      BY <2>2 DEF Record
    <3>. QED BY <3>1, <3>2
  <2>4. Applied(new, in, 2)
    BY <1>0, <1>1, <2>3 DEF Applied, last, m
  <2>. QED BY <1>2, <1>3, <1>6, <2>3, <2>4
<1>7. CASE n = 2
  <2>1. s = Step("count", 0)
    BY <1>2, <1>7 DEF IsPlan
  <2>2. new = Record(rec.cob, rec.valid, 0, rec.slots)
    BY <1>3, <2>1 DEF Taken, Step
  <2>3. rec.cob = in.cob /\ ~rec.valid
    BY <1>0, <1>1, <1>7 DEF Applied, last, m
  <2>4. new \in PDORecords /\ ~new.valid /\ new.cob = in.cob
    <3>1. 0 \in 0 .. MaxSlots
      BY <1>0
    <3>2. new \in PDORecords
      BY <1>r, <2>2, <3>1 DEF PDORecords, Record
    <3>3. /\ new.valid = rec.valid /\ new.cob = rec.cob /\ new.slots = rec.slots
          /\ new.count = 0
      BY <2>2 DEF Record
    <3>. QED BY <2>3, <3>2, <3>3
  <2>5. Applied(new, in, 3)
    BY <1>0, <1>1, <2>4 DEF Applied, last, m
  <2>. QED BY <1>2, <1>3, <1>7, <2>4, <2>5
<1>8. CASE n \in 3 .. m + 2
  <2>0. PICK k \in 1 .. m : k = n - 2
    BY <1>0, <1>8
  <2>1. s = Step("slot", [k |-> k, entry |-> in.map[k]])
    <3>1. 3 + k = n + 1
      BY <1>0, <1>8, <2>0
    <3>. QED BY <1>2, <2>0, <3>1, Zenon DEF IsPlan, m
  <2>2. new = Record(rec.cob, rec.valid, rec.count, [rec.slots EXCEPT ![k] = in.map[k]])
    BY <1>3, <2>1 DEF Taken, Step
  <2>3. rec.cob = in.cob /\ ~rec.valid /\ \A j \in 1 .. m : j < k => rec.slots[j] = in.map[j]
    BY <1>0, <1>1, <1>8, <2>0 DEF Applied, last, m
  <2>4. in.map[k] \in Entries /\ k \in 1 .. MaxSlots
    BY <1>0, <2>0
  <2>5. /\ new \in PDORecords /\ ~new.valid /\ new.cob = in.cob
        /\ \A j \in 1 .. m : new.slots[j] = IF j = k THEN in.map[k] ELSE rec.slots[j]
    <3>1. 1 .. m \subseteq 1 .. MaxSlots
      BY <1>0
    <3>2. [rec.slots EXCEPT ![k] = in.map[k]] \in [1 .. MaxSlots -> Entries]
      BY <1>r, <2>4
    <3>3. new \in PDORecords
      BY <1>r, <2>2, <3>2 DEF PDORecords, Record
    <3>4. /\ new.valid = rec.valid /\ new.cob = rec.cob
          /\ new.slots = [rec.slots EXCEPT ![k] = in.map[k]]
      BY <2>2 DEF Record
    <3>5. \A j \in 1 .. m : new.slots[j] = IF j = k THEN in.map[k] ELSE rec.slots[j]
      <4>1. \A j \in 1 .. MaxSlots :
               [rec.slots EXCEPT ![k] = in.map[k]][j] = IF j = k THEN in.map[k] ELSE rec.slots[j]
        BY <1>r, <2>4, SlotSet
      <4>. QED BY <3>1, <3>4, <4>1, Zenon
    <3>. QED BY <2>3, <3>3, <3>4, <3>5, Zenon
  <2>6. \A j \in 1 .. m : j + 3 <= n + 1 => new.slots[j] = in.map[j]
    BY <1>0, <1>8, <2>0, <2>3, <2>5
  <2>7. ~(n + 1 >= last - 2) /\ ~(n + 1 >= last - 1)
    BY <1>0, <1>1, <1>8
  <2>8. Applied(new, in, n + 1)
    BY <2>5, <2>6, <2>7, Zenon DEF Applied, last, m
  <2>. QED BY <1>2, <1>3, <2>5, <2>8
<1>9. CASE n \in m + 3 .. last - 4
  <2>1. s.field \in {"type", "timer"}
    <3>1. n + 1 \in m + 4 .. last - 3
      BY <1>0, <1>1, <1>9
    <3>. QED BY <1>2, <3>1 DEF IsPlan, last, m
  <2>2. new = rec
    BY <1>3, <2>1 DEF Taken
  <2>a. rec.cob = in.cob /\ ~rec.valid /\ \A j \in 1 .. m : rec.slots[j] = in.map[j]
    BY <1>0, <1>1, <1>9 DEF Applied, last, m
  <2>b. n + 1 <= last - 3 /\ n + 1 >= 2
    BY <1>0, <1>1, <1>9
  <2>3. Applied(rec, in, n + 1)
    BY <1>0, <1>1, <2>a, <2>b DEF Applied, last, m
  <2>. QED BY <1>2, <1>3, <2>2, <2>3
<1>10. CASE n = last - 3
  <2>1. s = Step("count", m)
    BY <1>0, <1>1, <1>2, <1>10 DEF IsPlan, last, m
  <2>2. new = Record(rec.cob, rec.valid, m, rec.slots)
    BY <1>3, <2>1 DEF Taken, Step
  <2>a. n \in 2 .. last - 2 /\ n >= 2 /\ \A j \in 1 .. m : j + 3 <= n
    BY <1>0, <1>1, <1>10
  <2>3. rec.cob = in.cob /\ ~rec.valid /\ \A j \in 1 .. m : rec.slots[j] = in.map[j]
    BY <2>a, Zenon DEF Applied, last, m
  <2>4. /\ new \in PDORecords /\ ~new.valid /\ new.cob = in.cob /\ new.count = m
        /\ new.slots = rec.slots
    <3>1. m \in 0 .. MaxSlots
      BY <1>0
    <3>2. new \in PDORecords
      BY <1>r, <2>2, <3>1 DEF PDORecords, Record
    <3>3. /\ new.valid = rec.valid /\ new.cob = rec.cob /\ new.slots = rec.slots
          /\ new.count = m
      BY <2>2 DEF Record
    <3>. QED BY <2>3, <3>2, <3>3
  <2>5. Applied(new, in, n + 1)
    BY <1>0, <1>1, <1>10, <2>3, <2>4 DEF Applied, last, m
  <2>. QED BY <1>2, <1>3, <2>4, <2>5
<1>11. CASE n = last - 2
  <2>1. s = Step("cob", [cob |-> in.cob, valid |-> FinallyValid(in)])
    BY <1>0, <1>1, <1>2, <1>11 DEF IsPlan, last, m
  <2>2. new = Record(in.cob, FinallyValid(in), rec.count, rec.slots)
    BY <1>3, <2>1 DEF Taken, Step
  <2>3. rec.cob = in.cob /\ rec.count = m /\ \A j \in 1 .. m : rec.slots[j] = in.map[j]
    BY <1>0, <1>1, <1>11 DEF Applied, last, m
  <2>4. /\ new \in PDORecords /\ new.valid = FinallyValid(in) /\ new.cob = in.cob
        /\ new.count = m /\ new.slots = rec.slots
    <3>c. PICK c \in 0 .. MaxCobID : c = in.cob
      BY <1>c
    <3>v. PICK v \in BOOLEAN : v = FinallyValid(in)
      BY <1>4
    <3>r. new = [cob |-> c, valid |-> v, count |-> rec.count, slots |-> rec.slots]
      BY <2>2, <3>c, <3>v DEF Record
    <3>1. new \in PDORecords
      BY <1>r, <3>r DEF PDORecords
    <3>2. /\ new.valid = FinallyValid(in) /\ new.cob = in.cob /\ new.slots = rec.slots
          /\ new.count = rec.count
      BY <2>2 DEF Record
    <3>. QED BY <2>3, <3>1, <3>2
  <2>5. [k \in 1 .. new.count |-> new.slots[k]] = in.map
    BY <1>0, <2>3, <2>4
  <2>6. Wire(new) = Wanted(in)
    BY <2>4, <2>5, Zenon DEF Wire, Wanted
  <2>7. Applied(new, in, n + 1)
    BY <1>0, <1>1, <1>11, <2>3, <2>4, <2>6 DEF Applied, last, m
  <2>. QED BY <1>2, <1>3, <2>4, <2>6, <2>7
<1>12. CASE n = last - 1
  <2>1. s.field = "start"
    BY <1>0, <1>1, <1>2, <1>12 DEF IsPlan, last, m
  <2>2. new = rec
    BY <1>3, <2>1 DEF Taken
  <2>3. Applied(rec, in, n + 1)
    BY <1>0, <1>1, <1>12 DEF Applied, last, m
  <2>. QED BY <1>2, <1>3, <2>2, <2>3
<1>13. n = 0 \/ n = 1 \/ n = 2 \/ n \in 3 .. m + 2 \/ n \in m + 3 .. last - 4
       \/ n = last - 3 \/ n = last - 2 \/ n = last - 1
  BY <1>0, <1>1 DEF last
<1>. QED BY <1>5, <1>6, <1>7, <1>8, <1>9, <1>10, <1>11, <1>12, <1>13

-----------------------------------------------------------------------------
(* The invariant of runs that do not overlap                               *)

ToolStates == [at : {"idle", "run", "ok", "failed"}, in : Inputs \cup {0}, steps : Seq(PlanSteps)]

PlanTypeOK ==
    /\ node \in [Dirs -> Seq(PDORecords)] /\ operational \in BOOLEAN
    /\ tool \in [Tools -> ToolStates]
    /\ asked = [d \in Dirs |-> [i \in DOMAIN node[d] |-> asked[d][i]]]

There(in) == in.pdo \in DOMAIN node[in.dir]
Done(t) == Length(tool[t].in) - Len(tool[t].steps)

(* A run has the rest of its plan left, and has done the steps before.     *)
UnderWay(t) ==
    LET in == tool[t].in IN
    /\ in \in Inputs /\ InputIsValid(in)
    /\ Done(t) \in 0 .. Length(in) - 1
    /\ \A i \in 1 .. Len(tool[t].steps) : tool[t].steps[i] = BuildPDOPlan(in)[Done(t) + i]
    /\ There(in) => /\ Wanted(in) \in asked[in.dir][in.pdo]
                    /\ Applied(node[in.dir][in.pdo], in, Done(t))
    /\ ~There(in) => Done(t) <= 1

OneRun == \A t, u \in Tools : tool[t].at = "run" /\ tool[u].at = "run" => t = u
ValidWasAsked ==
    \A d \in Dirs : \A i \in DOMAIN node[d] : node[d][i].valid => Wire(node[d][i]) \in asked[d][i]
OnlyOne(t) == \A u \in Tools \ {t} : tool[u].at = "idle"
LeftAsAsked(in) == operational /\ Wire(node[in.dir][in.pdo]) = Wanted(in)

PlanInv ==
    ~overlapped =>
       /\ PlanTypeOK
       /\ \A t \in Tools : tool[t].at = "run" => UnderWay(t)
       /\ OneRun
       /\ ValidWasAsked
       /\ \A t \in Tools : tool[t].at = "ok" /\ OnlyOne(t) => LeftAsAsked(tool[t].in)

LEMMA InitPlanInv == PlanInit => PlanInv
<1>. SUFFICES ASSUME PlanInit PROVE PlanInv
  OBVIOUS
<1>1. PlanTypeOK
  BY PlanConstants DEF PlanInit, PlanTypeOK, ToolStates
<1>2. \A t \in Tools : tool[t].at = "idle"
  BY DEF PlanInit
<1>3. ValidWasAsked
  BY DEF PlanInit, ValidWasAsked
<1>. QED BY <1>1, <1>2, <1>3 DEF PlanInv, OneRun

LEMMA LengthFacts ==
    ASSUME NEW in \in Inputs
    PROVE  Len(in.map) \in Nat /\ Length(in) \in Nat /\ Length(in) >= Len(in.map) + 7
<1>1. Timers(in) \in {0, 1}
  BY DEF Timers
<1>2. Len(in.map) \in Nat
  BY PlanConstants
<1>. QED BY <1>1, <1>2 DEF Length

LEMMA ApplyInv ==
    ASSUME PlanInv, NEW t \in Tools, NEW in \in Inputs, Apply(t, in)
    PROVE  PlanInv'
<1>. SUFFICES ASSUME ~overlapped' PROVE PlanInv'
  BY DEF PlanInv
<1>0. ~overlapped /\ \A u \in Tools : tool[u].at # "run"
  BY Zenon DEF Apply
<1>a. PlanTypeOK /\ ValidWasAsked
  BY <1>0 DEF PlanInv
<1>b. /\ InputIsValid(in) /\ UNCHANGED <<node, operational>>
      /\ tool' = [tool EXCEPT ![t] = [at |-> "run", in |-> in, steps |-> BuildPDOPlan(in)]]
  BY DEF Apply
<1>1. IsPlan(BuildPDOPlan(in), in)
  BY <1>b, PlanFacts
<1>2. tool' \in [Tools -> ToolStates]
  BY <1>a, <1>b, <1>1 DEF PlanTypeOK, ToolStates, IsPlan
<1>3. /\ tool'[t].at = "run" /\ tool'[t].in = in /\ tool'[t].steps = BuildPDOPlan(in)
      /\ \A u \in Tools \ {t} : tool'[u] = tool[u]
  BY <1>a, <1>b DEF PlanTypeOK
<1>4. /\ asked' = [d \in Dirs |-> [i \in DOMAIN node'[d] |-> asked'[d][i]]]
      /\ \A d \in Dirs : \A i \in DOMAIN node[d] : asked[d][i] \subseteq asked'[d][i]
      /\ There(in) => Wanted(in) \in asked'[in.dir][in.pdo]
  <2>1. CASE ~There(in)
    <3>. asked' = asked
      BY <2>1 DEF Apply, There
    <3>. QED BY <2>1, <1>a, <1>b DEF PlanTypeOK
  <2>2. CASE There(in)
    <3>1. asked' = [asked EXCEPT ![in.dir][in.pdo] = @ \cup {Wanted(in)}]
      BY <2>2 DEF Apply, There
    <3>2. in.dir \in Dirs /\ in.pdo \in DOMAIN node[in.dir]
      BY <1>b, <2>2 DEF InputIsValid, There
    <3>3. DOMAIN asked = Dirs /\ DOMAIN asked[in.dir] = DOMAIN node[in.dir]
      BY <3>2, <1>a DEF PlanTypeOK
    <3>4. \A d \in Dirs : DOMAIN asked[d] = DOMAIN node[d]
      BY <1>a DEF PlanTypeOK
    <3>. DEFINE at == [asked[in.dir] EXCEPT ![in.pdo] = @ \cup {Wanted(in)}]
    <3>5. DOMAIN asked' = Dirs /\ \A d \in Dirs : asked'[d] = IF d = in.dir THEN at ELSE asked[d]
      <4>1. asked' = [asked EXCEPT ![in.dir] = at]
        BY <3>1, <3>2, <3>3
      <4>. HIDE DEF at
      <4>. QED BY <4>1, <3>2, <3>3
    <3>6. /\ DOMAIN at = DOMAIN node[in.dir] /\ at = [i \in DOMAIN node[in.dir] |-> at[i]]
          /\ at[in.pdo] = asked[in.dir][in.pdo] \cup {Wanted(in)}
          /\ \A i \in DOMAIN node[in.dir] : i # in.pdo => at[i] = asked[in.dir][i]
      BY <3>2, <3>3
    <3>. HIDE DEF at
    <3>7. \A d \in Dirs : asked'[d] = [i \in DOMAIN node[d] |-> asked'[d][i]]
      BY <3>5, <3>6, <1>a DEF PlanTypeOK
    <3>8. asked' = [d \in Dirs |-> asked'[d]]
      BY <3>1, <3>3, Zenon
    <3>9. asked' = [d \in Dirs |-> [i \in DOMAIN node[d] |-> asked'[d][i]]]
      BY <3>7, <3>8
    <3>10. \A d \in Dirs : \A i \in DOMAIN node[d] : asked[d][i] \subseteq asked'[d][i]
      BY <3>2, <3>5, <3>6
    <3>11. Wanted(in) \in asked'[in.dir][in.pdo]
      BY <3>2, <3>5, <3>6
    <3>. QED BY <3>9, <3>10, <3>11, <1>b
  <2>. QED BY <2>1, <2>2
<1>5. PlanTypeOK'
  BY <1>a, <1>b, <1>2, <1>4 DEF PlanTypeOK
<1>6. ValidWasAsked'
  BY <1>a, <1>b, <1>4 DEF ValidWasAsked
<1>7. UnderWay(t)'
  <2>1. Length(in) \in Nat /\ Length(in) >= 1 /\ Len(BuildPDOPlan(in)) = Length(in)
    BY <1>1, LengthFacts DEF IsPlan
  <2>2. Done(t)' = 0
    BY <1>3, <2>1 DEF Done
  <2>3. \A i \in 1 .. Length(in) : BuildPDOPlan(in)[i] = BuildPDOPlan(in)[0 + i]
    BY <2>1
  <2>4. There(in)' = There(in)
    BY <1>b DEF There
  <2>5. There(in) => Applied(node[in.dir][in.pdo], in, 0)
    BY LengthFacts DEF Applied
  <2>. HIDE DEF Length, Done
  <2>. QED BY <1>b, <1>3, <1>4, <2>1, <2>2, <2>3, <2>4, <2>5 DEF UnderWay, There
<1>8. \A u \in Tools : tool'[u].at = "run" => u = t
  BY <1>0, <1>3
<1>9. \A u \in Tools : ~(tool'[u].at = "ok" /\ OnlyOne(u)')
  BY <1>3 DEF OnlyOne
<1>. QED BY <1>5, <1>6, <1>7, <1>8, <1>9 DEF PlanInv, OneRun

LEMMA NextStep ==
    ASSUME PlanTypeOK, NEW t \in Tools, UnderWay(t)
    PROVE  /\ IsPlan(BuildPDOPlan(tool[t].in), tool[t].in)
           /\ tool[t].in \in Inputs /\ InputIsValid(tool[t].in) /\ tool[t].in.dir \in Dirs
           /\ tool[t].steps \in Seq(PlanSteps) /\ Done(t) \in 0 .. Length(tool[t].in) - 1
           /\ Len(tool[t].steps) = Length(tool[t].in) - Done(t)
           /\ Head(tool[t].steps) = BuildPDOPlan(tool[t].in)[Done(t) + 1]
<1>. DEFINE in == tool[t].in
            st == tool[t].steps
<1>1. in \in Inputs /\ InputIsValid(in) /\ Done(t) \in 0 .. Length(in) - 1
  BY DEF UnderWay
<1>2. st \in Seq(PlanSteps) /\ Len(st) \in Nat
  BY DEF PlanTypeOK, ToolStates
<1>a. Length(in) \in Nat
  BY <1>1, LengthFacts
<1>b. IsPlan(BuildPDOPlan(in), in)
  BY <1>1, PlanFacts
<1>c. in.dir \in Dirs
  BY <1>1, PlanConstants
<1>3. Length(in) \in Nat /\ IsPlan(BuildPDOPlan(in), in) /\ in.dir \in Dirs
  BY <1>a, <1>b, <1>c
<1>4. Len(st) = Length(in) - Done(t) /\ Len(st) >= 1
  <2>. HIDE DEF Length
  <2>. QED BY <1>1, <1>2, <1>3 DEF Done
<1>5. st[1] = BuildPDOPlan(in)[Done(t) + 1]
  BY <1>2, <1>4 DEF UnderWay
<1>6. Head(st) = st[1]
  BY <1>2, <1>4
<1>. QED BY <1>1, <1>2, <1>3, <1>4, <1>5, <1>6

(* The node takes a step.                                                  *)
LEMMA TakesInv ==
    ASSUME PlanTypeOK, ValidWasAsked, NEW t \in Tools, UnderWay(t),
           NodeTakes(tool[t].in, Head(tool[t].steps)), UNCHANGED asked
    PROVE  /\ node' \in [Dirs -> Seq(PDORecords)] /\ operational' \in BOOLEAN
           /\ \A d \in Dirs : DOMAIN node'[d] = DOMAIN node[d]
           /\ ValidWasAsked'
           /\ There(tool[t].in) =>
                 Applied(node'[tool[t].in.dir][tool[t].in.pdo], tool[t].in, Done(t) + 1)
           /\ Done(t) + 1 = Length(tool[t].in) => operational'
<1>. DEFINE s == Head(tool[t].steps)
<1>0. PICK in \in Inputs : in = tool[t].in
  BY NextStep
<1>1. PICK n \in 0 .. Length(in) - 1 : n = Done(t)
  BY <1>0, NextStep
<1>2. /\ IsPlan(BuildPDOPlan(in), in) /\ InputIsValid(in) /\ in.dir \in Dirs
      /\ s = BuildPDOPlan(in)[n + 1]
  BY <1>0, <1>1, NextStep
<1>3. NodeTakes(in, s)
  BY <1>0
<1>4. operational' \in BOOLEAN
  BY <1>3, Zenon DEF NodeTakes, PlanTypeOK
<1>5. n + 1 = Length(in) => operational'
  <2>1. SUFFICES ASSUME n + 1 = Length(in) PROVE operational'
    OBVIOUS
  <2>2. s.field = "start"
    BY <1>2, <2>1 DEF IsPlan
  <2>. QED BY <1>3, <2>2 DEF NodeTakes
<1>6. CASE ~There(in)
  <2>1. node' = node
    BY <1>3, <1>6, Zenon DEF NodeTakes, There
  <2>. QED BY <2>1, <1>0, <1>1, <1>4, <1>5, <1>6 DEF PlanTypeOK, ValidWasAsked
<1>7. CASE There(in)
  <2>. DEFINE rec == node[in.dir][in.pdo]
  <2>1. in.pdo \in DOMAIN node[in.dir] /\ node[in.dir] \in Seq(PDORecords)
    BY <1>2, <1>7, Zenon DEF There, PlanTypeOK
  <2>2. rec \in PDORecords /\ Applied(rec, in, n) /\ Wanted(in) \in asked[in.dir][in.pdo]
    <3>1. rec \in PDORecords
      BY <2>1
    <3>2. Applied(rec, in, n) /\ Wanted(in) \in asked[in.dir][in.pdo]
      BY <1>0, <1>1, <1>7, Zenon DEF UnderWay
    <3>. QED BY <3>1, <3>2, Zenon
  <2>3. PICK new : new = Taken(rec, s)
    OBVIOUS
  <2>4. new \in PDORecords /\ Applied(new, in, n + 1) /\ (new.valid => new = rec \/ Wire(new) = Wanted(in))
    BY <1>2, <2>2, <2>3, StepApplies, SMTT(30)
  <2>5. node' = [node EXCEPT ![in.dir][in.pdo] = new]
    BY <1>3, <1>7, <2>3, Zenon DEF NodeTakes, There
  <2>6. /\ node' \in [Dirs -> Seq(PDORecords)]
        /\ \A d \in Dirs : DOMAIN node'[d] = DOMAIN node[d]
        /\ node'[in.dir][in.pdo] = new
        /\ \A d \in Dirs : \A i \in DOMAIN node[d] :
              node'[d][i] = node[d][i] \/ (d = in.dir /\ i = in.pdo)
    <3>. DEFINE at == [node[in.dir] EXCEPT ![in.pdo] = new]
    <3>1. /\ at \in Seq(PDORecords) /\ DOMAIN at = DOMAIN node[in.dir] /\ at[in.pdo] = new
          /\ \A i \in DOMAIN node[in.dir] : i # in.pdo => at[i] = node[in.dir][i]
      BY <2>1, <2>4
    <3>2. node' = [node EXCEPT ![in.dir] = at]
      BY <2>5
    <3>. HIDE DEF at
    <3>3. /\ node' \in [Dirs -> Seq(PDORecords)] /\ node'[in.dir] = at
          /\ \A d \in Dirs : d # in.dir => node'[d] = node[d]
      BY <3>1, <3>2, <1>2 DEF PlanTypeOK
    <3>. QED BY <3>1, <3>3
  <2>7. ValidWasAsked'
    <3>. SUFFICES ASSUME NEW d \in Dirs, NEW i \in DOMAIN node[d], node'[d][i].valid
                  PROVE  Wire(node'[d][i]) \in asked[d][i]
      BY <2>6 DEF ValidWasAsked
    <3>1. CASE node'[d][i] = node[d][i]
      BY <3>1 DEF ValidWasAsked
    <3>2. CASE d = in.dir /\ i = in.pdo
      BY <3>2, <2>2, <2>4, <2>6 DEF ValidWasAsked
    <3>. QED BY <3>1, <3>2, <2>6
  <2>. QED BY <1>0, <1>1, <1>4, <1>5, <2>4, <2>6, <2>7
<1>. QED BY <1>6, <1>7


(* A run that is over, and the node as the step or the lack of it left it. *)
LEMMA EndedInv ==
    ASSUME PlanInv, ~overlapped, ~overlapped', NEW t \in Tools, tool[t].at = "run", UNCHANGED asked,
           NEW how \in {"ok", "failed"}, tool' = Ended(t, how),
           node' \in [Dirs -> Seq(PDORecords)], operational' \in BOOLEAN,
           \A d \in Dirs : DOMAIN node'[d] = DOMAIN node[d],
           ValidWasAsked',
           how = "ok" => LeftAsAsked(tool[t].in)'
    PROVE  PlanInv'
<1>a. PlanTypeOK /\ OneRun
  BY DEF PlanInv
<1>1. tool[t].in \in Inputs \cup {0} /\ DOMAIN tool = Tools
  BY <1>a DEF PlanTypeOK, ToolStates
<1>2. /\ tool'[t] = [at |-> how, in |-> tool[t].in, steps |-> <<>>]
      /\ \A u \in Tools \ {t} : tool'[u] = tool[u]
  BY <1>1 DEF Ended
<1>3. tool'[t] \in ToolStates
  BY <1>1, <1>2 DEF ToolStates
<1>4. tool' \in [Tools -> ToolStates]
  BY <1>a, <1>1, <1>2, <1>3 DEF Ended, PlanTypeOK
<1>5. asked' = [d \in Dirs |-> [i \in DOMAIN node'[d] |-> asked'[d][i]]]
  BY <1>a DEF PlanTypeOK
<1>6. PlanTypeOK'
  BY <1>4, <1>5 DEF PlanTypeOK
<1>7. \A u \in Tools : tool'[u].at # "run"
  BY <1>a, <1>2 DEF OneRun
<1>8. ASSUME NEW u \in Tools, tool'[u].at = "ok", OnlyOne(u)'
      PROVE  LeftAsAsked(tool[u].in)'
  <2>1. u = t
    BY <1>2, <1>8 DEF OnlyOne
  <2>. QED BY <2>1, <1>2, <1>8
<1>. QED BY <1>6, <1>7, <1>8 DEF PlanInv, OneRun

LEMMA AdvanceInv ==
    ASSUME PlanInv, NEW t \in Tools, Advance(t)
    PROVE  PlanInv'
<1>. SUFFICES ASSUME ~overlapped' PROVE PlanInv'
  BY DEF PlanInv
<1>. DEFINE s == Head(tool[t].steps)
            refused == s.field # "preop" /\ ~There(tool[t].in)
<1>a. ~overlapped /\ UNCHANGED asked /\ tool[t].at = "run"
  BY DEF Advance
<1>b. PlanTypeOK /\ OneRun /\ ValidWasAsked /\ UnderWay(t)
  BY <1>a DEF PlanInv
<1>0. PICK in \in Inputs : in = tool[t].in
  BY <1>b, NextStep
<1>1. PICK n \in 0 .. Length(in) - 1 : n = Done(t)
  BY <1>0, <1>b, NextStep
<1>c. tool[t].steps \in Seq(PlanSteps) /\ Len(tool[t].steps) = Length(in) - n
  BY <1>0, <1>1, <1>b, NextStep
<1>d. Length(in) \in Nat /\ Length(in) >= 7
  BY LengthFacts
<1>2. CASE tool' = Ended(t, "failed") /\ UNCHANGED <<node, operational>>
  BY <1>2, <1>a, <1>b, EndedInv, Zenon DEF PlanTypeOK, ValidWasAsked
<1>3. CASE tool' = Ended(t, "failed") /\ NodeTakes(tool[t].in, s)
  BY <1>3, <1>a, <1>b, EndedInv, TakesInv
<1>4. CASE ~refused /\ NodeTakes(tool[t].in, s) /\ Len(tool[t].steps) = 1 /\ tool' = Ended(t, "ok")
  <2>0. 1 = Length(in) - n
    BY <1>4, <1>c, Zenon
  <2>1. n + 1 = Length(in) /\ Length(in) \in Nat /\ Length(in) >= 7
    BY <2>0, <1>d
  <2>2. There(in)
    BY <2>1, <1>0, <1>1, <1>b DEF UnderWay
  <2>3. Applied(node'[in.dir][in.pdo], in, Length(in)) /\ operational'
    BY <2>1, <2>2, <1>0, <1>1, <1>4, <1>a, <1>b, TakesInv
  <2>4. Wire(node'[in.dir][in.pdo]) = Wanted(in)
    BY <2>1, <2>3 DEF Applied
  <2>5. LeftAsAsked(tool[t].in)'
    <3>1. tool'[t].in = in
      BY <1>4, <1>0, <1>b, Zenon DEF Ended, PlanTypeOK
    <3>. QED BY <3>1, <2>3, <2>4 DEF LeftAsAsked
  <2>. QED BY <2>5, <1>4, <1>a, <1>b, EndedInv, TakesInv
<1>5. CASE ~refused /\ NodeTakes(tool[t].in, s) /\ Len(tool[t].steps) # 1
           /\ tool' = [tool EXCEPT ![t].steps = Tail(@)]
  <2>. DEFINE st == tool[t].steps
  <2>1. /\ st \in Seq(PlanSteps) /\ Len(st) \in Nat /\ Len(st) = Length(in) - n /\ Length(in) \in Nat
        /\ Len(st) >= 2
    BY <1>5, <1>c, <1>d
  <2>2. /\ Tail(st) \in Seq(PlanSteps) /\ Len(Tail(st)) = Len(st) - 1
        /\ \A i \in 1 .. Len(st) - 1 : Tail(st)[i] = st[i + 1]
    BY <2>1
  <2>3. /\ tool' \in [Tools -> ToolStates]
        /\ tool'[t].at = "run" /\ tool'[t].in = in /\ tool'[t].steps = Tail(st)
        /\ \A u \in Tools \ {t} : tool'[u] = tool[u]
    <3>1. PICK new : new = [tool[t] EXCEPT !.steps = Tail(st)]
      BY Zenon
    <3>2. tool[t] \in ToolStates /\ DOMAIN tool = Tools
      BY <1>b DEF PlanTypeOK
    <3>3. new = [at |-> "run", in |-> in, steps |-> Tail(st)]
      BY <3>1, <3>2, <1>0, <1>a, Zenon DEF ToolStates
    <3>4. new \in ToolStates
      BY <3>3, <2>2 DEF ToolStates
    <3>5. tool' = [tool EXCEPT ![t] = new]
      BY <1>5, <3>1
    <3>6. tool' \in [Tools -> ToolStates] /\ tool'[t] = new /\ \A u \in Tools \ {t} : tool'[u] = tool[u]
      BY <3>4, <3>5, <1>b DEF PlanTypeOK
    <3>. QED BY <3>3, <3>6
  <2>4. /\ node' \in [Dirs -> Seq(PDORecords)] /\ operational' \in BOOLEAN
        /\ \A d \in Dirs : DOMAIN node'[d] = DOMAIN node[d]
        /\ ValidWasAsked'
        /\ There(in) => Applied(node'[in.dir][in.pdo], in, n + 1)
    BY <1>5, <1>0, <1>1, <1>a, <1>b, TakesInv
  <2>5. PlanTypeOK'
    <3>. asked' = [d \in Dirs |-> [i \in DOMAIN node'[d] |-> asked'[d][i]]]
      BY <2>4, <1>a, <1>b, Zenon DEF PlanTypeOK
    <3>. QED BY <2>3, <2>4 DEF PlanTypeOK
  <2>6. UnderWay(t)'
    <3>1. Done(t)' = n + 1 /\ n + 1 \in 0 .. Length(in) - 1
      BY <2>1, <2>2, <2>3 DEF Done
    <3>2. \A i \in 1 .. Len(Tail(st)) : Tail(st)[i] = BuildPDOPlan(in)[n + 1 + i]
      <4>. TAKE i \in 1 .. Len(Tail(st))
      <4>l. PICK l \in Nat : l = Len(st)
        BY <2>1, Zenon
      <4>i. i \in 1 .. l - 1
        BY <2>2, <4>l, Zenon
      <4>t. Tail(st)[i] = st[i + 1]
        BY <2>2, <4>l, <4>i, Zenon
      <4>1. i + 1 \in 1 .. l /\ n + (i + 1) = n + 1 + i
        BY <4>i
      <4>2. st[i + 1] = BuildPDOPlan(in)[n + (i + 1)]
        BY <4>1, <4>l, <1>0, <1>1, <1>b, Zenon DEF UnderWay
      <4>. QED BY <4>t, <4>1, <4>2, Zenon
    <3>3. There(in)' = There(in)
      BY <2>4, <1>0, <1>b, NextStep, Zenon DEF There
    <3>4. InputIsValid(in) /\ (There(in) => Wanted(in) \in asked'[in.dir][in.pdo])
      BY <1>0, <1>a, <1>b DEF UnderWay
    <3>5. ~There(in) => n + 1 <= 1
      <4>. SUFFICES ASSUME ~There(in) PROVE n = 0
        OBVIOUS
      <4>1. s.field = "preop" /\ s = BuildPDOPlan(in)[n + 1] /\ IsPlan(BuildPDOPlan(in), in)
        BY <1>5, <1>0, <1>1, <1>b, NextStep, Zenon
      <4>2. n \in {0, 1}
        BY <1>0, <1>1, <1>b, SMTT(30) DEF UnderWay
      <4>3. n # 1
        BY <4>1 DEF IsPlan, Step
      <4>. QED BY <4>2, <4>3
    <3>6. (tool[t].in)' = in /\ (tool[t].steps)' = Tail(st)
      BY <2>3
    <3>. QED BY <3>1, <3>2, <3>3, <3>4, <3>5, <3>6, <2>4 DEF UnderWay
  <2>7. \A u \in Tools : tool'[u].at = "run" => u = t
    BY <2>3, <1>a, <1>b DEF OneRun
  <2>8. \A u \in Tools : ~(tool'[u].at = "ok" /\ OnlyOne(u)')
    BY <2>3 DEF OnlyOne
  <2>. QED BY <2>4, <2>5, <2>6, <2>7, <2>8 DEF PlanInv, OneRun
<1>. QED BY <1>2, <1>3, <1>4, <1>5 DEF Advance, There

(* Runs that do not overlap leave the node as PlanInv says (executePDOPlan *)
(* over the plan of buildPDOPlan, main.go).                                *)
THEOREM PlanInvariant == PlanSpec => []PlanInv
<1>1. PlanInit => PlanInv
  BY InitPlanInv
<1>2. PlanInv /\ [PlanNext]_planVars => PlanInv'
  <2>. SUFFICES ASSUME PlanInv, [PlanNext]_planVars PROVE PlanInv'
    BY SMTT(30), Zenon
  <2>1. CASE UNCHANGED planVars
    BY <2>1 DEF planVars, PlanInv, PlanTypeOK, UnderWay, Done, There, OneRun, ValidWasAsked, OnlyOne, LeftAsAsked
  <2>2. CASE PlanNext
    BY <2>2, ApplyInv, AdvanceInv DEF PlanNext
  <2>. QED BY <2>1, <2>2
<1>. QED BY <1>1, <1>2, PTL DEF PlanSpec

(* buildPDOPlan and executePDOPlan, for any node, entries, inputs and      *)
(* number of failed transfers: unless runs overlap, a valid PDO is always  *)
(* one that was there or was asked for, whole, and a run that ends well    *)
(* leaves its PDO as asked and the node operational.                       *)
THEOREM PlansLeaveWholePDOs == PlanSpec => []PlansAreAllOrNothing
<1>1. PlanInv => PlansAreAllOrNothing
  BY DEF PlanInv, PlansAreAllOrNothing, ValidWasAsked, OnlyOne, LeftAsAsked
<1>. QED BY <1>1, PlanInvariant, PTL

=============================================================================

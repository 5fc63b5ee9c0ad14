--------------------------- MODULE GatewayProofs ----------------------------
(***************************************************************************)
(* Proofs about the state the HTTP gateway shares among its handlers: the  *)
(* registry of write leases, the binding of a device, what handleWrite     *)
(* does with the two, and the poll queue.                                  *)
(***************************************************************************)
EXTENDS WriteLease, GatewayWrite, PollQueue, TLAPS

-----------------------------------------------------------------------------
(* Proofs about the write-authority registry, for every set of devices and *)
(* holders and every bound on time and tokens.                             *)

(* Sweeping only ever removes leases, and removes no active one.           *)
LEMMA SweepRemoves ==
    ASSUME NEW ls \in [Devices -> Lease \cup {NoLease}], NEW t \in Nat
    PROVE  /\ SweptAt(ls, t) \in [Devices -> Lease \cup {NoLease}]
           /\ \A d \in Devices :
                 /\ SweptAt(ls, t)[d] \in {ls[d], NoLease}
                 /\ SweptAt(ls, t)[d] # NoLease => Active(ls[d], t)
                 /\ Active(ls[d], t) => SweptAt(ls, t)[d] = ls[d]
BY DEF SweptAt, Active

RegistryInv == TypeOK /\ TokensDistinct

(* The registry is well typed and tokens are distinct in every state the   *)
(* methods of Registry can reach.                                          *)
THEOREM RegistryInvariant == Spec => []RegistryInv
<1>1. Init => RegistryInv
  BY DEF Init, RegistryInv, TypeOK, TokensDistinct
<1>2. RegistryInv /\ [Next]_vars => RegistryInv'
  <2> SUFFICES ASSUME RegistryInv, [Next]_vars PROVE RegistryInv'
    OBVIOUS
  <2> USE LeaseConstants, NoLeaseIsNoLease
  <2> DEFINE swept == SweptAt(leases, now)
  <2>0. /\ swept \in [Devices -> Lease \cup {NoLease}]
        /\ \A d \in Devices : swept[d] \in {leases[d], NoLease}
    BY SweepRemoves DEF RegistryInv, TypeOK
  <2>1. CASE Tick
    BY <2>1 DEF Tick, RegistryInv, TypeOK, TokensDistinct
  <2>2. ASSUME NEW d \in Devices, NEW h \in Holders, NEW ttl \in TTLs,
               NEW t \in {now, now + 1}, Renew(d, h, ttl, t)
        PROVE  RegistryInv'
    <3>1. /\ swept[d] \in Lease
          /\ leases' = [swept EXCEPT ![d] =
                           [swept[d] EXCEPT !.expiresAt = t + ttl]]
          /\ now' = t /\ issued' = issued
      BY <2>0, <2>2 DEF Renew, Active
    <3>2. t + ttl \in Nat /\ t \in Nat
      BY DEF RegistryInv, TypeOK
    <3>3. /\ [swept[d] EXCEPT !.expiresAt = t + ttl] \in Lease
          /\ [swept[d] EXCEPT !.expiresAt = t + ttl].token = swept[d].token
      BY <3>1, <3>2 DEF Lease
    <3> HIDE DEF swept
    <3>4. TypeOK'
      BY <2>0, <3>1, <3>2, <3>3 DEF RegistryInv, TypeOK
    <3>5. \A e \in Devices : leases'[e] # NoLease =>
             leases[e] # NoLease /\ leases'[e].token = leases[e].token
      BY <2>0, <3>1, <3>3
    <3>6. TokensDistinct'
      BY <3>1, <3>5 DEF RegistryInv, TokensDistinct
    <3> QED
      BY <3>4, <3>6 DEF RegistryInv
  <2>3. ASSUME NEW d \in Devices, NEW h \in Holders,
               NEW t \in {now, now + 1}, AcquireHeld(d, h, t)
        PROVE  RegistryInv'
    <3>1. leases' = swept /\ now' = t /\ issued' = issued
      BY <2>3 DEF AcquireHeld
    <3> HIDE DEF swept
    <3> QED
      BY <2>0, <3>1 DEF RegistryInv, TypeOK, TokensDistinct
  <2>4. ASSUME NEW d \in Devices, NEW h \in Holders, NEW ttl \in TTLs,
               NEW t \in {now, now + 1}, Grant(d, h, ttl, t)
        PROVE  RegistryInv'
    <3> DEFINE new == [holder |-> h, token |-> issued + 1,
                       acquiredAt |-> t, expiresAt |-> t + ttl]
    <3>1. /\ leases' = [swept EXCEPT ![d] = new]
          /\ now' = t /\ issued' = issued + 1
      BY <2>4 DEF Grant
    <3>2. new \in Lease /\ new.token = issued + 1 /\ t \in Nat
      BY DEF RegistryInv, TypeOK, Lease
    <3> HIDE DEF swept, new
    <3>3. TypeOK'
      BY <2>0, <3>1, <3>2 DEF RegistryInv, TypeOK
    <3>4. \A e \in Devices \ {d} : leases'[e] # NoLease =>
             leases[e] # NoLease /\ leases'[e].token = leases[e].token
      BY <2>0, <3>1
    <3>5. leases'[d].token = issued + 1
      BY <2>0, <3>1, <3>2
    <3>6. TokensDistinct'
      BY <3>1, <3>4, <3>5 DEF RegistryInv, TypeOK, TokensDistinct
    <3> QED
      BY <3>3, <3>6 DEF RegistryInv
  <2>5. ASSUME NEW tok \in Token, Release(tok)
        PROVE  RegistryInv'
    <3>1. /\ leases' \in [Devices -> Lease \cup {NoLease}]
          /\ \A e \in Devices : leases'[e] \in {leases[e], NoLease}
          /\ now' = now /\ issued' = issued
      BY <2>0, <2>5 DEF Release
    <3> QED
      BY <3>1 DEF RegistryInv, TypeOK, TokensDistinct
  <2>6. CASE Validate
    <3>1. leases' = swept /\ now' = now /\ issued' = issued
      BY <2>6 DEF Validate
    <3> HIDE DEF swept
    <3> QED
      BY <2>0, <3>1 DEF RegistryInv, TypeOK, TokensDistinct
  <2>7. CASE UNCHANGED vars
    BY <2>7 DEF vars, RegistryInv, TypeOK, TokensDistinct
  <2> QED
    BY <2>1, <2>2, <2>3, <2>4, <2>5, <2>6, <2>7 DEF Next, Acquire
<1> QED
  BY <1>1, <1>2, PTL DEF Spec

(* Release(token) can drop the lease of one device at most, because no two *)
(* leases of the registry ever carry the same token.                       *)
THEOREM TokensAreDistinct == Spec => []TokensDistinct
<1>1. RegistryInv => TokensDistinct
  BY DEF RegistryInv
<1> QED
  BY <1>1, RegistryInvariant, PTL

(***************************************************************************)
(* A token Validate rejects once is rejected for ever: a lease that ran    *)
(* out or was released is not brought back by a later Acquire, even when   *)
(* the registry had not swept it yet.                                      *)
(***************************************************************************)
THEOREM DeadTokensStayDead == Spec => DeadTokenStaysDead
<1> DEFINE Dead == \A d \in Devices, tok \in 1 .. issued :
                      ~ValidNow(d, tok) => ~ValidNow(d, tok)'
<1>1. RegistryInv /\ [Next]_vars => [Dead]_vars
  <2> SUFFICES ASSUME RegistryInv, Next, NEW d \in Devices, NEW tok \in 1 .. issued,
                      ValidNow(d, tok)'
               PROVE  ValidNow(d, tok)
    BY DEF vars
  <2> USE LeaseConstants, NoLeaseIsNoLease
  <2> DEFINE swept == SweptAt(leases, now)
  <2>0. /\ swept \in [Devices -> Lease \cup {NoLease}]
        /\ \A e \in Devices : swept[e] # NoLease =>
                swept[e] = leases[e] /\ Active(leases[e], now)
    BY SweepRemoves DEF RegistryInv, TypeOK
  <2>t. /\ now \in Nat /\ issued \in Nat
        /\ leases \in [Devices -> Lease \cup {NoLease}]
    BY DEF RegistryInv, TypeOK
  <2>v. /\ leases'[d] # NoLease /\ leases'[d].token = tok
        /\ now' < leases'[d].expiresAt
    BY DEF ValidNow, Active
  <2>1. CASE Tick
    <3>1. leases' = leases /\ now' = now + 1 
      BY <2>1 DEF Tick
    <3>2. leases[d] \in Lease /\ leases[d].expiresAt \in Nat
      BY <2>t, <2>v, <3>1 DEF Lease
    <3> QED
      BY <2>t, <2>v, <3>1, <3>2 DEF ValidNow, Active
  <2>s. ASSUME swept[d] # NoLease, swept[d].token = tok
        PROVE  ValidNow(d, tok)
    BY <2>0, <2>s DEF ValidNow
  <2>2. ASSUME NEW e \in Devices, NEW h \in Holders, NEW ttl \in TTLs,
               NEW t \in {now, now + 1}, Renew(e, h, ttl, t)
        PROVE  ValidNow(d, tok)
    <3>1. /\ swept[e] \in Lease
          /\ leases' = [swept EXCEPT ![e] =
                           [swept[e] EXCEPT !.expiresAt = t + ttl]]
      BY <2>0, <2>2 DEF Renew, Active
    <3>2. /\ [swept[e] EXCEPT !.expiresAt = t + ttl].token = swept[e].token
          /\ swept[e] # NoLease
      BY <3>1 DEF Lease
    <3> HIDE DEF swept
    <3> QED
      BY <2>0, <2>v, <2>s, <3>1, <3>2
  <2>3. ASSUME NEW e \in Devices, NEW h \in Holders,
               NEW t \in {now, now + 1}, AcquireHeld(e, h, t)
        PROVE  ValidNow(d, tok)
    BY <2>3, <2>v, <2>s DEF AcquireHeld
  <2>4. ASSUME NEW e \in Devices, NEW h \in Holders, NEW ttl \in TTLs,
               NEW t \in {now, now + 1}, Grant(e, h, ttl, t)
        PROVE  ValidNow(d, tok)
    <3> DEFINE new == [holder |-> h, token |-> issued + 1,
                       acquiredAt |-> t, expiresAt |-> t + ttl]
    <3>1. leases' = [swept EXCEPT ![e] = new]
      BY <2>4 DEF Grant
    <3>2. new.token = issued + 1
      OBVIOUS
    <3> HIDE DEF swept, new
    <3>3. d # e
      BY <2>0, <2>t, <2>v, <3>1, <3>2
    <3> QED
      BY <2>0, <2>v, <2>s, <3>1, <3>3
  <2>5. ASSUME NEW rel \in Token, Release(rel)
        PROVE  ValidNow(d, tok)
    <3>1. leases'[d] \in {swept[d], NoLease}
      BY <2>5 DEF Release
    <3> HIDE DEF swept
    <3> QED
      BY <2>v, <2>s, <3>1
  <2>6. CASE Validate
    BY <2>6, <2>v, <2>s DEF Validate
  <2> QED
    BY <2>1, <2>2, <2>3, <2>4, <2>5, <2>6 DEF Next, Acquire
<1> QED
  BY <1>1, RegistryInvariant, PTL DEF Spec, DeadTokenStaysDead

(***************************************************************************)
(* While a lease runs, no step replaces it by another holder's: Acquire by *)
(* somebody else is refused until the lease expires or its token releases  *)
(* it.                                                                     *)
(***************************************************************************)
THEOREM RunningLeaseIsKept == Spec => NoTakeover
<1> DEFINE Kept == \A d \in Devices :
              Active(leases[d], now') /\ leases'[d] # NoLease
              => /\ leases'[d].token = leases[d].token
                 /\ leases'[d].holder = leases[d].holder
<1>1. RegistryInv /\ [Next]_vars => [Kept]_vars
  <2> SUFFICES ASSUME RegistryInv, Next, NEW d \in Devices,
                      Active(leases[d], now'), leases'[d] # NoLease
               PROVE  /\ leases'[d].token = leases[d].token
                      /\ leases'[d].holder = leases[d].holder
    BY DEF vars
  <2> USE LeaseConstants, NoLeaseIsNoLease
  <2> DEFINE swept == SweptAt(leases, now)
  <2>t. /\ now \in Nat /\ issued \in Nat
        /\ leases \in [Devices -> Lease \cup {NoLease}]
        /\ leases[d] \in Lease /\ leases[d].expiresAt \in Nat
    BY DEF RegistryInv, TypeOK, Active, Lease
  <2>0. /\ swept \in [Devices -> Lease \cup {NoLease}]
        /\ \A e \in Devices : swept[e] \in {leases[e], NoLease}
        /\ Active(leases[d], now) => swept[d] = leases[d]
    BY <2>t, SweepRemoves
  <2>1. CASE Tick
    BY <2>1 DEF Tick
  <2>2. ASSUME NEW e \in Devices, NEW h \in Holders, NEW ttl \in TTLs,
               NEW t \in {now, now + 1}, Renew(e, h, ttl, t)
        PROVE  /\ leases'[d].token = leases[d].token
               /\ leases'[d].holder = leases[d].holder
    <3>1. /\ swept[e] \in Lease
          /\ leases' = [swept EXCEPT ![e] =
                           [swept[e] EXCEPT !.expiresAt = t + ttl]]
      BY <2>0, <2>2 DEF Renew, Active
    <3>2. /\ [swept[e] EXCEPT !.expiresAt = t + ttl].token = swept[e].token
          /\ [swept[e] EXCEPT !.expiresAt = t + ttl].holder = swept[e].holder
          /\ swept[e] # NoLease
      BY <3>1 DEF Lease
    <3> HIDE DEF swept
    <3> QED
      BY <2>0, <3>1, <3>2
  <2>3. ASSUME NEW e \in Devices, NEW h \in Holders,
               NEW t \in {now, now + 1}, AcquireHeld(e, h, t)
        PROVE  leases'[d] = leases[d]
    <3>1. leases' = swept
      BY <2>3 DEF AcquireHeld
    <3> HIDE DEF swept
    <3> QED
      BY <2>0, <3>1
  <2>4. ASSUME NEW e \in Devices, NEW h \in Holders, NEW ttl \in TTLs,
               NEW t \in {now, now + 1}, Grant(e, h, ttl, t)
        PROVE  leases'[d] = leases[d]
    <3> DEFINE new == [holder |-> h, token |-> issued + 1,
                       acquiredAt |-> t, expiresAt |-> t + ttl]
    <3>1. leases' = [swept EXCEPT ![e] = new] /\ now' = t /\ ~Active(swept[e], t)
      BY <2>4 DEF Grant
    <3>2. Active(leases[d], now)
      BY <2>t, <3>1 DEF Active
    <3> HIDE DEF swept, new
    <3>3. d # e
      BY <2>0, <3>1, <3>2
    <3> QED
      BY <2>0, <3>1, <3>3
  <2>5. ASSUME NEW rel \in Token, Release(rel)
        PROVE  leases'[d] = leases[d]
    <3>1. leases'[d] \in {swept[d], NoLease}
      BY <2>5 DEF Release
    <3> HIDE DEF swept
    <3> QED
      BY <2>0, <3>1
  <2>6. CASE Validate
    <3>1. leases' = swept
      BY <2>6 DEF Validate
    <3> HIDE DEF swept
    <3> QED
      BY <2>0, <3>1
  <2> QED
    BY <2>1, <2>2, <2>3, <2>4, <2>5, <2>6 DEF Next, Acquire
<1> QED
  BY <1>1, RegistryInvariant, PTL DEF Spec, NoTakeover

-----------------------------------------------------------------------------
(***************************************************************************)
(* The rotation of PollQueue is fair for any set of parameters and any     *)
(* chunk size.                                                             *)
(*                                                                         *)
(* TurnWithinOneRotation is not inductive: how long a parameter has waited *)
(* says nothing about how long it still has to wait.  The inductive        *)
(* invariant bounds the sum of the two by the length of the rotation.      *)
(***************************************************************************)

(* The normal turns before the one of the parameter at place i.            *)
Ahead(i) == IF i > pos THEN i - 1 - pos ELSE i - 1 - pos + Len(normal)

Rotation ==
    \A i \in DOMAIN normal : waited[normal[i]] + Ahead(i) < Len(normal)

RotationTypeOK ==
    /\ normal \in Seq(Params) /\ Distinct(normal)
    /\ pos \in Nat /\ (normal # <<>> => pos < Len(normal))
    /\ (normal = <<>> => pos = 0)
    /\ front \in Seq(Params)
    /\ waited \in [Params -> Nat]

QueueInv == RotationTypeOK /\ Rotation

(* Init establishes the invariant: nobody has waited.                      *)
LEMMA RotationStarts == QueueInit => QueueInv
  BY QueueConstants DEF QueueInit, QueueInv, RotationTypeOK, Rotation, Ahead, Distinct

(* Another place at the end is at most one more turn to wait for.          *)
LEMMA OneMorePlace ==
    ASSUME NEW l \in Nat, NEW i \in 1 .. l, NEW q \in Nat, NEW w \in Nat,
           w + (IF i > q THEN i - 1 - q ELSE i - 1 - q + l) < l
    PROVE  w + (IF i > q THEN i - 1 - q ELSE i - 1 - q + (l + 1)) < l + 1
  OBVIOUS

(* A new parameter goes to the end of the rotation and waits at most for   *)
(* the turns up to there.                                                  *)
LEMMA EnqueueKeepsRotation ==
    ASSUME QueueInv, NEW p \in Params, Enqueue(p) PROVE QueueInv'
  <1>. USE DEF QueueInv, RotationTypeOK
  <1>1. CASE p \in Elements(normal)
    BY <1>1 DEF Enqueue, Rotation, Ahead, Distinct
  <1>2. CASE p \notin Elements(normal)
    <2>1. /\ normal' = Append(normal, p) /\ Len(normal') = Len(normal) + 1
          /\ waited' = [waited EXCEPT ![p] = 0]
          /\ pos' = pos /\ front' = front
      BY <1>2 DEF Enqueue
    <2>2. \A i \in DOMAIN normal : normal'[i] = normal[i] /\ normal[i] # p
      BY <2>1, <1>2 DEF Elements
    <2>3. normal'[Len(normal) + 1] = p
      BY <2>1
    <2>4. Distinct(normal')
      BY <2>1, <2>2, <2>3 DEF Distinct
    <2>5. RotationTypeOK'
      <3>1. normal' \in Seq(Params) /\ normal' # <<>> /\ pos' < Len(normal')
        BY <2>1
      <3>2. waited' \in [Params -> Nat]
        BY <2>1
      <3>. QED BY <2>1, <2>4, <3>1, <3>2
    <2>6. ASSUME NEW i \in DOMAIN normal'
          PROVE waited'[normal'[i]] + Ahead(i)' < Len(normal')
      <3>1. CASE i \in DOMAIN normal
        <4>1. waited'[normal'[i]] = waited[normal[i]] /\ waited[normal[i]] \in Nat
          BY <2>1, <2>2, <3>1
        <4>2. waited[normal[i]] + Ahead(i) < Len(normal)
          BY <3>1 DEF Rotation
        <4>3. PICK l \in Nat : l = Len(normal) /\ i \in 1 .. l
          <5>1. Len(normal) \in Nat /\ DOMAIN normal = 1 .. Len(normal)
            OBVIOUS
          <5>. QED BY <3>1, <5>1, Zenon
        <4>4. PICK q \in Nat : q = pos /\ q < l
          BY <3>1, <4>3
        <4>5. /\ Ahead(i) = IF i > q THEN i - 1 - q ELSE i - 1 - q + l
              /\ Ahead(i)' = IF i > q THEN i - 1 - q ELSE i - 1 - q + (l + 1)
          BY <2>1, <4>3, <4>4, Zenon DEF Ahead
        <4>6. PICK w \in Nat : w = waited[normal[i]]
          BY <4>1, Zenon
        <4>7. w + (IF i > q THEN i - 1 - q ELSE i - 1 - q + l) < l
          BY <4>2, <4>3, <4>5, <4>6, Zenon
        <4>8. w + (IF i > q THEN i - 1 - q ELSE i - 1 - q + (l + 1)) < l + 1
          BY <4>3, <4>4, <4>6, <4>7, OneMorePlace, Zenon
        <4>. QED BY <2>1, <4>1, <4>3, <4>5, <4>6, <4>8, Zenon
      <3>2. CASE i = Len(normal) + 1
        BY <2>1, <2>3, <3>2 DEF Ahead
      <3>. QED BY <2>1, <3>1, <3>2
    <2>. QED BY <2>5, <2>6 DEF Rotation
  <1>. QED BY <1>1, <1>2

(* A chunk gives the next Turns places their turn, in order.  Whoever had  *)
(* one has the whole rotation ahead again; the others have waited longer   *)
(* by as many turns as they are nearer.                                    *)
LEMMA NextChunkKeepsRotation ==
    ASSUME QueueInv, NextChunk PROVE QueueInv'
  <1>. USE DEF QueueInv, RotationTypeOK
  <1>1. Turns \in Nat /\ Turns <= Len(normal) /\ Manual \in Nat /\ Manual <= Len(front)
    BY QueueConstants DEF Turns, Manual, Lesser
  <1>2. normal' = normal /\ front' \in Seq(Params) /\ pos' = NextPos
    BY <1>1 DEF NextChunk
  <1>3. waited' \in [Params -> Nat]
    <2>1. \A p \in Params :
             (\E m \in 1 .. Turns : Turn(m) = p)
             => (CHOOSE m \in 1 .. Turns : Turn(m) = p) \in 1 .. Turns
      OBVIOUS
    <2>2. \A m \in 1 .. Turns : Turns - m \in Nat
      BY <1>1
    <2>. DEFINE W(p) == IF \E m \in 1 .. Turns : Turn(m) = p
                        THEN Turns - (CHOOSE m \in 1 .. Turns : Turn(m) = p)
                        ELSE IF p \in Elements(normal) THEN waited[p] + Turns ELSE 0
    <2>3. \A p \in Params : waited[p] + Turns \in Nat
      BY <1>1
    <2>4. \A p \in Params : W(p) \in Nat
      BY <2>1, <2>2, <2>3, Zenon
    <2>5. waited' = [p \in Params |-> W(p)]
      BY DEF NextChunk
    <2>. HIDE DEF W
    <2>. QED BY <2>4, <2>5
  <1>4. RotationTypeOK'
    BY <1>1, <1>2, <1>3 DEF NextPos, Wrapped, Distinct
  <1>5. ASSUME NEW i \in DOMAIN normal
        PROVE waited'[normal[i]] + Ahead(i)' < Len(normal)
    <2>. HIDE DEF QueueInv, RotationTypeOK
    <2>. DEFINE n == Len(normal)
                t == Turns
                k == Ahead(i)
    <2>1. /\ n \in Nat /\ i \in 1 .. n /\ pos \in 0 .. n - 1 /\ t \in 0 .. n
          /\ normal[i] \in Params /\ normal[i] \in Elements(normal)
      BY <1>1 DEF Elements, QueueInv, RotationTypeOK
    <2>2. k \in 0 .. n - 1 /\ k = (IF i > pos THEN i - 1 - pos ELSE i - 1 - pos + n)
      BY <2>1 DEF Ahead
    <2>3. pos' = (IF pos + t < n THEN pos + t ELSE pos + t - n)
      BY <1>2, <2>1 DEF NextPos, Wrapped
    <2>4. k' = (IF i > pos' THEN i - 1 - pos' ELSE i - 1 - pos' + n)
      BY <1>2 DEF Ahead
    <2>5. \A m \in 1 .. t : Turn(m) = normal[i] <=> m = k + 1
      <3>. SUFFICES ASSUME NEW m \in 1 .. t
                    PROVE  Turn(m) = normal[i] <=> m = k + 1
        OBVIOUS
      <3>. DEFINE j == Wrapped(pos + m - 1) + 1
      <3>1. j \in 1 .. n /\ (j = i <=> m = k + 1)
        <4>1. j = (IF pos + m - 1 < n THEN pos + m ELSE pos + m - n)
          BY <2>1 DEF Wrapped
        <4>. HIDE DEF j, n, t, k
        <4>2. m \in Nat /\ m >= 1 /\ m <= n
          BY <2>1
        <4>. QED BY <2>1, <2>2, <4>1, <4>2
      <3>2. Turn(m) = normal[j]
        BY DEF Turn
      <3>3. \A x, y \in 1 .. n : normal[x] = normal[y] => x = y
        BY <2>1 DEF QueueInv, RotationTypeOK, Distinct
      <3>. HIDE DEF j
      <3>. QED BY <2>1, <3>1, <3>2, <3>3
    <2>6. waited' = [p \in Params |->
                       IF \E m \in 1 .. t : Turn(m) = p
                       THEN t - (CHOOSE m \in 1 .. t : Turn(m) = p)
                       ELSE IF p \in Elements(normal) THEN waited[p] + t ELSE 0]
      BY DEF NextChunk
    <2>7. CASE k < t
      <3>1. k + 1 \in 1 .. t
        BY <2>1, <2>2, <2>7
      <3>2. (CHOOSE m \in 1 .. t : Turn(m) = normal[i]) = k + 1
        BY <2>5, <3>1
      <3>3. waited'[normal[i]] = t - (k + 1)
        BY <2>1, <2>5, <2>6, <3>1, <3>2
      <3>4. t - (k + 1) + k' < n
        <4>. HIDE DEF n, t
        <4>. QED BY <2>1, <2>2, <2>3, <2>4, <2>7
      <3>. QED BY <3>3, <3>4
    <2>8. CASE k >= t
      <3>1. ~ \E m \in 1 .. t : Turn(m) = normal[i]
        BY <2>1, <2>2, <2>5, <2>8
      <3>2. waited'[normal[i]] = waited[normal[i]] + t
        BY <2>1, <2>6, <3>1
      <3>3. waited[normal[i]] \in Nat /\ waited[normal[i]] + k < n
        BY <2>1 DEF QueueInv, RotationTypeOK, Rotation
      <3>4. waited[normal[i]] + t + k' < n
        <4>. HIDE DEF n, t
        <4>. QED BY <2>1, <2>2, <2>3, <2>4, <2>8, <3>3
      <3>. QED BY <3>2, <3>4
    <2>. QED BY <2>1, <2>2, <2>7, <2>8
  <1>. QED BY <1>2, <1>4, <1>5 DEF Rotation

(* The inductive invariant: what a normal parameter has waited and what is *)
(* ahead of it together stay below one rotation.                           *)
THEOREM RotationInvariant == QueueSpec => []QueueInv
  <1>1. QueueInit => QueueInv
    BY RotationStarts
  <1>2. QueueInv /\ [QueueNext]_queue => QueueInv'
    <2>. SUFFICES ASSUME QueueInv, [QueueNext]_queue PROVE QueueInv'
      OBVIOUS
    <2>1. ASSUME NEW p \in Params, Enqueue(p) PROVE QueueInv'
      BY <2>1, EnqueueKeepsRotation
    <2>2. ASSUME NEW p \in Params, EnqueueFront(p) PROVE QueueInv'
      BY <2>2 DEF EnqueueFront, QueueInv, RotationTypeOK, Rotation, Ahead, Distinct
    <2>3. CASE NextChunk
      BY <2>3, NextChunkKeepsRotation
    <2>4. CASE RecordBulk
      BY <2>4 DEF RecordBulk, QueueInv, RotationTypeOK, Rotation, Ahead, Distinct
    <2>5. CASE UNCHANGED queue
      BY <2>5 DEF queue, QueueInv, RotationTypeOK, Rotation, Ahead, Distinct
    <2>. QED BY <2>1, <2>2, <2>3, <2>4, <2>5 DEF QueueNext, PollerStep
  <1>. QED BY <1>1, <1>2, PTL DEF QueueSpec

(* No normal parameter is read twice while another one waits for its turn, *)
(* for every rotation, chunk size and pattern of manual polls.             *)
THEOREM TurnsAreFair == QueueSpec => []TurnWithinOneRotation
  <1>1. QueueInv => TurnWithinOneRotation
    <2>. SUFFICES ASSUME QueueInv, NEW i \in DOMAIN normal
                  PROVE  waited[normal[i]] < Len(normal)
      BY DEF TurnWithinOneRotation, Elements
    <2>1. normal[i] \in Params /\ i \in 1 .. Len(normal)
      BY DEF QueueInv, RotationTypeOK
    <2>. QED BY <2>1 DEF QueueInv, RotationTypeOK, Rotation, Ahead
  <1>. QED BY <1>1, RotationInvariant, PTL

-----------------------------------------------------------------------------
(***************************************************************************)
(* The shared binding of the gateway for any number of handlers, streams,  *)
(* tools and clients.  The invariants of GatewayBinding are not inductive  *)
(* one by one: what keeps a replaced client's failure from closing its     *)
(* replacement is that a handler in resetDeviceBinding owns b.mu and that  *)
(* its snapshot is the bound client from its check to the end.  BindingInv *)
(* says so, and all the properties follow from it.                         *)
(***************************************************************************)

Bound(h) ==
    /\ client = req[h].snap
    /\ client # 0
    /\ client \in closed
    /\ ~listening

BindingInv ==
    /\ BindingTypeOK
    /\ mu # None => req[mu].pc = "stopping"
    /\ \A h \in Handlers : req[h].pc = "stopping" => mu = h /\ Bound(h)
    /\ \A h \in Handlers : req[h].pc \in {"use", "reset", "stopping"} => req[h].snap # 0
    /\ \A h \in Handlers : req[h].pc \in {"reset", "stopping"} => req[h].snap \in failedOn
    /\ mu = None => client \notin closed
    /\ proxy \in {0, client}
    /\ ring \in {0, client}
    /\ listening => client # 0 /\ proxy = client
    /\ \A t \in Tools : tool[t].pc # "out" => client # 0 /\ tool[t].on = client
    /\ NoLeakedClient
    /\ HealthyClientsStayOpen

(* What the proofs need to know of the constants.                          *)
LEMMA Constants == MaxClients \in Nat /\ None \notin Handlers
  BY BindingConstants

(* A handler that has answered is in a state of its type, without a client.*)
LEMMA IdleType == Idle \in RequestState /\ Idle.snap = 0 /\ Idle.pc = "idle"
  BY DEF Idle, RequestState, PCs, AnyError

(* A handler that carries on with another pc is in a state of its type.    *)
LEMMA CarryType ==
    ASSUME BindingTypeOK, NEW h \in Handlers
    PROVE  /\ Carry(h) \in RequestState
           /\ \/ Carry(h).pc = "use" /\ Carry(h).snap = req[h].snap
              \/ Carry(h) = Idle
  BY IdleType, Zenon DEF Carry, BindingTypeOK, RequestState, PCs, AnyError

(* Records made from a handler's state.                                    *)
LEMMA MoveType ==
    ASSUME NEW r \in RequestState, NEW p \in PCs, NEW c \in Nat, NEW e \in AnyError
    PROVE  /\ [r EXCEPT !.pc = p] \in RequestState
           /\ [r EXCEPT !.pc = p, !.snap = c] \in RequestState
           /\ [r EXCEPT !.pc = p, !.err = e] \in RequestState
  BY Zenon DEF RequestState

(* The binding starts empty.                                               *)
LEMMA InitBinding == BindingInit => BindingInv
<1> SUFFICES ASSUME BindingInit PROVE BindingInv
  OBVIOUS
<1> USE IdleType DEF BindingInit
<1>1. req \in [Handlers -> RequestState] /\ \A h \in Handlers : req[h].snap <= opened
  OBVIOUS
<1>2. tool \in [Tools -> [pc : {"out", "idle", "busy"}, on : Nat]]
  BY DEF NoSession
<1>3. lastErr \in AnyError /\ mu \in Handlers \cup {None} /\ opened \in 0 .. MaxClients
  BY Constants DEF AnyError
<1>4. listening \in BOOLEAN
  BY Zenon
<1>5. BindingTypeOK
  BY <1>1, <1>2, <1>3, <1>4 DEF BindingTypeOK
<1> QED
  BY <1>5 DEF BindingInv, Bound, NoSession, NoLeakedClient, HealthyClientsStayOpen

(* Every handler and tool step preserves BindingInv.                       *)
LEMMA NextBinding == BindingInv /\ [BindingNext]_bindingVars => BindingInv'
<1> SUFFICES ASSUME BindingInv, [BindingNext]_bindingVars PROVE BindingInv'
  OBVIOUS
<1> USE Constants, IdleType, CarryType DEF BindingInv, BindingTypeOK, Bound, NoLeakedClient, HealthyClientsStayOpen
<1>1. ASSUME NEW h \in Handlers, Request(h) PROVE BindingInv'
  <2>1. BindingTypeOK'
    BY <1>1, Zenon DEF Request, RequestState, PCs, AnyError
  <2> QED
    BY <1>1, <2>1 DEF Request
<1>2. ASSUME NEW h \in Handlers, BindBound(h) PROVE BindingInv'
  <2>1. req' \in [Handlers -> RequestState] /\ \A g \in Handlers : req'[g].snap <= opened'
    <3>1. AfterBind(h) \in PCs
      BY DEF AfterBind, PCs
    <3>2. client \in Nat /\ req[h] \in RequestState
      OBVIOUS
    <3>3. [req[h] EXCEPT !.pc = AfterBind(h), !.snap = client] \in RequestState
      BY <3>1, <3>2, MoveType, IdleType, Zenon DEF RequestState
    <3> QED
      BY <1>2, <3>3 DEF BindBound
  <2>2. BindingTypeOK'
    BY <1>2, <2>1 DEF BindBound
  <2> QED
    BY <1>2, <2>2 DEF BindBound, AfterBind
<1>3. ASSUME NEW h \in Handlers, BindOpens(h) PROVE BindingInv'
  <2>1. req' \in [Handlers -> RequestState] /\ \A g \in Handlers : req'[g].snap <= opened'
    <3>1. AfterBind(h) \in PCs
      BY DEF AfterBind, PCs
    <3>2. opened + 1 \in Nat /\ req[h] \in RequestState
      OBVIOUS
    <3>3. [req[h] EXCEPT !.pc = AfterBind(h), !.snap = opened + 1] \in RequestState
      BY <3>1, <3>2, MoveType, IdleType, Zenon DEF RequestState
    <3>4. req' \in [Handlers -> RequestState]
      BY <1>3, <3>3 DEF BindOpens
    <3>5. ASSUME NEW g \in Handlers PROVE req'[g].snap <= opened'
      <4>1. CASE g = h
        BY <1>3, <4>1 DEF BindOpens, RequestState
      <4>2. CASE g # h
        BY <1>3, <4>2 DEF BindOpens, RequestState
      <4> QED
        BY <4>1, <4>2
    <3> QED
      BY <3>4, <3>5
  <2>2. BindingTypeOK'
    BY <1>3, <2>1 DEF BindOpens, AnyError
  <2>3. client' = opened + 1 /\ client' # 0 /\ client' \notin closed' /\ proxy' \in {0, client'} /\ ring' \in {0, client'}
    BY <1>3 DEF BindOpens
  <2>4. listening' => proxy' = client'
    BY <1>3, Zenon DEF BindOpens
  <2>5. \A g \in Handlers : \/ g # h /\ req'[g] = req[g]
                            \/ g = h /\ req'[g].pc \in {"use", "authorize"} /\ req'[g].snap # 0
    BY <1>3 DEF BindOpens, AfterBind, RequestState
  <2>6. \A g \in Handlers : req'[g].pc # "stopping"
    BY <1>3, <2>5 DEF BindOpens
  <2>7. NoLeakedClient' /\ HealthyClientsStayOpen'
    BY <1>3 DEF BindOpens
  <2>8. \A t \in Tools : tool'[t].pc = "out"
    BY <1>3 DEF BindOpens
  <2> QED
    BY <1>3, <2>2, <2>3, <2>4, <2>5, <2>6, <2>7, <2>8 DEF BindOpens
<1>4. ASSUME NEW h \in Handlers, BindFails(h) PROVE BindingInv'
  <2>1. BindingTypeOK'
    <3>1. req' \in [Handlers -> RequestState] /\ \A g \in Handlers : req'[g].snap <= opened'
      BY <1>4 DEF BindFails
    <3>2. lastErr' \in AnyError
      BY <1>4, Zenon DEF BindFails, AnyError, Transport
    <3> QED
      BY <1>4, <3>1, <3>2, Zenon DEF BindFails
  <2> QED
    BY <1>4, <2>1 DEF BindFails
<1>5. ASSUME NEW h \in Handlers, UseOK(h) PROVE BindingInv'
  <2>1. BindingTypeOK'
    <3>1. req' \in [Handlers -> RequestState] /\ \A g \in Handlers : req'[g].snap <= opened'
      BY <1>5 DEF UseOK
    <3> QED
      BY <1>5, <3>1, Zenon DEF UseOK
  <2> QED
    BY <1>5, <2>1 DEF UseOK
<1>6. ASSUME NEW h \in Handlers, UseFails(h) PROVE BindingInv'
  <2>1. req' \in [Handlers -> RequestState] /\ \A g \in Handlers : req'[g].snap <= opened'
    <3>1. PICK e \in Outcomes(req[h].snap) : Failed(h, e)
      BY <1>6, SMTT(30) DEF UseFails
    <3>2. e \in AnyError /\ "reset" \in PCs /\ req[h] \in RequestState
      BY BindingConstants DEF Outcomes, AnyError, Unclassified, PCs
    <3>3. [req[h] EXCEPT !.pc = "reset", !.err = e] \in RequestState
      BY <3>2, MoveType, IdleType, Zenon DEF RequestState
    <3> QED
      BY <1>6, <3>1, <3>3 DEF UseFails, Failed
  <2>2. req[h].pc = "use" /\ req[h].snap \in 1 .. opened
    BY <1>6 DEF UseFails, RequestState
  <2>3. failedOn' \subseteq 1 .. opened /\ failedOn \subseteq failedOn'
    BY <1>6, <2>2, SMTT(30) DEF UseFails, Failed
  <2>4. BindingTypeOK'
    BY <1>6, <2>1, <2>3 DEF UseFails
  <2>5. \A g \in Handlers : \/ g # h /\ req'[g] = req[g]
                            \/ g = h /\ req'[g].pc = "reset" /\ req'[g].snap \in failedOn' /\ req'[g].snap # 0
                            \/ g = h /\ req'[g].pc = "use" /\ req'[g].snap # 0
                            \/ g = h /\ req'[g].pc = "idle"
    BY <1>6, <2>2 DEF UseFails, Failed
  <2>6. UNCHANGED <<client, opened, closed, proxy, listening, ring, mu, tool>>
    BY <1>6 DEF UseFails
  <2>7. (mu # None => req[mu].pc = "stopping")'
    <3>1. CASE mu = None
      BY <2>6, <3>1, SMTT(30)
    <3>2. CASE mu # None
      <4>1. mu \in Handlers /\ mu # h
        BY <2>2, <3>2, SMTT(30)
      <4> QED
        BY <2>5, <2>6, <4>1
    <3> QED
      BY <3>1, <3>2, SMTT(30)
  <2>8. \A g \in Handlers : (req[g].pc = "stopping" => mu = g /\ Bound(g))'
    BY <2>5, <2>6
  <2>9. \A g \in Handlers :
          /\ (req[g].pc \in {"use", "reset", "stopping"} => req[g].snap # 0)'
          /\ (req[g].pc \in {"reset", "stopping"} => req[g].snap \in failedOn)'
    BY <2>3, <2>5, Zenon
  <2>10. NoLeakedClient' /\ HealthyClientsStayOpen'
    BY <2>3, <2>6, SMTT(30)
  <2> QED
    BY <2>4, <2>6, <2>7, <2>8, <2>9, <2>10
<1>7. ASSUME NEW h \in Handlers, StreamEnds(h) PROVE BindingInv'
  <2>1. BindingTypeOK'
    BY <1>7, SMTT(30) DEF StreamEnds, AnyError
  <2> QED
    BY <1>7, <2>1, SMTT(30) DEF StreamEnds
<1>8. ASSUME NEW h \in Handlers, ResetStale(h) PROVE BindingInv'
  <2>1. BindingTypeOK'
    BY <1>8 DEF ResetStale, AnyError
  <2> QED
    BY <1>8, <2>1, SMTT(30) DEF ResetStale
<1>9. ASSUME NEW h \in Handlers, ResetBegins(h) PROVE BindingInv'
  <2>1. req' \in [Handlers -> RequestState] /\ \A g \in Handlers : req'[g].snap <= opened'
    BY <1>9 DEF ResetBegins, RequestState, PCs
  <2>2. BindingTypeOK'
    BY <1>9, <2>1, Zenon DEF ResetBegins
  <2> QED
    BY <1>9, <2>2 DEF ResetBegins
<1>10. ASSUME NEW h \in Handlers, ResetEnds(h) PROVE BindingInv'
  <2>1. req' \in [Handlers -> RequestState] /\ \A g \in Handlers : req'[g].snap <= opened'
    BY <1>10, SMTT(30) DEF ResetEnds
  <2>2. BindingTypeOK'
    BY <1>10, <2>1, SMTT(30) DEF ResetEnds, RequestState
  <2> QED
    BY <1>10, <2>2, SMTT(30) DEF ResetEnds
<1>11. ASSUME NEW t \in Tools, ToolConnects(t) PROVE BindingInv'
  BY <1>11 DEF ToolConnects
<1>12. ASSUME NEW t \in Tools, ToolStep(t) \/ ProxyStep(t) PROVE BindingInv'
  BY <1>12, SMTT(30) DEF ToolStep, ProxyStep, ToolSends, ToolLeaves, ProxyForwards, ProxyFails, NoSession
<1>13. CASE UNCHANGED bindingVars
  BY <1>13, SMTT(30) DEF bindingVars
<1> QED
  BY <1>1, <1>2, <1>3, <1>4, <1>5, <1>6, <1>7, <1>8, <1>9, <1>10, <1>11, <1>12, <1>13, Zenon DEF BindingNext, HandlerStep, Bind, Reset

(***************************************************************************)
(* BindingInv holds throughout, for any handlers, tools and clients.       *)
(***************************************************************************)
THEOREM BindingInvariant == BindingSpec => []BindingInv
  BY InitBinding, NextBinding, PTL DEF BindingSpec

(***************************************************************************)
(* resetDeviceBinding never closes a client on which no call has failed.   *)
(***************************************************************************)
THEOREM OnlyFailedClientsAreClosed == BindingSpec => []HealthyClientsStayOpen
<1>1. BindingInv => HealthyClientsStayOpen
  BY DEF BindingInv
<1> QED
  BY <1>1, BindingInvariant, PTL

(***************************************************************************)
(* Outside resetDeviceBinding the bound client is open and is the one the  *)
(* proxy, its sessions and the ring reader use: Stop waits for the         *)
(* sessions under b.mu.                                                    *)
(***************************************************************************)
THEOREM TheBindingIsWhole == BindingSpec => []BindingIsWhole
<1>1. BindingInv => BindingIsWhole
  BY DEF BindingInv, BindingIsWhole
<1> QED
  BY <1>1, BindingInvariant, PTL

(***************************************************************************)
(* bind and resetDeviceBinding leak no client.                             *)
(***************************************************************************)
THEOREM ClientsAreNotLeaked == BindingSpec => []NoLeakedClient
<1>1. BindingInv => NoLeakedClient
  BY DEF BindingInv
<1> QED
  BY <1>1, BindingInvariant, PTL

-----------------------------------------------------------------------------
(***************************************************************************)
(* handleWrite.  Between Commander's lease check and the end of the        *)
(* readback a writer's token is the valid one unless its lease ended       *)
(* (Leased), so two writers cannot both be there.  A writer past its write *)
(* had it acknowledged, and by the device's answer to that very write      *)
(* unless it took a late one (Acknowledged).                               *)
(***************************************************************************)

Answers == [kind : {"value", "ack", "nack"}, v : Nat]

(* From bind to the end of the request a writer has a client.              *)
HasClient(w) ==
    req[w].pc \in {"authorize", "backoff", "preread", "recheck", "write", "readback", "verify"}

WriteTypeOK ==
    /\ client \in 0 .. MaxClients /\ opened \in 0 .. MaxClients
    /\ req \in [Handlers -> RequestState]
    /\ \A w \in Writers : HasClient(w) => req[w].snap \in 1 .. MaxClients
    /\ lease \in Nat /\ granted \in Nat
    /\ token \in [Writers -> Nat]
    /\ want \in [Writers -> Nat] /\ value \in Nat /\ fault \in Nat
    /\ DOMAIN result = Writers
    /\ stream \in [1 .. MaxClients -> Seq(Answers)]

Leased == \A w \in Writers \ overrun : InWrite(w) => token[w] # 0 /\ token[w] = lease

Acknowledged ==
    \A w \in Writers \ misled : req[w].pc \in {"readback", "verify"} => w \in applied

WriteInv ==
    /\ WriteTypeOK
    /\ Leased
    /\ Acknowledged
    /\ ReportsAreTrue
    /\ fault # 0 => faulted

LEMMA WriteStarts == WriteInit => WriteInv
<1> SUFFICES ASSUME WriteInit PROVE WriteInv
  OBVIOUS
<1>1. /\ client = 0 /\ opened = 0 /\ req \in [Handlers -> RequestState]
      /\ \A w \in Writers : req[w].pc = "idle"
  BY IdleType DEF WriteInit, BindingInit, Handlers
<1>2. stream \in [1 .. MaxClients -> Seq(Answers)]
  BY DEF WriteInit
<1>3. WriteTypeOK
  BY <1>1, <1>2, BindingConstants, WriteConstants DEF WriteInit, WriteTypeOK, HasClient
<1> QED
  BY <1>1, <1>3 DEF WriteInit, WriteInv, Leased, InWrite, Acknowledged, ReportsAreTrue

(* Where a writer's request is after it went on, or was answered.          *)
LEMMA GotoMoves ==
    ASSUME req \in [Handlers -> RequestState], NEW w \in Writers, NEW place \in PCs,
           Goto(w, place)
    PROVE  /\ req' \in [Handlers -> RequestState]
           /\ req'[w].pc = place /\ req'[w].snap = req[w].snap
           /\ \A v \in Writers \ {w} : req'[v] = req[v]
           /\ UNCHANGED <<client, opened>>
<1>1. w \in Handlers /\ req[w] \in RequestState
  BY DEF Handlers
<1>2. PICK x \in RequestState : x = [req[w] EXCEPT !.pc = place]
  BY <1>1, Zenon DEF RequestState
<1>3. x.pc = place /\ x.snap = req[w].snap
  BY <1>1, <1>2 DEF RequestState
<1>4. req' = [req EXCEPT ![w] = x] /\ UNCHANGED <<client, opened>>
  BY <1>2 DEF Goto
<1> QED BY <1>1, <1>3, <1>4 DEF Handlers

LEMMA RespondMoves ==
    ASSUME req \in [Handlers -> RequestState], NEW w \in Writers, NEW status,
           Respond(w, status), DOMAIN result = Writers
    PROVE  /\ req' \in [Handlers -> RequestState] /\ req'[w].pc = "idle"
           /\ \A v \in Writers \ {w} : req'[v] = req[v] /\ result'[v] = result[v]
           /\ UNCHANGED <<client, opened>>
           /\ DOMAIN result' = Writers /\ result'[w] = status
<1>1. w \in Handlers
  BY DEF Handlers
<1>2. req' = [req EXCEPT ![w] = Idle] /\ UNCHANGED <<client, opened>>
  BY DEF Respond
<1>3. result' = [result EXCEPT ![w] = status]
  BY DEF Respond
<1> QED BY <1>1, <1>2, <1>3, IdleType DEF Handlers

LEMMA RespondErrorMoves ==
    ASSUME req \in [Handlers -> RequestState], NEW w \in Writers, NEW status, NEW e \in AnyError,
           RespondError(w, status, e), DOMAIN result = Writers
    PROVE  /\ req' \in [Handlers -> RequestState] /\ req'[w].pc \in {"idle", "reset"}
           /\ \A v \in Writers \ {w} : req'[v] = req[v] /\ result'[v] = result[v]
           /\ UNCHANGED <<client, opened>>
           /\ DOMAIN result' = Writers /\ result'[w] = status
<1>1. w \in Handlers /\ w \notin Streams /\ req[w] \in RequestState
  BY BindingConstants DEF Handlers
<1>2. "reset" \in PCs
  BY DEF PCs
<1>3. PICK x \in RequestState : req' = [req EXCEPT ![w] = x] /\ x.pc \in {"idle", "reset"}
  <2>1. CASE ShouldReset(e)
    <3>1. PICK x \in RequestState : x = [req[w] EXCEPT !.pc = "reset", !.err = e]
      BY <1>1, <1>2, Zenon DEF RequestState
    <3>2. x.pc = "reset"
      BY <1>1, <3>1 DEF RequestState
    <3> QED BY <2>1, <3>1, <3>2, Zenon DEF RespondError, Failed
  <2>2. CASE ~ShouldReset(e)
    BY <1>1, <2>2, IdleType, Zenon DEF RespondError, Failed, Carry
  <2> QED BY <2>1, <2>2
<1>4. result' = [result EXCEPT ![w] = status] /\ UNCHANGED <<client, opened>>
  BY DEF RespondError
<1> QED BY <1>1, <1>3, <1>4, SMTT(30) DEF Handlers

LEMMA AppendAnswer ==
    ASSUME NEW S, NEW s \in Seq(S), NEW r \in S
    PROVE  Append(s, r) \in Seq(S) /\ Append(s, r) # <<>>
<1>1. Append(s, r) \in Seq(S) /\ Len(Append(s, r)) = Len(s) + 1 /\ Len(s) \in Nat
  OBVIOUS
<1> QED BY <1>1

(* What a call on the client returns: no answer, the answer to this very   *)
(* request, or a late one, which misleads the writer.                      *)
LEMMA ExchangeReturns ==
    ASSUME WriteTypeOK, NEW w \in Writers, HasClient(w), NEW r \in Answers,
           NEW x \in Exchanges(w, r), Took(w, x)
    PROVE  /\ stream' \in [1 .. MaxClients -> Seq(Answers)]
           /\ misled \subseteq misled' /\ misled' \subseteq misled \cup {w}
           /\ x.got.kind \in {"closed", "ErrTimeout"} \/ x.got = r \/ w \in misled'
<1>1. PICK c \in 1 .. MaxClients : c = req[w].snap
  BY DEF WriteTypeOK
<1>2. PICK s \in Seq(Answers) : s = stream[c]
  BY <1>1 DEF WriteTypeOK
<1>3. PICK owed \in Seq(Answers) : owed = Append(s, r) /\ owed # <<>>
  <2>1. Append(s, r) \in Seq(Answers) /\ Append(s, r) # <<>>
    BY <1>2, AppendAnswer
  <2> QED BY <2>1, Zenon
<1>4. /\ Tail(owed) \in Seq(Answers)
      /\ s = <<>> => Head(owed) = r
      /\ s # <<>> => Head(owed) = Head(s)
  BY <1>2, <1>3
<1>5. /\ c \in closed => x = [got |-> NoReply("closed"), rest |-> s]
      /\ c \notin closed => \/ x = [got |-> Head(owed), rest |-> Tail(owed)]
                            \/ x = [got |-> NoReply("ErrTimeout"), rest |-> s]
                            \/ x = [got |-> NoReply("ErrTimeout"), rest |-> owed]
  BY <1>1, <1>2, <1>3, Zenon DEF Exchanges
<1>6. x.rest \in Seq(Answers)
  <2>1. x.rest = s \/ x.rest = owed \/ x.rest = Tail(owed)
    BY <1>5
  <2> QED BY <1>2, <1>3, <1>4, <2>1, Zenon
<1>7. stream' = IF c \in closed THEN stream ELSE [stream EXCEPT ![c] = x.rest]
  BY <1>1 DEF Took
<1>8. stream' \in [1 .. MaxClients -> Seq(Answers)]
  BY <1>1, <1>6, <1>7, SMTT(30) DEF WriteTypeOK
<1>9. misled' = IF c \notin closed /\ s # <<>> /\ x.got = Head(s)
                THEN misled \cup {w} ELSE misled
  BY <1>1, <1>2, SMTT(30) DEF Took
<1>10. x.got.kind \in {"closed", "ErrTimeout"} \/ x.got = r \/ w \in misled'
  BY <1>4, <1>5, <1>9, SMTT(30) DEF NoReply
<1> QED BY <1>8, <1>9, <1>10

(* A step of a writer's own request: what of it concerns the invariant.    *)
LEMMA OwnStepKeeps ==
    ASSUME WriteInv, NEW w \in Writers,
           req' \in [Handlers -> RequestState],
           HasClient(w)' => req'[w].snap \in 1 .. MaxClients,
           InWrite(w)' => w \in overrun \/ Valid(w),
           \A v \in Writers \ {w} : req'[v] = req[v] /\ result'[v] = result[v],
           UNCHANGED <<client, opened, lease, granted, token, want, fault, overrun, faulted>>,
           value' \in Nat, DOMAIN result' = Writers,
           stream' \in [1 .. MaxClients -> Seq(Answers)],
           misled \subseteq misled', misled' \subseteq misled \cup {w}, applied \subseteq applied',
           w \notin misled' =>
             /\ req'[w].pc \in {"readback", "verify"} => w \in applied'
             /\ result'[w] = "completed" => w \in applied'
             /\ result'[w] = "blocked" => faulted
    PROVE  WriteInv'
<1>a. WriteTypeOK /\ Leased /\ Acknowledged /\ ReportsAreTrue /\ (fault # 0 => faulted)
  BY DEF WriteInv
<1>1. WriteTypeOK'
  BY <1>a, Zenon DEF WriteTypeOK, HasClient
<1>2. Leased'
  BY <1>a, SMTT(30) DEF Leased, InWrite, Valid
<1>3. Acknowledged' /\ ReportsAreTrue'
  BY <1>a DEF Acknowledged, ReportsAreTrue
<1> QED BY <1>a, <1>1, <1>2, <1>3, SMTT(30) DEF WriteInv

LEMMA AuthorizeKeeps ==
    ASSUME WriteInv, NEW w \in Writers, Authorize(w)
    PROVE  WriteInv'
<1>a. WriteTypeOK /\ req \in [Handlers -> RequestState] /\ DOMAIN result = Writers
  BY DEF WriteInv, WriteTypeOK
<1>b. /\ req[w].pc = "authorize" /\ req[w].snap \in 1 .. MaxClients
      /\ UNCHANGED <<lease, granted, token, want, stream, value, fault, applied, overrun, misled, faulted>>
  BY <1>a DEF Authorize, WriteTypeOK, HasClient, history
<1>1. CASE Goto(w, "backoff") /\ UNCHANGED result
  <2>1. /\ req' \in [Handlers -> RequestState]
        /\ req'[w].pc = "backoff" /\ req'[w].snap = req[w].snap
        /\ \A v \in Writers \ {w} : req'[v] = req[v]
        /\ UNCHANGED <<client, opened>>
    BY <1>a, <1>1, GotoMoves DEF PCs
  <2> QED
    BY <1>a, <1>b, <1>1, <2>1, OwnStepKeeps, Zenon DEF WriteInv, WriteTypeOK, InWrite, ReportsAreTrue
<1>2. CASE Respond(w, "locked")
  <2>1. /\ req' \in [Handlers -> RequestState] /\ req'[w].pc = "idle"
        /\ \A v \in Writers \ {w} : req'[v] = req[v] /\ result'[v] = result[v]
        /\ UNCHANGED <<client, opened>>
        /\ DOMAIN result' = Writers /\ result'[w] = "locked"
    BY <1>a, <1>2, RespondMoves, Zenon
  <2> QED
    BY <1>a, <1>b, <2>1, OwnStepKeeps, Zenon DEF WriteTypeOK, HasClient, InWrite
<1> QED BY <1>1, <1>2, Zenon DEF Authorize

LEMMA BackoffKeeps ==
    ASSUME WriteInv, NEW w \in Writers, Backoff(w)
    PROVE  WriteInv'
<1>a. /\ WriteTypeOK /\ req \in [Handlers -> RequestState] /\ DOMAIN result = Writers
      /\ value \in Nat /\ fault \in Nat
  BY DEF WriteInv, WriteTypeOK
<1>b. /\ req[w].pc = "backoff" /\ HasClient(w) /\ req[w].snap \in 1 .. MaxClients
      /\ UNCHANGED <<lease, granted, token, want, value, fault, applied, overrun, faulted>>
  BY <1>a, Zenon DEF Backoff, WriteTypeOK, HasClient
<1>c. PICK r \in Answers : r = Reading(fault)
  BY <1>a, Zenon DEF Reading, Answers
<1>f. r.v = fault
  BY <1>c, SMTT(30) DEF Reading
<1>d. PICK x \in Exchanges(w, r) :
        /\ Took(w, x)
        /\ IF x.got.kind = "value" /\ x.got.v # 0 THEN Respond(w, "blocked")
           ELSE Goto(w, "preread") /\ UNCHANGED result
  BY <1>c DEF Backoff
<1>e. /\ stream' \in [1 .. MaxClients -> Seq(Answers)]
      /\ misled \subseteq misled' /\ misled' \subseteq misled \cup {w}
      /\ x.got.kind \in {"closed", "ErrTimeout"} \/ x.got = r \/ w \in misled'
  BY <1>a, <1>b, <1>c, <1>d, ExchangeReturns, Zenon
<1>1. CASE Goto(w, "preread") /\ UNCHANGED result
  <2>1. /\ req' \in [Handlers -> RequestState]
        /\ req'[w].pc = "preread" /\ req'[w].snap = req[w].snap
        /\ \A v \in Writers \ {w} : req'[v] = req[v]
        /\ UNCHANGED <<client, opened>>
    BY <1>a, <1>1, GotoMoves DEF PCs
  <2> QED
    BY <1>a, <1>b, <1>e, <1>1, <2>1, OwnStepKeeps, Zenon DEF WriteInv, InWrite, ReportsAreTrue
<1>2. CASE Respond(w, "blocked") /\ x.got.kind = "value" /\ x.got.v # 0
  <2>1. /\ req' \in [Handlers -> RequestState] /\ req'[w].pc = "idle"
        /\ \A v \in Writers \ {w} : req'[v] = req[v] /\ result'[v] = result[v]
        /\ UNCHANGED <<client, opened>>
        /\ DOMAIN result' = Writers /\ result'[w] = "blocked"
    BY <1>a, <1>2, RespondMoves, Zenon
  <2>2. w \notin misled' => faulted
    <3>1. w \notin misled' => fault # 0
      BY <1>e, <1>f, <1>2, Zenon
    <3> QED BY <3>1 DEF WriteInv
  <2> QED
    BY <1>a, <1>b, <1>e, <2>1, <2>2, OwnStepKeeps, Zenon DEF HasClient, InWrite
<1> QED BY <1>d, <1>1, <1>2

LEMMA PreReadKeeps ==
    ASSUME WriteInv, NEW w \in Writers, PreRead(w)
    PROVE  WriteInv'
<1>a. /\ WriteTypeOK /\ req \in [Handlers -> RequestState] /\ DOMAIN result = Writers
      /\ value \in Nat
  BY DEF WriteInv, WriteTypeOK
<1>b. /\ req[w].pc = "preread" /\ HasClient(w) /\ req[w].snap \in 1 .. MaxClients
      /\ Goto(w, "recheck")
      /\ UNCHANGED <<lease, granted, token, want, result, value, fault, applied, overrun, faulted>>
  BY <1>a DEF PreRead, WriteTypeOK, HasClient
<1>c. PICK r \in Answers : r = Reading(value)
  BY <1>a, Zenon DEF Reading, Answers
<1>d. PICK x \in Exchanges(w, r) : Took(w, x)
  BY <1>c, Zenon DEF PreRead
<1>e. /\ stream' \in [1 .. MaxClients -> Seq(Answers)]
      /\ misled \subseteq misled' /\ misled' \subseteq misled \cup {w}
  BY <1>a, <1>b, <1>c, <1>d, ExchangeReturns, Zenon
<1>1. /\ req' \in [Handlers -> RequestState]
      /\ req'[w].pc = "recheck" /\ req'[w].snap = req[w].snap
      /\ \A v \in Writers \ {w} : req'[v] = req[v]
      /\ UNCHANGED <<client, opened>>
  BY <1>a, <1>b, GotoMoves DEF PCs
<1> QED
  BY <1>a, <1>b, <1>e, <1>1, OwnStepKeeps, Zenon DEF WriteInv, InWrite, ReportsAreTrue

LEMMA RecheckKeeps ==
    ASSUME WriteInv, NEW w \in Writers, Recheck(w)
    PROVE  WriteInv'
<1>a. /\ WriteTypeOK /\ req \in [Handlers -> RequestState] /\ DOMAIN result = Writers
      /\ value \in Nat
  BY DEF WriteInv, WriteTypeOK
<1>b. /\ req[w].pc = "recheck" /\ req[w].snap \in 1 .. MaxClients
      /\ UNCHANGED <<lease, granted, token, want, stream, value, fault, applied, overrun, misled, faulted>>
  BY <1>a DEF Recheck, WriteTypeOK, HasClient, history
<1>1. CASE Valid(w) /\ Goto(w, "write") /\ UNCHANGED result
  <2>1. /\ req' \in [Handlers -> RequestState]
        /\ req'[w].pc = "write" /\ req'[w].snap = req[w].snap
        /\ \A v \in Writers \ {w} : req'[v] = req[v]
        /\ UNCHANGED <<client, opened>>
    BY <1>a, <1>1, GotoMoves DEF PCs
  <2> QED
    BY <1>a, <1>b, <1>1, <2>1, OwnStepKeeps, Zenon DEF WriteInv, WriteTypeOK, ReportsAreTrue
<1>2. CASE RespondError(w, "locked", "lease")
  <2>0. "lease" \in AnyError
    BY DEF AnyError, Unclassified
  <2>1. /\ req' \in [Handlers -> RequestState] /\ req'[w].pc \in {"idle", "reset"}
        /\ \A v \in Writers \ {w} : req'[v] = req[v] /\ result'[v] = result[v]
        /\ UNCHANGED <<client, opened>>
        /\ DOMAIN result' = Writers /\ result'[w] = "locked"
    BY <1>a, <1>2, <2>0, RespondErrorMoves, Zenon
  <2> QED
    BY <1>a, <1>b, <2>1, OwnStepKeeps, Zenon DEF WriteTypeOK, HasClient, InWrite
<1> QED BY <1>1, <1>2, Zenon DEF Recheck

LEMMA WriteKeeps ==
    ASSUME WriteInv, NEW w \in Writers, Write(w)
    PROVE  WriteInv'
<1>a. /\ WriteTypeOK /\ req \in [Handlers -> RequestState] /\ DOMAIN result = Writers
      /\ value \in Nat /\ want[w] \in Nat
  BY DEF WriteInv, WriteTypeOK
<1>b. /\ req[w].pc = "write" /\ HasClient(w) /\ req[w].snap \in 1 .. MaxClients
      /\ InWrite(w)
      /\ UNCHANGED <<lease, granted, token, want, fault, overrun, faulted>>
  BY <1>a, Zenon DEF Write, WriteTypeOK, HasClient, InWrite
<1>c. PICK accepts \in BOOLEAN :
        /\ value' = IF accepts THEN want[w] ELSE value
        /\ applied' = IF accepts THEN applied \cup {w} ELSE applied
        /\ \E x \in Exchanges(w, IF accepts THEN Ack ELSE Nack) :
              /\ Took(w, x)
              /\ IF x.got.kind \in {"value", "ack"}
                 THEN Goto(w, "readback") /\ UNCHANGED result
                 ELSE RespondError(w, "failed", ErrorOf(x.got))
  BY Zenon DEF Write
<1>d. PICK r \in Answers : /\ r = IF accepts THEN Ack ELSE Nack
                           /\ r.kind = "ack" => accepts
                           /\ r.kind \in {"ack", "nack"}
  <2>1. Ack \in Answers /\ Ack.kind = "ack" /\ Nack \in Answers /\ Nack.kind = "nack"
    BY DEF Ack, Nack, Answers
  <2> QED BY <2>1, Zenon
<1>e. PICK x \in Exchanges(w, r) :
        /\ Took(w, x)
        /\ IF x.got.kind \in {"value", "ack"}
           THEN Goto(w, "readback") /\ UNCHANGED result
           ELSE RespondError(w, "failed", ErrorOf(x.got))
  BY <1>c, <1>d, Zenon
<1>f. /\ stream' \in [1 .. MaxClients -> Seq(Answers)]
      /\ misled \subseteq misled' /\ misled' \subseteq misled \cup {w}
      /\ x.got.kind \in {"closed", "ErrTimeout"} \/ x.got = r \/ w \in misled'
  BY <1>a, <1>b, <1>d, <1>e, ExchangeReturns, Zenon
<1>g. value' \in Nat /\ applied \subseteq applied' /\ (accepts => w \in applied')
  BY <1>a, <1>c, Zenon
<1>h. w \in overrun \/ Valid(w)
  BY <1>b, Zenon DEF WriteInv, Leased, Valid
<1>1. CASE x.got.kind \in {"value", "ack"} /\ Goto(w, "readback") /\ UNCHANGED result
  <2>1. /\ req' \in [Handlers -> RequestState]
        /\ req'[w].pc = "readback" /\ req'[w].snap = req[w].snap
        /\ \A v \in Writers \ {w} : req'[v] = req[v]
        /\ UNCHANGED <<client, opened>>
    BY <1>a, <1>1, GotoMoves, Zenon DEF PCs
  <2>2. w \notin misled' => w \in applied'
    BY <1>d, <1>f, <1>g, <1>1, Zenon
  <2>3. w \notin misled' => (result'[w] = "blocked" => faulted)
    BY <1>f, <1>1, Zenon DEF WriteInv, ReportsAreTrue
  <2> QED
    BY <1>a, <1>b, <1>f, <1>g, <1>h, <1>1, <2>1, <2>2, <2>3, OwnStepKeeps, Zenon
<1>2. CASE RespondError(w, "failed", ErrorOf(x.got))
  <2>0. ErrorOf(x.got) \in AnyError
    BY Zenon DEF ErrorOf, AnyError, Unclassified, Transport
  <2>1. /\ req' \in [Handlers -> RequestState] /\ req'[w].pc \in {"idle", "reset"}
        /\ \A v \in Writers \ {w} : req'[v] = req[v] /\ result'[v] = result[v]
        /\ UNCHANGED <<client, opened>>
        /\ DOMAIN result' = Writers /\ result'[w] = "failed"
    BY <1>a, <1>2, <2>0, RespondErrorMoves, Zenon
  <2> QED
    BY <1>a, <1>b, <1>f, <1>g, <1>h, <2>1, OwnStepKeeps, Zenon DEF HasClient
<1> QED BY <1>e, <1>1, <1>2, Zenon

LEMMA ReadbackKeeps ==
    ASSUME WriteInv, NEW w \in Writers, Readback(w)
    PROVE  WriteInv'
<1>a. /\ WriteTypeOK /\ req \in [Handlers -> RequestState] /\ DOMAIN result = Writers
      /\ value \in Nat
  BY DEF WriteInv, WriteTypeOK
<1>b. /\ req[w].pc = "readback" /\ HasClient(w) /\ req[w].snap \in 1 .. MaxClients
      /\ InWrite(w)
      /\ UNCHANGED <<lease, granted, token, want, value, fault, applied, overrun, faulted>>
  BY <1>a, Zenon DEF Readback, WriteTypeOK, HasClient, InWrite
<1>c. PICK r \in Answers : r = Reading(value)
  BY <1>a, Zenon DEF Reading, Answers
<1>d. PICK x \in Exchanges(w, r) :
        /\ Took(w, x)
        /\ IF x.got.kind = "value" /\ x.got.v # want[w]
           THEN RespondError(w, "readback_mismatch", "mismatch")
           ELSE Goto(w, "verify") /\ UNCHANGED result
  BY <1>c, Zenon DEF Readback
<1>e. /\ stream' \in [1 .. MaxClients -> Seq(Answers)]
      /\ misled \subseteq misled' /\ misled' \subseteq misled \cup {w}
  BY <1>a, <1>b, <1>c, <1>d, ExchangeReturns, Zenon
<1>f. /\ w \in overrun \/ Valid(w)
      /\ w \notin misled' => w \in applied
  BY <1>b, <1>e, Zenon DEF WriteInv, Leased, Valid, Acknowledged
<1>1. CASE Goto(w, "verify") /\ UNCHANGED result
  <2>1. /\ req' \in [Handlers -> RequestState]
        /\ req'[w].pc = "verify" /\ req'[w].snap = req[w].snap
        /\ \A v \in Writers \ {w} : req'[v] = req[v]
        /\ UNCHANGED <<client, opened>>
    BY <1>a, <1>1, GotoMoves DEF PCs
  <2>2. w \notin misled' => (result'[w] = "blocked" => faulted)
    BY <1>e, <1>1, Zenon DEF WriteInv, ReportsAreTrue
  <2> QED
    BY <1>a, <1>b, <1>e, <1>f, <1>1, <2>1, <2>2, OwnStepKeeps
<1>2. CASE RespondError(w, "readback_mismatch", "mismatch")
  <2>0. "mismatch" \in AnyError
    BY DEF AnyError, Unclassified
  <2>1. /\ req' \in [Handlers -> RequestState] /\ req'[w].pc \in {"idle", "reset"}
        /\ \A v \in Writers \ {w} : req'[v] = req[v] /\ result'[v] = result[v]
        /\ UNCHANGED <<client, opened>>
        /\ DOMAIN result' = Writers /\ result'[w] = "readback_mismatch"
    BY <1>a, <1>2, <2>0, RespondErrorMoves, Zenon
  <2> QED
    BY <1>a, <1>b, <1>e, <1>f, <2>1, OwnStepKeeps, Zenon DEF HasClient
<1> QED BY <1>d, <1>1, <1>2, Zenon

LEMMA VerifyKeeps ==
    ASSUME WriteInv, NEW w \in Writers, Verify(w)
    PROVE  WriteInv'
<1>a. /\ WriteTypeOK /\ req \in [Handlers -> RequestState] /\ DOMAIN result = Writers
      /\ value \in Nat
  BY DEF WriteInv, WriteTypeOK
<1>b. /\ req[w].pc = "verify" /\ HasClient(w) /\ req[w].snap \in 1 .. MaxClients
      /\ UNCHANGED <<lease, granted, token, want, value, fault, applied, overrun, faulted>>
  BY <1>a, Zenon DEF Verify, WriteTypeOK, HasClient
<1>c. PICK r \in Answers : r = Reading(value)
  BY <1>a, Zenon DEF Reading, Answers
<1>d. PICK x \in Exchanges(w, r) :
        /\ Took(w, x)
        /\ IF x.got.kind # "value"
           THEN RespondError(w, "verify_failed", ErrorOf(x.got))
           ELSE Respond(w, IF x.got.v = want[w] THEN "completed" ELSE "readback_mismatch")
  BY <1>c, Zenon DEF Verify
<1>e. /\ stream' \in [1 .. MaxClients -> Seq(Answers)]
      /\ misled \subseteq misled' /\ misled' \subseteq misled \cup {w}
  BY <1>a, <1>b, <1>c, <1>d, ExchangeReturns, Zenon
<1>f. w \notin misled' => w \in applied
  BY <1>b, <1>e, Zenon DEF WriteInv, Acknowledged
<1>1. ASSUME NEW status \in {"completed", "readback_mismatch"}, Respond(w, status)
      PROVE  WriteInv'
  <2>1. /\ req' \in [Handlers -> RequestState] /\ req'[w].pc = "idle"
        /\ \A v \in Writers \ {w} : req'[v] = req[v] /\ result'[v] = result[v]
        /\ UNCHANGED <<client, opened>>
        /\ DOMAIN result' = Writers /\ result'[w] = status
    BY <1>a, <1>1, RespondMoves, Zenon
  <2> QED
    BY <1>a, <1>b, <1>e, <1>f, <2>1, OwnStepKeeps, Zenon DEF HasClient, InWrite
<1>2. CASE RespondError(w, "verify_failed", ErrorOf(x.got))
  <2>0. ErrorOf(x.got) \in AnyError
    BY Zenon DEF ErrorOf, AnyError, Unclassified, Transport
  <2>1. /\ req' \in [Handlers -> RequestState] /\ req'[w].pc \in {"idle", "reset"}
        /\ \A v \in Writers \ {w} : req'[v] = req[v] /\ result'[v] = result[v]
        /\ UNCHANGED <<client, opened>>
        /\ DOMAIN result' = Writers /\ result'[w] = "verify_failed"
    BY <1>a, <1>2, <2>0, RespondErrorMoves, Zenon
  <2> QED
    BY <1>a, <1>b, <1>e, <1>f, <2>1, OwnStepKeeps, Zenon DEF HasClient, InWrite
<1> QED BY <1>d, <1>1, <1>2, Zenon

(* A step on the binding: bind, or resetDeviceBinding after a failure.     *)
LEMMA BindingStepKeeps ==
    ASSUME WriteInv, NEW w \in Writers, NEW x \in RequestState,
           req' = [req EXCEPT ![w] = x],
           x.pc \in {"idle", "reset", "stopping"} \/ (x.pc = "authorize" /\ x.snap \in 1 .. MaxClients),
           client' \in 0 .. MaxClients, opened' \in 0 .. MaxClients,
           UNCHANGED writeVars
    PROVE  WriteInv'
<1>a. WriteTypeOK /\ Leased /\ Acknowledged /\ ReportsAreTrue /\ (fault # 0 => faulted)
  BY DEF WriteInv
<1>b. /\ req' \in [Handlers -> RequestState] /\ req'[w] = x
      /\ \A v \in Writers \ {w} : req'[v] = req[v]
  BY <1>a DEF WriteTypeOK, Handlers
<1>c. UNCHANGED <<lease, granted, token, want, result, stream, value, fault, applied, overrun,
                  misled, faulted>>
  BY SMTT(30) DEF writeVars, history
<1>1. WriteTypeOK'
  BY <1>a, <1>b, <1>c DEF WriteTypeOK, HasClient
<1>2. Leased'
  BY <1>a, <1>b, <1>c DEF Leased, InWrite
<1>3. Acknowledged' /\ ReportsAreTrue'
  BY <1>a, <1>b, <1>c DEF Acknowledged, ReportsAreTrue
<1> QED BY <1>a, <1>c, <1>1, <1>2, <1>3 DEF WriteInv

LEMMA BindForWriteKeeps ==
    ASSUME WriteInv, NEW w \in Writers, BindForWrite(w)
    PROVE  WriteInv'
<1>a. /\ WriteTypeOK /\ req[w] \in RequestState /\ w \in Handlers
      /\ client \in 0 .. MaxClients /\ opened \in 0 .. MaxClients
  BY Zenon DEF WriteInv, WriteTypeOK, Handlers
<1>b. /\ "authorize" \in PCs /\ AfterBind(w) = "authorize" /\ MaxClients \in Nat
      /\ None \in AnyError
  BY BindingConstants DEF PCs, AfterBind, AnyError
<1>1. CASE BindBound(w) /\ UNCHANGED writeVars
  <2>1. PICK c \in 1 .. MaxClients : c = client
    BY <1>a, <1>b, <1>1 DEF BindBound
  <2>a. c \in Nat
    BY <1>b, <2>1
  <2>2. PICK x \in RequestState : x = [req[w] EXCEPT !.pc = "authorize", !.snap = c]
    BY <1>a, <1>b, <2>a, MoveType, Zenon
  <2>3. x.pc = "authorize" /\ x.snap = c
    BY <1>a, <2>2 DEF RequestState
  <2>4. req' = [req EXCEPT ![w] = x] /\ UNCHANGED <<client, opened>>
    BY <1>b, <1>1, <2>1, <2>2 DEF BindBound
  <2> QED BY <1>a, <1>1, <2>1, <2>3, <2>4, BindingStepKeeps, Zenon
<1>2. CASE BindOpens(w) /\ UNCHANGED writeVars
  <2>1. PICK c \in 1 .. MaxClients : c = opened + 1
    BY <1>a, <1>b, <1>2 DEF BindOpens
  <2>a. c \in Nat
    BY <1>b, <2>1
  <2>2. PICK x \in RequestState : x = [req[w] EXCEPT !.pc = "authorize", !.snap = c]
    BY <1>a, <1>b, <2>a, MoveType, Zenon
  <2>3. x.pc = "authorize" /\ x.snap = c
    BY <1>a, <2>2 DEF RequestState
  <2>4. /\ req' = [req EXCEPT ![w] = x]
        /\ client' \in 0 .. MaxClients /\ opened' \in 0 .. MaxClients
    BY <1>b, <1>2, <2>1, <2>2 DEF BindOpens
  <2> QED BY <1>2, <2>1, <2>3, <2>4, BindingStepKeeps, Zenon
<1>3. CASE /\ BindFails(w)
           /\ result' = [result EXCEPT ![w] = "failed"]
           /\ UNCHANGED <<lease, granted, token, want, stream, value, fault, history>>
  <2>1. /\ req' = [req EXCEPT ![w] = Idle] /\ UNCHANGED <<client, opened>>
        /\ UNCHANGED <<lease, granted, token, want, stream, value, fault, applied, overrun,
                       misled, faulted>>
    BY <1>3 DEF BindFails, history
  <2>2. /\ req' \in [Handlers -> RequestState] /\ req'[w].pc = "idle"
        /\ \A v \in Writers \ {w} : req'[v] = req[v] /\ result'[v] = result[v]
        /\ DOMAIN result' = Writers /\ result'[w] = "failed"
    BY <1>a, <1>3, <2>1, IdleType DEF WriteTypeOK, Handlers
  <2> QED
    BY <1>a, <2>1, <2>2, OwnStepKeeps, Zenon DEF WriteTypeOK, HasClient, InWrite
<1> QED BY <1>1, <1>2, <1>3 DEF BindForWrite

LEMMA ResetKeeps ==
    ASSUME WriteInv, NEW w \in Writers, Reset(w), UNCHANGED writeVars
    PROVE  WriteInv'
<1>a. /\ WriteTypeOK /\ req[w] \in RequestState /\ w \in Handlers /\ w \notin Streams
      /\ client \in 0 .. MaxClients /\ opened \in 0 .. MaxClients /\ MaxClients \in Nat
  BY BindingConstants DEF WriteInv, WriteTypeOK, Handlers
<1>1. CASE ResetStale(w) \/ ResetEnds(w)
  <2>1. /\ req' = [req EXCEPT ![w] = Idle]
        /\ client' \in 0 .. MaxClients /\ opened' \in 0 .. MaxClients
    BY <1>a, <1>1 DEF ResetStale, ResetEnds, Carry
  <2> QED BY <2>1, IdleType, BindingStepKeeps, Zenon
<1>2. CASE ResetBegins(w)
  <2>1. "stopping" \in PCs
    BY DEF PCs
  <2>2. PICK x \in RequestState : x = [req[w] EXCEPT !.pc = "stopping"]
    BY <1>a, <2>1, MoveType, IdleType, Zenon DEF RequestState
  <2>3. x.pc = "stopping"
    BY <1>a, <2>2 DEF RequestState
  <2>4. req' = [req EXCEPT ![w] = x] /\ UNCHANGED <<client, opened>>
    BY <1>2, <2>2 DEF ResetBegins
  <2> QED BY <1>a, <2>3, <2>4, BindingStepKeeps, Zenon
<1> QED BY <1>1, <1>2, SMTT(30) DEF Reset

(* A new request: what is recorded of the writer's last one is forgotten.  *)
LEMMA StartWriteKeeps ==
    ASSUME WriteInv, NEW w \in Writers, StartWrite(w)
    PROVE  WriteInv'
<1>a. WriteTypeOK /\ Leased /\ Acknowledged /\ ReportsAreTrue /\ (fault # 0 => faulted)
  BY DEF WriteInv
<1>b. /\ want' \in [Writers -> Nat] /\ DOMAIN result' = Writers /\ result'[w] = "none"
      /\ \A v \in Writers \ {w} : result'[v] = result[v]
  BY <1>a, WriteConstants DEF StartWrite, WriteTypeOK
<1>c. /\ UNCHANGED <<client, opened, lease, granted, token, stream, value, fault, faulted>>
      /\ applied' = applied \ {w} /\ overrun' = overrun \ {w} /\ misled' = misled \ {w}
  BY DEF StartWrite, Request
<1>d. /\ req' \in [Handlers -> RequestState] /\ req'[w].pc = "bind"
      /\ \A v \in Writers \ {w} : req'[v] = req[v]
  <2>1. w \in Handlers /\ req[w] \in RequestState /\ "bind" \in PCs
    BY <1>a DEF WriteTypeOK, Handlers, PCs
  <2>2. PICK x \in RequestState : x = [req[w] EXCEPT !.pc = "bind"]
    BY <2>1, MoveType, IdleType, Zenon DEF RequestState
  <2>3. x.pc = "bind"
    BY <2>1, <2>2 DEF RequestState
  <2>4. req' = [req EXCEPT ![w] = x]
    BY <2>2 DEF StartWrite, Request
  <2> QED BY <1>a, <2>1, <2>3, <2>4 DEF WriteTypeOK, Handlers
<1>1. WriteTypeOK'
  BY <1>a, <1>b, <1>c, <1>d, Zenon DEF WriteTypeOK, HasClient
<1>2. Leased'
  BY <1>a, <1>c, <1>d, Zenon DEF Leased, InWrite
<1>3. Acknowledged' /\ ReportsAreTrue'
  BY <1>a, <1>b, <1>c, <1>d, Zenon DEF Acknowledged, ReportsAreTrue
<1> QED BY <1>a, <1>c, <1>1, <1>2, <1>3 DEF WriteInv

(* A lease is granted only while none is valid, so to nobody's detriment.  *)
LEMMA AcquireLeaseKeeps ==
    ASSUME WriteInv, NEW w \in Writers, AcquireLease(w)
    PROVE  WriteInv'
<1>a. WriteTypeOK /\ Leased /\ Acknowledged /\ ReportsAreTrue /\ (fault # 0 => faulted)
  BY DEF WriteInv
<1>b. /\ lease = 0 /\ lease' = granted + 1 /\ granted' = granted + 1
      /\ token' = [token EXCEPT ![w] = granted + 1]
      /\ UNCHANGED <<client, opened, req, want, result, stream, value, fault, applied, overrun,
                     misled, faulted>>
  BY DEF AcquireLease, bindingVars, history
<1>1. WriteTypeOK'
  BY <1>a, <1>b DEF WriteTypeOK, HasClient
<1>2. Leased'
  BY <1>a, <1>b, Zenon DEF Leased, InWrite
<1> QED BY <1>a, <1>b, <1>1, <1>2, SMTT(30) DEF WriteInv, Acknowledged, ReportsAreTrue

(* The lease ends: who is in a write under it has overrun it.              *)
LEMMA LeaseEndsKeeps == ASSUME WriteInv, LeaseEnds PROVE WriteInv'
<1>a. WriteTypeOK /\ Leased /\ Acknowledged /\ ReportsAreTrue /\ (fault # 0 => faulted)
  BY DEF WriteInv
<1>b. /\ lease' = 0
      /\ overrun' = overrun \cup {w \in Writers : InWrite(w) /\ token[w] = lease}
      /\ UNCHANGED <<client, opened, req, granted, token, want, result, stream, value, fault,
                     applied, misled, faulted>>
  BY DEF LeaseEnds, bindingVars
<1>1. WriteTypeOK'
  BY <1>a, <1>b, SMTT(30) DEF WriteTypeOK, HasClient
<1>2. Leased'
  BY <1>a, <1>b, SMTT(30) DEF Leased, InWrite
<1> QED BY <1>a, <1>b, <1>1, <1>2 DEF WriteInv, Acknowledged, ReportsAreTrue

LEMMA DeviceFaultsKeeps == ASSUME WriteInv, DeviceFaults PROVE WriteInv'
<1>a. WriteTypeOK /\ Leased /\ Acknowledged /\ ReportsAreTrue
  BY DEF WriteInv
<1>b. /\ fault' \in Nat /\ faulted'
      /\ UNCHANGED <<client, opened, req, lease, granted, token, want, result, stream, value,
                     applied, overrun, misled>>
  BY WriteConstants DEF DeviceFaults, bindingVars
<1>1. WriteTypeOK'
  BY <1>a, <1>b DEF WriteTypeOK, HasClient
<1> QED BY <1>a, <1>b, <1>1 DEF WriteInv, Leased, InWrite, Acknowledged, ReportsAreTrue

(* The invariant of handleWrite over the shared binding.                   *)
THEOREM WriteInvariant == WriteSpec => []WriteInv
<1>1. WriteInv /\ [WriteNext]_gatewayVars => WriteInv'
  <2> SUFFICES ASSUME WriteInv, [WriteNext]_gatewayVars PROVE WriteInv'
    OBVIOUS
  <2>1. ASSUME NEW w \in Writers, WriteStep(w) PROVE WriteInv'
    BY <2>1, AuthorizeKeeps, BackoffKeeps, PreReadKeeps, RecheckKeeps, WriteKeeps, ReadbackKeeps,
       VerifyKeeps DEF WriteStep
  <2>2. ASSUME NEW w \in Writers, AcquireLease(w) \/ StartWrite(w) \/ BindForWrite(w)
                                  \/ (Reset(w) /\ UNCHANGED writeVars)
        PROVE  WriteInv'
    BY <2>2, AcquireLeaseKeeps, StartWriteKeeps, BindForWriteKeeps, ResetKeeps, SMTT(30)
  <2>3. CASE UNCHANGED gatewayVars
    BY <2>3 DEF gatewayVars, bindingVars, writeVars, history, WriteInv, WriteTypeOK, HasClient,
       Leased, InWrite, Acknowledged, ReportsAreTrue
  <2> QED
    BY <2>1, <2>2, <2>3, LeaseEndsKeeps, DeviceFaultsKeeps DEF WriteNext
<1> QED BY WriteStarts, <1>1, PTL DEF WriteSpec

(* What handleWrite answers is true (200 of a write the device executed,   *)
(* a back-off only after the device reported an error), for any number of  *)
(* operators, values and leases, unless a late answer misled the request.  *)
THEOREM WriteReportsAreTrue == WriteSpec => []ReportsAreTrue
<1>1. WriteInv => ReportsAreTrue
  BY DEF WriteInv
<1> QED BY <1>1, WriteInvariant, PTL

(* Writes are serialized by Commander.authorize: two requests in a write   *)
(* whose leases have not ended since it checked them have one token.       *)
THEOREM LeasesSerializeWrites == WriteSpec => []WritesAreSerialized
<1>1. WriteInv => WritesAreSerialized
  BY DEF WriteInv, Leased, WritesAreSerialized
<1> QED BY <1>1, WriteInvariant, PTL

=============================================================================

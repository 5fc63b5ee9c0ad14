------------------------- MODULE RouterSystemProofs -------------------------
(***************************************************************************)
(* The router as a whole.  That a command was carried out travels from the *)
(* device to whoever is told so in four hands: the frame that went out     *)
(* (Sent), the routing call of the goroutine that owns the entry (Routed), *)
(* the entry, and the answers of the goroutines that joined it (Reported). *)
(***************************************************************************)
EXTENDS RouterSystem, TLAPS

-----------------------------------------------------------------------------
(* The command idempotency cache, for any number of callers, commands and  *)
(* entries and any TTL                                                     *)

(***************************************************************************)
(* The inductive invariant.  Unmapped is the heart of it: an entry the map *)
(* no longer holds is complete and past its expiry on the wall clock, so   *)
(* only the mapped entry can be in flight or still fresh.                  *)
(***************************************************************************)
Unmapped ==
    \A e \in DOMAIN entries :
        map[entries[e].key] # e
        => entries[e].completed /\ entries[e].expires <= now

Mapped ==
    \A k \in Keys : map[k] # 0 => entries[map[k]].key = k

Outcomes ==
    \A e \in DOMAIN entries :
        entries[e].completed => entries[e].result \in Results

Locals ==
    \A c \in Callers :
        /\ sampled[c] <= now
        /\ pc[c] # "idle" => key[c] \in Keys
        /\ pc[c] \in {"waiting", "routing"} =>
              held[c] # 0 /\ entries[held[c]].key = key[c]
        /\ pc[c] = "routing" => ~entries[held[c]].completed

Owners ==
    \A c, d \in Callers :
        pc[c] = "routing" /\ pc[d] = "routing" /\ held[c] = held[d] => c = d

Owned ==
    \A e \in DOMAIN entries :
        ~entries[e].completed
        => \E c \in Callers : pc[c] = "routing" /\ held[c] = e

CacheInv == CacheTypeOK /\ Unmapped /\ Mapped /\ Outcomes /\ Locals /\ Owners /\ Owned

(* The elements of the sequence of entries are entries.                    *)
LEMMA EntryFields ==
    ASSUME NEW s \in Seq(Entry)
    PROVE  \A e \in DOMAIN s :
              /\ e \in 1 .. Len(s)
              /\ s[e] \in Entry
              /\ s[e].key \in Keys
              /\ s[e].expires \in Nat
              /\ s[e].completed \in BOOLEAN
<1>1. \A e \in DOMAIN s : e \in 1 .. Len(s) /\ s[e] \in Entry
  OBVIOUS
<1>2. \A x \in Entry : x.key \in Keys /\ x.expires \in Nat /\ x.completed \in BOOLEAN
  BY DEF Entry
<1> QED
  BY <1>1, <1>2

(* Pruning only empties slots, and only slots of completed entries whose   *)
(* expiry lies before the sampled time.                                    *)
LEMMA PruneRemoves ==
    ASSUME CacheTypeOK, NEW t \in Nat
    PROVE  /\ Pruned(t) \in [Keys -> 0 .. Len(entries)]
           /\ \A k \in Keys :
                 \/ Pruned(t)[k] = map[k]
                 \/ /\ Pruned(t)[k] = 0
                    /\ map[k] # 0
                    /\ entries[map[k]].completed
                    /\ t > entries[map[k]].expires
BY DEF CacheTypeOK, Pruned

(* A key that is not fresh at a past time has no entry that is in flight   *)
(* or unexpired now: the staleness of the sampled clock errs on the safe   *)
(* side.                                                                   *)
LEMMA NotFreshMeansDone ==
    ASSUME CacheInv, NEW k \in Keys, NEW t \in Nat, t <= now, ~Fresh(k, t)
    PROVE  \A e \in DOMAIN entries :
              entries[e].key = k
              => entries[e].completed /\ entries[e].expires <= now
<1> SUFFICES ASSUME NEW e \in DOMAIN entries, entries[e].key = k
             PROVE  entries[e].completed /\ entries[e].expires <= now
  OBVIOUS
<1>0. CacheTypeOK /\ now \in Nat /\ entries \in Seq(Entry)
  BY DEF CacheInv, CacheTypeOK
<1>t. /\ e \in 1 .. Len(entries)
      /\ entries[e].expires \in Nat
      /\ entries[e].completed \in BOOLEAN
  BY <1>0, EntryFields
<1>1. CASE map[k] # e
  BY <1>1 DEF CacheInv, Unmapped
<1>2. CASE map[k] = e
  <2>1. e # 0
    BY <1>t
  <2>2. CASE Pruned(t)[k] = e
    BY <1>0, <1>t, <2>1, <2>2 DEF Fresh
  <2>3. CASE Pruned(t)[k] # e
    <3>1. /\ entries[map[k]].completed
          /\ t > entries[map[k]].expires
      BY <1>0, <1>2, <2>3, PruneRemoves
    <3> QED
      BY <1>0, <1>t, <1>2, <3>1
  <2> QED
    BY <2>2, <2>3
<1> QED
  BY <1>1, <1>2

LEMMA CacheStarts == CacheInit => CacheInv
<1> USE CacheConstants
<1> SUFFICES ASSUME CacheInit PROVE CacheInv
  OBVIOUS
<1>1. entries = <<>> /\ Len(entries) = 0 /\ DOMAIN entries = {}
  BY DEF CacheInit
<1>2. CacheTypeOK
  BY <1>1 DEF CacheInit, CacheTypeOK
<1> QED
  BY <1>1, <1>2 DEF CacheInit, CacheInv, Unmapped, Mapped, Outcomes, Locals, Owners, Owned

(* Every step of a caller of Do keeps the invariant.                       *)
LEMMA CacheKeeps == CacheInv /\ [CacheNext]_cacheVars => CacheInv'
<1> USE CacheConstants
<1> SUFFICES ASSUME CacheInv, [CacheNext]_cacheVars PROVE CacheInv'
  OBVIOUS
<1>0. CacheTypeOK /\ now \in Nat /\ entries \in Seq(Entry)
  BY DEF CacheInv, CacheTypeOK
<1>t. /\ CacheTypeOK /\ now \in Nat /\ entries \in Seq(Entry)
      /\ \A e \in DOMAIN entries :
            /\ entries[e] \in Entry /\ entries[e].key \in Keys
            /\ entries[e].expires \in Nat
            /\ e \in 1 .. Len(entries)
  BY <1>0, EntryFields
<1>1. CASE Tick
  <2>1. now' = now + 1 /\ UNCHANGED <<pc, key, sampled, held, entries, map, answer>>
    BY <1>1 DEF Tick
  <2>2. CacheTypeOK'
    BY <1>t, <2>1 DEF CacheTypeOK
  <2>3. Unmapped'
    BY <1>t, <2>1 DEF CacheInv, Unmapped
  <2>4. Locals'
    BY <1>t, <2>1 DEF CacheInv, Locals, CacheTypeOK
  <2> QED
    BY <2>1, <2>2, <2>3, <2>4 DEF CacheInv, Mapped, Outcomes, Owners, Owned
<1>2. ASSUME NEW c \in Callers, NEW k \in Keys, Call(c, k)
      PROVE  CacheInv'
  <2>1. UNCHANGED <<now, held, entries, map>>
    BY <1>2 DEF Call
  <2>2. CacheTypeOK'
    BY <1>2, <2>1 DEF Call, CacheInv, CacheTypeOK
  <2>3. Locals' /\ Owners'
    BY <1>2, <1>t, <2>1 DEF Call, CacheInv, Locals, Owners, CacheTypeOK
  <2>4. Owned'
    BY <1>2, <1>t, <2>1 DEF Call, CacheInv, Owned, CacheTypeOK
  <2> QED
    BY <2>1, <2>2, <2>3, <2>4 DEF CacheInv, Unmapped, Mapped, Outcomes
<1>3. ASSUME NEW c \in Callers, LookupHit(c)
      PROVE  CacheInv'
  <2> DEFINE pruned == Pruned(sampled[c])
  <2>0. sampled[c] \in Nat /\ sampled[c] <= now /\ key[c] \in Keys
    BY <1>3 DEF LookupHit, CacheInv, Locals, CacheTypeOK
  <2>1. /\ map' = pruned /\ UNCHANGED <<now, key, sampled, entries, answer>>
        /\ pc' = [pc EXCEPT ![c] = "waiting"]
        /\ held' = [held EXCEPT ![c] = pruned[key[c]]]
    BY <1>3 DEF LookupHit
  <2>2. pruned[key[c]] # 0
    BY <1>3 DEF LookupHit, Fresh
  <2>3. /\ pruned \in [Keys -> 0 .. Len(entries)]
        /\ \A k \in Keys :
               \/ pruned[k] = map[k]
               \/ /\ pruned[k] = 0
                  /\ map[k] # 0
                  /\ entries[map[k]].completed
                  /\ sampled[c] > entries[map[k]].expires
    BY <1>t, <2>0, PruneRemoves, Zenon
  <2> HIDE DEF pruned
  <2>4. CacheTypeOK'
    BY <2>0, <2>1, <2>3 DEF CacheInv, CacheTypeOK
  <2>5. Unmapped'
    <3> SUFFICES ASSUME NEW e \in DOMAIN entries, pruned[entries[e].key] # e
                 PROVE  entries[e].completed /\ entries[e].expires <= now
      BY <2>1 DEF Unmapped
    <3> DEFINE k == entries[e].key
    <3>1. k \in Keys /\ entries[e].expires \in Nat
      BY <1>t
    <3>2. CASE pruned[k] = map[k]
      BY <3>1, <3>2 DEF CacheInv, Unmapped
    <3>3. CASE map[k] = e
      BY <1>t, <2>0, <2>3, <3>1, <3>3
    <3>4. CASE map[k] # e
      BY <3>4 DEF CacheInv, Unmapped
    <3> QED
      BY <3>3, <3>4
  <2>6. Mapped'
    BY <2>1, <2>3 DEF CacheInv, Mapped
  <2>7. Locals'
    BY <2>0, <2>1, <2>2, <2>3 DEF CacheInv, Locals, CacheTypeOK, Mapped
  <2>8. Owners'
    BY <2>1 DEF CacheInv, Owners, CacheTypeOK
  <2>9. pc[c] = "entered"
    BY <1>3 DEF LookupHit
  <2>10. Owned'
    BY <1>t, <2>1, <2>9 DEF CacheInv, Owned, CacheTypeOK
  <2> QED
    BY <2>1, <2>4, <2>5, <2>6, <2>7, <2>8, <2>10 DEF CacheInv, Outcomes
<1>4. ASSUME NEW c \in Callers, LookupMiss(c)
      PROVE  CacheInv'
  <2> DEFINE pruned == Pruned(sampled[c])
             n == Len(entries) + 1
             new == [key |-> key[c], completed |-> FALSE, expires |-> 0,
                     result |-> NoResult]
  <2>0. /\ sampled[c] \in Nat /\ sampled[c] <= now /\ key[c] \in Keys
        /\ ~Fresh(key[c], sampled[c])
    BY <1>4 DEF LookupMiss, CacheInv, Locals, CacheTypeOK
  <2>1. /\ map' = [pruned EXCEPT ![key[c]] = n]
        /\ UNCHANGED <<now, key, sampled, answer>>
        /\ entries' = Append(entries, new)
        /\ pc' = [pc EXCEPT ![c] = "routing"]
        /\ held' = [held EXCEPT ![c] = n]
    BY <1>4 DEF LookupMiss
  <2>2. /\ new \in Entry /\ new.key = key[c] /\ ~new.completed
    BY <2>0 DEF Entry
  <2>3. /\ pruned \in [Keys -> 0 .. Len(entries)]
        /\ \A k \in Keys :
               \/ pruned[k] = map[k]
               \/ /\ pruned[k] = 0
                  /\ map[k] # 0
                  /\ entries[map[k]].completed
                  /\ sampled[c] > entries[map[k]].expires
    BY <1>t, <2>0, PruneRemoves, Zenon
  <2>d. \A e \in DOMAIN entries :
            entries[e].key = key[c]
            => entries[e].completed /\ entries[e].expires <= now
    BY <2>0, NotFreshMeansDone
  <2> HIDE DEF pruned, new
  <2>4. /\ entries' \in Seq(Entry) /\ Len(entries') = n /\ n \in Nat
        /\ DOMAIN entries' = DOMAIN entries \cup {n}
        /\ entries'[n] = new
        /\ \A e \in DOMAIN entries : entries'[e] = entries[e] /\ e # n
    BY <1>t, <2>1, <2>2
  <2> HIDE DEF n
  <2>5. CacheTypeOK'
    <3>1. \A x \in 0 .. Len(entries) : x \in 0 .. n
      BY <1>t DEF n
    <3>2. held' \in [Callers -> 0 .. n] /\ map' \in [Keys -> 0 .. n] 
      BY <2>0, <2>1, <2>3, <2>4, <3>1 DEF CacheInv, CacheTypeOK
    <3> QED
      BY <1>t, <2>0, <2>1, <2>4, <3>2 DEF CacheTypeOK
  <2>6. Unmapped'
    <3> SUFFICES ASSUME NEW e \in DOMAIN entries',
                        map'[entries'[e].key] # e
                 PROVE  entries'[e].completed /\ entries'[e].expires <= now
      BY <2>1 DEF Unmapped
    <3>1. e # n
      BY <2>0, <2>1, <2>2, <2>3, <2>4
    <3>2. e \in DOMAIN entries /\ entries'[e] = entries[e]
      BY <2>4, <3>1
    <3>3. CASE entries[e].key = key[c]
      BY <2>d, <3>2, <3>3
    <3>4. CASE entries[e].key # key[c] /\ map[entries[e].key] = e
      <4>1. pruned[entries[e].key] # e
        BY <1>t, <2>1, <2>3, <3>2, <3>4
      <4> QED
        BY <1>t, <2>0, <2>3, <3>2, <3>4, <4>1
    <3>5. CASE entries[e].key # key[c] /\ map[entries[e].key] # e
      BY <3>2, <3>5 DEF CacheInv, Unmapped
    <3> QED
      BY <3>3, <3>4, <3>5
  <2>7. Mapped'
    <3> SUFFICES ASSUME NEW k \in Keys, map'[k] # 0
                 PROVE  entries'[map'[k]].key = k
      BY DEF Mapped
    <3>1. CASE k = key[c]
      BY <2>0, <2>1, <2>2, <2>3, <2>4, <3>1
    <3>2. CASE k # key[c]
      <4>1. map'[k] = map[k] /\ map[k] # 0 /\ map[k] \in DOMAIN entries
        BY <1>t, <2>1, <2>3, <3>2 DEF CacheTypeOK
      <4> QED
        BY <2>4, <4>1 DEF CacheInv, Mapped
    <3> QED
      BY <3>1, <3>2
  <2>8. Locals'
    <3> SUFFICES ASSUME NEW d \in Callers
                 PROVE  /\ sampled'[d] <= now'
                        /\ pc'[d] # "idle" => key'[d] \in Keys
                        /\ pc'[d] \in {"waiting", "routing"} =>
                              held'[d] # 0 /\ entries'[held'[d]].key = key'[d]
                        /\ pc'[d] = "routing" => ~entries'[held'[d]].completed
      BY DEF Locals
    <3>1. CASE d = c
      <4>1. held'[d] = n /\ pc'[d] = "routing" /\ n # 0
        BY <1>t, <2>1, <2>4, <3>1 DEF CacheTypeOK, n
      <4> QED
        BY <2>0, <2>1, <2>2, <2>4, <3>1, <4>1 DEF CacheInv, Locals
    <3>2. CASE d # c
      <4>1. held'[d] = held[d] /\ pc'[d] = pc[d] /\ key'[d] = key[d]
        BY <1>t, <2>1, <3>2 DEF CacheTypeOK
      <4>2. held[d] # 0 => held[d] \in DOMAIN entries
        BY <1>t DEF CacheTypeOK
      <4> QED
        BY <2>1, <2>4, <4>1, <4>2 DEF CacheInv, Locals
    <3> QED
      BY <3>1, <3>2
  <2>9. Owners'
    <3>1. \A d \in Callers : held[d] # n
      BY <1>t DEF CacheTypeOK, n
    <3> QED
      BY <1>t, <2>1, <3>1 DEF CacheInv, Owners, CacheTypeOK
  <2>10. Outcomes'
    BY <2>2, <2>4 DEF CacheInv, Outcomes
  <2>11. Owned'
    <3> SUFFICES ASSUME NEW e \in DOMAIN entries', ~entries'[e].completed
                 PROVE  \E d \in Callers : pc'[d] = "routing" /\ held'[d] = e
      BY DEF Owned
    <3>0. pc[c] = "entered"
      BY <1>4 DEF LookupMiss
    <3>1. CASE e = n
      BY <1>t, <2>1, <3>1 DEF CacheTypeOK
    <3>2. CASE e # n
      <4>1. PICK d \in Callers : pc[d] = "routing" /\ held[d] = e
        BY <2>4, <3>2 DEF CacheInv, Owned
      <4> QED
        BY <1>t, <2>1, <3>0, <4>1 DEF CacheTypeOK
    <3> QED
      BY <3>1, <3>2
  <2> QED
    BY <2>5, <2>6, <2>7, <2>8, <2>9, <2>10, <2>11 DEF CacheInv
<1>5. ASSUME NEW c \in Callers, NEW r \in Results, Complete(c, r)
      PROVE  CacheInv'
  <2> DEFINE h == held[c]
             fin == [key |-> key[c], completed |-> TRUE,
                     expires |-> now + TTL, result |-> r]
  <2>1. /\ entries' = [entries EXCEPT ![h] = fin]
        /\ UNCHANGED <<now, map>>
        /\ pc[c] = "routing"
        /\ pc' = [pc EXCEPT ![c] = "idle"]
        /\ answer' = [answer EXCEPT ![c] = r]
        /\ key' = [key EXCEPT ![c] = NoKey]
        /\ sampled' = [sampled EXCEPT ![c] = 0]
        /\ held' = [held EXCEPT ![c] = 0]
    BY <1>5 DEF Complete, Return
  <2>2. /\ h \in DOMAIN entries /\ key[c] \in Keys
        /\ entries[h].key = key[c] /\ ~entries[h].completed
    BY <1>t, <2>1 DEF CacheInv, Locals, CacheTypeOK
  <2>3. fin \in Entry /\ fin.key = key[c] /\ fin.completed /\ fin.result = r
    BY <1>t, <2>2 DEF Entry
  <2> HIDE DEF fin
  <2>4. /\ entries' \in Seq(Entry) /\ Len(entries') = Len(entries)
        /\ DOMAIN entries' = DOMAIN entries
        /\ \A e \in DOMAIN entries :
              entries'[e] = IF e = h THEN fin ELSE entries[e]
    BY <1>t, <2>1, <2>2, <2>3
  <2>5. CacheTypeOK'
    BY <1>t, <2>1, <2>4 DEF CacheTypeOK
  <2>6. map[key[c]] = h
    BY <2>2 DEF CacheInv, Unmapped
  <2>7. Unmapped'
    BY <1>t, <2>1, <2>2, <2>3, <2>4, <2>6 DEF CacheInv, Unmapped
  <2>8. Mapped'
    <3>1. \A k \in Keys : map[k] # 0 => map[k] \in DOMAIN entries
      BY <1>t DEF CacheTypeOK
    <3> QED
      BY <2>1, <2>2, <2>3, <2>4, <3>1 DEF CacheInv, Mapped
  <2>9. Locals'
    <3> SUFFICES ASSUME NEW d \in Callers
                 PROVE  /\ sampled'[d] <= now'
                        /\ pc'[d] # "idle" => key'[d] \in Keys
                        /\ pc'[d] \in {"waiting", "routing"} =>
                              held'[d] # 0 /\ entries'[held'[d]].key = key'[d]
                        /\ pc'[d] = "routing" => ~entries'[held'[d]].completed
      BY DEF Locals
    <3>1. CASE d = c
      BY <1>t, <2>1, <3>1 DEF CacheTypeOK
    <3>2. CASE d # c
      <4>1. /\ held'[d] = held[d] /\ pc'[d] = pc[d] /\ key'[d] = key[d]
            /\ sampled'[d] = sampled[d]
        BY <1>t, <2>1, <3>2 DEF CacheTypeOK
      <4>2. held[d] # 0 => held[d] \in DOMAIN entries
        BY <1>t DEF CacheTypeOK
      <4>3. pc[d] = "routing" => held[d] # h
        BY <2>1, <3>2 DEF CacheInv, Owners
      <4> QED
        BY <2>1, <2>2, <2>3, <2>4, <4>1, <4>2, <4>3 DEF CacheInv, Locals
    <3> QED
      BY <3>1, <3>2
  <2>10. Owners'
    BY <1>t, <2>1 DEF CacheInv, Owners, CacheTypeOK
  <2>11. Outcomes'
    BY <2>3, <2>4 DEF CacheInv, Outcomes
  <2>12. Owned'
    <3> SUFFICES ASSUME NEW e \in DOMAIN entries', ~entries'[e].completed
                 PROVE  \E d \in Callers : pc'[d] = "routing" /\ held'[d] = e
      BY DEF Owned
    <3>1. e \in DOMAIN entries /\ e # h /\ ~entries[e].completed
      BY <2>3, <2>4
    <3>2. PICK d \in Callers : pc[d] = "routing" /\ held[d] = e
      BY <3>1 DEF CacheInv, Owned
    <3> QED
      BY <1>t, <2>1, <3>1, <3>2 DEF CacheTypeOK
  <2> QED
    BY <2>5, <2>7, <2>8, <2>9, <2>10, <2>11, <2>12 DEF CacheInv
<1>6. ASSUME NEW c \in Callers, Join(c)
      PROVE  CacheInv'
  <2>1. /\ UNCHANGED <<now, map, entries>>
        /\ pc[c] = "waiting" /\ entries[held[c]].completed
        /\ pc' = [pc EXCEPT ![c] = "idle"]
        /\ answer' = [answer EXCEPT ![c] = entries[held[c]].result]
        /\ key' = [key EXCEPT ![c] = NoKey]
        /\ sampled' = [sampled EXCEPT ![c] = 0]
        /\ held' = [held EXCEPT ![c] = 0]
    BY <1>6 DEF Join, Return
  <2>2. held[c] \in DOMAIN entries
    BY <1>t, <2>1 DEF CacheInv, Locals, CacheTypeOK
  <2>3. CacheTypeOK'
    BY <1>t, <2>1, <2>2 DEF CacheTypeOK, CacheInv, Outcomes
  <2>4. Locals'
    BY <1>t, <2>1 DEF CacheInv, Locals, CacheTypeOK
  <2>5. Owners'
    BY <1>t, <2>1 DEF CacheInv, Owners, CacheTypeOK
  <2>6. Owned'
    BY <1>t, <2>1 DEF CacheInv, Owned, CacheTypeOK
  <2> QED
    BY <2>1, <2>3, <2>4, <2>5, <2>6 DEF CacheInv, Unmapped, Mapped, Outcomes
<1>7. CASE UNCHANGED cacheVars
  BY <1>7 DEF cacheVars, CacheInv, CacheTypeOK, Unmapped, Mapped, Outcomes, Locals, Owners, Owned
<1> QED
  BY <1>1, <1>2, <1>3, <1>4, <1>5, <1>6, <1>7 DEF CacheNext, CallerStep

(* The invariant holds in every state the callers of Do can reach.         *)
THEOREM CacheInvariant == CacheSpec => []CacheInv
  BY CacheStarts, CacheKeeps, PTL DEF CacheSpec

(* One command is never in flight twice: two goroutines routing the same   *)
(* frame would own two unfinished entries, and the map can hold only one.  *)
(* And entries in flight have an owner that is routing, whether the map    *)
(* holds them or not.                                                      *)
LEMMA CacheOwners == CacheInv => OneOwnerPerFlight
<1> SUFFICES ASSUME CacheInv PROVE SingleFlight /\ WaitersHaveAnOwner
  BY DEF OneOwnerPerFlight
<1>1. SingleFlight
  <2> SUFFICES ASSUME NEW c \in Callers, NEW d \in Callers,
                      pc[c] = "routing", pc[d] = "routing", key[c] = key[d]
               PROVE  c = d
    BY DEF SingleFlight
  <2>1. held[c] \in DOMAIN entries /\ held[d] \in DOMAIN entries
    BY DEF CacheInv, Locals, CacheTypeOK
  <2>2. map[key[c]] = held[c] /\ map[key[d]] = held[d]
    BY <2>1 DEF CacheInv, Locals, Unmapped
  <2> QED
    BY <2>2 DEF CacheInv, Owners
<1>2. WaitersHaveAnOwner
  <2> SUFFICES ASSUME NEW c \in Callers,
                      pc[c] = "waiting", ~entries[held[c]].completed
               PROVE  \E d \in Callers : pc[d] = "routing" /\ held[d] = held[c]
    BY DEF WaitersHaveAnOwner
  <2>1. held[c] \in DOMAIN entries
    BY DEF CacheInv, Locals, CacheTypeOK
  <2> QED
    BY <2>1 DEF CacheInv, Owned
<1> QED
  BY <1>1, <1>2

(***************************************************************************)
(* A command in flight has exactly one owner in Do.                        *)
(***************************************************************************)
THEOREM FlightsHaveOneOwner == CacheSpec => []OneOwnerPerFlight
  BY CacheOwners, CacheInvariant, PTL

(* Whoever starts to route a command found no entry of it that is in       *)
(* flight or unexpired.                                                    *)
LEMMA MissMeansDone ==
    ASSUME CacheInv, CacheNext, NEW c \in Callers, pc[c] = "entered", pc'[c] = "routing"
    PROVE  \A e \in DOMAIN entries :
             entries[e].key = key[c]
             => entries[e].completed /\ entries[e].expires <= now
<1>t. pc \in [Callers -> {"idle", "entered", "waiting", "routing"}]
  BY DEF CacheInv, CacheTypeOK
<1>1. LookupMiss(c)
  <2>1. ASSUME NEW d \in Callers, LookupMiss(d) PROVE d = c
    BY <1>t, <2>1, Zenon DEF LookupMiss
  <2> QED
    BY <1>t, <2>1, Zenon DEF CacheNext, CallerStep, Tick, Call, LookupHit, Complete, Join, Return
<1>2. sampled[c] \in Nat /\ sampled[c] <= now /\ key[c] \in Keys
  BY DEF CacheInv, Locals, CacheTypeOK
<1>3. ~Fresh(key[c], sampled[c])
  BY <1>1 DEF LookupMiss
<1> QED
  BY <1>2, <1>3, NotFreshMeansDone

(***************************************************************************)
(* A command is routed again only after its previous outcome has expired   *)
(* on the wall clock, for any delay between reading the clock and taking   *)
(* the mutex.                                                              *)
(***************************************************************************)
THEOREM CommandsAreNotRerouted == CacheSpec => NotReroutedWithinTTL
<1> DEFINE Kept == \A c \in Callers :
              pc[c] = "entered" /\ pc'[c] = "routing"
              => \A e \in DOMAIN entries :
                    entries[e].key = key[c]
                    => entries[e].completed /\ entries[e].expires <= now
<1>1. CacheInv /\ [CacheNext]_cacheVars => [Kept]_cacheVars
  BY MissMeansDone
<1> QED
  BY <1>1, CacheInvariant, PTL DEF CacheSpec, NotReroutedWithinTTL

(* Whoever returns from waiting copied the outcome of a completed entry of *)
(* its own command.                                                        *)
LEMMA JoinMeansAnswered ==
    ASSUME CacheInv, CacheNext, NEW c \in Callers, pc[c] = "waiting", pc'[c] = "idle"
    PROVE  /\ answer'[c] \in Results
           /\ entries[held[c]].key = key[c]
           /\ entries[held[c]].result = answer'[c]
<1>t. /\ pc \in [Callers -> {"idle", "entered", "waiting", "routing"}]
      /\ answer \in [Callers -> Results \cup {NoResult}]
  BY DEF CacheInv, CacheTypeOK
<1>1. Join(c)
  <2>1. ASSUME NEW d \in Callers, Join(d) PROVE d = c
    BY <1>t, <2>1 DEF Join, Return
  <2> QED
    BY <1>t, <2>1, Zenon DEF CacheNext, CallerStep, Tick, Call, LookupHit, LookupMiss, Complete, Return
<1>2. held[c] \in DOMAIN entries /\ entries[held[c]].key = key[c]
  BY DEF CacheInv, Locals, CacheTypeOK
<1>3. entries[held[c]].completed /\ answer'[c] = entries[held[c]].result
  BY <1>t, <1>1 DEF Join, Return
<1> QED
  BY <1>2, <1>3 DEF CacheInv, Outcomes

(***************************************************************************)
(* A goroutine that joined another one's command returns that command's    *)
(* outcome, never the zero value of an entry that has none yet.            *)
(***************************************************************************)
THEOREM JoinersAreAnswered == CacheSpec => JoinersGetAnOutcome
<1> DEFINE Answered == \A c \in Callers :
              pc[c] = "waiting" /\ pc'[c] = "idle"
              => /\ answer'[c] \in Results
                 /\ entries[held[c]].key = key[c]
                 /\ entries[held[c]].result = answer'[c]
<1>1. CacheInv /\ [CacheNext]_cacheVars => [Answered]_cacheVars
  BY JoinMeansAnswered
<1> QED
  BY <1>1, CacheInvariant, PTL DEF CacheSpec, JoinersGetAnOutcome

-----------------------------------------------------------------------------
(* The router as a whole                                                   *)

Own(f) == [device |-> f.addr, frame |-> f]
CarriedOut(f) == f.addr # 0 => Own(f) \in executed

(* A fanout that has legs to start has a command.                          *)
FanOK ==
    /\ fan \in [cmd : {req.cmd : req \in Fanouts} \cup {NoKey}, legs : SUBSET Devices]
    /\ fan.legs # {} => \E req \in Fanouts : fan.cmd = req.cmd

RoutingCall == [pc : {"idle", "busy"}, n : 0 .. MaxCalls, read : {FALSE},
                outcome : Results \cup {NoResult}]

SystemTypeOK ==
    /\ call \in [Callers -> RoutingCall]
    /\ outs \in [Callers -> [1 .. MaxCalls -> {0, 1}]]
    /\ frame \in [Callers -> Keys \cup {NoKey}]
    /\ DOMAIN target = Callers /\ \A c \in Callers : DOMAIN target[c] = 1 .. MaxCalls
    /\ FanOK

(* What went out of a call is among the commands of its device.            *)
Sent ==
    \A c \in Callers, n \in 1 .. MaxCalls :
        outs[c][n] = 1 => n <= call[c].n /\ target[c][n] \in executed

(* A goroutine inside Do works on the frame it was given, a leg only on    *)
(* frames for its device, and what was answered was answered to a frame.   *)
Working ==
    \A c \in Callers :
        /\ pc[c] # "idle" => frame[c] = key[c]
        /\ c \in Legs /\ frame[c] # NoKey => frame[c].addr = LegTarget(c)
        /\ answer[c] # NoResult => frame[c] # NoKey

(* The routing call of an entry's owner is for the device the frame names, *)
(* and was answered only after it went out.                                *)
Routed ==
    \A c \in Callers : pc[c] = "routing" =>
        /\ call[c].n # 0
        /\ key[c].addr # 0 => target[c][call[c].n] = Own(key[c])
        /\ call[c].outcome = "reply" => outs[c][call[c].n] = 1

Reported ==
    /\ \A e \in DOMAIN entries : entries[e].result = "reply" => CarriedOut(entries[e].key)
    /\ \A c \in Callers : answer[c] = "reply" => CarriedOut(frame[c])

SystemInv == CacheInv /\ SystemTypeOK /\ Sent /\ Working /\ Routed /\ Reported

(* What the proofs need of the constants.                                  *)
LEMMA CallsAreCounted == MaxCalls \in Nat
  BY SystemConstants

LEMMA OutcomesAre == "reply" \in Results /\ "error" \in Results /\ NoResult # "reply"
  BY CacheConstants, SystemConstants

LEMMA FramesAreNotNone == NoKey \notin Keys
  BY CacheConstants

LEMMA ConnectionsCall == Conns \subseteq Callers /\ \A c \in Conns : c \notin Legs
  BY SystemConstants

LEMMA SystemStarts == Init => SystemInv
<1> SUFFICES ASSUME Init PROVE SystemInv
  OBVIOUS
<1>1. CacheInit /\ CacheInv
  BY CacheStarts DEF Init
<1>2. /\ call = [c \in Callers |-> [pc |-> "idle", n |-> 0, read |-> FALSE, outcome |-> NoResult]]
      /\ outs = [c \in Callers |-> [n \in 1 .. MaxCalls |-> 0]]
  BY DEF Init, Routing!Init
<1>3. SystemTypeOK
  BY <1>2, SystemConstants DEF Init, SystemTypeOK, RoutingCall, FanOK, NoFanout
<1>4. Sent
  BY <1>2 DEF Sent
<1>5. entries = <<>> /\ \A c \in Callers : pc[c] = "idle" /\ answer[c] = NoResult /\ frame[c] = NoKey
  BY <1>1 DEF Init, CacheInit
<1>6. Working /\ Routed /\ Reported
  BY <1>5, CacheConstants, SystemConstants DEF Working, Routed, Reported
<1> QED BY <1>1, <1>3, <1>4, <1>6 DEF SystemInv

(* What a goroutine may be asked for is a command, of a client or a leg.   *)
LEMMA LegsAreCallers ==
    ASSUME SystemTypeOK, NEW d \in fan.legs
    PROVE  /\ d \in Devices /\ d # 0 /\ Leg(d) \in Callers /\ Leg(d) \in Legs
           /\ FrameFor(d, fan.cmd) \in Keys /\ FrameFor(d, fan.cmd).addr = d
           /\ LegTarget(Leg(d)) = d
<1>1. d \in Devices
  BY DEF SystemTypeOK, FanOK
<1>2. PICK req \in Fanouts : fan.cmd = req.cmd
  BY DEF SystemTypeOK, FanOK
<1>3. Leg(d) \in Legs /\ LegTarget(Leg(d)) = d
  BY <1>1 DEF Legs, Leg, LegTarget
<1>4. FrameFor(d, fan.cmd) \in Keys
  BY <1>1, <1>2, SystemConstants
<1> QED BY <1>1, <1>3, <1>4, SystemConstants DEF FrameFor

(* Closing a connection forgets its answer; the cache's invariant does not *)
(* mention answers beyond their type.                                      *)
LEMMA CloseKeepsCache ==
    ASSUME CacheInv, NEW c \in Callers, answer' = [answer EXCEPT ![c] = NoResult],
           UNCHANGED <<now, pc, key, sampled, held, entries, map>>
    PROVE  CacheInv'
<1>1. CacheTypeOK'
  BY DEF CacheInv, CacheTypeOK
<1> QED BY <1>1 DEF CacheInv, Unmapped, Mapped, Outcomes, Locals, Owners, Owned

(* To the cache, a step of the router is a step of a caller of Do, the     *)
(* passing of time, or a closed connection's answer that is forgotten.     *)
Forgotten(c) ==
    /\ answer' = [answer EXCEPT ![c] = NoResult]
    /\ UNCHANGED <<now, pc, key, sampled, held, entries, map>>

LEMMA CacheSteps ==
    SystemTypeOK /\ [Next]_vars => [CacheNext]_cacheVars \/ \E c \in Callers : Forgotten(c)
<1> DEFINE Step == [CacheNext]_cacheVars \/ \E c \in Callers : Forgotten(c)
<1> SUFFICES ASSUME SystemTypeOK, [Next]_vars PROVE Step
  OBVIOUS
<1>b. Conns \subseteq Callers
  BY ConnectionsCall
<1>1. CASE TimePasses
  BY <1>1 DEF TimePasses, CacheNext
<1>2. ASSUME NEW c \in Conns, Accept(c) PROVE Step
  BY <1>2 DEF Accept
<1>3. ASSUME NEW c \in Conns, Close(c) PROVE Step
  BY <1>b, <1>3, Zenon DEF Close, Forgotten
<1>4. ASSUME NEW c \in Conns, NEW f \in Keys, Receive(c, f) PROVE Step
  BY <1>b, <1>4 DEF Receive, CacheNext
<1>5. ASSUME NEW req \in Fanouts, Fanout(req) PROVE Step
  BY <1>5 DEF Fanout
<1>6. ASSUME NEW d \in Devices, LegStarts(d) PROVE Step
  <2>1. d \in fan.legs /\ Call(Leg(d), FrameFor(d, fan.cmd))
    BY <1>6 DEF LegStarts
  <2>2. Leg(d) \in Callers /\ FrameFor(d, fan.cmd) \in Keys
    BY <2>1, LegsAreCallers
  <2> QED BY <2>1, <2>2 DEF CacheNext
<1>7. CASE FanoutReturns
  BY <1>7 DEF FanoutReturns
<1>8. ASSUME NEW c \in Callers, Hit(c) \/ Miss(c) \/ Joined(c) PROVE Step
  BY <1>8, Zenon DEF Hit, Miss, Joined, CallerStep, CacheNext
<1>9. ASSUME NEW c \in Callers, RouteReturns(c) PROVE Step
  BY <1>9 DEF RouteReturns
<1>10. ASSUME NEW c \in Callers, Finish(c) PROVE Step
  <2>1. Complete(c, call[c].outcome) /\ call[c].outcome # NoResult
    BY <1>10 DEF Finish
  <2>2. call[c].outcome \in Results
    BY <2>1, Zenon DEF SystemTypeOK, RoutingCall
  <2> QED BY <2>1, <2>2 DEF CallerStep, CacheNext
<1>11. ASSUME NEW c \in Callers, NEW n \in 1 .. MaxCalls, GoOut(c, n) PROVE Step
  BY <1>11 DEF GoOut
<1>12. CASE UNCHANGED vars
  BY <1>12 DEF vars
<1> HIDE DEF Step
<1> QED
  BY <1>1, <1>2, <1>3, <1>4, <1>5, <1>6, <1>7, <1>8, <1>9, <1>10, <1>11, <1>12
  DEF Next, HandlerStep

LEMMA SystemKeepsCache == SystemInv /\ [Next]_vars => CacheInv'
  BY CacheSteps, CacheKeeps, CloseKeepsCache, Zenon DEF SystemInv, Forgotten

(* Steps that neither enter nor leave Do, nor route: the clock, a new      *)
(* connection, the beginning and the end of a fanout.                      *)
LEMMA QuietKeeps ==
    ASSUME SystemInv, CacheInv', FanOK',
           UNCHANGED <<pc, key, answer, entries, call, outs, frame, target, executed>>
    PROVE  SystemInv'
<1>1. SystemTypeOK'
  BY DEF SystemInv, SystemTypeOK, FanOK
<1> QED BY <1>1, Zenon DEF SystemInv, Sent, Working, Routed, Reported, CarriedOut, Own

(* A frame of a client or a leg is handed to Do.                           *)
LEMMA EnterKeeps ==
    ASSUME SystemInv, CacheInv', FanOK', NEW c \in Callers, NEW f \in Keys, Call(c, f),
           c \in Legs => f.addr = LegTarget(c),
           frame' = [frame EXCEPT ![c] = f],
           UNCHANGED <<call, outs, target, executed>>
    PROVE  SystemInv'
<1>a. CacheTypeOK /\ SystemTypeOK /\ Sent /\ Working /\ Routed /\ Reported
  BY DEF SystemInv, CacheInv
<1>b. /\ pc'[c] = "entered" /\ key'[c] = f /\ answer'[c] = NoResult /\ frame'[c] = f
      /\ \A d \in Callers \ {c} : /\ pc'[d] = pc[d] /\ key'[d] = key[d]
                                  /\ answer'[d] = answer[d] /\ frame'[d] = frame[d]
      /\ UNCHANGED entries
  BY <1>a, Zenon DEF Call, CacheTypeOK, SystemTypeOK
<1>1. SystemTypeOK'
  BY <1>a, Zenon DEF SystemTypeOK, FanOK
<1>2. Sent'
  BY <1>a DEF Sent
<1>3. Working'
  BY <1>a, <1>b, Zenon DEF Working
<1>4. Routed'
  <2>1. \A d \in Callers : pc'[d] = "routing" => pc[d] = "routing" /\ key'[d] = key[d]
    BY <1>b, Zenon
  <2> QED BY <1>a, <2>1, Zenon DEF Routed, Own
<1>5. Reported'
  <2>1. NoResult # "reply"
    BY OutcomesAre
  <2>2. \A d \in Callers : answer'[d] = "reply" => answer[d] = "reply" /\ frame'[d] = frame[d]
    BY <1>b, <2>1, Zenon
  <2>3. \A d \in Callers : answer'[d] = "reply" => CarriedOut(frame'[d])
    BY <1>a, <2>2, Zenon DEF Reported
  <2>4. \A e \in DOMAIN entries' : entries'[e].result = "reply" => CarriedOut(entries'[e].key)
    BY <1>a, <1>b, Zenon DEF Reported
  <2> QED BY <2>3, <2>4, Zenon DEF Reported, CarriedOut, Own
<1> QED BY <1>1, <1>2, <1>3, <1>4, <1>5 DEF SystemInv

(* A lookup that finds an entry.                                           *)
LEMMA HitKeeps ==
    ASSUME SystemInv, CacheInv', NEW c \in Callers, Hit(c)
    PROVE  SystemInv'
<1>a. CacheTypeOK /\ SystemTypeOK /\ Sent /\ Working /\ Routed /\ Reported
  BY DEF SystemInv, CacheInv
<1>b. /\ pc[c] = "entered" /\ pc'[c] = "waiting"
      /\ \A d \in Callers \ {c} : pc'[d] = pc[d]
      /\ UNCHANGED <<key, entries, answer, call, outs, frame, target, fan, executed>>
  BY <1>a DEF Hit, LookupHit, CacheTypeOK, routeVars
<1>1. SystemTypeOK'
  BY <1>a, <1>b, SMTT(30) DEF SystemTypeOK, FanOK
<1>2. Sent' /\ Reported'
  BY <1>a, <1>b, Zenon DEF Sent, Reported, CarriedOut, Own
<1>3. Working'
  BY <1>a, <1>b, Zenon DEF Working
<1>4. Routed'
  BY <1>a, <1>b, Zenon DEF Routed, Own
<1> QED BY <1>1, <1>2, <1>3, <1>4 DEF SystemInv

(* A lookup that creates an entry: its owner routes the frame, with a call *)
(* whose number is new, so nothing of it has gone out yet.                 *)
LEMMA MissKeeps ==
    ASSUME SystemInv, CacheInv', NEW c \in Callers, Miss(c)
    PROVE  SystemInv'
<1>a. CacheTypeOK /\ SystemTypeOK /\ Sent /\ Working /\ Routed /\ Reported /\ Locals
  BY Zenon DEF SystemInv, CacheInv
<1>b. /\ pc[c] = "entered" /\ pc'[c] = "routing"
      /\ \A d \in Callers \ {c} : pc'[d] = pc[d]
      /\ UNCHANGED <<key, answer, outs, frame, fan, executed>>
  BY <1>a DEF Miss, LookupMiss, Routing!Begin, CacheTypeOK
<1>c. PICK n \in 1 .. MaxCalls : n = call[c].n + 1 /\ n - 1 = call[c].n
  <2>1. call[c].n \in 0 .. MaxCalls /\ call[c].n < MaxCalls
    BY <1>a, Zenon DEF Miss, Routing!Begin, SystemTypeOK, RoutingCall
  <2> QED BY <2>1, CallsAreCounted
<1>d. call' = [call EXCEPT ![c] = [pc |-> "busy", n |-> n, read |-> FALSE, outcome |-> NoResult]]
  BY <1>c DEF Miss, Routing!Begin
<1>e. /\ call'[c].n = n /\ call'[c].outcome = NoResult
      /\ \A d \in Callers \ {c} : call'[d] = call[d]
  BY <1>a, <1>d DEF SystemTypeOK
<1>f. target' = [target EXCEPT ![c] = [@ EXCEPT ![n] =
                   [device |-> Resolve(c, key[c]), frame |-> key[c]]]]
  BY <1>e DEF Miss
<1>g. /\ DOMAIN target' = Callers /\ \A d \in Callers : DOMAIN target'[d] = 1 .. MaxCalls
      /\ target'[c][n] = [device |-> Resolve(c, key[c]), frame |-> key[c]]
      /\ \A m \in 1 .. MaxCalls : m # n => target'[c][m] = target[c][m]
      /\ \A d \in Callers \ {c} : target'[d] = target[d]
  BY <1>a, <1>f, Zenon DEF SystemTypeOK
<1>h. key[c] \in Keys /\ key[c].addr # 0 => Resolve(c, key[c]) = key[c].addr
  <2>1. key[c] \in Keys /\ frame[c] = key[c] /\ key[c] # NoKey
    BY <1>a, <1>b, FramesAreNotNone, Zenon DEF Locals, Working
  <2>2. c \in Legs => key[c].addr = LegTarget(c)
    BY <1>a, <2>1 DEF Working
  <2> QED BY <2>2, Zenon DEF Resolve
<1>1. SystemTypeOK'
  <2>1. n \in 0 .. MaxCalls
    BY <1>c, CallsAreCounted
  <2>2. [pc |-> "busy", n |-> n, read |-> FALSE, outcome |-> NoResult] \in RoutingCall
    BY <2>1 DEF RoutingCall
  <2>3. call' \in [Callers -> RoutingCall]
    BY <1>a, <1>d, <2>2 DEF SystemTypeOK
  <2> QED BY <1>a, <1>b, <1>g, <2>3, Zenon DEF SystemTypeOK, FanOK
<1>2. Sent'
  <2>1. ASSUME NEW d \in Callers, NEW m \in 1 .. MaxCalls, outs[d][m] = 1
        PROVE  m <= call'[d].n /\ target'[d][m] \in executed
    <3>1. m <= call[d].n /\ target[d][m] \in executed
      BY <1>a, <2>1, SMTT(30) DEF Sent
    <3>2. CASE d # c
      BY <1>e, <1>g, <3>1, <3>2, Zenon
    <3>3. CASE d = c
      <4>1. m <= n /\ m # n
        BY <1>c, <3>1, <3>3, CallsAreCounted
      <4> QED BY <1>e, <1>g, <3>1, <3>3, <4>1, Zenon
    <3> QED BY <3>2, <3>3
  <2> QED BY <1>b, <2>1 DEF Sent
<1>3. Working'
  BY <1>a, <1>b DEF Working
<1>4. Routed'
  <2>1. ASSUME NEW d \in Callers, d # c, pc'[d] = "routing"
        PROVE  /\ call'[d].n # 0
               /\ key[d].addr # 0 => target'[d][call'[d].n] = Own(key[d])
               /\ call'[d].outcome = "reply" => outs[d][call'[d].n] = 1
    <3>1. pc[d] = "routing" /\ call'[d] = call[d] /\ target'[d] = target[d]
      BY <1>b, <1>e, <1>g, <2>1, Zenon
    <3> QED BY <1>a, <3>1 DEF Routed
  <2>2. /\ call'[c].n # 0 /\ call'[c].outcome # "reply"
        /\ key[c].addr # 0 => target'[c][call'[c].n] = Own(key[c])
    <3>1. key[c] \in Keys
      BY <1>a, <1>b, Zenon DEF Locals
    <3>2. n # 0 /\ NoResult # "reply"
      BY <1>c, CallsAreCounted, OutcomesAre
    <3> QED BY <1>e, <1>g, <1>h, <3>1, <3>2, Zenon DEF Own
  <2> QED BY <1>b, <2>1, <2>2, Zenon DEF Routed, Own
<1>5. Reported'
  <2>1. PICK x : entries' = Append(entries, x) /\ x.result # "reply"
    BY OutcomesAre DEF Miss, LookupMiss
  <2>2. \A e \in DOMAIN entries' : \/ e \in DOMAIN entries /\ entries'[e] = entries[e]
                                   \/ entries'[e] = x
    BY <1>a, <2>1 DEF CacheTypeOK
  <2> QED BY <1>a, <1>b, <2>1, <2>2, Zenon DEF Reported, CarriedOut, Own
<1> QED BY <1>1, <1>2, <1>3, <1>4, <1>5 DEF SystemInv

(* The routing call returns; a reply only when its frame went out.         *)
LEMMA RouteReturnsKeeps ==
    ASSUME SystemInv, CacheInv', NEW c \in Callers, RouteReturns(c)
    PROVE  SystemInv'
<1>a. SystemTypeOK /\ Sent /\ Working /\ Routed /\ Reported
  BY DEF SystemInv
<1>b. UNCHANGED <<pc, key, entries, answer, outs, frame, target, fan, executed>>
  BY DEF RouteReturns, cacheVars, Routing!Answer, Routing!Fail, Routing!Ends
<1>c. PICK r \in Results :
        /\ call' = [call EXCEPT ![c] = [pc |-> "idle", n |-> @.n, read |-> @.read,
                                        outcome |-> r]]
        /\ r = "reply" => outs[c][call[c].n] = 1
  <2>0. call[c] \in RoutingCall
    BY <1>a DEF SystemTypeOK
  <2>1. CASE Routing!Answer(c)
    BY <2>0, <2>1, OutcomesAre, Zenon DEF Routing!Answer, Routing!Ends, RoutingCall
  <2>2. CASE Routing!Fail(c) /\ call'[c].pc = "idle"
    <3>1. PICK p \in {"idle", "gone"} : Routing!Ends(c, p, "error")
      BY <2>2 DEF Routing!Fail
    <3>2. p = "idle"
      BY <1>a, <2>2, <3>1 DEF Routing!Ends, SystemTypeOK
    <3> QED BY <3>1, <3>2, OutcomesAre, Zenon DEF Routing!Ends
  <2> QED BY <2>1, <2>2 DEF RouteReturns
<1>d. /\ call'[c].n = call[c].n /\ call'[c].outcome = r
      /\ \A d \in Callers \ {c} : call'[d] = call[d]
  BY <1>a, <1>c DEF SystemTypeOK
<1>1. SystemTypeOK'
  <2>1. [pc |-> "idle", n |-> call[c].n, read |-> call[c].read, outcome |-> r] \in RoutingCall
    BY <1>a, Zenon DEF SystemTypeOK, RoutingCall
  <2>2. call' \in [Callers -> RoutingCall]
    BY <1>a, <1>c, <2>1 DEF SystemTypeOK
  <2> QED BY <1>a, <1>b, <2>2, Zenon DEF SystemTypeOK, FanOK
<1>2. Sent'
  BY <1>a, <1>b, <1>d, Zenon DEF Sent
<1>3. Routed'
  BY <1>a, <1>b, <1>c, <1>d DEF Routed, Own
<1> QED BY <1>a, <1>b, <1>1, <1>2, <1>3, Zenon DEF SystemInv, Working, Reported, CarriedOut, Own

(* A frame goes out, perhaps long after its call returned an error.        *)
LEMMA GoOutKeeps ==
    ASSUME SystemInv, CacheInv', NEW c \in Callers, NEW n \in 1 .. MaxCalls, GoOut(c, n)
    PROVE  SystemInv'
<1>a. SystemTypeOK /\ Sent /\ Working /\ Routed /\ Reported
  BY DEF SystemInv
<1>b. /\ UNCHANGED <<pc, key, entries, answer, call, frame, target, fan>>
      /\ executed \subseteq executed' /\ target[c][n] \in executed'
      /\ outs' = [outs EXCEPT ![c] = [@ EXCEPT ![n] = 1]]
      /\ n \in 1 .. call[c].n
  BY DEF GoOut, Routing!GoOut, cacheVars
<1>c. /\ \A d \in Callers, m \in 1 .. MaxCalls :
           outs'[d][m] = IF d = c /\ m = n THEN 1 ELSE outs[d][m]
      /\ outs' \in [Callers -> [1 .. MaxCalls -> {0, 1}]]
  BY <1>a, <1>b, Zenon DEF SystemTypeOK
<1>d. \A d \in Callers : call[d].n \in 0 .. MaxCalls
  BY <1>a, Zenon DEF SystemTypeOK, RoutingCall
<1>1. SystemTypeOK'
  BY <1>a, <1>b, <1>c DEF SystemTypeOK, FanOK
<1>2. Sent'
  <2>1. n <= call[c].n
    BY <1>b, <1>d, CallsAreCounted
  <2> QED BY <1>a, <1>b, <1>c, <2>1, Zenon DEF Sent
<1>3. Routed'
  <2>1. \A d \in Callers : call[d].n # 0 => call[d].n \in 1 .. MaxCalls
    BY <1>d, CallsAreCounted
  <2> QED BY <1>a, <1>b, <1>c, <2>1, Zenon DEF Routed, Own
<1>4. Working' /\ Reported'
  BY <1>a, <1>b DEF Working, Reported, CarriedOut, Own
<1> QED BY <1>1, <1>2, <1>3, <1>4 DEF SystemInv

(* The owner of an entry passes its outcome on to the entry.               *)
LEMMA FinishKeeps ==
    ASSUME SystemInv, CacheInv', NEW c \in Callers, Finish(c)
    PROVE  SystemInv'
<1>a. CacheTypeOK /\ Locals /\ SystemTypeOK /\ Sent /\ Working /\ Routed /\ Reported
  BY Zenon DEF SystemInv, CacheInv
<1>b. /\ pc[c] = "routing" /\ pc'[c] = "idle"
      /\ \A d \in Callers \ {c} : /\ pc'[d] = pc[d] /\ key'[d] = key[d]
                                  /\ answer'[d] = answer[d]
      /\ answer'[c] = call[c].outcome
      /\ UNCHANGED <<call, outs, frame, target, fan, executed>>
  BY <1>a, Zenon DEF Finish, Complete, Return, CacheTypeOK, routeVars
<1>c. key[c] \in Keys /\ frame[c] = key[c]
  BY <1>a, <1>b DEF Locals, Working
<1>d. call[c].outcome = "reply" => CarriedOut(key[c])
  <2>1. call[c].n \in 1 .. MaxCalls
    <3>1. call[c].n \in 0 .. MaxCalls
      BY <1>a, Zenon DEF SystemTypeOK, RoutingCall
    <3>2. call[c].n # 0
      BY <1>a, <1>b, Zenon DEF Routed
    <3> QED BY <3>1, <3>2, CallsAreCounted
  <2> QED BY <1>a, <1>b, <2>1, Zenon DEF Routed, Sent, CarriedOut
<1>1. SystemTypeOK'
  BY <1>a, <1>b, Zenon DEF SystemTypeOK, FanOK
<1>2. Sent'
  BY <1>a, <1>b DEF Sent
<1>3. Working'
  BY <1>a, <1>b, <1>c, FramesAreNotNone, Zenon DEF Working
<1>4. Routed'
  BY <1>a, <1>b, Zenon DEF Routed, Own
<1>5. Reported'
  <2>1. \A e \in DOMAIN entries' :
          \/ e \in DOMAIN entries /\ entries'[e] = entries[e]
          \/ entries'[e].key = key[c] /\ entries'[e].result = call[c].outcome
    BY <1>a, Zenon DEF Finish, Complete, CacheTypeOK
  <2> QED BY <1>a, <1>b, <1>c, <1>d, <2>1 DEF Reported, CarriedOut, Own
<1> QED BY <1>1, <1>2, <1>3, <1>4, <1>5 DEF SystemInv

(* A goroutine that joined another's command copies the entry's outcome.   *)
LEMMA JoinedKeeps ==
    ASSUME SystemInv, CacheInv', NEW c \in Callers, Joined(c)
    PROVE  SystemInv'
<1>a. CacheTypeOK /\ Locals /\ SystemTypeOK /\ Sent /\ Working /\ Routed /\ Reported
  BY DEF SystemInv, CacheInv
<1>b. /\ pc[c] = "waiting" /\ pc'[c] = "idle"
      /\ \A d \in Callers \ {c} : /\ pc'[d] = pc[d] /\ key'[d] = key[d]
                                  /\ answer'[d] = answer[d]
      /\ answer'[c] = entries[held[c]].result
      /\ UNCHANGED <<entries, call, outs, frame, target, fan, executed>>
  BY <1>a, Zenon DEF Joined, Join, Return, CacheTypeOK, routeVars
<1>c. /\ key[c] \in Keys /\ frame[c] = key[c]
      /\ held[c] \in DOMAIN entries /\ entries[held[c]].key = key[c]
  <2>0. pc[c] # "idle"
    BY <1>b
  <2>1. /\ key[c] \in Keys /\ frame[c] = key[c]
        /\ held[c] # 0 /\ entries[held[c]].key = key[c]
    BY <1>a, <1>b, <2>0, Zenon DEF Locals, Working
  <2>2. held[c] \in 0 .. Len(entries) /\ entries \in Seq(Entry)
    BY <1>a, Zenon DEF CacheTypeOK
  <2>3. held[c] \in DOMAIN entries
    BY <2>1, <2>2
  <2> QED BY <2>1, <2>3, Zenon
<1>1. SystemTypeOK'
  BY <1>a, <1>b, Zenon DEF SystemTypeOK, FanOK
<1>2. Sent'
  BY <1>a, <1>b, Zenon DEF Sent
<1>3. Working'
  BY <1>a, <1>b, <1>c, FramesAreNotNone, Zenon DEF Working
<1>4. Routed'
  BY <1>a, <1>b, Zenon DEF Routed, Own
<1>5. Reported'
  <2>1. answer'[c] = "reply" => CarriedOut(frame[c])
    BY <1>a, <1>b, <1>c, Zenon DEF Reported
  <2> QED BY <1>a, <1>b, <2>1, Zenon DEF Reported, CarriedOut, Own
<1> QED BY <1>1, <1>2, <1>3, <1>4, <1>5 DEF SystemInv

(* A connection is closed, and what it was answered is forgotten.          *)
LEMMA CloseKeeps ==
    ASSUME SystemInv, CacheInv', NEW c \in Conns, Close(c)
    PROVE  SystemInv'
<1>a. CacheTypeOK /\ SystemTypeOK /\ Sent /\ Working /\ Routed /\ Reported
  BY DEF SystemInv, CacheInv
<1>b. /\ c \in Callers /\ pc[c] = "idle" /\ answer'[c] = NoResult /\ frame'[c] = NoKey
      /\ \A d \in Callers \ {c} : answer'[d] = answer[d] /\ frame'[d] = frame[d]
      /\ UNCHANGED <<pc, key, entries, call, outs, target, fan, executed>>
  BY <1>a, ConnectionsCall, Zenon DEF Close, CacheTypeOK, SystemTypeOK, routeVars
<1>1. SystemTypeOK'
  BY <1>a, <1>b, Zenon DEF Close, SystemTypeOK, FanOK
<1>2. Working'
  <2>1. ASSUME NEW d \in Callers
        PROVE  /\ pc[d] # "idle" => frame'[d] = key[d]
               /\ d \in Legs /\ frame'[d] # NoKey => frame'[d].addr = LegTarget(d)
               /\ answer'[d] # NoResult => frame'[d] # NoKey
    BY <1>a, <1>b, Zenon DEF Working
  <2> QED BY <1>b, <2>1, Zenon DEF Working
<1>3. Reported'
  <2>1. NoResult # "reply"
    BY OutcomesAre
  <2> QED BY <1>a, <1>b, <2>1, SMTT(30) DEF Reported, CarriedOut, Own
<1>4. Sent'
  BY <1>a, <1>b, Zenon DEF Sent
<1>5. Routed'
  BY <1>a, <1>b, Zenon DEF Routed, Own
<1> QED BY <1>1, <1>2, <1>3, <1>4, <1>5 DEF SystemInv

(* Every step of the router keeps the invariant.                           *)
LEMMA SystemKeeps == SystemInv /\ [Next]_vars => SystemInv'
<1> SUFFICES ASSUME SystemInv, [Next]_vars PROVE SystemInv'
  OBVIOUS
<1>a. CacheInv' /\ SystemTypeOK /\ FanOK
  BY SystemKeepsCache, Zenon DEF SystemInv, SystemTypeOK
<1>1. CASE TimePasses
  BY <1>a, <1>1, QuietKeeps, Zenon DEF TimePasses, Tick, routeVars, FanOK
<1>2. ASSUME NEW c \in Conns, Accept(c) PROVE SystemInv'
  BY <1>a, <1>2, QuietKeeps, Zenon DEF Accept, cacheVars, routeVars, FanOK
<1>3. ASSUME NEW c \in Conns, Close(c) PROVE SystemInv'
  BY <1>a, <1>3, CloseKeeps
<1>4. ASSUME NEW c \in Conns, NEW f \in Keys, Receive(c, f) PROVE SystemInv'
  <2>1. c \in Callers /\ c \notin Legs
    BY ConnectionsCall
  <2>2. /\ Call(c, f) /\ frame' = [frame EXCEPT ![c] = f]
        /\ UNCHANGED <<call, outs, target, executed>> /\ FanOK'
    BY <1>a, <1>4, Zenon DEF Receive, routeVars, FanOK
  <2> QED BY <1>a, <2>1, <2>2, EnterKeeps, Zenon
<1>5. ASSUME NEW req \in Fanouts, Fanout(req) PROVE SystemInv'
  <2>1. FanOK'
    BY <1>5 DEF Fanout, FanoutAddresses, FanOK
  <2> QED BY <1>a, <1>5, <2>1, QuietKeeps, Zenon DEF Fanout, cacheVars, routeVars
<1>6. ASSUME NEW d \in Devices, LegStarts(d) PROVE SystemInv'
  <2>1. PICK l \in Callers : l = Leg(d)
    BY <1>a, <1>6, LegsAreCallers DEF LegStarts
  <2>2. PICK f \in Keys : f = FrameFor(d, fan.cmd)
    BY <1>a, <1>6, LegsAreCallers DEF LegStarts
  <2>3. f.addr = LegTarget(l)
    BY <1>a, <1>6, <2>1, <2>2, LegsAreCallers DEF LegStarts
  <2>4. /\ Call(l, f) /\ frame' = [frame EXCEPT ![l] = f]
        /\ UNCHANGED <<call, outs, target, executed>>
    BY <1>6, <2>1, <2>2 DEF LegStarts, routeVars
  <2>5. FanOK'
    BY <1>a, <1>6 DEF LegStarts, FanOK
  <2> QED BY <1>a, <2>3, <2>4, <2>5, EnterKeeps, Zenon
<1>7. CASE FanoutReturns
  BY <1>a, <1>7, QuietKeeps, Zenon DEF FanoutReturns, NoFanout, cacheVars, routeVars, FanOK
<1>8. ASSUME NEW c \in Callers, HandlerStep(c) PROVE SystemInv'
  BY <1>a, <1>8, HitKeeps, MissKeeps, RouteReturnsKeeps, FinishKeeps, JoinedKeeps
  DEF HandlerStep
<1>9. ASSUME NEW c \in Callers, NEW n \in 1 .. MaxCalls, GoOut(c, n) PROVE SystemInv'
  BY <1>a, <1>9, GoOutKeeps
<1>10. CASE UNCHANGED vars
  BY <1>a, <1>10, QuietKeeps, Zenon DEF vars, cacheVars, routeVars, FanOK
<1> QED
  BY <1>1, <1>2, <1>3, <1>4, <1>5, <1>6, <1>7, <1>8, <1>9, <1>10 DEF Next

(* The invariant of the router holds in every state ServeRouter, its       *)
(* connections and Fanout can reach.                                       *)
THEOREM SystemInvariant == Spec => []SystemInv
  BY SystemStarts, SystemKeeps, PTL DEF Spec

(***************************************************************************)
(* Whoever is told that a command with a device's address was carried out, *)
(* a client by handleRoutedClient or the caller of Fanout for a leg, had   *)
(* it carried out by that device, for any number of connections, devices,  *)
(* commands and fanouts, however they are coalesced and however late a     *)
(* frame goes out.                                                         *)
(***************************************************************************)
THEOREM RepliesAreOfTheirDevice == Spec => []AddressedRepliesComeFromTheirDevice
<1>1. SystemInv => AddressedRepliesComeFromTheirDevice
  <2> SUFFICES ASSUME SystemInv, NEW c \in Callers, answer[c] = "reply", frame[c].addr # 0
               PROVE  DidIt(c)
    BY DEF AddressedRepliesComeFromTheirDevice, ToldItSucceeded
  <2>1. Own(frame[c]) \in executed /\ frame[c] # NoKey
    BY OutcomesAre, SMTT(30) DEF SystemInv, Reported, Working, CarriedOut
  <2>2. Resolve(c, frame[c]) = frame[c].addr
    BY <2>1 DEF SystemInv, Working, Resolve
  <2> QED BY <2>1, <2>2 DEF DidIt, Own
<1> QED BY <1>1, SystemInvariant, PTL

(* In the router a command in flight has exactly one goroutine that routes *)
(* it (Do), be it sent by clients or by the legs of a fanout.              *)
THEOREM SystemFlightsHaveOneOwner == Spec => []OneOwnerPerFlight
<1>1. SystemInv => OneOwnerPerFlight
  BY CacheOwners DEF SystemInv
<1> QED BY <1>1, SystemInvariant, PTL

(* In the router a command is routed again only after its outcome expired  *)
(* (Do), although a closed connection's answer is forgotten at any time.   *)
THEOREM SystemCommandsAreNotRerouted == Spec => NotReroutedWithinTTL
<1> DEFINE Kept == \A c \in Callers :
              pc[c] = "entered" /\ pc'[c] = "routing"
              => \A e \in DOMAIN entries :
                    entries[e].key = key[c]
                    => entries[e].completed /\ entries[e].expires <= now
<1>1. SystemInv /\ [Next]_vars => [Kept]_cacheVars
  <2> SUFFICES ASSUME SystemInv, [Next]_vars PROVE [Kept]_cacheVars
    OBVIOUS
  <2>1. [CacheNext]_cacheVars \/ \E c \in Callers : Forgotten(c)
    BY CacheSteps DEF SystemInv
  <2>2. CASE CacheNext
    BY <2>2, MissMeansDone DEF SystemInv
  <2>3. ASSUME NEW c \in Callers, Forgotten(c) PROVE Kept
    BY <2>3 DEF Forgotten
  <2> QED BY <2>1, <2>2, <2>3
<1> QED BY <1>1, SystemInvariant, PTL DEF Spec, NotReroutedWithinTTL

(* In the router a goroutine that joined another one's command returns     *)
(* that command's outcome (Do).                                            *)
THEOREM SystemJoinersAreAnswered == Spec => JoinersGetAnOutcome
<1> DEFINE Answered == \A c \in Callers :
              pc[c] = "waiting" /\ pc'[c] = "idle"
              => /\ answer'[c] \in Results
                 /\ entries[held[c]].key = key[c]
                 /\ entries[held[c]].result = answer'[c]
<1>1. SystemInv /\ [Next]_vars => [Answered]_cacheVars
  <2> SUFFICES ASSUME SystemInv, [Next]_vars PROVE [Answered]_cacheVars
    OBVIOUS
  <2>1. [CacheNext]_cacheVars \/ \E c \in Callers : Forgotten(c)
    BY CacheSteps DEF SystemInv
  <2>2. CASE CacheNext
    BY <2>2, JoinMeansAnswered DEF SystemInv
  <2>3. ASSUME NEW c \in Callers, Forgotten(c) PROVE Answered
    BY <2>3 DEF Forgotten
  <2> QED BY <2>1, <2>2, <2>3, Zenon
<1> QED BY <1>1, SystemInvariant, PTL DEF Spec, JoinersGetAnOutcome

-----------------------------------------------------------------------------
(* The addresses of the connections                                        *)

(* The router opens and closes connections as the specification of the     *)
(* selector says (ServeRouter, addressZeroSelector.Lease), so what is      *)
(* proved of that one, that address 0 means one device to all connections  *)
(* of a host, holds in the router.                                         *)
THEOREM RouterLeasesAddresses == Spec => ZeroSpec
<1>1. Init => ZeroInit
  BY DEF Init
<1>2. [Next]_vars => [ZeroNext]_zeroVars
  <2> SUFFICES ASSUME [Next]_vars PROVE [ZeroNext]_zeroVars
    OBVIOUS
  <2>1. ASSUME NEW c \in Conns, Accept(c) \/ Close(c) PROVE ZeroNext
    BY <2>1 DEF Accept, Close, ZeroNext
  <2>2. ASSUME NEW c \in Conns, NEW f \in Keys, Receive(c, f) PROVE UNCHANGED zeroVars
    BY <2>2 DEF Receive
  <2>3. ASSUME NEW c \in Callers, HandlerStep(c) PROVE UNCHANGED zeroVars
    BY <2>3, Zenon DEF HandlerStep, Hit, Miss, RouteReturns, Finish, Joined
  <2>4. ASSUME NEW c \in Callers, NEW n \in 1 .. MaxCalls, GoOut(c, n)
        PROVE  UNCHANGED zeroVars
    BY <2>4 DEF GoOut
  <2> QED BY <2>1, <2>2, <2>3, <2>4
    DEF Next, TimePasses, Fanout, LegStarts, FanoutReturns, vars
<1> QED BY <1>1, <1>2, PTL DEF Spec, ZeroSpec
=============================================================================

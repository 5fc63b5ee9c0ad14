---------------------------- MODULE CommandCache ----------------------------
(***************************************************************************)
(* The command idempotency cache of mecomserver/router.go                  *)
(* (commandIdempotencyCache), which every non-read frame goes through      *)
(* before it is routed.                                                    *)
(*                                                                         *)
(* A caller is a goroutine inside Do.  It samples the clock before it      *)
(* takes the mutex (Call), looks the key up under the mutex (Lookup), and  *)
(* then either waits on the entry's done channel or, as the entry's owner, *)
(* runs route() outside the mutex and completes the entry (Complete).      *)
(* Entries are heap objects: a waiter keeps its pointer after the map has  *)
(* dropped or replaced the entry, so entries have an identity of their own *)
(* and the map holds identities.  A nil cache (negative TTL) and the empty *)
(* key of read frames bypass all of this and are not callers here.         *)
(***************************************************************************)
EXTENDS Naturals, Sequences

CONSTANTS
    Callers,     \* goroutines calling Do
    Keys,        \* command frames (commandIdempotencyKey of a non-read)
    Results,     \* what route() may return, errors included
    TTL,         \* c.ttl
    MaxTime,     \* bound on the clock
    MaxEntries,  \* bound on the number of entries ever created
    NoResult,    \* an entry that has not completed
    NoKey        \* a goroutine that is not inside Do

ASSUME CacheConstants ==
    /\ TTL \in Nat \ {0}
    /\ MaxTime \in Nat
    /\ MaxEntries \in Nat
    /\ NoResult \notin Results
    /\ NoKey \notin Keys

VARIABLES
    now,      \* the wall clock
    pc,       \* where each caller is in Do
    key,      \* the caller's key
    sampled,  \* the caller's local variable now
    held,     \* the caller's local variable entry (0: none)
    entries,  \* the entries created so far, in order of creation
    map,      \* c.entries: key -> entry identity, 0 when absent
    answer    \* what the caller's last Do returned

cacheVars == <<now, pc, key, sampled, held, entries, map, answer>>

Entry == [key : Keys, completed : BOOLEAN, expires : Nat,
          result : Results \cup {NoResult}]

CacheInit ==
    /\ now = 0
    /\ pc = [c \in Callers |-> "idle"]
    /\ key = [c \in Callers |-> NoKey]
    /\ sampled = [c \in Callers |-> 0]
    /\ held = [c \in Callers |-> 0]
    /\ entries = <<>>
    /\ map = [k \in Keys |-> 0]
    /\ answer = [c \in Callers |-> NoResult]

Tick ==
    /\ now < MaxTime
    /\ now' = now + 1
    /\ UNCHANGED <<pc, key, sampled, held, entries, map, answer>>

(* Do is entered: the clock is read before c.mu.Lock().                    *)
Call(c, k) ==
    /\ pc[c] = "idle"
    /\ pc' = [pc EXCEPT ![c] = "entered"]
    /\ key' = [key EXCEPT ![c] = k]
    /\ sampled' = [sampled EXCEPT ![c] = now]
    /\ answer' = [answer EXCEPT ![c] = NoResult]
    /\ UNCHANGED <<now, held, entries, map>>

\* A mutant for OneOwnerPerFlight: entries in flight are pruned too.
PrunedIgnoringCompleted(t) ==
    [k \in Keys |-> IF map[k] # 0 /\ t > entries[map[k]].expires
                    THEN 0 ELSE map[k]]

(* pruneLocked: completed entries strictly past their expiry leave the map *)
Pruned(t) ==
    [k \in Keys |-> IF /\ map[k] # 0
                       /\ entries[map[k]].completed
                       /\ t > entries[map[k]].expires
                    THEN 0 ELSE map[k]]

\* A mutant for NotReroutedWithinTTL: a completed entry no longer answers.
FreshOnlyInFlight(k, t) ==
    LET e == Pruned(t)[k] IN e # 0 /\ ~entries[e].completed

(* The map still answers for k: in flight, or completed and not expired.   *)
Fresh(k, t) ==
    LET e == Pruned(t)[k]
    IN  e # 0 /\ (~entries[e].completed \/ t < entries[e].expires)

LookupHit(c) ==
    LET pruned == Pruned(sampled[c]) IN
    /\ pc[c] = "entered"
    /\ Fresh(key[c], sampled[c])
    /\ map' = pruned
    /\ held' = [held EXCEPT ![c] = pruned[key[c]]]
    /\ pc' = [pc EXCEPT ![c] = "waiting"]
    /\ UNCHANGED <<now, key, sampled, entries, answer>>

LookupMiss(c) ==
    /\ pc[c] = "entered"
    /\ ~Fresh(key[c], sampled[c])
    /\ Len(entries) < MaxEntries
    /\ entries' = Append(entries, [key |-> key[c], completed |-> FALSE,
                                   expires |-> 0, result |-> NoResult])
    /\ map' = [Pruned(sampled[c]) EXCEPT ![key[c]] = Len(entries) + 1]
    /\ held' = [held EXCEPT ![c] = Len(entries) + 1]
    /\ pc' = [pc EXCEPT ![c] = "routing"]
    /\ UNCHANGED <<now, key, sampled, answer>>

(* Do returns r and its locals are gone.                                   *)
Return(c, r) ==
    /\ pc' = [pc EXCEPT ![c] = "idle"]
    /\ answer' = [answer EXCEPT ![c] = r]
    /\ key' = [key EXCEPT ![c] = NoKey]
    /\ sampled' = [sampled EXCEPT ![c] = 0]
    /\ held' = [held EXCEPT ![c] = 0]

\* A mutant for JoinersGetAnOutcome: the owner does not keep its outcome for
\* the others.
CompleteWithoutFrame(c, r) ==
    /\ pc[c] = "routing"
    /\ entries' = [entries EXCEPT ![held[c]] =
                     [key |-> key[c], completed |-> TRUE,
                      expires |-> now + TTL, result |-> NoResult]]
    /\ Return(c, r)
    /\ UNCHANGED <<now, map>>

(* route() has returned r: the owner completes its entry under the mutex   *)
(* and closes done, whether the outcome is a frame or an error.            *)
Complete(c, r) ==
    /\ pc[c] = "routing"
    /\ entries' = [entries EXCEPT ![held[c]] =
                     [key |-> key[c], completed |-> TRUE,
                      expires |-> now + TTL, result |-> r]]
    /\ Return(c, r)
    /\ UNCHANGED <<now, map>>

(* done is closed: the waiter copies the outcome out of its own entry.     *)
Join(c) ==
    /\ pc[c] = "waiting"
    /\ entries[held[c]].completed
    /\ Return(c, entries[held[c]].result)
    /\ UNCHANGED <<now, entries, map>>

CallerStep(c) ==
    \/ LookupHit(c)
    \/ LookupMiss(c)
    \/ \E r \in Results : Complete(c, r)
    \/ Join(c)

CacheNext ==
    \/ Tick
    \/ \E c \in Callers, k \in Keys : Call(c, k)
    \/ \E c \in Callers : CallerStep(c)

CacheSpec == CacheInit /\ [][CacheNext]_cacheVars

-----------------------------------------------------------------------------

(* Every caller, entry and map slot of the cache is well formed.           *)
CacheTypeOK ==
    /\ now \in Nat
    /\ pc \in [Callers -> {"idle", "entered", "waiting", "routing"}]
    /\ key \in [Callers -> Keys \cup {NoKey}]
    /\ sampled \in [Callers -> Nat]
    /\ entries \in Seq(Entry)
    /\ held \in [Callers -> 0 .. Len(entries)]
    /\ map \in [Keys -> 0 .. Len(entries)]
    /\ answer \in [Callers -> Results \cup {NoResult}]

(***************************************************************************)
(* At most one goroutine is routing a given command at any moment: callers *)
(* that arrive while it is in flight join it, however old their reading of *)
(* the clock is.                                                           *)
(***************************************************************************)
SingleFlight ==
    \A c, d \in Callers :
        /\ pc[c] = "routing"
        /\ pc[d] = "routing"
        /\ key[c] = key[d]
        => c = d

(***************************************************************************)
(* A command that has been routed is not routed again before its entry     *)
(* expires on the wall clock, although the lookup compares the expiry with *)
(* a clock sampled before the mutex was taken.                             *)
(***************************************************************************)
NotReroutedWithinTTL ==
    [][\A c \in Callers :
          pc[c] = "entered" /\ pc'[c] = "routing"
          => \A e \in DOMAIN entries :
                entries[e].key = key[c]
                => entries[e].completed /\ entries[e].expires <= now]_cacheVars

(***************************************************************************)
(* A caller that joins an entry returns what the owner of an entry of its  *)
(* own key got from route(): the zero outcome of an unfinished entry never *)
(* reaches a client, and neither does another command's reply.             *)
(***************************************************************************)
JoinersGetAnOutcome ==
    [][\A c \in Callers :
          pc[c] = "waiting" /\ pc'[c] = "idle"
          => /\ answer'[c] \in Results
             /\ entries[held[c]].key = key[c]
             /\ entries[held[c]].result = answer'[c]]_cacheVars

(***************************************************************************)
(* A waiter is never left behind.  <-done in Do has no timeout of its own, *)
(* so the entry a goroutine waits on, which the map may have dropped since *)
(* then, is complete or some goroutine still has to complete it.           *)
(***************************************************************************)
WaitersHaveAnOwner ==
    \A c \in Callers :
        pc[c] = "waiting" /\ ~entries[held[c]].completed
        => \E d \in Callers : pc[d] = "routing" /\ held[d] = held[c]

(***************************************************************************)
(* A command in flight has exactly one goroutine of Do that routes it: not *)
(* two, whose writes the device would both execute, and not none, for whom *)
(* its joiners would wait for ever.                                        *)
(***************************************************************************)
OneOwnerPerFlight == SingleFlight /\ WaitersHaveAnOwner
=============================================================================

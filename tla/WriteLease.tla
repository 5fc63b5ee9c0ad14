----------------------------- MODULE WriteLease -----------------------------
(***************************************************************************)
(* The write-authority registry of mecom/writelease/writelease.go.         *)
(*                                                                         *)
(* Every public method of Registry runs under r.mu, so each is one action. *)
(* Time is a natural number.  A token is a natural number too: newToken    *)
(* draws 128 random bits, which the model takes never to collide, so the   *)
(* n-th token is n.  Acquire reads the clock twice (once in sweepLocked,   *)
(* once for the decision), and the clock may advance between the two.      *)
(***************************************************************************)
EXTENDS Naturals, FiniteSets

CONSTANTS
    Devices,    \* device identifiers
    Holders,    \* holder names
    TTLs,       \* lease durations a caller may ask for
    MaxTime,    \* bound on the clock
    MaxTokens,  \* bound on the number of leases granted
    NoLease     \* absence of a lease in the registry map

ASSUME LeaseConstants ==
    /\ TTLs \subseteq Nat \ {0}
    /\ MaxTime \in Nat
    /\ MaxTokens \in Nat

Lease ==
    [holder : Holders, token : Nat, acquiredAt : Nat, expiresAt : Nat]

ASSUME NoLeaseIsNoLease == NoLease \notin Lease

VARIABLES
    now,     \* what r.now() returns
    leases,  \* r.leases: device -> lease, NoLease when there is no entry
    issued   \* number of tokens drawn by newToken so far

vars == <<now, leases, issued>>

Token == 1 .. MaxTokens

(* Lease.Active: valid strictly before its expiry.                         *)
Active(l, t) == l # NoLease /\ t < l.expiresAt

(* sweepLockedAt: the map without the leases that are not active at t.     *)
SweptAt(ls, t) ==
    [d \in Devices |-> IF Active(ls[d], t) THEN ls[d] ELSE NoLease]

Init ==
    /\ now = 0
    /\ leases = [d \in Devices |-> NoLease]
    /\ issued = 0

Tick ==
    /\ now < MaxTime
    /\ now' = now + 1
    /\ UNCHANGED <<leases, issued>>

\* A mutant for DeadTokenStaysDead: an expired lease is renewed with its
\* token.
RenewActiveOrNot(d, h, ttl, t) ==
    LET swept == leases IN
    /\ swept[d] # NoLease
    /\ swept[d].holder = h
    /\ leases' = [swept EXCEPT ![d].expiresAt = t + ttl]
    /\ now' = t
    /\ UNCHANGED issued

(***************************************************************************)
(* Acquire: sweep at now, decide at t >= now.  A holder that already has   *)
(* the lease renews it and keeps its token; another holder is refused; a   *)
(* free device gets a lease with a new token.                              *)
(***************************************************************************)
Renew(d, h, ttl, t) ==
    LET swept == SweptAt(leases, now) IN
    /\ Active(swept[d], t)
    /\ swept[d].holder = h
    /\ leases' = [swept EXCEPT ![d].expiresAt = t + ttl]
    /\ now' = t
    /\ UNCHANGED issued

AcquireHeld(d, h, t) ==
    LET swept == SweptAt(leases, now) IN
    /\ Active(swept[d], t)
    /\ swept[d].holder # h
    /\ leases' = swept
    /\ now' = t
    /\ UNCHANGED issued

\* A mutant for NoTakeover: a running lease is given to whoever asks.
GrantIgnoringHolder(d, h, ttl, t) ==
    LET swept == SweptAt(leases, now) IN
    /\ swept[d] # NoLease => swept[d].holder # h
    /\ issued < MaxTokens
    /\ issued' = issued + 1
    /\ leases' = [swept EXCEPT ![d] =
                    [holder |-> h, token |-> issued + 1,
                     acquiredAt |-> t, expiresAt |-> t + ttl]]
    /\ now' = t

Grant(d, h, ttl, t) ==
    LET swept == SweptAt(leases, now) IN
    /\ ~Active(swept[d], t)
    /\ issued < MaxTokens
    /\ issued' = issued + 1
    /\ leases' = [swept EXCEPT ![d] =
                    [holder |-> h, token |-> issued + 1,
                     acquiredAt |-> t, expiresAt |-> t + ttl]]
    /\ now' = t

Acquire(d, h, ttl) ==
    \E t \in {now, now + 1} :
        /\ t <= MaxTime
        /\ \/ Renew(d, h, ttl, t)
           \/ AcquireHeld(d, h, t)
           \/ Grant(d, h, ttl, t)

(* Release: sweep, then drop the lease that carries the token.             *)
Release(tok) ==
    LET swept == SweptAt(leases, now) IN
    /\ leases' = [d \in Devices |->
                    IF swept[d] # NoLease /\ swept[d].token = tok
                    THEN NoLease ELSE swept[d]]
    /\ UNCHANGED <<now, issued>>

(* What Validate answers: nil exactly when this holds.                     *)
ValidNow(d, tok) == Active(leases[d], now) /\ leases[d].token = tok

(* Validate and List: their effect on the map is the sweep, since the      *)
(* entry Validate deletes by hand is one the sweep would delete too.       *)
Validate ==
    /\ leases' = SweptAt(leases, now)
    /\ UNCHANGED <<now, issued>>

Next ==
    \/ Tick
    \/ \E d \in Devices, h \in Holders, ttl \in TTLs : Acquire(d, h, ttl)
    \/ \E tok \in Token : Release(tok)
    \/ Validate

Spec == Init /\ [][Next]_vars

-----------------------------------------------------------------------------

(* The registry holds well-formed leases and the clock stays in bounds.    *)
TypeOK ==
    /\ now \in Nat
    /\ issued \in Nat
    /\ leases \in [Devices -> Lease \cup {NoLease}]

(***************************************************************************)
(* No two devices share a token and no token is one newToken has not yet   *)
(* drawn: Release(token) scans every device, so this is what keeps it from *)
(* dropping another device's lease.                                        *)
(***************************************************************************)
TokensDistinct ==
    /\ \A d \in Devices : leases[d] # NoLease => leases[d].token \in 1 .. issued
    /\ \A d, e \in Devices :
          /\ leases[d] # NoLease
          /\ leases[e] # NoLease
          /\ leases[d].token = leases[e].token
          => d = e

(***************************************************************************)
(* A drawn token that Validate rejects stays rejected for good: an expired *)
(* or released lease is never revived by a renewal, however lazily it is   *)
(* swept.                                                                  *)
(***************************************************************************)
DeadTokenStaysDead ==
    [][\A d \in Devices, tok \in 1 .. issued :
          ~ValidNow(d, tok) => ~ValidNow(d, tok)']_vars

(***************************************************************************)
(* A holder keeps write authority until its lease expires or is released   *)
(* by its own token: no step of another holder takes a running lease over. *)
(***************************************************************************)
NoTakeover ==
    [][\A d \in Devices :
          Active(leases[d], now') /\ leases'[d] # NoLease
          => /\ leases'[d].token = leases[d].token
             /\ leases'[d].holder = leases[d].holder]_vars
=============================================================================

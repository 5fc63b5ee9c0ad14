---------------------------- MODULE AddressZero -----------------------------
(***************************************************************************)
(* addressZeroSelector of mecomserver/router.go: which device a client     *)
(* connection talks to when its frames carry MeCom address 0.              *)
(*                                                                         *)
(* ServeRouter leases an address when it accepts a connection and releases *)
(* it, once, when the connection's goroutine ends.  In route-order mode a  *)
(* remote host that already has a connection shares that one's address;    *)
(* otherwise the next address of the order is taken.  Fixed and disabled   *)
(* modes, and connections whose remote has no key, keep no leases.         *)
(***************************************************************************)
EXTENDS Naturals, Sequences, FiniteSets

CONSTANTS
    Conns,     \* client connections
    Hosts,     \* the remote hosts they come from
    Order,     \* s.order, the configured addresses; <<>> when disabled
    Fixed,     \* s.fixed; 0 unless a default address is configured
    MaxNext,   \* bound on the number of addresses handed out
    NoHost     \* the empty key of a connection without a remote address

ConfiguredAddresses == {Order[i] : i \in DOMAIN Order} \cup {Fixed, 0}

ASSUME ZeroConstants ==
    /\ IsFiniteSet(Conns)
    /\ NoHost \notin Hosts
    /\ Order \in Seq(Nat \ {0})
    /\ Fixed \in Nat
    /\ Fixed = 0 \/ Order = <<>>
    /\ MaxNext \in Nat

VARIABLES
    next,    \* s.next: how many addresses have been handed out
    leased,  \* s.leases: per host the shared address and its references
    conn     \* per connection: open, the host it is from, and its address

zeroVars == <<next, leased, conn>>

NoLease == [address |-> 0, refs |-> 0]
Closed == [open |-> FALSE, from |-> NoHost, address |-> 0]
OpenFor(h, address) == [open |-> TRUE, from |-> h, address |-> address]

ZeroInit ==
    /\ next = 0
    /\ leased = [h \in Hosts |-> NoLease]
    /\ conn = [c \in Conns |-> Closed]

InOrder == Fixed = 0 /\ Order # <<>>
Sticky(h) == InOrder /\ h # NoHost

(* Next: round robin over the order, or the fixed address, or none.        *)
NextAddress == IF InOrder THEN Order[(next % Len(Order)) + 1] ELSE Fixed

(* A connection from h is accepted while h has none, or keeps no lease     *)
(* (fixed and disabled modes, or no key).                                  *)
LeaseNew(c, h) ==
    /\ ~conn[c].open
    /\ Sticky(h) => leased[h].refs = 0
    /\ InOrder => next < MaxNext
    /\ next' = IF InOrder THEN next + 1 ELSE next
    /\ leased' = IF Sticky(h)
                 THEN [leased EXCEPT ![h] = [address |-> NextAddress, refs |-> 1]]
                 ELSE leased
    /\ conn' = [conn EXCEPT ![c] = OpenFor(h, NextAddress)]

\* A mutant for SameHostSameDevice: a shared lease is not counted.
LeaseSharedUncounted(c, h) ==
    /\ ~conn[c].open
    /\ Sticky(h)
    /\ leased[h].refs > 0
    /\ conn' = [conn EXCEPT ![c] = OpenFor(h, leased[h].address)]
    /\ UNCHANGED <<next, leased>>

(* A connection from h is accepted while h has another.                    *)
LeaseShared(c, h) ==
    /\ ~conn[c].open
    /\ Sticky(h)
    /\ leased[h].refs > 0
    /\ leased' = [leased EXCEPT ![h] = [address |-> @.address, refs |-> @.refs + 1]]
    /\ conn' = [conn EXCEPT ![c] = OpenFor(h, leased[h].address)]
    /\ UNCHANGED next

Lease(c) == \E h \in Hosts \cup {NoHost} : LeaseNew(c, h) \/ LeaseShared(c, h)

(* The connection's goroutine ends and calls its release function; the     *)
(* entry is deleted with its last reference.                               *)
Release(c) ==
    LET h == conn[c].from IN
    /\ conn[c].open
    /\ conn' = [conn EXCEPT ![c] = Closed]
    /\ leased' = IF ~Sticky(h) THEN leased
                 ELSE IF leased[h].refs <= 1 THEN [leased EXCEPT ![h] = NoLease]
                 ELSE [leased EXCEPT ![h] = [address |-> @.address, refs |-> @.refs - 1]]
    /\ UNCHANGED next

ZeroNext == \E c \in Conns : Lease(c) \/ Release(c)

ZeroSpec == ZeroInit /\ [][ZeroNext]_zeroVars

-----------------------------------------------------------------------------

(* Every connection and lease refers to a configured address.              *)
ZeroTypeOK ==
    /\ next \in Nat
    /\ leased \in [Hosts -> [address : ConfiguredAddresses, refs : Nat]]
    /\ conn \in [Conns -> [open : BOOLEAN, from : Hosts \cup {NoHost},
                           address : ConfiguredAddresses]]

(***************************************************************************)
(* While a host has several connections open, address 0 means the same     *)
(* device on all of them, whatever order they were opened and closed in.   *)
(***************************************************************************)
SameHostSameDevice ==
    \A c, d \in Conns :
        /\ conn[c].open /\ conn[d].open
        /\ conn[c].from = conn[d].from /\ conn[c].from # NoHost
        => conn[c].address = conn[d].address

=============================================================================

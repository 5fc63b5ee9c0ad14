--------------------------- MODULE RouteContract ----------------------------
(***************************************************************************)
(* What routing promises the code that calls it, for writes: the abstract  *)
(* specification RouteBroker implements and RouterSystem builds on.        *)
(*                                                                         *)
(* A call is answered with the device's reply only after its frame went    *)
(* out, and a frame goes out at most once.  A call that ends in an error   *)
(* may or may not have gone out, and may still go out later: the broker    *)
(* may have taken the request just before its context ended.               *)
(***************************************************************************)
EXTENDS Naturals

CONSTANTS
    Clients,   \* client goroutines
    MaxCalls,  \* bound on the calls of a client
    None

VARIABLES
    call,   \* per client: pc, number of the current call, read, outcome
    outs    \* per client and call: how often the write frame went out

contractVars == <<call, outs>>

Init ==
    /\ call = [c \in Clients |->
                 [pc |-> "idle", n |-> 0, read |-> FALSE, outcome |-> None]]
    /\ outs = [c \in Clients |-> [n \in 1 .. MaxCalls |-> 0]]

Begin(c, read) ==
    /\ call[c].pc = "idle"
    /\ call[c].n < MaxCalls
    /\ call' = [call EXCEPT ![c] = [pc |-> "busy", n |-> @.n + 1,
                                    read |-> read, outcome |-> None]]
    /\ UNCHANGED outs

(* The frame of write call n goes out, now or after the caller gave up.    *)
GoOut(c, n) ==
    /\ n \in 1 .. call[c].n
    /\ outs[c][n] = 0
    /\ n = call[c].n => ~call[c].read /\ call[c].outcome # "reply"
    /\ outs' = [outs EXCEPT ![c] = [@ EXCEPT ![n] = 1]]
    /\ UNCHANGED call

(* The current call of c is over.                                          *)
Ends(c, pc, outcome) ==
    /\ call' = [call EXCEPT ![c] = [pc |-> pc, n |-> @.n, read |-> @.read,
                                    outcome |-> outcome]]
    /\ UNCHANGED outs

Answer(c) ==
    /\ call[c].pc = "busy"
    /\ call[c].read \/ outs[c][call[c].n] = 1
    /\ Ends(c, "idle", "reply")

(* An error; the client is told, or its connection is closed.              *)
Fail(c) ==
    /\ call[c].pc = "busy"
    /\ \E pc \in {"idle", "gone"} : Ends(c, pc, "error")

Leave(c) ==
    /\ call[c].pc \in {"idle", "busy"}
    /\ Ends(c, "gone", None)

Next ==
    \E c \in Clients :
        \/ \E read \in BOOLEAN : Begin(c, read)
        \/ \E n \in 1 .. MaxCalls : GoOut(c, n)
        \/ Answer(c)
        \/ Fail(c)
        \/ Leave(c)

Spec == Init /\ [][Next]_contractVars

=============================================================================

---------------------------- MODULE GatewayWrite ----------------------------
(***************************************************************************)
(* handleWrite of the HTTP gateway, over the shared binding of             *)
(* GatewayBinding: lease check, device-error backoff, reading of the       *)
(* current value, then mecom.Commander's own lease check, write and        *)
(* readback, then the gateway's readback.  Each of these is a call on the  *)
(* bound client that other requests can come in between of.                *)
(*                                                                         *)
(* The client is the ASCII one (mecom/protocol.go): roundTripRaw holds the *)
(* client's mutex for a whole exchange, writes its frame and returns the   *)
(* next frame that comes back, whatever request that answers.  A request   *)
(* that timed out leaves its answer in the stream.                         *)
(*                                                                         *)
(* lease is the token that Registry.Validate accepts for the device, 0     *)
(* when there is none; that there is at most one, and that a dead token    *)
(* stays dead, is WriteLease's.                                            *)
(***************************************************************************)
EXTENDS GatewayBinding, Sequences

CONSTANTS
    Values,     \* values a write may ask for (the parameter is fixed)
    Faults,     \* error numbers the device may report (parameter 105)
    MaxLeases,  \* bound on the leases granted
    MaxLate     \* bound on the answers owed to requests that timed out

ASSUME WriteConstants ==
    /\ Values \subseteq Nat
    /\ Faults \subseteq Nat \ {0}
    /\ MaxLeases \in Nat
    /\ MaxLate \in Nat

VARIABLES
    lease,    \* the device's valid token
    granted,  \* tokens handed out so far
    token,    \* per writer: the token it sends with its request
    want,     \* per writer: the value it asks for
    result,   \* per writer: the status recorded for its last request
    stream,   \* per client: answers owed to requests that timed out
    value,    \* the parameter's value in the device
    fault,    \* the device's error number
    applied,  \* history: writers whose current request the device executed
    overrun,  \* history: those whose lease ended after Commander checked it
    misled,   \* history: those that took the answer to an earlier request
    faulted   \* history: the device has reported an error

history == <<applied, overrun, misled, faulted>>
writeVars == <<lease, granted, token, want, result, stream, value, fault, history>>
gatewayVars == <<bindingVars, writeVars>>

WriteInit ==
    /\ BindingInit
    /\ lease = 0
    /\ granted = 0
    /\ token = [w \in Writers |-> 0]
    /\ value \in Values
    /\ want = [w \in Writers |-> value]
    /\ result = [w \in Writers |-> "none"]
    /\ stream = [c \in 1 .. MaxClients |-> <<>>]
    /\ fault = 0
    /\ applied = {} /\ overrun = {} /\ misled = {}
    /\ faulted = FALSE

-----------------------------------------------------------------------------
(* Leases and the device *)

AcquireLease(w) ==
    /\ req[w].pc = "idle"
    /\ lease = 0
    /\ granted < MaxLeases
    /\ granted' = granted + 1
    /\ lease' = granted + 1
    /\ token' = [token EXCEPT ![w] = granted + 1]
    /\ UNCHANGED <<bindingVars, want, result, stream, value, fault, history>>

(* Between Commander's lease check and the end of the last readback.       *)
InWrite(w) == req[w].pc \in {"write", "readback", "verify"}

(* The lease expires, or its holder releases it, also under a write.       *)
LeaseEnds ==
    /\ lease # 0
    /\ lease' = 0
    /\ overrun' = overrun \cup {w \in Writers : InWrite(w) /\ token[w] = lease}
    /\ UNCHANGED <<bindingVars, granted, token, want, result, stream, value, fault,
                   applied, misled, faulted>>

DeviceFaults ==
    /\ fault = 0
    /\ fault' \in Faults
    /\ faulted' = TRUE
    /\ UNCHANGED <<bindingVars, lease, granted, token, want, result, stream, value,
                   applied, overrun, misled>>

-----------------------------------------------------------------------------
(* One exchange of the ASCII client                                        *)

Reading(v) == [kind |-> "value", v |-> v]
Ack == [kind |-> "ack", v |-> 0]
Nack == [kind |-> "nack", v |-> 0]
NoReply(e) == [kind |-> e, v |-> 0]

(* What a call of w may return, and what it leaves in the stream, when the *)
(* device's answer to it is r: the first answer owed, or no answer in time *)
(* and r still to come or lost.                                            *)
Exchanges(w, r) ==
    LET s == stream[req[w].snap]
        owed == Append(s, r)
    IN  IF req[w].snap \in closed
        THEN {[got |-> NoReply("closed"), rest |-> s]}
        ELSE {[got |-> Head(owed), rest |-> Tail(owed)],
              [got |-> NoReply("ErrTimeout"), rest |-> s]}
             \cup (IF Len(s) < MaxLate
                   THEN {[got |-> NoReply("ErrTimeout"), rest |-> owed]} ELSE {})

Took(w, x) ==
    LET c == req[w].snap IN
    /\ stream' = IF c \in closed THEN stream ELSE [stream EXCEPT ![c] = x.rest]
    /\ misled' = IF c \notin closed /\ stream[c] # <<>> /\ x.got = Head(stream[c])
                 THEN misled \cup {w} ELSE misled

(* The error a reply turns into: NACKs and replies of the wrong shape are  *)
(* errors of their own.                                                    *)
ErrorOf(got) == IF got.kind \in {"closed", "ErrTimeout"} THEN got.kind ELSE "nack"

-----------------------------------------------------------------------------
(* handleWrite *)

Goto(w, pc) ==
    /\ req' = [req EXCEPT ![w] = [@ EXCEPT !.pc = pc]]
    /\ UNCHANGED <<client, opened, closed, proxy, listening, ring, lastErr, mu, tool, failedOn>>

Respond(w, status) ==
    /\ req' = [req EXCEPT ![w] = Idle]
    /\ result' = [result EXCEPT ![w] = status]
    /\ UNCHANGED <<client, opened, closed, proxy, listening, ring, lastErr, mu, tool, failedOn>>

RespondError(w, status, e) ==
    /\ Failed(w, e)
    /\ result' = [result EXCEPT ![w] = status]
    /\ UNCHANGED <<client, opened, closed, proxy, listening, ring, lastErr, mu, tool>>

StartWrite(w) ==
    /\ Request(w)
    /\ \E v \in Values : want' = [want EXCEPT ![w] = v]
    /\ result' = [result EXCEPT ![w] = "none"]
    /\ applied' = applied \ {w}
    /\ overrun' = overrun \ {w}
    /\ misled' = misled \ {w}
    /\ UNCHANGED <<lease, granted, token, stream, value, fault, faulted>>

BindForWrite(w) ==
    \/ (BindBound(w) \/ BindOpens(w)) /\ UNCHANGED writeVars
    \/ /\ BindFails(w)
       /\ result' = [result EXCEPT ![w] = "failed"]
       /\ UNCHANGED <<lease, granted, token, want, stream, value, fault, history>>

Valid(w) == token[w] # 0 /\ token[w] = lease

Authorize(w) ==
    /\ req[w].pc = "authorize"
    /\ IF Valid(w) THEN Goto(w, "backoff") /\ UNCHANGED result
       ELSE Respond(w, "locked")
    /\ UNCHANGED <<lease, granted, token, want, stream, value, fault, history>>

(* gatewayWriteDeviceErrorBackoff: a failed reading of the error number is *)
(* ignored.                                                                *)
Backoff(w) ==
    /\ req[w].pc = "backoff"
    /\ \E x \in Exchanges(w, Reading(fault)) :
          /\ Took(w, x)
          /\ IF x.got.kind = "value" /\ x.got.v # 0 THEN Respond(w, "blocked")
             ELSE Goto(w, "preread") /\ UNCHANGED result
    /\ UNCHANGED <<lease, granted, token, want, value, fault, applied, overrun, faulted>>

(* The current value is read for the record; a failure is ignored.         *)
PreRead(w) ==
    /\ req[w].pc = "preread"
    /\ \E x \in Exchanges(w, Reading(value)) : Took(w, x)
    /\ Goto(w, "recheck")
    /\ UNCHANGED <<lease, granted, token, want, result, value, fault, applied, overrun,
                   faulted>>

\* A mutant for WritesAreSerialized: the lease is not checked again before
\* the write.
RecheckForgotten(w) ==
    /\ req[w].pc = "recheck"
    /\ Goto(w, "write")
    /\ UNCHANGED writeVars

(* Commander.authorize *)
Recheck(w) ==
    /\ req[w].pc = "recheck"
    /\ IF Valid(w) THEN Goto(w, "write") /\ UNCHANGED result
       ELSE RespondError(w, "locked", "lease")
    /\ UNCHANGED <<lease, granted, token, want, stream, value, fault, history>>

\* A mutant for ReportsAreTrue: the write's own reply is not looked at.
WriteTakesAnyReply(w) ==
    /\ req[w].pc = "write"
    /\ \E accepts \in BOOLEAN :
          /\ value' = IF accepts THEN want[w] ELSE value
          /\ applied' = IF accepts THEN applied \cup {w} ELSE applied
    /\ Goto(w, "readback")
    /\ UNCHANGED <<lease, granted, token, want, result, stream, fault, overrun, misled, faulted>>

(* The frame goes out: the device executes it or refuses it, unless the    *)
(* client has been closed.  ParseWriteResponse takes any well-formed reply *)
(* that is not a NACK for the acknowledgement.                             *)
Write(w) ==
    /\ req[w].pc = "write"
    /\ \E accepts \in IF req[w].snap \in closed THEN {FALSE} ELSE BOOLEAN :
          /\ value' = IF accepts THEN want[w] ELSE value
          /\ applied' = IF accepts THEN applied \cup {w} ELSE applied
          /\ \E x \in Exchanges(w, IF accepts THEN Ack ELSE Nack) :
                /\ Took(w, x)
                /\ IF x.got.kind \in {"value", "ack"}
                   THEN Goto(w, "readback") /\ UNCHANGED result
                   ELSE RespondError(w, "failed", ErrorOf(x.got))
    /\ UNCHANGED <<lease, granted, token, want, fault, overrun, faulted>>

(* Commander's readback: a reading that differs fails the command, a       *)
(* failure to read is ignored.                                             *)
Readback(w) ==
    /\ req[w].pc = "readback"
    /\ \E x \in Exchanges(w, Reading(value)) :
          /\ Took(w, x)
          /\ IF x.got.kind = "value" /\ x.got.v # want[w]
             THEN RespondError(w, "readback_mismatch", "mismatch")
             ELSE Goto(w, "verify") /\ UNCHANGED result
    /\ UNCHANGED <<lease, granted, token, want, value, fault, applied, overrun, faulted>>

(* verifyGatewayWrite *)
Verify(w) ==
    /\ req[w].pc = "verify"
    /\ \E x \in Exchanges(w, Reading(value)) :
          /\ Took(w, x)
          /\ IF x.got.kind # "value"
             THEN RespondError(w, "verify_failed", ErrorOf(x.got))
             ELSE Respond(w, IF x.got.v = want[w] THEN "completed"
                             ELSE "readback_mismatch")
    /\ UNCHANGED <<lease, granted, token, want, value, fault, applied, overrun, faulted>>

-----------------------------------------------------------------------------

WriteStep(w) ==
    \/ Authorize(w)
    \/ Backoff(w)
    \/ PreRead(w)
    \/ Recheck(w)
    \/ Write(w)
    \/ Readback(w)
    \/ Verify(w)

WriteNext ==
    \/ \E w \in Writers : \/ AcquireLease(w)
                          \/ StartWrite(w)
                          \/ BindForWrite(w)
                          \/ WriteStep(w)
                          \/ Reset(w) /\ UNCHANGED writeVars
    \/ LeaseEnds
    \/ DeviceFaults

WriteSpec == WriteInit /\ [][WriteNext]_gatewayVars

-----------------------------------------------------------------------------

(***************************************************************************)
(* What handleWrite reports of a write is true: a completed one was        *)
(* executed by the device (200 only after Commander's write, its readback  *)
(* and verifyGatewayWrite), and a blocked one met an error of the device   *)
(* ("device %s reports error %d; backing off", handlers.go:935).  Excepted *)
(* are requests that were given the late answer to an earlier one.         *)
(***************************************************************************)
ReportsAreTrue ==
    \A w \in Writers \ misled :
        /\ result[w] = "completed" => w \in applied
        /\ result[w] = "blocked" => faulted

(***************************************************************************)
(* "The lease model serializes writes to one operator at a time per        *)
(* device" (README.md:98, handleWrite): of the requests between            *)
(* Commander's lease check and the end of the readback, those whose lease  *)
(* has not ended since the check all have the same token.                  *)
(***************************************************************************)
WritesAreSerialized ==
    \A v, w \in Writers \ overrun :
        InWrite(v) /\ InWrite(w) => token[v] = token[w]
=============================================================================

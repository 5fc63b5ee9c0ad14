-------------------------- MODULE MCGatewayBinding --------------------------
(* Two one-shot handlers, a stream and two tools on the proxy, with a     *)
(* timeout, a NACK and a benign refusal as the errors of a call.            *)
EXTENDS GatewayBinding

CONSTANTS r1, r2, s1, t1, t2

MCReaders == {r1, r2}
MCOneReader == {r1}
MCStreams == {s1}
MCTools == {t1, t2}
MCOneTool == {t1}
MCNone == {}
MCErrors == {"ErrTimeout", "nack", "ErrUnknownParameter"}
MCTimeouts == {"ErrTimeout", "ErrUnknownParameter"}
=============================================================================

--------------------------- MODULE MCGraphHistory ---------------------------
(* Two recorders, a series of a configured device and one of another;      *)
(* imports of samples from the future and the past, with an identity that  *)
(* conflicts, with unreadable rows and of the other device.                *)
EXTENDS GraphHistory

CONSTANTS g1, g2

MCSeries == {<<1, 1, 1>>, <<2, 1, 1>>}
MCOneSeries == {<<1, 1, 1>>}
MCBodies == {<<[top |-> <<1, 1, 1>>, source |-> <<0, 0, 0>>, at |-> <<6, Bad, 0>>]>>,
             <<[top |-> <<1, 0, 1>>, source |-> <<1, 1, 0>>, at |-> <<2>>],
               [top |-> <<1, 1, 1>>, source |-> <<2, 1, 1>>, at |-> <<3>>]>>}
MCRows == {<<[s |-> <<1, 1, 0>>, at |-> 1], Bad>>,
           <<[s |-> <<2, 1, 1>>, at |-> 2], [s |-> <<1, 0, 1>>, at |-> 3]>>}
MCLongRange == {<<0, 3>>}
MCShortRange == {<<1, 3>>}
MCEmpty == {}
=============================================================================

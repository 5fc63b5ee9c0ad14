--------------------------- MODULE MCDeviceBridge ---------------------------
(* One parameter of each kind and type for the operators; the frames of a  *)
(* behaviour are about three of them: a mapped and writable integer, a     *)
(* loose one, and the virtual one.                                         *)
EXTENDS DeviceBridge

MCBridgeParams == {"virtual", "looseInt", "looseLatin", "constant", "version", "flags",
                   "mode", "target", "name", "pdo", "absent", "unsafe", "tenth"}
MCType == [p \in MCBridgeParams |->
    CASE p \in {"virtual", "version", "target"} -> "float"
      [] p \in {"looseInt", "constant", "flags", "mode", "tenth"} -> "int"
      [] p \in {"looseLatin", "name"} -> "latin"
      [] p = "pdo" -> "byte"
      [] OTHER -> "unsupported"]
MCKind == [p \in MCBridgeParams |->
    CASE p = "virtual" -> "virtual"
      [] p \in {"looseInt", "looseLatin", "tenth"} -> "loose"
      [] p = "constant" -> "constant"
      [] p = "version" -> "synthesized"
      [] p = "flags" -> "masked"
      [] p = "target" -> "live"
      [] p \in {"mode", "name"} -> "mapped"
      [] p = "pdo" -> "bytes"
      [] p = "absent" -> "none"
      [] OTHER -> "unsafe"]
MCSource == [p \in MCBridgeParams |-> IF p = "version" THEN "flags" ELSE p]
MCDefault == [p \in MCBridgeParams |-> IF p = "virtual" THEN NaN ELSE 0]
Fr(cmd, ps, v) == [cmd |-> cmd, ps |-> ps, v |-> v]
MCBridgeRequests == {Fr("VX", <<"mode", "looseInt">>, 0), Fr("VM", <<"virtual">>, 0),
                     Fr("VS", <<"mode">>, 3), Fr("VS", <<"virtual">>, 3), Fr("VS", <<"virtual">>, NaN)}
MCBounds == [bridge |-> [frames |-> 2, moves |-> 1, crashes |-> 1, errors |-> 1],
             serial |-> [frames |-> 2, moves |-> 0, crashes |-> 1, errors |-> 1],
             can |-> [frames |-> 2, moves |-> 0, crashes |-> 0, errors |-> 0]]
=============================================================================

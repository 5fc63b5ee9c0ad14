---------------------------- MODULE CanRegistry -----------------------------
(***************************************************************************)
(* The CAN signal registry (canmap/registry.go, pattern.go, diff.go):      *)
(* which registries are valid, how a pattern is taken from one and bound   *)
(* again, and how a registry is compared with what was read from nodes.    *)
(* Operators only.                                                         *)
(*                                                                         *)
(*   registry  [schema, name, nodes, signals]                              *)
(*   node      [role, id, label], id 0 where it is not bound               *)
(*   signal    [cob, name, prod, cons, verified]                           *)
(*   prod      [role, pdo, map]; cons, a sequence of those with a field    *)
(*             `selects', a sequence of [key, value]                       *)
(*   map       a sequence of [obj, bits]                                   *)
(***************************************************************************)
EXTENDS Integers, Sequences, SequencesExt, FiniteSets

SchemaVersion == 1
MaxNodeID == 127
PayloadBits == 64

RolesOf(r) == {r.nodes[i].role : i \in DOMAIN r.nodes}

NodesAreValid(r) ==
    /\ "" \notin RolesOf(r)
    /\ \A i \in DOMAIN r.nodes : r.nodes[i].id <= MaxNodeID
    /\ \A i, j \in DOMAIN r.nodes : i # j =>
          /\ r.nodes[i].role # r.nodes[j].role
          /\ r.nodes[i].id # 0 => r.nodes[i].id # r.nodes[j].id

\* mappingBits
MappingIsValid(m) ==
    /\ m # <<>> /\ \A i \in DOMAIN m : m[i].bits # 0
    /\ FoldLeft(LAMBDA t, e : t + e.bits, 0, m) <= PayloadBits

SlotLengthsMatch(a, b) == Len(a) = Len(b) /\ \A i \in DOMAIN a : a[i].bits = b[i].bits

SignalIsValid(r, s) ==
    /\ s.name # ""
    /\ s.prod.role \in RolesOf(r) /\ s.prod.pdo >= 1 /\ MappingIsValid(s.prod.map)
    /\ \A j \in DOMAIN s.cons :
          LET c == s.cons[j]
          IN  /\ c.role \in RolesOf(r) /\ c.pdo >= 1
              /\ MappingIsValid(c.map) /\ SlotLengthsMatch(s.prod.map, c.map)

Validate(r) ==
    /\ NodesAreValid(r)
    /\ \A i \in DOMAIN r.signals : SignalIsValid(r, r.signals[i])
    /\ \A i, j \in DOMAIN r.signals : i # j =>
          /\ r.signals[i].name # r.signals[j].name
          /\ r.signals[i].cob # r.signals[j].cob

\* ParseRegistry, for a text that is a registry
Parses(r) == r.schema = SchemaVersion /\ Validate(r)

IsPattern(r) == r.nodes # <<>> /\ \A i \in DOMAIN r.nodes : r.nodes[i].id = 0

-----------------------------------------------------------------------------
(* Patterns.                                                               *)

ExportPattern(r) ==
    [r EXCEPT !.nodes = [i \in DOMAIN @ |-> [@[i] EXCEPT !.id = 0, !.label = ""]],
              !.signals = [i \in DOMAIN @ |-> [@[i] EXCEPT !.verified = FALSE]]]

Refusal == [refused |-> TRUE]

\* bindings: a sequence of [role, id, label]
Instantiate(pattern, name, bindings) ==
    LET Of(role) == CHOOSE b \in ToSet(bindings) : b.role = role
        out == [pattern EXCEPT
                  !.name = IF name # "" THEN name ELSE @,
                  !.nodes = [i \in DOMAIN @ |-> Of(@[i].role)]]
    IN  IF /\ \A i \in DOMAIN bindings : bindings[i].id \in 1 .. MaxNodeID
           /\ \A i, j \in DOMAIN bindings : i # j => /\ bindings[i].role # bindings[j].role
                                                    /\ bindings[i].id # bindings[j].id
           /\ RolesOf(pattern) = {b.role : b \in ToSet(bindings)}
           /\ Len(pattern.nodes) = Len(bindings)
           /\ Validate(out)
        THEN out ELSE Refusal

-----------------------------------------------------------------------------
(* Diff.  observed: a function from the identifiers of the nodes that were *)
(* read to what was read: [rpdo, tpdo, selects], the first two sequences   *)
(* of [number, cob, enabled, tt, map], the last a function of keys.        *)

Finding(role, aspect, verdict) == [role |-> role, aspect |-> aspect, verdict |-> verdict]

NodeIDOf(r, role) ==
    LET at == {i \in DOMAIN r.nodes : r.nodes[i].role = role}
    IN  IF at = {} THEN 0 ELSE r.nodes[CHOOSE i \in at : \A j \in at : i <= j].id

DiffPDO(role, kind, pdo, cob, map) ==
    LET drifts == (IF pdo.enabled THEN {} ELSE {Finding(role, <<kind, "enabled">>, "drift")})
                  \cup (IF pdo.cob = cob THEN {} ELSE {Finding(role, <<kind, "cob">>, "drift")})
                  \cup (IF pdo.map = map THEN {} ELSE {Finding(role, <<kind, "mapping">>, "drift")})
    IN  IF drifts = {} THEN {Finding(role, <<kind>>, "match")} ELSE drifts

\* One side of a signal; kind is "tpdo" for its producer, else "rpdo"
DiffSide(r, s, side, kind, observed) ==
    LET id == NodeIDOf(r, side.role)
        read == {p \in ToSet(observed[id][kind]) : p.number = side.pdo}
    IN  IF id = 0 \/ id \notin DOMAIN observed
        THEN {Finding(side.role, <<kind>>, "unknown")}
        ELSE IF read = {} THEN {Finding(side.role, <<kind, "not present">>, "drift")}
        ELSE UNION {DiffPDO(side.role, kind, p, s.cob, side.map) : p \in read}

DiffSelects(r, c, observed) ==
    LET id == NodeIDOf(r, c.role)
    IN  IF id = 0 \/ id \notin DOMAIN observed THEN {}
        ELSE {Finding(c.role, <<"select", w.key>>,
                      IF w.key \notin DOMAIN observed[id].selects THEN "unknown"
                      ELSE IF observed[id].selects[w.key] # w.value THEN "drift"
                      ELSE "match") : w \in ToSet(c.selects)}

Findings(r, s, observed) ==
    DiffSide(r, s, s.prod, "tpdo", observed)
    \cup UNION {DiffSide(r, s, s.cons[j], "rpdo", observed)
                \cup DiffSelects(r, s.cons[j], observed) : j \in DOMAIN s.cons}

\* The verdict of a signal: drift before unknown before match
Verdict(findings) ==
    LET all == {f.verdict : f \in findings}
    IN  IF "drift" \in all THEN "drift" ELSE IF "unknown" \in all THEN "unknown" ELSE "match"
=============================================================================

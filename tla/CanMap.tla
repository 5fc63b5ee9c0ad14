------------------------------- MODULE CanMap -------------------------------
(***************************************************************************)
(* The CAN signal registry of the gateway (cmd/mecomgw/canmap.go): it is   *)
(* replaced and saved by imports, loaded at the start, and compared with   *)
(* what is read back from the nodes (canmap/observe.go).  One node is      *)
(* connected, NodeID; another that a registry names is not.                *)
(*                                                                         *)
(* Every SDO read of the scan is a step of its own, and somebody else may  *)
(* change the node between two.  A read is tried four times; what counts   *)
(* is whether all four fail.                                               *)
(***************************************************************************)
EXTENDS CanRegistry

CONSTANTS
    NodeID,
    StartDevice, \* [rpdo, tpdo, select]: sequences of [cob, enabled, map], a value
    OtherPDO,    \* a record somebody else may give a PDO
    SelectKey,   \* the object that selects a source
    StartReg,    \* registries the file may have at first, NoReg for none
    Requests,    \* imports: [registry, pattern, name, bindings], NoReg for absent
    MaxScan,     \* maxScanPDOs
    MaxMapped,   \* the entries of a mapping that are read, 8
    MaxLost, MaxImports, MaxCrashes, MaxScans   \* bounds

NoReg == [schema |-> 0, name |-> "", nodes |-> <<>>, signals |-> <<>>]

VARIABLES
    device,     \* the node's PDO records and selector
    up,         \* the gateway runs
    reg,        \* canmapState.registry
    saving,     \* the registry an import is writing, under the mutex
    stored,       \* the file: whole or torn, and its registry
    torn,       \* the last write of the file failed or was cut (history)
    live,       \* the handler of a live read-back
    moved,      \* the node was changed since that began (history)
    used        \* counters of the bounds

regVars == <<up, reg, saving, stored, torn>>
mapVars == <<device, regVars, live, moved, used>>

NotReading == [at |-> "idle", reg |-> NoReg, dir |-> "rpdo", i |-> 1, pdo |-> <<>>, n |-> 0,
               rpdo |-> <<>>, tpdo |-> <<>>, selects |-> <<>>, errs |-> {}, seen |-> FALSE]

MapInit ==
    /\ device = StartDevice
    /\ up = TRUE /\ saving = NoReg /\ torn = FALSE
    /\ reg \in StartReg /\ stored = [whole |-> TRUE, reg |-> reg]
    /\ live = NotReading /\ moved = FALSE
    /\ used = [lost |-> 0, imports |-> 0, crashes |-> 0, scans |-> 0]

\* external: another tool gives a PDO of the node a new record.
OthersWrite ==
    /\ ~moved /\ live.at \notin {"idle", "done"}
    /\ \E d \in {"rpdo", "tpdo"} : \E i \in DOMAIN device[d] :
          device' = [device EXCEPT ![d][i] = OtherPDO]
    /\ moved' = TRUE
    /\ UNCHANGED <<regVars, live, used>>

-----------------------------------------------------------------------------
(* The registry of the gateway.                                            *)

\* A mutant for PublishedIsSaved: a pattern's schema is not looked at.
AcceptedUnversioned(q) ==
    IF (q.registry # NoReg) = (q.pattern # NoReg) THEN Refusal
    ELSE IF q.registry # NoReg
    THEN IF IsPattern(q.registry) \/ ~Parses(q.registry) THEN Refusal ELSE q.registry
    ELSE Instantiate(q.pattern, q.name, q.bindings)

\* handleCanmapImport up to replace: what is refused changes nothing
Accepted(q) ==
    IF (q.registry # NoReg) = (q.pattern # NoReg) THEN Refusal
    ELSE IF q.registry # NoReg
    THEN IF IsPattern(q.registry) \/ ~Parses(q.registry) THEN Refusal ELSE q.registry
    ELSE LET made == Instantiate(q.pattern, q.name, q.bindings)
         IN  IF made = Refusal \/ made.schema # SchemaVersion THEN Refusal ELSE made

\* replace takes the mutex and publishes the registry; nobody can read it
\* before the mutex is given back.
Import(q) ==
    /\ up /\ saving = NoReg /\ used.imports < MaxImports
    /\ Accepted(q) # Refusal
    /\ saving' = Accepted(q) /\ used' = [used EXCEPT !.imports = @ + 1]
    /\ stored' = [whole |-> FALSE, reg |-> NoReg]
    /\ UNCHANGED <<device, up, reg, torn, live, moved>>

\* os.WriteFile wrote the file, which it had truncated, or failed
Saved ==
    /\ saving # NoReg /\ saving' = NoReg
    /\ \/ reg' = saving /\ stored' = [whole |-> TRUE, reg |-> saving] /\ torn' = FALSE
       \/ reg' = reg /\ stored' = stored /\ torn' = TRUE
    /\ UNCHANGED <<device, up, live, moved, used>>

GatewayCrash ==
    /\ up /\ used.crashes < MaxCrashes /\ used' = [used EXCEPT !.crashes = @ + 1]
    /\ up' = FALSE /\ reg' = NoReg /\ saving' = NoReg /\ live' = NotReading /\ moved' = FALSE
    /\ torn' = (torn \/ saving # NoReg)
    /\ UNCHANGED <<device, stored>>

\* loadCanmap: a file that cannot be parsed ends the program
GatewayStart ==
    /\ ~up /\ stored.whole /\ (stored.reg = NoReg \/ Parses(stored.reg))
    /\ up' = TRUE /\ reg' = stored.reg
    /\ UNCHANGED <<device, saving, stored, torn, live, moved, used>>

-----------------------------------------------------------------------------
(* GET /api/canmap?live=1.                                                 *)

\* The registry is read under the mutex and kept; only NodeID is connected,
\* and bind may fail.
LiveBegins ==
    /\ up /\ live.at = "idle" /\ saving = NoReg /\ reg # NoReg /\ ~IsPattern(reg)
    /\ used.scans < MaxScans /\ used' = [used EXCEPT !.scans = @ + 1]
    /\ \/ /\ \E i \in DOMAIN reg.nodes : reg.nodes[i].id = NodeID
          /\ live' = [NotReading EXCEPT !.at = "comm", !.reg = reg, !.seen = TRUE]
       \/ live' = [NotReading EXCEPT !.at = "done", !.reg = reg]
    /\ moved' = FALSE
    /\ UNCHANGED <<device, regVars>>

\* The scan goes on with the next PDO, direction, or the source selects.
NextPDO(l) ==
    IF l.i < MaxScan THEN [l EXCEPT !.at = "comm", !.i = @ + 1]
    ELSE IF l.dir = "rpdo" THEN [l EXCEPT !.at = "comm", !.dir = "tpdo", !.i = 1]
    ELSE [l EXCEPT !.at = "select"]
EndOfList(l) ==
    IF l.dir = "rpdo" THEN [l EXCEPT !.at = "comm", !.dir = "tpdo", !.i = 1]
                      ELSE [l EXCEPT !.at = "select"]
Observed(l) == NextPDO([l EXCEPT ![l.dir] = Append(@, l.pdo)])
Failure(l, what) == [l EXCEPT !.errs = @ \cup {<<l.dir, l.i, what>>}]

Loses == used.lost < MaxLost /\ used' = [used EXCEPT !.lost = @ + 1]

\* A mutant for ScanReportsTheDevice: the scan ends at a record that could
\* not be read.
ReadCommStops ==
    LET here == live.i <= Len(device[live.dir])
        rec == device[live.dir][live.i]
    IN  /\ live.at = "comm"
        /\ \/ /\ ~here /\ live' = EndOfList(live) /\ used' = used
           \/ /\ here /\ used' = used
              /\ live' = [live EXCEPT !.at = "count", !.pdo =
                           [number |-> live.i, cob |-> rec.cob, enabled |-> rec.enabled,
                            map |-> <<>>]]
           \/ /\ Loses /\ live' = EndOfList(Failure(live, "comm"))
        /\ UNCHANGED <<device, regVars, moved>>

\* The communication record: an absent one is the end of the list, one that
\* cannot be read is passed over.
ReadComm ==
    LET here == live.i <= Len(device[live.dir])
        rec == device[live.dir][live.i]
    IN  /\ live.at = "comm"
        /\ \/ /\ ~here /\ live' = EndOfList(live) /\ used' = used
           \/ /\ here /\ used' = used
              /\ live' = [live EXCEPT !.at = "count", !.pdo =
                           [number |-> live.i, cob |-> rec.cob, enabled |-> rec.enabled,
                            map |-> <<>>]]
           \/ /\ Loses /\ live' = NextPDO(Failure(live, "comm"))
        /\ UNCHANGED <<device, regVars, moved>>

ReadCount ==
    LET n == Len(device[live.dir][live.i].map)
    IN  /\ live.at = "count"
        /\ \/ /\ used' = used
              /\ live' = IF n = 0 THEN Observed(live)
                         ELSE [live EXCEPT !.at = "entry",
                                           !.n = IF n > MaxMapped THEN MaxMapped ELSE n]
           \/ Loses /\ live' = Observed(Failure(live, "count"))
        /\ UNCHANGED <<device, regVars, moved>>

ReadEntry ==
    LET k == Len(live.pdo.map) + 1
        map == device[live.dir][live.i].map
        more == [live EXCEPT !.pdo.map = Append(@, map[k])]
    IN  /\ live.at = "entry"
        /\ \/ /\ used' = used
              /\ live' = IF k > Len(map) THEN Observed(live)
                         ELSE IF k = live.n THEN Observed(more) ELSE more
           \/ Loses /\ live' = Observed(Failure(live, "entry"))
        /\ UNCHANGED <<device, regVars, moved>>

\* The selectors that the registry wants of this node: SelectKey or none
Wants(r) == \E i \in DOMAIN r.signals : \E j \in DOMAIN r.signals[i].cons :
               /\ NodeIDOf(r, r.signals[i].cons[j].role) = NodeID
               /\ r.signals[i].cons[j].selects # <<>>
ReadSelect ==
    /\ live.at = "select"
    /\ \/ /\ used' = used
          /\ live' = [live EXCEPT !.at = "done", !.selects =
                        [k \in IF Wants(live.reg) THEN {SelectKey} ELSE {} |-> device.select]]
       \/ Wants(live.reg) /\ Loses /\ live' = [Failure(live, "select") EXCEPT !.at = "done"]
    /\ UNCHANGED <<device, regVars, moved>>

\* The request is cancelled: the scan ends with what it has.
LiveCancelled ==
    /\ live.at \in {"comm", "count", "entry", "select"}
    /\ live' = [Failure(live, "cancelled") EXCEPT !.at = "done",
                  ![live.dir] = IF live.at \in {"count", "entry"} THEN Append(@, live.pdo) ELSE @]
    /\ UNCHANGED <<device, regVars, moved, used>>

\* What Diff is given, and the answer
ObservedNodes ==
    [id \in IF live.seen THEN {NodeID} ELSE {} |->
        [rpdo |-> live.rpdo, tpdo |-> live.tpdo, selects |-> live.selects]]
Report == [i \in DOMAIN live.reg.signals |-> Findings(live.reg, live.reg.signals[i], ObservedNodes)]

LiveEnds ==
    /\ live.at = "done" /\ live' = NotReading /\ moved' = FALSE
    /\ UNCHANGED <<device, regVars, used>>

MapNext ==
    \/ OthersWrite
    \/ \E q \in Requests : Import(q)
    \/ Saved \/ GatewayCrash \/ GatewayStart
    \/ LiveBegins \/ ReadComm \/ ReadCount \/ ReadEntry \/ ReadSelect \/ LiveCancelled \/ LiveEnds

MapSpec == MapInit /\ [][MapNext]_mapVars

-----------------------------------------------------------------------------
(* Properties.                                                             *)

Missed(d, i) == \E what \in {"comm", "count", "entry"} : <<d, i, what>> \in live.errs
Cancelled == \E e \in live.errs : e[3] = "cancelled"
\* A side of a signal is as the node has it, said without the scan
Conforms(s, kind, side) ==
    /\ side.pdo \in DOMAIN device[kind]
    /\ device[kind][side.pdo] = [cob |-> s.cob, enabled |-> TRUE, map |-> side.map]

(* ObserveNode, Diff: while nobody changes the node, a read that is lost   *)
(* hides nothing but its own PDO: every other one is reported as it is.    *)
(* When nothing was lost, a side of a signal is called a drift exactly if  *)
(* the node differs from the registry, and a signal whose nodes were all   *)
(* read is never called unknown.                                           *)
ScanReportsTheDevice ==
    live.at = "done" /\ live.seen /\ ~moved /\ ~Cancelled =>
       /\ \A d \in {"rpdo", "tpdo"} : \A i \in DOMAIN device[d] :
             i <= MaxScan /\ ~Missed(d, i) =>
                \E k \in DOMAIN live[d] :
                   live[d][k] = [number |-> i, cob |-> device[d][i].cob,
                                 enabled |-> device[d][i].enabled, map |-> device[d][i].map]
       /\ live.errs = {} =>
             \A k \in DOMAIN live.reg.signals :
                LET s == live.reg.signals[k]
                    cons == ToSet(s.cons)
                    Here(side) == NodeIDOf(live.reg, side.role) = NodeID
                IN  /\ (Verdict(Report[k]) = "drift") =
                          ~(/\ Here(s.prod) => Conforms(s, "tpdo", s.prod)
                            /\ \A c \in cons : Here(c) =>
                                 /\ Conforms(s, "rpdo", c)
                                 /\ \A w \in ToSet(c.selects) : device.select = w.value)
                    /\ (Verdict(Report[k]) = "unknown") =>
                          ~Here(s.prod) \/ \E c \in cons : ~Here(c)

(* canmapState.replace, handleCanmapImport, loadCanmap: as long as no      *)
(* write of the file failed or was cut, the registry that is served is     *)
(* the one the file has, and the next start takes it; what is served was   *)
(* valid, and can be exported as a pattern and bound again to the same     *)
(* nodes without losing any of its wiring.                                 *)
PublishedIsSaved ==
    /\ ~torn /\ saving = NoReg =>
          /\ stored.whole /\ (stored.reg = NoReg \/ Parses(stored.reg))
          /\ up => stored.reg = reg
    /\ reg # NoReg /\ (\A i \in DOMAIN reg.nodes : reg.nodes[i].id # 0) =>
          Instantiate(ExportPattern(reg), reg.name, reg.nodes)
             = [reg EXCEPT !.signals = ExportPattern(reg).signals]
=============================================================================

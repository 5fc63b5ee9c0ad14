------------------------------- MODULE MCCan --------------------------------
(* What the repository does with CAN, and with the files of it; the parts  *)
(* do not meet, and a behaviour is one of either.                          *)
(*                                                                         *)
(* ring, merge (canring/ring.go).  Rings of two or three chunks of at most *)
(* two records, small enough to wrap and to be lapped while a snapshot is  *)
(* taken: one with a reader, errors and a crash, one with power failures,  *)
(* one whose size changes.  For the merge, all pairs of sequences of up to *)
(* two records, with ties and mirrors in every position, cut to one, two,  *)
(* three or not at all.                                                    *)
(*                                                                         *)
(* sdo.  Two callers share a client; one object is a word, one is shorter  *)
(* and cannot be written, one has no mapping; a turn of the sequence       *)
(* numbers is two, and three requests are made.                            *)
(*                                                                         *)
(* plan, map.  A node with a receive PDO and two transmit PDOs; runs that  *)
(* change one of them, disable one, or are refused; a registry with two    *)
(* signals between the node and one that is not there, and imports of it   *)
(* that are accepted and refused.                                          *)
EXTENDS CanRing, MergeRecords, SdoClient, PdoPlan, CanMap

VARIABLE part   \* which of them this behaviour is of

MCSettings == {
    [sizes |-> {3}, sync |-> FALSE, limits |-> {0, 3}, records |-> 7,
     errors |-> 1, crashes |-> 1, losses |-> 0, eras |-> 1],
    [sizes |-> {3}, sync |-> TRUE, limits |-> {}, records |-> 8,
     errors |-> 0, crashes |-> 0, losses |-> 2, eras |-> 1],
    [sizes |-> {2, 3}, sync |-> FALSE, limits |-> {}, records |-> 5,
     errors |-> 1, crashes |-> 2, losses |-> 0, eras |-> 3]}

MCObjects == {"value", "byte", "loose"}
MCNodeHas == [o \in MCObjects |-> IF o = "byte" THEN "short" ELSE "word"]
K(op, objs) == [op |-> op, objs |-> objs]
MCCalls == {K("read", <<"value">>), K("write", <<"value">>), K("write", <<"byte">>),
            K("bulk", <<"loose", "value">>), K("raw", <<"byte">>)}

E(obj, bits) == [obj |-> obj, sub |-> 1, bits |-> bits]
x == E("x", 32)
y == E("y", 32)
z == E("z", 32)
Rec(cob, map) == [cob |-> cob, valid |-> map # <<>>, count |-> Len(map),
                  slots |-> [k \in 1 .. 2 |-> IF k <= Len(map) THEN map[k] ELSE x]]
MCEntries == {x, y, z, E("x", 64), [x EXCEPT !.sub = 0]}
MCStartNode == [rpdo |-> <<Rec(11, <<x>>)>>,
                tpdo |-> <<Rec(12, <<y>>), Rec(13, <<y, z>>)>>]
In(dir, pdo, cob, map) == [dir |-> dir, pdo |-> pdo, cob |-> cob, timer |-> dir = "tpdo",
                           disabled |-> FALSE, sub0 |-> FALSE, map |-> map]
MCInputs == {In("tpdo", 2, 14, <<z>>), In("tpdo", 2, 13, <<z, y>>), In("tpdo", 1, 12, <<>>),
             In("rpdo", 2, 11, <<x>>), In("rpdo", 1, 11, <<E("x", 64), y>>),
             In("rpdo", 1, 11, <<[x EXCEPT !.sub = 0]>>)}

PDO(cob, map) == [cob |-> cob, enabled |-> map # <<>>, map |-> map]
MCStartDevice == [select |-> 7, rpdo |-> <<PDO(11, <<x>>)>>,
                  tpdo |-> <<PDO(12, <<y>>), PDO(13, <<y, z>>)>>]
MCOtherPDO == PDO(13, <<z>>)
N(name, id) == [role |-> name, id |-> id, label |-> name]
MCReg == [schema |-> 1, name |-> "bench",
          nodes |-> <<N("near", 1), N("far", 2)>>,
          signals |-> <<[cob |-> 13, name |-> "out", verified |-> TRUE,
                         prod |-> [role |-> "near", pdo |-> 2, map |-> <<y, z>>],
                         cons |-> <<[role |-> "far", pdo |-> 1, map |-> <<x, x>>, selects |-> <<>>]>>],
                        [cob |-> 11, name |-> "back", verified |-> FALSE,
                         prod |-> [role |-> "far", pdo |-> 1, map |-> <<y>>],
                         cons |-> <<[role |-> "near", pdo |-> 1, map |-> <<x>>,
                                     selects |-> <<[key |-> "select", value |-> 7]>>]>>]>>]
MCStartReg == {NoReg, MCReg}
Registry(r0) == [registry |-> r0, pattern |-> NoReg, name |-> "", bindings |-> <<>>]
Pattern(p, b) == [registry |-> NoReg, pattern |-> p, name |-> "copy", bindings |-> b]
MCRequests ==
    LET p == ExportPattern(MCReg)
    IN  {Registry(p), Registry([MCReg EXCEPT !.nodes[1].id = 0]), Registry(NoReg),
         Registry([MCReg EXCEPT !.signals[2].cob = 13]),
         Pattern(p, <<N("far", 1), N("near", 2)>>), Pattern(p, <<N("far", 1)>>),
         Pattern([p EXCEPT !.schema = 2], <<N("far", 2), N("near", 1)>>)}

MCInit ==
    /\ part \in {"ring", "merge", "sdo", "plan", "map"}
    /\ RingInit /\ (part # "ring" => setting = CHOOSE s \in Settings : TRUE)
    /\ MergeInit /\ (part # "merge" => primary = <<>> /\ fallback = <<>> /\ limit = 0)
    /\ SdoInit /\ (part # "sdo" => proto = "sdo")
    /\ proto = "sdo" => seq = CHOOSE n \in StartSeq : TRUE
    /\ PlanInit /\ (part # "plan" => operational)
    /\ MapInit /\ (part # "map" => reg = NoReg)
MCNext ==
    \/ part = "ring" /\ RingNext /\ UNCHANGED <<part, mergeVars, sdoVars, planVars, mapVars>>
    \/ part = "merge" /\ MergeNext /\ UNCHANGED <<part, ringVars, sdoVars, planVars, mapVars>>
    \/ part = "sdo" /\ SdoNext /\ UNCHANGED <<part, ringVars, mergeVars, planVars, mapVars>>
    \/ part = "plan" /\ PlanNext /\ UNCHANGED <<part, ringVars, mergeVars, sdoVars, mapVars>>
    \/ part = "map" /\ MapNext /\ UNCHANGED <<part, ringVars, mergeVars, sdoVars, planVars>>
MCSpec == MCInit /\ [][MCNext]_<<part, ringVars, mergeVars, sdoVars, planVars, mapVars>>
=============================================================================

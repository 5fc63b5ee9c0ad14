------------------------------ MODULE PdoPlan -------------------------------
(***************************************************************************)
(* canpdoctl pdo-apply (cmd/canpdoctl/main.go): the plan that gives a PDO  *)
(* of a CANopen node its identifier and mapping, and its execution.  Runs  *)
(* of the tool are processes that nothing keeps apart.  Every transfer is  *)
(* a step of its own.                                                      *)
(*                                                                         *)
(* A PDO record of the node is its identifier, whether it is valid, its    *)
(* mapping count and its slots; transmission type and event timer, which   *)
(* no property reads, are written but not kept.                            *)
(***************************************************************************)
EXTENDS Integers, Sequences

CONSTANTS
    Entries,     \* mapping entries: object, subindex and length
    StartNode,   \* [rpdo, tpdo]: sequences of PDO records
    Tools,       \* runs of canpdoctl
    Inputs,      \* what they are asked: [dir, pdo, cob, timer, disabled, sub0, map]
    MaxSlots,    \* 8
    MaxPlanLost  \* bound: the transfers that fail

VARIABLES
    node,       \* the node's PDO records
    operational,
    tool,       \* per run: what it was asked, the steps it has left, how it ended
    asked,      \* what each PDO had or was asked to have (history)
    overlapped, \* two runs were under way at once (history)
    planLost    \* transfers that failed

planVars == <<node, operational, tool, asked, overlapped, planLost>>

Dirs == {"rpdo", "tpdo"}
MaxPayload == 64
MaxCobID == 2047
MaxPDORecords == 512
PDORecords == [cob : 0 .. MaxCobID, valid : BOOLEAN, count : 0 .. MaxSlots,
               slots : [1 .. MaxSlots -> Entries]]
Record(cob, valid, count, slots) ==
    [cob |-> cob, valid |-> valid, count |-> count, slots |-> slots]
Wire(rec) == [cob |-> rec.cob, valid |-> rec.valid, map |-> [k \in 1 .. rec.count |-> rec.slots[k]]]

ASSUME PlanConstants ==
    /\ MaxSlots \in Nat
    /\ StartNode \in [Dirs -> Seq(PDORecords)]
    /\ \A in \in Inputs :
          in \in [dir : Dirs, pdo : Nat, cob : Nat, timer : BOOLEAN, disabled : BOOLEAN,
                 sub0 : BOOLEAN, map : Seq(Entries)]

PlanInit ==
    /\ node = StartNode /\ operational \in BOOLEAN
    /\ tool = [t \in Tools |-> [at |-> "idle", in |-> 0, steps |-> <<>>]]
    /\ asked = [d \in Dirs |-> [i \in DOMAIN node[d] |-> {Wire(node[d][i])}]]
    /\ overlapped = FALSE /\ planLost = 0

FitsPayload(map) ==
    LET bits[k \in 0 .. Len(map)] == IF k = 0 THEN 0 ELSE bits[k - 1] + map[k].bits
    IN  bits[Len(map)] <= MaxPayload

InputIsValid(in) ==
    /\ in.pdo \in 1 .. MaxPDORecords /\ in.cob \in 1 .. MaxCobID /\ Len(in.map) <= MaxSlots
    /\ \A k \in DOMAIN in.map : in.map[k].bits # 0 /\ (in.map[k].sub # 0 \/ in.sub0)
    /\ FitsPayload(in.map)
    /\ in.dir \in Dirs /\ (in.timer => in.dir = "tpdo")

Step(field, value) == [field |-> field, value |-> value]
FinallyValid(in) == ~in.disabled /\ in.map # <<>>
Wanted(in) == [cob |-> in.cob, valid |-> FinallyValid(in), map |-> in.map]

\* A mutant for PlansAreAllOrNothing: the identifier is made valid before the
\* mapping is counted.
BuildPDOPlanEarly(in) ==
    <<Step("preop", 0), Step("cob", [cob |-> in.cob, valid |-> FALSE]), Step("count", 0)>>
    \o [k \in DOMAIN in.map |-> Step("slot", [k |-> k, entry |-> in.map[k]])]
    \o <<Step("type", 0)>> \o (IF in.timer THEN <<Step("timer", 0)>> ELSE <<>>)
    \o <<Step("cob", [cob |-> in.cob, valid |-> FinallyValid(in)]),
         Step("count", Len(in.map)), Step("start", 0)>>

BuildPDOPlan(in) ==
    <<Step("preop", 0), Step("cob", [cob |-> in.cob, valid |-> FALSE]), Step("count", 0)>>
    \o [k \in DOMAIN in.map |-> Step("slot", [k |-> k, entry |-> in.map[k]])]
    \o <<Step("type", 0)>> \o (IF in.timer THEN <<Step("timer", 0)>> ELSE <<>>)
    \o <<Step("count", Len(in.map)),
         Step("cob", [cob |-> in.cob, valid |-> FinallyValid(in)]), Step("start", 0)>>

\* external: what a step makes of the PDO record, and of the node's state
Taken(rec, s) ==
    CASE s.field = "cob" -> Record(s.value.cob, s.value.valid, rec.count, rec.slots)
      [] s.field = "count" -> Record(rec.cob, rec.valid, s.value, rec.slots)
      [] s.field = "slot" -> Record(rec.cob, rec.valid, rec.count,
                                    [rec.slots EXCEPT ![s.value.k] = s.value.entry])
      [] OTHER -> rec
NodeTakes(in, s) ==
    /\ node' = IF in.pdo \notin DOMAIN node[in.dir] THEN node
               ELSE [node EXCEPT ![in.dir][in.pdo] = Taken(@, s)]
    /\ operational' = IF s.field = "preop" THEN FALSE
                      ELSE IF s.field = "start" THEN TRUE ELSE operational

Apply(t, in) ==
    /\ tool[t].at = "idle" /\ InputIsValid(in)
    /\ tool' = [tool EXCEPT ![t] = [at |-> "run", in |-> in, steps |-> BuildPDOPlan(in)]]
    /\ asked' = IF in.pdo \notin DOMAIN node[in.dir] THEN asked
                ELSE [asked EXCEPT ![in.dir][in.pdo] = @ \cup {Wanted(in)}]
    /\ overlapped' = (overlapped \/ \E u \in Tools : tool[u].at = "run")
    /\ UNCHANGED <<node, operational, planLost>>

Ended(t, how) == [tool EXCEPT ![t] = [at |-> how, in |-> @.in, steps |-> <<>>]]

\* executePDOPlan, one step.  A write that fails ends the run; the node may
\* have taken it, its acknowledgement being lost.  A PDO that the node does not
\* have is refused at the first write.
Advance(t) ==
    LET in == tool[t].in
        s == Head(tool[t].steps)
        refused == s.field # "preop" /\ in.pdo \notin DOMAIN node[in.dir]
    IN  /\ tool[t].at = "run"
        /\ \/ /\ refused /\ tool' = Ended(t, "failed")
              /\ UNCHANGED <<node, operational, planLost>>
           \/ /\ ~refused /\ NodeTakes(in, s) /\ UNCHANGED planLost
              /\ tool' = IF Len(tool[t].steps) = 1 THEN Ended(t, "ok")
                         ELSE [tool EXCEPT ![t].steps = Tail(@)]
           \/ /\ ~refused /\ planLost < MaxPlanLost /\ planLost' = planLost + 1
              /\ NodeTakes(in, s) \/ UNCHANGED <<node, operational>>
              /\ tool' = Ended(t, "failed")
        /\ UNCHANGED <<asked, overlapped>>

PlanNext == \E t \in Tools : Advance(t) \/ \E in \in Inputs : Apply(t, in)

PlanSpec == PlanInit /\ [][PlanNext]_planVars

-----------------------------------------------------------------------------
(* Property.                                                               *)

(* buildPDOPlan, executePDOPlan: unless two runs overlap, a PDO that is    *)
(* valid has exactly the identifier and the mapping it had at first or     *)
(* that one run asked for, at every step and wherever a run fails or an    *)
(* acknowledgement is lost; and a run that ends well leaves its PDO as it  *)
(* was asked and the node operational, until the next.                     *)
PlansAreAllOrNothing ==
    ~overlapped =>
       /\ \A d \in Dirs : \A i \in DOMAIN node[d] :
             node[d][i].valid => Wire(node[d][i]) \in asked[d][i]
       /\ \A t \in Tools :
             LET in == tool[t].in
             IN  (tool[t].at = "ok" /\ \A u \in Tools \ {t} : tool[u].at = "idle") =>
                    operational /\ Wire(node[in.dir][in.pdo]) = Wanted(in)
=============================================================================

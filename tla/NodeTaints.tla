----------------------------- MODULE NodeTaints -----------------------------
(***************************************************************************)
(* The taints of one node in full: key, value and effect, the API server's *)
(* rule that no two share key and effect, and administrators who put,      *)
(* rewrite and remove taints of the controller's own key.  NodeObject      *)
(* knows of these only whether the exact degraded taint is there.          *)
(*                                                                         *)
(* A reconcile is one step here; what happens within one is the subject of *)
(* NodeHealthController.                                                   *)
(***************************************************************************)
EXTENDS HealthPolicy

CONSTANT AdminTaint   \* taints that administrators put on the node

VARIABLES
  node,        \* state, managed, startedAge and the set of taints
  own,         \* history: the exact taint on the node is the controller's
  observation  \* what the health source now answers

vars == <<node, own, observation>>

TaintRecord == [key : STRING, value : STRING, effect : STRING]

degradedTaint ==
  [key |-> "hardware-degraded", value |-> "true", effect |-> "NoSchedule"]

ASSUME AdminTaintAssumption == AdminTaint \subseteq TaintRecord

Observation == {"healthy", "degraded", "unknown"}

Init ==
  /\ node = [state |-> "absent", managed |-> FALSE, startedAge |-> NoTime,
             taints |-> {}]
  /\ own = FALSE
  /\ observation = "unknown"

-----------------------------------------------------------------------------
SameSlot(t, u) == t.key = u.key /\ t.effect = u.effect

(* The validation of every write of a node.                                *)
Valid(taints) == \A t, u \in taints : SameSlot(t, u) => t = u

(* Slips: claiming a taint that is already there; taking any taint of the   *)
(* key for isolation.                                                      *)
IsolateNodeClaiming(o) ==
  [o EXCEPT !.taints = @ \cup {degradedTaint}, !.managed = TRUE]

IsolateNodeByKey(o) ==
  IF \E t \in o.taints : t.key = degradedTaint.key THEN o
  ELSE [o EXCEPT !.taints = @ \cup {degradedTaint}, !.managed = TRUE]

IsolateNode(o) ==
  IF degradedTaint \in o.taints THEN o
  ELSE [o EXCEPT !.taints = @ \cup {degradedTaint}, !.managed = TRUE]

(* A slip: removing by key instead of the exact taint.                     *)
RecoverNodeByKey(o) ==
  IF ~o.managed THEN o
  ELSE [o EXCEPT !.taints = {t \in @ : t.key # degradedTaint.key},
                 !.managed = FALSE]

RecoverNode(o) ==
  IF ~o.managed THEN o
  ELSE [o EXCEPT !.taints = @ \ {degradedTaint}, !.managed = FALSE]

Proposal(o, answer) ==
  LET decision == DecideIsolation(ParseState(o.state), o.managed, o.startedAge, answer)
      noted == [o EXCEPT !.state = decision.state, !.startedAge = decision.startedAge]
  IN  IF decision.isolate THEN IsolateNode(noted) ELSE RecoverNode(noted)

(* The whole object is updated or nothing is.                              *)
Reconcile ==
  LET o == Proposal(node, observation) IN
  /\ Valid(o.taints)
  /\ node' = o
  /\ own' = (degradedTaint \in o.taints /\ (own \/ degradedTaint \notin node.taints))
  /\ UNCHANGED observation

(* kubectl taint, with --overwrite for a taint in the same slot.           *)
Taint(t) ==
  /\ node' = [node EXCEPT !.taints = {u \in @ : ~SameSlot(t, u)} \cup {t}]
  /\ own' = (own /\ degradedTaint \in node'.taints)
  /\ UNCHANGED observation

Untaint(t) ==
  /\ node' = [node EXCEPT !.taints = @ \ {t}]
  /\ own' = (own /\ t # degradedTaint)
  /\ UNCHANGED observation

Observed(answer) ==
  observation' = answer /\ UNCHANGED <<node, own>>

Tick ==
  node' = [node EXCEPT !.startedAge = Older(@, 1)] /\ UNCHANGED <<own, observation>>

Next ==
  \/ Reconcile
  \/ \E t \in AdminTaint : Taint(t)
  \/ \E t \in node.taints : Untaint(t)
  \/ \E answer \in Observation : Observed(answer)
  \/ Tick

Spec == Init /\ [][Next]_vars

(* Reconciles are repeated by polling, or after an error by its backoff.   *)
LiveSpec == Spec /\ WF_vars(Reconcile) /\ WF_vars(Tick)

-----------------------------------------------------------------------------
(* The controller touches no taint but the exact one it may own, whatever  *)
(* key or effect another has in common with it (removeDegradedTaint,       *)
(* isDegradedTaint): only the administrators change the others.            *)
OtherTaintsKept ==
  [][Reconcile => node'.taints \ {degradedTaint} = node.taints \ {degradedTaint}]_vars

(* As long as no taint of another value holds the slot of the controller's *)
(* own, a node that stays degraded is recorded and isolated in the end,    *)
(* whatever administrators did to its taints before.                       *)
IsolatedUnlessSlotTaken ==
  <>[](/\ observation = "degraded"
       /\ \A t \in node.taints : SameSlot(t, degradedTaint) => t = degradedTaint)
    => []<>(node.state = "degraded" /\ degradedTaint \in node.taints)

(* Where the taints are in the slot of the controller's own, NodeObject's  *)
(* operators on the mere presence of the exact taint say what these do.    *)
Exact == INSTANCE NodeObject WITH Confirmation <- {}

Reduced(o, ours) ==
  [ state |-> o.state, managed |-> o.managed, startedAge |-> o.startedAge,
    observedAt |-> "clock", fault |-> FALSE, confirmation |-> "absent",
    taint |-> IF degradedTaint \notin o.taints THEN "none"
              ELSE IF ours THEN "controller" ELSE "other" ]

ReducesToNodeObject ==
  [][Reconcile => Reduced(node', own')
                    = Exact!Reconciled(Reduced(node, own), observation, "clock")]_vars
=============================================================================

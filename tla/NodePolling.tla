----------------------------- MODULE NodePolling -----------------------------
(***************************************************************************)
(* What the reconcile loop promises the health state machine: nodes are    *)
(* read one at a time, and a node that stays known is read again and       *)
(* again.  NodeHealthController assumes this of its Begin action.          *)
(***************************************************************************)
CONSTANTS Node, NoNode

VARIABLES known, reading

vars == <<known, reading>>

Init == known \in SUBSET Node /\ reading = NoNode

NodesChange == known' \in SUBSET Node /\ UNCHANGED reading

Begin(n) == reading = NoNode /\ n \in known /\ reading' = n /\ UNCHANGED known

End == reading' = NoNode /\ UNCHANGED known

Next == NodesChange \/ End \/ \E n \in Node : Begin(n)

Fairness ==
  \A n \in Node : <>[](n \in known) => []<>(reading = n)

Spec == Init /\ [][Next]_vars /\ Fairness
=============================================================================

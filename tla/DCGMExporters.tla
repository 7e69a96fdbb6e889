--------------------------- MODULE DCGMExporters ---------------------------
(***************************************************************************)
(* DCGM.Observe against the exporter pods of the cluster, here the DCGM    *)
(* metrics simulator's: the pods come and go, become ready and unready,    *)
(* their containers restart, recovery tests PUT and DELETE the simulated   *)
(* XID, and between listing the pods and scraping the chosen one all of    *)
(* that may happen.  Pod names are numbers, ordered as the code sorts them.*)
(***************************************************************************)
EXTENDS XIDMetrics, FiniteSets, FiniteSetsExt

CONSTANTS
  Node,
  Exporter,       \* names of exporter pods, a set of numbers
  XID             \* the values tests PUT

ASSUME ExporterAssumption ==
  Exporter \subseteq Nat /\ IsFiniteSet(Exporter) /\ XID \subseteq Sample

VARIABLES
  home,      \* the node of each exporter pod that exists
  serving,   \* pods whose container serves, and so has a PodIP and is Running
  ready,     \* pods whose PodReady condition is true
  xid,       \* each simulator's XIDState; NoValue is None
  chosen,    \* the exporter an Observe of the node is about to scrape
  answer,    \* what the last Observe of the node returned
  lastPut    \* history: the last XID put on any exporter of the node

podVars == <<home, serving, ready>>
vars == <<podVars, xid, chosen, answer, lastPut>>

NoExporter == -1
AcceptedXID == 0 .. 999

TypeOK ==
  /\ \E E \in SUBSET Exporter : home \in [E -> Node]
  /\ ready \subseteq serving /\ serving \subseteq DOMAIN home
  /\ xid \in [Exporter -> AcceptedXID \cup {NoValue}]
  /\ chosen \in [Node -> Exporter \cup {NoExporter}]
  /\ answer \in [Node -> {"none", "healthy", "degraded", "unknown"}]
  /\ lastPut \in [Node -> AcceptedXID \cup {NoValue}]

Init ==
  /\ home = [e \in {} |-> CHOOSE n \in Node : TRUE]
  /\ serving = {}
  /\ ready = {}
  /\ xid = [e \in Exporter |-> NoValue]
  /\ chosen = [n \in Node |-> NoExporter]
  /\ answer = [n \in Node |-> "none"]
  /\ lastPut = [n \in Node |-> NoValue]

-----------------------------------------------------------------------------
(* The simulator. *)

(* The family a scrape gets: absent until a value was put.                 *)
RenderMetrics(x) == IF x = NoValue THEN <<>> ELSE <<x>>

(* A slip: storing what was put without checking its range.                *)
PutUnchecked(e, x) ==
  /\ e \in serving
  /\ xid' = [xid EXCEPT ![e] = x]
  /\ lastPut' = [lastPut EXCEPT ![home[e]] = x]
  /\ UNCHANGED <<podVars, chosen, answer>>

Put(e, x) ==
  /\ e \in serving
  /\ IF x \in AcceptedXID
     THEN /\ xid' = [xid EXCEPT ![e] = x]
          /\ lastPut' = [lastPut EXCEPT ![home[e]] = x]
     ELSE UNCHANGED <<xid, lastPut>>
  /\ UNCHANGED <<podVars, chosen, answer>>

Clear(e) ==
  /\ e \in serving
  /\ xid' = [xid EXCEPT ![e] = NoValue]
  /\ UNCHANGED <<podVars, chosen, answer, lastPut>>

-----------------------------------------------------------------------------
(* Its DaemonSet and the kubelet: at most one pod on a node.  A name (and  *)
(* its PodIP) is not given to a new pod while an Observe still holds it.   *)
CreatePod(e, n) ==
  /\ e \notin DOMAIN home
  /\ \A m \in Node : chosen[m] # e
  /\ \A f \in DOMAIN home : home[f] # n
  /\ home' = [f \in DOMAIN home \cup {e} |-> IF f = e THEN n ELSE home[f]]
  /\ UNCHANGED <<serving, ready, xid, chosen, answer, lastPut>>

(* A slip: a simulator that starts by reporting XID 0.                     *)
StartContainerClear(e) ==
  /\ e \in DOMAIN home \ serving
  /\ serving' = serving \cup {e}
  /\ xid' = [xid EXCEPT ![e] = ClearXID]
  /\ UNCHANGED <<home, ready, chosen, answer, lastPut>>

(* A container starts with no state.                                       *)
StartContainer(e) ==
  /\ e \in DOMAIN home \ serving
  /\ serving' = serving \cup {e}
  /\ xid' = [xid EXCEPT ![e] = NoValue]
  /\ UNCHANGED <<home, ready, chosen, answer, lastPut>>

StopContainer(e) ==
  /\ e \in serving
  /\ serving' = serving \ {e}
  /\ ready' = ready \ {e}
  /\ UNCHANGED <<home, xid, chosen, answer, lastPut>>

ProbeResult(e, ok) ==
  /\ e \in serving
  /\ ready' = IF ok THEN ready \cup {e} ELSE ready \ {e}
  /\ UNCHANGED <<home, serving, xid, chosen, answer, lastPut>>

DeletePod(e) ==
  /\ e \in DOMAIN home
  /\ home' = [f \in DOMAIN home \ {e} |-> home[f]]
  /\ serving' = serving \ {e}
  /\ ready' = ready \ {e}
  /\ UNCHANGED <<xid, chosen, answer, lastPut>>

-----------------------------------------------------------------------------
(* DCGM.Observe: list and choose, then scrape what was chosen.             *)
Eligible(n) == {e \in ready : home[e] = n}

Return(n, state) ==
  /\ answer' = [answer EXCEPT ![n] = state]
  /\ chosen' = [chosen EXCEPT ![n] = NoExporter]

Choose(n) ==
  /\ chosen[n] = NoExporter
  /\ IF Eligible(n) = {}
     THEN Return(n, Unanswered)
     ELSE /\ chosen' = [chosen EXCEPT ![n] = Min(Eligible(n))]
          /\ UNCHANGED answer
  /\ UNCHANGED <<podVars, xid, lastPut>>

ListFails(n) ==
  /\ chosen[n] = NoExporter
  /\ Return(n, Unanswered)
  /\ UNCHANGED <<podVars, xid, lastPut>>

Scrape(n) ==
  /\ chosen[n] \in serving
  /\ Return(n, EvaluateXIDMetrics(RenderMetrics(xid[chosen[n]])))
  /\ UNCHANGED <<podVars, xid, lastPut>>

ScrapeFails(n) ==
  /\ chosen[n] # NoExporter
  /\ Return(n, Unanswered)
  /\ UNCHANGED <<podVars, xid, lastPut>>

Next ==
  \/ \E e \in Exporter :
       \/ \E x \in XID : Put(e, x)
       \/ Clear(e)
       \/ \E n \in Node : CreatePod(e, n)
       \/ StartContainer(e) \/ StopContainer(e)
       \/ \E ok \in BOOLEAN : ProbeResult(e, ok)
       \/ DeletePod(e)
  \/ \E n \in Node : Choose(n) \/ ListFails(n) \/ Scrape(n) \/ ScrapeFails(n)

Spec == Init /\ [][Next]_vars

-----------------------------------------------------------------------------
(* A node is answered healthy only while the last XID put on its exporter  *)
(* is 0: neither a restart, a replaced or unready pod, a DELETE nor an     *)
(* answer from a pod chosen earlier turns a fault into a healthy answer.   *)
HealthyOnlyAfterExplicitClear ==
  [][\A n \in Node :
       chosen[n] # NoExporter /\ chosen'[n] = NoExporter /\ answer'[n] = "healthy"
         => lastPut[n] = 0]_vars
=============================================================================

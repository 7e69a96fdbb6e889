------------------------ MODULE NodeHealthController ------------------------
(***************************************************************************)
(* The node health controller against the Kubernetes API: Reconcile step   *)
(* by step, one or two controller processes (a rollout overlaps the old    *)
(* and the new one, and leader election is off by default), their cached   *)
(* view of the nodes, other writers of the same nodes, the scheduler and   *)
(* the pods it places.                                                     *)
(*                                                                         *)
(* resourceVersion is reduced to what the API server does with it: an      *)
(* Update succeeds only if the node was not written since the version the  *)
(* updated copy was made from.  "fresh" holds the cached copies of which    *)
(* that is true, "current" the controllers whose working copy is.          *)
(*                                                                         *)
(* Time advances by Tick and is visible only through ages, all capped at   *)
(* RecoveryWindow (see HealthPolicy).                                      *)
(***************************************************************************)
EXTENDS NodeObject, FiniteSets

CONSTANTS
  Node, NoNode,      \* the cluster's GPU nodes; NoNode is none of them
  Controller,        \* controller processes alive at the same time
  Pod, OptedIn,      \* training pods; those labelled auto-remediate=true
  Source,            \* the -health-source flag: "annotation" or "dcgm"
  AdminUntaints      \* whose taints an administrator may remove by hand

ASSUME ControllerAssumption ==
  /\ NoNode \notin Node
  /\ OptedIn \subseteq Pod
  /\ Source \in {"annotation", "dcgm"}
  /\ AdminUntaints \subseteq {"controller", "other"}

VARIABLES
  node,        \* the nodes as the API server stores them
  cache,       \* each controller's informer copy of them
  fresh,       \* <<c, n>>: cache[c][n] is the latest version of n
  work,        \* the reconcile each controller's single worker is in
  current,     \* controllers whose work.obj is the latest version
  exposed,     \* what the node's exporter would now evaluate to
  podStatus, podNode,
  evidence,    \* age of the last degraded / non-healthy state written
  pulled       \* an administrator removed the taint by hand, not yet redone

apiVars    == <<node, evidence, pulled>>
workVars   == <<cache, fresh, work, current>>
podVars    == <<podStatus, podNode>>
vars       == <<apiVars, workVars, podVars, exposed>>

(***************************************************************************)
(* A worker holds the node copy it got, frozen as of reconciledAt, and the *)
(* time elapsed since.                                                     *)
(***************************************************************************)
Phase == {"idle", "read", "observed", "listing", "evicting"}

(* What either source answers; neither reports a recovery itself. *)
Answer == {"healthy", "degraded", "unknown"}

WorkRecord ==
  [ phase : Phase, node : Node \cup {NoNode}, obj : NodeRecord, elapsed : Age,
    observed : Answer, at : Confirmation \cup {"clock"}, todo : SUBSET Pod ]

Idle ==
  [ phase |-> "idle", node |-> NoNode, obj |-> NewNode, elapsed |-> 0,
    observed |-> "unknown", at |-> "clock", todo |-> {} ]

Listing(n) == [Idle EXCEPT !.phase = "listing", !.node = n]

PodStatus == {"pending", "assumed", "bound", "over", "terminating", "gone"}

TypeOK ==
  /\ node \in [Node -> NodeRecord]
  /\ cache \in [Controller -> [Node -> NodeRecord]]
  /\ fresh \subseteq Controller \X Node
  /\ work \in [Controller -> WorkRecord]
  /\ \A c \in Controller : work[c].phase # "idle" => work[c].node \in Node
  /\ current \subseteq Controller
  /\ exposed \in [Node -> Answer]
  /\ podStatus \in [Pod -> PodStatus]
  /\ podNode \in [Pod -> Node \cup {NoNode}]
  /\ evidence \in [Node -> [degraded : Age, unhealthy : Age]]
  /\ pulled \subseteq Node

Init ==
  /\ node = [n \in Node |-> NewNode]
  /\ cache = [c \in Controller |-> node]
  /\ fresh = Controller \X Node
  /\ work = [c \in Controller |-> Idle]
  /\ current = {}
  /\ exposed = [n \in Node |-> "unknown"]
  /\ podStatus = [p \in Pod |-> "pending"]
  /\ podNode = [p \in Pod |-> NoNode]
  /\ evidence = [n \in Node |->
                   [degraded |-> RecoveryWindow, unhealthy |-> RecoveryWindow]]
  /\ pulled = {}

-----------------------------------------------------------------------------
(* A slip: the last write wins, as if an Update compared no versions.      *)
OutdateCachesOnly(n) ==
  /\ fresh' = {x \in fresh : x[2] # n}
  /\ UNCHANGED current

(* A write of node n makes every copy of it, cached or in use, outdated.   *)
Outdate(n) ==
  /\ fresh' = {x \in fresh : x[2] # n}
  /\ current' = {c \in current : work[c].node # n}

ForeignWrite(n, o) ==
  /\ node' = [node EXCEPT ![n] = o]
  /\ Outdate(n)
  /\ UNCHANGED <<cache, work, exposed, podVars, evidence>>

(* The node of controller c's reconcile, and what its Update would write.  *)
Target(c) == work[c].node
Proposal(c) == Reconciled(work[c].obj, work[c].observed, work[c].at)
HasChange(c) == Changed(work[c].obj, work[c].observed, work[c].at)

Return(c) ==
  /\ work' = [work EXCEPT ![c] = Idle]
  /\ current' = current \ {c}

-----------------------------------------------------------------------------
(* Reconcile. *)

(* Get, from the cache, and reconciledAt. *)
Begin(c, n) ==
  /\ work[c].phase = "idle"
  /\ work' = [work EXCEPT ![c] =
               [Idle EXCEPT !.phase = "read", !.node = n, !.obj = cache[c][n]]]
  /\ current' = IF <<c, n>> \in fresh THEN current \cup {c} ELSE current \ {c}
  /\ UNCHANGED <<apiVars, cache, fresh, podVars, exposed>>

Observe(c) ==
  /\ work[c].phase = "read"
  /\ LET o == work[c].obj
     IN  work' = [work EXCEPT
           ![c].phase = "observed",
           ![c].observed = IF Source = "dcgm" THEN exposed[Target(c)]
                                              ELSE AnnotationState(o),
           ![c].at = IF Source = "dcgm" THEN "clock" ELSE AnnotationTime(o)]
  /\ UNCHANGED <<apiVars, cache, fresh, current, podVars, exposed>>

(* A slip: evicting only in the reconcile that adds the taint.             *)
ProceedOnNewTaint(c) ==
  /\ work' = [work EXCEPT ![c] =
       IF Proposal(c).state = "degraded" /\ ~Tainted(work[c].obj)
       THEN Listing(Target(c)) ELSE Idle]

(* After the Update only a degraded decision goes on, to evict pods. *)
Proceed(c) ==
  /\ work' = [work EXCEPT ![c] = IF Proposal(c).state = "degraded"
                                 THEN Listing(Target(c)) ELSE Idle]

RecordEvidence(n, state) ==
  evidence' = [evidence EXCEPT
    ![n].degraded  = IF state = "degraded" THEN 0 ELSE @,
    ![n].unhealthy = IF state \in {"degraded", "unknown"} THEN 0 ELSE @]

UpdateSucceeds(c) ==
  LET n == Target(c) IN
  /\ work[c].phase = "observed"
  /\ HasChange(c)
  /\ c \in current
  /\ node' = [node EXCEPT ![n] = Aged(Proposal(c), work[c].elapsed)]
  /\ Outdate(n)
  /\ Proceed(c)
  /\ RecordEvidence(n, Proposal(c).state)
  /\ pulled' = IF Proposal(c).taint = work[c].obj.taint
                  /\ Proposal(c).managed = work[c].obj.managed
               THEN pulled ELSE pulled \ {n}
  /\ UNCHANGED <<cache, podVars, exposed>>

(* A slip: going on to evict although the taint was not written.           *)
UpdateFailsIgnored(c) ==
  /\ work[c].phase = "observed"
  /\ HasChange(c)
  /\ Proceed(c)
  /\ current' = current \ {c}
  /\ UNCHANGED <<apiVars, cache, fresh, podVars, exposed>>

(* A conflict, which a copy that is not current always meets, or an error. *)
UpdateFails(c) ==
  /\ work[c].phase = "observed"
  /\ HasChange(c)
  /\ Return(c)
  /\ UNCHANGED <<apiVars, cache, fresh, podVars, exposed>>

NothingToUpdate(c) ==
  /\ work[c].phase = "observed"
  /\ ~HasChange(c)
  /\ Proceed(c)
  /\ current' = current \ {c}
  /\ UNCHANGED <<apiVars, cache, fresh, podVars, exposed>>

(* A live, opted-in training pod whose spec.nodeName is n. *)
IsImpactedTrainingPod(p, n) ==
  p \in OptedIn /\ podNode[p] = n /\ podStatus[p] = "bound"

ListPods(c) ==
  /\ work[c].phase = "listing"
  /\ work' = [work EXCEPT
       ![c].phase = "evicting",
       ![c].todo = {p \in Pod : IsImpactedTrainingPod(p, Target(c))}]
  /\ UNCHANGED <<apiVars, cache, fresh, current, podVars, exposed>>

ListFails(c) ==
  /\ work[c].phase = "listing"
  /\ Return(c)
  /\ UNCHANGED <<apiVars, cache, fresh, podVars, exposed>>

(* Evict goes by name: the pod may have changed since it was listed. *)
EvictAccepted(c, p) ==
  /\ p \in work[c].todo
  /\ podStatus[p] # "gone"
  /\ podStatus' = [podStatus EXCEPT ![p] = IF @ = "over" THEN "gone"
                                                         ELSE "terminating"]
  /\ work' = [work EXCEPT ![c].todo = @ \ {p}]
  /\ UNCHANGED <<apiVars, cache, fresh, current, podNode, exposed>>

(* NotFound is the outcome wanted; any other error moves on to the next pod. *)
EvictNotFoundOrFails(c, p) ==
  /\ p \in work[c].todo
  /\ work' = [work EXCEPT ![c].todo = @ \ {p}]
  /\ UNCHANGED <<apiVars, cache, fresh, current, podVars, exposed>>

EvictionsDone(c) ==
  /\ work[c].phase = "evicting"
  /\ work[c].todo = {}
  /\ Return(c)
  /\ UNCHANGED <<apiVars, cache, fresh, podVars, exposed>>

(* The process dies anywhere; its successor starts from a fresh listing. *)
Crash(c) ==
  /\ work[c].phase # "idle"
  /\ Return(c)
  /\ cache' = [cache EXCEPT ![c] = node]
  /\ fresh' = fresh \cup ({c} \X Node)
  /\ UNCHANGED <<apiVars, podVars, exposed>>

CacheSync(c, n) ==
  /\ <<c, n>> \notin fresh
  /\ cache' = [cache EXCEPT ![c][n] = node[n]]
  /\ fresh' = fresh \cup {<<c, n>>}
  /\ UNCHANGED <<apiVars, work, current, podVars, exposed>>

-----------------------------------------------------------------------------
(* Other writers of the node. *)

(* The kubelet's heartbeat: a new version of the node, nothing else.       *)
StatusWrite(n) == ForeignWrite(n, node[n]) /\ UNCHANGED pulled

AdminTaint(n) ==
  /\ node[n].taint = "none"
  /\ ForeignWrite(n, [node[n] EXCEPT !.taint = "other"])
  /\ UNCHANGED pulled

AdminUntaint(n) ==
  /\ node[n].taint \in AdminUntaints
  /\ ForeignWrite(n, [node[n] EXCEPT !.taint = "none"])
  /\ pulled' = pulled \cup {n}

(* The fault annotations the recovery tests set, and the DCGM exporter.    *)
InjectFault(n) ==
  /\ Source = "annotation"
  /\ ForeignWrite(n, [node[n] EXCEPT !.fault = TRUE, !.confirmation = "absent"])
  /\ UNCHANGED pulled

ConfirmRecovery(n, t) ==
  /\ Source = "annotation"
  /\ ForeignWrite(n, [node[n] EXCEPT !.fault = FALSE, !.confirmation = t])
  /\ UNCHANGED pulled

RemoveConfirmation(n) ==
  /\ Source = "annotation"
  /\ ForeignWrite(n, [node[n] EXCEPT !.confirmation = "absent"])
  /\ UNCHANGED pulled

Expose(n, answer) ==
  /\ Source = "dcgm"
  /\ exposed' = [exposed EXCEPT ![n] = answer]
  /\ UNCHANGED <<apiVars, workVars, podVars>>

-----------------------------------------------------------------------------
(* The scheduler decides on an untainted node and binds later; the pod     *)
(* then runs until it ends or is deleted.                                  *)
Assume(p, n) ==
  /\ podStatus[p] = "pending"
  /\ ~Tainted(node[n])
  /\ podStatus' = [podStatus EXCEPT ![p] = "assumed"]
  /\ podNode' = [podNode EXCEPT ![p] = n]
  /\ UNCHANGED <<apiVars, workVars, exposed>>

PodStep(p, from, to) ==
  /\ podStatus[p] = from
  /\ podStatus' = [podStatus EXCEPT ![p] = to]
  /\ UNCHANGED <<apiVars, workVars, podNode, exposed>>

Bind(p)   == PodStep(p, "assumed", "bound")
Finish(p) == PodStep(p, "bound", "over")
Delete(p) == PodStep(p, "bound", "terminating")
Vanish(p) == PodStep(p, "terminating", "gone")

Tick ==
  /\ node' = [n \in Node |-> Aged(node[n], 1)]
  /\ cache' = [c \in Controller |-> [n \in Node |-> Aged(cache[c][n], 1)]]
  /\ work' = [c \in Controller |->
       IF work[c].phase \in {"read", "observed"}
       THEN [work[c] EXCEPT !.elapsed = Capped(@ + 1)] ELSE work[c]]
  /\ evidence' = [n \in Node |->
       [degraded |-> Capped(evidence[n].degraded + 1),
        unhealthy |-> Capped(evidence[n].unhealthy + 1)]]
  /\ UNCHANGED <<fresh, current, pulled, podVars, exposed>>

-----------------------------------------------------------------------------
ReconcileStep(c) ==
  \/ \E n \in Node : Begin(c, n)
  \/ Observe(c)
  \/ UpdateSucceeds(c)
  \/ UpdateFails(c)
  \/ NothingToUpdate(c)
  \/ ListPods(c)
  \/ ListFails(c)
  \/ \E p \in Pod : EvictAccepted(c, p) \/ EvictNotFoundOrFails(c, p)
  \/ EvictionsDone(c)

ControllerStep(c) ==
  \/ ReconcileStep(c)
  \/ Crash(c)
  \/ \E n \in Node : CacheSync(c, n)

NodeStep(n) ==
  \/ StatusWrite(n)
  \/ AdminTaint(n)
  \/ AdminUntaint(n)
  \/ InjectFault(n)
  \/ \E t \in Confirmation \cup {"invalid"} : ConfirmRecovery(n, t)
  \/ RemoveConfirmation(n)
  \/ \E answer \in Answer : Expose(n, answer)

PodLifeStep(p) ==
  \/ \E n \in Node : Assume(p, n)
  \/ Bind(p) \/ Finish(p) \/ Delete(p) \/ Vanish(p)

Next ==
  \/ \E c \in Controller : ControllerStep(c)
  \/ \E n \in Node : NodeStep(n)
  \/ \E p \in Pod : PodLifeStep(p)
  \/ Tick

Spec == Init /\ [][Next]_vars
-----------------------------------------------------------------------------
(* Safety. *)

(* A node whose degraded state was written within the last recovery window *)
(* is isolated, whatever was observed since and whichever controller wrote *)
(* it, unless an administrator took the taint off by hand (isolateNode,    *)
(* recoverNode and the recovery policy together).                          *)
IsolatedAfterDegradedEvidence ==
  \A n \in Node :
    evidence[n].degraded < RecoveryWindow => Tainted(node[n]) \/ n \in pulled

(* The marker claims only a taint this controller put there: while it is   *)
(* set, the taint is the controller's own, or was pulled by hand.          *)
ManagedTaintIsOwn ==
  \A n \in Node :
    node[n].managed => node[n].taint = "controller" \/ n \in pulled

(* A recovery in progress has a start, and no non-healthy state has been   *)
(* written since: the window never spans one (continueRecovery, and the    *)
(* optimistic concurrency of Update).                                      *)
RecoveryIsContinuous ==
  \A n \in Node :
    node[n].state = "recovering" =>
      /\ node[n].startedAge # NoTime
      /\ node[n].startedAge <= evidence[n].unhealthy

(* A controller lists and evicts pods of a node only while the node is     *)
(* isolated ("taint before evicting"), for a controller alone.             *)
EvictionUnderIsolation ==
  \A c \in Controller :
    work[c].phase \in {"listing", "evicting"} =>
      Tainted(node[Target(c)]) \/ Target(c) \in pulled

(* Isolation ends by the controller only after a whole window without a    *)
(* non-healthy state written (decideRecovery under stale caches, retries   *)
(* and a second controller).                                               *)
ReleasedOnlyAfterQuietWindow ==
  [][\A n \in Node :
       node[n].managed /\ ~node'[n].managed
         => evidence[n].unhealthy = RecoveryWindow]_vars

(* Nobody but an administrator takes another actor's taint off a node      *)
(* (isolateNode does not claim it, recoverNode needs the claim).           *)
ForeignTaintKept ==
  [][\A n \in Node :
       node[n].taint = "other" /\ n \notin pulled
         => node'[n].taint = "other" \/ n \in pulled']_vars

(* With the annotation source, isolation ends only while the node carries  *)
(* a valid confirmation and no fault, although both were read earlier from *)
(* a cached copy.                                                          *)
ReleasedOnlyWhileConfirmed ==
  [][\A n \in Node :
       node[n].managed /\ ~node'[n].managed
         => ~node[n].fault /\ node[n].confirmation \in Confirmation]_vars

(* The scheduler never picks a degraded node for a pod between a           *)
(* controller's write of the taint and the end of its evictions.           *)
NoPlacementDuringEviction ==
  [][\A p \in Pod, c \in Controller :
       (/\ podStatus[p] = "pending" /\ podStatus'[p] = "assumed"
        /\ work[c].phase \in {"listing", "evicting"})
         => podNode'[p] # Target(c) \/ Target(c) \in pulled]_vars
-----------------------------------------------------------------------------
(* The controller implements NodeIsolation: its marker is the isolation,   *)
(* the persisted recovering state the confirmation.  Every write of a      *)
(* controller is one abstract step, every other step but Tick a stutter.   *)
Isolation == INSTANCE NodeIsolation WITH
  mode  <- [n \in Node |-> IF ~node[n].managed THEN "open"
                           ELSE IF node[n].state = "recovering"
                                THEN "confirming" ELSE "isolated"],
  since <- [n \in Node |-> IF node[n].managed /\ node[n].state = "recovering"
                           THEN node[n].startedAge ELSE 0],
  quiet <- [n \in Node |-> evidence[n].unhealthy]

ImplementsNodeIsolation == Isolation!Spec

-----------------------------------------------------------------------------
(* Progress, with the dcgm source.  A failed or finished reconcile is      *)
(* requeued (by the error's backoff or by RequeueAfter), the API answers   *)
(* again and again, informers catch up, clocks move and deletions finish.  *)
(* Somebody else's write between Get and Update makes the Update fail, and *)
(* unending writes at that very moment would starve it: they must stop.    *)
Fairness ==
  /\ \A c \in Controller :
       /\ \A n \in Node : SF_vars(Begin(c, n)) /\ WF_vars(CacheSync(c, n))
       /\ SF_vars(Observe(c))
       /\ SF_vars(UpdateSucceeds(c))
       /\ WF_vars(UpdateFails(c) \/ NothingToUpdate(c))
       /\ SF_vars(ListPods(c))
       /\ \A p \in Pod : /\ SF_vars(EvictAccepted(c, p))
                         /\ WF_vars(EvictNotFoundOrFails(c, p))
       /\ WF_vars(EvictionsDone(c))
  /\ \A p \in Pod : WF_vars(Vanish(p))
  /\ WF_vars(Tick)
  /\ \A n \in Node : <>[][~StatusWrite(n)]_vars

LiveSpec == Spec /\ Fairness

(* A node that stays degraded ends up isolated for good.                   *)
DegradedNodeIsolated ==
  \A n \in Node :
    <>[](exposed[n] = "degraded") => <>[]Tainted(node[n])

(* A node that stays healthy ends up released for good, so no reconcile    *)
(* restarts its own recovery window for ever.                              *)
HealthyNodeReleased ==
  \A n \in Node :
    <>[](exposed[n] = "healthy") => <>[](~node[n].managed)

(* No opted-in training pod stays on a node that stays degraded, not even  *)
(* one the scheduler had picked it for before the taint was written.       *)
DegradedNodeVacated ==
  \A n \in Node, p \in Pod :
    <>[](exposed[n] = "degraded") => <>[]~IsImpactedTrainingPod(p, n)
-----------------------------------------------------------------------------
(* What the repository says and the code does not do (see README).         *)

(* node_isolation.go:31-32: "the controller must never later remove        *)
(* isolation created by another actor".                                    *)
ForeignTaintNeverRemoved ==
  [][\A n \in Node : node[n].taint = "other" => node'[n].taint = "other"]_vars

(* docs/blog.md:120: the controller "retries through normal                *)
(* reconciliation": a pod whose eviction it was about to request does not  *)
(* run on for ever on a node never found healthy since.                    *)
EvictionRetried ==
  \A c \in Controller, p \in Pod :
    \A n \in Node :
      p \in work[c].todo /\ Target(c) = n /\ IsImpactedTrainingPod(p, n)
        ~> \/ ~IsImpactedTrainingPod(p, n)
           \/ node[n].state \in {"recovering", "healthy"}
=============================================================================

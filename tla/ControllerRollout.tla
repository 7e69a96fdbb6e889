-------------------------- MODULE ControllerRollout --------------------------
(***************************************************************************)
(* The controller's process, from main to its first Reconcile, in the pods *)
(* of its Deployment: one replica, and rolling updates that start a pod    *)
(* before they stop one.  A process is ready from the moment its manager   *)
(* serves the probes, before its caches are synced and, where leader       *)
(* election is enabled, before it leads.                                   *)
(***************************************************************************)
EXTENDS Integers, FiniteSets

CONSTANTS
  Pod,             \* names for the pods that exist at the same time
  Args,            \* Args[r]: the controller's flags in revision r
  GrantsLeases,    \* the ClusterRole lets the process write its Lease
  RenewDeadline,   \* after which a leader that could not renew gives up
  LeaseDuration,   \* after which others may take a Lease nobody renewed
  MaxRollouts, MaxFaults   \* bounds

Revision == DOMAIN Args

ArgsRecord ==
  [ source   : {"annotation", "dcgm", "dcgm-simulator", "unsupported"},
    selector : {"valid", "empty", "unparsable"},   \* of the DCGM exporters
    election : BOOLEAN ]

ASSUME RolloutAssumption ==
  /\ Pod \cap {"nobody", "gone"} = {}
  /\ Revision \subseteq Nat \ {0} /\ Revision # {}
  /\ Args \in [Revision -> ArgsRecord]
  /\ GrantsLeases \in BOOLEAN
  /\ RenewDeadline \in Nat /\ LeaseDuration \in Nat
  /\ RenewDeadline < LeaseDuration   \* 10s and 15s; client-go insists on it
  /\ MaxRollouts \in Nat /\ MaxFaults \in Nat

VARIABLES
  latest,     \* the revision of the Deployment's template
  scaled,     \* revisions whose ReplicaSet has one replica; others have none
  revision,   \* of each pod; 0 where there is none of that name
  stopping,   \* pods that are being deleted
  process,    \* of each pod's container
  holder,     \* of the Lease: "nobody", a pod, or a process that is "gone"
  age,        \* of the Lease, since it was renewed
  pace,       \* of each process: running, standing still, or late from that
  rollouts, faults

deployVars == <<latest, scaled, rollouts>>
podVars == <<revision, stopping>>
leaseVars == <<holder, age>>
vars == <<deployVars, podVars, process, leaseVars, pace, faults>>

Process == {"down", "starting", "serving", "synced", "reconciling"}
Serving == {"serving", "synced", "reconciling"}

Init ==
  /\ latest \in Revision /\ scaled = {}
  /\ revision = [p \in Pod |-> 0] /\ stopping = {}
  /\ process = [p \in Pod |-> "down"]
  /\ holder = "nobody" /\ age = 0
  /\ pace = [p \in Pod |-> "running"]
  /\ rollouts = 0 /\ faults = 0

-----------------------------------------------------------------------------
(* main *)

(* Slips: an unsupported name falls back on some source; the selector has  *)
(* to be usable whatever the source.                                       *)
NewHealthSourceDefaulting(args) ==
  CASE args.source = "dcgm" /\ args.selector # "valid" -> "error"
    [] args.source = "unsupported" -> "annotation"
    [] OTHER -> args.source

NewHealthSourceStrict(args) ==
  CASE args.selector # "valid" -> "error"
    [] args.source = "unsupported" -> "error"
    [] OTHER -> args.source

(* The name of the source that is configured, or an error. *)
NewHealthSource(args) ==
  CASE args.source = "dcgm" /\ args.selector # "valid" -> "error"
    [] args.source = "unsupported" -> "error"
    [] OTHER -> args.source

(* The container's process is gone; a Lease it held is not released.       *)
Exit(p) ==
  /\ process' = [process EXCEPT ![p] = "down"]
  /\ holder' = IF holder = p THEN "gone" ELSE holder
  /\ pace' = [pace EXCEPT ![p] = "running"]
  /\ UNCHANGED age

Start(p) ==
  /\ revision[p] # 0 /\ p \notin stopping
  /\ process[p] = "down"
  /\ process' = [process EXCEPT ![p] = "starting"]
  /\ UNCHANGED <<deployVars, podVars, leaseVars, pace, faults>>

(* A slip: an error of newHealthSource is logged, and main goes on.        *)
ConfigureGoingOn(p) ==
  /\ process[p] = "starting"
  /\ process' = [process EXCEPT ![p] = "serving"]
  /\ UNCHANGED <<deployVars, podVars, leaseVars, pace, faults>>

(* Everything up to manager.Start, whose first act is to serve the probes. *)
Configure(p) ==
  /\ process[p] = "starting"
  /\ IF NewHealthSource(Args[revision[p]]) = "error" THEN Exit(p)
     ELSE /\ process' = [process EXCEPT ![p] = "serving"]
          /\ UNCHANGED <<leaseVars, pace>>
  /\ UNCHANGED <<deployVars, podVars, faults>>

SyncCaches(p) ==
  /\ process[p] = "serving"
  /\ process' = [process EXCEPT ![p] = "synced"]
  /\ UNCHANGED <<deployVars, podVars, leaseVars, pace, faults>>

Elect(p) ==
  /\ process[p] = "synced"
  /\ IF Args[revision[p]].election
     THEN GrantsLeases /\ holder = "nobody" /\ holder' = p
     ELSE UNCHANGED holder
  /\ process' = [process EXCEPT ![p] = "reconciling"]
  /\ UNCHANGED <<deployVars, podVars, age, pace, faults>>

Fault == faults < MaxFaults /\ faults' = faults + 1

(* The API server is out of a leader's reach until its RenewDeadline.      *)
RenewalsFail(p) ==
  /\ Fault
  /\ holder = p /\ pace[p] = "running"
  /\ age < RenewDeadline /\ age' = RenewDeadline
  /\ UNCHANGED <<deployVars, podVars, process, holder, pace>>

(* The node of a leader, or its container, stands still for a while that   *)
(* is too short for the kubelet's probes.  Another process that does is    *)
(* only slow.                                                              *)
Stall(p) ==
  /\ Fault
  /\ holder = p /\ pace[p] = "running"
  /\ pace' = [pace EXCEPT ![p] = "stalled"]
  /\ UNCHANGED <<deployVars, podVars, process, leaseVars>>

(* It goes on reconciling where it was, and tries to renew: that gives it  *)
(* back a Lease nobody else took, unless its deadline ran out meanwhile.   *)
Resume(p) ==
  /\ pace[p] = "stalled"
  /\ \/ /\ holder \in {p, "nobody"}
        /\ holder' = p /\ age' = 0
        /\ pace' = [pace EXCEPT ![p] = "running"]
     \/ /\ holder # p \/ age >= RenewDeadline
        /\ pace' = [pace EXCEPT ![p] = "late"]
        /\ UNCHANGED leaseVars
  /\ UNCHANGED <<deployVars, podVars, process, faults>>

LostLease(p) ==
  /\ process[p] = "reconciling" /\ Args[revision[p]].election
  /\ pace[p] # "stalled"
  /\ holder # p \/ age >= RenewDeadline

(* A slip: going on after manager.Start has returned an error.             *)
StopLeadingGoingOn(p) ==
  /\ LostLease(p)
  /\ holder' = IF holder = p THEN "gone" ELSE holder
  /\ UNCHANGED <<deployVars, podVars, process, age, pace, faults>>

(* Its elector notices, and manager.Start returns an error at once.        *)
StopLeading(p) ==
  /\ LostLease(p)
  /\ Exit(p)
  /\ UNCHANGED <<deployVars, podVars, faults>>

(* A crash, or caches that do not sync in time. *)
Crash(p) ==
  /\ Fault
  /\ process[p] # "down"
  /\ Exit(p)
  /\ UNCHANGED <<deployVars, podVars>>

(* The end of a pod: SIGTERM stops the manager once its worker is done.    *)
Terminate(p) ==
  /\ p \in stopping
  /\ Exit(p)
  /\ revision' = [revision EXCEPT ![p] = 0]
  /\ stopping' = stopping \ {p}
  /\ UNCHANGED <<deployVars, faults>>

(* Time for the Lease.  A holder that runs renews it, or has stopped       *)
(* before any time goes by after its deadline; one that stands still, or   *)
(* is gone, does neither.                                                  *)
Tick ==
  /\ holder # "nobody"
  /\ holder \in Pod => pace[holder] = "stalled"
  /\ age < LeaseDuration /\ age' = age + 1
  /\ UNCHANGED <<deployVars, podVars, process, holder, pace, faults>>

(* Nothing tells the holder, and nothing fences its writes.                *)
LeaseExpires ==
  /\ holder # "nobody"
  /\ age >= LeaseDuration
  /\ holder' = "nobody" /\ age' = 0
  /\ UNCHANGED <<deployVars, podVars, process, pace, faults>>

-----------------------------------------------------------------------------
(* The Deployment, its ReplicaSets and what happens to their pods.         *)
Ready(p) == p \notin stopping /\ process[p] \in Serving
Live(r) == {p \in Pod \ stopping : revision[p] = r}
Available == {r \in scaled : \E p \in Live(r) : Ready(p)}

Apply(r) ==
  /\ rollouts < MaxRollouts /\ rollouts' = rollouts + 1
  /\ r # latest
  /\ latest' = r
  /\ UNCHANGED <<scaled, podVars, process, leaseVars, pace, faults>>

(* One replica, and one more during a rollout. *)
ScaleUp ==
  /\ latest \notin scaled
  /\ Cardinality(scaled) < 2
  /\ scaled' = scaled \cup {latest}
  /\ UNCHANGED <<latest, rollouts, podVars, process, leaseVars, pace, faults>>

(* An old ReplicaSet goes when one replica remains that is not just        *)
(* starting: at once if it is not available itself, else once another is.  *)
ScaleDown(r) ==
  /\ r \in scaled \ {latest}
  /\ Cardinality(scaled \ ({latest} \ Available)) > 1
  /\ r \in Available => Cardinality(Available) > 1
  /\ scaled' = scaled \ {r}
  /\ UNCHANGED <<latest, rollouts, podVars, process, leaseVars, pace, faults>>

CreatePod(p, r) ==
  /\ revision[p] = 0
  /\ r \in scaled /\ Live(r) = {}
  /\ revision' = [revision EXCEPT ![p] = r]
  /\ UNCHANGED <<deployVars, stopping, process, leaseVars, pace, faults>>

DeletePod(p) ==
  /\ revision[p] \notin scaled \cup {0}
  /\ p \notin stopping
  /\ stopping' = stopping \cup {p}
  /\ UNCHANGED <<deployVars, revision, process, leaseVars, pace, faults>>

DrainPod(p) ==
  /\ Fault
  /\ revision[p] # 0 /\ p \notin stopping
  /\ stopping' = stopping \cup {p}
  /\ UNCHANGED <<deployVars, revision, process, leaseVars, pace>>

-----------------------------------------------------------------------------
ProcessStep(p) ==
  \/ Start(p) \/ Configure(p) \/ SyncCaches(p) \/ Elect(p)
  \/ StopLeading(p) \/ Resume(p) \/ Terminate(p)

ProcessFault(p) == RenewalsFail(p) \/ Stall(p) \/ Crash(p)

DeploymentStep ==
  \/ ScaleUp
  \/ \E r \in Revision : ScaleDown(r) \/ \E p \in Pod : CreatePod(p, r)
  \/ \E p \in Pod : DeletePod(p)

Next ==
  \/ \E p \in Pod : ProcessStep(p) \/ ProcessFault(p) \/ DrainPod(p)
  \/ \E r \in Revision : Apply(r)
  \/ DeploymentStep
  \/ Tick \/ LeaseExpires

Fairness ==
  /\ \A p \in Pod : WF_vars(ProcessStep(p))
  /\ WF_vars(DeploymentStep)
  /\ WF_vars(Tick \/ LeaseExpires)

Spec == Init /\ [][Next]_vars /\ Fairness
-----------------------------------------------------------------------------
(* Types; and main serves no probe without a health source it could        *)
(* configure, whatever the flags.                                          *)
TypeOK ==
  /\ latest \in Revision /\ scaled \subseteq Revision
  /\ revision \in [Pod -> Revision \cup {0}]
  /\ stopping \subseteq {p \in Pod : revision[p] # 0}
  /\ process \in [Pod -> Process]
  /\ holder \in Pod \cup {"nobody", "gone"}
  /\ age \in 0 .. LeaseDuration
  /\ pace \in [Pod -> {"running", "stalled", "late"}]
  /\ rollouts \in 0 .. MaxRollouts /\ faults \in 0 .. MaxFaults
  /\ \A p \in Pod :
       /\ process[p] # "down" => revision[p] # 0
       /\ process[p] \in Serving => NewHealthSource(Args[revision[p]]) # "error"

Reconciling == {p \in Pod : process[p] = "reconciling"}

(* What main is to accept: one of the three sources, a usable selector.    *)
Sound(r) ==
  /\ Args[r].source # "unsupported"
  /\ Args[r].source = "dcgm" => Args[r].selector = "valid"

Remediating == {p \in Reconciling : pace[p] # "stalled" /\ Sound(revision[p])}

Leading == {p \in Reconciling : Args[revision[p]].election}

(* Two processes that elect reconcile at once only if one of them stood    *)
(* still for longer than its RenewDeadline: it may be reconciling when its *)
(* Lease is another's, until its elector notices.  A leader that loses its *)
(* Lease in any other way has stopped before another one starts.           *)
OverlapOnlyAfterStall ==
  \A p, q \in Leading :
    p # q => \E l \in {p, q} : pace[l] # "running" /\ holder # l

(* A revision that main refuses does not end remediation: the pod of the   *)
(* revision before it runs on, or runs again.  With MaxRollouts = 1: when  *)
(* a second refused one comes while that pod restarts, the Deployment      *)
(* takes that replica for the broken one.                                  *)
RemediationSurvives ==
  [](Remediating # {} => []<>(Remediating # {}))

(* Once the template is left alone, and main accepts it, its processes     *)
(* take over: the others end, and observe through no other source.         *)
LatestTakesOver ==
  \A r \in Revision :
    Sound(r) /\ <>[](latest = r)
    => <>[](/\ Reconciling # {}
            /\ \A p \in Reconciling : revision[p] = r)
=============================================================================

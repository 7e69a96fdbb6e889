# A TLA+ model of the GPU remediation lab

The repository runs GPU training jobs on Kubernetes and keeps them going when a GPU
goes bad: a node health controller observes each GPU node, taints a degraded one,
evicts the training pods that opted in, and takes the taint off after a continuous
healthy window; the evicted job is recreated as a whole by JobSet and resumes from a
checkpoint. This directory holds TLA+ modules for the parts of that loop that decide
something, the TLC configurations that check them on small instances, and proofs,
checked by TLAPS, of their safety for every instance.

Paths below are relative to the repository (`src/`); `C/` is
`apps/gpu-node-health-controller/`.

## 1. The system

| Part | State it keeps | Operations | Talks to |
|---|---|---|---|
| Health policy, `C/internal/health` | none (pure) | `ParseState`, `DecideIsolation`, `decideRecovery`, `continueRecovery` | called by the reconciler |
| Reconciler, `C/internal/controller/node_controller.go`, `node_isolation.go`, `node_recovery.go` | all of it on the Node object: the health annotations, the ownership marker `node-health-managed`, the degraded taint | `Reconcile`: Get, Observe, decide, mutate a copy, Update, List pods, Evict each | API server, through an informer cache for reads; the health source; the pod evicter |
| Pod evicter, `pod_evicter.go` | none | `isImpactedTrainingPod`, `Evict` | API server |
| Annotation source, `C/internal/health/source/annotation.go` | none: it reads annotations of the Node copy | `Observe` | recovery tests, which write the annotations |
| DCGM source, `source/dcgm.go` | none | `Observe` (list exporter pods, choose, scrape), `EvaluateXIDMetrics` | exporter pods over HTTP |
| Work queue, `node_controller.go` (`SetupWithManager`, the results of `Reconcile`) and controller-runtime | nodes queued, dirty, in work, delayed; failures in a row | event filter, add, requeue after the poll interval or a backoff, one worker | informer events in, `Reconcile` out |
| Manager, `C/cmd/controller/main.go` | the process: configuring, serving probes, syncing, electing, reconciling; the Lease | start-up, election, exit | its Deployment (one replica, rolling update), kubelet, API server |
| DCGM metrics simulator, `apps/dcgm-metrics-simulator/app.py` | one XID in memory | GET /metrics, PUT and DELETE of the state | scraped by the DCGM source, driven by tests |
| SmolLM training, `apps/smollm-training-workload/train.py` | per rank: model, optimizer and step; shared: `step_N.pt`, `latest.pt` | rendezvous, resume, optimizer step, collectives, checkpoint | other ranks, shared storage, JobSet |
| Local training, `apps/local-training-workload/train.py` | the same in small, with a barrier in every step | | |
| Recovery harnesses, `tests/recovery/*` | observations of one scenario | inject a fault, wait, confirm recovery, assert | API server, simulator, JobSet |
| Manifests and infrastructure, `cluster/`, `infra/` | configuration | JobSet `Recreate`, `maxRestarts` | |

How they interact: a health source turns what a node's exporter or annotations say into
*healthy*, *degraded* or *unknown*. The reconciler combines that with the previous state,
persisted on the Node, into a decision, and writes state and taint in a single Update.
Only if the decision is degraded does it go on to list and evict pods. The scheduler
reads the taint; the JobSet reacts to the evicted pod's failure; the ranks come back
through the rendezvous and the checkpoint files.

What is hard in it, and so what the properties are about:

- **Stale copies.** The Node is read from a cache, observed for up to five seconds and
  written back. Only the API server's version check stands between an old copy and the
  isolation of a bad node. A rollout overlaps two controllers, with no leader election.
- **Two pieces of state for one fact.** The taint and the annotation that claims it are
  separate; administrators and other tools write the taint and do not know the marker.
- **The queue.** An event that arrives while its node is in work, a node that vanishes and
  comes back, an error beside a poll result, a dead exporter that holds the only worker:
  none may lose a node or a change.
- **Rollouts.** A Deployment removes the old process on the word of a readiness probe that
  is a ping; a revision that `main` refuses must not end remediation.
- **A window of time**, kept as one timestamp that survives restarts: it must neither
  span evidence of a fault nor be restarted for ever.
- **Partial failure.** The Update, the List and each Eviction can fail or be cut short
  by a crash, and whatever was not done must be done by a later reconcile.
- **The scheduler** may have chosen the node before the taint was stored.
- **Choosing and scraping** an exporter are two calls; pods come and go in between.
- **Collectives.** Ranks must load the same checkpoint, and reach the same collective,
  or wait for a timeout; a checkpoint is two files and rank 0 can die between them.
- **Resumption.** Each rank finds its own place in the data and its own random state, from
  a file that rank 0 wrote.
- **The recovery test** judges the job by logs it reads from outside, while it moves on.

`PROJECT.json` lists every hazard at its line, with the properties that cover it.

## 2. The modules

| Module | What it models | Built on |
|---|---|---|
| `HealthPolicy` | health states, `ParseState`, the isolation and recovery decision | |
| `NodeObject` | the Node's annotations and taint, `applyHealthAnnotations`, `isolateNode`, `recoverNode`, the annotation source's observation | `HealthPolicy` |
| `NodeHealthController` | `Reconcile` step by step, one or more controllers, caches and versions, other writers, scheduler and pods | `NodeObject` |
| `NodeHealthEvents` | the Kubernetes Events about a node that `Reconcile` publishes | `NodeHealthController` |
| `NodeHealthObservations` | `NodeHealthController` with a history of what was observed, written or not | `NodeHealthController` |
| `NodeIsolation` | abstract: a node is open, isolated, or confirming, and opens only after a whole confirmed window | |
| `NodeTaints` | whole taints with key, value and effect, the API server's rule on them, administrators | `HealthPolicy`; refers to `NodeObject` |
| `ReconcileQueue` | event filter, work queue, delays and backoff, the single worker, restarts | |
| `NodePolling` | abstract: nodes are read one at a time, and a known one again and again | |
| `ControllerRollout` | `main` as the steps of a process, in the pods of a rolling Deployment, with the Lease | |
| `XIDMetrics` | the XID policy table and `EvaluateXIDMetrics` | |
| `XIDLoop` | the loop of `EvaluateXIDMetrics` as it is written, a sample a step | `XIDMetrics` |
| `DCGMExporters` | `DCGM.Observe` against simulator pods that start, stop, move and forget | `XIDMetrics` |
| `TrainingCheckpoint` | ranks, collectives, the two-file checkpoint, JobSet restarts, a process that outlives its pod; both workloads | |
| `TrainingData` | what the ranks have learned from, and what of it is in a checkpoint | `TrainingCheckpoint` |
| `RecoveryFence` | the AWS recovery test of such a job: stop a rank, take the fence, judge the resumption | `TrainingData` |
| `TrainingProgress` | abstract: work becomes durable by saving and only what is not durable is lost | |
| `MCNodeHealthEvents`, `MCNodeTaints`, `MCReconcileQueue`, `MCControllerRollout`, `MCDCGMExporters` | symmetry, views and tables of values for TLC | the module in their name; `MCDCGMExporters` also on `XIDLoop` |

Theorems are in `NodeHealthControllerProofs`, `NodeIsolationProofs`,
`NodeHealthEvictionProofs`, `NodeTaintsProofs`, `ReconcileQueueProofs`,
`ControllerRolloutProofs`, `DCGMExportersProofs` and `TrainingCheckpointProofs`.

How they compose: `NodeHealthController` takes its observations from `exposed`, what
`DCGMExporters` computes, or from the annotations; its `Begin` is what `ReconcileQueue`
is shown to provide (`ImplementsNodePolling`); its taint is `NodeTaints`' reduced to the
exact one (`ReducesToNodeObject`); its controllers are the processes that
`ControllerRollout` lets overlap. The training modules form one specification,
`RecoveryFence!FenceSpec`, of the job, its data and the test that watches it.

Definitions whose comment calls them *slips* are plausible bugs of the code, kept beside
the definition they would replace. Each property has one that breaks it, named in
`PROJECT.json`.

### HealthPolicy and NodeObject

The code compares two clock readings and only through `now - recoveryStartedAt >=
recoveryWindow`. The model keeps that difference as an age, capped at `RecoveryWindow`
(`Capped`, `Older`), and `NoTime` where the annotation is absent. The abstraction is
exact: beyond the window an age has no further effect. An annotation time that does not
parse reads as absent in the code and is not a separate value here. `DecideIsolation`,
`DecideRecovery` and `ContinueRecovery` have the branches of their Go namesakes.

`NodeRecord` is what the controller reads and writes of a Node. `taint` also says who put
the taint there; no operator that models code looks at that, it serves the properties.
`observedAt` distinguishes a clock reading, which is never equal to the stored one and so
always makes an Update necessary, from a confirmation's own time, which is how a
reconcile can find nothing to change. Source, reason and device annotations follow from
state and time and are left out.

### NodeHealthController

| Action | Code |
|---|---|
| `Begin` | `Get` from the cache and `reconciledAt` |
| `Observe` | `HealthSource.Observe` on the copy |
| `UpdateSucceeds`, `UpdateFails`, `NothingToUpdate` | decision, mutation of the copy, `Update` if changed, return unless degraded |
| `ListPods`, `ListFails` | `List` and `isImpactedTrainingPod` |
| `EvictAccepted`, `EvictNotFoundOrFails`, `EvictionsDone` | the loop over the impacted pods, the joined error |
| `Crash`, `CacheSync` | process exit and restart, informer delivery |
| `StatusWrite`, `AdminTaint`, `AdminUntaint`, `InjectFault`, `ConfirmRecovery`, `RemoveConfirmation`, `Expose` | the kubelet, administrators, recovery tests, the exporter |
| `Assume`, `Bind`, `Finish`, `Delete`, `Vanish` | the scheduler's choice and its later binding, the pod's life |
| `Tick` | the clock |

`resourceVersion` is modelled by what it does: `fresh` holds the cached copies that are
the latest version of their node, `current` the workers whose copy is; a write of the
node outdates both (`Outdate`), and only a current copy can be updated. A decision
taken at `reconciledAt` is written later: `elapsed` carries the time in between, and the
node written is the proposal aged by it. A controller has a single worker
(controller-runtime's default); two controllers are two processes. Pods are used once: an
evicted pod is not recreated under the same name, and a fresh one is another element of `Pod`.

History variables: `evidence`, the ages of the last degraded and the last non-healthy
state written to a node, and `pulled`, the nodes whose taint was removed by hand and not
touched by the controller since. The safety properties are stated in terms of what was
*written*; what was observed and lost is the subject of `NodeHealthObservations`.

### NodeHealthEvents

`TransitionEvents` is computed, as in `node_controller.go:120-184`, from the copy that was
read and the copy that was written; `Happened` is what became of the node in the store.
That they agree at every successful Update is where the version check, repeats and second
controllers matter. Reasons and messages, and the events about single pods, are left out.

### NodeTaints

A reconcile is one step, on all three fields of every taint. `Valid` is the API server's
rule that no two taints share key and effect, under which `Reconcile` is refused;
`Taint` and `Untaint` are `kubectl taint`. `Reduced` maps a node to `NodeObject`'s record.

### ReconcileQueue

| Action | Code |
|---|---|
| `NodeAppears`, `NodeDisappears`, `Annotated` | the informer's cache; `UpdateFunc` is the filter in `SetupWithManager` |
| `Deliver`, `TimerFires` | event handlers and the delaying queue, both through `Add` |
| `Take`, `Read` | the worker takes a node; `Get` |
| `Succeeds`, `Fails`, `EndsAbsent` | the returns of `Reconcile`: poll result, error (the result beside it is dropped and the backoff counts up), NotFound |
| `Restart` | a new process: everything in memory is gone |
| `Tick` | a tick of time, only while nothing is due at once |

A `Reconcile` may take up to `ReconcileTime` ticks, for every call in it that times out.
`Range`, `DoneAddAfter` and the two sets are controller-runtime's, modelled from how the
reconciler uses it.

### ControllerRollout

`Start`, `Configure`, `SyncCaches`, `Elect` are `main` in its order: flags and health
source, `manager.Start` with the probes first, caches, election, workers. An error exits
the process. `RenewalsFail`, `Stall`, `Crash`, `DrainPod` are faults, `Apply` a new revision,
and `ScaleUp`, `ScaleDown`, `CreatePod`, `DeletePod`, `Terminate` what the Deployment, its
ReplicaSets and the kubelet do, with one replica and the default surge of one.

The Lease has an `age`, two lengths (`RenewDeadline`, `LeaseDuration`) and a `holder` who is
not told when it expires (`LeaseExpires`). A leader that runs either renews it or, when its
elector finds that it could not by the deadline, leaves `manager.Start` with an error and
exits (`StopLeading`); no time passes between the two. A leader that stands still (`Stall`) does
neither: its Lease ages (`Tick`), expires and may become another's, and after `Resume` it goes
on reconciling as it was until its elector notices. `OverlapOnlyAfterStall` says that this is
the only way to two leaders, and the run reaches it.

### XIDMetrics, XIDLoop and DCGMExporters

`EvaluateXIDMetrics` is stated declaratively: the first sample that decides, else all
classified. `XIDLoop` is the Go loop, an action for each way through its body (`NoNumericValue`,
`ContinueUnclassified`, `ReturnDegraded`, `ContinueClear`) and one after it, and
`EvaluatesLikeTheLoop` says that the two agree. A
scrape that fails, is not 200 or does not parse is `Unanswered`. In `DCGMExporters` the
DaemonSet keeps at most one exporter on a node and does not give a pod name or address
to another pod while an observation still holds it; what the code would do otherwise is
not claimed (see the hazards at `dcgm.go:100` and `dcgm.go:114`).

### TrainingCheckpoint

A checkpoint is the step it was taken at. A collective is one action of all ranks;
loading, publishing, finishing and failing are actions of one. `Recreate` restarts the
whole group, `GiveUp` ends the job when `maxRestarts` is used up. With `Lingering`, rank
0's pod may be force-deleted while its process goes on saving on a node that was cut off.
Every generation may leave such a process behind (`orphan`), and several may be there at once;
the history variable `disturbed` tells whether one published since the group last started.
`program` is the workload:
`LocalStep` is the local one's step, save and heartbeat in every step. A group is `Stuck` when
no rank failed, none can go on alone (`Unhindered`) and not all are at the same collective
(`Together`); only then `TimeOut` ends a rank. `JobEnds` would fail if a group that cannot
go on were not `Stuck`.

### TrainingData

`learner` is what a rank holds in memory, `payload` what rank 0 collected to save, and
`content` what the files hold. A model is the list of what its optimizer steps were made
of, so two models are equal exactly if they learned the same things in the same order.
`Resume` restores, `Learn` consumes the rank's next rows (`rank_examples`) and random
numbers, `Collect` gathers the random states, `SaveStep` and `SaveLatest` write. The
optimizer's moments and the scaler go with the adapter. The local workload draws synthetic
data that is not part of its checkpoints; `ResumesWhereItWas` is about SmolLM.

### RecoveryFence

| Action | Code in `tests/recovery/aws_training/harness.py` |
|---|---|
| `ReachStep`, `PauseWorker` | `_wait_for_progress` and the first checkpoint read; `_pause_worker` |
| `ObserveLog` | one poll of `_wait_for_quiescence`, which aborts on any change of the pod |
| `SeeReplacement`, `ReadResumed`, `Judge` | the old UID gone, a new pod; `_wait_for_resume` rank by rank; the comparison with the fence |
| `SeeProgress`, `AbortTest` | the recovered step; any error, and `_best_effort_resume` |

`JobStep` is any step of the job; a stopped victim stands still in it. `Log` is what the
harness later parses of the pods' logs (`tests/recovery/common/observations.py`); rank
0's line about a checkpoint follows the rename at once. What makes the victim's pod go is
any failure of the job. The test knows the pods it began with, in whichever generation
(`first`). A save takes any number of ticks; the history variable `unfinished` holds for how
long one had been running when the fence was taken.

## 3. The runs

| Run | Instance | What it shows |
|---|---|---|
| `nhc_race` | 1 node, 2 controllers, window 2, annotation source, 2 confirmations and 1 that does not parse, administrators remove any taint | `IsolatedAfterDegradedEvidence`, `ManagedTaintIsOwn`, `RecoveryIsContinuous`, `ReleasedOnlyAfterQuietWindow`, `ReleasedOnlyWhileConfirmed`, `ForeignTaintKept`, `EventsTellChanges`, and the refinement `ImplementsNodeIsolation` |
| `nhc_live` | 1 node, 1 controller, DCGM source, 1 pod, fairness | `EvictionUnderIsolation`, `NoPlacementDuringEviction`; `DegradedNodeIsolated`, `HealthyNodeReleased`, `DegradedNodeVacated` |
| `node_taints` | the exact taint, one in its slot, one with its key, an unrelated one; fairness | `OtherTaintsKept`, `ReducesToNodeObject`, `IsolatedUnlessSlotTaken` |
| `queue` | 2 nodes, a poll interval of 0 (2 stands in), backoffs 0, 1, 3, reconciles of up to 1 tick, 2 changes; fairness | `NoNodeForgotten`, `ChangeNeverLost`, `ReadInTime`, `NeverSpins`, `ImplementsNodePolling` |
| `rollout` | 3 pods, 4 revisions of which `main` refuses 2, 1 rollout, 2 faults, a Lease of 2 with deadline 1; fairness | `OverlapOnlyAfterStall`, `LatestTakesOver`, `RemediationSurvives` |
| `dcgm_exporters` | 2 nodes, 3 exporters, XIDs 0, 79 and an invalid 1000; scrapes of up to 4 samples from 6 values | `HealthyOnlyAfterExplicitClear`; `EvaluatesLikeTheLoop` |
| `training_safety` | SmolLM, 3 ranks, 5 steps, a checkpoint every 2, 3 restarts, with the AWS test (window 2, saves of any length) | `RanksInStep`, `BoundedLoss`, `ImplementsTrainingProgress`, `ResumesWhereItWas`, `FenceIsExact`, and `RanksNeverStuck`: without a failure no rank waits for a timeout |
| `training_overlap` | either workload, 2 ranks, 4 steps, a checkpoint at each, 3 restarts, rank 0 processes that outlive their pods, fairness | what still holds then: `LatestHasStepFile`; `RegressesOnlyWhenDisturbed`, for `latest.pt` does regress; and `JobEnds`, now also by timeouts and the restart limit |

Four runs end in a counterexample, each to a sentence of the repository:

| Run | Claim | What happens |
|---|---|---|
| `nhc_observed` | `recovery_policy.go:5-6`: isolation is preserved until healthy evidence "has remained continuous" | an observation exists only in the object being updated; if that Update fails, a degraded or unknown observation is forgotten, and the window runs across it |
| `nhc_foreign` | `node_isolation.go:30-32`: the controller "must never later remove isolation created by another actor" | the marker outlives the taint: remove the controller's taint by hand, add your own, and recovery removes yours |
| `nhc_retry` | `docs/blog.md:120`: evictions are retried "through normal reconciliation" | only a degraded decision evicts; if observations turn unknown after a refused eviction, the pod stays |
| `training_lingering` | `train.py:5-6`: "every rank then restores the same atomic EFS checkpoint" | a SmolLM rank 0 that outlived its force-deleted pod replaces `latest.pt` between two ranks' loads; `docs/learnings.md:33` knows generations that overlap after a force deletion, there in the rendezvous store |

The properties proved or checked without them say what does hold: over *written* evidence
for the first, with `n \in pulled` as the exception for the second, as long as the node
stays degraded for the third, and for the fourth in every group during whose life no process
that outlived its pod has published (`RestartsHeal`).

### Bounds, and why they are enough

- *Window 2* gives the ages 0, 1 and 2: just recorded, under way, elapsed. Off-by-one
  slips and restarted windows show at 2 and not at 1. The proofs cover every window.
- *One node.* Nothing in the reconciler relates two nodes except that one worker handles
  one at a time; the safety theorems hold for any set of nodes. Two nodes exceed what TLC
  can explore in minutes.
- *Two controllers* are a rollout's. With two, every interleaving of two copies of one
  version is there; a third adds another loser of the same race. With the annotation source
  an observation is as old as the copy, the harder case; that the same holds with the DCGM
  source and two controllers is proved, for either source. `nhc_live` has one controller:
  with two, the other one may end the isolation while this one is still evicting, and the
  code does not prevent that.
- *One pod* in `nhc_live`, since the fairness of every Eviction multiplies; that several
  pods, opted in or not, are treated right is proved (`EvictsOnlyIsolated`,
  `PlacesElsewhere`).
- *Queue*: two nodes are what it takes for one to wait for the other. Two changes are a
  deletion and a recreation, or a restart or annotation at any point of a reconcile. The
  interval 0 exercises `pollInterval`'s default; backoffs end above the poll interval.
- *Rollout*: three pod names are two running and one terminating. One rollout, because
  `RemediationSurvives` does not hold for two: when a second refused revision comes while the
  good revision's pod restarts, the Deployment's clean-up of unavailable old ReplicaSets
  may remove the good one. That is Kubernetes' rule, not this code's.
- *The Lease*: lengths of 1 and 2 keep the two deadlines apart, which is all that the order of
  events depends on; the theorem has every pair. Two faults are a stall and another fault of
  either process.
- *The fence*: a window of 2 tells "some time" from "the whole window". Saves are not bounded:
  `saving` stops counting at the window, beyond which its value says nothing more.
- *Symmetry* is used for controllers, in `nhc_race` only.
- *View.* `LatestView` leaves out the cache and the contents of outdated working copies.
  A fresh cached copy equals the node, and an outdated one cannot be written (see
  `MCNodeHealthEvents`); the lemma `NextFreshCopies` proves the
  first.
- *Training*: five steps and a checkpoint every two give a first checkpoint, a second
  one, and a tail that is never checkpointed. Three restarts allow a failure before,
  between and after the two files of a checkpoint in one behaviour. `training_overlap` saves
  at every step: then a late writer can put back a checkpoint older than one that the next
  group has saved since, and a group that loaded before a late writer published a later one
  can put back an older one itself.
- *Deadlock* is checked except where the system ends: a completed or failed job, and a
  settled Deployment whose processes run on without a further step.

### Fairness

`LiveSpec` of the controller assumes: a reconcile that ended is followed by another
(`RequeueAfter`, or the error's backoff); calls to the API succeed again and again
although any one may fail, hence strong fairness of `Observe`, `UpdateSucceeds`,
`ListPods` and `EvictAccepted`; informers deliver, clocks move, deleted pods go.
Crashes are not bounded: strong fairness survives them. Writes of the node by others
between every Get and its Update would starve the Update, and nothing in the code
prevents that, so `StatusWrite` is assumed to stop; kubelet heartbeats are seconds apart
and a conflict is retried after a backoff that starts at milliseconds. Nothing is assumed
of administrators, exporters or the scheduler: the liveness properties are conditional on
the node *staying* degraded or healthy.

`LiveSpec` of the training job assumes that a group that can progress does, and that
ranks stuck in different collectives are ended by a timeout (`TimeOut`: the process
group's timeout and the rendezvous watchdog, `train.py:57-73`). Failures are bounded only
by `maxRestarts`.

`ReconcileQueue` assumes weak fairness of event delivery, timers, the worker's steps and
time, nothing of the nodes. `ControllerRollout` assumes it of each process (one that stands
still resumes, or the kubelet's probes would have it restarted), of the Deployment's
controllers together, and of time and the expiry of a Lease. `NodeTaints` assumes it
of `Reconcile`, which polling or backoff repeats, and time. `RecoveryFence` assumes
none: the test may stop anywhere.

## 4. What is proved

The theorems hold for every value of the constants that the named ASSUMEs allow: every set of
nodes, controllers and pods, every recovery window greater than zero, both sources, any taints
of administrators; every poll interval and backoff, with finitely many nodes in the queue; every
set of revisions; any number of exporters, GPUs, ranks, steps and restarts. What a theorem
assumes in addition is in its own ASSUME clause: those on evictions a single controller, the one
on confirmations the annotation source, and most of those on the training job that no process
outlives its pod. Its types, its two files, `OnlyTheLateRegress` and `RestartsHeal` do not
assume that.

**The argument** (`NodeHealthControllerProofs`). The properties are not inductive:
a release is decided on a copy that was read, and observed on, earlier. The invariant
`Inv` adds what makes such a copy trustworthy at the moment its Update succeeds:

- `FreshCopies`: a cached copy marked fresh *is* the node;
- `CurrentCopies`: a current working copy differs from the node by its age only, and no
  non-healthy evidence is younger than the copy. This is where optimistic concurrency
  enters: any write of the node, by anybody, takes the worker out of `current`;
- `NodesInv`: degraded evidence is non-healthy evidence (`EvidenceOrdered`), together
  with `RecoveryIsContinuous`, `IsolatedAfterDegradedEvidence` and `ManagedTaintIsOwn`,
  which need each other: a due release has an age of a whole window, the age is bounded
  by that of the evidence, so no degraded evidence is younger than the window.

`OlderFacts`, `AgedFacts`, `DecisionFacts` and `ReconciledFacts` say what the pure
operators return; `UpdateFacts` restates a successful Update as a relation between the
node before and after; `StepCases` reduces every other step to a write of another actor,
a tick, or nothing. From `Invariance` follow the three invariants and, with
`ReleaseStep` and `ForeignTaintStep`, the two action properties.

`NodeIsolationProofs` proves the refinement: non-healthy evidence, the start of a
confirmation and the release are one abstract step each, and the rest stutters.
`NodeHealthEvictionProofs` adds `Observations` (a worker's observation is the one its copy
calls for, and a degraded one always leads to an Update) and proves
`ReleasedOnlyWhileConfirmed`, `EvictionUnderIsolation` and `NoPlacementDuringEviction`.
`EventsAreChanges` follows from `CurrentCopies`: the copy an Update is made of differs from
the node by its age only, and events do not depend on ages.

**The other parts.**

- `NodeTaintsProofs`: both sides of the reduction are compared field by field, the decision
  being the same (`SameDecision`).
- `ReconcileQueueProofs`: `NoNodeForgotten` and `ChangeNeverLost` become inductive with
  `DirtyIsScheduled` (a dirty node is queued or in work) and `UnreadAreKnown`.
  For `ReadInTime` the invariant is `QueueShape` (a node is queued at most once, and not
  while it is in hand) with `Punctual`, which bounds how long ago a node was read by where it
  is now: behind a timer (`TimerInTime`), in hand (`InHandInTime`), or in the queue, where the
  rest of the reconcile in hand and a `ReconcileTime` for each node ahead are still to come
  (`InTurn`); one that is only announced has just appeared (`NoticeInTime`). `QueueLength`
  counts the nodes ahead. TLC checked both parts first, and finds the bound reached: a node is
  read as late as `Latest`.
  `QueuePollsNodes` is the safety half of `ImplementsNodePolling`.
- `ControllerRolloutProofs`: `OverlapOnlyAfterStall` follows from `LeadersHoldLease`, that a
  leader which did not stand still holds the Lease; and that is kept because the Lease of such
  a leader never outlives the deadline (`LeaseInTime`), which is shorter than what others wait.
- `DCGMExportersProofs`: for samples of any length, healthy means every sample is 0
  (`HealthyMeansClear`) and a critical XID is never masked by another GPU's
  (`CriticalMeansDegraded`). `LoopEvaluates` makes these facts about the Go loop: while it
  runs, no sample behind it decides, and `unclassified` says whether one of them is missing
  from the table (`LoopInv`). For `HealthyOnlyAfterExplicitClear`, `Inv` says that a node
  has one exporter, that a chosen one is of the node asked, and that a running container
  reports the last XID put into it.
- `TrainingCheckpointProofs`: `GroupInv` says that the ranks which did not fail are in one of
  a few stages (`InOneStage`), what `step` is in each (`StepsInv`), and that a checkpoint
  is due at every file's step. From it `RanksStayInStep`, `LossIsBounded` (with
  `DueAgain`: from any step the next due one is at most `CheckpointEvery` away),
  and the refinement `ProgressIsDurable`. `ResumptionIsExact` adds
  `DataInv`: memory, payload and files each hold what that many uninterrupted steps are
  made of; its core is `OneBlock`, that the ranks' rows of a step are a block of the dataset.
- `CalmInv` says the same of a group as long as it is not `disturbed`, without assuming that no
  process outlives its pod: restarts establish it whatever the files hold by then. Hence
  `RestartsHeal`, and `OnlyTheLateRegress`: in a calm group `latest.pt` is at most rank 0's step.
- `GroupNeverStuck` reads off `InOneStage` that in every stage a rank goes on alone or all are
  at one collective (`GroupGoesOn`); it also needs that ranks are done only at the last step
  (`DoneAtEnd`).
- `DataKeepsTheJob` and `TestOnlyWatches` are the refinements between the training modules: a
  behaviour of the job with its data, or under the recovery test, is a behaviour of the job.
  `TestedJobKeepsPromises` draws the conclusion: all of the above hold while it is tested.
- `FenceHolds` adds `TestInv`: from the pause on the group the test began with starts no save,
  and one that was running has run for as long as the log was quiet; so when the fence is taken
  it is over, or `unfinished` is the whole window. If it is over, `latest.pt` is the fence until
  every rank of the next group has loaded it.

**Only model-checked**: liveness (`DegradedNodeIsolated`, `HealthyNodeReleased`,
`DegradedNodeVacated`, `IsolatedUnlessSlotTaken`, `NeverSpins`, `LatestTakesOver`,
`RemediationSurvives`, `JobEnds`, and the fairness of `ImplementsNodePolling`), since fairness
is out of TLAPS's reach. Every other property of the passing runs is stated by a theorem.

**Seen while modelling, without a run of their own.**

- A taint with the controller's key and effect and another value is not recognised
  (`node_isolation.go:52`); appending the controller's own makes the API server refuse
  the Update, every time, and the node is never recorded as degraded. Hence the condition
  in `IsolatedUnlessSlotTaken`.
- An error beside the poll result makes controller-runtime drop the poll and back off
  (`node_controller.go:248`): a node with one pod that may not be evicted is observed ever
  more rarely, up to the longest backoff. `ReadInTime` bounds it by that.
- `-leader-elect` (`main.go:53`) needs a Lease, which the ClusterRole in the controller's
  manifest does not grant; such a process is ready (`main.go:145` is a ping) and never
  reconciles. `GrantsLeases` is that permission, and `LatestTakesOver` assumes it.
- During a rollout that changes the health source, two processes reconcile by different
  sources until the old one ends. `LatestTakesOver` says that it ends.
- `docs/experiments/smollm_stalled_rank_xid_recovery_2026-08-24.md:28` says that passing the
  recovery test "requires controller-owned isolation and eviction of that exact stopped
  pod". The stopped pod's UID also disappears when its peers time out and JobSet
  recreates the group; the test would go on.
- Nothing bounds a save by the 30 seconds the log must be quiet (`harness.py:632`). Without
  the second exception in `FenceIsExact` TLC has rank 0 still saving when the fence is taken,
  the checkpoint published afterwards, and the test blame the workload for resuming it.
- After a force deletion a late rank 0 puts an older `latest.pt` back (`train.py:162` compares
  nothing, nor does the local workload), and the next group resumes from it.
  `tests/recovery/kind/harness.py:120-124` would then report that the checkpoint regressed.
- With election a leader that stood still for longer than its Lease reconciles on beside its
  successor: client-go fences no writes. Election then gives no more than the version check
  on each Update, and what that gives two controllers is the subject of `nhc_race`.

## 5. What is not modelled

- Two ready exporters on one node (`dcgm.go:100`), and addresses reused by other pods
  (`dcgm.go:114`): the DaemonSet and the pod network exclude or allow them, not this code.
- Step files from number 1000000 on, whose names sort before older ones (`train.py:86`),
  and relaunches with arguments that `run_config` leaves out (`train.py:266`).
- Events about single pods, the wording of events and reasons, logging and metrics: no
  decision reads them.
- The arithmetic of training, rendering and tokenizing; the optimizer's and the scaler's state
  apart from the adapter.
- The AWS training test's checks of placement, its DCGM injections and its waits for the
  node's health, and its reports; the AWS DCGM injection test and the kind harness's waits:
  each drives or reads from outside what the other modules model, and keeps no state.
- kubectl, polling and reporting helpers: pure I/O.
- Terraform, manifests and images: configuration, which enters as constants.

## 6. Plan

Done: the controller and its proofs up to the refinement; events, whole taints and the
work queue; the controller's process and its rollout; XID evaluation and exporters; the
training job, its data, the local workload, the recovery test's fence; and the proofs of
each.

To come, in this order:

1. `Remediation`: controller, scheduler, JobSet and training composed; a degraded node's
   job resumes elsewhere from the last checkpoint. Abstract specification: a job that
   makes durable progress on healthy nodes. `RecoveryFence` would then have the eviction
   as the cause of the victim's end.
2. `DCGMExporters` with two exporters per node and reused addresses, composed with the
   reconciler in place of `Expose`.

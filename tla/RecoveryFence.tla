--------------------------- MODULE RecoveryFence ---------------------------
(***************************************************************************)
(* The AWS recovery test of a SmolLM job: it stops the last rank's worker, *)
(* takes the step and the checkpoint that rank 0's log then shows for a    *)
(* while as the recovery fence, has the node's GPU fail, and requires the  *)
(* recreated ranks to resume from exactly that checkpoint.  The job is     *)
(* TrainingData's; what makes the stopped rank's pod go away, the node     *)
(* health controller's eviction or anything else, is one of its failures.  *)
(*                                                                         *)
(* Time passes while the test watches the log.  Nothing in the workload or *)
(* the test bounds how long a save, with the line that reports it, takes.  *)
(***************************************************************************)
EXTENDS TrainingData

CONSTANTS
  AfterStep,          \* the test begins when rank 0 is past this step
  QuiescenceWindow

ASSUME FenceAssumption == AfterStep \in Nat /\ QuiescenceWindow \in Nat \ {0}

VARIABLES
  logged,    \* the last step and checkpoint in the log of rank 0's pod
  resumed,   \* the checkpoint in each pod's resumed_from line
  stopped,   \* whether the victim's worker is stopped
  saving,    \* how long rank 0 has been saving, up to QuiescenceWindow
  test,      \* where the test is
  first,     \* which generation's pods the test began with
  observed,  \* the last observation of the log
  quiet,     \* for how long it has been the same
  fence,     \* the step and the checkpoint the group stalled at
  unfinished, \* history: how long a save had run when the fence was taken
  found      \* what the ranks asked so far resumed

logs == <<logged, resumed>>
testVars == <<test, first, observed, quiet, fence, unfinished, found>>
fenceVars == <<logs, stopped, saving, testVars>>

Victim == WorldSize - 1

NoLog == [step |-> 0, checkpoint |-> 0]

FenceInit ==
  /\ DataInit
  /\ logged = NoLog
  /\ resumed = [r \in Rank |-> 0]
  /\ stopped = FALSE
  /\ saving = 0
  /\ test = "baseline"
  /\ first = 0
  /\ observed = NoLog
  /\ quiet = 0
  /\ fence = NoLog
  /\ unfinished = 0
  /\ found = <<>>

-----------------------------------------------------------------------------
(* The job, its logs, and a worker that does nothing while it is stopped   *)
(* but be killed.  A recreated rank is a new pod with an empty log.        *)
Saves(p) == p \in {"savingStep", "savingLatest"}
Gone(r) == phase'[r] \in {"starting", "failed"}

StandsStill == Gone(Victim) \/ UNCHANGED <<phase[Victim], step[Victim]>>

Log ==
  /\ logged' =
       IF phase'[0] = "starting" THEN NoLog
       ELSE [ step |-> IF phase[0] = "training" /\ step'[0] > step[0]
                       THEN step'[0] ELSE logged.step,
              checkpoint |-> IF phase[0] = "savingLatest" /\ phase'[0] = "barrier"
                             THEN step[0] ELSE logged.checkpoint ]
  /\ resumed' = [ r \in Rank |->
       CASE phase'[r] = "starting" -> 0
         [] phase[r] = "joined" /\ phase'[r] = "loaded" -> step'[r]
         [] OTHER -> resumed[r] ]

JobStep ==
  /\ DataNext
  /\ stopped => StandsStill
  /\ Log
  /\ stopped' = (stopped /\ ~Gone(Victim))
  /\ saving' = IF Saves(phase'[0]) THEN saving ELSE 0
  /\ UNCHANGED testVars

Tick ==
  /\ test = "fencing" /\ quiet < QuiescenceWindow
  /\ saving' = IF Saves(phase[0]) /\ saving < QuiescenceWindow
               THEN saving + 1 ELSE saving
  /\ quiet' = quiet + 1
  /\ UNCHANGED <<vars, dataVars, logs, stopped>>
  /\ UNCHANGED <<test, first, observed, fence, unfinished, found>>

-----------------------------------------------------------------------------
(* The test.  It knows the pods it started with, by name and UID; the job  *)
(* may have restarted before.                                              *)
FirstPods == restarts = first

Unmoved == UNCHANGED <<vars, dataVars, logs, saving>>

(* _wait_for_running_pod, _wait_for_progress, and the checkpoint the fence *)
(* must not fall behind.  The pods are those of the generation whose log   *)
(* shows the progress: a log of pods that were replaced shows none.        *)
ReachStep ==
  /\ test = "baseline"
  /\ first' = restarts
  /\ logged.step > AfterStep /\ logged.checkpoint # 0
  /\ test' = "ready"
  /\ fence' = logged
  /\ UNCHANGED <<stopped, observed, quiet, unfinished, found>> /\ Unmoved

(* _pause_worker: SIGSTOP to the process whose PID file there is.          *)
PauseWorker ==
  /\ test = "ready" /\ FirstPods
  /\ phase[Victim] \notin {"done", "failed"}
  /\ stopped' = TRUE
  /\ test' = "fencing"
  /\ UNCHANGED <<first, observed, quiet, fence, unfinished, found>> /\ Unmoved

TakeFence ==
  /\ test' = "fenced" /\ fence' = logged
  /\ unfinished' = IF Saves(phase[0]) THEN saving ELSE 0

(* A slip: two equal observations are enough.                              *)
QuiescentAtOnce ==
  /\ observed' = logged
  /\ quiet' = 0
  /\ IF logged # observed THEN UNCHANGED <<test, fence, unfinished>> ELSE TakeFence

Quiescent ==
  \/ /\ logged # observed
     /\ observed' = logged /\ quiet' = 0
     /\ UNCHANGED <<test, fence, unfinished>>
  \/ /\ logged = observed
     /\ quiet >= QuiescenceWindow
     /\ TakeFence
     /\ UNCHANGED <<observed, quiet>>

(* _wait_for_quiescence: the pod is still there with its worker stopped,   *)
(* and the checkpoint not older than before; else the test aborts.         *)
ObserveLog ==
  /\ test = "fencing"
  /\ FirstPods /\ stopped /\ logged.checkpoint >= fence.checkpoint
  /\ Quiescent
  /\ UNCHANGED <<stopped, first, found>> /\ Unmoved

(* _wait_for_uid_to_disappear, and the replacement's pod.                  *)
SeeReplacement ==
  /\ test = "fenced" /\ ~FirstPods
  /\ test' = "replaced"
  /\ UNCHANGED <<stopped, first, observed, quiet, fence, unfinished, found>>
  /\ Unmoved

(* _wait_for_resume, of one rank after the other.                          *)
ReadResumed ==
  /\ test = "replaced" /\ Len(found) < WorldSize
  /\ resumed[Len(found)] # 0
  /\ found' = Append(found, resumed[Len(found)])
  /\ UNCHANGED <<stopped, test, first, observed, quiet, fence, unfinished>> /\ Unmoved

Judge ==
  /\ test = "replaced" /\ Len(found) = WorldSize
  /\ test' = IF \A i \in DOMAIN found : found[i] = fence.checkpoint
             THEN "resumed" ELSE "wrong checkpoint"
  /\ UNCHANGED <<stopped, first, observed, quiet, fence, unfinished, found>>
  /\ Unmoved

SeeProgress ==
  /\ test = "resumed"
  /\ logged.step > fence.step
  /\ test' = "passed"
  /\ UNCHANGED <<stopped, first, observed, quiet, fence, unfinished, found>>
  /\ Unmoved

(* Any wait may time out, any command or check fail; _best_effort_resume   *)
(* then continues the worker, if it can.                                   *)
AbortTest ==
  /\ test \notin {"passed", "failed", "wrong checkpoint"}
  /\ test' = "failed"
  /\ stopped' \in {stopped, FALSE}
  /\ UNCHANGED <<first, observed, quiet, fence, unfinished, found>> /\ Unmoved

FenceNext ==
  \/ JobStep \/ Tick
  \/ ReachStep \/ PauseWorker \/ ObserveLog
  \/ SeeReplacement \/ ReadResumed \/ Judge \/ SeeProgress \/ AbortTest

FenceSpec == FenceInit /\ [][FenceNext]_<<vars, dataVars, fenceVars>>

-----------------------------------------------------------------------------
(* The test blames the workload for resuming another checkpoint than the   *)
(* fence only if the group failed once more while the ranks were asked, or *)
(* if a save was still running when the fence was taken, after a whole     *)
(* window in which the log had not changed: nothing else that the stalled  *)
(* ranks still do moves the fence (_wait_for_quiescence, run).             *)
FenceIsExact ==
  test = "wrong checkpoint" =>
    restarts > first + 1 \/ unfinished >= QuiescenceWindow
=============================================================================

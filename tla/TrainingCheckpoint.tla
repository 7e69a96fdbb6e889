------------------------- MODULE TrainingCheckpoint -------------------------
(***************************************************************************)
(* A training job: one process per rank, its collectives, the checkpoint   *)
(* rank 0 publishes in two files, and the JobSet that recreates the whole  *)
(* group when a rank fails.  The ranks run the SmolLM workload or the      *)
(* local one, which differ in what surrounds an optimizer step.            *)
(*                                                                         *)
(* A checkpoint is the step it was taken at.  A collective is one action   *)
(* of all ranks: none of them gets past it before all have reached it.     *)
(***************************************************************************)
EXTENDS Integers, FiniteSets, FiniteSetsExt

CONSTANTS
  WorldSize, MaxSteps, CheckpointEvery,
  MaxRestarts,   \* of the JobSet's failure policy
  Programs,      \* the workloads the job may be of
  Lingering      \* whether a force-deleted rank 0 may outlive its pod

ASSUME TrainingAssumption ==
  /\ {WorldSize, CheckpointEvery, MaxSteps} \subseteq Nat \ {0}
  /\ MaxRestarts \in Nat
  /\ Lingering \in BOOLEAN
  /\ Programs \subseteq {"smollm", "local"}

VARIABLES
  latest,      \* the step in latest.pt, 0 if there is no such file
  stepFiles,   \* the steps N whose step_N.pt exists
  phase, step, \* of each rank's process: where it is, its last finished step
  restarts,    \* how often the group was recreated
  job,         \* "running", "complete" or "failed"
  program,     \* the workload of this job
  orphan,      \* what each generation's force-deleted rank 0 may yet publish
  disturbed    \* history: whether one published since the group last started

files == <<latest, stepFiles>>
ranks == <<phase, step>>
late  == <<orphan, disturbed>>
vars  == <<files, ranks, restarts, job, program, late>>

Rank == 0 .. WorldSize - 1

Generation == 0 .. MaxRestarts

Phase == {"starting", "joined", "loaded", "training", "gather",
          "savingStep", "savingLatest", "barrier", "done", "failed"}

NoOrphan == [phase |-> "gone", step |-> 0]

TypeOK ==
  /\ latest \in 0 .. MaxSteps
  /\ stepFiles \subseteq 1 .. MaxSteps
  /\ phase \in [Rank -> Phase]
  /\ step \in [Rank -> 0 .. MaxSteps]
  /\ restarts \in 0 .. MaxRestarts
  /\ job \in {"running", "complete", "failed"}
  /\ program \in Programs
  /\ orphan \in [Generation -> [phase : {"gone", "savingStep", "savingLatest"},
                                step : 0 .. MaxSteps]]
  /\ disturbed \in BOOLEAN

Init ==
  /\ latest = 0
  /\ stepFiles = {}
  /\ phase = [r \in Rank |-> "starting"]
  /\ step = [r \in Rank |-> 0]
  /\ restarts = 0
  /\ job = "running"
  /\ program \in Programs
  /\ orphan = [g \in Generation |-> NoOrphan]
  /\ disturbed = FALSE

-----------------------------------------------------------------------------
(* latest.pt if there is one, else the step file of the highest number.    *)
LatestCheckpoint == IF latest # 0 THEN latest ELSE Max(stepFiles \cup {0})

All(p) == \A r \in Rank : phase[r] = p

Move(r, p) == phase' = [phase EXCEPT ![r] = p]
MoveAll(p) == phase' = [r \in Rank |-> p]

(* init_process_group *)
Rendezvous ==
  /\ All("starting")
  /\ MoveAll("joined")
  /\ UNCHANGED <<files, step, restarts, job, program, late>>

(* A slip: starting over instead of resuming.                               *)
LoadNothing(r) ==
  /\ phase[r] = "joined"
  /\ Move(r, "loaded")
  /\ UNCHANGED <<files, step, restarts, job, program, late>>

Load(r) ==
  /\ phase[r] = "joined"
  /\ Move(r, "loaded")
  /\ step' = [step EXCEPT ![r] = LatestCheckpoint]
  /\ UNCHANGED <<files, restarts, job, program, late>>

(* The DDP constructor and the first peer_heartbeat. *)
StartTraining ==
  /\ All("loaded")
  /\ MoveAll("training")
  /\ UNCHANGED <<files, step, restarts, job, program, late>>

(* A slip: every other checkpoint is missed.                               *)
CheckpointDueRarely(s) == s % (2 * CheckpointEvery) = 0

CheckpointDue(s) == s % CheckpointEvery = 0

(* A slip: training past the last step.                                    *)
OptimizerStepUnbounded ==
  /\ program = "smollm"
  /\ All("training")
  /\ step' = [r \in Rank |-> step[r] + 1]
  /\ phase' = [r \in Rank |-> IF CheckpointDue(step[r] + 1) THEN "gather"
                                                            ELSE "training"]
  /\ UNCHANGED <<files, restarts, job, program, late>>

(* Forward, backward with gradient averaging, and the metrics all_reduce.  *)
OptimizerStep ==
  /\ program = "smollm"
  /\ All("training")
  /\ \A r \in Rank : step[r] < MaxSteps
  /\ step' = [r \in Rank |-> step[r] + 1]
  /\ phase' = [r \in Rank |-> IF CheckpointDue(step[r] + 1) THEN "gather"
                                                            ELSE "training"]
  /\ UNCHANGED <<files, restarts, job, program, late>>

(* The local workload has no collective but the gradients', saves if it is *)
(* rank 0's turn, and waits for its peers after every step.                *)
LocalStep ==
  /\ program = "local"
  /\ All("training")
  /\ \A r \in Rank : step[r] < MaxSteps
  /\ step' = [r \in Rank |-> step[r] + 1]
  /\ phase' = [r \in Rank |-> IF r = 0 /\ CheckpointDue(step[r] + 1)
                             THEN "savingStep" ELSE "barrier"]
  /\ UNCHANGED <<files, restarts, job, program, late>>

(* A slip: writing latest.pt alone.                                        *)
GatherForLatestOnly ==
  /\ All("gather")
  /\ phase' = [r \in Rank |-> IF r = 0 THEN "savingLatest" ELSE "barrier"]
  /\ UNCHANGED <<files, step, restarts, job, program, late>>

(* all_rank_rng_states; rank 0 goes on to save, the others wait for it.    *)
Gather ==
  /\ All("gather")
  /\ phase' = [r \in Rank |-> IF r = 0 THEN "savingStep" ELSE "barrier"]
  /\ UNCHANGED <<files, step, restarts, job, program, late>>

(* os.replace makes each of the two files appear at once.                  *)
PublishStep ==
  /\ phase[0] = "savingStep"
  /\ stepFiles' = stepFiles \cup {step[0]}
  /\ Move(0, "savingLatest")
  /\ UNCHANGED <<latest, step, restarts, job, program, late>>

(* A slip: rank 0 does not join the barrier the others wait in.            *)
PublishLatestNoBarrier ==
  /\ phase[0] = "savingLatest"
  /\ latest' = step[0]
  /\ Move(0, "training")
  /\ UNCHANGED <<stepFiles, step, restarts, job, program, late>>

PublishLatest ==
  /\ phase[0] = "savingLatest"
  /\ latest' = step[0]
  /\ Move(0, "barrier")
  /\ UNCHANGED <<stepFiles, step, restarts, job, program, late>>

AfterSave ==
  /\ All("barrier")
  /\ MoveAll("training")
  /\ UNCHANGED <<files, step, restarts, job, program, late>>

Finish(r) ==
  /\ phase[r] = "training"
  /\ step[r] = MaxSteps
  /\ Move(r, "done")
  /\ UNCHANGED <<files, step, restarts, job, program, late>>

-----------------------------------------------------------------------------
(* A rank ends with an error: eviction, node loss, a peer that is gone, a  *)
(* collective that timed out, the rendezvous watchdog, a failed save.      *)
Fail(r) ==
  /\ job = "running"
  /\ phase[r] \notin {"done", "failed"}
  /\ Move(r, "failed")
  /\ UNCHANGED <<files, step, restarts, job, program, late>>

(* The pod object is gone, the process on the cut-off node is not.         *)
ForceDeleteSaver ==
  /\ Lingering
  /\ job = "running"
  /\ phase[0] \in {"savingStep", "savingLatest"}
  /\ orphan' = [orphan EXCEPT ![restarts] = [phase |-> phase[0], step |-> step[0]]]
  /\ Move(0, "failed")
  /\ UNCHANGED <<files, step, restarts, job, program, disturbed>>

OrphanPublishes(g) ==
  /\ \/ /\ orphan[g].phase = "savingStep"
        /\ stepFiles' = stepFiles \cup {orphan[g].step}
        /\ orphan' = [orphan EXCEPT ![g].phase = "savingLatest"]
        /\ UNCHANGED latest
     \/ /\ orphan[g].phase = "savingLatest"
        /\ latest' = orphan[g].step
        /\ orphan' = [orphan EXCEPT ![g] = NoOrphan]
        /\ UNCHANGED stepFiles
  /\ disturbed' = TRUE
  /\ UNCHANGED <<ranks, restarts, job, program>>

OrphanDies(g) ==
  /\ orphan[g] # NoOrphan
  /\ orphan' = [orphan EXCEPT ![g] = NoOrphan]
  /\ UNCHANGED <<files, ranks, restarts, job, program, disturbed>>

(* backoffLimit 0, and the JobSet's restart strategy Recreate.             *)
SomeFailed == \E r \in Rank : phase[r] = "failed"

(* A slip: only the failed ranks start again.                              *)
RecreateFailedOnly ==
  /\ job = "running"
  /\ SomeFailed
  /\ restarts < MaxRestarts
  /\ restarts' = restarts + 1
  /\ phase' = [r \in Rank |-> IF phase[r] = "failed" THEN "joined" ELSE phase[r]]
  /\ UNCHANGED <<files, step, job, program, late>>

Recreate ==
  /\ job = "running"
  /\ SomeFailed
  /\ restarts < MaxRestarts
  /\ restarts' = restarts + 1
  /\ MoveAll("starting")
  /\ step' = [r \in Rank |-> 0]
  /\ disturbed' = FALSE
  /\ UNCHANGED <<files, job, program, orphan>>

GiveUp ==
  /\ job = "running"
  /\ SomeFailed
  /\ restarts = MaxRestarts
  /\ job' = "failed"
  /\ MoveAll("failed")
  /\ UNCHANGED <<files, step, restarts, program, late>>

Complete ==
  /\ job = "running"
  /\ All("done")
  /\ job' = "complete"
  /\ UNCHANGED <<files, ranks, restarts, program, late>>

-----------------------------------------------------------------------------
Progress ==
  \/ Rendezvous \/ StartTraining \/ OptimizerStep \/ LocalStep
  \/ Gather \/ PublishStep \/ PublishLatest \/ AfterSave
  \/ \E r \in Rank : Load(r) \/ Finish(r)
  \/ Recreate \/ GiveUp \/ Complete

Failure ==
  \/ \E r \in Rank : Fail(r)
  \/ ForceDeleteSaver
  \/ \E g \in Generation : OrphanPublishes(g) \/ OrphanDies(g)

Next == Progress \/ Failure

Spec == Init /\ [][Next]_vars

(* A rank that waits for no other: it loads, saves or finishes.            *)
Unhindered(r) ==
  \/ phase[r] \in {"joined", "savingStep", "savingLatest"}
  \/ phase[r] = "training" /\ step[r] = MaxSteps

(* All ranks have reached the same collective, or the end.                 *)
Together ==
  \/ \E p \in {"starting", "loaded", "gather", "barrier", "done"} : All(p)
  \/ All("training") /\ \A r \in Rank : step[r] < MaxSteps

Stuck ==
  /\ job = "running" /\ ~SomeFailed
  /\ ~Together /\ \A r \in Rank : ~Unhindered(r)

(* A slip: only the rendezvous is watched.                                 *)
TimeOutRendezvousOnly ==
  Stuck /\ \E r \in Rank : phase[r] = "starting" /\ Fail(r)

(* Ranks waiting at different collectives wait until a timeout, the        *)
(* process group's or the rendezvous watchdog's, ends one of them.         *)
TimeOut == Stuck /\ \E r \in Rank : Fail(r)

LiveSpec == Spec /\ WF_vars(Progress) /\ WF_vars(TimeOut)

-----------------------------------------------------------------------------
Active == {r \in Rank : phase[r] \notin {"starting", "joined", "failed"}}

(* smollm train.py:6: every rank restores the same checkpoint, and so the  *)
(* ranks of a group are always at the same step of the same run.           *)
RanksInStep == \A r, s \in Active : step[r] = step[s]

(* latest.pt goes back to an older checkpoint only by the hand of a force- *)
(* deleted rank 0 (save_checkpoint compares nothing), or of a group during *)
(* whose life one published: the next restart ends what it did.            *)
RegressesOnlyWhenDisturbed == [][latest' < latest => disturbed']_vars

(* A failure costs at most CheckpointEvery optimizer steps of work, even   *)
(* one between the two files of a checkpoint.                              *)
BoundedLoss == \A r \in Active : step[r] - LatestCheckpoint <= CheckpointEvery

(* What latest.pt holds is also kept under its step's own name, even with  *)
(* an old process still publishing.                                        *)
LatestHasStepFile == latest # 0 => latest \in stepFiles

(* The two-file checkpoint, with its fallback, implements durable progress *)
(* as TrainingProgress states it.                                          *)
Durable == INSTANCE TrainingProgress WITH
  work    <- IF Active = {} THEN LatestCheckpoint
             ELSE step[CHOOSE r \in Active : TRUE],
  durable <- LatestCheckpoint

ImplementsTrainingProgress == Durable!Spec

(* As long as no rank has failed, the group can go on: ranks never wait    *)
(* for each other in different collectives until a timeout ends them.      *)
RanksNeverStuck == ~Stuck

(* No collective, barrier or restart leaves the group waiting for ever.    *)
JobEnds == <>(job \in {"complete", "failed"})
=============================================================================

---------------------------- MODULE TrainingData ----------------------------
(***************************************************************************)
(* What the SmolLM workload learns from, and what of it a checkpoint keeps *)
(* besides its step: TrainingCheckpoint with the contents of the ranks and *)
(* of the files.                                                           *)
(*                                                                         *)
(* A model is the list of what its optimizer steps were made of: the       *)
(* examples, the learning rate and the dropout of the ranks.  The examples *)
(* are the dataset's rows, numbered in the order the seeded shuffle yields *)
(* them.  No process outlives its pod here (see TrainingCheckpoint).       *)
(***************************************************************************)
EXTENDS TrainingCheckpoint, Sequences

CONSTANT GradientAccumulation   \* examples of each rank in an optimizer step

ASSUME AccumulationAssumption == GradientAccumulation \in Nat \ {0}

VARIABLES
  learner,   \* what each rank has in memory
  payload,   \* what rank 0 is about to save
  content    \* what is in step_N.pt, and in latest.pt as number 0

dataVars == <<learner, payload, content>>

(* A seeded process with the base model: nothing learned, nothing drawn.   *)
Seeded ==
  [adapter |-> <<>>, examplesSeen |-> 0, tokensSeen |-> 0, scheduler |-> 0, rng |-> 0]

Nothing == [Seeded EXCEPT !.rng = [r \in Rank |-> 0]]

DataInit ==
  /\ Init
  /\ learner = [r \in Rank |-> Seeded]
  /\ payload = Nothing
  /\ content = [f \in 0 .. MaxSteps |-> Nothing]

-----------------------------------------------------------------------------
(* The file LatestCheckpoint is in. *)
CheckpointFile == IF latest # 0 THEN 0 ELSE LatestCheckpoint

(* A slip: the position in the dataset is not restored.                    *)
RestoredFromFirstRow(r) ==
  [content[CheckpointFile] EXCEPT !.rng = @[r], !.examplesSeen = 0]

(* A rank takes its own random state from those of all ranks.              *)
Restored(r) == [content[CheckpointFile] EXCEPT !.rng = @[r]]

Resume(r) ==
  /\ Load(r)
  /\ learner' = [learner EXCEPT ![r] = IF LatestCheckpoint = 0 THEN Seeded
                                                               ELSE Restored(r)]
  /\ UNCHANGED <<payload, content>>

(* DDP broadcasts rank 0's parameters. *)
Broadcast ==
  /\ StartTraining
  /\ learner' = [r \in Rank |-> [learner[r] EXCEPT !.adapter = learner[0].adapter]]
  /\ UNCHANGED <<payload, content>>

(* rank_examples: every WorldSize-th row is the rank's, and those it has   *)
(* seen are skipped.                                                       *)
RankExamples(r) ==
  { WorldSize * k + r :
      k \in learner[r].examplesSeen
              .. learner[r].examplesSeen + GradientAccumulation - 1 }

(* The gradient is averaged over the ranks, the tokens are summed.         *)
Learned(r) ==
  [ adapter |-> Append(learner[r].adapter,
                       [ examples |-> UNION {RankExamples(s) : s \in Rank},
                         rate     |-> learner[r].scheduler,
                         dropout  |-> [s \in Rank |-> learner[s].rng] ]),
    examplesSeen |-> learner[r].examplesSeen + GradientAccumulation,
    tokensSeen   |-> learner[r].tokensSeen + WorldSize * GradientAccumulation,
    scheduler    |-> learner[r].scheduler + 1,
    rng          |-> learner[r].rng + 1 ]

Learn ==
  /\ OptimizerStep
  /\ learner' = [r \in Rank |-> Learned(r)]
  /\ UNCHANGED <<payload, content>>

(* all_rank_rng_states, and the payload rank 0 makes of its own memory.    *)
Collect ==
  /\ Gather
  /\ payload' = [learner[0] EXCEPT !.rng = [r \in Rank |-> learner[r].rng]]
  /\ UNCHANGED <<learner, content>>

SaveStep ==
  /\ PublishStep
  /\ content' = [content EXCEPT ![step[0]] = payload]
  /\ UNCHANGED <<learner, payload>>

SaveLatest ==
  /\ PublishLatest
  /\ content' = [content EXCEPT ![0] = payload]
  /\ UNCHANGED <<learner, payload>>

(* A new process starts from its arguments. *)
StartOver ==
  /\ Recreate
  /\ learner' = [r \in Rank |-> Seeded]
  /\ payload' = Nothing
  /\ UNCHANGED content

Elsewhere ==
  /\ \/ Rendezvous \/ AfterSave \/ GiveUp \/ Complete
     \/ \E r \in Rank : Finish(r) \/ Fail(r)
  /\ UNCHANGED dataVars

DataNext ==
  \/ \E r \in Rank : Resume(r)
  \/ Broadcast \/ Learn \/ Collect \/ SaveStep \/ SaveLatest \/ StartOver
  \/ Elsewhere

DataSpec == DataInit /\ [][DataNext]_<<vars, dataVars>>

-----------------------------------------------------------------------------
(* What n optimizer steps that nothing interrupts are made of: one block   *)
(* of rows after the other.                                                *)
Uninterrupted(n) ==
  LET block == WorldSize * GradientAccumulation IN
  [ adapter |-> [ i \in 1 .. n |->
                    [ examples |-> block * (i - 1) .. block * i - 1,
                      rate     |-> i - 1,
                      dropout  |-> [r \in Rank |-> i - 1] ] ],
    examplesSeen |-> n * GradientAccumulation,
    tokensSeen |-> n * block, scheduler |-> n, rng |-> n ]

(* A run that failed, any number of times and anywhere, has learned from   *)
(* the same examples, in the same order, at the same learning rates and    *)
(* with the same random numbers as a run that did not                      *)
(* (save_checkpoint, rank_examples and the restore in main).               *)
ResumesWhereItWas == \A r \in Active : learner[r] = Uninterrupted(step[r])
=============================================================================

---------------------- MODULE TrainingCheckpointProofs ----------------------
(***************************************************************************)
(* The training job for any number of ranks, steps, restarts and any       *)
(* distance of checkpoints, and the recovery test that watches it.         *)
(* Processes that outlive their pods are part of the types, of the two     *)
(* files of a checkpoint, of what makes latest.pt regress and of what      *)
(* holds again once none of them disturbs a group.  The other theorems     *)
(* assume ~Lingering: otherwise they do not hold (run training_lingering). *)
(***************************************************************************)
EXTENDS RecoveryFence, TLAPS, WellFoundedInduction

(* The highest of a set of steps. *)
LEMMA HighestStep ==
  ASSUME NEW N \in Nat, NEW S \in SUBSET (0 .. N), S # {}
  PROVE  Max(S) \in S /\ \A x \in S : x <= Max(S)
<1> DEFINE Distance == {N - x : x \in S}
<1>1. Distance \subseteq Nat /\ Distance # {}
  <2>1. \A x \in S : x \in Int /\ 0 <= x /\ x <= N
    OBVIOUS
  <2>2. \A x \in S : N - x \in Nat
    BY <2>1
  <2> QED
    BY <2>2
<1>2. PICK d \in Distance : \A e \in Distance : <<e, d>> \notin OpToRel(<, Nat)
  BY <1>1, NatLessThanWellFounded, WFMin
<1>3. PICK m \in S : d = N - m
  OBVIOUS
<1>4. ASSUME NEW x \in S PROVE m >= x
  <2>1. N - x \in Distance /\ ~(N - x < N - m)
    BY <1>1, <1>2, <1>3 DEF OpToRel
  <2> QED
    BY <2>1
<1>5. \A y \in S : Max(S) >= y /\ Max(S) \in S
  BY <1>4 DEF Max
<1> QED
  BY <1>5

(* A checkpoint is due again CheckpointEvery steps after one was.          *)
LEMMA DueAgain ==
  ASSUME NEW s \in Nat, CheckpointDue(s)
  PROVE  CheckpointDue(s + CheckpointEvery)
<1> DEFINE c == CheckpointEvery
           q == s \div c
           p == (s + c) \div c
           rest == (s + c) % c
<1>1. c \in Nat /\ c > 0
  BY TrainingAssumption
<1>2. q \in Nat /\ s = c * q
  BY <1>1, SMT DEF CheckpointDue
<1>3. p \in Int /\ rest \in 0 .. c - 1 /\ s + c = c * p + rest
  BY <1>1, SMT
<1> HIDE DEF c, q, p, rest
<1>4. c * (p - (q + 1)) + rest = 0
  BY <1>1, <1>2, <1>3, SMT
<1>5. ASSUME p > q + 1 PROVE FALSE
  <2>1. c * (p - (q + 1)) >= c
    BY <1>1, <1>2, <1>3, <1>5, SMT
  <2> QED
    BY <1>1, <1>2, <1>3, <1>4, <2>1, SMT
<1>6. ASSUME p < q + 1 PROVE FALSE
  <2>1. c * (p - (q + 1)) <= -c
    BY <1>1, <1>2, <1>3, <1>6, SMT
  <2> QED
    BY <1>1, <1>2, <1>3, <1>4, <2>1, SMT
<1>7. rest = 0
  BY <1>1, <1>2, <1>3, <1>4, <1>5, <1>6, SMT
<1> QED
  BY <1>7 DEF CheckpointDue, rest, c

LEMMA DueAtZero == CheckpointDue(0)
BY TrainingAssumption, SMT DEF CheckpointDue

-----------------------------------------------------------------------------
(* Types. *)
LEMMA CheckpointFacts ==
  ASSUME TypeOK
  PROVE  /\ LatestCheckpoint \in stepFiles \cup {latest, 0}
         /\ LatestCheckpoint \in 0 .. MaxSteps
         /\ latest # 0 => LatestCheckpoint = latest
         /\ latest = 0 => \A f \in stepFiles : f <= LatestCheckpoint
         /\ LatestCheckpoint >= latest
<1>1. MaxSteps \in Nat /\ stepFiles \cup {0} \in SUBSET (0 .. MaxSteps)
  BY TrainingAssumption DEF TypeOK
<1>2. /\ Max(stepFiles \cup {0}) \in stepFiles \cup {0}
      /\ \A f \in stepFiles \cup {0} : f <= Max(stepFiles \cup {0})
  BY <1>1, HighestStep
<1>3. CASE latest = 0
  BY <1>1, <1>2, <1>3 DEF LatestCheckpoint, TypeOK
<1>4. CASE latest # 0
  BY <1>1, <1>4 DEF LatestCheckpoint, TypeOK
<1> QED
  BY <1>3, <1>4

(* What there is to publish is a step that was taken, and what latest.pt   *)
(* is about to hold, or holds, has its own file.                           *)
FilesInv ==
  /\ \A r \in Rank : phase[r] \in {"gather", "savingStep"} => step[r] > 0
  /\ phase[0] = "savingLatest" => step[0] \in stepFiles
  /\ \A g \in Generation :
       /\ orphan[g].phase = "savingStep" => orphan[g].step > 0
       /\ orphan[g].phase = "savingLatest" => orphan[g].step \in stepFiles
  /\ LatestHasStepFile

LEMMA Ranks == /\ MaxSteps \in Nat /\ MaxSteps > 0 /\ MaxRestarts \in Nat
               /\ CheckpointEvery \in Nat /\ CheckpointEvery > 0
               /\ 0 \in Rank /\ Rank \subseteq Nat
BY TrainingAssumption DEF Rank

LEMMA TypesInit == Init => TypeOK /\ FilesInv
<1> SUFFICES ASSUME Init PROVE TypeOK /\ FilesInv
  OBVIOUS
<1> USE Ranks DEF Init
<1>1. orphan \in [Generation -> [phase : {"gone", "savingStep", "savingLatest"},
                                 step : 0 .. MaxSteps]]
  BY DEF NoOrphan
<1>2. TypeOK
  <2>1. /\ latest \in 0 .. MaxSteps /\ stepFiles \subseteq 1 .. MaxSteps
        /\ restarts \in 0 .. MaxRestarts
    OBVIOUS
  <2>2. phase \in [Rank -> Phase] /\ step \in [Rank -> 0 .. MaxSteps]
    BY DEF Phase
  <2>3. /\ job \in {"running", "complete", "failed"} /\ program \in Programs
        /\ disturbed \in BOOLEAN
    OBVIOUS
  <2> QED
    BY <1>1, <2>1, <2>2, <2>3 DEF TypeOK
<1>3. FilesInv
  BY DEF FilesInv, LatestHasStepFile, NoOrphan
<1> QED
  BY <1>2, <1>3

LEMMA TypesStep == TypeOK /\ FilesInv /\ [Next]_vars => TypeOK' /\ FilesInv'
<1> SUFFICES ASSUME TypeOK, FilesInv, [Next]_vars PROVE TypeOK' /\ FilesInv'
  OBVIOUS
<1> USE Ranks
<1>1. CASE Rendezvous
  BY <1>1 DEF Rendezvous, TypeOK, FilesInv, LatestHasStepFile, MoveAll, Phase, files, late
<1>2. ASSUME NEW r \in Rank, Load(r) PROVE TypeOK' /\ FilesInv'
  BY <1>2, CheckpointFacts
  DEF Load, TypeOK, FilesInv, LatestHasStepFile, Move, Phase, files, late
<1>3. CASE StartTraining
  BY <1>3 DEF StartTraining, TypeOK, FilesInv, LatestHasStepFile, MoveAll, Phase, files, late
<1>4. CASE OptimizerStep
  <2>1. /\ \A r \in Rank : step[r] + 1 \in 0 .. MaxSteps /\ step[r] + 1 > 0
        /\ step' = [r \in Rank |-> step[r] + 1]
    BY <1>4 DEF OptimizerStep, TypeOK
  <2>2. \A r \in Rank : phase'[r] \in {"gather", "training"}
    BY <1>4 DEF OptimizerStep
  <2> QED
    BY <1>4, <2>1, <2>2
    DEF OptimizerStep, TypeOK, FilesInv, LatestHasStepFile, Phase, files, late
<1>5. CASE Gather
  BY <1>5 DEF Gather, All, TypeOK, FilesInv, LatestHasStepFile, Phase, files, late
<1>6. CASE LocalStep
  <2>1. /\ \A r \in Rank : step[r] + 1 \in 0 .. MaxSteps /\ step[r] + 1 > 0
        /\ step' = [r \in Rank |-> step[r] + 1]
    BY <1>6 DEF LocalStep, TypeOK
  <2>2. \A r \in Rank : phase'[r] \in {"savingStep", "barrier"}
    BY <1>6 DEF LocalStep
  <2> QED
    BY <1>6, <2>1, <2>2
    DEF LocalStep, TypeOK, FilesInv, LatestHasStepFile, Phase, files, late
<1>7. CASE PublishStep
  <2>1. step[0] \in 1 .. MaxSteps /\ phase' = [phase EXCEPT ![0] = "savingLatest"]
    BY <1>7 DEF PublishStep, Move, TypeOK, FilesInv
  <2>2. TypeOK'
    BY <1>7, <2>1 DEF PublishStep, TypeOK, Phase, late
  <2>3. FilesInv'
    BY <1>7, <2>1 DEF PublishStep, TypeOK, FilesInv, LatestHasStepFile, late
  <2> QED
    BY <2>2, <2>3
<1>8. CASE PublishLatest
  BY <1>8 DEF PublishLatest, TypeOK, FilesInv, LatestHasStepFile, Move, Phase, late
<1>9. CASE AfterSave
  BY <1>9 DEF AfterSave, TypeOK, FilesInv, LatestHasStepFile, MoveAll, Phase, files, late
<1>10. ASSUME NEW r \in Rank, Finish(r) \/ Fail(r) PROVE TypeOK' /\ FilesInv'
  BY <1>10 DEF Finish, Fail, TypeOK, FilesInv, LatestHasStepFile, Move, Phase, files, late
<1>11. CASE Recreate
  <2>1. TypeOK'
    <3>1. restarts' \in 0 .. MaxRestarts
      BY <1>11 DEF Recreate, TypeOK
    <3>2. phase' \in [Rank -> Phase] /\ step' \in [Rank -> 0 .. MaxSteps]
      BY <1>11 DEF Recreate, MoveAll, Phase
    <3>3. UNCHANGED <<latest, stepFiles, job, program, orphan>> /\ disturbed' \in BOOLEAN
      BY <1>11 DEF Recreate, files
    <3> QED
      BY <3>1, <3>2, <3>3 DEF TypeOK
  <2>2. FilesInv'
    BY <1>11 DEF Recreate, FilesInv, LatestHasStepFile, MoveAll, files
  <2> QED
    BY <2>1, <2>2
<1>12. CASE GiveUp \/ Complete
  BY <1>12
  DEF GiveUp, Complete, TypeOK, FilesInv, LatestHasStepFile, MoveAll, Phase, files, late, ranks
<1>13. CASE ForceDeleteSaver
  <2>1. /\ UNCHANGED <<files, step, restarts, job, program, disturbed>>
        /\ phase[0] \in {"savingStep", "savingLatest"}
        /\ phase' = [phase EXCEPT ![0] = "failed"]
        /\ orphan' = [orphan EXCEPT ![restarts] = [phase |-> phase[0], step |-> step[0]]]
    BY <1>13 DEF ForceDeleteSaver, Move
  <2>2. restarts \in Generation
    BY DEF TypeOK, Generation
  <2>3. TypeOK'
    BY <2>1, <2>2 DEF TypeOK, Phase, files, late
  <2>4. ASSUME NEW g \in Generation
        PROVE  /\ orphan'[g].phase = "savingStep" => orphan'[g].step > 0
               /\ orphan'[g].phase = "savingLatest" => orphan'[g].step \in stepFiles
    BY <2>1, <2>2 DEF TypeOK, FilesInv
  <2>5. FilesInv'
    BY <2>1, <2>4 DEF TypeOK, FilesInv, LatestHasStepFile, files, late
  <2> QED
    BY <2>3, <2>5
<1>14. ASSUME NEW g \in Generation, OrphanPublishes(g) PROVE TypeOK' /\ FilesInv'
  <2>0. orphan[g].step \in 0 .. MaxSteps /\ UNCHANGED <<phase, step, restarts, job, program>>
    BY <1>14 DEF OrphanPublishes, TypeOK, ranks
  <2>1. CASE orphan[g].phase = "savingStep"
    <3>1. /\ stepFiles' = stepFiles \cup {orphan[g].step} /\ UNCHANGED latest
          /\ orphan' = [orphan EXCEPT ![g].phase = "savingLatest"]
          /\ disturbed' = TRUE /\ orphan[g].step > 0
      BY <1>14, <2>1 DEF OrphanPublishes, FilesInv
    <3>2. TypeOK'
      BY <2>0, <3>1 DEF TypeOK
    <3>3. ASSUME NEW h \in Generation
          PROVE  /\ orphan'[h].phase = "savingStep" => orphan'[h].step > 0
                 /\ orphan'[h].phase = "savingLatest" => orphan'[h].step \in stepFiles'
      BY <3>1 DEF TypeOK, FilesInv
    <3>4. FilesInv'
      BY <2>0, <3>1, <3>3 DEF FilesInv, LatestHasStepFile
    <3> QED
      BY <3>2, <3>4
  <2>2. CASE orphan[g].phase = "savingLatest"
    <3>1. /\ latest' = orphan[g].step /\ UNCHANGED stepFiles
          /\ orphan' = [orphan EXCEPT ![g] = NoOrphan]
          /\ disturbed' = TRUE /\ orphan[g].step \in stepFiles
      BY <1>14, <2>2 DEF OrphanPublishes, FilesInv
    <3>2. TypeOK'
      BY <2>0, <3>1 DEF TypeOK, NoOrphan
    <3>3. ASSUME NEW h \in Generation
          PROVE  /\ orphan'[h].phase = "savingStep" => orphan'[h].step > 0
                 /\ orphan'[h].phase = "savingLatest" => orphan'[h].step \in stepFiles'
      BY <3>1 DEF TypeOK, FilesInv, NoOrphan
    <3>4. FilesInv'
      BY <2>0, <3>1, <3>3 DEF FilesInv, LatestHasStepFile
    <3> QED
      BY <3>2, <3>4
  <2> QED
    BY <1>14, <2>1, <2>2 DEF OrphanPublishes
<1>15. ASSUME NEW g \in Generation, OrphanDies(g) PROVE TypeOK' /\ FilesInv'
  <2>1. /\ UNCHANGED <<files, phase, step, restarts, job, program, disturbed>>
        /\ orphan' = [orphan EXCEPT ![g] = NoOrphan]
    BY <1>15 DEF OrphanDies, ranks
  <2>2. TypeOK'
    BY <2>1 DEF TypeOK, NoOrphan, files
  <2>3. FilesInv'
    BY <2>1 DEF TypeOK, FilesInv, LatestHasStepFile, NoOrphan, files, late
  <2> QED
    BY <2>2, <2>3
<1>16. CASE UNCHANGED vars
  BY <1>16 DEF vars, files, ranks, late, TypeOK, FilesInv, LatestHasStepFile
<1> QED
  BY <1>1, <1>2, <1>3, <1>4, <1>5, <1>6, <1>7, <1>8, <1>9, <1>10, <1>11, <1>12, <1>13,
     <1>14, <1>15, <1>16
  DEF Next, Progress, Failure

(* Every variable keeps its type: no step is published or trained beyond   *)
(* the last one (MAX_STEPS).                                               *)
THEOREM TrainingTypes == Spec => []TypeOK
<1>1. TypeOK /\ FilesInv /\ [Next]_vars => TypeOK' /\ FilesInv'
  BY TypesStep
<1> QED
  BY TypesInit, <1>1, PTL DEF Spec

(* What latest.pt holds is also kept under its step's own name, even with  *)
(* a process that outlived its pod (save_checkpoint).                      *)
THEOREM LatestIsKept == Spec => []LatestHasStepFile
<1>1. FilesInv => LatestHasStepFile
  BY DEF FilesInv
<1> QED
  BY TypesInit, TypesStep, <1>1, PTL DEF Spec

(* Whatever is written, or on its way to be, was due.                      *)
DueInv ==
  /\ \A r \in Rank : phase[r] \in {"gather", "savingStep", "savingLatest"}
                       => CheckpointDue(step[r])
  /\ \A g \in Generation :
       orphan[g].phase # "gone" => CheckpointDue(orphan[g].step)
  /\ \A f \in stepFiles \cup {latest} : CheckpointDue(f)

LEMMA DueInit == Init => DueInv
BY DueAtZero DEF Init, DueInv, NoOrphan

LEMMA DueStep ==
  ASSUME TypeOK, DueInv, [Next]_vars
  PROVE  DueInv'
<1> USE Ranks DEF DueInv, CheckpointDue
<1>1. CASE Rendezvous \/ StartTraining \/ AfterSave \/ Recreate \/ GiveUp
  BY <1>1 DEF Rendezvous, StartTraining, AfterSave, Recreate, GiveUp, MoveAll, files, late
<1>2. ASSUME NEW r \in Rank, Load(r) PROVE DueInv'
  <2>1. /\ UNCHANGED <<files, late>> /\ phase'[r] = "loaded"
        /\ \A s \in Rank \ {r} : phase'[s] = phase[s] /\ step'[s] = step[s]
    BY <1>2 DEF Load, Move, TypeOK
  <2> QED
    BY <2>1 DEF files, late
<1>3. CASE OptimizerStep
  BY <1>3 DEF OptimizerStep, files, late
<1>4. CASE LocalStep
  BY <1>4 DEF LocalStep, files, late
<1>5. CASE Gather
  BY <1>5 DEF Gather, All, files, late
<1>6. CASE PublishStep \/ PublishLatest
  BY <1>6 DEF PublishStep, PublishLatest, Move, TypeOK, late
<1>7. ASSUME NEW r \in Rank, Finish(r) \/ Fail(r) PROVE DueInv'
  BY <1>7 DEF Finish, Fail, Move, TypeOK, files, late
<1>8. CASE Complete \/ UNCHANGED vars
  BY <1>8 DEF Complete, vars, files, ranks, late
<1>9. CASE ForceDeleteSaver
  <2>1. /\ UNCHANGED <<files, step>> /\ CheckpointDue(step[0])
        /\ phase' = [phase EXCEPT ![0] = "failed"]
        /\ orphan' = [orphan EXCEPT ![restarts] = [phase |-> phase[0], step |-> step[0]]]
    BY <1>9 DEF ForceDeleteSaver, Move
  <2>2. \A g \in Generation : orphan'[g] = orphan[g] \/ orphan'[g].step = step[0]
    BY <2>1 DEF TypeOK
  <2>3. \A g \in Generation :
          orphan'[g].phase # "gone" => CheckpointDue(orphan'[g].step)
    BY <2>1, <2>2
  <2>4. \A r \in Rank : phase'[r] = "failed" \/ phase'[r] = phase[r]
    BY <2>1 DEF TypeOK
  <2> QED
    BY <2>1, <2>3, <2>4 DEF files
<1>10. ASSUME NEW g \in Generation, OrphanPublishes(g) \/ OrphanDies(g)
       PROVE  DueInv'
  <2>1. \A h \in Generation : orphan'[h].phase # "gone" =>
          orphan[h].phase # "gone" /\ orphan'[h].step = orphan[h].step
    BY <1>10 DEF OrphanPublishes, OrphanDies, NoOrphan, TypeOK
  <2>2. /\ UNCHANGED <<phase, step>>
        /\ stepFiles' \cup {latest'} \subseteq stepFiles \cup {latest, orphan[g].step}
        /\ stepFiles' \cup {latest'} \subseteq stepFiles \cup {latest}
             \/ CheckpointDue(orphan[g].step)
    BY <1>10 DEF OrphanPublishes, OrphanDies, ranks, files
  <2> QED
    BY <2>1, <2>2
<1> QED
  BY <1>1, <1>2, <1>3, <1>4, <1>5, <1>6, <1>7, <1>8, <1>9, <1>10
  DEF Next, Progress, Failure
-----------------------------------------------------------------------------
(* The group of ranks, for as long as no process that outlived its pod has *)
(* published since it started.                                             *)

(* Where the processes of one generation can be at the same time: a        *)
(* collective keeps the ranks that have not failed together.               *)
Stages ==
  { {"starting"}, {"joined", "loaded"}, {"training", "done"}, {"gather"},
    {"savingStep", "savingLatest", "barrier"} }

InOneStage == \E S \in Stages : \A r \in Rank : phase[r] \in S \cup {"failed"}

(* Between two checkpoints, and at one. *)
Training(s) == s >= LatestCheckpoint /\ s < LatestCheckpoint + CheckpointEvery
Saving(s) ==
  /\ CheckpointDue(s)
  /\ s > LatestCheckpoint /\ s <= LatestCheckpoint + CheckpointEvery
Saved(s) == CheckpointDue(s) /\ s = LatestCheckpoint

StepsInv ==
  \A r \in Rank :
    /\ phase[r] = "loaded" => step[r] = LatestCheckpoint
    /\ phase[r] \in {"training", "done"} => Training(step[r])
    /\ phase[r] \in {"gather", "savingStep"} => Saving(step[r])
    /\ phase[r] = "savingLatest" => step[r] > latest
    /\ phase[r] = "savingLatest" => Saving(step[r]) \/ Saved(step[r])
    /\ phase[r] = "barrier" =>
         Saving(step[r]) \/ Saved(step[r]) \/ Training(step[r])
    /\ phase[r] \in {"savingStep", "savingLatest"} => r = 0
    /\ phase[r] = "barrier" /\ r = 0 => Saved(step[r]) \/ Training(step[r])

GroupInv ==
  /\ TypeOK /\ FilesInv
  /\ \A f \in stepFiles \cup {latest} : CheckpointDue(f)
  /\ InOneStage
  /\ StepsInv
  /\ RanksInStep

LEMMA CheckpointIsDue == ASSUME GroupInv PROVE CheckpointDue(LatestCheckpoint)
BY CheckpointFacts, DueAtZero DEF GroupInv

(* Ranks that have not failed are in one stage. *)
LEMMA SameStage ==
  ASSUME InOneStage, NEW S \in Stages,
         NEW r \in Rank, phase[r] \in S, NEW s \in Rank, phase[s] # "failed"
  PROVE  phase[s] \in S
<1>1. PICK T \in Stages : \A q \in Rank : phase[q] \in T \cup {"failed"}
  BY DEF InOneStage
<1>2. phase[r] # "failed"
  BY DEF Stages
<1>3. phase[r] \in T /\ phase[s] \in T
  BY <1>1, <1>2
<1> QED
  BY <1>3 DEF Stages

LEMMA GroupInit == Init => GroupInv
<1> SUFFICES ASSUME Init PROVE GroupInv
  OBVIOUS
<1>1. TypeOK /\ FilesInv
  BY TypesInit
<1>2. InOneStage
  BY DEF Init, InOneStage, Stages
<1> QED
  BY <1>1, <1>2, DueAtZero DEF Init, GroupInv, StepsInv, RanksInStep, Active

(* The latest checkpoint is a matter of the files alone. *)
LEMMA CheckpointStays ==
  ASSUME UNCHANGED files PROVE UNCHANGED LatestCheckpoint
BY DEF files, LatestCheckpoint

(* Ranks that fail, or start over, leave the rest of the group as it is.   *)
LEMMA FailureStep ==
  ASSUME GroupInv, TypeOK', FilesInv', UNCHANGED files,
         \A r \in Rank : \/ phase'[r] = "failed"
                         \/ phase'[r] = phase[r] /\ step'[r] = step[r]
  PROVE  GroupInv'
<1>1. UNCHANGED LatestCheckpoint
  BY CheckpointStays
<1>2. InOneStage'
  BY DEF GroupInv, InOneStage
<1>3. StepsInv'
  BY <1>1 DEF GroupInv, StepsInv, Training, Saving, Saved, files
<1>4. RanksInStep'
  BY DEF GroupInv, RanksInStep, Active
<1> QED
  BY <1>2, <1>3, <1>4 DEF GroupInv, files

(* A collective, or what comes after it: all ranks move on together, at a  *)
(* common step, to a stage whose promises that step keeps.                 *)
LEMMA CollectiveStep ==
  ASSUME GroupInv, TypeOK', FilesInv', UNCHANGED files,
         NEW S \in Stages, \A r \in Rank : phase'[r] \in S,
         RanksInStep', StepsInv'
  PROVE  GroupInv'
BY DEF GroupInv, InOneStage, files

(* step_N.pt makes step N the latest checkpoint, if there is no latest.pt. *)
LEMMA PublishedStep ==
  ASSUME GroupInv, TypeOK', PublishStep
  PROVE  LatestCheckpoint' = IF latest = 0 THEN step[0] ELSE LatestCheckpoint
<1>1. 0 \in Rank /\ MaxSteps \in Nat
  BY Ranks
<1>2. CASE latest # 0
  BY <1>2 DEF PublishStep, LatestCheckpoint
<1>3. CASE latest = 0
  <2>1. /\ latest' = 0 /\ stepFiles' = stepFiles \cup {step[0]}
        /\ LatestCheckpoint' = Max(stepFiles' \cup {0})
        /\ step[0] > LatestCheckpoint /\ step[0] \in 0 .. MaxSteps
    BY <1>1, <1>3 DEF PublishStep, LatestCheckpoint, GroupInv, StepsInv, Saving, TypeOK
  <2>2. stepFiles' \cup {0} \in SUBSET (0 .. MaxSteps)
    BY <1>1 DEF TypeOK
  <2>3. /\ LatestCheckpoint' \in stepFiles \cup {step[0], 0}
        /\ step[0] <= LatestCheckpoint'
    BY <1>1, <2>1, <2>2, HighestStep
  <2>4. \A f \in stepFiles \cup {0} : f <= LatestCheckpoint
    BY <1>3, CheckpointFacts DEF GroupInv
  <2>5. LatestCheckpoint \in 0 .. MaxSteps /\ stepFiles \subseteq 0 .. MaxSteps
    BY CheckpointFacts DEF GroupInv, TypeOK
  <2> QED
    BY <1>1, <1>3, <2>1, <2>3, <2>4, <2>5
<1> QED
  BY <1>2, <1>3

LEMMA PublishStepStep ==
  ASSUME GroupInv, TypeOK', FilesInv', PublishStep
  PROVE  GroupInv'
<1> USE Ranks
<1>1. /\ phase[0] = "savingStep" /\ phase'[0] = "savingLatest"
      /\ \A r \in Rank \ {0} : phase'[r] = phase[r]
      /\ UNCHANGED <<latest, step>>
      /\ stepFiles' = stepFiles \cup {step[0]}
  BY DEF PublishStep, Move, GroupInv, TypeOK
<1>2. \A r \in Rank \ {0} : phase[r] \in {"barrier", "failed"}
  <2>1. \A r \in Rank : phase[r] \in {"savingStep", "savingLatest", "barrier", "failed"}
    BY <1>1, SameStage DEF GroupInv, Stages
  <2> QED
    BY <2>1 DEF GroupInv, StepsInv
<1>3. Saving(step[0]) /\ step[0] > latest
  BY <1>1, CheckpointFacts DEF GroupInv, StepsInv, Saving, TypeOK
<1>4. \A r \in Rank : phase[r] # "failed" => step[r] = step[0]
  BY <1>1, <1>2 DEF GroupInv, RanksInStep, Active
<1>5. Saving(step[0])' \/ Saved(step[0])'
  BY <1>1, <1>3, PublishedStep DEF Saving, Saved, CheckpointDue
<1>6. StepsInv'
  <2> SUFFICES ASSUME NEW r \in Rank, phase'[r] # "failed"
               PROVE  /\ phase'[r] \in {"savingLatest", "barrier"}
                      /\ phase'[r] = "savingLatest" => r = 0 /\ step'[r] > latest'
                      /\ phase'[r] = "barrier" => r # 0
                      /\ Saving(step[r])' \/ Saved(step[r])'
    BY DEF StepsInv
  <2>1. CASE r = 0
    BY <1>1, <1>3, <1>5, <2>1
  <2>2. CASE r # 0
    <3>1. phase'[r] = "barrier" /\ step'[r] = step'[0]
      BY <1>1, <1>2, <1>4, <2>2
    <3> QED
      BY <1>1, <1>5, <2>2, <3>1 DEF Saving, Saved, CheckpointDue
  <2> QED
    BY <2>1, <2>2
<1>7. RanksInStep'
  BY <1>1, <1>2, <1>4 DEF RanksInStep, Active
<1>8. InOneStage'
  BY <1>1, <1>2 DEF InOneStage, Stages
<1>9. \A f \in stepFiles' \cup {latest'} : CheckpointDue(f)
  BY <1>1, <1>3 DEF GroupInv, Saving
<1> QED
  BY <1>1, <1>6, <1>7, <1>8, <1>9 DEF GroupInv, CheckpointDue

LEMMA PublishLatestStep ==
  ASSUME GroupInv, TypeOK', FilesInv', PublishLatest
  PROVE  GroupInv'
<1> USE Ranks
<1>1. /\ phase[0] = "savingLatest" /\ phase'[0] = "barrier"
      /\ \A r \in Rank \ {0} : phase'[r] = phase[r]
      /\ UNCHANGED <<stepFiles, step>>
      /\ latest' = step[0]
  BY DEF PublishLatest, Move, GroupInv, TypeOK
<1>2. \A r \in Rank \ {0} : phase[r] \in {"barrier", "failed"}
  <2>1. \A r \in Rank : phase[r] \in {"savingStep", "savingLatest", "barrier", "failed"}
    BY <1>1, SameStage DEF GroupInv, Stages
  <2> QED
    BY <2>1 DEF GroupInv, StepsInv
<1>3. step[0] > latest /\ CheckpointDue(step[0]) /\ latest >= 0
  BY <1>1 DEF GroupInv, StepsInv, Saving, Saved, TypeOK
<1>4. LatestCheckpoint' = step[0]
  BY <1>1, <1>3 DEF LatestCheckpoint, GroupInv, TypeOK
<1>5. \A r \in Rank : phase[r] # "failed" => step[r] = step[0]
  BY <1>1, <1>2 DEF GroupInv, RanksInStep, Active
<1>6. \A r \in Rank : phase'[r] = "failed" \/ (phase'[r] = "barrier" /\ Saved(step[r])')
  BY <1>1, <1>2, <1>3, <1>4, <1>5 DEF Saved, CheckpointDue
<1>7. StepsInv'
  BY <1>6 DEF StepsInv
<1>8. RanksInStep' /\ InOneStage'
  BY <1>1, <1>5, <1>6 DEF RanksInStep, Active, InOneStage, Stages
<1> QED
  BY <1>1, <1>3, <1>7, <1>8 DEF GroupInv, CheckpointDue

LEMMA GroupStep ==
  ASSUME GroupInv, [Next]_vars, ~disturbed'
  PROVE  GroupInv'
<1> USE Ranks
<1>1. TypeOK /\ FilesInv /\ TypeOK' /\ FilesInv'
  BY TypesStep DEF GroupInv
<1>2. CASE Rendezvous
  <2>1. /\ UNCHANGED files
        /\ \A r \in Rank : phase'[r] = "joined"
    BY <1>2 DEF Rendezvous, MoveAll
  <2>2. RanksInStep' /\ StepsInv'
    BY <2>1 DEF RanksInStep, Active, StepsInv
  <2> QED
    BY <1>1, <2>1, <2>2, CollectiveStep DEF Stages
<1>3. ASSUME NEW r \in Rank, Load(r) PROVE GroupInv'
  <2>1. /\ UNCHANGED files /\ UNCHANGED LatestCheckpoint
        /\ phase[r] = "joined" /\ phase'[r] = "loaded"
        /\ step'[r] = LatestCheckpoint
        /\ \A s \in Rank \ {r} : phase'[s] = phase[s] /\ step'[s] = step[s]
    BY <1>1, <1>3, CheckpointStays DEF Load, Move, TypeOK
  <2>2. \A s \in Rank : phase[s] \in {"joined", "loaded", "failed"}
    BY <2>1, SameStage DEF GroupInv, Stages
  <2>3. InOneStage'
    BY <2>1, <2>2 DEF InOneStage, Stages
  <2>4. StepsInv'
    BY <2>1, <2>2 DEF GroupInv, StepsInv
  <2>5. RanksInStep'
    BY <2>1, <2>2 DEF GroupInv, StepsInv, RanksInStep, Active
  <2> QED
    BY <1>1, <2>1, <2>3, <2>4, <2>5 DEF GroupInv, files
<1>4. CASE StartTraining
  <2>1. /\ UNCHANGED <<files, step>> /\ UNCHANGED LatestCheckpoint
        /\ \A r \in Rank : phase[r] = "loaded" /\ phase'[r] = "training"
    BY <1>4, CheckpointStays DEF StartTraining, All, MoveAll
  <2>2. \A r \in Rank : step'[r] = LatestCheckpoint'
    BY <2>1 DEF GroupInv, StepsInv
  <2>3. RanksInStep' /\ StepsInv'
    BY <1>1, <2>1, <2>2, CheckpointFacts DEF RanksInStep, Active, StepsInv, Training
  <2> QED
    BY <1>1, <2>1, <2>3, CollectiveStep DEF Stages
<1>5. CASE OptimizerStep
  <2>1. /\ UNCHANGED files /\ UNCHANGED LatestCheckpoint
        /\ \A r \in Rank : /\ phase[r] = "training" /\ step'[r] = step[r] + 1
                           /\ phase'[r] = IF CheckpointDue(step'[r]) THEN "gather"
                                                                    ELSE "training"
    BY <1>5, CheckpointStays DEF OptimizerStep, All
  <2>2. \A r \in Rank : step[r] = step[0] /\ step[r] \in Nat
    BY <1>1, <2>1 DEF GroupInv, RanksInStep, Active, TypeOK
  <2>3. LatestCheckpoint \in Nat /\ Training(step[0])
    BY <1>1, <2>1, CheckpointFacts DEF GroupInv, StepsInv
  <2>4. CheckpointDue(LatestCheckpoint + CheckpointEvery)
    BY <2>3, CheckpointIsDue, DueAgain
  <2>5. RanksInStep'
    BY <2>1, <2>2 DEF RanksInStep, Active
  <2>6. CASE CheckpointDue(step[0] + 1)
    <3>1. \A r \in Rank : phase'[r] = "gather" /\ Saving(step[r] + 1)
      BY <2>1, <2>2, <2>3, <2>6 DEF Saving, Training
    <3>2. StepsInv'
      BY <2>1, <3>1 DEF StepsInv, Saving, CheckpointDue
    <3> QED
      BY <1>1, <2>1, <2>5, <3>1, <3>2, CollectiveStep DEF Stages
  <2>7. CASE ~CheckpointDue(step[0] + 1)
    <3>1. step[0] + 1 # LatestCheckpoint + CheckpointEvery
      BY <2>4, <2>7
    <3>2. \A r \in Rank : phase'[r] = "training" /\ Training(step[r] + 1)
      BY <2>1, <2>2, <2>3, <2>7, <3>1 DEF Training
    <3>3. StepsInv'
      BY <2>1, <3>2 DEF StepsInv, Training
    <3> QED
      BY <1>1, <2>1, <2>5, <3>2, <3>3, CollectiveStep DEF Stages
  <2> QED
    BY <2>6, <2>7
<1>6. CASE LocalStep
  <2>1. /\ UNCHANGED files /\ UNCHANGED LatestCheckpoint
        /\ \A r \in Rank : /\ phase[r] = "training" /\ step'[r] = step[r] + 1
                           /\ phase'[r] = IF r = 0 /\ CheckpointDue(step'[r])
                                          THEN "savingStep" ELSE "barrier"
    BY <1>6, CheckpointStays DEF LocalStep, All
  <2>2. \A r \in Rank : step[r] = step[0] /\ step[r] \in Nat
    BY <1>1, <2>1 DEF GroupInv, RanksInStep, Active, TypeOK
  <2>3. LatestCheckpoint \in Nat /\ Training(step[0])
    BY <1>1, <2>1, CheckpointFacts DEF GroupInv, StepsInv
  <2>4. CheckpointDue(LatestCheckpoint + CheckpointEvery)
    BY <2>3, CheckpointIsDue, DueAgain
  <2>5. RanksInStep'
    BY <2>1, <2>2 DEF RanksInStep, Active
  <2>6. CASE CheckpointDue(step[0] + 1)
    <3>1. \A r \in Rank : phase'[r] \in {"savingStep", "barrier"} /\ Saving(step[r] + 1)
                       /\ (phase'[r] = "savingStep" <=> r = 0)
      BY <2>1, <2>2, <2>3, <2>6 DEF Saving, Training
    <3>2. StepsInv'
      BY <2>1, <3>1 DEF StepsInv, Saving, CheckpointDue
    <3>3. \A r \in Rank : phase'[r] \in {"savingStep", "savingLatest", "barrier"}
      BY <3>1
    <3> QED
      BY <1>1, <2>1, <2>5, <3>2, <3>3, CollectiveStep DEF Stages
  <2>7. CASE ~CheckpointDue(step[0] + 1)
    <3>1. step[0] + 1 # LatestCheckpoint + CheckpointEvery
      BY <2>4, <2>7
    <3>2. \A r \in Rank : phase'[r] = "barrier" /\ Training(step[r] + 1)
      BY <2>1, <2>2, <2>3, <2>7, <3>1 DEF Training
    <3>3. StepsInv'
      BY <2>1, <3>2 DEF StepsInv, Training
    <3> QED
      BY <1>1, <2>1, <2>5, <3>2, <3>3, CollectiveStep DEF Stages
  <2> QED
    BY <2>6, <2>7
<1>7. CASE Gather
  <2>1. /\ UNCHANGED <<files, step>> /\ UNCHANGED LatestCheckpoint
        /\ \A r \in Rank : /\ phase[r] = "gather"
                           /\ phase'[r] = IF r = 0 THEN "savingStep" ELSE "barrier"
    BY <1>7, CheckpointStays DEF Gather, All
  <2>2. \A r \in Rank : Saving(step[r])
    BY <2>1 DEF GroupInv, StepsInv
  <2>3. StepsInv'
    BY <2>1, <2>2 DEF StepsInv, Saving, CheckpointDue
  <2>4. RanksInStep'
    BY <2>1 DEF GroupInv, RanksInStep, Active
  <2>5. \A r \in Rank : phase'[r] \in {"savingStep", "savingLatest", "barrier"}
    BY <2>1
  <2> QED
    BY <1>1, <2>1, <2>3, <2>4, <2>5, CollectiveStep DEF Stages
<1>8. CASE PublishStep
  BY <1>1, <1>8, PublishStepStep
<1>9. CASE PublishLatest
  BY <1>1, <1>9, PublishLatestStep
<1>10. CASE AfterSave
  <2>1. /\ UNCHANGED <<files, step>> /\ UNCHANGED LatestCheckpoint
        /\ \A r \in Rank : phase[r] = "barrier" /\ phase'[r] = "training"
    BY <1>10, CheckpointStays DEF AfterSave, All, MoveAll
  <2>2. \A r \in Rank : step[r] = step[0]
    BY <2>1 DEF GroupInv, RanksInStep, Active
  <2>3. Training(step[0])
    BY <1>1, <2>1, CheckpointFacts DEF GroupInv, StepsInv, Saved, Training
  <2>4. RanksInStep' /\ StepsInv'
    BY <2>1, <2>2, <2>3 DEF RanksInStep, Active, StepsInv, Training
  <2> QED
    BY <1>1, <2>1, <2>4, CollectiveStep DEF Stages
<1>11. ASSUME NEW r \in Rank, Finish(r) PROVE GroupInv'
  <2>1. /\ UNCHANGED <<files, step>> /\ UNCHANGED LatestCheckpoint
        /\ phase[r] = "training" /\ phase'[r] = "done"
        /\ \A s \in Rank \ {r} : phase'[s] = phase[s]
    BY <1>1, <1>11, CheckpointStays DEF Finish, Move, TypeOK
  <2>2. \A s \in Rank : phase[s] \in {"training", "done", "failed"}
    BY <2>1, SameStage DEF GroupInv, Stages
  <2>3. InOneStage'
    BY <2>1, <2>2 DEF InOneStage, Stages
  <2>4. StepsInv'
    BY <2>1, <2>2 DEF GroupInv, StepsInv, Training
  <2>5. RanksInStep'
    BY <2>1 DEF GroupInv, RanksInStep, Active
  <2> QED
    BY <1>1, <2>1, <2>3, <2>4, <2>5 DEF GroupInv, files
<1>12. ASSUME NEW r \in Rank, Fail(r) PROVE GroupInv'
  <2>1. /\ UNCHANGED <<files, step>>
        /\ \A s \in Rank : phase'[s] = "failed" \/ phase'[s] = phase[s]
    BY <1>1, <1>12 DEF Fail, Move, TypeOK
  <2> QED
    BY <1>1, <2>1, FailureStep
<1>13. CASE Recreate
  <2>1. /\ UNCHANGED files
        /\ \A r \in Rank : phase'[r] = "starting"
    BY <1>13 DEF Recreate, MoveAll
  <2>2. RanksInStep' /\ StepsInv'
    BY <2>1 DEF RanksInStep, Active, StepsInv
  <2> QED
    BY <1>1, <2>1, <2>2, CollectiveStep DEF Stages
<1>14. CASE GiveUp \/ Complete
  <2>1. /\ UNCHANGED <<files, step>>
        /\ \A s \in Rank : phase'[s] = "failed" \/ phase'[s] = phase[s]
    BY <1>14 DEF GiveUp, Complete, MoveAll, ranks
  <2> QED
    BY <1>1, <2>1, FailureStep
<1>15. CASE ForceDeleteSaver
  <2>1. /\ UNCHANGED <<files, step>>
        /\ \A s \in Rank : phase'[s] = "failed" \/ phase'[s] = phase[s]
    BY <1>1, <1>15 DEF ForceDeleteSaver, Move, TypeOK
  <2> QED
    BY <1>1, <2>1, FailureStep
<1>16. \A g \in Generation : ~OrphanPublishes(g)
  BY DEF OrphanPublishes
<1>17. CASE (\E g \in Generation : OrphanDies(g)) \/ UNCHANGED vars
  <2>1. UNCHANGED <<files, phase, step>>
    BY <1>17 DEF OrphanDies, vars, ranks
  <2> QED
    BY <1>1, <2>1, FailureStep
<1> QED
  BY <1>2, <1>3, <1>4, <1>5, <1>6, <1>7, <1>8, <1>9, <1>10, <1>11, <1>12, <1>13, <1>14,
     <1>15, <1>16, <1>17
  DEF Next, Progress, Failure

(* A group that starts over takes the files as it finds them, whoever put  *)
(* them there.                                                             *)
LEMMA RestartStep ==
  ASSUME TypeOK', FilesInv', DueInv', Recreate
  PROVE  GroupInv'
<1>1. \A r \in Rank : phase'[r] = "starting"
  BY DEF Recreate, MoveAll
<1>2. \A f \in stepFiles' \cup {latest'} : CheckpointDue(f)
  BY DEF DueInv, CheckpointDue
<1>3. InOneStage' /\ StepsInv' /\ RanksInStep'
  BY <1>1 DEF InOneStage, Stages, StepsInv, RanksInStep, Active
<1> QED
  BY <1>2, <1>3 DEF GroupInv, CheckpointDue

CalmInv == TypeOK /\ FilesInv /\ DueInv /\ (~disturbed => GroupInv)

LEMMA CalmInvariance == Spec => []CalmInv
<1>1. Init => CalmInv
  BY TypesInit, DueInit, GroupInit DEF CalmInv
<1>2. ASSUME CalmInv, [Next]_vars PROVE CalmInv'
  <2>1. TypeOK' /\ FilesInv' /\ DueInv'
    BY <1>2, TypesStep, DueStep DEF CalmInv
  <2>2. CASE ~disturbed /\ ~disturbed'
    BY <1>2, <2>1, <2>2, GroupStep DEF CalmInv
  <2>3. CASE disturbed /\ ~disturbed'
    <3>1. Recreate
      BY <1>2, <2>3
      DEF Next, Progress, Failure, Rendezvous, Load, StartTraining, OptimizerStep,
          LocalStep, Gather, PublishStep, PublishLatest, AfterSave, Finish, GiveUp,
          Complete, Fail, ForceDeleteSaver, OrphanPublishes, OrphanDies, vars, late
    <3> QED
      BY <2>1, <3>1, RestartStep DEF CalmInv
  <2> QED
    BY <2>1, <2>2, <2>3 DEF CalmInv
<1> QED
  BY <1>1, <1>2, PTL DEF Spec

(* Where no process outlives its pod, no group is ever disturbed.          *)
Alone == orphan = [g \in Generation |-> NoOrphan] /\ ~disturbed

LEMMA NoOrphanActs ==
  ASSUME ~Lingering, Alone, NEW g \in Generation
  PROVE  ~ForceDeleteSaver /\ ~OrphanPublishes(g) /\ ~OrphanDies(g)
BY DEF ForceDeleteSaver, OrphanPublishes, OrphanDies, Alone, NoOrphan

LEMMA AloneStep ==
  ASSUME ~Lingering, Alone, [Next]_vars
  PROVE  Alone'
BY NoOrphanActs
DEF Alone, Next, Progress, Failure, Rendezvous, Load, StartTraining, OptimizerStep,
    LocalStep, Gather, PublishStep, PublishLatest, AfterSave, Finish, Recreate, GiveUp,
    Complete, Fail, ForceDeleteSaver, vars, late

LEMMA AloneInvariance == ASSUME ~Lingering PROVE Spec => []Alone
<1>1. Init => Alone
  BY DEF Init, Alone
<1>2. Alone /\ [Next]_vars => Alone'
  BY AloneStep
<1> QED
  BY <1>1, <1>2, PTL DEF Spec

LEMMA GroupInvariance == ASSUME ~Lingering PROVE Spec => []GroupInv
<1>1. CalmInv /\ Alone => GroupInv
  BY DEF CalmInv, Alone
<1> QED
  BY <1>1, CalmInvariance, AloneInvariance, PTL

(* Every rank of a group resumes the same checkpoint and is at the same    *)
(* step of the same run from then on (train.py:6).                         *)
THEOREM RanksStayInStep == ASSUME ~Lingering PROVE Spec => []RanksInStep
<1>1. GroupInv => RanksInStep
  BY DEF GroupInv
<1> QED
  BY <1>1, GroupInvariance, PTL

LEMMA LossInGroup == GroupInv => BoundedLoss
<1> SUFFICES ASSUME GroupInv, NEW r \in Active
             PROVE  step[r] - LatestCheckpoint <= CheckpointEvery
  BY DEF BoundedLoss
<1>1. /\ step[r] \in Nat /\ LatestCheckpoint \in Nat
      /\ CheckpointEvery \in Nat
      /\ r \in Rank /\ phase[r] \in Phase \ {"starting", "joined", "failed"}
  BY CheckpointFacts, Ranks DEF GroupInv, TypeOK, Active
<1>2. \/ step[r] = LatestCheckpoint
      \/ Training(step[r]) \/ Saving(step[r]) \/ Saved(step[r])
  BY <1>1 DEF GroupInv, StepsInv, Phase
<1> QED
  BY <1>1, <1>2 DEF Training, Saving, Saved

(* A failure costs at most CheckpointEvery optimizer steps of work, at     *)
(* whatever step it hits the group, even between the files of a checkpoint *)
(* (BoundedLoss).                                                          *)
THEOREM LossIsBounded == ASSUME ~Lingering PROVE Spec => []BoundedLoss
BY LossInGroup, GroupInvariance, PTL

(* latest.pt goes back to an older checkpoint only while a process that    *)
(* outlived its pod publishes, or in a group during whose life one did     *)
(* (RegressesOnlyWhenDisturbed).                                           *)
THEOREM OnlyTheLateRegress == Spec => RegressesOnlyWhenDisturbed
<1>1. ASSUME CalmInv, [Next]_vars PROVE [latest' < latest => disturbed']_vars
  <2> SUFFICES ASSUME Next, latest' < latest, ~disturbed' PROVE FALSE
    BY <1>1
  <2>1. latest \in Nat
    BY <1>1, Ranks DEF CalmInv, TypeOK
  <2>2. CASE PublishLatest
    <3>1. GroupInv
      BY <1>1, <2>2 DEF CalmInv, PublishLatest, late
    <3> QED
      BY <2>1, <2>2, <3>1, Ranks DEF PublishLatest, GroupInv, StepsInv, TypeOK
  <2>3. CASE ~PublishLatest
    <3>1. latest' = latest
      BY <1>1, <2>3
      DEF Next, Progress, Failure, Rendezvous, Load, StartTraining, OptimizerStep,
          LocalStep, Gather, PublishStep, AfterSave, Finish, Recreate, GiveUp,
          Complete, Fail, ForceDeleteSaver, OrphanPublishes, OrphanDies, files
    <3> QED
      BY <2>1, <3>1
  <2> QED
    BY <2>2, <2>3
<1> QED
  BY <1>1, CalmInvariance, PTL DEF Spec, RegressesOnlyWhenDisturbed

(* A rank that is done has trained to the end. *)
DoneAtEnd == \A r \in Rank : phase[r] = "done" => step[r] = MaxSteps

LEMMA DoneAtEndStep ==
  ASSUME TypeOK, DoneAtEnd, [Next]_vars
  PROVE  DoneAtEnd'
<1> SUFFICES ASSUME NEW r \in Rank, phase'[r] = "done"
             PROVE  step'[r] = MaxSteps
  BY DEF DoneAtEnd
<1> USE DEF TypeOK, DoneAtEnd
<1>1. CASE OptimizerStep \/ LocalStep \/ Gather \/ Rendezvous \/ StartTraining
           \/ AfterSave \/ Recreate \/ GiveUp
  BY <1>1
  DEF OptimizerStep, LocalStep, Gather, Rendezvous, StartTraining, AfterSave,
      Recreate, GiveUp, MoveAll
<1>2. ASSUME NEW s \in Rank, Load(s) PROVE step'[r] = MaxSteps
  BY <1>2 DEF Load, Move
<1>3. ASSUME NEW s \in Rank, Finish(s) \/ Fail(s) PROVE step'[r] = MaxSteps
  BY <1>3 DEF Finish, Fail, Move
<1>4. CASE PublishStep \/ PublishLatest \/ ForceDeleteSaver
  BY <1>4, Ranks DEF PublishStep, PublishLatest, ForceDeleteSaver, Move
<1>5. CASE \/ Complete \/ UNCHANGED vars
           \/ \E g \in Generation : OrphanPublishes(g) \/ OrphanDies(g)
  BY <1>5 DEF Complete, OrphanPublishes, OrphanDies, vars, ranks
<1> QED
  BY <1>1, <1>2, <1>3, <1>4, <1>5 DEF Next, Progress, Failure

LEMMA DoneInvariance == Spec => []DoneAtEnd
<1>1. Init => DoneAtEnd
  BY DEF Init, DoneAtEnd
<1>2. TypeOK /\ DoneAtEnd /\ [Next]_vars => DoneAtEnd'
  BY DoneAtEndStep
<1> QED
  BY <1>1, <1>2, TrainingTypes, PTL DEF Spec

(* A group none of whose ranks has failed is at one stage, and in each     *)
(* stage some rank can move on or all have reached the same collective.    *)
LEMMA GroupGoesOn == ASSUME GroupInv, DoneAtEnd PROVE RanksNeverStuck
<1> SUFFICES ASSUME ~SomeFailed, \A r \in Rank : ~Unhindered(r)
             PROVE  Together
  BY DEF RanksNeverStuck, Stuck
<1> USE Ranks
<1>1. PICK S \in Stages : \A r \in Rank : phase[r] \in S
  BY DEF GroupInv, InOneStage, SomeFailed
<1>2. CASE S \in {{"starting"}, {"gather"}}
  BY <1>1, <1>2 DEF Together, All
<1>3. CASE S = {"joined", "loaded"}
  <2>1. All("loaded")
    BY <1>1, <1>3 DEF Unhindered, All
  <2> QED
    BY <2>1 DEF Together
<1>4. CASE S = {"savingStep", "savingLatest", "barrier"}
  <2>1. All("barrier")
    BY <1>1, <1>4 DEF Unhindered, All
  <2> QED
    BY <2>1 DEF Together
<1>5. CASE S = {"training", "done"}
  <2>1. \A r, s \in Rank : step[r] = step[s] /\ step[r] \in 0 .. MaxSteps
    BY <1>1, <1>5 DEF GroupInv, RanksInStep, Active, TypeOK
  <2>2. CASE \E s \in Rank : phase[s] = "done"
    <3>1. \A r \in Rank : step[r] = MaxSteps
      BY <2>1, <2>2 DEF DoneAtEnd
    <3>2. All("done")
      BY <1>1, <1>5, <3>1 DEF Unhindered, All
    <3> QED
      BY <3>2 DEF Together
  <2>3. CASE \A s \in Rank : phase[s] # "done"
    <3>1. All("training")
      BY <1>1, <1>5, <2>3 DEF All
    <3>2. \A r \in Rank : step[r] < MaxSteps
      BY <2>1, <3>1 DEF Unhindered, All
    <3> QED
      BY <3>1, <3>2 DEF Together
  <2> QED
    BY <2>2, <2>3
<1> QED
  BY <1>1, <1>2, <1>3, <1>4, <1>5 DEF Stages

(* Live ranks of a group none of whose ranks has failed never wait for     *)
(* each other in different collectives: rank 0's save and the barrier      *)
(* after it, one rank finishing before another and ranks that load at      *)
(* different times leave no one behind (RanksNeverStuck).                  *)
THEOREM GroupNeverStuck == ASSUME ~Lingering PROVE Spec => []RanksNeverStuck
<1>1. GroupInv /\ DoneAtEnd => RanksNeverStuck
  BY GroupGoesOn
<1> QED
  BY <1>1, DoneInvariance, GroupInvariance, PTL

(* A force-deleted rank 0 that goes on publishing harms only the group in  *)
(* whose life it does: before, and again from the next restart on, ranks   *)
(* resume alike, lose little and never wait in vain.                       *)
THEOREM RestartsHeal ==
  Spec => [](~disturbed => RanksInStep /\ BoundedLoss /\ RanksNeverStuck)
<1>1. CalmInv /\ DoneAtEnd
        => (~disturbed => RanksInStep /\ BoundedLoss /\ RanksNeverStuck)
  BY LossInGroup, GroupGoesOn DEF CalmInv, GroupInv
<1> QED
  BY <1>1, DoneInvariance, CalmInvariance, PTL

-----------------------------------------------------------------------------
(* The checkpoints implement TrainingProgress.                             *)
Work == IF Active = {} THEN LatestCheckpoint
        ELSE step[CHOOSE r \in Active : TRUE]

(* The work of a group is the step of any of its ranks. *)
LEMMA WorkIs ==
  ASSUME GroupInv, NEW r \in Active
  PROVE  Work = step[r]
BY DEF Work, GroupInv, RanksInStep

LEMMA NextWorkIs ==
  ASSUME GroupInv', NEW r \in Active'
  PROVE  Work' = step'[r]
BY DEF Work, GroupInv, RanksInStep

LEMMA WorkIsAhead ==
  ASSUME GroupInv
  PROVE  Work \in Nat /\ LatestCheckpoint \in Nat /\ Work >= LatestCheckpoint
<1>1. LatestCheckpoint \in Nat /\ step \in [Rank -> Nat]
  BY CheckpointFacts, Ranks DEF GroupInv, TypeOK
<1>2. CASE Active = {}
  BY <1>1, <1>2 DEF Work
<1>3. ASSUME NEW r \in Active PROVE Work \in Nat /\ Work >= LatestCheckpoint
  <2>1. r \in Rank /\ phase[r] \in Phase \ {"starting", "joined", "failed"}
    BY <1>3 DEF Active, GroupInv, TypeOK
  <2>2. step[r] >= LatestCheckpoint
    BY <1>1, <2>1 DEF GroupInv, StepsInv, Phase, Training, Saving, Saved
  <2> QED
    BY <1>1, <2>1, <2>2, <1>3, WorkIs
<1> QED
  BY <1>1, <1>2, <1>3

(* The steps of the group that publish nothing and train nothing: work is  *)
(* kept as long as there is a rank that has it, and lost with the last.    *)
LEMMA KeptStep ==
  ASSUME GroupInv, GroupInv', UNCHANGED files,
         NEW r \in Active, r \in Active', step'[r] = step[r]
  PROVE  UNCHANGED <<Work, LatestCheckpoint>>
BY WorkIs, NextWorkIs, CheckpointStays

LEMMA LostStep ==
  ASSUME GroupInv, UNCHANGED files, Active' = {}
  PROVE  [Durable!Next]_(Durable!vars)
<1>1. LatestCheckpoint' = LatestCheckpoint /\ Work' = LatestCheckpoint
  BY CheckpointStays DEF Work
<1>2. CASE Work = LatestCheckpoint
  BY <1>1, <1>2 DEF Durable!vars, Work
<1>3. CASE Work > LatestCheckpoint
  BY <1>1, <1>3 DEF Durable!Next, Durable!Lose, Work
<1> QED
  BY <1>2, <1>3, WorkIsAhead

(* Every step of the job is a step of TrainingProgress, or none.           *)
LEMMA ProgressStep ==
  ASSUME ~Lingering, GroupInv, Alone, [Next]_vars
  PROVE  [Durable!Next]_(Durable!vars)
<1> USE Ranks
<1>0. /\ GroupInv' /\ phase \in [Rank -> Phase] /\ step \in [Rank -> 0 .. MaxSteps]
  BY GroupStep, AloneStep DEF Alone, GroupInv, TypeOK
<1> DEFINE Stutters == UNCHANGED <<Work, LatestCheckpoint>>
<1>1. Stutters => [Durable!Next]_(Durable!vars)
  BY DEF Durable!vars, Work
<1>2. CASE Rendezvous \/ Recreate \/ GiveUp
  <2>1. UNCHANGED files /\ Active' = {}
    BY <1>2 DEF Rendezvous, Recreate, GiveUp, MoveAll, Active
  <2> QED
    BY <2>1, LostStep
<1>3. ASSUME NEW r \in Rank, Load(r) PROVE Stutters
  <2>1. /\ UNCHANGED files /\ LatestCheckpoint' = LatestCheckpoint
        /\ r \in Active' /\ step'[r] = LatestCheckpoint
        /\ phase[r] = "joined"
    BY <1>0, <1>3, CheckpointStays DEF Load, Move, Active
  <2>2. \A s \in Active : step[s] = LatestCheckpoint
    <3>1. \A s \in Rank : phase[s] \in {"joined", "loaded", "failed"}
      BY <2>1, SameStage DEF GroupInv, Stages
    <3> QED
      BY <3>1 DEF GroupInv, StepsInv, Active
  <2>3. Work = LatestCheckpoint
    BY <2>2, WorkIs DEF Work
  <2>4. Work' = LatestCheckpoint
    BY <1>0, <2>1, NextWorkIs
  <2> QED
    BY <2>1, <2>3, <2>4
<1>4. CASE StartTraining \/ Gather \/ AfterSave
  <2>1. UNCHANGED files /\ 0 \in Active /\ 0 \in Active' /\ step' = step
    BY <1>4 DEF StartTraining, Gather, AfterSave, All, MoveAll, Active
  <2> QED
    BY <1>0, <1>1, <2>1, KeptStep
<1>5. CASE OptimizerStep \/ LocalStep
  <2>1. /\ LatestCheckpoint' = LatestCheckpoint
        /\ 0 \in Active /\ 0 \in Active'
        /\ step[0] < MaxSteps /\ step'[0] = step[0] + 1
    BY <1>5, CheckpointStays DEF OptimizerStep, LocalStep, All, Active
  <2>2. Work = step[0] /\ Work' = step'[0]
    BY <1>0, <2>1, WorkIs, NextWorkIs
  <2> QED
    BY <2>1, <2>2 DEF Durable!Next, Durable!Step, Work
<1>6. CASE PublishStep
  <2>1. /\ 0 \in Active /\ 0 \in Active' /\ step' = step
        /\ phase[0] = "savingStep"
    BY <1>0, <1>6 DEF PublishStep, Move, Active
  <2>2. Work = step[0] /\ Work' = Work /\ Work > LatestCheckpoint
    BY <1>0, <2>1, WorkIs, NextWorkIs DEF GroupInv, StepsInv, Saving
  <2>3. LatestCheckpoint' = IF latest = 0 THEN Work ELSE LatestCheckpoint
    BY <1>0, <1>6, <2>2, PublishedStep DEF GroupInv
  <2> QED
    BY <1>1, <2>2, <2>3 DEF Durable!Next, Durable!Save, Work
<1>7. CASE PublishLatest
  <2>1. /\ 0 \in Active /\ 0 \in Active' /\ step' = step
        /\ phase[0] = "savingLatest" /\ latest' = step[0]
    BY <1>0, <1>7 DEF PublishLatest, Move, Active
  <2>2. Work = step[0] /\ Work' = Work
    BY <1>0, <2>1, WorkIs, NextWorkIs
  <2>3. LatestCheckpoint' = step[0]
    BY <1>0, <2>1 DEF LatestCheckpoint, GroupInv, StepsInv, TypeOK
  <2>4. Work > LatestCheckpoint \/ Work = LatestCheckpoint
    BY WorkIsAhead
  <2> QED
    BY <1>1, <2>2, <2>3, <2>4 DEF Durable!Next, Durable!Save, Work
<1>8. ASSUME NEW r \in Rank, Finish(r) \/ Fail(r)
      PROVE  [Durable!Next]_(Durable!vars)
  <2>1. UNCHANGED files /\ step' = step
        /\ \A s \in Rank \ {r} : phase'[s] = phase[s]
    BY <1>0, <1>8 DEF Finish, Fail, Move
  <2>2. CASE Finish(r)
    <3>1. r \in Active /\ r \in Active'
      BY <1>0, <2>2 DEF Finish, Move, Active
    <3> QED
      BY <1>0, <1>1, <2>1, <3>1, KeptStep
  <2>3. CASE Fail(r)
    <3>1. \A s \in Active' : s \in Active /\ step'[s] = step[s]
      BY <1>0, <2>1, <2>3 DEF Fail, Move, Active
    <3>2. CASE Active' = {}
      BY <2>1, <3>2, LostStep
    <3>3. CASE Active' # {}
      BY <1>0, <1>1, <2>1, <3>1, <3>3, KeptStep
    <3> QED
      BY <3>2, <3>3
  <2> QED
    BY <1>8, <2>2, <2>3
<1>9. CASE Complete \/ UNCHANGED vars
  <2>1. phase' = phase /\ step' = step /\ LatestCheckpoint' = LatestCheckpoint
    BY <1>9, CheckpointStays DEF Complete, vars, ranks
  <2>2. Active' = Active
    BY <2>1 DEF Active
  <2>3. Work' = Work
    BY <2>1, <2>2 DEF Work
  <2> QED
    BY <1>1, <2>1, <2>3
<1>10. ~ForceDeleteSaver /\ \A g \in Generation : ~OrphanPublishes(g) /\ ~OrphanDies(g)
  BY NoOrphanActs DEF ForceDeleteSaver
<1> QED
  BY <1>1, <1>2, <1>3, <1>4, <1>5, <1>6, <1>7, <1>8, <1>9, <1>10
  DEF Next, Progress, Failure

(* The two-file checkpoint, with its fallback to the step files and the    *)
(* restarts of the group, implements durable progress                      *)
(* (ImplementsTrainingProgress).                                           *)
THEOREM ProgressIsDurable ==
  ASSUME ~Lingering
  PROVE  Spec => ImplementsTrainingProgress
<1>1. Init => Durable!Init
  <2> SUFFICES ASSUME Init PROVE Durable!Init
    OBVIOUS
  <2>1. LatestCheckpoint = 0 /\ Active = {}
    BY GroupInit, CheckpointFacts DEF Init, GroupInv, Active
  <2> QED
    BY <2>1 DEF Durable!Init
<1>2. GroupInv /\ Alone /\ [Next]_vars => [Durable!Next]_(Durable!vars)
  BY ProgressStep
<1> QED
  BY <1>1, <1>2, GroupInvariance, AloneInvariance, PTL
  DEF Spec, ImplementsTrainingProgress, Durable!Spec
-----------------------------------------------------------------------------
(* What the ranks have learned, and what the files keep of it.             *)

(* What a checkpoint of step n holds. *)
Kept(n) == [Uninterrupted(n) EXCEPT !.rng = [r \in Rank |-> n]]

(* Its parts, the random numbers apart. *)
LEMMA Parts ==
  \A n : \E a, e, t : Uninterrupted(n) =
    [adapter |-> a, examplesSeen |-> e, tokensSeen |-> t, scheduler |-> n, rng |-> n]
BY DEF Uninterrupted

LEMMA SeededIsUninterrupted == Uninterrupted(0) = Seeded
<1>1. WorldSize * GradientAccumulation * 0 = 0 /\ 0 * GradientAccumulation = 0
      /\ 0 * (WorldSize * GradientAccumulation) = 0
  BY TrainingAssumption, AccumulationAssumption
<1>2. \A F : [i \in 1 .. 0 |-> F] = <<>>
  OBVIOUS
<1> QED
  BY <1>1 DEF Uninterrupted, Seeded

(* The rows of the ranks' examples make up one block. *)
LEMMA OneBlock ==
  ASSUME NEW n \in Nat
  PROVE  UNION { {WorldSize * k + s : k \in n * GradientAccumulation
                                    .. n * GradientAccumulation + GradientAccumulation - 1}
                 : s \in Rank }
         = WorldSize * GradientAccumulation * n
             .. WorldSize * GradientAccumulation * (n + 1) - 1
<1> DEFINE W == WorldSize
           G == GradientAccumulation
           K == n * G .. n * G + G - 1
           B == W * G * n .. W * G * (n + 1) - 1
<1>1. W \in Nat /\ W > 0 /\ G \in Nat /\ G > 0 /\ Rank = 0 .. W - 1
  BY TrainingAssumption, AccumulationAssumption DEF Rank
<1>2. /\ n * G \in Nat /\ W * (n * G) = W * G * n
      /\ W * G * (n + 1) = W * (n * G + G)
      /\ W * G * n \in Nat /\ W * G * (n + 1) \in Nat
  BY <1>1, SMT
<1> HIDE DEF W, G
<1>3. ASSUME NEW s \in Rank, NEW k \in K PROVE W * k + s \in B
  <2>1. k \in Nat /\ n * G <= k /\ k + 1 <= n * G + G /\ s \in Nat /\ s + 1 <= W
    BY <1>1, <1>2
  <2>2. W * (n * G) <= W * k /\ W * (k + 1) <= W * (n * G + G) /\ W * k \in Nat
    BY <1>1, <1>2, <2>1, SMT
  <2>3. W * (k + 1) = W * k + W
    BY <1>1, <2>1, SMT
  <2> QED
    BY <1>1, <1>2, <2>1, <2>2, <2>3
<1>4. ASSUME NEW x \in B PROVE \E s \in Rank, k \in K : x = W * k + s
  <2> DEFINE k == x \div W
             s == x % W
  <2>1. x \in Nat /\ W * (n * G) <= x /\ x < W * (n * G + G)
    BY <1>1, <1>2
  <2>2. k \in Int /\ s \in 0 .. W - 1 /\ x = W * k + s
    BY <1>1, <2>1, SMT
  <2> HIDE DEF k, s
  <2>3. ASSUME k < n * G PROVE FALSE
    <3>1. k + 1 <= n * G
      BY <1>2, <2>2, <2>3
    <3>2. W * (k + 1) <= W * (n * G) /\ W * (k + 1) = W * k + W
      BY <1>1, <1>2, <2>2, <3>1, SMT
    <3> QED
      BY <1>1, <1>2, <2>1, <2>2, <3>2, SMT
  <2>4. ASSUME k >= n * G + G PROVE FALSE
    <3>1. W * k >= W * (n * G + G)
      BY <1>1, <1>2, <2>2, <2>4, SMT
    <3> QED
      BY <1>1, <1>2, <2>1, <2>2, <3>1, SMT
  <2>5. k \in K /\ s \in Rank
    BY <1>1, <1>2, <2>2, <2>3, <2>4
  <2> QED
    BY <2>2, <2>5
<1>5. UNION { {W * k + s : k \in K} : s \in Rank } = B
  BY <1>3, <1>4
<1> QED
  BY <1>5 DEF W, G

(* One more optimizer step of ranks that were not interrupted. *)
LEMMA LearnedIsUninterrupted ==
  ASSUME NEW n \in Nat, \A r \in Rank : learner[r] = Uninterrupted(n),
         NEW r \in Rank
  PROVE  Learned(r) = Uninterrupted(n + 1)
<1> DEFINE block == WorldSize * GradientAccumulation
           At(i) == [ examples |-> block * (i - 1) .. block * i - 1,
                      rate |-> i - 1, dropout |-> [q \in Rank |-> i - 1] ]
<1>1. block \in Nat /\ GradientAccumulation \in Nat
  BY TrainingAssumption, AccumulationAssumption
<1>2. ASSUME NEW s \in Rank
      PROVE  /\ learner[s].rng = n /\ learner[s].scheduler = n
             /\ learner[s].examplesSeen = n * GradientAccumulation
             /\ learner[s].tokensSeen = n * block
             /\ learner[s].adapter = [i \in 1 .. n |-> At(i)]
  <2>1. learner[s] = Uninterrupted(n)
    OBVIOUS
  <2>2. /\ Uninterrupted(n).rng = n /\ Uninterrupted(n).scheduler = n
        /\ Uninterrupted(n).examplesSeen = n * GradientAccumulation
        /\ Uninterrupted(n).tokensSeen = n * block
    BY DEF Uninterrupted
  <2>3. Uninterrupted(n).adapter = [i \in 1 .. n |-> At(i)]
    BY DEF Uninterrupted
  <2> QED
    BY <2>1, <2>2, <2>3
<1>3. UNION {RankExamples(s) : s \in Rank} = block * n .. block * (n + 1) - 1
  <2>1. \A s \in Rank :
          RankExamples(s) =
            { WorldSize * k + s : k \in n * GradientAccumulation
                .. n * GradientAccumulation + GradientAccumulation - 1 }
    BY <1>2 DEF RankExamples
  <2>2. \A x : (\E s \in Rank : x \in RankExamples(s))
                <=> x \in block * n .. block * (n + 1) - 1
    BY <2>1, OneBlock
  <2> QED
    BY <2>2
<1>4. [ examples |-> UNION {RankExamples(s) : s \in Rank},
        rate |-> learner[r].scheduler,
        dropout |-> [s \in Rank |-> learner[s].rng] ] = At(n + 1)
  <2> DEFINE Part(m) == [ examples |-> block * m .. block * (n + 1) - 1,
                          rate |-> m, dropout |-> [q \in Rank |-> m] ]
  <2>1. n + 1 - 1 = n
    OBVIOUS
  <2>2. [s \in Rank |-> learner[s].rng] = [s \in Rank |-> n]
    BY <1>2
  <2>3. learner[r].scheduler = n
    BY <1>2
  <2>4. [ examples |-> UNION {RankExamples(s) : s \in Rank},
          rate |-> learner[r].scheduler,
          dropout |-> [s \in Rank |-> learner[s].rng] ] = Part(n)
    BY <1>3, <2>2, <2>3
  <2>5. At(n + 1) = Part(n + 1 - 1)
    OBVIOUS
  <2> HIDE DEF Part, At
  <2> QED
    BY <2>1, <2>4, <2>5
<1> HIDE DEF At
<1>5. Append([i \in 1 .. n |-> At(i)], At(n + 1)) = [i \in 1 .. n + 1 |-> At(i)]
  OBVIOUS
<1>6. /\ n * GradientAccumulation + GradientAccumulation = (n + 1) * GradientAccumulation
      /\ n * block + block = (n + 1) * block
  BY <1>1, SMT
<1> QED
  BY <1>2, <1>4, <1>5, <1>6 DEF Learned, Uninterrupted, At

(* A slice of the model that has the data is a slice of the one without.   *)
LEMMA DataStepIsStep == [DataNext]_<<vars, dataVars>> => [Next]_vars
BY DEF DataNext, Resume, Broadcast, Learn, Collect, SaveStep, SaveLatest, StartOver,
       Elsewhere, Next, Progress, Failure

(* What is in memory, on its way to a file and in a file is what that many *)
(* uninterrupted steps would have made.                                    *)
DataInv ==
  /\ ResumesWhereItWas
  /\ learner = [r \in Rank |-> learner[r]]
  /\ phase[0] \in {"savingStep", "savingLatest"} => payload = Kept(step[0])
  /\ content \in [0 .. MaxSteps -> {Kept(n) : n \in 0 .. MaxSteps} \cup {Nothing}]
  /\ \A f \in stepFiles : content[f] = Kept(f)
  /\ latest # 0 => content[0] = Kept(latest)

LEMMA DataInvInit == DataInit => DataInv
BY Ranks DEF DataInit, Init, DataInv, ResumesWhereItWas, Active

(* What a rank resumes. *)
LEMMA ResumedIsUninterrupted ==
  ASSUME TypeOK, DataInv, NEW r \in Rank
  PROVE  (IF LatestCheckpoint = 0 THEN Seeded ELSE Restored(r))
         = Uninterrupted(LatestCheckpoint)
<1>1. CASE LatestCheckpoint = 0
  BY <1>1, SeededIsUninterrupted
<1>2. CASE LatestCheckpoint # 0
  <2>1. content[CheckpointFile] = Kept(LatestCheckpoint)
    BY <1>2, CheckpointFacts DEF DataInv, CheckpointFile
  <2>2. [Kept(LatestCheckpoint) EXCEPT !.rng = @[r]] = Uninterrupted(LatestCheckpoint)
    <3> DEFINE n == LatestCheckpoint
    <3> HIDE DEF n
    <3>1. PICK a, e, t : Uninterrupted(n) = [ adapter |-> a, examplesSeen |-> e,
                                              tokensSeen |-> t, scheduler |-> n, rng |-> n ]
      BY Parts
    <3>2. Kept(n) = [ adapter |-> a, examplesSeen |-> e, tokensSeen |-> t,
                      scheduler |-> n, rng |-> [q \in Rank |-> n] ]
      BY <3>1 DEF Kept
    <3>3. [Kept(n) EXCEPT !.rng = @[r]] = Uninterrupted(n)
      BY <3>1, <3>2
    <3> QED
      BY <3>3 DEF n
  <2> QED
    BY <1>2, <2>1, <2>2 DEF Restored
<1> QED
  BY <1>1, <1>2

LEMMA DataInvStep ==
  ASSUME GroupInv, GroupInv', DataInv, [DataNext]_<<vars, dataVars>>
  PROVE  DataInv'
<1> USE Ranks
<1>0. /\ phase \in [Rank -> Phase] /\ step \in [Rank -> 0 .. MaxSteps]
      /\ TypeOK /\ 0 \in 0 .. MaxSteps
  BY DEF GroupInv, TypeOK
<1>1. ASSUME NEW r \in Rank, Resume(r) PROVE DataInv'
  <2>1. /\ UNCHANGED <<files, payload, content>>
        /\ phase[r] = "joined"
        /\ phase' = [phase EXCEPT ![r] = "loaded"]
        /\ step' = [step EXCEPT ![r] = LatestCheckpoint]
        /\ learner' = [learner EXCEPT ![r] = Uninterrupted(LatestCheckpoint)]
    BY <1>0, <1>1, ResumedIsUninterrupted DEF Resume, Load, Move
  <2>2. \A s \in Rank : phase[s] \in {"joined", "loaded", "failed"}
    BY <2>1, SameStage DEF GroupInv, Stages
  <2>3. ResumesWhereItWas'
    BY <1>0, <2>1 DEF DataInv, ResumesWhereItWas, Active
  <2>4. phase'[0] \notin {"savingStep", "savingLatest"}
    BY <1>0, <2>1, <2>2
  <2> QED
    BY <2>1, <2>3, <2>4 DEF DataInv, files
<1>2. CASE Broadcast
  <2>1. /\ UNCHANGED <<files, step, payload, content>>
        /\ \A r \in Rank : phase[r] = "loaded" /\ phase'[r] = "training"
    BY <1>2 DEF Broadcast, StartTraining, All, MoveAll
  <2>2. \A r \in Rank : learner[r] = Uninterrupted(step[0])
    BY <2>1 DEF GroupInv, RanksInStep, DataInv, ResumesWhereItWas, Active
  <2>3. [Uninterrupted(step[0]) EXCEPT !.adapter = Uninterrupted(step[0]).adapter]
        = Uninterrupted(step[0])
    BY DEF Uninterrupted
  <2>4. /\ \A r \in Rank : learner'[r] = Uninterrupted(step[0])
        /\ learner' = [r \in Rank |-> learner'[r]]
    BY <1>2, <2>2, <2>3 DEF Broadcast
  <2>5. \A r \in Rank : step[r] = step[0]
    BY <2>1 DEF GroupInv, RanksInStep, Active
  <2> QED
    BY <2>1, <2>4, <2>5 DEF DataInv, ResumesWhereItWas, Active, files
<1>3. CASE Learn
  <2>1. /\ UNCHANGED <<files, payload, content>>
        /\ \A r \in Rank : phase[r] = "training" /\ step'[r] = step[r] + 1
        /\ \A r \in Rank : phase'[r] \in {"gather", "training"}
        /\ \A r \in Rank : learner'[r] = Learned(r)
        /\ learner' = [r \in Rank |-> learner'[r]]
    BY <1>3 DEF Learn, OptimizerStep, All
  <2>2. \A r \in Rank : step[r] = step[0] /\ learner[r] = Uninterrupted(step[0])
    BY <2>1 DEF GroupInv, RanksInStep, DataInv, ResumesWhereItWas, Active
  <2>3. \A r \in Rank : Learned(r) = Uninterrupted(step[0] + 1)
    BY <1>0, <2>2, LearnedIsUninterrupted
  <2> QED
    BY <2>1, <2>2, <2>3 DEF DataInv, ResumesWhereItWas, Active, files
<1>4. CASE Collect
  <2>1. /\ UNCHANGED <<files, step, learner, content>>
        /\ \A r \in Rank : phase[r] = "gather"
        /\ payload' = [learner[0] EXCEPT !.rng = [r \in Rank |-> learner[r].rng]]
    BY <1>4 DEF Collect, Gather, All
  <2>2. \A r \in Rank : step[r] = step[0] /\ learner[r] = Uninterrupted(step[0])
    BY <2>1 DEF GroupInv, RanksInStep, DataInv, ResumesWhereItWas, Active
  <2>3. \A r \in Rank : learner[r].rng = step[0]
    BY <2>2, Parts
  <2>4. payload' = Kept(step[0])
    BY <2>1, <2>2, <2>3 DEF Kept
  <2> QED
    BY <2>1, <2>2, <2>4 DEF DataInv, ResumesWhereItWas, Active, files
<1>5. CASE SaveStep
  <2>1. /\ UNCHANGED <<latest, step, learner, payload>>
        /\ stepFiles' = stepFiles \cup {step[0]}
        /\ phase[0] = "savingStep" /\ phase' = [phase EXCEPT ![0] = "savingLatest"]
        /\ content' = [content EXCEPT ![step[0]] = Kept(step[0])]
        /\ step[0] > 0 /\ step[0] \in 0 .. MaxSteps
    BY <1>0, <1>5 DEF SaveStep, PublishStep, Move, DataInv, GroupInv, FilesInv
  <2>2. ResumesWhereItWas'
    BY <1>0, <2>1 DEF DataInv, ResumesWhereItWas, Active
  <2>3. /\ content' \in [0 .. MaxSteps -> {Kept(n) : n \in 0 .. MaxSteps} \cup {Nothing}]
        /\ \A f \in stepFiles' : content'[f] = Kept(f)
        /\ latest' # 0 => content'[0] = Kept(latest')
    <3> DEFINE K(n) == Kept(n)
    <3> HIDE DEF K
    <3>1. stepFiles \subseteq 0 .. MaxSteps
      BY DEF GroupInv, TypeOK
    <3> QED
      BY <2>1, <3>1 DEF DataInv
  <2> QED
    BY <2>1, <2>2, <2>3 DEF DataInv
<1>6. CASE SaveLatest
  <2>1. /\ UNCHANGED <<stepFiles, step, learner, payload>>
        /\ latest' = step[0] /\ step[0] \in 0 .. MaxSteps
        /\ phase[0] = "savingLatest" /\ phase' = [phase EXCEPT ![0] = "barrier"]
        /\ content' = [content EXCEPT ![0] = Kept(step[0])]
    BY <1>0, <1>6 DEF SaveLatest, PublishLatest, Move, DataInv
  <2>2. ResumesWhereItWas'
    BY <1>0, <2>1 DEF DataInv, ResumesWhereItWas, Active
  <2>3. 0 \notin stepFiles
    BY DEF GroupInv, TypeOK
  <2>4. stepFiles \subseteq 0 .. MaxSteps
    BY DEF GroupInv, TypeOK
  <2> QED
    BY <1>0, <2>1, <2>2, <2>3, <2>4 DEF DataInv
<1>7. CASE StartOver
  <2>1. /\ UNCHANGED <<files, content>> /\ \A r \in Rank : phase'[r] = "starting"
        /\ learner' = [r \in Rank |-> learner'[r]]
    BY <1>7 DEF StartOver, Recreate, MoveAll
  <2> QED
    BY <2>1 DEF DataInv, ResumesWhereItWas, Active, files
<1>8. CASE Elsewhere
  <2>1. /\ UNCHANGED <<files, step, dataVars>>
        /\ \A r \in Rank : \/ phase'[r] \in {"joined", "failed"}
                           \/ phase[r] \in {"barrier", "training"}
                              /\ phase'[r] \in {"training", "done"}
                           \/ phase'[r] = phase[r]
    BY <1>0, <1>8
    DEF Elsewhere, Rendezvous, AfterSave, GiveUp, Complete, Finish, Fail,
        All, MoveAll, Move, ranks
  <2>2. Active' \subseteq Active
    BY <2>1 DEF Active
  <2> QED
    BY <2>1, <2>2 DEF DataInv, ResumesWhereItWas, files, dataVars
<1>9. CASE UNCHANGED <<vars, dataVars>>
  BY <1>9 DEF vars, files, ranks, dataVars, DataInv, ResumesWhereItWas, Active
<1> QED
  BY <1>1, <1>2, <1>3, <1>4, <1>5, <1>6, <1>7, <1>8, <1>9 DEF DataNext

(* A run that failed, any number of times and anywhere, has learned what a *)
(* run that did not would have, from the same examples in the same order   *)
(* (save_checkpoint, rank_examples and the restore in main).               *)
THEOREM ResumptionIsExact ==
  ASSUME ~Lingering
  PROVE  DataSpec => []ResumesWhereItWas
<1>1. DataInit => GroupInv /\ Alone /\ DataInv
  BY GroupInit, DataInvInit DEF DataInit, Init, Alone
<1>2. GroupInv /\ Alone /\ [DataNext]_<<vars, dataVars>> => GroupInv' /\ Alone'
  <2> SUFFICES ASSUME GroupInv, Alone, [DataNext]_<<vars, dataVars>>
               PROVE  GroupInv' /\ Alone'
    OBVIOUS
  <2>1. [Next]_vars
    BY DataStepIsStep
  <2>2. Alone'
    BY <2>1, AloneStep
  <2>3. ~disturbed'
    BY <2>2 DEF Alone
  <2> QED
    BY <2>1, <2>2, <2>3, GroupStep
<1>3. GroupInv /\ Alone /\ DataInv /\ [DataNext]_<<vars, dataVars>> => DataInv'
  BY <1>2, DataInvStep
<1>4. DataInv => ResumesWhereItWas
  BY DEF DataInv
<1> QED
  BY <1>1, <1>2, <1>3, <1>4, PTL DEF DataSpec

-----------------------------------------------------------------------------
(* The recovery test of such a job. *)

(* What a slice of the job may do to the files, the generation and where   *)
(* its ranks are.                                                          *)
JobMoves ==
  /\ latest' # latest =>
       /\ phase[0] = "savingLatest" /\ phase'[0] = "barrier"
       /\ UNCHANGED restarts
  /\ phase[0] = "savingLatest" /\ phase'[0] = "barrier" => latest' = step[0]
  /\ \/ UNCHANGED restarts
     \/ restarts' = restarts + 1 /\ \A r \in Rank : phase'[r] = "starting"
  /\ UNCHANGED restarts =>
       \A r \in Rank :
         /\ phase'[r] = "starting" => phase[r] = "starting"
         /\ phase'[r] = "joined" => phase[r] \in {"starting", "joined"}
         /\ phase[r] = "failed" => phase'[r] = "failed"
         /\ phase[r] = "joined" /\ phase'[r] = "loaded" => step'[r] = LatestCheckpoint
  /\ Saves(phase'[0]) /\ ~Saves(phase[0]) =>
       /\ \A r \in Rank : phase[r] = "gather"
       /\ \A r \in Rank : phase'[r] \in {"savingStep", "barrier"}

LEMMA JobStepMoves == ASSUME GroupInv, DataNext PROVE JobMoves
<1> USE Ranks
<1>0. /\ phase \in [Rank -> Phase] /\ step \in [Rank -> 0 .. MaxSteps]
      /\ restarts \in Nat
  BY DEF GroupInv, TypeOK
<1>1. ASSUME NEW r \in Rank, Resume(r) PROVE JobMoves
  BY <1>0, <1>1 DEF Resume, Load, Move, JobMoves, Saves, files
<1>2. CASE Broadcast
  BY <1>0, <1>2 DEF Broadcast, StartTraining, All, MoveAll, JobMoves, Saves, files
<1>3. CASE Learn
  BY <1>0, <1>3 DEF Learn, OptimizerStep, All, JobMoves, Saves, files
<1>4. CASE Collect
  BY <1>0, <1>4 DEF Collect, Gather, All, JobMoves, Saves, files
<1>5. CASE SaveStep
  BY <1>0, <1>5 DEF SaveStep, PublishStep, Move, JobMoves, Saves
<1>6. CASE SaveLatest
  BY <1>0, <1>6 DEF SaveLatest, PublishLatest, Move, JobMoves, Saves
<1>7. CASE StartOver
  BY <1>0, <1>7 DEF StartOver, Recreate, MoveAll, JobMoves, Saves, files
<1>8. CASE Elsewhere
  <2>1. CASE Rendezvous \/ AfterSave
    BY <1>0, <2>1 DEF Rendezvous, AfterSave, All, MoveAll, JobMoves, Saves, files
  <2>2. CASE GiveUp \/ Complete
    BY <1>0, <2>2 DEF GiveUp, Complete, MoveAll, JobMoves, Saves, files, ranks
  <2>3. ASSUME NEW r \in Rank, Finish(r) \/ Fail(r) PROVE JobMoves
    BY <1>0, <2>3 DEF Finish, Fail, Move, JobMoves, Saves, files
  <2> QED
    BY <1>8, <2>1, <2>2, <2>3 DEF Elsewhere
<1> QED
  BY <1>1, <1>2, <1>3, <1>4, <1>5, <1>6, <1>7, <1>8 DEF DataNext

(* From the pause on, the group the test began with starts no save; one    *)
(* that was running has run for as long as the log is quiet, and so for    *)
(* the whole window if it is not over when the fence is taken.  If it is,  *)
(* latest.pt is the fence from then on, until every rank of the next group *)
(* has loaded it.                                                          *)
Before  == {"baseline", "ready", "fencing"}
Fenced  == {"fenced", "replaced", "resumed", "passed", "wrong checkpoint"}

Exact == test \in Fenced /\ unfinished < QuiescenceWindow

TestTypes ==
  /\ saving \in Nat /\ quiet \in Nat /\ unfinished \in Nat
  /\ first \in Nat /\ first <= restarts
  /\ stopped \in BOOLEAN
  /\ test \in Before \cup Fenced \cup {"failed"}
  /\ resumed = [r \in Rank |-> resumed[r]]
  /\ found \in Seq(Nat) /\ \A r \in Rank : resumed[r] \in Nat

(* Of a generation, the log tells the checkpoint it last published.        *)
LogInv ==
  /\ logged.checkpoint \in {0, latest}
  /\ \A r \in Rank : phase[r] = "starting" => logged.checkpoint = 0

TestInv ==
  /\ TestTypes
  /\ LogInv
  /\ test \in {"baseline", "ready"} => quiet = 0
  /\ test = "fencing" /\ stopped /\ Saves(phase[0]) =>
       quiet <= saving /\ quiet <= QuiescenceWindow
  /\ test \in {"ready", "fencing"} \cup Fenced =>
       fence.checkpoint \in Nat /\ fence.checkpoint > 0
  /\ test \in Before \cup {"fenced"} => found = <<>>
  /\ test \in Fenced \ {"fenced"} => restarts # first
  /\ Exact /\ restarts = first =>
       /\ fence.checkpoint = latest /\ logged.checkpoint = latest
       /\ ~Saves(phase[0])
       /\ stopped \/ phase[Victim] = "failed"
  /\ Exact /\ restarts = first + 1 =>
       /\ \A r \in Rank : resumed[r] \in {0, fence.checkpoint}
       /\ (\E r \in Rank : phase[r] \in {"starting", "joined"})
            => latest = fence.checkpoint
       /\ \A i \in DOMAIN found : found[i] = fence.checkpoint
  /\ FenceIsExact

LEMMA EmptyFound == <<>> \in Seq(Nat)
OBVIOUS

LEMMA TestInit == FenceInit => TestInv
<1> SUFFICES ASSUME FenceInit PROVE TestInv
  OBVIOUS
<1>1. /\ saving = 0 /\ quiet = 0 /\ unfinished = 0 /\ first = 0 /\ restarts = 0
      /\ stopped = FALSE /\ test = "baseline" /\ found = <<>>
      /\ resumed = [r \in Rank |-> 0] /\ logged.checkpoint = 0
  BY DEF FenceInit, DataInit, Init, NoLog
<1>2. TestTypes
  <2>1. found \in Seq(Nat)
    BY <1>1, EmptyFound
  <2>2. resumed = [r \in Rank |-> resumed[r]] /\ \A r \in Rank : resumed[r] \in Nat
    BY <1>1
  <2>3. /\ saving \in Nat /\ quiet \in Nat /\ unfinished \in Nat
        /\ first \in Nat /\ first <= restarts
    BY <1>1
  <2>4. stopped \in BOOLEAN
    BY <1>1
  <2>5. test \in Before \cup Fenced \cup {"failed"}
    BY <1>1 DEF Before
  <2> QED
    BY <2>1, <2>2, <2>3, <2>4, <2>5 DEF TestTypes
<1>3. LogInv
  BY <1>1 DEF LogInv
<1> QED
  BY <1>1, <1>2, <1>3 DEF TestInv, Before, Fenced, Exact, FenceIsExact

LEMMA TestJobStep ==
  ASSUME GroupInv, GroupInv', TestInv, JobStep
  PROVE  TestInv'
<1> USE Ranks
<1>0. /\ JobMoves /\ Log /\ UNCHANGED testVars
      /\ stopped' = (stopped /\ ~Gone(Victim))
      /\ stopped => StandsStill
      /\ saving' = IF Saves(phase'[0]) THEN saving ELSE 0
      /\ restarts \in Nat /\ latest \in Nat /\ Victim \in Rank
      /\ step' = [r \in Rank |-> step'[r]] /\ \A r \in Rank : step'[r] \in Nat
  <2>1. Victim \in Rank
    BY TrainingAssumption DEF Victim, Rank
  <2> QED
    BY <2>1, JobStepMoves DEF JobStep, GroupInv, TypeOK
<1>1. TestTypes'
  <2>1. resumed' = [r \in Rank |-> resumed'[r]]
    BY <1>0 DEF Log
  <2>2. ASSUME NEW r \in Rank PROVE resumed'[r] \in Nat
    <3>1. resumed'[r] \in {0, step'[r], resumed[r]}
      BY <1>0 DEF Log
    <3> QED
      BY <1>0, <3>1 DEF TestInv, TestTypes
  <2>3. saving' \in Nat /\ first \in Nat /\ first <= restarts'
    BY <1>0 DEF TestInv, TestTypes, JobMoves
  <2> QED
    BY <1>0, <2>1, <2>2, <2>3 DEF TestInv, TestTypes, testVars
<1>2. /\ test' = test /\ quiet' = quiet /\ fence' = fence /\ first' = first
      /\ found' = found /\ unfinished' = unfinished
      /\ (Exact' <=> Exact)
  BY <1>0 DEF testVars, Exact
(* While rank 0 publishes, no rank is before its load. *)
<1>9. phase[0] = "savingLatest" =>
        \A r \in Rank : phase[r] \notin {"starting", "joined"}
  <2>1. ASSUME phase[0] = "savingLatest", NEW r \in Rank, phase[r] # "failed"
        PROVE  phase[r] \in {"savingStep", "savingLatest", "barrier"}
    BY <2>1, SameStage DEF GroupInv, Stages
  <2> QED
    BY <2>1
<1>3. LogInv'
  <2>1. CASE phase'[0] = "starting"
    BY <1>0, <2>1 DEF LogInv, Log, NoLog
  <2>2. CASE phase'[0] # "starting"
    <3>1. restarts' = restarts
      BY <1>0, <2>2 DEF JobMoves
    <3>2. /\ logged.checkpoint \in {0, latest}
          /\ \A r \in Rank : phase[r] = "starting" => logged.checkpoint = 0
      BY DEF TestInv, LogInv
    <3>3. CASE phase[0] = "savingLatest" /\ phase'[0] = "barrier"
      <4>1. logged'.checkpoint = latest'
        BY <1>0, <2>2, <3>3 DEF Log, JobMoves
      <4>2. \A r \in Rank : phase'[r] # "starting"
        BY <1>0, <1>9, <3>1, <3>3 DEF JobMoves
      <4> QED
        BY <4>1, <4>2 DEF LogInv
    <3>4. CASE ~(phase[0] = "savingLatest" /\ phase'[0] = "barrier")
      <4>1. logged'.checkpoint = logged.checkpoint /\ latest' = latest
        BY <1>0, <2>2, <3>4 DEF Log, JobMoves
      <4>2. \A r \in Rank : phase'[r] = "starting" => phase[r] = "starting"
        BY <1>0, <3>1 DEF JobMoves
      <4> QED
        BY <3>2, <4>1, <4>2 DEF LogInv
    <3> QED
      BY <3>3, <3>4
  <2> QED
    BY <2>1, <2>2
(* A stopped worker keeps its group from starting a save. *)
<1>4. stopped \/ phase[Victim] = "failed" =>
        (Saves(phase'[0]) => Saves(phase[0]))
  BY <1>0 DEF JobMoves, StandsStill, Gone
<1>5. test' = "fencing" /\ stopped' /\ Saves(phase'[0]) =>
        quiet' <= saving' /\ quiet' <= QuiescenceWindow
  BY <1>0, <1>2, <1>4 DEF TestInv
<1>6. ASSUME Exact, restarts' = first
      PROVE  /\ fence.checkpoint = latest' /\ logged'.checkpoint = latest'
             /\ ~Saves(phase'[0])
             /\ stopped' \/ phase'[Victim] = "failed"
  <2>1. restarts = first /\ restarts' = restarts
    BY <1>0, <1>6 DEF JobMoves, TestInv, TestTypes
  <2>2. /\ ~Saves(phase[0]) /\ (stopped \/ phase[Victim] = "failed")
        /\ fence.checkpoint = latest /\ logged.checkpoint = latest
        /\ fence.checkpoint > 0
    BY <1>6, <2>1 DEF TestInv, Exact
  <2>3. latest' = latest
    BY <1>0, <2>2 DEF JobMoves, Saves
  <2>4. \A r \in Rank : phase'[r] # "starting"
    <3>1. \A r \in Rank : phase[r] # "starting"
      BY <2>2 DEF TestInv, LogInv
    <3> QED
      BY <1>0, <2>1, <3>1 DEF JobMoves
  <2>5. logged'.checkpoint = logged.checkpoint
    BY <1>0, <2>2, <2>4 DEF Log, Saves
  <2>6. ~Saves(phase'[0])
    BY <1>4, <2>2
  <2>7. stopped' \/ phase'[Victim] = "failed"
    BY <1>0, <2>1, <2>2, <2>4 DEF JobMoves, Gone
  <2> QED
    BY <2>2, <2>3, <2>5, <2>6, <2>7
<1>7. ASSUME Exact, restarts' = first + 1
      PROVE  /\ \A r \in Rank : resumed'[r] \in {0, fence.checkpoint}
             /\ (\E r \in Rank : phase'[r] \in {"starting", "joined"})
                  => latest' = fence.checkpoint
             /\ \A i \in DOMAIN found : found[i] = fence.checkpoint
  <2>1. CASE restarts = first
    <3>4. restarts' # restarts
      BY <1>0, <1>7, <2>1
    <3>1. \A r \in Rank : phase'[r] = "starting" /\ resumed'[r] = 0
      BY <1>0, <3>4 DEF JobMoves, Log
    <3>2. latest' = latest /\ latest = fence.checkpoint
      BY <1>0, <1>7, <2>1 DEF JobMoves, TestInv, TestTypes
    <3>3. found = <<>>
      BY <1>7, <2>1 DEF TestInv, Exact, Fenced
    <3> QED
      BY <3>1, <3>2, <3>3
  <2>2. CASE restarts = first + 1
    <3>1. /\ \A r \in Rank : resumed[r] \in {0, fence.checkpoint}
          /\ (\E r \in Rank : phase[r] \in {"starting", "joined"})
               => latest = fence.checkpoint
          /\ \A i \in DOMAIN found : found[i] = fence.checkpoint
          /\ fence.checkpoint > 0
      BY <1>7, <2>2 DEF TestInv, Exact
    <3>2. ASSUME NEW r \in Rank, phase'[r] \in {"starting", "joined"}
          PROVE  latest' = fence.checkpoint
      BY <1>0, <1>7, <1>9, <2>2, <3>1, <3>2 DEF JobMoves
    <3>3. ASSUME NEW r \in Rank PROVE resumed'[r] \in {0, fence.checkpoint}
      <4>1. CASE phase[r] = "joined" /\ phase'[r] = "loaded"
        <5>1. resumed'[r] = LatestCheckpoint
          BY <1>0, <1>7, <2>2, <4>1 DEF JobMoves, Log
        <5>2. LatestCheckpoint = latest /\ latest = fence.checkpoint
          BY <3>1, <4>1, CheckpointFacts DEF GroupInv
        <5> QED
          BY <5>1, <5>2
      <4>2. CASE ~(phase[r] = "joined" /\ phase'[r] = "loaded")
        <5>1. resumed'[r] \in {0, resumed[r]}
          BY <1>0, <4>2 DEF Log
        <5> QED
          BY <3>1, <5>1
      <4> QED
        BY <4>1, <4>2
    <3> QED
      BY <3>1, <3>2, <3>3
  <2> QED
    BY <1>0, <1>7, <2>1, <2>2 DEF JobMoves, TestInv, TestTypes
<1>8. restarts' >= restarts
  BY <1>0 DEF JobMoves
<1>10. /\ restarts' \in Nat /\ first \in Nat /\ first <= restarts
       /\ (restarts # first => restarts' # first)
  <2>1. first \in Nat /\ first <= restarts
    BY DEF TestInv, TestTypes
  <2>2. restarts' = restarts \/ restarts' = restarts + 1
    BY <1>0 DEF JobMoves
  <2> QED
    BY <1>0, <2>1, <2>2
<1>11. FenceIsExact'
  <2>1. test = "wrong checkpoint" =>
          restarts > first + 1 \/ unfinished >= QuiescenceWindow
    BY DEF TestInv, FenceIsExact
  <2>2. restarts > first + 1 => restarts' > first + 1
    BY <1>0, <1>8, <1>10
  <2> QED
    BY <1>2, <2>1, <2>2 DEF FenceIsExact
<1> QED
  BY <1>1, <1>2, <1>3, <1>5, <1>6, <1>7, <1>10, <1>11 DEF TestInv

LEMMA TestTick == ASSUME GroupInv, TestInv, Tick PROVE TestInv'
<1> USE Ranks
<1>0. /\ UNCHANGED <<latest, phase, restarts, logged, resumed, stopped, test,
                     first, fence, unfinished, found>>
      /\ test = "fencing" /\ quiet' = quiet + 1 /\ quiet < QuiescenceWindow
      /\ saving' = IF Saves(phase[0]) /\ saving < QuiescenceWindow
                   THEN saving + 1 ELSE saving
      /\ QuiescenceWindow \in Nat
  BY FenceAssumption DEF Tick, vars, files, ranks, logs
<1>1. TestTypes'
  <2>1. saving \in Nat /\ quiet \in Nat
    BY DEF TestInv, TestTypes
  <2>2. saving' \in Nat /\ quiet' \in Nat
    BY <1>0, <2>1
  <2> QED
    BY <1>0, <2>2 DEF TestInv, TestTypes
<1>2. stopped /\ Saves(phase[0]) => quiet' <= saving' /\ quiet' <= QuiescenceWindow
  BY <1>0 DEF TestInv, TestTypes
<1>3. LogInv'
  BY <1>0 DEF TestInv, LogInv
<1> QED
  BY <1>0, <1>1, <1>2, <1>3 DEF TestInv, Before, Fenced, Exact, FenceIsExact

(* What a step of the test leaves alone. *)
LEMMA TestStays ==
  ASSUME Unmoved
  PROVE  UNCHANGED <<latest, phase, restarts, logged, resumed, saving>>
BY DEF Unmoved, vars, files, ranks, logs

LEMMA LogStays ==
  ASSUME TestInv, Unmoved
  PROVE  LogInv'
BY TestStays DEF TestInv, LogInv

LEMMA TestBegins ==
  ASSUME GroupInv, TestInv, ReachStep \/ PauseWorker
  PROVE  TestInv'
<1> USE Ranks
<1>0. UNCHANGED <<latest, phase, restarts, logged, resumed, saving>> /\ LogInv'
  BY TestStays, LogStays DEF ReachStep, PauseWorker
<1>1. CASE ReachStep
  <2>1. /\ test = "baseline" /\ first' = restarts /\ logged.checkpoint # 0
        /\ test' = "ready" /\ fence' = logged
        /\ UNCHANGED <<stopped, quiet, unfinished, found>>
    BY <1>1 DEF ReachStep
  <2>2. fence'.checkpoint \in Nat /\ fence'.checkpoint > 0
    BY <2>1 DEF TestInv, LogInv, GroupInv, TypeOK
  <2>3. TestTypes'
    <3>1. restarts \in Nat
      BY DEF GroupInv, TypeOK
    <3> QED
      BY <1>0, <2>1, <3>1 DEF TestInv, TestTypes, Before
  <2> QED
    BY <1>0, <2>1, <2>2, <2>3 DEF TestInv, Before, Fenced, Exact, FenceIsExact
<1>2. CASE PauseWorker
  <2>1. /\ test = "ready" /\ test' = "fencing" /\ stopped' = TRUE
        /\ UNCHANGED <<first, quiet, fence, unfinished, found>>
    BY <1>2 DEF PauseWorker
  <2>2. TestTypes'
    BY <1>0, <2>1 DEF TestInv, TestTypes, Before
  <2>3. quiet = 0 /\ saving \in Nat /\ QuiescenceWindow \in Nat
    BY <2>1, FenceAssumption DEF TestInv, TestTypes
  <2> QED
    BY <1>0, <2>1, <2>2, <2>3 DEF TestInv, Before, Fenced, Exact, FenceIsExact
<1> QED
  BY <1>1, <1>2

(* If the save is over, latest.pt is what the log says; if it is not, it   *)
(* has lasted for the whole window.                                        *)
LEMMA TestFences ==
  ASSUME GroupInv, TestInv, ObserveLog
  PROVE  TestInv'
<1> USE Ranks
<1>0. /\ UNCHANGED <<latest, phase, restarts, logged, resumed, saving>>
      /\ UNCHANGED <<stopped, first, found>> /\ LogInv'
      /\ test = "fencing" /\ restarts = first /\ stopped
      /\ logged.checkpoint >= fence.checkpoint
      /\ fence.checkpoint \in Nat /\ fence.checkpoint > 0 /\ found = <<>>
      /\ QuiescenceWindow \in Nat
      /\ saving \in Nat /\ quiet \in Nat /\ first \in Nat
  BY TestStays, LogStays, FenceAssumption
  DEF ObserveLog, FirstPods, TestInv, TestTypes, Before
<1>1. logged.checkpoint = latest /\ latest \in Nat /\ latest > 0
  BY <1>0 DEF TestInv, LogInv, GroupInv, TypeOK
<1>2. CASE logged # observed
  <2>1. quiet' = 0 /\ UNCHANGED <<test, fence, unfinished>>
    BY <1>2 DEF ObserveLog, Quiescent
  <2>2. TestTypes'
    BY <1>0, <2>1 DEF TestInv, TestTypes
  <2> QED
    BY <1>0, <2>1, <2>2 DEF TestInv, Before, Fenced, Exact, FenceIsExact
<1>3. CASE logged = observed
  <2>1. /\ quiet >= QuiescenceWindow /\ UNCHANGED quiet
        /\ test' = "fenced" /\ fence' = logged
        /\ unfinished' = IF Saves(phase[0]) THEN saving ELSE 0
    BY <1>3 DEF ObserveLog, Quiescent, TakeFence
  <2>2. TestTypes'
    <3>1. unfinished' \in Nat
      BY <1>0, <2>1
    <3> QED
      BY <1>0, <2>1, <3>1 DEF TestInv, TestTypes, Fenced
  <2>3. Saves(phase[0]) => unfinished' >= QuiescenceWindow
    <3>1. Saves(phase[0]) => quiet <= saving
      BY <1>0 DEF TestInv
    <3> QED
      BY <1>0, <2>1, <3>1
  <2>4. fence'.checkpoint = latest
    BY <1>1, <2>1
  <2>5. Exact' => ~Saves(phase[0])
    BY <1>0, <2>1, <2>2, <2>3 DEF Exact, TestTypes
  <2>6. restarts # first + 1
    BY <1>0
  <2> QED
    BY <1>0, <1>1, <2>1, <2>2, <2>4, <2>5, <2>6
    DEF TestInv, Before, Fenced, FenceIsExact, Exact
<1> QED
  BY <1>2, <1>3

LEMMA TestAsks ==
  ASSUME GroupInv, TestInv, SeeReplacement \/ ReadResumed
  PROVE  TestInv'
<1> USE Ranks
<1>0. UNCHANGED <<latest, phase, restarts, logged, resumed, saving>> /\ LogInv'
  BY TestStays, LogStays DEF SeeReplacement, ReadResumed
<1>1. CASE SeeReplacement
  <2>1. /\ test = "fenced" /\ restarts # first /\ test' = "replaced"
        /\ UNCHANGED <<stopped, first, quiet, fence, unfinished, found>>
    BY <1>1 DEF SeeReplacement, FirstPods
  <2>2. TestTypes'
    BY <1>0, <2>1 DEF TestInv, TestTypes, Fenced
  <2> QED
    BY <1>0, <2>1, <2>2 DEF TestInv, Before, Fenced, Exact, FenceIsExact
<1>2. CASE ReadResumed
  <2>1. /\ test = "replaced" /\ test' = test /\ restarts # first
        /\ UNCHANGED <<stopped, first, quiet, fence, unfinished>>
        /\ Len(found) < WorldSize /\ resumed[Len(found)] # 0
        /\ found' = Append(found, resumed[Len(found)])
    BY <1>2 DEF ReadResumed, TestInv, Fenced
  <2>2. found \in Seq(Nat) /\ Len(found) \in Rank
    BY <2>1, TrainingAssumption DEF TestInv, TestTypes, Rank
  <2>3. resumed[Len(found)] \in Nat
    BY <2>2 DEF TestInv, TestTypes
  <2>4. found' \in Seq(Nat)
    BY <2>1, <2>2, <2>3
  <2>5. TestTypes'
    BY <1>0, <2>1, <2>4 DEF TestInv, TestTypes
  <2>6. Exact /\ restarts = first + 1
          => \A i \in DOMAIN found' : found'[i] = fence.checkpoint
    <3> SUFFICES ASSUME Exact, restarts = first + 1, NEW i \in DOMAIN found'
                 PROVE  found'[i] = fence.checkpoint
      OBVIOUS
    <3>1. /\ resumed[Len(found)] = fence.checkpoint
          /\ \A j \in DOMAIN found : found[j] = fence.checkpoint
      BY <2>1, <2>2 DEF TestInv
    <3>2. i = Len(found) + 1 \/ i \in DOMAIN found
      BY <2>1, <2>2, <2>3
    <3>3. i \in DOMAIN found => found'[i] = found[i]
      BY <2>1, <2>2, <2>3
    <3>4. i = Len(found) + 1 => found'[i] = resumed[Len(found)]
      BY <2>1, <2>2, <2>3
    <3> QED
      BY <3>1, <3>2, <3>3, <3>4
  <2>7. Exact' <=> Exact
    BY <2>1 DEF Exact
  <2> QED
    BY <1>0, <2>1, <2>5, <2>6, <2>7 DEF TestInv, Before, Fenced, FenceIsExact
<1> QED
  BY <1>1, <1>2

LEMMA TestEnds ==
  ASSUME GroupInv, TestInv, Judge \/ SeeProgress \/ AbortTest
  PROVE  TestInv'
<1> USE Ranks
<1>0. /\ UNCHANGED <<latest, phase, restarts, logged, resumed, saving>> /\ LogInv'
      /\ UNCHANGED <<first, quiet, fence, unfinished, found>>
  BY TestStays, LogStays DEF Judge, SeeProgress, AbortTest
<1>1. CASE Judge
  <2>1. /\ test = "replaced" /\ restarts # first /\ UNCHANGED stopped
        /\ test' = IF \A i \in DOMAIN found : found[i] = fence.checkpoint
                   THEN "resumed" ELSE "wrong checkpoint"
    BY <1>1 DEF Judge, TestInv, Fenced
  <2>2. Exact /\ restarts = first + 1
          => \A i \in DOMAIN found : found[i] = fence.checkpoint
    BY DEF TestInv
  <2>3. test' = "wrong checkpoint" =>
          restarts > first + 1 \/ unfinished >= QuiescenceWindow
    <3>1. /\ restarts \in Nat /\ first \in Nat /\ first <= restarts
          /\ unfinished \in Nat /\ QuiescenceWindow \in Nat
      BY FenceAssumption DEF GroupInv, TypeOK, TestInv, TestTypes
    <3>4. restarts # first /\ test \in Fenced
      BY <2>1 DEF Fenced
    <3>2. restarts # first + 1 => restarts > first + 1
      BY <3>1, <3>4
    <3>3. ~Exact => unfinished >= QuiescenceWindow
      BY <3>1, <3>4 DEF Exact
    <3> QED
      BY <2>1, <2>2, <3>2, <3>3
  <2>4. test' \in {"resumed", "wrong checkpoint"} /\ (Exact' <=> Exact)
    BY <1>0, <2>1 DEF Exact, Fenced
  <2>5. TestTypes'
    BY <1>0, <2>1, <2>4 DEF TestInv, TestTypes, Fenced
  <2>6. FenceIsExact'
    BY <1>0, <2>3 DEF FenceIsExact
  <2> QED
    BY <1>0, <2>1, <2>4, <2>5, <2>6 DEF TestInv, Before, Fenced
<1>2. CASE SeeProgress
  <2>1. test = "resumed" /\ test' = "passed" /\ UNCHANGED stopped
    BY <1>2 DEF SeeProgress
  <2>2. TestTypes'
    BY <1>0, <2>1 DEF TestInv, TestTypes, Fenced
  <2> QED
    BY <1>0, <2>1, <2>2 DEF TestInv, Before, Fenced, Exact, FenceIsExact
<1>3. CASE AbortTest
  <2>1. test' = "failed" /\ stopped' \in {stopped, FALSE}
    BY <1>3 DEF AbortTest
  <2>2. stopped' \in BOOLEAN
    BY <2>1 DEF TestInv, TestTypes
  <2>3. TestTypes'
    BY <1>0, <2>1, <2>2 DEF TestInv, TestTypes
  <2> QED
    BY <1>0, <2>1, <2>3 DEF TestInv, Before, Fenced, Exact, FenceIsExact
<1> QED
  BY <1>1, <1>2, <1>3

LEMMA TestStutters ==
  ASSUME TestInv, UNCHANGED <<vars, dataVars, fenceVars>>
  PROVE  TestInv'
<1>1. /\ UNCHANGED <<latest, phase, restarts, logged, resumed, stopped, saving>>
      /\ UNCHANGED <<test, first, quiet, fence, unfinished, found>>
  BY DEF vars, files, ranks, fenceVars, logs, testVars
<1> QED
  BY <1>1 DEF TestInv, TestTypes, LogInv, Exact, FenceIsExact

LEMMA FenceStepIsData == FenceNext => [DataNext]_<<vars, dataVars>>
BY DEF FenceNext, JobStep, Tick, ReachStep, PauseWorker, ObserveLog, SeeReplacement,
       ReadResumed, Judge, SeeProgress, AbortTest, Unmoved

(* What the ranks learn and save decorates the job: it neither adds a step *)
(* to it nor changes one (TrainingData's actions are TrainingCheckpoint's).*)
THEOREM DataKeepsTheJob == DataSpec => Spec
<1>1. DataInit => Init
  BY DEF DataInit
<1>2. [DataNext]_<<vars, dataVars>> => [Next]_vars
  BY DataStepIsStep
<1> QED
  BY <1>1, <1>2, PTL DEF DataSpec, Spec

(* The recovery test reads logs, stops a worker and waits: whatever the    *)
(* job does under it, the job could have done without it.                  *)
THEOREM TestOnlyWatches == FenceSpec => DataSpec
<1>1. FenceInit => DataInit
  BY DEF FenceInit
<1>2. [FenceNext]_<<vars, dataVars, fenceVars>> => [DataNext]_<<vars, dataVars>>
  BY FenceStepIsData
<1> QED
  BY <1>1, <1>2, PTL DEF FenceSpec, DataSpec

(* So a job keeps its promises while it is being tested: those of a job of *)
(* its own hold in every run of the test, a worker stopped for as long as  *)
(* the test likes among them.                                              *)
THEOREM TestedJobKeepsPromises ==
  ASSUME ~Lingering
  PROVE  FenceSpec =>
           /\ [](TypeOK /\ RanksInStep /\ BoundedLoss /\ RanksNeverStuck)
           /\ []ResumesWhereItWas
           /\ ImplementsTrainingProgress
BY TestOnlyWatches, DataKeepsTheJob, TrainingTypes, RanksStayInStep, LossIsBounded,
   GroupNeverStuck, ResumptionIsExact, ProgressIsDurable, PTL

(* Whatever the job does while the recovery test runs, in whichever        *)
(* generation the test began and however long a save takes, the test calls *)
(* the checkpoint the ranks resumed the wrong one only if their group      *)
(* failed again or if it took its fence while a save was still running     *)
(* after a whole window of silence (FenceIsExact).                         *)
THEOREM FenceHolds ==
  ASSUME ~Lingering
  PROVE  FenceSpec => []FenceIsExact
<1> DEFINE Inv == GroupInv /\ Alone /\ TestInv
<1>1. FenceInit => Inv
  BY GroupInit, TestInit DEF FenceInit, DataInit, Init, Alone
<1>2. Inv /\ [FenceNext]_<<vars, dataVars, fenceVars>> => Inv'
  <2> SUFFICES ASSUME GroupInv, Alone, TestInv,
                      [FenceNext]_<<vars, dataVars, fenceVars>>
               PROVE  GroupInv' /\ Alone' /\ TestInv'
    OBVIOUS
  <2>1. [Next]_vars
    BY FenceStepIsData, DataStepIsStep
  <2>2. Alone' /\ ~disturbed'
    BY <2>1, AloneStep DEF Alone
  <2>3. GroupInv'
    BY <2>1, <2>2, GroupStep
  <2>4. CASE FenceNext
    BY <2>2, <2>3, <2>4, TestJobStep, TestTick, TestBegins, TestFences, TestAsks, TestEnds
       DEF FenceNext
  <2>5. CASE UNCHANGED <<vars, dataVars, fenceVars>>
    BY <2>2, <2>3, <2>5, TestStutters
  <2> QED
    BY <2>2, <2>3, <2>4, <2>5
<1>3. Inv => FenceIsExact
  BY DEF TestInv
<1> QED
  BY <1>1, <1>2, <1>3, PTL DEF FenceSpec
=============================================================================

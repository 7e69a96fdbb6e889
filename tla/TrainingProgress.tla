-------------------------- MODULE TrainingProgress --------------------------
(***************************************************************************)
(* What a training run promises about its progress: optimizer steps are    *)
(* done one after the other, a checkpoint makes the work done so far       *)
(* durable, a failure loses what is not durable and nothing else.          *)
(***************************************************************************)
EXTENDS Integers

CONSTANT MaxSteps

VARIABLES work, durable

vars == <<work, durable>>

Init == work = 0 /\ durable = 0

Step == work < MaxSteps /\ work' = work + 1 /\ UNCHANGED durable
Save == work > durable /\ durable' = work /\ UNCHANGED work
Lose == work > durable /\ work' = durable /\ UNCHANGED durable

Next == Step \/ Save \/ Lose

Spec == Init /\ [][Next]_vars
=============================================================================

-------------------------- MODULE MCReconcileQueue --------------------------
(* Instances of ReconcileQueue for TLC.                                    *)
EXTENDS ReconcileQueue

(* The first retries come within one tick, the later ones ever later.      *)
BackoffTicks == <<0, 1, 3>>
=============================================================================

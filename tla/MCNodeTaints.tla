---------------------------- MODULE MCNodeTaints ----------------------------
(* Instances of NodeTaints for TLC.                                        *)
EXTENDS NodeTaints

(* The exact taint, put by hand; one in its slot with another value; the   *)
(* same with an effect that does not share the slot; an unrelated one.     *)
AdminTaints ==
  { degradedTaint,
    [degradedTaint EXCEPT !.value = "maintenance"],
    [degradedTaint EXCEPT !.effect = "NoExecute"],
    [degradedTaint EXCEPT !.key = "spot"] }
=============================================================================

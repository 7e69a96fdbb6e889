----------------------- MODULE MCNodeHealthEvents -----------------------
(* Instances of NodeHealthEvents for TLC.                                  *)
EXTENDS NodeHealthEvents, TLC

ControllersAlike == Permutations(Controller)

(* A working copy that is not current can no longer have an effect: its    *)
(* Update fails, and where there is nothing to update the worker becomes   *)
(* idle as well (an unchanged copy is never degraded, since a degraded     *)
(* observation carries a new clock reading).  What such a copy contains is *)
(* therefore left out, and so is the cache: a fresh copy equals the node.  *)
LatestView ==
  << node, evidence, pulled, exposed, podStatus, podNode, fresh, current,
     [c \in Controller |->
        IF c \notin current /\ work[c].phase \in {"read", "observed"}
        THEN [Idle EXCEPT !.phase = work[c].phase, !.node = work[c].node]
        ELSE work[c]] >>
=============================================================================

----------------------- MODULE NodeHealthObservations -----------------------
(***************************************************************************)
(* NodeHealthController with a history of what the health source answered, *)
(* whether or not the answer reached the node: the age of the last         *)
(* observation that was not healthy.                                       *)
(***************************************************************************)
EXTENDS NodeHealthController

VARIABLE lastUnhealthy

observedVars == <<vars, lastUnhealthy>>

ObservedInit ==
  Init /\ lastUnhealthy = [n \in Node |-> RecoveryWindow]

(* Nodes of which a controller observes, in this step, that they are not   *)
(* healthy.                                                                *)
NewlyUnhealthy ==
  {n \in Node : \E c \in Controller :
     /\ work[c].phase = "read" /\ work'[c].phase = "observed"
     /\ Target(c) = n /\ work'[c].observed # "healthy"}

ObservedNext ==
  \/ /\ Tick
     /\ lastUnhealthy' = [n \in Node |-> Capped(lastUnhealthy[n] + 1)]
  \/ /\ \/ \E c \in Controller : ControllerStep(c)
        \/ \E n \in Node : NodeStep(n)
        \/ \E p \in Pod : PodLifeStep(p)
     /\ lastUnhealthy' = [n \in Node |->
          IF n \in NewlyUnhealthy THEN 0 ELSE lastUnhealthy[n]]

ObservedSpec == ObservedInit /\ [][ObservedNext]_observedVars

(* recovery_policy.go:5-6: isolation is preserved "until healthy evidence  *)
(* has remained continuous for the configured confirmation window": no     *)
(* unhealthy observation of the last window may precede a release.         *)
ReleasedOnlyAfterHealthyObservations ==
  [][\A n \in Node :
       node[n].managed /\ ~node'[n].managed
         => lastUnhealthy[n] = RecoveryWindow]_observedVars
=============================================================================

-------------------------- MODULE NodeHealthEvents --------------------------
(***************************************************************************)
(* The Kubernetes Events about a node that Reconcile publishes, once its   *)
(* Update has succeeded or there was nothing to update: computed from the  *)
(* copy it read and the copy it wrote, while the node may have changed in  *)
(* between.                                                                *)
(***************************************************************************)
EXTENDS NodeHealthController

Event ==
  { "GPUNodeHealthDegraded", "GPUNodeHealthRecovering", "GPUNodeHealthUnknown",
    "GPUNodeHealthRecovered" }

Enters(state, before, after) ==
  after.state = state /\ ParseState(before.state) # state

(* A slip: an event for every decision to isolate.                         *)
TransitionEventsRepeated(before, after) ==
  { e \in Event :
      \/ e = "GPUNodeHealthDegraded" /\ after.state = "degraded"
      \/ e = "GPUNodeHealthRecovering" /\ Enters("recovering", before, after)
      \/ e = "GPUNodeHealthUnknown" /\ Enters("unknown", before, after)
      \/ e = "GPUNodeHealthRecovered" /\ Tainted(before) /\ ~Tainted(after) }

(* What Reconcile tells of its copy before and after its mutations.        *)
TransitionEvents(before, after) ==
  { e \in Event :
      \/ e = "GPUNodeHealthDegraded" /\ ~Tainted(before) /\ Tainted(after)
      \/ e = "GPUNodeHealthRecovering" /\ Enters("recovering", before, after)
      \/ e = "GPUNodeHealthUnknown" /\ Enters("unknown", before, after)
      \/ e = "GPUNodeHealthRecovered" /\ Tainted(before) /\ ~Tainted(after) }

(* What became of the node in the store in a step, whoever took it.        *)
Happened(n) ==
  { e \in Event :
      \/ e = "GPUNodeHealthDegraded" /\ ~Tainted(node[n]) /\ Tainted(node'[n])
      \/ e = "GPUNodeHealthRecovered" /\ Tainted(node[n]) /\ ~Tainted(node'[n])
      \/ e = "GPUNodeHealthRecovering" /\ Enters("recovering", node[n], node'[n])
      \/ e = "GPUNodeHealthUnknown" /\ Enters("unknown", node[n], node'[n]) }

(* Events tell of what was stored: no stale copy, conflict, retry, repeat  *)
(* of an observation or second controller makes one that has no change     *)
(* behind it or misses one (docs/blog.md:116: repeated signals "do not     *)
(* duplicate either the taint or its transition event").                   *)
EventsTellChanges ==
  [][\A c \in Controller :
       UpdateSucceeds(c) \/ NothingToUpdate(c) =>
         TransitionEvents(work[c].obj, Proposal(c)) = Happened(Target(c))]_vars
=============================================================================

---------------------- MODULE NodeHealthEvictionProofs ----------------------
(***************************************************************************)
(* What a reconcile may conclude from what it observed: with the           *)
(* annotation source it releases only a node that is still confirmed, and  *)
(* a controller that is alone evicts only from an isolated node.  Both     *)
(* rest on the observation the worker carries being the one its working    *)
(* copy calls for.                                                         *)
(***************************************************************************)
EXTENDS NodeHealthEvents, NodeHealthControllerProofs

(* A degraded observation carries a clock reading, so it always leads to   *)
(* an Update; one of the annotation source is that of the working copy.    *)
Observations ==
  \A c \in Controller : work[c].phase = "observed" =>
    /\ work[c].observed = "degraded" => work[c].at = "clock"
    /\ Source = "annotation" => work[c].observed = AnnotationState(work[c].obj)

(* No worker has observed anything yet. *)
LEMMA InitObservations == Init => Observations
BY DEF Init, Idle, Observations

(* Only Observe reaches the phase, and only time passes in it. *)
LEMMA NextObservations ==
  ASSUME TypeOK, Observations, [Next]_vars
  PROVE  Observations'
<1>1. ASSUME NEW c \in Controller, Observe(c) PROVE Observations'
  <2>1. work[c] \in WorkRecord
    BY DEF TypeOK
  <2>2. /\ work'[c].phase = "observed" /\ work'[c].obj = work[c].obj
        /\ work'[c].observed = IF Source = "dcgm" THEN exposed[Target(c)]
                                                  ELSE AnnotationState(work[c].obj)
        /\ work'[c].at = IF Source = "dcgm" THEN "clock"
                                            ELSE AnnotationTime(work[c].obj)
        /\ \A k \in Controller \ {c} : work'[k] = work[k]
    BY <1>1, <2>1 DEF Observe, TypeOK, WorkRecord
  <2>3. AnnotationState(work[c].obj) = "degraded"
          => AnnotationTime(work[c].obj) = "clock"
    BY DEF AnnotationTime
  <2> QED
    BY <2>2, <2>3, ControllerAssumption DEF Observations
<1>2. ASSUME NEW c \in Controller, \A k \in Controller \ {c} : work'[k] = work[k],
             work'[c].phase = "observed" => work'[c] = work[c]
      PROVE  Observations'
  BY <1>2 DEF Observations
<1>3. ASSUME NEW c \in Controller, ReconcileStep(c) \/ Crash(c), ~Observe(c)
      PROVE  Observations'
  <2>1. \A k \in Controller \ {c} : work'[k] = work[k]
    BY <1>3 DEF ReconcileStep, Begin, UpdateSucceeds, UpdateFails, NothingToUpdate,
                ListPods, ListFails, EvictAccepted, EvictNotFoundOrFails,
                EvictionsDone, Crash, Return, Proceed, TypeOK
  <2>2. Idle.phase = "idle" /\ \A n \in Node : Listing(n).phase = "listing"
    BY DEF Idle, Listing
  <2>3. ASSUME NEW n \in Node, Begin(c, n) PROVE work'[c].phase = "read"
    BY <2>3 DEF Begin, TypeOK, Idle
  <2>4. ASSUME UpdateSucceeds(c) \/ NothingToUpdate(c)
        PROVE  work'[c].phase # "observed"
    BY <2>2, <2>4, ProposalType DEF UpdateSucceeds, NothingToUpdate, Proceed, TypeOK
  <2>5. ASSUME UpdateFails(c) \/ ListFails(c) \/ EvictionsDone(c) \/ Crash(c)
        PROVE  work'[c].phase # "observed"
    BY <2>2, <2>5 DEF UpdateFails, ListFails, EvictionsDone, Crash, Return, TypeOK
  <2>6. ASSUME ListPods(c) PROVE work'[c].phase # "observed"
    BY <2>6 DEF ListPods, TypeOK, WorkRecord
  <2>7. ASSUME NEW p \in Pod, EvictAccepted(c, p) \/ EvictNotFoundOrFails(c, p)
        PROVE  Observations'
    <3>1. work' = [work EXCEPT ![c].todo = @ \ {p}]
      BY <2>7 DEF EvictAccepted, EvictNotFoundOrFails
    <3>2. \A k \in Controller :
            /\ work'[k].phase = work[k].phase /\ work'[k].obj = work[k].obj
            /\ work'[k].observed = work[k].observed /\ work'[k].at = work[k].at
      BY <3>1 DEF TypeOK, WorkRecord
    <3> QED
      BY <3>2 DEF Observations
  <2> QED
    BY <1>2, <1>3, <2>1, <2>3, <2>4, <2>5, <2>6, <2>7 DEF ReconcileStep
<1>4. CASE UNCHANGED work
  BY <1>4 DEF Observations
<1>5. CASE Tick
  <2>1. \A k \in Controller :
          /\ work'[k].phase = work[k].phase /\ work'[k].obj = work[k].obj
          /\ work'[k].observed = work[k].observed /\ work'[k].at = work[k].at
    BY <1>5 DEF Tick, TypeOK, WorkRecord
  <2> QED
    BY <2>1 DEF Observations
<1>6. ASSUME NEW c \in Controller, NEW n \in Node, CacheSync(c, n)
      PROVE  UNCHANGED work
  BY <1>6 DEF CacheSync
<1>7. ASSUME NEW n \in Node, NodeStep(n) PROVE UNCHANGED work
  BY <1>7, NodeStepCases DEF AnotherWrites, ForeignWrite, Expose, workVars
<1>8. ASSUME NEW p \in Pod, PodLifeStep(p) PROVE UNCHANGED work
  BY <1>8 DEF PodLifeStep, Assume, Bind, Finish, Delete, Vanish, PodStep, workVars
<1>9. CASE UNCHANGED vars
  BY <1>9, <1>4 DEF vars, workVars
<1> QED
  BY <1>1, <1>3, <1>4, <1>5, <1>6, <1>7, <1>8, <1>9 DEF Next, ControllerStep

(* Workers carry the observations their copies call for, throughout. *)
LEMMA ObservationsInvariance == Spec => []Observations
<1>1. Inv /\ Observations /\ [Next]_vars => Observations'
  BY NextObservations DEF Inv
<1> QED
  BY <1>1, InitObservations, Invariance, PTL DEF Spec

(* The state that is written names the observation it came from. *)
LEMMA DecisionNamesObservation ==
  ASSUME TypeOK, NEW c \in Controller, work[c].phase = "observed"
  PROVE  /\ Proposal(c).state = "degraded" => work[c].observed = "degraded"
         /\ Proposal(c).state = "healthy" => work[c].observed = "healthy"
<1> DEFINE o == work[c].obj
<1>1. /\ o \in NodeRecord /\ work[c].observed \in Answer
      /\ work[c].at \in Confirmation \cup {"clock"}
  BY ProposalType
<1>2. Proposal(c).state = DecisionFor(o, work[c].observed).state
  BY <1>1, ReconciledFacts DEF Proposal
<1>3. CASE work[c].observed = "degraded"
  BY <1>2, <1>3 DEF DecisionFor, DecideIsolation, Decide
<1>4. CASE work[c].observed = "unknown"
  BY <1>2, <1>4 DEF DecisionFor, DecideIsolation, Decide
<1>5. CASE work[c].observed = "healthy"
  BY <1>2, <1>5 DEF DecisionFor, DecideIsolation, DecideRecovery, ContinueRecovery, Decide
<1> QED
  BY <1>1, <1>3, <1>4, <1>5 DEF Answer

-----------------------------------------------------------------------------
(* A node released by the annotation source was, when it was released,     *)
(* without fault and confirmed.                                            *)
LEMMA ConfirmedStep ==
  ASSUME Inv, Observations, Source = "annotation", [Next]_vars,
         NEW n \in Node, node[n].managed, ~node'[n].managed
  PROVE  ~node[n].fault /\ node[n].confirmation \in Confirmation
<1>1. ASSUME NEW c \in Controller, UpdateSucceeds(c)
      PROVE  ~node[n].fault /\ node[n].confirmation \in Confirmation
  <2>1. n = Target(c) /\ node'[n].state = "healthy"
    BY <1>1, UpdateFacts DEF Inv
  <2>2. /\ work[c].obj \in NodeRecord /\ work[c].elapsed \in Age
        /\ Proposal(c) \in NodeRecord
    BY <1>1, ProposalType DEF UpdateSucceeds, Inv
  <2>3. node[n] = Aged(work[c].obj, work[c].elapsed)
    BY <1>1, <2>1 DEF UpdateSucceeds, Inv, CurrentCopies
  <2>4. Proposal(c).state = "healthy"
    <3>1. node'[n] = Aged(Proposal(c), work[c].elapsed)
      BY <1>1, <2>1 DEF UpdateSucceeds, Inv, TypeOK
    <3> QED
      BY <2>1, <2>2, <3>1, AgedFacts
  <2>5. AnnotationState(work[c].obj) = "healthy"
    BY <1>1, <2>4, DecisionNamesObservation DEF UpdateSucceeds, Inv, Observations
  <2>6. ~work[c].obj.fault /\ work[c].obj.confirmation \in Confirmation
    BY <2>5 DEF AnnotationState
  <2> QED
    BY <2>2, <2>3, <2>6, AgedFacts
<1>2. ASSUME NEW m \in Node, NEW o \in NodeRecord, AnotherWrites(m, o)
      PROVE  FALSE
  BY <1>2 DEF AnotherWrites, ForeignWrite, Inv, TypeOK
<1>3. ~Tick
  <2>1. 1 \in Age /\ node[n] \in NodeRecord
    BY RecoveryWindowAssumption DEF Age, Inv, TypeOK
  <2> QED
    BY <2>1, AgedFacts DEF Tick
<1>4. ~UNCHANGED apiVars
  BY DEF apiVars
<1> QED
  BY <1>1, <1>2, <1>3, <1>4, StepCases DEF Inv

(* With the annotation source, isolation ends only while the node carries  *)
(* a valid confirmation and no fault (ReleasedOnlyWhileConfirmed).         *)
THEOREM ConfirmationBeforeRelease ==
  ASSUME Source = "annotation"
  PROVE  Spec => ReleasedOnlyWhileConfirmed
<1>2. Inv /\ Observations /\ [Next]_vars =>
        [\A n \in Node : node[n].managed /\ ~node'[n].managed
           => ~node[n].fault /\ node[n].confirmation \in Confirmation]_vars
  BY ConfirmedStep
<1> QED
  BY <1>2, ObservationsInvariance, Invariance, PTL
     DEF Spec, ReleasedOnlyWhileConfirmed

-----------------------------------------------------------------------------
(* The taint of a node is gone after a step only by a controller's Update  *)
(* or by a removal by hand.                                                *)
LEMMA TaintStays ==
  ASSUME Inv, [Next]_vars, NEW n \in Node,
         \A c \in Controller : ~UpdateSucceeds(c),
         Tainted(node[n]) \/ n \in pulled
  PROVE  Tainted(node'[n]) \/ n \in pulled'
<1>1. ASSUME NEW m \in Node, NEW o \in NodeRecord, AnotherWrites(m, o)
      PROVE  Tainted(node'[n]) \/ n \in pulled'
  BY <1>1 DEF AnotherWrites, ForeignWrite, Inv, TypeOK, Tainted
<1>2. CASE Tick
  <2>1. 1 \in Age /\ node[n] \in NodeRecord
    BY RecoveryWindowAssumption DEF Age, Inv, TypeOK
  <2> QED
    BY <1>2, <2>1, AgedFacts DEF Tick, Tainted
<1>3. CASE UNCHANGED apiVars
  BY <1>3 DEF apiVars
<1> QED
  BY <1>1, <1>2, <1>3, StepCases DEF Inv

(* A worker lists and evicts on a node it wrote the taint to, since a      *)
(* degraded observation always leads to an Update.                         *)
LEMMA NextEvictionUnderIsolation ==
  ASSUME Inv, Observations, EvictionUnderIsolation, [Next]_vars,
         \A a, b \in Controller : a = b
  PROVE  EvictionUnderIsolation'
<1> SUFFICES ASSUME NEW c \in Controller, work'[c].phase \in {"listing", "evicting"}
             PROVE  Tainted(node'[Target(c)']) \/ Target(c)' \in pulled'
  BY DEF EvictionUnderIsolation
<1>1. CASE UpdateSucceeds(c)
  <2>1. /\ Proposal(c).state = "degraded" /\ work'[c] = Listing(Target(c))
        /\ Target(c) \in Node /\ Proposal(c) \in NodeRecord /\ work[c].elapsed \in Age
    <3>1. Idle.phase = "idle"
      BY DEF Idle
    <3> QED
      BY <1>1, <3>1, ProposalType DEF UpdateSucceeds, Proceed, Inv, TypeOK
  <2>2. Target(c)' = Target(c)
    BY <2>1 DEF Target, Listing, Idle
  <2>3. node'[Target(c)].state = "degraded"
    <3>1. node'[Target(c)] = Aged(Proposal(c), work[c].elapsed)
      BY <1>1, <2>1 DEF UpdateSucceeds, Inv, TypeOK
    <3> QED
      BY <2>1, <3>1, AgedFacts
  <2> QED
    BY <1>1, <2>2, <2>3, UpdateFacts DEF Inv
<1>2. CASE ~UpdateSucceeds(c)
  <2>1. \A k \in Controller : ~UpdateSucceeds(k)
    BY <1>2
  <2>2. /\ work[c].phase \in {"listing", "evicting"}
        /\ Target(c)' = Target(c) /\ Target(c) \in Node
    <3>1. ASSUME work[c].phase = "observed", Proceed(c), ~HasChange(c)
          PROVE  FALSE
      <4>1. Proposal(c).state = "degraded"
        BY <3>1 DEF Proceed, Inv, TypeOK, Idle
      <4>2. work[c].at = "clock"
        BY <3>1, <4>1, DecisionNamesObservation DEF Observations, Inv
      <4> QED
        BY <3>1, <4>2 DEF HasChange, Changed
    <3>2. ASSUME NEW n \in Node, Begin(c, n) PROVE FALSE
      BY <3>2 DEF Begin, Inv, TypeOK, Idle
    <3>3. ASSUME Observe(c) PROVE FALSE
      BY <3>3 DEF Observe, Inv, TypeOK, WorkRecord
    <3>4. ASSUME UpdateFails(c) \/ ListFails(c) \/ EvictionsDone(c) \/ Crash(c)
          PROVE  FALSE
      BY <3>4 DEF UpdateFails, ListFails, EvictionsDone, Crash, Return,
                  Inv, TypeOK, Idle
    <3>5. ~NothingToUpdate(c)
      BY <3>1 DEF NothingToUpdate
    <3>6. ASSUME ListPods(c)
          PROVE  work[c].phase = "listing" /\ work'[c].node = work[c].node
      BY <3>6 DEF ListPods, Inv, TypeOK, WorkRecord
    <3>7. ASSUME NEW p \in Pod, EvictAccepted(c, p) \/ EvictNotFoundOrFails(c, p)
          PROVE  work'[c].phase = work[c].phase /\ work'[c].node = work[c].node
      BY <3>7 DEF EvictAccepted, EvictNotFoundOrFails, Inv, TypeOK, WorkRecord
    <3>8. CASE ReconcileStep(c)
      BY <1>2, <3>2, <3>3, <3>4, <3>5, <3>6, <3>7, <3>8, ProposalType
         DEF ReconcileStep, Target, Inv
    <3>9. CASE UNCHANGED work
      BY <3>9, ProposalType DEF Target, Inv
    <3>10. CASE Tick
      <4>1. work'[c].phase = work[c].phase /\ work'[c].node = work[c].node
        BY <3>10 DEF Tick, Inv, TypeOK, WorkRecord
      <4> QED
        BY <4>1, ProposalType DEF Target, Inv
    <3>11. ASSUME NEW n \in Node, CacheSync(c, n) PROVE UNCHANGED work
      BY <3>11 DEF CacheSync
    <3>12. ASSUME NEW n \in Node, NodeStep(n) PROVE UNCHANGED work
      BY <3>12, NodeStepCases DEF AnotherWrites, ForeignWrite, Expose, workVars, Inv
    <3>13. ASSUME NEW p \in Pod, PodLifeStep(p) PROVE UNCHANGED work
      BY <3>13 DEF PodLifeStep, Assume, Bind, Finish, Delete, Vanish, PodStep, workVars
    <3>14. CASE UNCHANGED vars
      BY <3>9, <3>14 DEF vars, workVars
    <3> QED
      BY <3>4, <3>8, <3>9, <3>10, <3>11, <3>12, <3>13, <3>14 DEF Next, ControllerStep
  <2>3. Tainted(node[Target(c)]) \/ Target(c) \in pulled
    BY <2>2 DEF EvictionUnderIsolation
  <2> QED
    BY <2>1, <2>2, <2>3, TaintStays
<1> QED
  BY <1>1, <1>2

(* A controller that is alone lists and evicts the pods of a node only     *)
(* while the node is isolated (EvictionUnderIsolation).                    *)
THEOREM EvictsOnlyIsolated ==
  ASSUME \A a, b \in Controller : a = b
  PROVE  Spec => []EvictionUnderIsolation
<1>2. Init => EvictionUnderIsolation
  BY DEF Init, Idle, EvictionUnderIsolation
<1>3. Inv /\ Observations /\ EvictionUnderIsolation /\ [Next]_vars
        => EvictionUnderIsolation'
  BY NextEvictionUnderIsolation
<1> QED
  BY <1>2, <1>3, ObservationsInvariance, Invariance, PTL DEF Spec

(* Nor does the scheduler pick a node for a pod meanwhile, so the          *)
(* replacement of an evicted pod lands elsewhere                           *)
(* (NoPlacementDuringEviction).                                            *)
THEOREM PlacesElsewhere ==
  ASSUME \A a, b \in Controller : a = b
  PROVE  Spec => NoPlacementDuringEviction
<1>1. ASSUME Inv, EvictionUnderIsolation, [Next]_vars,
             NEW p \in Pod, NEW c \in Controller,
             podStatus[p] = "pending", podStatus'[p] = "assumed",
             work[c].phase \in {"listing", "evicting"}
      PROVE  podNode'[p] # Target(c) \/ Target(c) \in pulled
  <2>1. ASSUME NEW q \in Pod, NEW n \in Node, Assume(q, n)
        PROVE  podNode'[p] # Target(c) \/ Target(c) \in pulled
    <3>1. q = p
      BY <1>1, <2>1 DEF Assume, Inv, TypeOK
    <3>2. podNode'[p] = n /\ ~Tainted(node[n])
      BY <1>1, <2>1, <3>1 DEF Assume, Inv, TypeOK
    <3> QED
      BY <1>1, <3>2 DEF EvictionUnderIsolation
  <2>2. ASSUME NEW q \in Pod, Bind(q) \/ Finish(q) \/ Delete(q) \/ Vanish(q)
        PROVE  FALSE
    BY <1>1, <2>2 DEF Bind, Finish, Delete, Vanish, PodStep, Inv, TypeOK
  <2>3. ASSUME NEW k \in Controller, ControllerStep(k) PROVE FALSE
    BY <1>1, <2>3
       DEF ControllerStep, ReconcileStep, Begin, Observe, UpdateSucceeds, UpdateFails,
           NothingToUpdate, ListPods, ListFails, EvictAccepted, EvictNotFoundOrFails,
           EvictionsDone, Crash, CacheSync, podVars, Inv, TypeOK
  <2>4. ASSUME NEW n \in Node, NodeStep(n) PROVE FALSE
    BY <1>1, <2>4, NodeStepCases
       DEF AnotherWrites, ForeignWrite, Expose, podVars, Inv
  <2>5. ~Tick /\ ~UNCHANGED vars
    BY <1>1 DEF Tick, vars, podVars
  <2> QED
    BY <1>1, <2>1, <2>2, <2>3, <2>4, <2>5 DEF Next, PodLifeStep
<1>2. Inv /\ EvictionUnderIsolation /\ [Next]_vars =>
        [\A p \in Pod, c \in Controller :
           (/\ podStatus[p] = "pending" /\ podStatus'[p] = "assumed"
            /\ work[c].phase \in {"listing", "evicting"})
             => podNode'[p] # Target(c) \/ Target(c) \in pulled]_vars
  BY <1>1
<1> QED
  BY <1>2, Invariance, EvictsOnlyIsolated, PTL DEF Spec, NoPlacementDuringEviction
-----------------------------------------------------------------------------
(* Time changes nothing that events tell of.                               *)
LEMMA AgedTells ==
  ASSUME NEW o \in NodeRecord, NEW k \in Age
  PROVE  /\ Aged(o, k).state = o.state
         /\ Tainted(Aged(o, k)) <=> Tainted(o)
BY AgedFacts DEF Tainted

(* An Update is made from a copy that is, but for its age, the node; what  *)
(* is equal to its copy enters no state and loses or gains no taint.       *)
LEMMA EventsStep ==
  ASSUME TypeOK, CurrentCopies,
         NEW c \in Controller, UpdateSucceeds(c) \/ NothingToUpdate(c)
  PROVE  TransitionEvents(work[c].obj, Proposal(c)) = Happened(Target(c))
<1> DEFINE n == Target(c)
           copy == work[c].obj
<1>1. CASE UpdateSucceeds(c)
  <2>1. /\ n \in Node /\ copy \in NodeRecord /\ Proposal(c) \in NodeRecord
        /\ work[c].elapsed \in Age
    BY <1>1, ProposalType DEF UpdateSucceeds
  <2>2. /\ node[n] = Aged(copy, work[c].elapsed)
        /\ node'[n] = Aged(Proposal(c), work[c].elapsed)
    BY <1>1, <2>1 DEF UpdateSucceeds, CurrentCopies, TypeOK
  <2>3. /\ node[n].state = copy.state /\ node'[n].state = Proposal(c).state
        /\ Tainted(node[n]) <=> Tainted(copy)
        /\ Tainted(node'[n]) <=> Tainted(Proposal(c))
    BY <2>1, <2>2, AgedTells
  <2> QED
    BY <2>3 DEF TransitionEvents, Happened, Enters
<1>2. CASE NothingToUpdate(c)
  <2>1. Proposal(c) = copy /\ node' = node
    BY <1>2 DEF NothingToUpdate, HasChange, Changed, Proposal, apiVars
  <2>2. \A o, s : s \in State => ~Enters(s, o, o)
    BY DEF Enters, ParseState
  <2>3. \A o : ~Enters("recovering", o, o) /\ ~Enters("unknown", o, o)
    BY <2>2 DEF State
  <2>4. TransitionEvents(copy, copy) = {} /\ Happened(n) = {}
    BY <2>1, <2>3 DEF TransitionEvents, Happened
  <2> QED
    BY <2>1, <2>4
<1> QED
  BY <1>1, <1>2

(* The events a reconcile publishes are the changes it stored: with any    *)
(* number of controllers, stale caches, conflicts, retries and crashes     *)
(* none is made up and none is missed (Reconcile, after its Update).       *)
THEOREM EventsAreChanges == Spec => EventsTellChanges
<1>1. TypeOK /\ Inv /\ [Next]_vars =>
        [\A c \in Controller :
           UpdateSucceeds(c) \/ NothingToUpdate(c) =>
             TransitionEvents(work[c].obj, Proposal(c)) = Happened(Target(c))]_vars
  BY EventsStep DEF Inv
<1> QED
  BY TypeCorrect, Invariance, <1>1, PTL DEF Spec, EventsTellChanges
=============================================================================

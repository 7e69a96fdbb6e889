--------------------- MODULE NodeHealthControllerProofs ---------------------
(***************************************************************************)
(* Proofs about NodeHealthController for every set of nodes, controllers   *)
(* and pods, every recovery window and either source.                      *)
(*                                                                         *)
(* The safety properties are not inductive: whether a recovery may end is  *)
(* decided on a copy of the node that was read, and observed on, earlier.  *)
(* The inductive invariant adds what makes such a copy trustworthy when    *)
(* its Update succeeds: a fresh cached copy is the node, a current working *)
(* copy differs from the node by its age only, and no non-healthy evidence *)
(* was written since it was taken.                                         *)
(***************************************************************************)
EXTENDS NodeHealthController, TLAPS

FreshCopies ==
  \A c \in Controller, n \in Node : <<c, n>> \in fresh => cache[c][n] = node[n]

CurrentCopies ==
  \A c \in current :
    /\ work[c].phase \in {"read", "observed"}
    /\ node[Target(c)] = Aged(work[c].obj, work[c].elapsed)
    /\ work[c].elapsed <= evidence[Target(c)].unhealthy

(* Degraded evidence is non-healthy evidence. *)
EvidenceOrdered ==
  \A n \in Node : evidence[n].unhealthy <= evidence[n].degraded

(* The parts of the invariant about the stored nodes: only an Update, a    *)
(* write of another actor and the passing of time can disturb them.        *)
NodesInv ==
  /\ EvidenceOrdered
  /\ RecoveryIsContinuous
  /\ IsolatedAfterDegradedEvidence
  /\ ManagedTaintIsOwn

Inv ==
  /\ TypeOK
  /\ FreshCopies
  /\ CurrentCopies
  /\ NodesInv

-----------------------------------------------------------------------------
(* Ages. *)

(* An age, or its absence, stays one as time passes; passing no time       *)
(* changes nothing, passing one more tick after k of them is passing k + 1 *)
(* (HealthPolicy's capping of now - recoveryStartedAt).                    *)
LEMMA OlderFacts ==
  ASSUME NEW a \in MaybeAge, NEW k \in Age
  PROVE  /\ Capped(k + 1) \in Age
         /\ k <= Capped(k + 1)
         /\ Older(a, k) \in MaybeAge
         /\ Older(a, k) = NoTime <=> a = NoTime
         /\ a # NoTime => k <= Older(a, k) /\ a <= Older(a, k)
         /\ Older(a, 0) = a
         /\ Older(Older(a, k), 1) = Older(a, Capped(k + 1))
  BY RecoveryWindowAssumption
     DEF Older, Capped, MaybeAge, Age, NoTime

(* Aged changes nothing of a node but its recovery's age. *)
LEMMA AgedFacts ==
  ASSUME NEW o \in NodeRecord, NEW k \in Age
  PROVE  /\ Aged(o, k) \in NodeRecord
         /\ Aged(o, k).state = o.state
         /\ Aged(o, k).managed = o.managed
         /\ Aged(o, k).taint = o.taint
         /\ Aged(o, k).fault = o.fault
         /\ Aged(o, k).confirmation = o.confirmation
         /\ Aged(o, k).startedAge = Older(o.startedAge, k)
         /\ Aged(o, 0) = o
         /\ Aged(Aged(o, k), 1) = Aged(o, Capped(k + 1))
<1>1. o.startedAge \in MaybeAge
  BY DEF NodeRecord
<1>2. /\ Older(o.startedAge, k) \in MaybeAge
      /\ Older(o.startedAge, 0) = o.startedAge
      /\ Older(Older(o.startedAge, k), 1) = Older(o.startedAge, Capped(k + 1))
  BY <1>1, OlderFacts
<1>3. /\ Aged(o, k) \in NodeRecord
      /\ Aged(o, k).startedAge = Older(o.startedAge, k)
      /\ Aged(o, 0) = o
  BY <1>2 DEF Aged, NodeRecord
<1>4. Aged(Aged(o, k), 1) = Aged(o, Capped(k + 1))
  BY <1>2 DEF Aged, NodeRecord
<1> QED
  BY <1>3, <1>4 DEF Aged, NodeRecord

-----------------------------------------------------------------------------
(* What one reconcile writes. *)

(* The recovery of o has been confirmed for the whole window.              *)
ReleaseDue(o) ==
  o.managed /\ o.state = "recovering" /\ o.startedAge = RecoveryWindow

(* The decision on o is well formed; only a due release leaves a node the  *)
(* controller isolated; a recovery's recorded start is kept, or is now.    *)
LEMMA DecisionFacts ==
  ASSUME NEW o \in NodeRecord, NEW observed \in Answer
  PROVE  LET d == DecisionFor(o, observed) IN
         /\ d \in Decision
         /\ d.state \in {"degraded", "recovering"} => d.isolate
         /\ d.isolate => d.state # "healthy" /\ (o.managed \/ d.state = "degraded")
         /\ o.managed => d.isolate \/ (ReleaseDue(o) /\ d.state = "healthy")
         /\ d.state = "recovering" =>
              /\ o.managed
              /\ \/ d.startedAge = 0
                 \/ /\ o.state = "recovering"
                    /\ d.startedAge # NoTime
                    /\ d.startedAge = o.startedAge
              /\ o.state = "recovering" /\ o.startedAge # NoTime
                   => d.startedAge = o.startedAge
         /\ d.state # "recovering" => d.startedAge = NoTime
<1>1. ParseState(o.state) \in State
  BY DEF ParseState, State
<1>2. ParseState(o.state) = "recovering" <=> o.state = "recovering"
  BY DEF ParseState, State
<1>3. o.startedAge \in MaybeAge /\ o.managed \in BOOLEAN
  BY DEF NodeRecord
<1>4. CASE observed = "degraded"
  BY <1>3, <1>4 DEF DecisionFor, DecideIsolation, Decide, Decision, State, MaybeAge
<1>5. CASE observed = "unknown"
  BY <1>3, <1>5 DEF DecisionFor, DecideIsolation, Decide, Decision, State, MaybeAge
<1>6. CASE observed = "healthy"
  BY <1>1, <1>2, <1>3, <1>6, RecoveryWindowAssumption
     DEF DecisionFor, DecideIsolation, DecideRecovery, ContinueRecovery, Decide,
         Decision, State, MaybeAge, Age, NoTime, ReleaseDue
<1> QED
  BY <1>4, <1>5, <1>6 DEF Answer

(* The node written: its taint and marker follow the decision, a taint the *)
(* controller does not own stays as it is (Reconcile up to the Update).    *)
LEMMA ReconciledFacts ==
  ASSUME NEW o \in NodeRecord, NEW observed \in Answer,
         NEW at \in Confirmation \cup {"clock"}
  PROVE  LET r == Reconciled(o, observed, at)
             d == DecisionFor(o, observed) IN
         /\ r \in NodeRecord
         /\ r.state = d.state /\ r.startedAge = d.startedAge
         /\ r.fault = o.fault /\ r.confirmation = o.confirmation
         /\ r.managed => r.taint = "controller" \/ (o.managed /\ r.taint = o.taint)
         /\ r.managed => d.isolate
         /\ d.isolate => Tainted(r)
         /\ d.isolate /\ o.managed => r.managed
         /\ ~o.managed => r.taint = o.taint \/ (o.taint = "none" /\ r.managed)
         /\ ~d.isolate /\ ~o.managed => r.taint = o.taint /\ ~r.managed
<1> DEFINE d == DecisionFor(o, observed)
           noted == ApplyHealthAnnotations(o, d, at)
<1>1. d \in Decision
  BY DecisionFacts
<1>2. /\ noted \in NodeRecord
      /\ noted.state = d.state /\ noted.startedAge = d.startedAge
      /\ noted.fault = o.fault /\ noted.confirmation = o.confirmation
      /\ noted.managed = o.managed /\ noted.taint = o.taint
  BY <1>1 DEF ApplyHealthAnnotations, NodeRecord, Decision
<1> HIDE DEF d, noted
<1>3. Reconciled(o, observed, at) =
        IF d.isolate THEN IsolateNode(noted) ELSE RecoverNode(noted)
  BY DEF Reconciled, d, noted
<1>4. CASE d.isolate
  <2>1. CASE Tainted(noted)
    <3>1. IsolateNode(noted) = noted
      BY <2>1 DEF IsolateNode
    <3> QED
      BY <1>2, <1>3, <1>4, <2>1, <3>1 DEF Tainted, d
  <2>2. CASE ~Tainted(noted)
    <3>1. IsolateNode(noted) =
            [noted EXCEPT !.taint = "controller", !.managed = TRUE]
      BY <2>2 DEF IsolateNode
    <3>2. /\ IsolateNode(noted) \in NodeRecord
          /\ IsolateNode(noted).state = noted.state
          /\ IsolateNode(noted).startedAge = noted.startedAge
          /\ IsolateNode(noted).fault = noted.fault
          /\ IsolateNode(noted).confirmation = noted.confirmation
          /\ IsolateNode(noted).taint = "controller"
          /\ IsolateNode(noted).managed
      BY <1>2, <3>1 DEF NodeRecord
    <3> QED
      BY <1>2, <1>3, <1>4, <2>2, <3>2 DEF Tainted, d
  <2> QED
    BY <2>1, <2>2
<1>5. CASE ~d.isolate
  <2>1. CASE noted.managed
    <3>1. RecoverNode(noted) = [noted EXCEPT !.taint = "none", !.managed = FALSE]
      BY <2>1 DEF RecoverNode
    <3>2. /\ RecoverNode(noted) \in NodeRecord
          /\ RecoverNode(noted).state = noted.state
          /\ RecoverNode(noted).startedAge = noted.startedAge
          /\ RecoverNode(noted).fault = noted.fault
          /\ RecoverNode(noted).confirmation = noted.confirmation
          /\ ~RecoverNode(noted).managed
      BY <1>2, <3>1 DEF NodeRecord
    <3> QED
      BY <1>2, <1>3, <1>5, <2>1, <3>2 DEF d
  <2>2. CASE ~noted.managed
    <3>1. RecoverNode(noted) = noted
      BY <2>2 DEF RecoverNode
    <3> QED
      BY <1>2, <1>3, <1>5, <2>2, <3>1 DEF d
  <2> QED
    BY <2>1, <2>2
<1> QED
  BY <1>4, <1>5

-----------------------------------------------------------------------------
(* Types. *)

(* A new node and an idle worker are well formed. *)
LEMMA InitialNode == NewNode \in NodeRecord /\ Idle \in WorkRecord
<1>1. NewNode \in NodeRecord
  BY DEF NewNode, NodeRecord, MaybeAge
<1>2. 0 \in Age /\ "unknown" \in Answer /\ "idle" \in Phase
  BY RecoveryWindowAssumption DEF Age, Answer, Phase
<1> QED
  BY <1>1, <1>2 DEF Idle, WorkRecord

(* The initial state is well formed. *)
LEMMA InitTypeOK == Init => TypeOK
<1> SUFFICES ASSUME Init PROVE TypeOK
  OBVIOUS
<1>1. /\ node \in [Node -> NodeRecord]
      /\ cache \in [Controller -> [Node -> NodeRecord]]
      /\ work \in [Controller -> WorkRecord]
  BY InitialNode DEF Init
<1>2. /\ \A c \in Controller : work[c].phase # "idle" => work[c].node \in Node
      /\ fresh \subseteq Controller \X Node
      /\ current \subseteq Controller /\ pulled \subseteq Node
  BY DEF Init, Idle
<1>3. /\ exposed \in [Node -> Answer]
      /\ podStatus \in [Pod -> PodStatus]
      /\ podNode \in [Pod -> Node \cup {NoNode}]
      /\ evidence \in [Node -> [degraded : Age, unhealthy : Age]]
  BY RecoveryWindowAssumption DEF Init, Answer, PodStatus, Age
<1> QED
  BY <1>1, <1>2, <1>3 DEF TypeOK

(* Every write of another actor keeps the node well formed. *)
LEMMA ForeignWriteTypeOK ==
  ASSUME TypeOK, NEW n \in Node, NEW o \in NodeRecord, ForeignWrite(n, o),
         pulled' \subseteq Node
  PROVE  TypeOK'
<1>1. node' \in [Node -> NodeRecord]
  BY DEF TypeOK, ForeignWrite
<1>2. fresh' \subseteq Controller \X Node /\ current' \subseteq Controller
  BY DEF TypeOK, ForeignWrite, Outdate
<1> QED
  BY <1>1, <1>2 DEF TypeOK, ForeignWrite, podVars

(* Moving a worker leaves everything but its own record well formed. *)
LEMMA WorkTypeOK ==
  ASSUME TypeOK, NEW c \in Controller, NEW w \in WorkRecord,
         w.phase # "idle" => w.node \in Node,
         work' = [work EXCEPT ![c] = w], current' \subseteq Controller,
         UNCHANGED <<apiVars, cache, fresh, podNode, exposed>>,
         podStatus' \in [Pod -> PodStatus]
  PROVE  TypeOK'
BY DEF TypeOK, apiVars

(* A working copy, and what its Update would write, are well formed. *)
LEMMA ProposalType ==
  ASSUME TypeOK, NEW c \in Controller, work[c].phase # "idle"
  PROVE  /\ work[c] \in WorkRecord /\ Target(c) \in Node
         /\ work[c].obj \in NodeRecord /\ work[c].elapsed \in Age
         /\ work[c].observed \in Answer
         /\ work[c].at \in Confirmation \cup {"clock"}
         /\ Proposal(c) \in NodeRecord
         /\ Aged(Proposal(c), work[c].elapsed) \in NodeRecord
         /\ Listing(Target(c)) \in WorkRecord
<1>1. /\ work[c] \in WorkRecord /\ Target(c) \in Node
      /\ work[c].obj \in NodeRecord /\ work[c].elapsed \in Age
      /\ work[c].observed \in Answer
      /\ work[c].at \in Confirmation \cup {"clock"}
  BY DEF TypeOK, WorkRecord, Target
<1>2. Proposal(c) \in NodeRecord
  BY <1>1, ReconciledFacts DEF Proposal
<1>3. Listing(Target(c)) \in WorkRecord
  BY <1>1, InitialNode DEF Listing, Idle, WorkRecord, Phase
<1> QED
  BY <1>1, <1>2, <1>3, AgedFacts

(* A worker that reconciles: Begin to the end of its evictions. *)
LEMMA ReconcileTypeOK ==
  ASSUME TypeOK, NEW c \in Controller, ReconcileStep(c)
  PROVE  TypeOK'
<1>1. ASSUME NEW n \in Node, Begin(c, n) PROVE TypeOK'
  <2> DEFINE w == [Idle EXCEPT !.phase = "read", !.node = n, !.obj = cache[c][n]]
  <2>1. w \in WorkRecord /\ w.node \in Node
    <3>1. cache[c][n] \in NodeRecord /\ "read" \in Phase
      BY DEF TypeOK, Phase
    <3> QED
      BY <3>1, InitialNode DEF WorkRecord
  <2>2. /\ work' = [work EXCEPT ![c] = w] /\ current' \subseteq Controller
        /\ UNCHANGED <<apiVars, cache, fresh, podNode, exposed>>
        /\ podStatus' \in [Pod -> PodStatus]
    BY <1>1 DEF Begin, TypeOK, podVars
  <2> HIDE DEF w
  <2> QED
    BY <2>1, <2>2, WorkTypeOK
<1>2. ASSUME Observe(c) PROVE TypeOK'
  <2>1. PICK answer \in Answer, at \in Confirmation \cup {"clock"} :
          work' = [work EXCEPT ![c].phase = "observed",
                               ![c].observed = answer, ![c].at = at]
    <3>1. work[c].obj \in NodeRecord /\ Target(c) \in Node
      BY <1>2, ProposalType DEF Observe
    <3>2. /\ exposed[Target(c)] \in Answer
          /\ AnnotationState(work[c].obj) \in Answer
          /\ AnnotationTime(work[c].obj) \in Confirmation \cup {"clock"}
      BY <3>1 DEF TypeOK, AnnotationState, AnnotationTime, Answer, NodeRecord
    <3> QED
      BY <1>2, <3>2 DEF Observe
  <2> DEFINE w == [work[c] EXCEPT !.phase = "observed",
                                  !.observed = answer, !.at = at]
  <2>2. w \in WorkRecord /\ w.node \in Node
    <3>1. work[c] \in WorkRecord /\ work[c].node \in Node /\ "observed" \in Phase
      BY <1>2, ProposalType DEF Observe, Target, Phase
    <3> QED
      BY <3>1 DEF WorkRecord
  <2>3. work' = [work EXCEPT ![c] = w]
    BY <2>1 DEF TypeOK
  <2>4. /\ current' \subseteq Controller
        /\ UNCHANGED <<apiVars, cache, fresh, podNode, exposed>>
        /\ podStatus' \in [Pod -> PodStatus]
    BY <1>2 DEF Observe, TypeOK, podVars
  <2> HIDE DEF w
  <2> QED
    BY <2>2, <2>3, <2>4, WorkTypeOK
<1>3. ASSUME UpdateSucceeds(c) PROVE TypeOK'
  <2>1. /\ Aged(Proposal(c), work[c].elapsed) \in NodeRecord
        /\ Target(c) \in Node /\ Listing(Target(c)) \in WorkRecord
    BY <1>3, ProposalType DEF UpdateSucceeds
  <2>2. node' \in [Node -> NodeRecord] /\ pulled' \subseteq Node
    BY <1>3, <2>1 DEF UpdateSucceeds, TypeOK
  <2>3. fresh' \subseteq Controller \X Node /\ current' \subseteq Controller
    BY <1>3 DEF UpdateSucceeds, Outdate, TypeOK
  <2>4. /\ work' \in [Controller -> WorkRecord]
        /\ \A k \in Controller : work'[k].phase # "idle" => work'[k].node \in Node
    BY <1>3, <2>1, InitialNode DEF UpdateSucceeds, Proceed, TypeOK, Listing, Idle
  <2>5. evidence' \in [Node -> [degraded : Age, unhealthy : Age]]
    <3>1. 0 \in Age
      BY RecoveryWindowAssumption DEF Age
    <3>2. RecordEvidence(Target(c), Proposal(c).state)
      BY <1>3 DEF UpdateSucceeds
    <3>3. evidence \in [Node -> [degraded : Age, unhealthy : Age]]
      BY DEF TypeOK
    <3>4. PICK d \in Age, u \in Age :
            evidence' = [evidence EXCEPT ![Target(c)].degraded = d,
                                         ![Target(c)].unhealthy = u]
      BY <2>1, <3>1, <3>2, <3>3 DEF RecordEvidence
    <3> QED
      BY <3>3, <3>4
  <2> QED
    BY <1>3, <2>2, <2>3, <2>4, <2>5 DEF UpdateSucceeds, TypeOK, podVars
<1>4. ASSUME UpdateFails(c) \/ ListFails(c) \/ EvictionsDone(c) PROVE TypeOK'
  <2>1. /\ work' = [work EXCEPT ![c] = Idle] /\ current' \subseteq Controller
        /\ UNCHANGED <<apiVars, cache, fresh, podNode, exposed>>
        /\ podStatus' \in [Pod -> PodStatus]
    BY <1>4 DEF UpdateFails, ListFails, EvictionsDone, Return, TypeOK, podVars
  <2> QED
    BY <2>1, InitialNode, WorkTypeOK DEF Idle
<1>5. ASSUME NothingToUpdate(c) PROVE TypeOK'
  <2>1. PICK w \in {Idle, Listing(Target(c))} : work' = [work EXCEPT ![c] = w]
    BY <1>5 DEF NothingToUpdate, Proceed
  <2>2. w \in WorkRecord /\ (w.phase # "idle" => w.node \in Node)
    <3>1. /\ Idle \in WorkRecord /\ Listing(Target(c)) \in WorkRecord
          /\ Target(c) \in Node
      BY <1>5, InitialNode, ProposalType DEF NothingToUpdate
    <3>2. Idle.phase = "idle" /\ Listing(Target(c)).node = Target(c)
      BY DEF Idle, Listing
    <3> QED
      BY <3>1, <3>2
  <2>3. /\ current' \subseteq Controller
        /\ UNCHANGED <<apiVars, cache, fresh, podNode, exposed>>
        /\ podStatus' \in [Pod -> PodStatus]
    BY <1>5 DEF NothingToUpdate, TypeOK, podVars
  <2> QED
    BY <2>1, <2>2, <2>3, WorkTypeOK
<1>6. ASSUME ListPods(c) PROVE TypeOK'
  <2> DEFINE w == [work[c] EXCEPT !.phase = "evicting",
                     !.todo = {p \in Pod : IsImpactedTrainingPod(p, Target(c))}]
  <2>1. w \in WorkRecord /\ w.node \in Node
    BY <1>6, ProposalType DEF ListPods, WorkRecord, Phase, Target
  <2>2. work' = [work EXCEPT ![c] = w]
    BY <1>6 DEF ListPods, TypeOK
  <2>3. /\ current' \subseteq Controller
        /\ UNCHANGED <<apiVars, cache, fresh, podNode, exposed>>
        /\ podStatus' \in [Pod -> PodStatus]
    BY <1>6 DEF ListPods, TypeOK, podVars
  <2> HIDE DEF w
  <2> QED
    BY <2>1, <2>2, <2>3, WorkTypeOK
<1>7. ASSUME NEW p \in Pod, EvictAccepted(c, p) \/ EvictNotFoundOrFails(c, p)
      PROVE  TypeOK'
  <2> DEFINE w == [work[c] EXCEPT !.todo = @ \ {p}]
  <2>1. w \in WorkRecord /\ (w.phase # "idle" => w.node \in Node)
    <3>1. work[c] \in WorkRecord /\ (work[c].phase # "idle" => work[c].node \in Node)
      BY DEF TypeOK
    <3> QED
      BY <3>1 DEF WorkRecord
  <2>2. work' = [work EXCEPT ![c] = w]
    BY <1>7 DEF EvictAccepted, EvictNotFoundOrFails, TypeOK
  <2>3. /\ current' \subseteq Controller
        /\ UNCHANGED <<apiVars, cache, fresh, podNode, exposed>>
        /\ podStatus' \in [Pod -> PodStatus]
    BY <1>7 DEF EvictAccepted, EvictNotFoundOrFails, TypeOK, podVars, PodStatus
  <2> HIDE DEF w
  <2> QED
    BY <2>1, <2>2, <2>3, WorkTypeOK
<1> QED
  BY <1>1, <1>2, <1>3, <1>4, <1>5, <1>6, <1>7 DEF ReconcileStep

(* What another actor writes to a node: its annotations and taint, never   *)
(* the state, marker and recovery start, which are the controller's.       *)
AnotherWrites(n, o) ==
  /\ ForeignWrite(n, o)
  /\ o.state = node[n].state
  /\ o.managed = node[n].managed
  /\ o.startedAge = node[n].startedAge
  /\ \/ pulled' = pulled /\ o.taint = node[n].taint
     \/ pulled' = pulled /\ node[n].taint = "none" /\ o.taint # "none"
     \/ pulled' = pulled \cup {n}

LEMMA NodeStepCases ==
  ASSUME TypeOK, NEW n \in Node, NodeStep(n)
  PROVE  \/ \E o \in NodeRecord : AnotherWrites(n, o)
         \/ \E answer \in Answer : Expose(n, answer)
<1>1. node[n] \in NodeRecord
  BY DEF TypeOK
<1> DEFINE Good(o) == /\ o \in NodeRecord
                      /\ o.state = node[n].state
                      /\ o.managed = node[n].managed
                      /\ o.startedAge = node[n].startedAge
<1>2. CASE StatusWrite(n)
  BY <1>1, <1>2 DEF StatusWrite, AnotherWrites
<1>3. CASE AdminTaint(n)
  <2>1. Good([node[n] EXCEPT !.taint = "other"])
    BY <1>1 DEF NodeRecord
  <2> QED
    BY <1>3, <2>1 DEF AdminTaint, AnotherWrites
<1>4. CASE AdminUntaint(n)
  <2>1. Good([node[n] EXCEPT !.taint = "none"])
    BY <1>1 DEF NodeRecord
  <2> QED
    BY <1>4, <2>1 DEF AdminUntaint, AnotherWrites
<1>5. CASE InjectFault(n)
  <2> DEFINE o == [node[n] EXCEPT !.fault = TRUE, !.confirmation = "absent"]
  <2>1. Good(o) /\ o.taint = node[n].taint
    BY <1>1 DEF NodeRecord
  <2> QED
    BY <1>5, <2>1 DEF InjectFault, AnotherWrites
<1>6. ASSUME NEW t \in Confirmation \cup {"invalid"}, ConfirmRecovery(n, t)
      PROVE  \E o \in NodeRecord : AnotherWrites(n, o)
  <2> DEFINE o == [node[n] EXCEPT !.fault = FALSE, !.confirmation = t]
  <2>1. Good(o) /\ o.taint = node[n].taint
    BY <1>1 DEF NodeRecord
  <2> QED
    BY <1>6, <2>1 DEF ConfirmRecovery, AnotherWrites
<1>7. CASE RemoveConfirmation(n)
  <2> DEFINE o == [node[n] EXCEPT !.confirmation = "absent"]
  <2>1. Good(o) /\ o.taint = node[n].taint
    BY <1>1 DEF NodeRecord
  <2> QED
    BY <1>7, <2>1 DEF RemoveConfirmation, AnotherWrites
<1> QED
  BY <1>2, <1>3, <1>4, <1>5, <1>6, <1>7 DEF NodeStep

(* Time passing keeps ages within the window. *)
LEMMA TickTypeOK == ASSUME TypeOK, Tick PROVE TypeOK'
<1>0. 1 \in Age
  BY RecoveryWindowAssumption DEF Age
<1>1. node' \in [Node -> NodeRecord]
  BY <1>0, AgedFacts DEF Tick, TypeOK
<1>2. cache' \in [Controller -> [Node -> NodeRecord]]
  BY <1>0, AgedFacts DEF Tick, TypeOK
<1>3. /\ work' \in [Controller -> WorkRecord]
      /\ \A c \in Controller : work'[c].phase # "idle" => work'[c].node \in Node
  <2>1. ASSUME NEW w \in WorkRecord
        PROVE  LET v == [w EXCEPT !.elapsed = Capped(@ + 1)]
               IN  v \in WorkRecord /\ v.phase = w.phase /\ v.node = w.node
    <3>1. w.elapsed \in Age
      BY DEF WorkRecord
    <3>2. Capped(w.elapsed + 1) \in Age
      BY <3>1, RecoveryWindowAssumption DEF Capped, Age
    <3> QED
      BY <3>2 DEF WorkRecord
  <2> QED
    BY <2>1 DEF Tick, TypeOK
<1>4. evidence' \in [Node -> [degraded : Age, unhealthy : Age]]
  <2>1. \A k \in Age : Capped(k + 1) \in Age
    BY RecoveryWindowAssumption DEF Capped, Age
  <2> QED
    BY <2>1 DEF Tick, TypeOK
<1> QED
  BY <1>1, <1>2, <1>3, <1>4 DEF Tick, TypeOK, podVars

(* Every step keeps the types. *)
LEMMA NextTypeOK == TypeOK /\ [Next]_vars => TypeOK'
<1> SUFFICES ASSUME TypeOK, [Next]_vars PROVE TypeOK'
  OBVIOUS
<1>1. ASSUME NEW c \in Controller, ReconcileStep(c) PROVE TypeOK'
  BY <1>1, ReconcileTypeOK
<1>2. ASSUME NEW c \in Controller, Crash(c) PROVE TypeOK'
  <2>1. work' \in [Controller -> WorkRecord] /\ current' \subseteq Controller
    BY <1>2, InitialNode DEF Crash, Return, TypeOK
  <2>2. \A k \in Controller : work'[k].phase # "idle" => work'[k].node \in Node
    BY <1>2 DEF Crash, Return, TypeOK, Idle
  <2>3. cache' \in [Controller -> [Node -> NodeRecord]]
    BY <1>2 DEF Crash, TypeOK
  <2> QED
    BY <1>2, <2>1, <2>2, <2>3 DEF Crash, TypeOK, apiVars, podVars
<1>3. ASSUME NEW c \in Controller, NEW n \in Node, CacheSync(c, n) PROVE TypeOK'
  <2>1. cache' \in [Controller -> [Node -> NodeRecord]]
    BY <1>3 DEF CacheSync, TypeOK
  <2> QED
    BY <1>3, <2>1 DEF CacheSync, TypeOK, apiVars, podVars
<1>4. ASSUME NEW n \in Node, NodeStep(n) PROVE TypeOK'
  <2>1. ASSUME NEW answer \in Answer, Expose(n, answer) PROVE TypeOK'
    BY <2>1 DEF Expose, TypeOK, apiVars, workVars, podVars
  <2>2. ASSUME NEW o \in NodeRecord, AnotherWrites(n, o) PROVE TypeOK'
    BY <2>2, ForeignWriteTypeOK DEF TypeOK, AnotherWrites
  <2> QED
    BY <1>4, <2>1, <2>2, NodeStepCases
<1>5. ASSUME NEW p \in Pod, PodLifeStep(p) PROVE TypeOK'
  <2>1. podStatus' \in [Pod -> PodStatus]
    BY <1>5 DEF PodLifeStep, Assume, Bind, Finish, Delete, Vanish, PodStep,
                TypeOK, PodStatus
  <2>2. podNode' \in [Pod -> Node \cup {NoNode}]
    BY <1>5 DEF PodLifeStep, Assume, Bind, Finish, Delete, Vanish, PodStep, TypeOK
  <2>3. UNCHANGED <<apiVars, workVars, exposed>>
    BY <1>5 DEF PodLifeStep, Assume, Bind, Finish, Delete, Vanish, PodStep
  <2> QED
    BY <2>1, <2>2, <2>3 DEF TypeOK, apiVars, workVars
<1>6. CASE Tick
  BY <1>6, TickTypeOK
<1>7. CASE UNCHANGED vars
  BY <1>7 DEF vars, TypeOK, apiVars, workVars, podVars
<1> QED
  BY <1>1, <1>2, <1>3, <1>4, <1>5, <1>6, <1>7 DEF Next, ControllerStep

(* Every variable keeps its type: nodes, copies, workers and pods stay     *)
(* well formed, ages stay within the window (TypeOK).                      *)
THEOREM TypeCorrect == Spec => []TypeOK
BY InitTypeOK, NextTypeOK, PTL DEF Spec

-----------------------------------------------------------------------------
(* A step either leaves the stored nodes alone, or is an Update, a write   *)
(* of another actor, or the passing of time.                               *)
LEMMA StepCases ==
  ASSUME TypeOK, [Next]_vars
  PROVE  \/ \E c \in Controller : UpdateSucceeds(c)
         \/ \E n \in Node, o \in NodeRecord : AnotherWrites(n, o)
         \/ Tick
         \/ UNCHANGED apiVars
<1>1. ASSUME NEW c \in Controller, ReconcileStep(c), ~UpdateSucceeds(c)
      PROVE  UNCHANGED apiVars
  BY <1>1 DEF ReconcileStep, Begin, Observe, UpdateFails, NothingToUpdate, ListPods,
              ListFails, EvictAccepted, EvictNotFoundOrFails, EvictionsDone
<1>2. ASSUME NEW c \in Controller, Crash(c) \/ \E n \in Node : CacheSync(c, n)
      PROVE  UNCHANGED apiVars
  BY <1>2 DEF Crash, CacheSync
<1>3. ASSUME NEW n \in Node, NodeStep(n)
      PROVE  (\E o \in NodeRecord : AnotherWrites(n, o)) \/ UNCHANGED apiVars
  BY <1>3, NodeStepCases DEF Expose
<1>4. ASSUME NEW p \in Pod, PodLifeStep(p) PROVE UNCHANGED apiVars
  BY <1>4 DEF PodLifeStep, Assume, Bind, Finish, Delete, Vanish, PodStep
<1>5. CASE UNCHANGED vars
  BY <1>5 DEF vars
<1> QED
  BY <1>1, <1>2, <1>3, <1>4, <1>5 DEF Next, ControllerStep

(* A successful Update in terms of the node before and after it: that the  *)
(* copy was current turns the decision on the copy into one on the node.   *)
LEMMA UpdateFacts ==
  ASSUME TypeOK, CurrentCopies, NEW c \in Controller, UpdateSucceeds(c)
  PROVE  LET n == Target(c)
             old == node[n]
             new == node'[n] IN
         /\ n \in Node /\ old \in NodeRecord /\ new \in NodeRecord
         /\ \A m \in Node \ {n} : node'[m] = node[m] /\ evidence'[m] = evidence[m]
         /\ new.fault = old.fault /\ new.confirmation = old.confirmation
         /\ new.state \in State
         /\ evidence'[n].unhealthy = IF new.state \in {"degraded", "unknown"}
                                     THEN 0 ELSE evidence[n].unhealthy
         /\ evidence'[n].degraded = IF new.state = "degraded"
                                    THEN 0 ELSE evidence[n].degraded
         /\ new.state = "degraded" => Tainted(new)
         /\ new.state = "healthy" => ~new.managed
         /\ new.state = "recovering" =>
              /\ old.managed /\ new.managed
              /\ IF old.state = "recovering" /\ old.startedAge # NoTime
                 THEN new.startedAge = old.startedAge
                 ELSE new.startedAge \in 0 .. evidence[n].unhealthy
         /\ old.managed /\ ~new.managed => ReleaseDue(old) /\ new.state = "healthy"
         /\ ~old.managed /\ new.managed => new.state = "degraded"
         /\ ~old.managed =>
              new.taint = old.taint \/ (new.managed /\ old.taint = "none")
         /\ new.managed => Tainted(new)
         /\ new.managed => \/ new.taint = "controller"
                           \/ old.managed /\ new.taint = old.taint
         /\ pulled' = IF new.taint = old.taint /\ new.managed = old.managed
                      THEN pulled ELSE pulled \ {n}
<1> DEFINE n == Target(c)
           copy == work[c].obj
           k == work[c].elapsed
           d == DecisionFor(copy, work[c].observed)
           r == Proposal(c)
<1>1. /\ n \in Node /\ copy \in NodeRecord /\ k \in Age
      /\ work[c].observed \in Answer /\ r \in NodeRecord
      /\ work[c].at \in Confirmation \cup {"clock"}
  BY ProposalType DEF UpdateSucceeds
<1>2. c \in current /\ node[n] = Aged(copy, k) /\ k <= evidence[n].unhealthy
  BY DEF UpdateSucceeds, CurrentCopies
<1>3. /\ node'[n] = Aged(r, k)
      /\ \A m \in Node \ {n} : node'[m] = node[m]
      /\ RecordEvidence(n, r.state)
      /\ pulled' = IF r.taint = copy.taint /\ r.managed = copy.managed
                   THEN pulled ELSE pulled \ {n}
  BY <1>1 DEF UpdateSucceeds, TypeOK
<1>4. /\ evidence'[n].unhealthy = IF r.state \in {"degraded", "unknown"}
                                  THEN 0 ELSE evidence[n].unhealthy
      /\ evidence'[n].degraded = IF r.state = "degraded"
                                 THEN 0 ELSE evidence[n].degraded
      /\ \A m \in Node \ {n} : evidence'[m] = evidence[m]
  BY <1>1, <1>3 DEF RecordEvidence, TypeOK
<1>5. /\ node[n] \in NodeRecord /\ node'[n] \in NodeRecord
      /\ node[n].startedAge = Older(copy.startedAge, k)
      /\ node'[n].startedAge = Older(r.startedAge, k)
      /\ node[n].state = copy.state /\ node'[n].state = r.state
      /\ node[n].managed = copy.managed /\ node'[n].managed = r.managed
      /\ node[n].taint = copy.taint /\ node'[n].taint = r.taint
      /\ node[n].fault = copy.fault /\ node'[n].fault = r.fault
      /\ node[n].confirmation = copy.confirmation
      /\ node'[n].confirmation = r.confirmation
  BY <1>1, <1>2, <1>3, AgedFacts
<1>6. /\ copy.startedAge \in MaybeAge /\ evidence[n].unhealthy \in Age
      /\ copy.managed \in BOOLEAN /\ r.managed \in BOOLEAN
  BY <1>1 DEF NodeRecord, TypeOK
<1>7. /\ copy.startedAge # NoTime <=> node[n].startedAge # NoTime
      /\ copy.startedAge = RecoveryWindow => node[n].startedAge = RecoveryWindow
      /\ Older(0, k) = k
  BY <1>1, <1>5, <1>6, RecoveryWindowAssumption
     DEF Older, Capped, MaybeAge, Age, NoTime
<1>8. r.state = d.state /\ r.startedAge = d.startedAge
  BY <1>1, ReconciledFacts DEF Proposal
<1>9. /\ d \in Decision
      /\ d.state \in {"degraded", "recovering"} => d.isolate
      /\ d.isolate => d.state # "healthy" /\ (copy.managed \/ d.state = "degraded")
      /\ copy.managed => d.isolate \/ (ReleaseDue(copy) /\ d.state = "healthy")
      /\ d.state = "recovering" =>
           /\ copy.managed
           /\ \/ d.startedAge = 0
              \/ /\ copy.state = "recovering"
                 /\ d.startedAge # NoTime
                 /\ d.startedAge = copy.startedAge
           /\ copy.state = "recovering" /\ copy.startedAge # NoTime
                => d.startedAge = copy.startedAge
  BY <1>1, DecisionFacts
<1>10. /\ r.fault = copy.fault /\ r.confirmation = copy.confirmation
       /\ r.managed => r.taint = "controller" \/ (copy.managed /\ r.taint = copy.taint)
       /\ r.managed => d.isolate
       /\ d.isolate => Tainted(r)
       /\ d.isolate /\ copy.managed => r.managed
       /\ ~copy.managed => r.taint = copy.taint \/ (copy.taint = "none" /\ r.managed)
  BY <1>1, ReconciledFacts DEF Proposal
<1> HIDE DEF n, copy, k, d, r
<1>11. r.state = "recovering" =>
         /\ copy.managed /\ r.managed
         /\ IF node[n].state = "recovering" /\ node[n].startedAge # NoTime
            THEN node'[n].startedAge = node[n].startedAge
            ELSE node'[n].startedAge \in 0 .. evidence[n].unhealthy
  <2> SUFFICES ASSUME r.state = "recovering"
               PROVE  /\ copy.managed /\ r.managed
                      /\ IF node[n].state = "recovering" /\ node[n].startedAge # NoTime
                         THEN node'[n].startedAge = node[n].startedAge
                         ELSE node'[n].startedAge \in 0 .. evidence[n].unhealthy
    OBVIOUS
  <2>1. copy.managed /\ r.managed
    BY <1>8, <1>9, <1>10
  <2>2. CASE node[n].state = "recovering" /\ node[n].startedAge # NoTime
    BY <1>5, <1>7, <1>8, <1>9, <2>1, <2>2
  <2>3. CASE ~(node[n].state = "recovering" /\ node[n].startedAge # NoTime)
    <3>1. r.startedAge = 0
      BY <1>5, <1>7, <1>8, <1>9, <2>3
    <3>2. node'[n].startedAge = k
      BY <1>5, <1>7, <3>1
    <3> QED
      BY <1>1, <1>2, <1>6, <2>1, <2>3, <3>2 DEF Age
  <2> QED
    BY <2>1, <2>2, <2>3
<1>12. copy.managed /\ ~r.managed => ReleaseDue(node[n]) /\ r.state = "healthy"
  BY <1>5, <1>7, <1>8, <1>9, <1>10 DEF ReleaseDue
<1>13. r.state \in State
  BY <1>8, <1>9 DEF Decision
<1>14. /\ r.state = "degraded" => Tainted(r)
       /\ r.state = "healthy" => ~r.managed
       /\ ~copy.managed /\ r.managed => r.state = "degraded"
       /\ r.managed => Tainted(r)
  BY <1>8, <1>9, <1>10
<1>15. Tainted(node'[n]) <=> Tainted(r)
  BY <1>5 DEF Tainted
<1> QED
  BY <1>1, <1>3, <1>4, <1>5, <1>10, <1>11, <1>12, <1>13, <1>14, <1>15 DEF n

-----------------------------------------------------------------------------
(* The inductive invariant. *)

(* It holds initially. *)
LEMMA InitInv == Init => Inv
<1> SUFFICES ASSUME Init PROVE Inv
  OBVIOUS
<1>1. TypeOK
  BY InitTypeOK
<1>2. FreshCopies /\ CurrentCopies
  BY DEF Init, FreshCopies, CurrentCopies
<1>3. /\ EvidenceOrdered /\ RecoveryIsContinuous
      /\ IsolatedAfterDegradedEvidence /\ ManagedTaintIsOwn
  BY RecoveryWindowAssumption
     DEF Init, NewNode, EvidenceOrdered, RecoveryIsContinuous,
         IsolatedAfterDegradedEvidence, ManagedTaintIsOwn
<1> QED
  BY <1>1, <1>2, <1>3 DEF Inv, NodesInv

(* Every write outdates the cached copies of its node, and a copy becomes  *)
(* fresh only by being taken from the API server.                          *)
LEMMA NextFreshCopies ==
  ASSUME TypeOK, CurrentCopies, FreshCopies, [Next]_vars
  PROVE  FreshCopies'
<1>1. ASSUME UNCHANGED <<node, cache, fresh>> PROVE FreshCopies'
  BY <1>1 DEF FreshCopies
<1>2. ASSUME NEW c \in Controller, ReconcileStep(c), ~UpdateSucceeds(c)
      PROVE  FreshCopies'
  BY <1>1, <1>2
     DEF ReconcileStep, Begin, Observe, UpdateFails, NothingToUpdate, ListPods,
         ListFails, EvictAccepted, EvictNotFoundOrFails, EvictionsDone, apiVars
<1>3. ASSUME NEW c \in Controller, UpdateSucceeds(c) PROVE FreshCopies'
  <2>1. \A m \in Node \ {Target(c)} : node'[m] = node[m]
    BY <1>3, UpdateFacts
  <2> QED
    BY <1>3, <2>1 DEF FreshCopies, UpdateSucceeds, Outdate
<1>4. ASSUME NEW c \in Controller, Crash(c) PROVE FreshCopies'
  BY <1>4 DEF FreshCopies, Crash, TypeOK, apiVars
<1>5. ASSUME NEW c \in Controller, NEW n \in Node, CacheSync(c, n)
      PROVE  FreshCopies'
  BY <1>5 DEF FreshCopies, CacheSync, TypeOK, apiVars
<1>6. ASSUME NEW n \in Node, NodeStep(n) PROVE FreshCopies'
  <2>1. ASSUME NEW o \in NodeRecord, ForeignWrite(n, o) PROVE FreshCopies'
    BY <2>1 DEF FreshCopies, ForeignWrite, Outdate, TypeOK
  <2>2. ASSUME NEW answer \in Answer, Expose(n, answer) PROVE FreshCopies'
    BY <1>1, <2>2 DEF Expose, apiVars, workVars
  <2> QED
    BY <1>6, <2>1, <2>2, NodeStepCases DEF AnotherWrites
<1>7. ASSUME NEW p \in Pod, PodLifeStep(p) PROVE FreshCopies'
  BY <1>1, <1>7 DEF PodLifeStep, Assume, Bind, Finish, Delete, Vanish, PodStep,
                    apiVars, workVars
<1>8. CASE Tick
  BY <1>8 DEF Tick, FreshCopies
<1>9. CASE UNCHANGED vars
  BY <1>1, <1>9 DEF vars, apiVars, workVars
<1> QED
  BY <1>2, <1>3, <1>4, <1>5, <1>6, <1>7, <1>8, <1>9 DEF Next, ControllerStep

(* A working copy is current only from a fresh cached copy on, and until   *)
(* its node is written; it and the evidence then age together.             *)
LEMMA NextCurrentCopies ==
  ASSUME TypeOK, CurrentCopies, FreshCopies, [Next]_vars
  PROVE  CurrentCopies'
<1>1. ASSUME UNCHANGED <<node, evidence, work>>, current' \subseteq current
      PROVE  CurrentCopies'
  BY <1>1 DEF CurrentCopies, Target
<1>2. ASSUME NEW c \in Controller, UNCHANGED <<node, evidence>>,
             \A k \in Controller \ {c} : work'[k] = work[k],
             current' \subseteq current \ {c}
      PROVE  CurrentCopies'
  BY <1>2 DEF CurrentCopies, Target, TypeOK
<1>3. ASSUME NEW c \in Controller, NEW n \in Node, Begin(c, n)
      PROVE  CurrentCopies'
  <2>1. UNCHANGED <<node, evidence>> /\ \A k \in Controller \ {c} : work'[k] = work[k]
    BY <1>3 DEF Begin, TypeOK, apiVars
  <2>2. CASE <<c, n>> \notin fresh
    BY <1>2, <1>3, <2>1, <2>2 DEF Begin
  <2>3. CASE <<c, n>> \in fresh
    <3>1. /\ work'[c].phase = "read" /\ work'[c].node = n
          /\ work'[c].obj = cache[c][n] /\ work'[c].elapsed = 0
      BY <1>3, InitialNode DEF Begin, TypeOK, Idle
    <3>2. node[n] = Aged(cache[c][n], 0)
      <4>1. 0 \in Age /\ cache[c][n] \in NodeRecord
        BY RecoveryWindowAssumption DEF TypeOK, Age
      <4> QED
        BY <2>3, <4>1, AgedFacts DEF FreshCopies
    <3>3. 0 <= evidence[n].unhealthy
      BY DEF TypeOK, Age
    <3>4. /\ work'[c].phase \in {"read", "observed"}
          /\ node'[Target(c)'] = Aged(work'[c].obj, work'[c].elapsed)
          /\ work'[c].elapsed <= evidence'[Target(c)'].unhealthy
      BY <2>1, <3>1, <3>2, <3>3 DEF Target
    <3>5. current' = current \cup {c}
      BY <1>3, <2>3 DEF Begin
    <3> QED
      BY <2>1, <3>4, <3>5 DEF CurrentCopies, Target, TypeOK
  <2> QED
    BY <2>2, <2>3
<1>4. ASSUME NEW c \in Controller, Observe(c) PROVE CurrentCopies'
  <2>1. /\ work'[c].phase = "observed" /\ work'[c].node = work[c].node
        /\ work'[c].obj = work[c].obj /\ work'[c].elapsed = work[c].elapsed
        /\ \A k \in Controller \ {c} : work'[k] = work[k]
    BY <1>4 DEF Observe, TypeOK, WorkRecord
  <2>2. UNCHANGED <<node, evidence, current>>
    BY <1>4 DEF Observe, apiVars
  <2> QED
    BY <2>1, <2>2 DEF CurrentCopies, Target, TypeOK
<1>5. ASSUME NEW c \in Controller, UpdateSucceeds(c) PROVE CurrentCopies'
  <2>1. \A m \in Node \ {Target(c)} : node'[m] = node[m] /\ evidence'[m] = evidence[m]
    BY <1>5, UpdateFacts
  <2>2. /\ current' = {k \in current : work[k].node # Target(c)}
        /\ \A k \in Controller \ {c} : work'[k] = work[k]
    BY <1>5 DEF UpdateSucceeds, Outdate, Proceed, TypeOK
  <2>3. \A k \in current' : k \in current /\ k # c /\ Target(k) # Target(c)
                            /\ Target(k) \in Node
    BY <2>2, ProposalType DEF Target, CurrentCopies, TypeOK
  <2> QED
    BY <2>1, <2>2, <2>3 DEF CurrentCopies, Target, TypeOK
<1>6. ASSUME NEW c \in Controller,
             UpdateFails(c) \/ ListFails(c) \/ EvictionsDone(c)
               \/ NothingToUpdate(c) \/ Crash(c)
      PROVE  CurrentCopies'
  <2>1. UNCHANGED <<node, evidence>> /\ current' = current \ {c}
    BY <1>6 DEF UpdateFails, ListFails, EvictionsDone, NothingToUpdate, Crash,
                Return, apiVars
  <2>2. \A k \in Controller \ {c} : work'[k] = work[k]
    BY <1>6 DEF UpdateFails, ListFails, EvictionsDone, NothingToUpdate, Crash,
                Return, Proceed, TypeOK
  <2> QED
    BY <1>2, <2>1, <2>2
<1>7. ASSUME NEW c \in Controller, ListPods(c) PROVE CurrentCopies'
  <2>1. c \notin current
    BY <1>7 DEF ListPods, CurrentCopies
  <2>2. /\ UNCHANGED <<node, evidence, current>>
        /\ \A k \in Controller \ {c} : work'[k] = work[k]
    BY <1>7 DEF ListPods, TypeOK, apiVars
  <2> QED
    BY <1>2, <2>1, <2>2
<1>8. ASSUME NEW c \in Controller, NEW p \in Pod,
             EvictAccepted(c, p) \/ EvictNotFoundOrFails(c, p)
      PROVE  CurrentCopies'
  <2>1. /\ UNCHANGED <<node, evidence, current>>
        /\ work' = [work EXCEPT ![c].todo = @ \ {p}]
    BY <1>8 DEF EvictAccepted, EvictNotFoundOrFails, apiVars
  <2>2. \A k \in Controller :
          /\ work'[k].phase = work[k].phase /\ work'[k].node = work[k].node
          /\ work'[k].obj = work[k].obj /\ work'[k].elapsed = work[k].elapsed
    BY <2>1 DEF TypeOK, WorkRecord
  <2> QED
    BY <2>1, <2>2 DEF CurrentCopies, Target, TypeOK
<1>9. ASSUME NEW n \in Node, NodeStep(n) PROVE CurrentCopies'
  <2>1. ASSUME NEW o \in NodeRecord, ForeignWrite(n, o) PROVE CurrentCopies'
    <3>1. /\ \A m \in Node \ {n} : node'[m] = node[m]
          /\ evidence' = evidence /\ work' = work
          /\ current' = {k \in current : work[k].node # n}
      BY <2>1 DEF ForeignWrite, Outdate, TypeOK
    <3>2. \A k \in current' : k \in current /\ Target(k) \in Node \ {n}
      BY <3>1, ProposalType DEF CurrentCopies, TypeOK, Target
    <3> QED
      BY <3>1, <3>2 DEF CurrentCopies, Target
  <2>2. ASSUME NEW answer \in Answer, Expose(n, answer) PROVE CurrentCopies'
    BY <1>1, <2>2 DEF Expose, apiVars, workVars
  <2> QED
    BY <1>9, <2>1, <2>2, NodeStepCases DEF AnotherWrites
<1>10. ASSUME NEW p \in Pod, PodLifeStep(p) PROVE CurrentCopies'
  BY <1>1, <1>10 DEF PodLifeStep, Assume, Bind, Finish, Delete, Vanish, PodStep,
                     apiVars, workVars
<1>11. CASE Tick
  <2> SUFFICES ASSUME NEW c \in current
               PROVE  /\ work'[c].phase \in {"read", "observed"}
                      /\ node'[Target(c)'] = Aged(work'[c].obj, work'[c].elapsed)
                      /\ work'[c].elapsed <= evidence'[Target(c)'].unhealthy
    BY <1>11 DEF Tick, CurrentCopies
  <2> DEFINE n == Target(c)
             k == work[c].elapsed
  <2>1. /\ c \in Controller /\ work[c].phase \in {"read", "observed"}
        /\ node[n] = Aged(work[c].obj, k) /\ k <= evidence[n].unhealthy
    BY DEF TypeOK, CurrentCopies
  <2>2. /\ n \in Node /\ work[c].obj \in NodeRecord /\ k \in Age
        /\ work[c] \in WorkRecord /\ evidence[n].unhealthy \in Age
    BY <2>1, ProposalType DEF TypeOK
  <2>3. work'[c] = [work[c] EXCEPT !.elapsed = Capped(k + 1)]
    BY <1>11, <2>1 DEF Tick
  <2>4. /\ work'[c].phase = work[c].phase /\ work'[c].node = work[c].node
        /\ work'[c].obj = work[c].obj /\ work'[c].elapsed = Capped(k + 1)
    BY <2>2, <2>3 DEF WorkRecord
  <2>5. /\ node'[n] = Aged(node[n], 1)
        /\ evidence'[n].unhealthy = Capped(evidence[n].unhealthy + 1)
    BY <1>11, <2>2 DEF Tick
  <2>6. node'[n] = Aged(work[c].obj, Capped(k + 1))
    BY <2>1, <2>2, <2>5, AgedFacts
  <2>7. Capped(k + 1) <= Capped(evidence[n].unhealthy + 1)
    BY <2>1, <2>2, RecoveryWindowAssumption DEF Capped, Age
  <2> QED
    BY <2>1, <2>4, <2>5, <2>6, <2>7 DEF Target
<1>12. CASE UNCHANGED vars
  BY <1>1, <1>12 DEF vars, apiVars, workVars
<1>13. ASSUME NEW c \in Controller, NEW n \in Node, CacheSync(c, n)
       PROVE  CurrentCopies'
  BY <1>1, <1>13 DEF CacheSync, apiVars
<1> QED
  BY <1>3, <1>4, <1>5, <1>6, <1>7, <1>8, <1>9, <1>10, <1>11, <1>12, <1>13
     DEF Next, ControllerStep, ReconcileStep

(* An Update that succeeds, made from a current copy, keeps the stored     *)
(* nodes right.                                                            *)
LEMMA UpdateNodesInv ==
  ASSUME TypeOK, CurrentCopies, NodesInv, NEW c \in Controller, UpdateSucceeds(c)
  PROVE  NodesInv'
<1> DEFINE n == Target(c)
           old == node[n]
           new == node'[n]
<1>0. n \in Node /\ \A m \in Node \ {n} : node'[m] = node[m] /\ evidence'[m] = evidence[m]
  BY UpdateFacts
<1>1. /\ evidence[n].unhealthy \in Age /\ evidence[n].degraded \in Age
      /\ evidence'[n].unhealthy = IF new.state \in {"degraded", "unknown"}
                                  THEN 0 ELSE evidence[n].unhealthy
      /\ evidence'[n].degraded = IF new.state = "degraded"
                                 THEN 0 ELSE evidence[n].degraded
  BY <1>0, UpdateFacts DEF TypeOK
<1>2. pulled' = IF new.taint = old.taint /\ new.managed = old.managed
                THEN pulled ELSE pulled \ {n}
  BY UpdateFacts
<1>3. /\ old.managed /\ ~new.managed => ReleaseDue(old) /\ new.state = "healthy"
      /\ ~old.managed => new.taint = old.taint \/ (new.managed /\ old.taint = "none")
      /\ new.managed => Tainted(new)
      /\ new.managed => new.taint = "controller" \/ (old.managed /\ new.taint = old.taint)
      /\ new.state = "degraded" => Tainted(new)
  BY UpdateFacts
<1>4. old.managed \in BOOLEAN /\ new.managed \in BOOLEAN
  BY UpdateFacts DEF NodeRecord
<1>5. new.state = "recovering" =>
        /\ old.managed /\ new.managed
        /\ IF old.state = "recovering" /\ old.startedAge # NoTime
           THEN new.startedAge = old.startedAge
           ELSE new.startedAge \in 0 .. evidence[n].unhealthy
  BY UpdateFacts
<1>6. /\ evidence[n].unhealthy <= evidence[n].degraded
      /\ old.state = "recovering" =>
           old.startedAge # NoTime /\ old.startedAge <= evidence[n].unhealthy
      /\ evidence[n].degraded < RecoveryWindow => Tainted(old) \/ n \in pulled
      /\ old.managed => old.taint = "controller" \/ n \in pulled
  BY <1>0 DEF NodesInv, EvidenceOrdered, RecoveryIsContinuous,
              IsolatedAfterDegradedEvidence, ManagedTaintIsOwn
<1> HIDE DEF n, old, new
<1>7. evidence'[n].unhealthy <= evidence'[n].degraded
  BY <1>1, <1>6, RecoveryWindowAssumption DEF Age
<1>8. new.state = "recovering" =>
        new.startedAge # NoTime /\ new.startedAge <= evidence'[n].unhealthy
  BY <1>1, <1>5, <1>6 DEF Age, NoTime
<1>9. ASSUME evidence'[n].degraded < RecoveryWindow
      PROVE  Tainted(new) \/ n \in pulled'
  <2>1. CASE new.state = "degraded"
    BY <1>3, <2>1
  <2>2. CASE new.state # "degraded"
    <3>1. Tainted(old) \/ n \in pulled
      BY <1>1, <1>6, <1>9, <2>2
    <3>2. ~(old.managed /\ ~new.managed)
      BY <1>1, <1>3, <1>6, <1>9, <2>2, RecoveryWindowAssumption DEF ReleaseDue, Age
    <3>3. CASE new.managed
      BY <1>3, <3>3
    <3>4. CASE ~new.managed
      BY <1>2, <1>3, <1>4, <3>1, <3>2, <3>4 DEF Tainted
    <3> QED
      BY <3>3, <3>4
  <2> QED
    BY <2>1, <2>2
<1>10. new.managed => new.taint = "controller" \/ n \in pulled'
  BY <1>2, <1>3, <1>4, <1>6
<1>11. \A m \in Node \ {n} : m \in pulled' <=> m \in pulled
  BY <1>2
<1>12. EvidenceOrdered' /\ RecoveryIsContinuous'
  BY <1>0, <1>7, <1>8
     DEF NodesInv, EvidenceOrdered, RecoveryIsContinuous, n, new
<1>13. IsolatedAfterDegradedEvidence' /\ ManagedTaintIsOwn'
  BY <1>0, <1>9, <1>10, <1>11
     DEF NodesInv, IsolatedAfterDegradedEvidence, ManagedTaintIsOwn, n, new, Tainted
<1> QED
  BY <1>12, <1>13 DEF NodesInv

(* So does every other step. *)
LEMMA NextNodesInv ==
  ASSUME TypeOK, CurrentCopies, NodesInv, [Next]_vars
  PROVE  NodesInv'
<1>1. ASSUME NEW c \in Controller, UpdateSucceeds(c) PROVE NodesInv'
  BY <1>1, UpdateNodesInv
<1>2. ASSUME NEW n \in Node, NEW o \in NodeRecord, AnotherWrites(n, o)
      PROVE  NodesInv'
  <2>1. /\ evidence' = evidence
        /\ \A m \in Node : /\ node'[m].state = node[m].state
                           /\ node'[m].managed = node[m].managed
                           /\ node'[m].startedAge = node[m].startedAge
    BY <1>2 DEF AnotherWrites, ForeignWrite, TypeOK
  <2>2. \A m \in Node : \/ node'[m].taint = node[m].taint /\ (m \in pulled <=> m \in pulled')
                        \/ m \in pulled'
                        \/ /\ node[m].taint = "none" /\ node'[m].taint # "none"
                           /\ m \in pulled <=> m \in pulled'
    BY <1>2 DEF AnotherWrites, ForeignWrite, TypeOK
  <2>3. EvidenceOrdered' /\ RecoveryIsContinuous'
    BY <2>1 DEF NodesInv, EvidenceOrdered, RecoveryIsContinuous
  <2>4. IsolatedAfterDegradedEvidence'
    BY <2>1, <2>2 DEF NodesInv, IsolatedAfterDegradedEvidence, Tainted
  <2>5. ManagedTaintIsOwn'
    BY <2>1, <2>2 DEF NodesInv, ManagedTaintIsOwn
  <2> QED
    BY <2>3, <2>4, <2>5 DEF NodesInv
<1>3. CASE Tick
  <2>1. pulled' = pulled /\ \A n \in Node :
          /\ node'[n] = Aged(node[n], 1)
          /\ evidence'[n].degraded = Capped(evidence[n].degraded + 1)
          /\ evidence'[n].unhealthy = Capped(evidence[n].unhealthy + 1)
    BY <1>3 DEF Tick
  <2>2. \A n \in Node : /\ node[n] \in NodeRecord /\ node[n].startedAge \in MaybeAge
                        /\ evidence[n].degraded \in Age /\ evidence[n].unhealthy \in Age
    BY DEF TypeOK, NodeRecord
  <2>3. 1 \in Age
    BY RecoveryWindowAssumption DEF Age
  <2>4. \A n \in Node : /\ node'[n].state = node[n].state
                        /\ node'[n].managed = node[n].managed
                        /\ node'[n].taint = node[n].taint
                        /\ node'[n].startedAge = Older(node[n].startedAge, 1)
    BY <2>1, <2>2, <2>3, AgedFacts
  <2>5. EvidenceOrdered'
    BY <2>1, <2>2, RecoveryWindowAssumption DEF NodesInv, EvidenceOrdered, Capped, Age
  <2>6. RecoveryIsContinuous'
    BY <2>1, <2>2, <2>4, RecoveryWindowAssumption
       DEF NodesInv, RecoveryIsContinuous, Older, Capped, Age, MaybeAge, NoTime
  <2>7. IsolatedAfterDegradedEvidence'
    BY <2>1, <2>2, <2>4, RecoveryWindowAssumption
       DEF NodesInv, IsolatedAfterDegradedEvidence, Tainted, Capped, Age
  <2>8. ManagedTaintIsOwn'
    BY <2>1, <2>4 DEF NodesInv, ManagedTaintIsOwn
  <2> QED
    BY <2>5, <2>6, <2>7, <2>8 DEF NodesInv
<1>4. CASE UNCHANGED apiVars
  BY <1>4 DEF apiVars, NodesInv, EvidenceOrdered, RecoveryIsContinuous,
              IsolatedAfterDegradedEvidence, ManagedTaintIsOwn
<1> QED
  BY <1>1, <1>2, <1>3, <1>4, StepCases

(* The invariant is inductive. *)
LEMMA NextInv == Inv /\ [Next]_vars => Inv'
<1> SUFFICES ASSUME Inv, [Next]_vars PROVE Inv'
  OBVIOUS
<1>1. TypeOK'
  BY NextTypeOK DEF Inv
<1>2. FreshCopies' /\ CurrentCopies'
  BY NextFreshCopies, NextCurrentCopies DEF Inv
<1>3. NodesInv'
  BY NextNodesInv DEF Inv
<1> QED
  BY <1>1, <1>2, <1>3 DEF Inv

(* The inductive invariant holds throughout: copies the controllers trust  *)
(* are trustworthy, and the stored nodes are right.                        *)
THEOREM Invariance == Spec => []Inv
BY InitInv, NextInv, PTL DEF Spec

(* A node with degraded evidence younger than the window is isolated,      *)
(* unless its taint was pulled by hand (IsolatedAfterDegradedEvidence).    *)
THEOREM DegradedEvidenceIsolates == Spec => []IsolatedAfterDegradedEvidence
BY Invariance, PTL DEF Inv, NodesInv

(* The ownership marker never covers a taint the controller did not put    *)
(* there (ManagedTaintIsOwn).                                              *)
THEOREM MarkerClaimsOwnTaint == Spec => []ManagedTaintIsOwn
BY Invariance, PTL DEF Inv, NodesInv

(* No recovery in progress spans non-healthy evidence, in spite of stale   *)
(* caches and concurrent controllers (RecoveryIsContinuous).               *)
THEOREM ContinuousRecovery == Spec => []RecoveryIsContinuous
BY Invariance, PTL DEF Inv, NodesInv

-----------------------------------------------------------------------------
(* Action properties. *)

(* A node the controller releases had a recovery due, and has been quiet   *)
(* for a whole window.                                                     *)
LEMMA ReleaseStep ==
  ASSUME Inv, [Next]_vars, NEW n \in Node, node[n].managed, ~node'[n].managed
  PROVE  evidence[n].unhealthy = RecoveryWindow
<1>1. ASSUME NEW c \in Controller, UpdateSucceeds(c)
      PROVE  evidence[n].unhealthy = RecoveryWindow
  <2>1. n = Target(c) /\ ReleaseDue(node[n])
    BY <1>1, UpdateFacts DEF Inv
  <2>2. RecoveryWindow <= evidence[n].unhealthy
    BY <2>1 DEF Inv, NodesInv, RecoveryIsContinuous, ReleaseDue
  <2>3. evidence[n].unhealthy \in 0 .. RecoveryWindow
    BY DEF Inv, TypeOK, Age
  <2> QED
    BY <2>2, <2>3, RecoveryWindowAssumption
<1>2. ASSUME NEW m \in Node, NEW o \in NodeRecord, AnotherWrites(m, o)
      PROVE  FALSE
  BY <1>2 DEF AnotherWrites, ForeignWrite, Inv, TypeOK
<1>3. ~Tick
  <2>1. 1 \in Age /\ node[n] \in NodeRecord
    BY RecoveryWindowAssumption DEF Age, Inv, TypeOK
  <2> QED
    BY <2>1, AgedFacts DEF Tick
<1>4. ~UNCHANGED apiVars
  BY DEF apiVars
<1> QED
  BY <1>1, <1>2, <1>3, <1>4, StepCases DEF Inv

(* The controller releases a node only after a whole window without a      *)
(* non-healthy state written (ReleasedOnlyAfterQuietWindow).               *)
THEOREM QuietWindowBeforeRelease == Spec => ReleasedOnlyAfterQuietWindow
<1>1. Inv /\ [Next]_vars =>
        [\A n \in Node : node[n].managed /\ ~node'[n].managed
           => evidence[n].unhealthy = RecoveryWindow]_vars
  BY ReleaseStep
<1> QED
  BY <1>1, Invariance, PTL DEF Spec, ReleasedOnlyAfterQuietWindow

(* No step but a removal by hand takes off a taint of another actor: the   *)
(* controller does not own it, so its Update leaves it.                    *)
LEMMA ForeignTaintStep ==
  ASSUME Inv, [Next]_vars, NEW n \in Node,
         node[n].taint = "other", n \notin pulled
  PROVE  node'[n].taint = "other" \/ n \in pulled'
<1>1. ASSUME NEW c \in Controller, UpdateSucceeds(c)
      PROVE  node'[n].taint = "other"
  <2>1. ~node[n].managed
    BY DEF Inv, NodesInv, ManagedTaintIsOwn
  <2>2. CASE n # Target(c)
    BY <1>1, <2>2, UpdateFacts DEF Inv
  <2>3. CASE n = Target(c)
    BY <1>1, <2>1, <2>3, UpdateFacts DEF Inv
  <2> QED
    BY <2>2, <2>3
<1>2. ASSUME NEW m \in Node, NEW o \in NodeRecord, AnotherWrites(m, o)
      PROVE  node'[n].taint = "other" \/ n \in pulled'
  BY <1>2 DEF AnotherWrites, ForeignWrite, Inv, TypeOK
<1>3. CASE Tick
  <2>1. 1 \in Age /\ node[n] \in NodeRecord
    BY RecoveryWindowAssumption DEF Age, Inv, TypeOK
  <2> QED
    BY <1>3, <2>1, AgedFacts DEF Tick
<1>4. CASE UNCHANGED apiVars
  BY <1>4 DEF apiVars
<1> QED
  BY <1>1, <1>2, <1>3, <1>4, StepCases DEF Inv

(* Only an administrator takes another actor's taint off a node            *)
(* (ForeignTaintKept).                                                     *)
THEOREM ForeignTaintPreserved == Spec => ForeignTaintKept
<1>1. Inv /\ [Next]_vars =>
        [\A n \in Node : node[n].taint = "other" /\ n \notin pulled
           => node'[n].taint = "other" \/ n \in pulled']_vars
  BY ForeignTaintStep
<1> QED
  BY <1>1, Invariance, PTL DEF Spec, ForeignTaintKept
=============================================================================

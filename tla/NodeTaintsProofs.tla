-------------------------- MODULE NodeTaintsProofs --------------------------
(***************************************************************************)
(* The taints of a node, for every set of taints that administrators put   *)
(* there and every recovery window: a reconcile leaves the others' taints  *)
(* alone, and NodeObject's operators say what it does to the exact one.    *)
(***************************************************************************)
EXTENDS NodeTaints, TLAPS

NodeShape ==
  [ state : State \cup {"absent"}, managed : BOOLEAN, startedAge : MaybeAge,
    taints : SUBSET (AdminTaint \cup {degradedTaint}) ]

Types == node \in NodeShape /\ own \in BOOLEAN /\ observation \in Observation

TheDecision ==
  DecideIsolation(ParseState(node.state), node.managed, node.startedAge, observation)

LEMMA DecisionType ==
  ASSUME NEW previous, NEW isolated \in BOOLEAN, NEW age \in MaybeAge,
         NEW observed \in Observation
  PROVE  DecideIsolation(previous, isolated, age, observed) \in Decision
<1>1. 0 \in MaybeAge /\ NoTime \in MaybeAge
  BY RecoveryWindowAssumption DEF MaybeAge, Age
<1> QED
  BY <1>1
  DEF DecideIsolation, DecideRecovery, ContinueRecovery, Decide, Decision, State,
      Observation

LEMMA OlderType ==
  ASSUME NEW age \in MaybeAge
  PROVE  Older(age, 1) \in MaybeAge
BY RecoveryWindowAssumption DEF Older, Capped, MaybeAge, Age, NoTime

LEMMA DecisionTaken == Types => TheDecision \in Decision
BY DecisionType DEF TheDecision, Types, NodeShape

(* What a reconcile proposes, field by field. *)
LEMMA ProposalFields ==
  ASSUME Types
  PROVE  LET o == Proposal(node, observation)
             d == TheDecision IN
         /\ o \in NodeShape
         /\ o.state = d.state /\ o.startedAge = d.startedAge
         /\ d.isolate /\ degradedTaint \in node.taints
              => o.taints = node.taints /\ o.managed = node.managed
         /\ d.isolate /\ degradedTaint \notin node.taints
              => o.taints = node.taints \cup {degradedTaint} /\ o.managed = TRUE
         /\ ~d.isolate /\ node.managed
              => o.taints = node.taints \ {degradedTaint} /\ o.managed = FALSE
         /\ ~d.isolate /\ ~node.managed
              => o.taints = node.taints /\ o.managed = FALSE
<1> DEFINE d == TheDecision
           noted == [node EXCEPT !.state = d.state, !.startedAge = d.startedAge]
           o == Proposal(node, observation)
<1>1. d \in Decision
  BY DecisionTaken
<1>2. /\ noted \in NodeShape /\ noted.managed \in BOOLEAN
      /\ noted.state = d.state /\ noted.startedAge = d.startedAge
      /\ noted.managed = node.managed /\ noted.taints = node.taints
  BY <1>1 DEF Types, NodeShape, Decision
<1>3. o = IF d.isolate THEN IsolateNode(noted) ELSE RecoverNode(noted)
  BY DEF Proposal, TheDecision
<1> HIDE DEF noted, d, o
<1>4. CASE d.isolate /\ degradedTaint \notin node.taints
  <2>1. o = [noted EXCEPT !.taints = noted.taints \cup {degradedTaint},
                          !.managed = TRUE]
    BY <1>2, <1>3, <1>4 DEF IsolateNode
  <2>2. /\ o \in NodeShape
        /\ o.state = noted.state /\ o.startedAge = noted.startedAge
        /\ o.taints = noted.taints \cup {degradedTaint} /\ o.managed = TRUE
    BY <1>2, <2>1 DEF NodeShape
  <2> QED
    BY <1>2, <1>4, <2>2 DEF d, o
<1>5. CASE ~d.isolate /\ node.managed
  <2>1. o = [noted EXCEPT !.taints = noted.taints \ {degradedTaint},
                          !.managed = FALSE]
    BY <1>2, <1>3, <1>5 DEF RecoverNode
  <2>2. /\ o \in NodeShape
        /\ o.state = noted.state /\ o.startedAge = noted.startedAge
        /\ o.taints = noted.taints \ {degradedTaint} /\ o.managed = FALSE
    BY <1>2, <2>1 DEF NodeShape
  <2> QED
    BY <1>2, <1>5, <2>2 DEF d, o
<1>6. CASE \/ d.isolate /\ degradedTaint \in node.taints
           \/ ~d.isolate /\ ~node.managed
  <2>1. o = noted
    BY <1>2, <1>3, <1>6 DEF IsolateNode, RecoverNode
  <2>2. o.managed = node.managed /\ node.managed \in BOOLEAN /\ o.taints = node.taints
    BY <1>2, <2>1
  <2> QED
    BY <1>2, <1>6, <2>1, <2>2 DEF d, o
<1> QED
  BY <1>4, <1>5, <1>6

LEMMA TypesStep == Types /\ [Next]_vars => Types'
<1> SUFFICES ASSUME Types, [Next]_vars PROVE Types'
  OBVIOUS
<1>1. CASE Reconcile
  BY <1>1, ProposalFields DEF Reconcile, Types
<1>2. ASSUME NEW t \in AdminTaint, Taint(t) PROVE Types'
  BY <1>2 DEF Taint, Types, NodeShape
<1>3. ASSUME NEW t \in node.taints, Untaint(t) PROVE Types'
  BY <1>3 DEF Untaint, Types, NodeShape
<1>4. ASSUME NEW answer \in Observation, Observed(answer) PROVE Types'
  BY <1>4 DEF Observed, Types
<1>5. CASE Tick
  BY <1>5, OlderType DEF Tick, Types, NodeShape
<1>6. CASE UNCHANGED vars
  BY <1>6 DEF vars, Types
<1> QED
  BY <1>1, <1>2, <1>3, <1>4, <1>5, <1>6 DEF Next

LEMMA TypesInvariance == Spec => []Types
<1>1. Init => Types
  <2> SUFFICES ASSUME Init PROVE Types
    OBVIOUS
  <2>1. NoTime \in MaybeAge /\ "unknown" \in Observation
    BY DEF MaybeAge, Observation
  <2> QED
    BY <2>1 DEF Init, Types, NodeShape
<1> QED
  BY <1>1, TypesStep, PTL DEF Spec

(* The controller touches no taint but the exact one it may own            *)
(* (OtherTaintsKept).                                                      *)
THEOREM OthersAreKept == Spec => OtherTaintsKept
<1>1. ASSUME Types, Reconcile
      PROVE  node'.taints \ {degradedTaint} = node.taints \ {degradedTaint}
  <2>1. TheDecision.isolate \in BOOLEAN /\ node.managed \in BOOLEAN
    BY <1>1, DecisionTaken DEF Types, NodeShape, Decision
  <2>2. \/ node'.taints = node.taints
        \/ node'.taints = node.taints \cup {degradedTaint}
        \/ node'.taints = node.taints \ {degradedTaint}
    BY <1>1, <2>1, ProposalFields DEF Reconcile
  <2> QED
    BY <2>2
<1>2. Types /\ [Next]_vars
        => [Reconcile => node'.taints \ {degradedTaint}
                           = node.taints \ {degradedTaint}]_vars
  BY <1>1
<1> QED
  BY <1>2, TypesInvariance, PTL DEF Spec, OtherTaintsKept

(* The policy is the one NodeObject uses. *)
LEMMA SameDecision ==
  Types => Exact!DecisionFor(Reduced(node, own), observation) = TheDecision
<1>1. /\ Exact!NoTime = NoTime
      /\ Exact!ParseState(node.state) = ParseState(node.state)
      /\ \A s, i, a : Exact!Decide(s, i, a) = Decide(s, i, a)
  BY DEF Exact!NoTime, NoTime, Exact!ParseState, ParseState, Exact!State, State,
         Exact!Decide, Decide
<1>2. \A a : Exact!ContinueRecovery(a) = ContinueRecovery(a)
  BY <1>1 DEF Exact!ContinueRecovery, ContinueRecovery
<1>3. \A p, i, a : Exact!DecideRecovery(p, i, a) = DecideRecovery(p, i, a)
  BY <1>1, <1>2 DEF Exact!DecideRecovery, DecideRecovery
<1>4. /\ Reduced(node, own).state = node.state
      /\ Reduced(node, own).managed = node.managed
      /\ Reduced(node, own).startedAge = node.startedAge
  BY DEF Reduced
<1> QED
  BY <1>1, <1>2, <1>3, <1>4
  DEF Exact!DecisionFor, TheDecision, Exact!DecideIsolation, DecideIsolation

LEMMA ReducedFields ==
  ASSUME NEW o \in NodeShape, NEW ours \in BOOLEAN
  PROVE  LET r == Reduced(o, ours) IN
         /\ r \in Exact!NodeRecord
         /\ r.state = o.state /\ r.managed = o.managed
         /\ r.startedAge = o.startedAge
         /\ r.observedAt = "clock" /\ r.fault = FALSE /\ r.confirmation = "absent"
         /\ r.taint = IF degradedTaint \notin o.taints THEN "none"
                       ELSE IF ours THEN "controller" ELSE "other"
<1>1. Exact!State = State /\ Exact!MaybeAge = MaybeAge
  BY DEF Exact!State, State, Exact!MaybeAge, MaybeAge, Exact!Age, Age,
         Exact!NoTime, NoTime
<1> QED
  BY <1>1 DEF Reduced, NodeShape, Exact!NodeRecord

LEMMA SameRecord ==
  ASSUME NEW r \in Exact!NodeRecord, NEW s \in Exact!NodeRecord,
         r.state = s.state, r.managed = s.managed, r.startedAge = s.startedAge,
         r.observedAt = s.observedAt, r.fault = s.fault,
         r.confirmation = s.confirmation, r.taint = s.taint
  PROVE  r = s
BY DEF Exact!NodeRecord

(* NodeObject, which knows only whether the exact taint is there and who   *)
(* put it, says of a reconcile what happens to the taints in full          *)
(* (ReducesToNodeObject).                                                  *)
THEOREM ReductionIsExact == Spec => ReducesToNodeObject
<1>1. ASSUME Types, Reconcile
      PROVE  Reduced(node', own')
               = Exact!Reconciled(Reduced(node, own), observation, "clock")
  <2> DEFINE d == TheDecision
             small == Reduced(node, own)
             noted == Exact!ApplyHealthAnnotations(small, d, "clock")
             result == Exact!Reconciled(small, observation, "clock")
  <2>1. /\ d \in Decision /\ d.isolate \in BOOLEAN /\ node.managed \in BOOLEAN
        /\ own \in BOOLEAN /\ node \in NodeShape
    BY <1>1, DecisionTaken DEF Types, Decision, NodeShape
  <2>2. /\ node' = Proposal(node, observation) /\ node' \in NodeShape
        /\ own' = (degradedTaint \in node'.taints
                     /\ (own \/ degradedTaint \notin node.taints))
        /\ own' \in BOOLEAN
    BY <1>1, ProposalFields DEF Reconcile
  <2>3. result
          = IF d.isolate THEN Exact!IsolateNode(noted) ELSE Exact!RecoverNode(noted)
    BY <1>1, SameDecision DEF Exact!Reconciled
  <2>4. /\ noted \in Exact!NodeRecord
        /\ noted.state = d.state /\ noted.startedAge = d.startedAge
        /\ noted.managed = node.managed /\ noted.observedAt = "clock"
        /\ noted.fault = FALSE /\ noted.confirmation = "absent"
        /\ noted.taint = IF degradedTaint \notin node.taints THEN "none"
                          ELSE IF own THEN "controller" ELSE "other"
    <3>1. Exact!State = State /\ Exact!MaybeAge = MaybeAge
      BY DEF Exact!State, State, Exact!MaybeAge, MaybeAge, Exact!Age, Age,
             Exact!NoTime, NoTime
    <3>2. /\ d.state \in Exact!State /\ d.startedAge \in Exact!MaybeAge
          /\ small \in Exact!NodeRecord
      BY <2>1, <3>1, ReducedFields DEF Decision
    <3>3. small.managed = node.managed /\ small.fault = FALSE
          /\ small.confirmation = "absent"
          /\ small.taint = IF degradedTaint \notin node.taints THEN "none"
                            ELSE IF own THEN "controller" ELSE "other"
      BY <2>1, ReducedFields
    <3> HIDE DEF d, small
    <3> QED
      BY <3>2, <3>3 DEF Exact!ApplyHealthAnnotations, Exact!NodeRecord
  <2>5. /\ node'.state = d.state /\ node'.startedAge = d.startedAge
        /\ d.isolate /\ degradedTaint \in node.taints
             => node'.taints = node.taints /\ node'.managed = node.managed
        /\ d.isolate /\ degradedTaint \notin node.taints
             => node'.taints = node.taints \cup {degradedTaint} /\ node'.managed = TRUE
        /\ ~d.isolate /\ node.managed
             => node'.taints = node.taints \ {degradedTaint} /\ node'.managed = FALSE
        /\ ~d.isolate /\ ~node.managed
             => node'.taints = node.taints /\ node'.managed = FALSE
    BY <1>1, <2>2, ProposalFields
  <2> HIDE DEF d, small, noted, result
  <2>6. /\ result \in Exact!NodeRecord
        /\ result.state = d.state /\ result.startedAge = d.startedAge
        /\ result.observedAt = "clock" /\ result.fault = FALSE
        /\ result.confirmation = "absent"
        /\ result.managed = node'.managed
        /\ result.taint = IF degradedTaint \notin node'.taints THEN "none"
                          ELSE IF own' THEN "controller" ELSE "other"
    <3>1. CASE d.isolate /\ degradedTaint \notin node.taints
      <4>1. result = [noted EXCEPT !.taint = "controller", !.managed = TRUE]
        BY <2>3, <2>4, <3>1 DEF Exact!IsolateNode, Exact!Tainted
      <4>2. /\ result \in Exact!NodeRecord
            /\ result.taint = "controller" /\ result.managed = TRUE
            /\ result.state = noted.state /\ result.startedAge = noted.startedAge
            /\ result.observedAt = noted.observedAt /\ result.fault = noted.fault
            /\ result.confirmation = noted.confirmation
        BY <2>4, <4>1 DEF Exact!NodeRecord
      <4>3. degradedTaint \in node'.taints /\ own' = TRUE
        BY <2>2, <2>5, <3>1
      <4> QED
        BY <2>4, <2>5, <3>1, <4>2, <4>3
    <3>2. CASE ~d.isolate /\ node.managed
      <4>1. result = [noted EXCEPT !.taint = "none", !.managed = FALSE]
        BY <2>3, <2>4, <3>2 DEF Exact!RecoverNode
      <4>2. /\ result \in Exact!NodeRecord
            /\ result.taint = "none" /\ result.managed = FALSE
            /\ result.state = noted.state /\ result.startedAge = noted.startedAge
            /\ result.observedAt = noted.observedAt /\ result.fault = noted.fault
            /\ result.confirmation = noted.confirmation
        BY <2>4, <4>1 DEF Exact!NodeRecord
      <4> QED
        BY <2>4, <2>5, <3>2, <4>2
    <3>3. CASE \/ d.isolate /\ degradedTaint \in node.taints
               \/ ~d.isolate /\ ~node.managed
      <4>1. result = noted
        BY <2>3, <2>4, <3>3 DEF Exact!IsolateNode, Exact!Tainted, Exact!RecoverNode
      <4>2. node'.taints = node.taints /\ node'.managed = node.managed
        BY <2>1, <2>5, <3>3
      <4>3. degradedTaint \in node.taints => own' = own
        BY <2>1, <2>2, <4>2
      <4> QED
        BY <2>4, <4>1, <4>2, <4>3
    <3> QED
      BY <2>1, <3>1, <3>2, <3>3
  <2>7. /\ Reduced(node', own') \in Exact!NodeRecord
        /\ Reduced(node', own').state = node'.state
        /\ Reduced(node', own').managed = node'.managed
        /\ Reduced(node', own').startedAge = node'.startedAge
        /\ Reduced(node', own').observedAt = "clock"
        /\ Reduced(node', own').fault = FALSE
        /\ Reduced(node', own').confirmation = "absent"
        /\ Reduced(node', own').taint
             = IF degradedTaint \notin node'.taints THEN "none"
               ELSE IF own' THEN "controller" ELSE "other"
    BY <2>2, ReducedFields
  <2>8. Reduced(node', own') = result
    BY <2>5, <2>6, <2>7, SameRecord
  <2> QED
    BY <2>8 DEF result, small
<1>2. Types /\ [Next]_vars
        => [Reconcile => Reduced(node', own')
              = Exact!Reconciled(Reduced(node, own), observation, "clock")]_vars
  BY <1>1
<1> QED
  BY <1>2, TypesInvariance, PTL DEF Spec, ReducesToNodeObject
=============================================================================

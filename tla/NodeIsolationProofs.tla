------------------------- MODULE NodeIsolationProofs -------------------------
(***************************************************************************)
(* NodeHealthController implements NodeIsolation: from the controller's    *)
(* inductive invariant, every Update that succeeds is one abstract step or *)
(* none, time passes in both, and nothing else shows.                      *)
(***************************************************************************)
EXTENDS NodeHealthControllerProofs

(* The refinement mapping, node by node. *)
ModeOf(o) ==
  IF ~o.managed THEN "open"
  ELSE IF o.state = "recovering" THEN "confirming" ELSE "isolated"

SinceOf(o) == IF o.managed /\ o.state = "recovering" THEN o.startedAge ELSE 0

(* A node without the controller's marker is open.                         *)
LEMMA InitImplements == Init => Isolation!Init
BY DEF Init, NewNode, Isolation!Init

(* A step that leaves state, marker and recovery start of every node, and  *)
(* the evidence, as they are is an abstract stutter.                       *)
LEMMA StutterStep ==
  ASSUME \A n \in Node : /\ ModeOf(node'[n]) = ModeOf(node[n])
                         /\ SinceOf(node'[n]) = SinceOf(node[n])
                         /\ evidence'[n].unhealthy = evidence[n].unhealthy
  PROVE  UNCHANGED Isolation!vars
BY DEF ModeOf, SinceOf, Isolation!vars

(* Written in terms of one node, an abstract step of that node.            *)
LEMMA OneNodeStep ==
  ASSUME NEW n \in Node,
         \A m \in Node \ {n} : node'[m] = node[m] /\ evidence'[m] = evidence[m],
         LET old == node[n]
             new == node'[n] IN
         \/ /\ ModeOf(new) = "isolated" \/ (ModeOf(old) = "open" /\ ModeOf(new) = "open")
            /\ SinceOf(new) = 0 /\ evidence'[n].unhealthy = 0
         \/ /\ ModeOf(old) = "isolated" /\ ModeOf(new) = "confirming"
            /\ SinceOf(new) \in 0 .. evidence[n].unhealthy
            /\ evidence'[n].unhealthy = evidence[n].unhealthy
         \/ /\ ModeOf(old) = "confirming" /\ SinceOf(old) = RecoveryWindow
            /\ ModeOf(new) = "open" /\ SinceOf(new) = 0
            /\ evidence'[n].unhealthy = evidence[n].unhealthy
  PROVE  Isolation!Next
<1> DEFINE old == node[n]
           new == node'[n]
<1>1. CASE /\ ModeOf(new) = "isolated" \/ (ModeOf(old) = "open" /\ ModeOf(new) = "open")
           /\ SinceOf(new) = 0 /\ evidence'[n].unhealthy = 0
  <2>1. Isolation!Unhealthy(n)
    BY <1>1 DEF Isolation!Unhealthy, ModeOf, SinceOf
  <2> QED
    BY <2>1 DEF Isolation!Next
<1>2. CASE /\ ModeOf(old) = "isolated" /\ ModeOf(new) = "confirming"
           /\ SinceOf(new) \in 0 .. evidence[n].unhealthy
           /\ evidence'[n].unhealthy = evidence[n].unhealthy
  <2>1. /\ ModeOf(node[n]) = "isolated"
        /\ [m \in Node |-> ModeOf(node'[m])] =
             [[m \in Node |-> ModeOf(node[m])] EXCEPT ![n] = "confirming"]
        /\ [m \in Node |-> SinceOf(node'[m])] =
             [[m \in Node |-> SinceOf(node[m])] EXCEPT ![n] = SinceOf(node'[n])]
        /\ [m \in Node |-> evidence'[m].unhealthy] =
             [m \in Node |-> evidence[m].unhealthy]
    BY <1>2
  <2>2. Isolation!StartConfirming(n)
    BY <1>2, <2>1 DEF Isolation!StartConfirming, ModeOf, SinceOf
  <2> QED
    BY <2>2 DEF Isolation!Next
<1>3. CASE /\ ModeOf(old) = "confirming" /\ SinceOf(old) = RecoveryWindow
           /\ ModeOf(new) = "open" /\ SinceOf(new) = 0
           /\ evidence'[n].unhealthy = evidence[n].unhealthy
  <2>1. Isolation!Release(n)
    BY <1>3 DEF Isolation!Release, ModeOf, SinceOf
  <2> QED
    BY <2>1 DEF Isolation!Next
<1> QED
  BY <1>1, <1>2, <1>3

(* An Update that succeeds: non-healthy evidence, the start of a recovery  *)
(* or its end, or no abstract step at all.                                 *)
LEMMA UpdateImplements ==
  ASSUME Inv, NEW c \in Controller, UpdateSucceeds(c)
  PROVE  Isolation!Next \/ UNCHANGED Isolation!vars
<1> DEFINE n == Target(c)
           old == node[n]
           new == node'[n]
<1>1. /\ n \in Node /\ old \in NodeRecord /\ new \in NodeRecord
      /\ \A m \in Node \ {n} : node'[m] = node[m] /\ evidence'[m] = evidence[m]
      /\ evidence'[n].unhealthy = IF new.state \in {"degraded", "unknown"}
                                  THEN 0 ELSE evidence[n].unhealthy
      /\ new.state \in State
  BY UpdateFacts DEF Inv
<1>2. old.managed \in BOOLEAN /\ new.managed \in BOOLEAN
  BY <1>1 DEF NodeRecord
<1>3. CASE new.state \in {"degraded", "unknown"}
  <2>1. old.managed => new.managed
    BY <1>3, UpdateFacts DEF Inv
  <2>2. /\ ModeOf(new) = "isolated" \/ (ModeOf(old) = "open" /\ ModeOf(new) = "open")
        /\ SinceOf(new) = 0 /\ evidence'[n].unhealthy = 0
    BY <1>1, <1>2, <1>3, <2>1 DEF ModeOf, SinceOf
  <2> QED
    BY <1>1, <2>2, OneNodeStep
<1>4. CASE new.state = "recovering"
  <2>1. /\ old.managed /\ new.managed
        /\ IF old.state = "recovering" /\ old.startedAge # NoTime
           THEN new.startedAge = old.startedAge
           ELSE new.startedAge \in 0 .. evidence[n].unhealthy
    BY <1>4, UpdateFacts DEF Inv
  <2>2. CASE old.state = "recovering"
    <3>1. old.startedAge # NoTime
      BY <1>1, <2>2 DEF Inv, NodesInv, RecoveryIsContinuous
    <3>2. /\ ModeOf(new) = ModeOf(old) /\ SinceOf(new) = SinceOf(old)
          /\ evidence'[n].unhealthy = evidence[n].unhealthy
      BY <1>1, <1>4, <2>1, <2>2, <3>1 DEF ModeOf, SinceOf
    <3> QED
      BY <1>1, <3>2, StutterStep
  <2>3. CASE old.state # "recovering"
    <3>1. /\ ModeOf(old) = "isolated" /\ ModeOf(new) = "confirming"
          /\ SinceOf(new) \in 0 .. evidence[n].unhealthy
          /\ evidence'[n].unhealthy = evidence[n].unhealthy
      BY <1>1, <1>4, <2>1, <2>3 DEF ModeOf, SinceOf
    <3> QED
      BY <1>1, <3>1, OneNodeStep
  <2> QED
    BY <2>2, <2>3
<1>5. CASE new.state = "healthy"
  <2>1. ~new.managed /\ evidence'[n].unhealthy = evidence[n].unhealthy
    BY <1>1, <1>5, UpdateFacts DEF Inv
  <2>2. CASE old.managed
    <3>1. ReleaseDue(old)
      BY <2>1, <2>2, UpdateFacts DEF Inv
    <3>2. /\ ModeOf(old) = "confirming" /\ SinceOf(old) = RecoveryWindow
          /\ ModeOf(new) = "open" /\ SinceOf(new) = 0
      BY <2>1, <3>1 DEF ModeOf, SinceOf, ReleaseDue
    <3> QED
      BY <1>1, <2>1, <3>2, OneNodeStep
  <2>3. CASE ~old.managed
    <3>1. ModeOf(new) = ModeOf(old) /\ SinceOf(new) = SinceOf(old)
      BY <2>1, <2>3 DEF ModeOf, SinceOf
    <3> QED
      BY <1>1, <2>1, <3>1, StutterStep
  <2> QED
    BY <1>2, <2>2, <2>3
<1> QED
  BY <1>1, <1>3, <1>4, <1>5 DEF State

(* Time passes for the abstract node as it does for the stored one.        *)
LEMMA TickImplements == ASSUME Inv, Tick PROVE Isolation!Tick
<1>1. \A n \in Node : /\ node'[n] = Aged(node[n], 1)
                      /\ evidence'[n].unhealthy = Capped(evidence[n].unhealthy + 1)
  BY DEF Tick
<1>2. \A n \in Node : node[n] \in NodeRecord /\ evidence[n].unhealthy \in Age
  BY DEF Inv, TypeOK
<1>3. 1 \in Age
  BY RecoveryWindowAssumption DEF Age
<1>4. \A n \in Node : /\ node'[n].state = node[n].state
                      /\ node'[n].managed = node[n].managed
                      /\ node'[n].startedAge = Older(node[n].startedAge, 1)
  BY <1>1, <1>2, <1>3, AgedFacts
<1>5. \A n \in Node : node[n].state = "recovering" =>
                        node[n].startedAge \in Age
  BY <1>2 DEF Inv, NodesInv, RecoveryIsContinuous, NodeRecord, MaybeAge
<1>6. \A k \in Age : /\ Capped(k + 1) = Isolation!OneOlder(k)
                     /\ Older(k, 1) = Isolation!OneOlder(k)
  BY RecoveryWindowAssumption DEF Capped, Older, Age, NoTime, Isolation!OneOlder
<1>7. \A n \in Node :
        /\ ModeOf(node'[n]) = ModeOf(node[n])
        /\ SinceOf(node'[n]) = IF ModeOf(node[n]) = "confirming"
                               THEN Isolation!OneOlder(SinceOf(node[n]))
                               ELSE SinceOf(node[n])
        /\ evidence'[n].unhealthy = Isolation!OneOlder(evidence[n].unhealthy)
  BY <1>1, <1>2, <1>4, <1>5, <1>6 DEF ModeOf, SinceOf
<1> QED
  BY <1>7 DEF Isolation!Tick, ModeOf, SinceOf

(* Every step of the controller model is an abstract step or a stutter.    *)
LEMMA NextImplements ==
  ASSUME Inv, [Next]_vars
  PROVE  [Isolation!Next]_(Isolation!vars)
<1>1. ASSUME NEW c \in Controller, UpdateSucceeds(c)
      PROVE  Isolation!Next \/ UNCHANGED Isolation!vars
  BY <1>1, UpdateImplements
<1>2. ASSUME NEW n \in Node, NEW o \in NodeRecord, AnotherWrites(n, o)
      PROVE  UNCHANGED Isolation!vars
  <2>1. \A m \in Node : /\ ModeOf(node'[m]) = ModeOf(node[m])
                        /\ SinceOf(node'[m]) = SinceOf(node[m])
                        /\ evidence'[m].unhealthy = evidence[m].unhealthy
    BY <1>2 DEF AnotherWrites, ForeignWrite, Inv, TypeOK, ModeOf, SinceOf
  <2> QED
    BY <2>1, StutterStep
<1>3. CASE Tick
  BY <1>3, TickImplements DEF Isolation!Next
<1>4. CASE UNCHANGED apiVars
  BY <1>4 DEF apiVars, Isolation!vars
<1> QED
  BY <1>1, <1>2, <1>3, <1>4, StepCases DEF Inv

(* The reconcilers, with their caches, conflicts and crashes, implement    *)
(* the abstract isolation (ImplementsNodeIsolation).                       *)
THEOREM Implementation == Spec => ImplementsNodeIsolation
BY InitImplements, NextImplements, Invariance, PTL
   DEF Spec, ImplementsNodeIsolation, Isolation!Spec
=============================================================================

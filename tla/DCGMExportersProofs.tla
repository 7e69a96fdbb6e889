------------------------- MODULE DCGMExportersProofs -------------------------
(***************************************************************************)
(* DCGM.Observe against any number of exporters on any number of nodes: a  *)
(* healthy answer is about the node that was asked, and about the last XID *)
(* put there.  EvaluateXIDMetrics is also treated for any number of GPUs.  *)
(***************************************************************************)
EXTENDS DCGMExporters, XIDLoop, TLAPS, WellFoundedInduction

-----------------------------------------------------------------------------
(* One scrape. *)
(* If any sample decides, FirstDecisive is the first that does.            *)
LEMMA FirstDecisiveIsFirst ==
  ASSUME NEW samples \in Seq(Sample),
         \E i \in DOMAIN samples : Decisive(samples[i])
  PROVE  LET f == FirstDecisive(samples) IN
         /\ f \in DOMAIN samples
         /\ Decisive(samples[f])
         /\ \A j \in DOMAIN samples : Decisive(samples[j]) => f <= j
<1> DEFINE Deciding == {i \in DOMAIN samples : Decisive(samples[i])}
<1>1. Deciding \subseteq Nat /\ Deciding # {}
  OBVIOUS
<1>2. PICK f \in Deciding : \A j \in Deciding : <<j, f>> \notin OpToRel(<, Nat)
  BY <1>1, NatLessThanWellFounded, WFMin
<1>3. \A j \in Deciding : f <= j
  <2> SUFFICES ASSUME NEW j \in Deciding, j < f PROVE FALSE
    BY <1>1
  <2>1. <<j, f>> \in OpToRel(<, Nat)
    BY <1>1 DEF OpToRel
  <2> QED
    BY <1>2, <2>1
<1> QED
  BY <1>3 DEF FirstDecisive

(* A scrape is healthy only if it has samples and every one of them is     *)
(* XID 0: a missing value or an unclassified XID never clears a node.      *)
THEOREM HealthyMeansClear ==
  ASSUME NEW samples \in Seq(Sample), EvaluateXIDMetrics(samples) = "healthy"
  PROVE  samples # <<>> /\ \A i \in DOMAIN samples : samples[i] = ClearXID
<1>1. samples # <<>> /\ \A i \in DOMAIN samples : ~Decisive(samples[i])
  BY DEF EvaluateXIDMetrics
<1>2. \A i \in DOMAIN samples : Classified(samples[i])
  BY <1>1 DEF EvaluateXIDMetrics
<1> QED
  BY <1>1, <1>2 DEF Classified, Decisive

(* Where every sample has a value, a scrape is degraded exactly if some    *)
(* GPU reports a critical XID, whatever the others report and in whatever  *)
(* order the exporter lists them.                                          *)
THEOREM CriticalMeansDegraded ==
  ASSUME NEW samples \in Seq(Sample),
         \A i \in DOMAIN samples : samples[i] # NoValue
  PROVE  EvaluateXIDMetrics(samples) = "degraded"
           <=> \E i \in DOMAIN samples : samples[i] \in DegradedXID
<1>1. \A i \in DOMAIN samples : Decisive(samples[i]) <=> samples[i] \in DegradedXID
  BY DEF Decisive
<1>2. CASE \E i \in DOMAIN samples : Decisive(samples[i])
  <2>1. samples[FirstDecisive(samples)] # NoValue /\ samples # <<>>
    BY <1>2, FirstDecisiveIsFirst
  <2> QED
    BY <1>1, <1>2, <2>1 DEF EvaluateXIDMetrics
<1>3. CASE ~\E i \in DOMAIN samples : Decisive(samples[i])
  BY <1>1, <1>3 DEF EvaluateXIDMetrics
<1> QED
  BY <1>2, <1>3

-----------------------------------------------------------------------------
(* The loop of EvaluateXIDMetrics. *)

(* While the loop runs, no sample it has passed decides, and unclassified  *)
(* is not empty exactly if the table does not know one of them.            *)
Passed ==
  verdict = "evaluating" =>
    /\ family # <<>>
    /\ \A i \in 1 .. next - 1 : ~Decisive(family[i])
    /\ unclassified <=> \E i \in 1 .. next - 1 : ~Classified(family[i])

LoopInv == LoopTypeOK /\ Passed /\ EvaluatesLikeTheLoop

(* A sample that decides after samples that do not is the first to decide. *)
LEMMA DecidesHere ==
  ASSUME LoopInv, InLoop, Decisive(family[next])
  PROVE  /\ FirstDecisive(family) = next
         /\ EvaluateXIDMetrics(family)
              = IF family[next] = NoValue THEN "unknown" ELSE "degraded"
<1>1. family \in Seq(Sample) /\ next \in DOMAIN family
  BY DEF LoopInv, LoopTypeOK, InLoop
<1>2. FirstDecisive(family) = next
  <2>1. LET f == FirstDecisive(family) IN
        /\ f \in DOMAIN family /\ Decisive(family[f])
        /\ \A j \in DOMAIN family : Decisive(family[j]) => f <= j
    BY <1>1, FirstDecisiveIsFirst
  <2>2. FirstDecisive(family) \notin 1 .. next - 1
    BY <2>1 DEF LoopInv, Passed, InLoop
  <2> QED
    BY <1>1, <2>1, <2>2
<1> QED
  BY <1>1, <1>2 DEF EvaluateXIDMetrics

(* A sample that does not decide is passed. *)
LEMMA ContinueInv ==
  ASSUME LoopInv, ContinueUnclassified \/ ContinueClear
  PROVE  LoopInv'
<1>1. /\ InLoop /\ next' = next + 1 /\ family' = family /\ verdict' = verdict
      /\ ~Decisive(family[next])
      /\ unclassified' <=> unclassified \/ ~Classified(family[next])
  BY DEF ContinueUnclassified, ContinueClear, InLoop, Decisive, Classified,
         ClearXID, DegradedXID, NoValue
<1>2. LoopTypeOK'
  <2>1. next' \in 1 .. Len(family') + 1
    BY <1>1 DEF LoopInv, LoopTypeOK, InLoop
  <2>2. unclassified' \in BOOLEAN
    BY DEF LoopInv, LoopTypeOK, ContinueUnclassified, ContinueClear
  <2> QED
    BY <1>1, <2>1, <2>2 DEF LoopInv, LoopTypeOK
<1>3. next \in Nat /\ 1 .. next' - 1 = (1 .. next - 1) \cup {next}
  BY <1>1 DEF LoopInv, LoopTypeOK
<1>4. Passed'
  BY <1>1, <1>3 DEF LoopInv, Passed, InLoop
<1> QED
  BY <1>1, <1>2, <1>4 DEF LoopInv, InLoop, EvaluatesLikeTheLoop

LEMMA LoopNextInv == LoopInv /\ [LoopNext]_loopVars => LoopInv'
<1> SUFFICES ASSUME LoopInv, [LoopNext]_loopVars PROVE LoopInv'
  OBVIOUS
<1>1. ASSUME NEW s \in Family, Parse(s) PROVE LoopInv'
  <2>1. s \in Seq(Sample) /\ family' = s /\ next' = 1 /\ unclassified' = FALSE
        /\ verdict' = IF s = <<>> THEN "unknown" ELSE "evaluating"
    BY <1>1, FamilyAssumption DEF Parse
  <2>2. LoopTypeOK'
    <3>1. Len(s) \in Nat /\ 1 \in 1 .. Len(s) + 1
      BY <2>1
    <3>2. verdict' \in {"unknown", "evaluating"} /\ unclassified' \in BOOLEAN
      BY <2>1
    <3> QED
      BY <2>1, <3>1, <3>2 DEF LoopTypeOK
  <2>3. Passed'
    BY <2>1 DEF Passed
  <2>4. EvaluatesLikeTheLoop'
    BY <2>1 DEF EvaluatesLikeTheLoop, EvaluateXIDMetrics
  <2> QED
    BY <2>2, <2>3, <2>4 DEF LoopInv
<1>2. CASE ContinueUnclassified \/ ContinueClear
  BY <1>2, ContinueInv
<1>3. CASE NoNumericValue \/ ReturnDegraded
  <2>1. InLoop /\ UNCHANGED <<family, next, unclassified>>
        /\ Decisive(family[next])
        /\ verdict' = IF family[next] = NoValue THEN "unknown" ELSE "degraded"
    BY <1>3 DEF NoNumericValue, ReturnDegraded, InLoop, Decisive, NoValue, DegradedXID
  <2>2. verdict' = EvaluateXIDMetrics(family)
    BY <2>1, DecidesHere
  <2> QED
    BY <2>1, <2>2 DEF LoopInv, LoopTypeOK, Passed, EvaluatesLikeTheLoop
<1>4. CASE AfterLoop
  <2>1. /\ UNCHANGED <<family, next, unclassified>>
        /\ verdict' = IF unclassified THEN "unknown" ELSE "healthy"
    BY <1>4 DEF AfterLoop
  <2>2. DOMAIN family = 1 .. next - 1
    BY <1>4 DEF AfterLoop, LoopInv, LoopTypeOK
  <2>3. verdict' = EvaluateXIDMetrics(family)
    BY <1>4, <2>1, <2>2 DEF AfterLoop, LoopInv, Passed, EvaluateXIDMetrics
  <2> QED
    BY <2>1, <2>3 DEF LoopInv, LoopTypeOK, Passed, EvaluatesLikeTheLoop
<1>5. CASE UNCHANGED loopVars
  BY <1>5 DEF loopVars, LoopInv, LoopTypeOK, Passed, EvaluatesLikeTheLoop
<1> QED
  BY <1>1, <1>2, <1>3, <1>4, <1>5 DEF LoopNext

(* What EvaluateXIDMetrics says of a whole scrape is what its loop returns *)
(* after any number of samples (EvaluatesLikeTheLoop).                     *)
THEOREM LoopEvaluates == LoopSpec => []EvaluatesLikeTheLoop
<1>1. LoopInit => LoopInv
  <2> SUFFICES ASSUME LoopInit PROVE LoopInv
    OBVIOUS
  <2>1. LoopTypeOK
    <3>1. <<>> \in Seq(Sample) /\ Len(<<>>) = 0 /\ 1 \in 1 .. 0 + 1
      OBVIOUS
    <3>2. unclassified \in BOOLEAN
      BY DEF LoopInit
    <3> QED
      BY <3>1, <3>2 DEF LoopInit, LoopTypeOK
  <2>2. Passed
    BY DEF LoopInit, Passed
  <2>3. EvaluatesLikeTheLoop
    BY DEF LoopInit, EvaluatesLikeTheLoop, EvaluateXIDMetrics
  <2> QED
    BY <2>1, <2>2, <2>3 DEF LoopInv
<1>2. LoopInv => EvaluatesLikeTheLoop
  BY DEF LoopInv
<1> QED
  BY <1>1, <1>2, LoopNextInv, PTL DEF LoopSpec

-----------------------------------------------------------------------------
(* The exporters. *)

(* The first of the eligible pods by name. *)
LEMMA FirstByName ==
  ASSUME NEW S \in SUBSET Nat, S # {}
  PROVE  Min(S) \in S
<1>1. PICK m \in S : \A e \in S : <<e, m>> \notin OpToRel(<, Nat)
  BY NatLessThanWellFounded, WFMin
<1>2. ASSUME NEW e \in S PROVE m =< e
  <2>1. e \in Nat /\ m \in Nat /\ ~(e < m)
    BY <1>1, <1>2 DEF OpToRel
  <2> QED
    BY <2>1
<1> QED
  BY <1>2 DEF Min

LEMMA HomeType ==
  TypeOK => /\ DOMAIN home \subseteq Exporter
            /\ home \in [DOMAIN home -> Node]
BY DEF TypeOK

(* A node has one exporter pod; the pod an Observe of a node is about to   *)
(* scrape is, if it still exists, the node's; and a simulator reports the  *)
(* last XID put on its node, or nothing since its container started or was *)
(* cleared.                                                                *)
OnePerNode == \A e, f \in DOMAIN home : home[e] = home[f] => e = f
ChosenAtHome == \A n \in Node : chosen[n] \in DOMAIN home => home[chosen[n]] = n
ReportsLastPut == \A e \in serving : xid[e] \in {NoValue, lastPut[home[e]]}

Inv == TypeOK /\ OnePerNode /\ ChosenAtHome /\ ReportsLastPut

LEMMA InitInv == Init => Inv
<1> SUFFICES ASSUME Init PROVE Inv
  OBVIOUS
<1>1. DOMAIN home = {} /\ home \in [{} -> Node]
  BY DEF Init
<1>2. TypeOK
  BY <1>1 DEF Init, TypeOK
<1> QED
  BY <1>1, <1>2 DEF Init, Inv, OnePerNode, ChosenAtHome, ReportsLastPut

(* What the simulator stores. *)
LEMMA PutInv ==
  ASSUME Inv, NEW e \in Exporter, NEW x \in XID, Put(e, x)
  PROVE  Inv'
<1>1. /\ UNCHANGED <<podVars, chosen, answer>>
      /\ e \in serving /\ e \in DOMAIN home /\ home[e] \in Node
  BY HomeType DEF Put, Inv, TypeOK
<1>2. CASE x \in AcceptedXID
  <2>1. /\ xid' = [xid EXCEPT ![e] = x]
        /\ lastPut' = [lastPut EXCEPT ![home[e]] = x]
    BY <1>2 DEF Put
  <2>2. TypeOK'
    BY <1>1, <1>2, <2>1 DEF Inv, TypeOK, podVars
  <2>3. ReportsLastPut'
    <3> SUFFICES ASSUME NEW f \in serving
                 PROVE  xid'[f] \in {NoValue, lastPut'[home[f]]}
      BY <1>1 DEF ReportsLastPut, podVars
    <3>1. f \in DOMAIN home /\ f \in Exporter /\ home[f] \in Node
      BY HomeType DEF Inv, TypeOK
    <3>2. CASE f = e
      BY <1>1, <2>1, <3>1, <3>2 DEF Inv, TypeOK
    <3>3. CASE f # e
      <4>1. home[f] # home[e]
        BY <1>1, <3>1, <3>3 DEF Inv, OnePerNode
      <4>2. xid'[f] = xid[f] /\ lastPut'[home[f]] = lastPut[home[f]]
        BY <2>1, <3>1, <3>3, <4>1 DEF Inv, TypeOK
      <4> QED
        BY <4>2 DEF Inv, ReportsLastPut
    <3> QED
      BY <3>2, <3>3
  <2> QED
    BY <1>1, <2>2, <2>3 DEF Inv, OnePerNode, ChosenAtHome, podVars
<1>3. CASE x \notin AcceptedXID
  BY <1>1, <1>3
  DEF Put, Inv, TypeOK, OnePerNode, ChosenAtHome, ReportsLastPut, podVars
<1> QED
  BY <1>2, <1>3

(* A new pod serves nothing yet, and no Observe holds its name. *)
LEMMA CreatePodInv ==
  ASSUME Inv, NEW e \in Exporter, NEW n \in Node, CreatePod(e, n)
  PROVE  Inv'
<1>1. /\ DOMAIN home \subseteq Exporter /\ home \in [DOMAIN home -> Node]
      /\ e \notin DOMAIN home
      /\ DOMAIN home' = DOMAIN home \cup {e}
      /\ home'[e] = n /\ \A f \in DOMAIN home : home'[f] = home[f]
      /\ UNCHANGED <<serving, ready, xid, chosen, answer, lastPut>>
  BY HomeType DEF CreatePod, Inv
<1>2. home' \in [DOMAIN home \cup {e} -> Node]
  BY <1>1 DEF CreatePod
<1>3. TypeOK'
  BY <1>1, <1>2 DEF Inv, TypeOK
<1>4. OnePerNode'
  BY <1>1 DEF CreatePod, Inv, OnePerNode
<1>5. ChosenAtHome'
  BY <1>1 DEF CreatePod, Inv, ChosenAtHome
<1>6. ReportsLastPut'
  BY <1>1 DEF Inv, TypeOK, ReportsLastPut
<1> QED
  BY <1>3, <1>4, <1>5, <1>6 DEF Inv

LEMMA DeletePodInv ==
  ASSUME Inv, NEW e \in Exporter, DeletePod(e)
  PROVE  Inv'
<1>1. /\ DOMAIN home \subseteq Exporter /\ home \in [DOMAIN home -> Node]
      /\ DOMAIN home' = DOMAIN home \ {e}
      /\ \A f \in DOMAIN home' : home'[f] = home[f]
      /\ serving' = serving \ {e} /\ ready' = ready \ {e}
      /\ UNCHANGED <<xid, chosen, answer, lastPut>>
  BY HomeType DEF DeletePod, Inv
<1>2. home' \in [DOMAIN home \ {e} -> Node]
  BY <1>1 DEF DeletePod
<1>3. TypeOK'
  BY <1>1, <1>2 DEF Inv, TypeOK
<1>4. OnePerNode' /\ ChosenAtHome'
  BY <1>1 DEF Inv, OnePerNode, ChosenAtHome
<1>5. ReportsLastPut'
  BY <1>1, <1>3 DEF Inv, TypeOK, ReportsLastPut
<1> QED
  BY <1>3, <1>4, <1>5 DEF Inv

(* An Observe takes a pod of its own node. *)
LEMMA ChooseInv ==
  ASSUME Inv, NEW n \in Node, Choose(n)
  PROVE  Inv'
<1>1. UNCHANGED <<podVars, xid, lastPut>>
  BY DEF Choose
<1>2. CASE Eligible(n) = {}
  <2>1. /\ answer' = [answer EXCEPT ![n] = "unknown"]
        /\ chosen' = [chosen EXCEPT ![n] = NoExporter]
    BY <1>2 DEF Choose, Return, Unanswered
  <2>2. chosen' = chosen
    BY <2>1 DEF Choose, Inv, TypeOK
  <2> QED
    BY <1>1, <2>1, <2>2
    DEF Inv, TypeOK, OnePerNode, ChosenAtHome, ReportsLastPut, podVars
<1>3. CASE Eligible(n) # {}
  <2>1. Min(Eligible(n)) \in Eligible(n)
    <3>1. Eligible(n) \subseteq Nat
      BY HomeType, ExporterAssumption DEF Inv, TypeOK, Eligible
    <3> QED
      BY <1>3, <3>1, FirstByName
  <2>2. /\ Min(Eligible(n)) \in Exporter /\ home[Min(Eligible(n))] = n
        /\ chosen' = [chosen EXCEPT ![n] = Min(Eligible(n))] /\ answer' = answer
    BY <1>3, <2>1, HomeType DEF Choose, Inv, TypeOK, Eligible
  <2> QED
    BY <1>1, <2>2
    DEF Inv, TypeOK, OnePerNode, ChosenAtHome, ReportsLastPut, podVars
<1> QED
  BY <1>2, <1>3

(* Whatever it answers, it then holds no pod. *)
LEMMA ReturnInv ==
  ASSUME Inv, NEW n \in Node, NEW state \in {"healthy", "degraded", "unknown"},
         Return(n, state), UNCHANGED <<podVars, xid, lastPut>>
  PROVE  Inv'
<1>1. NoExporter \notin DOMAIN home
  BY HomeType, ExporterAssumption DEF Inv, NoExporter
<1>2. TypeOK'
  BY DEF Return, Inv, TypeOK, podVars
<1>3. ChosenAtHome'
  BY <1>1 DEF Return, Inv, TypeOK, ChosenAtHome, podVars
<1> QED
  BY <1>2, <1>3 DEF Inv, OnePerNode, ReportsLastPut, podVars

LEMMA EvaluatesToState ==
  ASSUME NEW samples
  PROVE  EvaluateXIDMetrics(samples) \in {"healthy", "degraded", "unknown"}
BY DEF EvaluateXIDMetrics

LEMMA NextInv == Inv /\ [Next]_vars => Inv'
<1> SUFFICES ASSUME Inv, [Next]_vars PROVE Inv'
  OBVIOUS
<1>1. ASSUME NEW e \in Exporter, NEW x \in XID, Put(e, x) PROVE Inv'
  BY <1>1, PutInv
<1>2. ASSUME NEW e \in Exporter, NEW n \in Node, CreatePod(e, n) PROVE Inv'
  BY <1>2, CreatePodInv
<1>3. ASSUME NEW e \in Exporter, Clear(e) \/ StartContainer(e) PROVE Inv'
  <2>1. /\ UNCHANGED <<home, ready, chosen, answer, lastPut>>
        /\ serving' \in {serving, serving \cup {e}} /\ e \in DOMAIN home
        /\ xid' = [xid EXCEPT ![e] = NoValue]
    BY <1>3 DEF Clear, StartContainer, podVars, Inv, TypeOK
  <2> QED
    BY <2>1, HomeType
    DEF Inv, TypeOK, OnePerNode, ChosenAtHome, ReportsLastPut
<1>4. ASSUME NEW e \in Exporter,
             StopContainer(e) \/ \E ok \in BOOLEAN : ProbeResult(e, ok)
      PROVE  Inv'
  BY <1>4
  DEF StopContainer, ProbeResult, Inv, TypeOK, OnePerNode, ChosenAtHome,
      ReportsLastPut
<1>5. ASSUME NEW e \in Exporter, DeletePod(e) PROVE Inv'
  BY <1>5, DeletePodInv
<1>6. ASSUME NEW n \in Node, Choose(n) PROVE Inv'
  BY <1>6, ChooseInv
<1>7. ASSUME NEW n \in Node, ListFails(n) \/ ScrapeFails(n) PROVE Inv'
  BY <1>7, ReturnInv DEF ListFails, ScrapeFails, Unanswered
<1>8. ASSUME NEW n \in Node, Scrape(n) PROVE Inv'
  BY <1>8, ReturnInv, EvaluatesToState DEF Scrape
<1>9. CASE UNCHANGED vars
  BY <1>9
  DEF vars, podVars, Inv, TypeOK, OnePerNode, ChosenAtHome, ReportsLastPut
<1> QED
  BY <1>1, <1>2, <1>3, <1>4, <1>5, <1>6, <1>7, <1>8, <1>9 DEF Next

LEMMA ExportersInvariance == Spec => []Inv
BY InitInv, NextInv, PTL DEF Spec

(* Every variable keeps its type: a simulator never stores a value it      *)
(* should have refused, and only pods that serve are ready.                *)
THEOREM ExporterTypes == Spec => []TypeOK
<1>1. Inv => TypeOK
  BY DEF Inv
<1> QED
  BY <1>1, ExportersInvariance, PTL

(* A scrape is healthy only if the simulator reports XID 0, and then 0 is  *)
(* the last XID put on the node.                                           *)
LEMMA HealthyScrape ==
  ASSUME Inv, NEW n \in Node, Scrape(n), answer'[n] = "healthy"
  PROVE  lastPut[n] = 0
<1> DEFINE e == chosen[n]
           x == xid[e]
<1>1. e \in serving /\ e \in Exporter /\ e \in DOMAIN home /\ x \in AcceptedXID \cup {NoValue}
  BY HomeType DEF Scrape, Inv, TypeOK
<1>2. EvaluateXIDMetrics(RenderMetrics(x)) = "healthy"
  BY DEF Scrape, Return, Inv, TypeOK
<1>3. RenderMetrics(x) \in Seq(Sample)
  <2>1. x \in Sample
    <3>1. AcceptedXID \subseteq Nat
      BY DEF AcceptedXID
    <3> QED
      BY <1>1, <3>1 DEF Sample
  <2>2. <<x>> \in Seq(Sample) /\ <<>> \in Seq(Sample)
    BY <2>1
  <2> QED
    BY <2>2 DEF RenderMetrics
<1>4. /\ RenderMetrics(x) # <<>>
      /\ \A i \in DOMAIN RenderMetrics(x) : RenderMetrics(x)[i] = ClearXID
  BY <1>2, <1>3, HealthyMeansClear
<1>5. x = 0
  BY <1>4 DEF RenderMetrics, ClearXID
<1>6. home[e] = n /\ x \in {NoValue, lastPut[home[e]]}
  BY <1>1 DEF Inv, ChosenAtHome, ReportsLastPut
<1> QED
  BY <1>5, <1>6 DEF NoValue

(* Neither a restart, a replaced or unready pod, a DELETE nor an answer    *)
(* from a pod chosen earlier turns a fault into a healthy answer           *)
(* (HealthyOnlyAfterExplicitClear).                                        *)
THEOREM HealthyNeedsClear == Spec => HealthyOnlyAfterExplicitClear
<1>1. ASSUME Inv, [Next]_vars, NEW n \in Node,
             chosen[n] # NoExporter, chosen'[n] = NoExporter, answer'[n] = "healthy"
      PROVE  lastPut[n] = 0
  <2>1. chosen' # chosen
    BY <1>1
  <2>2. PICK m \in Node : Choose(m) \/ ListFails(m) \/ Scrape(m) \/ ScrapeFails(m)
    BY <1>1, <2>1
    DEF Next, Put, Clear, CreatePod, StartContainer, StopContainer, ProbeResult,
        DeletePod, vars
  <2>3. CASE m # n
    <3>1. PICK e : chosen' = [chosen EXCEPT ![m] = e]
      BY <2>2 DEF Choose, ListFails, Scrape, ScrapeFails, Return
    <3>2. chosen'[n] = chosen[n]
      BY <2>3, <3>1 DEF Inv, TypeOK
    <3> QED
      BY <1>1, <3>2
  <2>4. CASE m = n
    <3>1. ~Choose(n) /\ ~ListFails(n)
      BY <1>1 DEF Choose, ListFails
    <3>2. ~ScrapeFails(n)
      BY <1>1 DEF ScrapeFails, Return, Unanswered, Inv, TypeOK
    <3> QED
      BY <1>1, <2>2, <2>4, <3>1, <3>2, HealthyScrape
  <2> QED
    BY <2>3, <2>4
<1>2. Inv /\ [Next]_vars
        => [\A n \in Node :
              chosen[n] # NoExporter /\ chosen'[n] = NoExporter /\ answer'[n] = "healthy"
                => lastPut[n] = 0]_vars
  BY <1>1
<1> QED
  BY <1>2, ExportersInvariance, PTL DEF Spec, HealthyOnlyAfterExplicitClear
=============================================================================

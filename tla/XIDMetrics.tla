----------------------------- MODULE XIDMetrics -----------------------------
(***************************************************************************)
(* How one scrape of a node's DCGM exporter becomes a health state: the    *)
(* XID policy table and EvaluateXIDMetrics over the samples of the family  *)
(* DCGM_FI_DEV_XID_ERRORS, one per GPU, in the order they were parsed.     *)
(* A sample without a gauge, counter or untyped value is NoValue.          *)
(***************************************************************************)
EXTENDS Integers, Sequences

NoValue == -1

ClearXID == 0
DegradedXID == {31, 43, 62, 79}
Sample == Nat \cup {NoValue}

Classified(x) == x = ClearXID \/ x \in DegradedXID

(* The loop returns at the first sample that has no value or is degraded.  *)
Decisive(x) == x = NoValue \/ x \in DegradedXID

FirstDecisive(samples) ==
  CHOOSE i \in DOMAIN samples :
    /\ Decisive(samples[i])
    /\ \A j \in DOMAIN samples : Decisive(samples[j]) => i <= j

(* A slip: looking at the first GPU only.                                  *)
EvaluateFirstGPU(samples) ==
  CASE samples = <<>>            -> "unknown"
    [] samples[1] \in DegradedXID -> "degraded"
    [] samples[1] = ClearXID     -> "healthy"
    [] OTHER                     -> "unknown"

EvaluateXIDMetrics(samples) ==
  IF samples = <<>> THEN "unknown"
  ELSE IF \E i \in DOMAIN samples : Decisive(samples[i])
       THEN IF samples[FirstDecisive(samples)] = NoValue THEN "unknown"
                                                         ELSE "degraded"
  ELSE IF \A i \in DOMAIN samples : Classified(samples[i]) THEN "healthy"
                                                           ELSE "unknown"

(* A scrape that fails, is not 200 OK or does not parse is unknown too.    *)
Unanswered == "unknown"
=============================================================================

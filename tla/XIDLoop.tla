------------------------------ MODULE XIDLoop ------------------------------
(***************************************************************************)
(* The loop of EvaluateXIDMetrics as it is written, one sample a step, so  *)
(* that what XIDMetrics says of a whole scrape can be compared with it.    *)
(***************************************************************************)
EXTENDS XIDMetrics

CONSTANT Family    \* what family.Metric may be when a reader was parsed

ASSUME FamilyAssumption == Family \subseteq Seq(Sample)

VARIABLES
  family,          \* the samples; empty where the family is absent
  next,            \* the sample the loop is at
  unclassified,    \* whether any value was appended to unclassified
  verdict          \* the state returned, or "evaluating"

loopVars == <<family, next, unclassified, verdict>>

LoopTypeOK ==
  /\ family \in Seq(Sample)
  /\ next \in 1 .. Len(family) + 1
  /\ unclassified \in BOOLEAN
  /\ verdict \in {"evaluating", "unknown", "degraded", "healthy"}

(* Parse(<<>>) was just evaluated. *)
LoopInit ==
  /\ family = <<>>
  /\ next = 1
  /\ unclassified = FALSE
  /\ verdict = "unknown"

Parse(s) ==
  /\ verdict # "evaluating"
  /\ family' = s
  /\ next' = 1
  /\ unclassified' = FALSE
  /\ verdict' = IF s = <<>> THEN "unknown" ELSE "evaluating"

InLoop ==
  /\ verdict = "evaluating"
  /\ next <= Len(family)
  /\ UNCHANGED family

NoNumericValue ==
  /\ InLoop
  /\ family[next] = NoValue
  /\ verdict' = "unknown"
  /\ UNCHANGED <<next, unclassified>>

(* A slip: returning at the first value the table does not know.           *)
ReturnUnclassified ==
  /\ InLoop
  /\ family[next] # NoValue /\ ~Classified(family[next])
  /\ verdict' = "unknown"
  /\ UNCHANGED <<next, unclassified>>

ContinueUnclassified ==
  /\ InLoop
  /\ family[next] # NoValue /\ ~Classified(family[next])
  /\ unclassified' = TRUE
  /\ next' = next + 1
  /\ UNCHANGED verdict

ReturnDegraded ==
  /\ InLoop
  /\ family[next] \in DegradedXID
  /\ verdict' = "degraded"
  /\ UNCHANGED <<next, unclassified>>

ContinueClear ==
  /\ InLoop
  /\ family[next] = ClearXID
  /\ next' = next + 1
  /\ UNCHANGED <<unclassified, verdict>>

AfterLoop ==
  /\ verdict = "evaluating"
  /\ next > Len(family)
  /\ verdict' = IF unclassified THEN "unknown" ELSE "healthy"
  /\ UNCHANGED <<family, next, unclassified>>

LoopNext ==
  \/ \E s \in Family : Parse(s)
  \/ NoNumericValue \/ ContinueUnclassified \/ ReturnDegraded \/ ContinueClear
  \/ AfterLoop

LoopSpec == LoopInit /\ [][LoopNext]_loopVars

-----------------------------------------------------------------------------
(* What the loop returns is what EvaluateXIDMetrics, as the other modules  *)
(* use it, says of the whole scrape: of several GPUs a critical XID is not *)
(* hidden by unclassified ones before or after it, and only a missing      *)
(* value met earlier is.                                                   *)
EvaluatesLikeTheLoop ==
  verdict # "evaluating" => verdict = EvaluateXIDMetrics(family)
=============================================================================

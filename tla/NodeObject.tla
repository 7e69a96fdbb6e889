----------------------------- MODULE NodeObject -----------------------------
(***************************************************************************)
(* The part of a Kubernetes Node object that the controller reads and      *)
(* writes, and the mutations Reconcile applies to its copy of it.          *)
(*                                                                         *)
(* "taint" says whether the exact degraded taint is on the node and who    *)
(* put it there.  The code sees only whether it is there; no operator      *)
(* below looks at who put it, that is kept for the properties.             *)
(***************************************************************************)
EXTENDS HealthPolicy

CONSTANT Confirmation   \* parsable values of the recovery-confirmed-at annotation

ASSUME ConfirmationAssumption ==
  Confirmation \cap {"absent", "invalid", "never", "clock"} = {}

NodeRecord ==
  [ state        : State \cup {"absent"},            \* health-state
    managed      : BOOLEAN,                          \* node-health-managed
    startedAge   : MaybeAge,                         \* recovery-started-at
    observedAt   : Confirmation \cup {"never", "clock"},  \* health-observed-at
    fault        : BOOLEAN,                          \* injected-fault
    confirmation : Confirmation \cup {"absent", "invalid"},
    taint        : {"none", "controller", "other"} ]

NewNode ==
  [ state |-> "absent", managed |-> FALSE, startedAge |-> NoTime,
    observedAt |-> "never", fault |-> FALSE, confirmation |-> "absent",
    taint |-> "none" ]

Tainted(o) == o.taint # "none"

(* The object as it is k ticks later, if nobody writes it. *)
Aged(o, k) == [o EXCEPT !.startedAge = Older(@, k)]

(***************************************************************************)
(* The annotation source: what it observes on a copy of the node, and the  *)
(* time it reports.  "clock" is the source's own reading of the clock; a   *)
(* confirmed recovery carries the confirmation's time instead.             *)
(***************************************************************************)
(* A slip: any text in the confirmation counts.                            *)
AnnotationStateLenient(o) ==
  IF o.fault THEN "degraded"
  ELSE IF o.confirmation # "absent" THEN "healthy" ELSE "unknown"

AnnotationState(o) ==
  IF o.fault THEN "degraded"
  ELSE IF o.confirmation \in Confirmation THEN "healthy" ELSE "unknown"

(* A slip: the time is taken from the confirmation before it is parsed.    *)
AnnotationTimeUnchecked(o) ==
  IF ~o.fault /\ o.confirmation # "absent" THEN o.confirmation ELSE "clock"

AnnotationTime(o) ==
  IF AnnotationState(o) = "healthy" THEN o.confirmation ELSE "clock"

(***************************************************************************)
(* A reconcile's mutations.                                                *)
(***************************************************************************)
ApplyHealthAnnotations(o, decision, at) ==
  [o EXCEPT !.state = decision.state,
            !.startedAge = decision.startedAge,
            !.observedAt = at]

(* Slips: claiming a taint that is already there; recording the claim      *)
(* without adding the taint; removing the taint without owning it.         *)
IsolateNodeClaiming(o) ==
  IF Tainted(o) THEN [o EXCEPT !.managed = TRUE]
  ELSE [o EXCEPT !.taint = "controller", !.managed = TRUE]

IsolateNodeMarkOnly(o) == [o EXCEPT !.managed = TRUE]

RecoverNodeUnowned(o) == [o EXCEPT !.taint = "none", !.managed = FALSE]

(* A pre-existing taint is left alone and not claimed. *)
IsolateNode(o) ==
  IF Tainted(o) THEN o ELSE [o EXCEPT !.taint = "controller", !.managed = TRUE]

(* Only the owner of the marker removes the taint, whoever put it there. *)
RecoverNode(o) ==
  IF o.managed THEN [o EXCEPT !.taint = "none", !.managed = FALSE] ELSE o

DecisionFor(o, observed) ==
  DecideIsolation(ParseState(o.state), o.managed, o.startedAge, observed)

Reconciled(o, observed, at) ==
  LET decision == DecisionFor(o, observed)
      noted    == ApplyHealthAnnotations(o, decision, at)
  IN  IF decision.isolate THEN IsolateNode(noted) ELSE RecoverNode(noted)

(* A fresh clock reading never equals the recorded one, so it is a change. *)
Changed(o, observed, at) == at = "clock" \/ Reconciled(o, observed, at) # o
=============================================================================

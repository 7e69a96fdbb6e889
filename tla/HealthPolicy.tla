---------------------------- MODULE HealthPolicy ----------------------------
(***************************************************************************)
(* The isolation policy of internal/health: the health states, what a     *)
(* persisted state string stands for, and the decision the policy takes   *)
(* from the previous state and one observation.                           *)
(*                                                                         *)
(* The code compares two wall-clock readings, now and recoveryStartedAt,  *)
(* and only through now - recoveryStartedAt >= recoveryWindow.  The model  *)
(* keeps that difference: the age of the recorded recovery start, capped   *)
(* at the window, where it has all the effect it will ever have.           *)
(***************************************************************************)
EXTENDS Integers

CONSTANT RecoveryWindow   \* continuous healthy time required, in clock ticks

ASSUME RecoveryWindowAssumption == RecoveryWindow \in Nat \ {0}

State == {"healthy", "degraded", "recovering", "unknown"}

(* An age is capped at the window; NoTime is the absent recoveryStartedAt. *)
Age == 0 .. RecoveryWindow
NoTime == -1
MaybeAge == Age \cup {NoTime}

Capped(k) == IF k < RecoveryWindow THEN k ELSE RecoveryWindow
Older(age, k) == IF age = NoTime THEN NoTime ELSE Capped(age + k)

(* Decision is Go's IsolationDecision. *)
Decision == [state : State, isolate : BOOLEAN, startedAge : MaybeAge]
Decide(s, isolate, age) == [state |-> s, isolate |-> isolate, startedAge |-> age]

(* A missing or unrecognized persisted state reads as unknown. *)
ParseState(value) == IF value \in State THEN value ELSE "unknown"

ContinueRecovery(startedAge) ==
  Decide("recovering", TRUE, IF startedAge = NoTime THEN 0 ELSE startedAge)

(* Slips the checks must notice: recovery on the first healthy answer, one *)
(* tick early, and with the window restarted by every healthy answer.      *)
DecideRecoveryUnconfirmed(previous, isolated, startedAge) ==
  Decide("healthy", FALSE, NoTime)

DecideRecoveryEarly(previous, isolated, startedAge) ==
  IF ~isolated THEN Decide("healthy", FALSE, NoTime)
  ELSE IF previous = "recovering" /\ startedAge >= RecoveryWindow - 1
       THEN Decide("healthy", FALSE, NoTime)
       ELSE ContinueRecovery(startedAge)

DecideRecoveryRestarting(previous, isolated, startedAge) ==
  IF ~isolated \/ (previous = "recovering" /\ startedAge >= RecoveryWindow)
  THEN Decide("healthy", FALSE, NoTime)
  ELSE ContinueRecovery(NoTime)

DecideRecovery(previous, isolated, startedAge) ==
  IF ~isolated THEN Decide("healthy", FALSE, NoTime)
  ELSE IF previous = "recovering" /\ startedAge # NoTime
       THEN IF startedAge >= RecoveryWindow
            THEN Decide("healthy", FALSE, NoTime)
            ELSE Decide("recovering", TRUE, startedAge)
       ELSE ContinueRecovery(NoTime)

(* Slips: an unknown answer releases; a degraded one only keeps isolation. *)
DecideIsolationUnknownReleases(previous, isolated, startedAge, observed) ==
  CASE observed = "degraded"   -> Decide("degraded", TRUE, NoTime)
    [] observed = "recovering" -> ContinueRecovery(startedAge)
    [] observed = "healthy"    -> DecideRecovery(previous, isolated, startedAge)
    [] OTHER                   -> Decide("unknown", FALSE, NoTime)

DecideIsolationNeverIsolates(previous, isolated, startedAge, observed) ==
  CASE observed = "degraded"   -> Decide("degraded", isolated, NoTime)
    [] observed = "recovering" -> ContinueRecovery(startedAge)
    [] observed = "healthy"    -> DecideRecovery(previous, isolated, startedAge)
    [] OTHER                   -> Decide("unknown", isolated, NoTime)

DecideIsolation(previous, isolated, startedAge, observed) ==
  CASE observed = "degraded"   -> Decide("degraded", TRUE, NoTime)
    [] observed = "recovering" -> ContinueRecovery(startedAge)
    [] observed = "healthy"    -> DecideRecovery(previous, isolated, startedAge)
    [] OTHER                   -> Decide("unknown", isolated, NoTime)
=============================================================================

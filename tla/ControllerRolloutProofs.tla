----------------------- MODULE ControllerRolloutProofs -----------------------
(***************************************************************************)
(* Type correctness, and what election excludes, for every set of pods and *)
(* revisions, every number of faults and all lengths of the Lease.         *)
(***************************************************************************)
EXTENDS ControllerRollout, TLAPS

(* A process that elects and reconciles holds the Lease or once stood      *)
(* still for too long.                                                     *)
LeadersHoldLease ==
  \A p \in Pod :
    process[p] = "reconciling" /\ Args[revision[p]].election
    => holder = p \/ pace[p] # "running"

(* A Lease that nobody else could take yet is not older than the deadline. *)
LeaseInTime ==
  (holder \in Pod => pace[holder] = "running") /\ holder # "gone"
  => age <= RenewDeadline

Inv == TypeOK /\ LeadersHoldLease /\ LeaseInTime

(* Lengths of the Lease and names of its holder.                           *)
LEMMA Leases ==
  /\ RenewDeadline \in Nat /\ LeaseDuration \in Nat
  /\ RenewDeadline < LeaseDuration
  /\ "nobody" \notin Pod /\ "gone" \notin Pod
BY RolloutAssumption

LEMMA InitInv == Init => Inv
<1> SUFFICES ASSUME Init PROVE Inv
  OBVIOUS
<1>1. TypeOK
  BY RolloutAssumption DEF Init, TypeOK, Process, Serving
<1>2. LeadersHoldLease /\ LeaseInTime
  BY Leases DEF Init, LeadersHoldLease, LeaseInTime
<1>. QED
  BY <1>1, <1>2 DEF Inv

(* Exit leaves a process down, and its Lease, if it held it, with nobody   *)
(* who runs.                                                               *)
LEMMA ExitKeeps ==
  ASSUME Inv, NEW p \in Pod, Exit(p)
  PROVE  /\ process' \in [Pod -> Process] /\ process'[p] = "down"
         /\ \A q \in Pod \ {p} : process'[q] = process[q] /\ pace'[q] = pace[q]
         /\ holder' \in Pod \cup {"nobody", "gone"}
         /\ \A q \in Pod \ {p} : holder = q => holder' = q
         /\ age' \in 0 .. LeaseDuration
         /\ pace' \in [Pod -> {"running", "stalled", "late"}]
         /\ LeaseInTime'
<1>0. TypeOK /\ LeaseInTime
  BY DEF Inv
<1>1. /\ process' = [process EXCEPT ![p] = "down"]
      /\ pace' = [pace EXCEPT ![p] = "running"]
      /\ holder' = IF holder = p THEN "gone" ELSE holder
      /\ age' = age
  BY DEF Exit
<1>2. /\ process' \in [Pod -> Process] /\ process'[p] = "down"
      /\ pace' \in [Pod -> {"running", "stalled", "late"}]
      /\ \A q \in Pod \ {p} : process'[q] = process[q] /\ pace'[q] = pace[q]
  BY <1>0, <1>1 DEF TypeOK, Process
<1>3. /\ holder' \in Pod \cup {"nobody", "gone"}
      /\ \A q \in Pod \ {p} : holder = q => holder' = q
      /\ age' \in 0 .. LeaseDuration
  BY <1>0, <1>1 DEF TypeOK
<1>4. LeaseInTime'
  <2>1. CASE holder = p
    BY <1>1, <2>1 DEF LeaseInTime
  <2>2. CASE holder # p
    BY <1>0, <1>1, <1>2, <2>2 DEF LeaseInTime
  <2>. QED
    BY <2>1, <2>2
<1>. QED
  BY <1>2, <1>3, <1>4

(* Whatever ends a process and leaves its pod keeps the invariant.         *)
LEMMA ExitKeepsInv ==
  ASSUME Inv, NEW p \in Pod, Exit(p), faults' \in 0 .. MaxFaults,
         UNCHANGED <<latest, scaled, rollouts, revision, stopping>>
  PROVE  Inv'
<1>0. TypeOK /\ LeadersHoldLease
  BY DEF Inv
<1>1. TypeOK'
  BY <1>0, ExitKeeps DEF TypeOK, Serving
<1>2. LeadersHoldLease'
  BY <1>0, ExitKeeps DEF LeadersHoldLease
<1>. QED
  BY <1>1, <1>2, ExitKeeps DEF Inv

LEMMA FaultsCounted ==
  ASSUME TypeOK, Fault
  PROVE  faults' \in 0 .. MaxFaults
BY RolloutAssumption DEF TypeOK, Fault

(* The steps of one process on its way to its first Reconcile.             *)
LEMMA ProcessKeepsInv ==
  ASSUME Inv, NEW p \in Pod,
         Start(p) \/ Configure(p) \/ SyncCaches(p) \/ Elect(p) \/ Terminate(p)
  PROVE  Inv'
<1>0. TypeOK /\ LeadersHoldLease /\ LeaseInTime
  BY DEF Inv
<1>1. CASE Start(p)
  <2>1. /\ process' = [process EXCEPT ![p] = "starting"] /\ revision[p] # 0
        /\ UNCHANGED <<latest, scaled, rollouts, revision, stopping,
                       holder, age, pace, faults>>
    BY <1>1 DEF Start, deployVars, podVars, leaseVars
  <2>2. TypeOK'
    BY <1>0, <2>1 DEF TypeOK, Process, Serving
  <2>3. LeadersHoldLease' /\ LeaseInTime'
    BY <1>0, <2>1 DEF TypeOK, LeadersHoldLease, LeaseInTime
  <2>. QED
    BY <2>2, <2>3 DEF Inv
<1>2. CASE Configure(p)
  <2>1. UNCHANGED <<latest, scaled, rollouts, revision, stopping, faults>>
    BY <1>2 DEF Configure, deployVars, podVars
  <2>2. CASE Exit(p)
    <3>1. faults' \in 0 .. MaxFaults
      BY <1>0, <2>1 DEF TypeOK
    <3>. QED
      BY <2>1, <2>2, <3>1, ExitKeepsInv
  <2>3. CASE /\ process[p] = "starting"
             /\ NewHealthSource(Args[revision[p]]) # "error"
             /\ process' = [process EXCEPT ![p] = "serving"]
             /\ UNCHANGED <<holder, age, pace>>
    <3>1. TypeOK'
      BY <1>0, <2>1, <2>3 DEF TypeOK, Process, Serving
    <3>2. LeadersHoldLease' /\ LeaseInTime'
      BY <1>0, <2>1, <2>3 DEF TypeOK, LeadersHoldLease, LeaseInTime
    <3>. QED
      BY <3>1, <3>2 DEF Inv
  <2>. QED
    BY <1>2, <2>2, <2>3 DEF Configure, leaseVars
<1>3. CASE SyncCaches(p)
  <2>1. /\ process[p] = "serving"
        /\ process' = [process EXCEPT ![p] = "synced"]
        /\ UNCHANGED <<latest, scaled, rollouts, revision, stopping,
                       holder, age, pace, faults>>
    BY <1>3 DEF SyncCaches, deployVars, podVars, leaseVars
  <2>2. TypeOK'
    BY <1>0, <2>1 DEF TypeOK, Process, Serving
  <2>3. LeadersHoldLease' /\ LeaseInTime'
    BY <1>0, <2>1 DEF TypeOK, LeadersHoldLease, LeaseInTime
  <2>. QED
    BY <2>2, <2>3 DEF Inv
<1>4. CASE Elect(p)
  <2>0. /\ process' = [process EXCEPT ![p] = "reconciling"]
        /\ process[p] = "synced"
        /\ UNCHANGED <<latest, scaled, rollouts, revision, stopping,
                       age, pace, faults>>
    BY <1>4 DEF Elect, deployVars, podVars
  <2>1. CASE Args[revision[p]].election
    <3>1. holder = "nobody" /\ holder' = p
      BY <1>4, <2>1 DEF Elect
    <3>2. TypeOK'
      BY <1>0, <2>0, <3>1 DEF TypeOK, Process, Serving
    <3>3. \A q \in Pod : q # holder
      BY <3>1, Leases
    <3>4. LeadersHoldLease' /\ LeaseInTime'
      BY <1>0, <2>0, <3>1, <3>3 DEF TypeOK, LeadersHoldLease, LeaseInTime
    <3>. QED
      BY <3>2, <3>4 DEF Inv
  <2>2. CASE ~Args[revision[p]].election
    <3>1. holder' = holder
      BY <1>4, <2>2 DEF Elect
    <3>2. TypeOK'
      BY <1>0, <2>0, <3>1 DEF TypeOK, Process, Serving
    <3>3. LeadersHoldLease' /\ LeaseInTime'
      BY <1>0, <2>0, <2>2, <3>1 DEF TypeOK, LeadersHoldLease, LeaseInTime
    <3>. QED
      BY <3>2, <3>3 DEF Inv
  <2>. QED
    BY <2>1, <2>2
<1>5. CASE Terminate(p)
  <2>0. /\ Exit(p)
        /\ revision' = [revision EXCEPT ![p] = 0]
        /\ stopping' = stopping \ {p}
        /\ UNCHANGED <<latest, scaled, rollouts, faults>>
    BY <1>5 DEF Terminate, deployVars
  <2>1. TypeOK'
    BY <1>0, <2>0, ExitKeeps DEF TypeOK, Serving
  <2>2. LeadersHoldLease'
    BY <1>0, <2>0, ExitKeeps DEF TypeOK, LeadersHoldLease
  <2>. QED
    BY <2>0, <2>1, <2>2, ExitKeeps DEF Inv
<1>. QED
  BY <1>1, <1>2, <1>3, <1>4, <1>5

(* A leader that cannot renew, stands still, resumes, stops or crashes.    *)
LEMMA LeaderKeepsInv ==
  ASSUME Inv, NEW p \in Pod,
         ProcessFault(p) \/ Resume(p) \/ StopLeading(p)
  PROVE  Inv'
<1>0. TypeOK /\ LeadersHoldLease /\ LeaseInTime
  BY DEF Inv
<1>1. CASE RenewalsFail(p)
  <2>1. /\ age' = RenewDeadline
        /\ UNCHANGED <<latest, scaled, rollouts, revision, stopping,
                       process, holder, pace>>
    BY <1>1 DEF RenewalsFail, deployVars, podVars
  <2>2. TypeOK'
    BY <1>0, <1>1, <2>1, Leases, FaultsCounted DEF RenewalsFail, TypeOK
  <2>3. LeadersHoldLease' /\ LeaseInTime'
    BY <1>0, <2>1, Leases DEF LeadersHoldLease, LeaseInTime
  <2>. QED
    BY <2>2, <2>3 DEF Inv
<1>2. CASE Stall(p)
  <2>1. /\ pace' = [pace EXCEPT ![p] = "stalled"] /\ holder = p
        /\ UNCHANGED <<latest, scaled, rollouts, revision, stopping,
                       process, holder, age>>
    BY <1>2 DEF Stall, deployVars, podVars, leaseVars
  <2>2. TypeOK'
    BY <1>0, <1>2, <2>1, FaultsCounted DEF Stall, TypeOK
  <2>3. LeadersHoldLease' /\ LeaseInTime'
    BY <1>0, <2>1 DEF TypeOK, LeadersHoldLease, LeaseInTime
  <2>. QED
    BY <2>2, <2>3 DEF Inv
<1>3. CASE Resume(p)
  <2>0. UNCHANGED <<latest, scaled, rollouts, revision, stopping,
                    process, faults>>
    BY <1>3 DEF Resume, deployVars, podVars
  <2>1. CASE /\ holder \in {p, "nobody"} /\ holder' = p /\ age' = 0
             /\ pace' = [pace EXCEPT ![p] = "running"]
    <3>1. TypeOK'
      BY <1>0, <2>0, <2>1, Leases DEF TypeOK
    <3>2. \A q \in Pod : holder = q => q = p
      BY <2>1, Leases
    <3>3. LeadersHoldLease' /\ LeaseInTime'
      BY <1>0, <2>0, <2>1, <3>2, Leases DEF TypeOK, LeadersHoldLease, LeaseInTime
    <3>. QED
      BY <3>1, <3>3 DEF Inv
  <2>2. CASE UNCHANGED <<holder, age>> /\ pace' = [pace EXCEPT ![p] = "late"]
    <3>1. TypeOK'
      BY <1>0, <2>0, <2>2 DEF TypeOK
    <3>2. LeadersHoldLease' /\ LeaseInTime'
      BY <1>0, <2>0, <2>2 DEF TypeOK, LeadersHoldLease, LeaseInTime
    <3>. QED
      BY <3>1, <3>2 DEF Inv
  <2>. QED
    BY <1>3, <2>1, <2>2 DEF Resume, leaseVars
<1>4. CASE StopLeading(p) \/ Crash(p)
  <2>1. /\ Exit(p)
        /\ UNCHANGED <<latest, scaled, rollouts, revision, stopping>>
    BY <1>4 DEF StopLeading, Crash, deployVars, podVars
  <2>2. faults' \in 0 .. MaxFaults
    BY <1>0, <1>4, FaultsCounted DEF StopLeading, Crash, TypeOK
  <2>. QED
    BY <2>1, <2>2, ExitKeepsInv
<1>. QED
  BY <1>1, <1>2, <1>3, <1>4 DEF ProcessFault

(* The clock of the Lease.                                                 *)
LEMMA LeaseKeepsInv ==
  ASSUME Inv, Tick \/ LeaseExpires
  PROVE  Inv'
<1>0. TypeOK /\ LeadersHoldLease /\ LeaseInTime
  BY DEF Inv
<1>1. CASE Tick
  <2>1. UNCHANGED <<latest, scaled, rollouts, revision, stopping,
                    process, holder, pace, faults>>
    BY <1>1 DEF Tick, deployVars, podVars
  <2>2. age' \in 0 .. LeaseDuration
    BY <1>0, <1>1, Leases DEF Tick, TypeOK
  <2>3. TypeOK'
    BY <1>0, <2>1, <2>2 DEF TypeOK
  <2>4. LeadersHoldLease'
    BY <1>0, <2>1 DEF LeadersHoldLease
  <2>5. holder = "gone" \/ (holder \in Pod /\ pace[holder] = "stalled")
    BY <1>0, <1>1 DEF Tick, TypeOK
  <2>6. LeaseInTime'
    BY <2>1, <2>5 DEF LeaseInTime
  <2>. QED
    BY <2>3, <2>4, <2>6 DEF Inv
<1>2. CASE LeaseExpires
  <2>1. /\ holder' = "nobody" /\ age' = 0
        /\ UNCHANGED <<latest, scaled, rollouts, revision, stopping,
                       process, pace, faults>>
    BY <1>2 DEF LeaseExpires, deployVars, podVars
  <2>2. TypeOK'
    BY <1>0, <2>1, Leases DEF TypeOK
  <2>3. \A p \in Pod : holder = p => pace[p] # "running"
    BY <1>0, <1>2, Leases DEF LeaseExpires, LeaseInTime, TypeOK
  <2>4. LeadersHoldLease'
    BY <1>0, <2>1, <2>3 DEF LeadersHoldLease
  <2>5. LeaseInTime'
    BY <2>1, Leases DEF LeaseInTime
  <2>. QED
    BY <2>2, <2>4, <2>5 DEF Inv
<1>. QED
  BY <1>1, <1>2

(* The steps of the Deployment and of those who use it.                    *)
LEMMA DeploymentKeepsInv ==
  ASSUME Inv,
         \/ DeploymentStep
         \/ \E r \in Revision : Apply(r)
         \/ \E p \in Pod : DrainPod(p)
  PROVE  Inv'
<1>0. TypeOK /\ LeadersHoldLease /\ LeaseInTime
  BY DEF Inv
<1>1. ASSUME UNCHANGED <<process, revision, holder, age, pace>>
      PROVE  LeadersHoldLease' /\ LeaseInTime'
  BY <1>0, <1>1 DEF LeadersHoldLease, LeaseInTime
<1>2. ASSUME NEW r \in Revision, Apply(r)
      PROVE  Inv'
  <2>1. UNCHANGED <<scaled, revision, stopping, process, holder, age, pace, faults>>
    BY <1>2 DEF Apply, podVars, leaseVars
  <2>2. TypeOK'
    BY <1>0, <1>2, <2>1, RolloutAssumption DEF Apply, TypeOK
  <2>. QED
    BY <1>1, <2>1, <2>2 DEF Inv
<1>3. CASE ScaleUp \/ \E r \in Revision : ScaleDown(r)
  <2>0. /\ scaled' \subseteq scaled \cup {latest}
        /\ UNCHANGED <<latest, rollouts, revision, stopping, process,
                       holder, age, pace, faults>>
    BY <1>3 DEF ScaleUp, ScaleDown, podVars, leaseVars
  <2>1. TypeOK'
    BY <1>0, <2>0 DEF TypeOK
  <2>. QED
    BY <1>1, <2>0, <2>1 DEF Inv
<1>4. ASSUME NEW p \in Pod, NEW r \in Revision, CreatePod(p, r)
      PROVE  Inv'
  <2>0. /\ revision' = [revision EXCEPT ![p] = r]
        /\ revision[p] = 0 /\ r # 0
        /\ UNCHANGED <<latest, scaled, rollouts, stopping, process,
                       holder, age, pace, faults>>
    BY <1>4, RolloutAssumption DEF CreatePod, deployVars, leaseVars
  <2>1. process[p] = "down"
    BY <1>0, <2>0 DEF TypeOK
  <2>2. TypeOK'
    BY <1>0, <2>0, <2>1 DEF TypeOK, Serving
  <2>3. LeadersHoldLease' /\ LeaseInTime'
    BY <1>0, <2>0, <2>1 DEF TypeOK, LeadersHoldLease, LeaseInTime
  <2>. QED
    BY <2>2, <2>3 DEF Inv
<1>5. ASSUME NEW p \in Pod, DeletePod(p) \/ DrainPod(p)
      PROVE  Inv'
  <2>0. UNCHANGED <<latest, scaled, rollouts, revision, process, holder, age, pace>>
    BY <1>5 DEF DeletePod, DrainPod, deployVars, leaseVars
  <2>1. faults' \in 0 .. MaxFaults
    BY <1>0, <1>5, FaultsCounted DEF DeletePod, DrainPod, TypeOK
  <2>2. stopping' \subseteq {q \in Pod : revision[q] # 0}
    BY <1>0, <1>5 DEF DeletePod, DrainPod, TypeOK
  <2>3. TypeOK'
    BY <1>0, <2>0, <2>1, <2>2 DEF TypeOK
  <2>. QED
    BY <1>1, <2>0, <2>3 DEF Inv
<1>. QED
  BY <1>2, <1>3, <1>4, <1>5 DEF DeploymentStep

LEMMA NextInv == Inv /\ [Next]_vars => Inv'
<1> SUFFICES ASSUME Inv, [Next]_vars PROVE Inv'
  OBVIOUS
<1>1. CASE Next
  BY <1>1, ProcessKeepsInv, LeaderKeepsInv, LeaseKeepsInv, DeploymentKeepsInv
  DEF Next, ProcessStep
<1>2. CASE UNCHANGED vars
  BY <1>2 DEF vars, deployVars, podVars, leaseVars, Inv, TypeOK,
              LeadersHoldLease, LeaseInTime
<1>. QED
  BY <1>1, <1>2

LEMMA Invariance == Spec => []Inv
<1>1. Inv /\ [Next]_vars => Inv'
  BY NextInv
<1>. QED
  BY InitInv, <1>1, PTL DEF Spec

(* Types, for every set of pods, revisions and bounds; and no process      *)
(* serves, let alone reconciles, without a health source.                  *)
THEOREM RolloutTypes == Spec => []TypeOK
<1>1. Inv => TypeOK
  BY DEF Inv
<1>. QED
  BY Invariance, <1>1, PTL

(* Of two processes that elect and reconcile, one stood still for too long *)
(* and lost its Lease: crashes, API servers out of reach, drains and       *)
(* rollouts never make two leaders, however they are interleaved.          *)
THEOREM LeadersOverlapOnlyAfterStall == Spec => []OverlapOnlyAfterStall
<1>1. Inv => OverlapOnlyAfterStall
  BY DEF Inv, LeadersHoldLease, OverlapOnlyAfterStall, Leading, Reconciling
<1>. QED
  BY Invariance, <1>1, PTL
=============================================================================

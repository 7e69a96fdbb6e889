--------------------------- MODULE NodeIsolation ---------------------------
(***************************************************************************)
(* What the controller promises about a node's isolation, without caches,  *)
(* versions, sources or processes: a node is open, isolated, or isolated   *)
(* with its recovery being confirmed, and it opens only when a recovery    *)
(* has been confirmed for the whole window.                                *)
(***************************************************************************)
EXTENDS Integers

CONSTANTS Node, RecoveryWindow

VARIABLES
  mode,    \* "open", "isolated" or "confirming"
  since,   \* age of the confirmation in progress
  quiet    \* age of the last non-healthy evidence

vars == <<mode, since, quiet>>

OneOlder(k) == IF k < RecoveryWindow THEN k + 1 ELSE RecoveryWindow

Init ==
  /\ mode = [n \in Node |-> "open"]
  /\ since = [n \in Node |-> 0]
  /\ quiet = [n \in Node |-> RecoveryWindow]

(* Non-healthy evidence: it may isolate an open node, it keeps an isolated *)
(* one so, and it ends a confirmation.                                     *)
Unhealthy(n) ==
  /\ \E m \in IF mode[n] = "open" THEN {"open", "isolated"} ELSE {"isolated"} :
       mode' = [mode EXCEPT ![n] = m]
  /\ since' = [since EXCEPT ![n] = 0]
  /\ quiet' = [quiet EXCEPT ![n] = 0]

StartConfirming(n) ==
  /\ mode[n] = "isolated"
  /\ mode' = [mode EXCEPT ![n] = "confirming"]
  /\ \E k \in 0 .. quiet[n] : since' = [since EXCEPT ![n] = k]
  /\ UNCHANGED quiet

Release(n) ==
  /\ mode[n] = "confirming"
  /\ since[n] = RecoveryWindow
  /\ mode' = [mode EXCEPT ![n] = "open"]
  /\ since' = [since EXCEPT ![n] = 0]
  /\ UNCHANGED quiet

Tick ==
  /\ since' = [n \in Node |-> IF mode[n] = "confirming" THEN OneOlder(since[n])
                                                        ELSE since[n]]
  /\ quiet' = [n \in Node |-> OneOlder(quiet[n])]
  /\ UNCHANGED mode

Next ==
  \/ \E n \in Node : Unhealthy(n) \/ StartConfirming(n) \/ Release(n)
  \/ Tick

Spec == Init /\ [][Next]_vars
=============================================================================

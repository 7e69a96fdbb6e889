--------------------------- MODULE ReconcileQueue ---------------------------
(***************************************************************************)
(* How nodes reach Reconcile: the event filter, controller-runtime's work  *)
(* queue with its dirty set, delayed and rate-limited re-adding, and the   *)
(* single worker, which a dead exporter keeps busy until a timeout.        *)
(*                                                                         *)
(* Time advances by Tick, and only when nothing is due at once: handlers   *)
(* are told, due timers fire and a free worker takes a node immediately.   *)
(***************************************************************************)
EXTENDS Integers, Sequences, FiniteSets, Functions

CONSTANTS
  Node, NoNode,
  PollInterval,    \* the -health-poll-interval flag, in ticks
  DefaultPoll,     \* what stands in for an interval that is not positive
  ReconcileTime,   \* ticks a Reconcile may take, calls that time out included
  Backoff,         \* Backoff[k]: ticks of delay after k failures in a row
  MaxChanges       \* bound: nodes coming, going, annotated, and restarts

Least(a, b) == IF a < b THEN a ELSE b

ASSUME QueueAssumption ==
  /\ IsFiniteSet(Node) /\ NoNode \notin Node
  /\ PollInterval \in Int
  /\ {DefaultPoll, ReconcileTime} \subseteq Nat \ {0}
  /\ MaxChanges \in Nat
  /\ Backoff \in Seq(Nat) /\ Backoff # <<>>

VARIABLES
  known,     \* the nodes in the informer's cache
  notices,   \* nodes whose event passed the filter and is not delivered yet
  queue, dirty,       \* of the work queue
  phase, current,     \* the worker's: what it does with which node
  spent,              \* ticks its Reconcile has taken so far
  due,                \* of each node: ticks until its delayed Add
  failures,           \* of each node: its errors in a row, up to Len(Backoff)
  since,              \* ticks since the node was last read, or appeared
  unread,    \* history: nodes that appeared or were annotated since then
  changes

queueVars  == <<queue, dirty>>
workerVars == <<phase, current, spent>>
timerVars  == <<due, failures>>
vars == <<known, notices, queueVars, workerVars, timerVars, since, unread, changes>>

NoTimer == -1

(* pollInterval *)
PollDelay == IF PollInterval > 0 THEN PollInterval ELSE DefaultPoll

Longest == CHOOSE d \in Range(Backoff) \cup {PollDelay} :
             \A e \in Range(Backoff) \cup {PollDelay} : d >= e

(* How late a node is read at worst: the longest delay, and then every     *)
(* node once, each with all its calls timing out.                          *)
Latest == Longest + Cardinality(Node) * ReconcileTime

TypeOK ==
  /\ known \subseteq Node /\ notices \subseteq Node /\ unread \subseteq Node
  /\ queue \in Seq(Node) /\ dirty \subseteq Node
  /\ phase \in {"idle", "taken", "reading", "absent"}
  /\ current \in Node \cup {NoNode} /\ (phase = "idle" <=> current = NoNode)
  /\ spent \in 0 .. ReconcileTime
  /\ due \in [Node -> Nat \cup {NoTimer}]
  /\ failures \in [Node -> 0 .. Len(Backoff)]
  /\ since \in [Node -> Nat]
  /\ changes \in 0 .. MaxChanges

(* The informer lists the nodes and announces each, before workers start.  *)
Init ==
  /\ known \in SUBSET Node
  /\ notices = known /\ unread = known
  /\ queue = <<>> /\ dirty = {}
  /\ phase = "idle" /\ current = NoNode /\ spent = 0
  /\ due = [n \in Node |-> NoTimer]
  /\ failures = [n \in Node |-> 0]
  /\ since = [n \in Node |-> 0]
  /\ changes = 0

-----------------------------------------------------------------------------
(* The event filter of SetupWithManager: creations pass, deletions do not, *)
(* updates do if one of the three fault and recovery annotations changed.  *)
(* A slip: every update passes, the controller's own included.             *)
UpdateFuncAny(watchedChanged) == TRUE

UpdateFunc(watchedChanged) == watchedChanged

(* The informer stores a new version of n and tells the handlers later.    *)
Updated(n, watchedChanged) ==
  notices' = IF UpdateFunc(watchedChanged) THEN notices \cup {n} ELSE notices

Change == changes < MaxChanges /\ changes' = changes + 1

NodeAppears(n) ==
  /\ Change
  /\ n \notin known
  /\ known' = known \cup {n}
  /\ notices' = notices \cup {n}
  /\ unread' = unread \cup {n}
  /\ since' = [since EXCEPT ![n] = 0]
  /\ UNCHANGED <<queueVars, workerVars, timerVars>>

NodeDisappears(n) ==
  /\ Change
  /\ n \in known
  /\ known' = known \ {n}
  /\ unread' = unread \ {n}
  /\ UNCHANGED <<notices, queueVars, workerVars, timerVars, since>>

Annotated(n) ==
  /\ Change
  /\ n \in known
  /\ Updated(n, TRUE)
  /\ unread' = unread \cup {n}
  /\ UNCHANGED <<known, queueVars, workerVars, timerVars, since>>

-----------------------------------------------------------------------------
(* The work queue.  A node is queued once; one that is added while it is   *)
(* processed is marked dirty, and queued when the worker is done with it.  *)
(* A slip: a node added while it is processed is not marked.               *)
AddUnlessProcessing(n) ==
  /\ dirty' = IF n = current THEN dirty ELSE dirty \cup {n}
  /\ queue' = IF n \in dirty \/ n = current THEN queue ELSE Append(queue, n)

Add(n) ==
  /\ dirty' = dirty \cup {n}
  /\ queue' = IF n \in dirty \/ n = current THEN queue ELSE Append(queue, n)

Deliver(n) ==
  /\ n \in notices
  /\ notices' = notices \ {n}
  /\ Add(n)
  /\ UNCHANGED <<known, workerVars, timerVars, since, unread, changes>>

TimerFires(n) ==
  /\ due[n] = 0
  /\ due' = [due EXCEPT ![n] = NoTimer]
  /\ Add(n)
  /\ UNCHANGED <<known, notices, workerVars, failures, since, unread, changes>>

(* What is already waiting is not put off by a later AddAfter.             *)
Wait(n, d) == IF due[n] = NoTimer THEN d ELSE Least(due[n], d)

(* AddAfter, without delay an Add of the node being processed; then Done.  *)
DoneAddAfter(n, d) ==
  LET again == d = 0 \/ n \in dirty IN
  /\ due' = IF d = 0 THEN due ELSE [due EXCEPT ![n] = Wait(n, d)]
  /\ dirty' = IF d = 0 THEN dirty \cup {n} ELSE dirty
  /\ queue' = IF again THEN Append(queue, n) ELSE queue
  /\ phase' = "idle" /\ current' = NoNode /\ spent' = 0

-----------------------------------------------------------------------------
(* The worker. *)
(* A slip: the node that was queued last goes first.                       *)
TakeLast ==
  /\ phase = "idle" /\ queue # <<>>
  /\ queue' = SubSeq(queue, 1, Len(queue) - 1)
  /\ dirty' = dirty \ {queue[Len(queue)]}
  /\ phase' = "taken" /\ current' = queue[Len(queue)]
  /\ UNCHANGED <<known, notices, spent, timerVars, since, unread, changes>>

Take ==
  /\ phase = "idle" /\ queue # <<>>
  /\ queue' = Tail(queue)
  /\ dirty' = dirty \ {Head(queue)}
  /\ phase' = "taken" /\ current' = Head(queue)
  /\ UNCHANGED <<known, notices, spent, timerVars, since, unread, changes>>

(* Get from the cache; a node that is not there ends the reconcile.        *)
Read ==
  /\ phase = "taken"
  /\ IF current \in known
     THEN /\ phase' = "reading"
          /\ since' = [since EXCEPT ![current] = 0]
          /\ unread' = unread \ {current}
     ELSE phase' = "absent" /\ UNCHANGED <<since, unread>>
  /\ UNCHANGED <<known, notices, queueVars, current, spent, timerVars, changes>>

(* A slip: the worker goes idle with the node still in its hands.          *)
DoneHolding ==
  /\ queue' = IF current \in dirty THEN Append(queue, current) ELSE queue
  /\ phase' = "idle" /\ spent' = 0 /\ UNCHANGED current

Done ==
  /\ queue' = IF current \in dirty THEN Append(queue, current) ELSE queue
  /\ phase' = "idle" /\ current' = NoNode /\ spent' = 0

(* A slip: no RequeueAfter once there was nothing to write.                *)
SucceedsOnce(wrote) ==
  /\ phase = "reading"
  /\ IF current \in known /\ wrote THEN Updated(current, FALSE) ELSE UNCHANGED notices
  /\ failures' = [failures EXCEPT ![current] = 0]
  /\ IF wrote THEN DoneAddAfter(current, PollDelay)
              ELSE Done /\ UNCHANGED <<dirty, due>>
  /\ UNCHANGED <<known, since, unread, changes>>

(* RequeueAfter: the failures are forgotten and the node waits for a poll. *)
(* Its own Update comes back as an event that leaves the three annotations *)
(* as they were.                                                           *)
Succeeds(wrote) ==
  /\ phase = "reading"
  /\ IF current \in known /\ wrote THEN Updated(current, FALSE) ELSE UNCHANGED notices
  /\ failures' = [failures EXCEPT ![current] = 0]
  /\ DoneAddAfter(current, PollDelay)
  /\ UNCHANGED <<known, since, unread, changes>>

(* A slip: errors are retried at once.                                     *)
FailsWithoutDelay ==
  /\ phase = "reading"
  /\ failures' = [failures EXCEPT ![current] = Least(@ + 1, Len(Backoff))]
  /\ DoneAddAfter(current, 0)
  /\ UNCHANGED <<known, notices, since, unread, changes>>

(* An error of Update, List or Evict: the result beside it is ignored.     *)
Fails ==
  /\ phase = "reading"
  /\ failures' = [failures EXCEPT ![current] = Least(@ + 1, Len(Backoff))]
  /\ DoneAddAfter(current, Backoff[failures'[current]])
  /\ UNCHANGED <<known, notices, since, unread, changes>>

(* NotFound is ignored and nothing is requeued. *)
EndsAbsent ==
  /\ phase = "absent"
  /\ failures' = [failures EXCEPT ![current] = 0]
  /\ Done
  /\ UNCHANGED <<known, notices, dirty, due, since, unread, changes>>

(* A new process: everything in memory is gone, the informer lists anew.   *)
Restart ==
  /\ Change
  /\ notices' = known /\ unread' = known
  /\ queue' = <<>> /\ dirty' = {}
  /\ phase' = "idle" /\ current' = NoNode /\ spent' = 0
  /\ due' = [n \in Node |-> NoTimer]
  /\ failures' = [n \in Node |-> 0]
  /\ since' = [n \in Node |-> 0]
  /\ UNCHANGED known

Tick ==
  /\ notices = {}
  /\ \A n \in Node : due[n] # 0
  /\ IF phase = "idle" THEN queue = <<>> /\ UNCHANGED spent
     ELSE phase = "reading" /\ spent < ReconcileTime /\ spent' = spent + 1
  /\ due' = [n \in Node |-> IF due[n] = NoTimer THEN NoTimer ELSE due[n] - 1]
  /\ since' = [n \in Node |-> IF n \in known THEN since[n] + 1 ELSE 0]
  /\ UNCHANGED <<known, notices, queueVars, phase, current, failures, unread, changes>>

-----------------------------------------------------------------------------
Ends == (\E wrote \in BOOLEAN : Succeeds(wrote)) \/ Fails \/ EndsAbsent

NodeEvent(n) == NodeAppears(n) \/ NodeDisappears(n) \/ Annotated(n)

Next ==
  \/ \E n \in Node : NodeEvent(n) \/ Deliver(n) \/ TimerFires(n)
  \/ Take \/ Read \/ Ends
  \/ Restart \/ Tick

Spec == Init /\ [][Next]_vars

(* The worker and the timers' threads run; nothing is assumed of nodes.    *)
Fairness ==
  /\ \A n \in Node : WF_vars(Deliver(n)) /\ WF_vars(TimerFires(n))
  /\ WF_vars(Take) /\ WF_vars(Read) /\ WF_vars(Ends)
  /\ WF_vars(Tick)

LiveSpec == Spec /\ Fairness
-----------------------------------------------------------------------------
(* A node the worker has taken and not read yet, or read as present.       *)
InHand(n) == current = n /\ phase \in {"taken", "reading"}

(* Every node in the cache will be read again: it is announced, queued,    *)
(* waiting for its timer or in the worker's hands, whatever was deleted    *)
(* and recreated and in whatever state its events arrive (a reconcile that *)
(* finds no node ends the polling of it).                                  *)
NoNodeForgotten ==
  \A n \in known :
    \/ n \in notices \/ n \in Range(queue) \/ due[n] # NoTimer
    \/ InHand(n) \/ (current = n /\ n \in dirty)

(* A change of the watched annotations, or a node that appeared, is not    *)
(* left to the next poll: until it is read it is on its way to a worker.   *)
ChangeNeverLost ==
  \A n \in unread :
    \/ n \in notices \/ n \in Range(queue)
    \/ (current = n /\ (phase = "taken" \/ n \in dirty))

(* Dead exporters of other nodes and a node's own errors delay its next    *)
(* read by no more than the longest backoff or poll and one turn of every  *)
(* node: the single worker starves nobody.                                 *)
ReadInTime == \A n \in known : since[n] <= Latest

(* Reconciling does not cause itself: with nodes left alone, the worker    *)
(* finishes what is due and time goes on (the filter drops the events of   *)
(* the controller's own Updates, errors back off).                         *)
NeverSpins == []<>(known = {}) \/ []<><<Tick>>_vars

(* The queue implements what the state machine assumes of it.              *)
Polling == INSTANCE NodePolling WITH
  reading <- IF phase = "reading" THEN current ELSE NoNode

ImplementsNodePolling == Polling!Spec
=============================================================================

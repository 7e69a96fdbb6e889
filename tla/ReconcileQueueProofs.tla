------------------------ MODULE ReconcileQueueProofs ------------------------
(***************************************************************************)
(* Proofs about ReconcileQueue, for every set of nodes, poll interval and  *)
(* backoff: the queue forgets no node and loses no change.                 *)
(***************************************************************************)
EXTENDS ReconcileQueue, TLAPS, FiniteSetTheorems

(* What the two properties rest on: a dirty node is queued or in hand, and *)
(* only nodes that are there are unread.                                   *)
DirtyIsScheduled == \A n \in dirty : n \in Range(queue) \/ n = current

UnreadAreKnown == unread \subseteq known

Inv ==
  /\ TypeOK /\ DirtyIsScheduled /\ UnreadAreKnown
  /\ NoNodeForgotten /\ ChangeNeverLost

-----------------------------------------------------------------------------
(* Sequences as the queue uses them. *)

LEMMA AppendRange ==
  ASSUME NEW S, NEW s \in Seq(S), NEW x \in S
  PROVE  /\ Append(s, x) \in Seq(S)
         /\ Range(Append(s, x)) = Range(s) \cup {x}
<1>1. Append(s, x) \in Seq(S) /\ Len(Append(s, x)) = Len(s) + 1
  OBVIOUS
<1>2. DOMAIN s = 1 .. Len(s) /\ DOMAIN Append(s, x) = 1 .. Len(s) + 1
  BY <1>1
<1>3. \A i \in 1 .. Len(s) : Append(s, x)[i] = s[i]
  OBVIOUS
<1>4. Append(s, x)[Len(s) + 1] = x
  OBVIOUS
<1>5. Len(s) \in Nat
  OBVIOUS
<1> QED
  BY <1>1, <1>2, <1>3, <1>4, <1>5 DEF Range

LEMMA TailRange ==
  ASSUME NEW S, NEW s \in Seq(S), s # <<>>
  PROVE  /\ Tail(s) \in Seq(S) /\ Head(s) \in S
         /\ \A x \in Range(s) : x = Head(s) \/ x \in Range(Tail(s))
<1>1. Tail(s) \in Seq(S) /\ Head(s) \in S /\ Len(Tail(s)) = Len(s) - 1
  OBVIOUS
<1>2. DOMAIN s = 1 .. Len(s) /\ DOMAIN Tail(s) = 1 .. Len(s) - 1 /\ Len(s) \in Nat
  BY <1>1
<1>3. \A i \in 1 .. Len(s) - 1 : Tail(s)[i] = s[i + 1]
  OBVIOUS
<1>4. Head(s) = s[1]
  OBVIOUS
<1>5. ASSUME NEW i \in 1 .. Len(s), i # 1
      PROVE  s[i] \in Range(Tail(s))
  <2>1. i - 1 \in 1 .. Len(s) - 1
    BY <1>2, <1>5
  <2>2. Tail(s)[i - 1] = s[i]
    BY <1>3, <1>2, <2>1
  <2> QED
    BY <1>2, <2>1, <2>2 DEF Range
<1> QED
  BY <1>1, <1>2, <1>4, <1>5 DEF Range

(* A Backoff looked up by a count of failures is a delay. *)
LEMMA BackoffIsDelay ==
  ASSUME NEW k \in 1 .. Len(Backoff)
  PROVE  Backoff[k] \in Nat
BY QueueAssumption

LEMMA ChangesCounted ==
  ASSUME changes \in 0 .. MaxChanges, Change
  PROVE  changes' \in 0 .. MaxChanges
BY QueueAssumption DEF Change

LEMMA FewerOfTwo ==
  ASSUME NEW a \in Nat, NEW b \in Nat
  PROVE  Least(a, b) \in Nat
BY DEF Least

-----------------------------------------------------------------------------
(* The queue operations. *)

LEMMA AddFacts ==
  ASSUME TypeOK, DirtyIsScheduled, NEW n \in Node, Add(n), current' = current
  PROVE  /\ queue' \in Seq(Node) /\ dirty' \subseteq Node
         /\ Range(queue) \subseteq Range(queue') /\ dirty \subseteq dirty'
         /\ n \in dirty' /\ (n \in Range(queue') \/ n = current)
         /\ DirtyIsScheduled'
<1>1. dirty' = dirty \cup {n}
  BY DEF Add
<1>2. CASE n \in dirty \/ n = current
  <2>1. queue' = queue
    BY <1>2 DEF Add
  <2> QED
    BY <1>1, <1>2, <2>1 DEF TypeOK, DirtyIsScheduled
<1>3. CASE ~(n \in dirty \/ n = current)
  <2>1. queue' = Append(queue, n)
    BY <1>3 DEF Add
  <2>2. queue' \in Seq(Node) /\ Range(queue') = Range(queue) \cup {n}
    BY <2>1, AppendRange DEF TypeOK
  <2> QED
    BY <1>1, <2>2 DEF TypeOK, DirtyIsScheduled
<1> QED
  BY <1>2, <1>3

(* The end of a reconcile of the current node, with or without an Add.     *)
LEMMA RequeueFacts ==
  ASSUME TypeOK, DirtyIsScheduled, current \in Node, NEW again \in BOOLEAN,
         queue' = IF again THEN Append(queue, current) ELSE queue,
         current \in dirty' => again,
         dirty' \subseteq dirty \cup {current}
  PROVE  /\ queue' \in Seq(Node) /\ dirty' \subseteq Node
         /\ Range(queue) \subseteq Range(queue')
         /\ again => current \in Range(queue')
         /\ DirtyIsScheduled'
<1>1. queue \in Seq(Node) /\ dirty \subseteq Node
  BY DEF TypeOK
<1>2. CASE again
  <2>1. queue' \in Seq(Node) /\ Range(queue') = Range(queue) \cup {current}
    BY <1>1, <1>2, AppendRange
  <2> QED
    BY <1>1, <1>2, <2>1 DEF DirtyIsScheduled
<1>3. CASE ~again
  <2>1. queue' = queue
    BY <1>3
  <2> QED
    BY <1>1, <1>3, <2>1 DEF DirtyIsScheduled
<1> QED
  BY <1>2, <1>3

LEMMA DoneFacts ==
  ASSUME TypeOK, DirtyIsScheduled, current \in Node, NEW d \in Nat,
         DoneAddAfter(current, d)
  PROVE  /\ queue' \in Seq(Node) /\ dirty' \subseteq Node
         /\ due' \in [Node -> Nat \cup {NoTimer}]
         /\ phase' = "idle" /\ current' = NoNode /\ spent' = 0
         /\ Range(queue) \subseteq Range(queue')
         /\ \A n \in Node : due[n] # NoTimer => due'[n] # NoTimer
         /\ current \in Range(queue') \/ due'[current] # NoTimer
         /\ current \in dirty => current \in Range(queue')
         /\ DirtyIsScheduled'
<1> DEFINE again == d = 0 \/ current \in dirty
<1>1. /\ dirty' = IF d = 0 THEN dirty \cup {current} ELSE dirty
      /\ queue' = IF again THEN Append(queue, current) ELSE queue
      /\ phase' = "idle" /\ current' = NoNode /\ spent' = 0
  BY DEF DoneAddAfter
<1>2. /\ queue' \in Seq(Node) /\ dirty' \subseteq Node
      /\ Range(queue) \subseteq Range(queue')
      /\ again => current \in Range(queue')
      /\ DirtyIsScheduled'
  BY <1>1, RequeueFacts
<1>3. CASE d = 0
  <2>1. due' = due
    BY <1>3 DEF DoneAddAfter
  <2> QED
    BY <1>1, <1>2, <1>3, <2>1 DEF TypeOK
<1>4. CASE d # 0
  <2>1. due' = [due EXCEPT ![current] = Wait(current, d)]
    BY <1>4 DEF DoneAddAfter
  <2>2. due \in [Node -> Nat \cup {NoTimer}]
    BY DEF TypeOK
  <2>3. Wait(current, d) \in Nat
    BY <2>2, FewerOfTwo DEF Wait
  <2>4. due' \in [Node -> Nat \cup {NoTimer}]
    BY <2>1, <2>2, <2>3
  <2>5. due'[current] # NoTimer
    BY <2>1, <2>2, <2>3 DEF NoTimer
  <2>6. \A n \in Node : due[n] # NoTimer => due'[n] # NoTimer
    BY <2>1, <2>2, <2>5
  <2> QED
    BY <1>1, <1>2, <2>4, <2>5, <2>6
<1> QED
  BY <1>3, <1>4

-----------------------------------------------------------------------------
LEMMA InitInv == Init => Inv
<1> SUFFICES ASSUME Init PROVE Inv
  OBVIOUS
<1>1. TypeOK
  <2>1. <<>> \in Seq(Node) /\ Len(Backoff) \in Nat
    BY QueueAssumption
  <2> QED
    BY <2>1, QueueAssumption DEF Init, TypeOK, NoTimer
<1> QED
  BY <1>1 DEF Init, Inv, DirtyIsScheduled, UnreadAreKnown, NoNodeForgotten,
              ChangeNeverLost

(* An added node is on its way, and so is every other that was.            *)
LEMMA AddKeepsInv ==
  ASSUME Inv, NEW n \in Node, Add(n),
         UNCHANGED <<known, workerVars, failures, since, unread, changes>>,
         notices' \subseteq notices, notices \subseteq notices' \cup {n},
         due' \in [Node -> Nat \cup {NoTimer}],
         \A m \in Node : m # n => due'[m] = due[m]
  PROVE  Inv'
<1>1. /\ queue' \in Seq(Node) /\ dirty' \subseteq Node
      /\ Range(queue) \subseteq Range(queue') /\ dirty \subseteq dirty'
      /\ n \in dirty' /\ (n \in Range(queue') \/ n = current)
      /\ DirtyIsScheduled'
  BY AddFacts DEF Inv, workerVars
<1>2. TypeOK'
  BY <1>1 DEF Inv, TypeOK, workerVars
<1>3. NoNodeForgotten'
  BY <1>1 DEF Inv, TypeOK, NoNodeForgotten, InHand, workerVars
<1>4. ChangeNeverLost'
  BY <1>1 DEF Inv, TypeOK, ChangeNeverLost, workerVars
<1> QED
  BY <1>1, <1>2, <1>3, <1>4 DEF Inv, UnreadAreKnown

(* The reconcile of a node that was read ends: it waits or is queued.      *)
LEMMA DoneKeepsInv ==
  ASSUME Inv, phase = "reading", NEW d \in Nat, DoneAddAfter(current, d),
         UNCHANGED <<known, since, unread, changes>>,
         notices \subseteq notices', notices' \subseteq Node,
         failures' \in [Node -> 0 .. Len(Backoff)]
  PROVE  Inv'
<1>1. current \in Node
  BY DEF Inv, TypeOK
<1>2. /\ queue' \in Seq(Node) /\ dirty' \subseteq Node
      /\ due' \in [Node -> Nat \cup {NoTimer}]
      /\ phase' = "idle" /\ current' = NoNode /\ spent' = 0
      /\ Range(queue) \subseteq Range(queue')
      /\ \A n \in Node : due[n] # NoTimer => due'[n] # NoTimer
      /\ current \in Range(queue') \/ due'[current] # NoTimer
      /\ current \in dirty => current \in Range(queue')
      /\ DirtyIsScheduled'
  BY <1>1, DoneFacts DEF Inv
<1>3. TypeOK'
  BY <1>2, QueueAssumption DEF Inv, TypeOK
<1>4. NoNodeForgotten'
  BY <1>2 DEF Inv, TypeOK, NoNodeForgotten, InHand
<1>5. ChangeNeverLost'
  BY <1>2 DEF Inv, TypeOK, ChangeNeverLost
<1> QED
  BY <1>2, <1>3, <1>4, <1>5 DEF Inv, UnreadAreKnown

LEMMA NextInv == Inv /\ [Next]_vars => Inv'
<1> SUFFICES ASSUME Inv, [Next]_vars PROVE Inv'
  OBVIOUS
<1> USE DEF Inv
<1>0. TypeOK
  OBVIOUS
<1>1. ASSUME NEW n \in Node, NodeAppears(n) PROVE Inv'
  <2> USE <1>1 DEF NodeAppears, queueVars, workerVars, timerVars
  <2>1. TypeOK'
    BY <1>0, ChangesCounted DEF TypeOK
  <2>2. DirtyIsScheduled' /\ UnreadAreKnown'
    BY DEF DirtyIsScheduled, UnreadAreKnown
  <2>3. NoNodeForgotten'
    BY DEF NoNodeForgotten, InHand
  <2>4. ChangeNeverLost'
    BY DEF ChangeNeverLost
  <2> QED
    BY <2>1, <2>2, <2>3, <2>4
<1>2. ASSUME NEW n \in Node, NodeDisappears(n) PROVE Inv'
  <2> USE <1>2 DEF NodeDisappears, queueVars, workerVars, timerVars
  <2>1. TypeOK'
    BY <1>0, ChangesCounted DEF TypeOK
  <2>2. DirtyIsScheduled' /\ UnreadAreKnown'
    BY DEF DirtyIsScheduled, UnreadAreKnown
  <2>3. NoNodeForgotten' /\ ChangeNeverLost'
    BY DEF NoNodeForgotten, InHand, ChangeNeverLost
  <2> QED
    BY <2>1, <2>2, <2>3
<1>3. ASSUME NEW n \in Node, Annotated(n) PROVE Inv'
  <2> USE <1>3 DEF Annotated, queueVars, workerVars, timerVars
  <2>1. notices' = notices \cup {n}
    BY DEF Updated, UpdateFunc
  <2>2. TypeOK'
    BY <1>0, <2>1, ChangesCounted DEF TypeOK
  <2>3. DirtyIsScheduled' /\ UnreadAreKnown'
    BY DEF DirtyIsScheduled, UnreadAreKnown
  <2>4. NoNodeForgotten' /\ ChangeNeverLost'
    BY <2>1 DEF NoNodeForgotten, InHand, ChangeNeverLost
  <2> QED
    BY <2>2, <2>3, <2>4
<1>4. ASSUME NEW n \in Node, Deliver(n) PROVE Inv'
  <2>1. due' \in [Node -> Nat \cup {NoTimer}]
    BY <1>4 DEF Deliver, timerVars, TypeOK
  <2> QED
    BY <1>4, <2>1, AddKeepsInv DEF Deliver, timerVars
<1>5. ASSUME NEW n \in Node, TimerFires(n) PROVE Inv'
  <2>1. /\ due' \in [Node -> Nat \cup {NoTimer}]
        /\ \A m \in Node : m # n => due'[m] = due[m]
    BY <1>5 DEF TimerFires, TypeOK
  <2> QED
    BY <1>5, <2>1, AddKeepsInv DEF TimerFires
<1>6. CASE Take
  <2> USE <1>6 DEF Take, timerVars
  <2>1. /\ queue' \in Seq(Node) /\ current' \in Node
        /\ \A x \in Range(queue) : x = current' \/ x \in Range(queue')
    BY <1>0, TailRange DEF TypeOK
  <2>2. TypeOK'
    BY <1>0, <2>1, QueueAssumption DEF TypeOK
  <2>3. DirtyIsScheduled' /\ UnreadAreKnown'
    BY <1>0, <2>1, QueueAssumption DEF TypeOK, DirtyIsScheduled, UnreadAreKnown
  <2>4. NoNodeForgotten'
    BY <1>0, <2>1, QueueAssumption DEF TypeOK, NoNodeForgotten, InHand
  <2>5. ChangeNeverLost'
    BY <1>0, <2>1, QueueAssumption DEF TypeOK, ChangeNeverLost
  <2> QED
    BY <2>2, <2>3, <2>4, <2>5
<1>7. CASE Read
  <2> USE <1>7 DEF Read, queueVars, timerVars
  <2>1. TypeOK'
    <3>1. current \in Node
      BY <1>0 DEF TypeOK
    <3>2. /\ since' \in [Node -> Nat] /\ unread' \subseteq Node
          /\ phase' \in {"reading", "absent"}
      <4>1. CASE current \in known
        <5>1. /\ since' = [since EXCEPT ![current] = 0]
              /\ unread' = unread \ {current} /\ phase' = "reading"
          BY <4>1
        <5>2. since' \in [Node -> Nat]
          BY <1>0, <3>1, <5>1 DEF TypeOK
        <5> QED
          BY <1>0, <5>1, <5>2 DEF TypeOK
      <4>2. CASE current \notin known
        BY <1>0, <4>2 DEF TypeOK
      <4> QED
        BY <4>1, <4>2
    <3> QED
      BY <1>0, <3>1, <3>2, QueueAssumption DEF TypeOK
  <2>2. DirtyIsScheduled' /\ UnreadAreKnown'
    BY DEF DirtyIsScheduled, UnreadAreKnown
  <2>3. NoNodeForgotten'
    BY DEF NoNodeForgotten, InHand
  <2>4. ChangeNeverLost'
    BY DEF ChangeNeverLost, UnreadAreKnown
  <2> QED
    BY <2>1, <2>2, <2>3, <2>4
<1>8. ASSUME NEW wrote \in BOOLEAN, Succeeds(wrote) PROVE Inv'
  <2>1. failures' \in [Node -> 0 .. Len(Backoff)]
    BY <1>0, <1>8, QueueAssumption DEF Succeeds, TypeOK
  <2>2. notices' = notices
    BY <1>8 DEF Succeeds, Updated, UpdateFunc
  <2>3. PollDelay \in Nat
    BY QueueAssumption DEF PollDelay
  <2>4. notices' \subseteq Node
    BY <1>0, <2>2 DEF TypeOK
  <2> QED
    BY <1>8, <2>1, <2>2, <2>3, <2>4, DoneKeepsInv DEF Succeeds
<1>9. CASE Fails
  <2>1. current \in Node /\ failures[current] \in 0 .. Len(Backoff)
    BY <1>0, <1>9 DEF Fails, TypeOK
  <2>2. Len(Backoff) \in Nat \ {0}
    BY QueueAssumption
  <2>3. Least(failures[current] + 1, Len(Backoff)) \in 1 .. Len(Backoff)
    BY <2>1, <2>2 DEF Least
  <2>4. /\ failures' \in [Node -> 0 .. Len(Backoff)]
        /\ failures'[current] \in 1 .. Len(Backoff)
    BY <1>0, <1>9, <2>1, <2>2, <2>3 DEF Fails, TypeOK
  <2>5. Backoff[failures'[current]] \in Nat
    BY <2>4, BackoffIsDelay
  <2>6. notices' = notices /\ notices' \subseteq Node
    BY <1>0, <1>9 DEF Fails, TypeOK
  <2> QED
    BY <1>9, <2>4, <2>5, <2>6, DoneKeepsInv DEF Fails
<1>10. CASE EndsAbsent
  <2> USE <1>10 DEF EndsAbsent, Done
  <2>1. /\ queue' \in Seq(Node) /\ dirty' \subseteq Node
        /\ Range(queue) \subseteq Range(queue')
        /\ current \in dirty => current \in Range(queue')
        /\ DirtyIsScheduled'
    <3>1. current \in Node
      BY <1>0 DEF TypeOK
    <3> QED
      BY <1>0, <3>1, RequeueFacts
  <2>2. TypeOK'
    BY <1>0, <2>1, QueueAssumption DEF TypeOK
  <2>3. NoNodeForgotten'
    BY <1>0, <2>1 DEF TypeOK, NoNodeForgotten, InHand
  <2>4. ChangeNeverLost'
    BY <1>0, <2>1 DEF TypeOK, ChangeNeverLost
  <2> QED
    BY <2>1, <2>2, <2>3, <2>4 DEF UnreadAreKnown
<1>11. CASE Restart
  <2>1. TypeOK'
    <3>1. <<>> \in Seq(Node) /\ Len(Backoff) \in Nat
      BY QueueAssumption
    <3> QED
      BY <1>0, <1>11, <3>1, ChangesCounted, QueueAssumption DEF Restart, TypeOK, NoTimer
  <2> QED
    BY <1>11, <2>1 DEF Restart, DirtyIsScheduled, UnreadAreKnown,
       NoNodeForgotten, ChangeNeverLost
<1>12. CASE Tick
  <2> USE <1>12 DEF Tick, queueVars
  <2>1. /\ due' \in [Node -> Nat \cup {NoTimer}]
        /\ \A n \in Node : due[n] # NoTimer => due'[n] # NoTimer
    BY <1>0 DEF TypeOK, NoTimer
  <2>2. spent' \in 0 .. ReconcileTime /\ since' \in [Node -> Nat]
    BY <1>0, QueueAssumption DEF TypeOK
  <2>3. TypeOK'
    BY <1>0, <2>1, <2>2 DEF TypeOK
  <2>4. NoNodeForgotten'
    BY <1>0, <2>1 DEF TypeOK, NoNodeForgotten, InHand
  <2> QED
    BY <2>3, <2>4 DEF DirtyIsScheduled, UnreadAreKnown, ChangeNeverLost
<1>13. CASE UNCHANGED vars
  BY <1>13 DEF vars, queueVars, workerVars, timerVars, TypeOK, DirtyIsScheduled,
               UnreadAreKnown, NoNodeForgotten, InHand, ChangeNeverLost
<1> QED
  BY <1>1, <1>2, <1>3, <1>4, <1>5, <1>6, <1>7, <1>8, <1>9, <1>10, <1>11, <1>12,
     <1>13 DEF Next, NodeEvent, Ends

LEMMA Invariance == Spec => []Inv
BY InitInv, NextInv, PTL DEF Spec

-----------------------------------------------------------------------------
(* Every node in the cache will be read again, whatever is deleted and     *)
(* recreated, however its reconciles end and the process restarts: the     *)
(* polling of Reconcile (RequeueAfter, node_controller.go:186) never stops *)
(* while there is a node to poll.                                          *)
THEOREM QueueForgetsNoNode == Spec => []NoNodeForgotten
BY Invariance, PTL DEF Inv

(* A change the event filter lets through (node_controller.go:257-273) is  *)
(* on its way to a reconcile that reads it, at every moment until then.    *)
THEOREM QueueLosesNoChange == Spec => []ChangeNeverLost
BY Invariance, PTL DEF Inv

(* The queue, the worker and the timers stay in their types.               *)
THEOREM QueueTypes == Spec => []TypeOK
BY Invariance, PTL DEF Inv
-----------------------------------------------------------------------------
(* Implementing NodePolling, but for its fairness. *)

(* The node a reconcile has read and not ended with. *)
Reading == IF phase = "reading" THEN current ELSE NoNode

LEMMA PollingStep ==
  ASSUME TypeOK, TypeOK', [Next]_vars
  PROVE  [Polling!Next]_(Polling!vars)
<1>1. known' \in SUBSET Node
  BY DEF TypeOK
<1>2. ASSUME NEW n \in Node, NodeEvent(n) PROVE Polling!NodesChange
  BY <1>1, <1>2
  DEF NodeEvent, NodeAppears, NodeDisappears, Annotated, workerVars, Polling!NodesChange
<1>3. CASE Read
  <2>1. Reading = NoNode /\ UNCHANGED <<known, current>> /\ current \in Node
    BY <1>3 DEF Read, Reading, TypeOK
  <2>2. CASE current \in known
    <3>1. Reading' = current
      BY <1>3, <2>1, <2>2 DEF Read, Reading
    <3>2. Polling!Begin(current)
      BY <2>1, <2>2, <3>1 DEF Polling!Begin, Reading
    <3> QED
      BY <2>1, <3>2 DEF Polling!Next
  <2>3. CASE current \notin known
    BY <1>3, <2>1, <2>3 DEF Read, Reading, Polling!vars
  <2> QED
    BY <2>2, <2>3 DEF Polling!vars, Reading
<1>4. CASE Ends \/ Restart
  <2>1. phase' = "idle" /\ UNCHANGED known
    BY <1>4 DEF Ends, Succeeds, Fails, EndsAbsent, DoneAddAfter, Done, Restart
  <2>2. Polling!End
    BY <2>1 DEF Polling!End
  <2> QED
    BY <2>2 DEF Polling!Next
<1>5. CASE Take \/ Tick \/ (\E n \in Node : Deliver(n) \/ TimerFires(n))
            \/ UNCHANGED vars
  BY <1>5 DEF Take, Tick, Deliver, TimerFires, Reading, workerVars, vars, Polling!vars
<1> QED
  BY <1>2, <1>3, <1>4, <1>5 DEF Next, Polling!Next, Polling!vars, Reading

(* What the queue, its timers and the process that restarts make of the    *)
(* nodes is what NodeHealthController assumes of its Begin: one reconcile  *)
(* at a time, each of a node that is known when it is read.  That a known  *)
(* node is read again and again is left to TLC (ImplementsNodePolling).    *)
THEOREM QueuePollsNodes ==
  Spec => Polling!Init /\ [][Polling!Next]_(Polling!vars)
<1>1. Init => Polling!Init
  BY DEF Init, Polling!Init
<1>2. TypeOK /\ TypeOK' /\ [Next]_vars => [Polling!Next]_(Polling!vars)
  BY PollingStep
<1> QED
  BY <1>1, <1>2, QueueTypes, PTL DEF Spec
-----------------------------------------------------------------------------
(* How late a node may be read. *)

(* The ticks that i reconciles take at worst. *)
Turns(i) == i * ReconcileTime

LEMMA TurnsFacts ==
  /\ Turns(0) = 0
  /\ \A i \in Nat : Turns(i) \in Nat /\ Turns(i + 1) = Turns(i) + ReconcileTime
  /\ \A i, j \in Nat : i <= j => Turns(i) <= Turns(j)
<1>1. ReconcileTime \in Nat
  BY QueueAssumption
<1>2. \A i \in Nat : i * ReconcileTime \in Nat
  BY <1>1
<1>3. \A i \in Nat : (i + 1) * ReconcileTime = i * ReconcileTime + ReconcileTime
  BY <1>1
<1>4. ASSUME NEW i \in Nat, NEW j \in Nat, i <= j
      PROVE  i * ReconcileTime <= j * ReconcileTime
  <2>1. PICK d \in Nat : j = i + d
    <3>1. j - i \in Nat /\ j = i + (j - i)
      BY <1>4
    <3> QED
      BY <3>1
  <2>2. j * ReconcileTime = i * ReconcileTime + d * ReconcileTime
    BY <1>1, <2>1
  <2> QED
    BY <1>2, <2>2
<1> QED
  BY <1>1, <1>2, <1>3, <1>4 DEF Turns

(* Of finitely many delays one is the longest. *)
LEMMA LongestDelay ==
  /\ Longest \in Range(Backoff) \cup {PollDelay}
  /\ \A d \in Range(Backoff) \cup {PollDelay} : Longest >= d
<1> DEFINE First(k) == {PollDelay} \cup {Backoff[j] : j \in 1 .. k}
           HasLongest(k) == \E d \in First(k) : \A e \in First(k) : d >= e
           Unbounded == {k \in 0 .. Len(Backoff) : ~HasLongest(k)}
<1>1. /\ PollDelay \in Nat /\ Len(Backoff) \in Nat
      /\ \A j \in 1 .. Len(Backoff) : Backoff[j] \in Nat
  BY QueueAssumption DEF PollDelay
<1>2. ASSUME Unbounded # {} PROVE FALSE
  <2>1. PICK k \in Unbounded : \A i \in Unbounded : <<i, k>> \notin OpToRel(<, Nat)
    <3>1. Unbounded \subseteq Nat
      BY <1>1
    <3> QED
      BY <1>2, <3>1, NatLessThanWellFounded, WFMin
  <2>2. k \in 0 .. Len(Backoff) /\ ~HasLongest(k)
    BY <2>1
  <2>3. k # 0
    <3>1. HasLongest(0)
      <4>1. \A j \in 1 .. 0 : FALSE
        OBVIOUS
      <4>2. \A e \in First(0) : e = PollDelay
        BY <4>1
      <4> QED
        BY <1>1, <4>2
    <3> QED
      BY <2>2, <3>1
  <2>4. k - 1 \in 0 .. Len(Backoff) /\ k - 1 < k /\ k \in 1 .. Len(Backoff)
    <3> HIDE DEF HasLongest
    <3> QED
      BY <1>1, <2>2, <2>3
  <2>5. HasLongest(k - 1)
    <3> HIDE DEF HasLongest
    <3>1. <<k - 1, k>> \in OpToRel(<, Nat)
      BY <1>1, <2>4 DEF OpToRel
    <3> QED
      BY <2>1, <2>4, <3>1
  <2>6. PICK d \in First(k - 1) : \A e \in First(k - 1) : d >= e
    BY <2>5
  <2>7. First(k) = First(k - 1) \cup {Backoff[k]}
    BY <2>4
  <2>8. d \in Nat /\ Backoff[k] \in Nat /\ \A e \in First(k - 1) : e \in Nat
    BY <1>1, <2>4
  <2>9. CASE d >= Backoff[k]
    BY <2>1, <2>6, <2>7, <2>9
  <2>10. CASE ~(d >= Backoff[k])
    <3>1. \A e \in First(k) : Backoff[k] >= e
      BY <2>6, <2>7, <2>8, <2>10
    <3> QED
      BY <2>1, <2>7, <3>1
  <2> QED
    BY <2>9, <2>10
<1>3. First(Len(Backoff)) = Range(Backoff) \cup {PollDelay}
  <2>1. DOMAIN Backoff = 1 .. Len(Backoff)
    BY QueueAssumption
  <2> QED
    BY <2>1 DEF Range
<1>4. HasLongest(Len(Backoff))
  <2> HIDE DEF HasLongest
  <2>1. Len(Backoff) \in 0 .. Len(Backoff) /\ Unbounded = {}
    BY <1>1, <1>2
  <2> QED
    BY <2>1
<1>5. \E d \in Range(Backoff) \cup {PollDelay} :
        \A e \in Range(Backoff) \cup {PollDelay} : d >= e
  BY <1>3, <1>4
<1> QED
  BY <1>5 DEF Longest

LEMMA LatestFacts ==
  /\ Longest \in Nat /\ PollDelay \in Nat /\ PollDelay <= Longest
  /\ \A k \in 1 .. Len(Backoff) : Backoff[k] <= Longest
  /\ ReconcileTime \in Nat /\ Cardinality(Node) \in Nat
  /\ Latest = Longest + Turns(Cardinality(Node))
<1>1. /\ PollDelay \in Nat /\ ReconcileTime \in Nat
      /\ \A j \in 1 .. Len(Backoff) : Backoff[j] \in Nat
      /\ DOMAIN Backoff = 1 .. Len(Backoff)
  BY QueueAssumption DEF PollDelay
<1>2. Cardinality(Node) \in Nat
  BY QueueAssumption, FS_CardinalityType
<1>3. /\ PollDelay \in Range(Backoff) \cup {PollDelay}
      /\ \A k \in 1 .. Len(Backoff) : Backoff[k] \in Range(Backoff) \cup {PollDelay}
      /\ Range(Backoff) \cup {PollDelay} \subseteq Nat
  BY <1>1 DEF Range
<1> QED
  BY <1>1, <1>2, <1>3, LongestDelay DEF Latest, Turns

(* A queue that names a node at most once, and not the one in hand, is no  *)
(* longer than the nodes that are left.                                    *)
Distinct(q) == \A i, j \in DOMAIN q : q[i] = q[j] => i = j

LEMMA QueueLength ==
  ASSUME NEW q \in Seq(Node), Distinct(q),
         NEW n \in Node \cup {NoNode}, n \notin Range(q)
  PROVE  IF n = NoNode THEN Len(q) <= Cardinality(Node)
                       ELSE Len(q) <= Cardinality(Node) - 1
<1> DEFINE Others == Node \ {n}
<1>1. Len(q) \in Nat /\ DOMAIN q = 1 .. Len(q) /\ IsFiniteSet(Node)
  BY QueueAssumption
<1>2. q \in [1 .. Len(q) -> Others]
  BY <1>1 DEF Range
<1>3. q \in Injection(1 .. Len(q), Others)
  BY <1>1, <1>2 DEF Injection, IsInjective, Distinct
<1>4. /\ IsFiniteSet(Others)
      /\ Cardinality(Others) =
           IF n \in Node THEN Cardinality(Node) - 1 ELSE Cardinality(Node)
  BY <1>1, FS_RemoveElement
<1>5. Cardinality(1 .. Len(q)) <= Cardinality(Others)
  BY <1>3, <1>4, FS_Injection
<1>6. Cardinality(1 .. Len(q)) = Len(q)
  BY <1>1, FS_Interval
<1> QED
  BY <1>4, <1>5, <1>6, QueueAssumption

(* What is left of the reconcile in hand, and one turn of every node ahead *)
(* of a place in the queue, is at most one turn of every other node.       *)
LEMMA Ahead ==
  ASSUME NEW q \in Seq(Node), Distinct(q),
         NEW n \in Node \cup {NoNode}, n \notin Range(q),
         NEW busy \in 0 .. ReconcileTime, n = NoNode => busy = 0,
         NEW i \in DOMAIN q
  PROVE  /\ busy + Turns(i - 1) \in Nat
         /\ Longest + ReconcileTime + busy + Turns(i - 1) <= Latest
<1> DEFINE N == Cardinality(Node)
<1>1. /\ N \in Nat /\ Longest \in Nat /\ ReconcileTime \in Nat
      /\ Latest = Longest + Turns(N)
  BY LatestFacts
<1> HIDE DEF N
<1>2. /\ Len(q) \in Nat /\ i \in 1 .. Len(q)
      /\ i \in Nat /\ i + 1 \in Nat /\ i - 1 \in Nat /\ (i - 1) + 1 = i
  OBVIOUS
<1>3. Turns(i - 1) \in Nat /\ Turns(i) = Turns(i - 1) + ReconcileTime
  BY <1>2, TurnsFacts
<1>4. i <= N
  BY <1>1, <1>2, QueueLength DEF N
<1>5. CASE n = NoNode
  <2>1. Turns(i) <= Turns(N) /\ Turns(N) \in Nat
    BY <1>1, <1>2, <1>4, TurnsFacts
  <2> QED
    BY <1>1, <1>3, <1>5, <2>1
<1>6. CASE n # NoNode
  <2>1. i + 1 <= N
    BY <1>1, <1>2, <1>6, QueueLength DEF N
  <2>2. /\ Turns(i + 1) = Turns(i) + ReconcileTime /\ Turns(i + 1) <= Turns(N)
        /\ Turns(i) \in Nat /\ Turns(N) \in Nat
    BY <1>1, <1>2, <2>1, TurnsFacts
  <2>3. busy \in Nat /\ busy <= ReconcileTime
    BY <1>1
  <2> DEFINE before == Turns(i - 1)
             all == Turns(N)
  <2>4. /\ before \in Nat /\ all \in Nat
        /\ all >= before + ReconcileTime + ReconcileTime
    BY <1>1, <1>3, <2>2
  <2> HIDE DEF before, all
  <2>5. Longest + ReconcileTime + busy + before <= Longest + all
    BY <1>1, <2>3, <2>4
  <2>6. busy + before \in Nat
    BY <2>3, <2>4
  <2> QED
    BY <1>1, <2>5, <2>6 DEF before, all
<1> QED
  BY <1>5, <1>6
(* A node is queued once and, while it is in hand, not at all; only a      *)
(* reconcile that has read its node has taken time; no timer is set to     *)
(* more than the longest delay.                                            *)
QueueShape ==
  /\ Distinct(queue)
  /\ Range(queue) \subseteq dirty
  /\ current \notin Range(queue)
  /\ phase # "reading" => spent = 0
  /\ \A n \in Node : due[n] <= Longest

(* What is left of the reconcile in hand, at worst. *)
Busy == IF phase = "idle" THEN 0 ELSE ReconcileTime - spent

(* A node whose timer runs was read before it was set; one in hand has not *)
(* waited since it was read; one in the queue waits for those before it;   *)
(* and one that is announced and none of these has just appeared.          *)
TimerInTime(n) == due[n] # NoTimer => since[n] + due[n] <= Longest + ReconcileTime

InHandInTime(n) ==
  current = n => IF phase = "taken" THEN since[n] <= Latest ELSE since[n] <= spent

InTurn(n) ==
  \A i \in DOMAIN queue :
    queue[i] = n => since[n] + Busy + Turns(i - 1) <= Latest

NoticeInTime(n) ==
  n \in notices => \/ since[n] = 0 \/ due[n] # NoTimer
                   \/ n \in Range(queue) \/ n = current

InTime(n) == TimerInTime(n) /\ InHandInTime(n) /\ InTurn(n) /\ NoticeInTime(n)

Punctual == \A n \in known : InTime(n)

LEMMA TimeTypes ==
  ASSUME TypeOK, QueueShape
  PROVE  /\ Busy \in 0 .. ReconcileTime /\ (current = NoNode => Busy = 0)
         /\ spent \in Nat /\ spent <= ReconcileTime
         /\ \A n \in Node : /\ since[n] \in Nat
                            /\ due[n] \in Nat \cup {NoTimer}
                            /\ due[n] # NoTimer => due[n] \in Nat
         /\ Latest \in Nat /\ Longest + ReconcileTime \in Nat
         /\ Latest >= Longest
         /\ Node # {} => Latest >= Longest + ReconcileTime
<1>1. /\ Longest \in Nat /\ ReconcileTime \in Nat /\ Cardinality(Node) \in Nat
      /\ Latest = Longest + Turns(Cardinality(Node))
  BY LatestFacts
<1>2. Turns(Cardinality(Node)) \in Nat
  BY <1>1, TurnsFacts
<1>3. Busy \in 0 .. ReconcileTime /\ (current = NoNode => Busy = 0)
  BY <1>1 DEF TypeOK, Busy
<1>4. ASSUME Node # {} PROVE Turns(Cardinality(Node)) >= ReconcileTime
  <2>1. Cardinality(Node) # 0
    BY <1>4, QueueAssumption, FS_EmptySet
  <2>2. 0 \in Nat /\ 0 + 1 = 1 /\ 1 \in Nat /\ 1 <= Cardinality(Node)
    BY <1>1, <2>1
  <2>3. Turns(1) = ReconcileTime
    BY <1>1, <2>2, TurnsFacts
  <2> QED
    BY <1>1, <2>2, <2>3, TurnsFacts
<1> QED
  BY <1>1, <1>2, <1>3, <1>4 DEF TypeOK

(* Appending what is not there, and taking the first, keep a queue's nodes *)
(* distinct.                                                               *)
LEMMA AppendDistinct ==
  ASSUME NEW q \in Seq(Node), Distinct(q), NEW n \in Node, n \notin Range(q)
  PROVE  /\ Distinct(Append(q, n))
         /\ DOMAIN Append(q, n) = DOMAIN q \cup {Len(q) + 1}
         /\ Append(q, n)[Len(q) + 1] = n
         /\ \A i \in DOMAIN q : Append(q, n)[i] = q[i]
<1>1. Len(q) \in Nat /\ DOMAIN q = 1 .. Len(q)
  OBVIOUS
<1>2. /\ DOMAIN Append(q, n) = 1 .. Len(q) + 1
      /\ Append(q, n)[Len(q) + 1] = n
      /\ \A i \in 1 .. Len(q) : Append(q, n)[i] = q[i]
  OBVIOUS
<1>3. DOMAIN Append(q, n) = DOMAIN q \cup {Len(q) + 1}
  BY <1>1, <1>2
<1>4. \A i \in DOMAIN q : q[i] # n
  BY DEF Range
<1> QED
  BY <1>1, <1>2, <1>3, <1>4 DEF Distinct

LEMMA TailDistinct ==
  ASSUME NEW q \in Seq(Node), Distinct(q), q # <<>>
  PROVE  /\ Distinct(Tail(q)) /\ Head(q) \notin Range(Tail(q))
         /\ Range(Tail(q)) \subseteq Range(q) /\ 1 \in DOMAIN q /\ q[1] = Head(q)
         /\ \A i \in DOMAIN Tail(q) : /\ i \in Nat /\ i - 1 \in Nat
                                      /\ i + 1 \in DOMAIN q /\ Tail(q)[i] = q[i + 1]
<1>1. Len(q) \in Nat /\ Len(q) # 0 /\ DOMAIN q = 1 .. Len(q) /\ q[1] = Head(q)
  OBVIOUS
<1>2. /\ DOMAIN Tail(q) = 1 .. Len(q) - 1
      /\ \A i \in 1 .. Len(q) - 1 : Tail(q)[i] = q[i + 1]
  OBVIOUS
<1>3. \A i \in DOMAIN Tail(q) : /\ i \in Nat /\ i - 1 \in Nat
                                /\ i + 1 \in DOMAIN q /\ Tail(q)[i] = q[i + 1]
  BY <1>1, <1>2
<1>4. Distinct(Tail(q))
  <2> SUFFICES ASSUME NEW i \in DOMAIN Tail(q), NEW j \in DOMAIN Tail(q),
                      Tail(q)[i] = Tail(q)[j]
               PROVE  i = j
    BY DEF Distinct
  <2>1. i + 1 = j + 1
    BY <1>3 DEF Distinct
  <2> QED
    BY <1>3, <2>1
<1>5. Head(q) \notin Range(Tail(q))
  <2> SUFFICES ASSUME NEW i \in DOMAIN Tail(q), Tail(q)[i] = q[1] PROVE FALSE
    BY <1>1 DEF Range
  <2>1. i + 1 = 1 /\ i \in Nat /\ i # 0
    BY <1>1, <1>2, <1>3 DEF Distinct
  <2> QED
    BY <2>1
<1>6. Range(Tail(q)) \subseteq Range(q)
  BY <1>3 DEF Range
<1>7. 1 \in DOMAIN q
  BY <1>1
<1> QED
  BY <1>1, <1>3, <1>4, <1>5, <1>6, <1>7
(* An added node waits for a turn of every other node, at worst. *)
LEMMA AddKeepsTime ==
  ASSUME Inv, QueueShape, Punctual, NEW n \in Node, Add(n),
         UNCHANGED <<known, workerVars, since>>, notices' \subseteq notices,
         \A m \in Node : due'[m] = due[m] \/ (m = n /\ due'[m] = NoTimer),
         n \in known => since[n] <= Longest + ReconcileTime \/ n \in dirty \/ n = current
  PROVE  QueueShape' /\ Punctual'
<1> USE DEF Inv
<1>1. /\ queue \in Seq(Node) /\ dirty' = dirty \cup {n}
      /\ current \in Node \cup {NoNode} /\ Busy' = Busy /\ known \subseteq Node
      /\ UNCHANGED <<phase, current, spent>>
      /\ n \in Range(queue') \/ n = current
      /\ Range(queue) \subseteq Range(queue')
  BY AddFacts DEF TypeOK, Busy, Add, workerVars
<1>2. \A m \in Node : due'[m] <= Longest
  BY LatestFacts DEF QueueShape, NoTimer
<1>3. Distinct(queue') /\ Range(queue') \subseteq Range(queue) \cup {n}
      /\ current \notin Range(queue')
  <2>1. CASE n \in dirty \/ n = current
    BY <2>1 DEF Add, QueueShape
  <2>2. CASE ~(n \in dirty \/ n = current)
    <3>1. queue' = Append(queue, n) /\ n \notin Range(queue)
      BY <2>2 DEF Add, QueueShape
    <3> QED
      BY <1>1, <2>2, <3>1, AppendDistinct, AppendRange DEF QueueShape
  <2> QED
    BY <2>1, <2>2
<1>4. QueueShape'
  BY <1>1, <1>2, <1>3 DEF QueueShape
<1>5. ASSUME NEW m \in known PROVE InTime(m)'
  <2>1. InTime(m) /\ m \in Node
    BY <1>1 DEF Punctual
  <2>2. TimerInTime(m)' /\ InHandInTime(m)'
    BY <1>1, <2>1 DEF InTime, TimerInTime, InHandInTime
  <2>3. NoticeInTime(m)'
    BY <1>1, <2>1 DEF InTime, NoticeInTime
  <2>4. InTurn(m)'
    <3> SUFFICES ASSUME NEW i \in DOMAIN queue', queue'[i] = m
                 PROVE  since[m] + Busy + Turns(i - 1) <= Latest
      BY <1>1 DEF InTurn
    <3>1. CASE i \in DOMAIN queue /\ queue[i] = queue'[i]
      BY <2>1, <3>1 DEF InTime, InTurn
    <3>2. CASE ~(i \in DOMAIN queue /\ queue[i] = queue'[i])
      <4>1. queue' = Append(queue, n) /\ n \notin dirty /\ n # current
        BY <3>2 DEF Add
      <4>2. n \notin Range(queue)
        BY <4>1 DEF QueueShape
      <4>3. m = n
        BY <1>1, <3>2, <4>1, <4>2, AppendDistinct DEF QueueShape
      <4>4. since[m] <= Longest + ReconcileTime
        BY <4>1, <4>3
      <4>5. queue' \in Seq(Node)
        BY <1>1, <4>1, AppendRange
      <4>6. /\ Busy + Turns(i - 1) \in Nat
            /\ Longest + ReconcileTime + Busy + Turns(i - 1) <= Latest
        BY <1>1, <1>3, <4>5, TimeTypes, Ahead
      <4> DEFINE ahead == Turns(i - 1)
      <4>7. /\ Busy \in Nat /\ ahead \in Nat /\ since[m] \in Nat
            /\ Longest \in Nat /\ ReconcileTime \in Nat /\ Latest \in Nat
        <5>1. i - 1 \in Nat
          BY <4>5
        <5>2. ahead \in Nat
          BY <5>1, TurnsFacts
        <5> QED
          BY <2>1, <5>2, TimeTypes, LatestFacts
      <4> HIDE DEF ahead
      <4>8. since[m] + Busy + ahead <= Latest
        BY <4>4, <4>6, <4>7 DEF ahead
      <4> QED
        BY <4>8 DEF ahead
    <3> QED
      BY <3>1, <3>2
  <2> QED
    BY <2>2, <2>3, <2>4 DEF InTime
<1> QED
  BY <1>1, <1>4, <1>5 DEF Punctual

(* A reconcile that ends leaves the others less to wait for, and its own   *)
(* node, read when it began, with its timer or in its turn.                *)
LEMMA ReleaseKeepsTime ==
  ASSUME Inv, QueueShape, Punctual, phase \in {"reading", "absent"},
         NEW again \in BOOLEAN, again => current \in dirty',
         queue' = IF again THEN Append(queue, current) ELSE queue,
         dirty \subseteq dirty',
         phase' = "idle", current' = NoNode, spent' = 0,
         UNCHANGED <<known, notices, since>>,
         \A m \in Node : m # current => due'[m] = due[m],
         due'[current] \in Nat \cup {NoTimer}, due'[current] <= Longest,
         again \/ due'[current] # NoTimer \/ phase = "absent"
  PROVE  QueueShape' /\ Punctual'
<1> USE DEF Inv
<1>1. /\ queue \in Seq(Node) /\ current \in Node /\ known \subseteq Node
      /\ current \notin Range(queue) /\ NoNode \notin Node /\ Busy' = 0
  BY QueueAssumption DEF TypeOK, QueueShape, Busy
<1>2. /\ queue' \in Seq(Node) /\ Distinct(queue')
      /\ Range(queue') \subseteq dirty' /\ Range(queue) \subseteq Range(queue')
      /\ again => current \in Range(queue')
      /\ \A i \in DOMAIN queue' : \/ i \in DOMAIN queue /\ queue'[i] = queue[i]
                                  \/ queue'[i] = current
  <2>1. CASE again
    BY <1>1, <2>1, AppendDistinct, AppendRange DEF QueueShape
  <2>2. CASE ~again
    BY <1>1, <2>2 DEF QueueShape
  <2> QED
    BY <2>1, <2>2
<1>3. NoNode \notin Range(queue')
  BY <1>1, <1>2 DEF Range
<1>4. QueueShape'
  BY <1>2, <1>3 DEF QueueShape
<1>5. \A m \in known : since[m] \in Nat /\ m \in Node
  BY <1>1 DEF TypeOK
<1>6. current \in known => since[current] <= spent
  BY DEF Punctual, InTime, InHandInTime
<1>7. Busy \in Nat /\ spent \in Nat /\ spent <= ReconcileTime /\ Latest \in Nat
      /\ Longest \in Nat /\ ReconcileTime \in Nat
  BY TimeTypes, LatestFacts
<1>8. ASSUME NEW m \in known PROVE InTime(m)'
  <2>1. InTime(m)
    BY <1>8 DEF Punctual
  <2>2. TimerInTime(m)'
    <3>1. CASE m = current
      BY <1>5, <1>6, <1>7, <1>8, <3>1 DEF TimerInTime, NoTimer
    <3>2. CASE m # current
      BY <1>5, <2>1, <3>2 DEF InTime, TimerInTime
    <3> QED
      BY <3>1, <3>2
  <2>3. InHandInTime(m)'
    BY <1>1, <1>5 DEF InHandInTime
  <2>4. NoticeInTime(m)'
    <3>1. CASE m = current
      <4>1. phase = "absent" => since[m] = 0
        BY <1>5, <1>6, <3>1 DEF QueueShape
      <4> QED
        BY <1>2, <3>1, <4>1 DEF NoticeInTime
    <3>2. CASE m # current
      BY <1>2, <1>5, <2>1, <3>2 DEF InTime, NoticeInTime
    <3> QED
      BY <3>1, <3>2
  <2>5. InTurn(m)'
    <3> SUFFICES ASSUME NEW i \in DOMAIN queue', queue'[i] = m
                 PROVE  since[m] + 0 + Turns(i - 1) <= Latest
      BY <1>1 DEF InTurn
    <3> DEFINE ahead == Turns(i - 1)
    <3>1. ahead \in Nat
      <4>1. i - 1 \in Nat
        BY <1>2
      <4> QED
        BY <4>1, TurnsFacts
    <3>2. CASE i \in DOMAIN queue /\ queue'[i] = queue[i]
      <4>1. since[m] + Busy + ahead <= Latest
        BY <2>1, <3>2 DEF InTime, InTurn
      <4> HIDE DEF ahead
      <4>2. since[m] + 0 + ahead <= Latest
        BY <1>5, <1>7, <3>1, <4>1
      <4> QED
        BY <4>2 DEF ahead
    <3>3. CASE m = current
      <4>1. Longest + ReconcileTime + 0 + ahead <= Latest
        <5>1. 0 \in 0 .. ReconcileTime
          BY <1>7
        <5> QED
          BY <1>2, <1>3, <5>1, Ahead
      <4> HIDE DEF ahead
      <4>2. since[m] + 0 + ahead <= Latest
        BY <1>5, <1>6, <1>7, <3>1, <3>3, <4>1
      <4> QED
        BY <4>2 DEF ahead
    <3> QED
      BY <1>2, <3>2, <3>3
  <2> QED
    BY <2>2, <2>3, <2>4, <2>5 DEF InTime
<1> QED
  BY <1>4, <1>8 DEF Punctual
LEMMA TickKeepsTime ==
  ASSUME Inv, QueueShape, Punctual, Tick
  PROVE  QueueShape' /\ Punctual'
<1> USE DEF Inv
<1>1. /\ notices = {} /\ UNCHANGED <<known, notices, queue, dirty, phase, current>>
      /\ \A n \in Node : due[n] # NoTimer => due[n] \in Nat \ {0} /\ due'[n] = due[n] - 1
      /\ \A n \in Node : due[n] = NoTimer => due'[n] = NoTimer
      /\ \A n \in known : since'[n] = since[n] + 1
  BY DEF Tick, TypeOK, queueVars
<1>2. phase = "idle" => queue = <<>> /\ spent' = spent
  BY DEF Tick
<1>3. phase # "idle" => phase = "reading" /\ spent < ReconcileTime /\ spent' = spent + 1
  BY DEF Tick
<1>4. ReconcileTime \in Nat /\ spent \in Nat /\ Longest \in Nat /\ Latest \in Nat
      /\ \A n \in Node : since[n] \in Nat
  BY LatestFacts, TimeTypes
<1>5. QueueShape'
  <2>1. \A n \in Node : due'[n] <= Longest
    BY <1>1, <1>4 DEF QueueShape, NoTimer
  <2> QED
    BY <1>1, <1>2, <1>3, <2>1 DEF QueueShape
<1>6. ASSUME NEW n \in known PROVE InTime(n)'
  <2>1. InTime(n) /\ n \in Node
    BY DEF Punctual, TypeOK
  <2>2. TimerInTime(n)'
    <3>1. due'[n] # NoTimer => due[n] # NoTimer
      BY <1>1, <2>1
    <3> QED
      BY <1>1, <1>4, <2>1, <3>1 DEF InTime, TimerInTime
  <2>3. InHandInTime(n)'
    <3> SUFFICES ASSUME current = n PROVE phase # "taken" /\ since'[n] <= spent'
      BY <1>1 DEF InHandInTime
    <3>1. phase = "reading" /\ spent' = spent + 1
      BY <1>3, <2>1, QueueAssumption DEF TypeOK
    <3> QED
      BY <1>1, <1>4, <2>1, <3>1 DEF InTime, InHandInTime
  <2>4. InTurn(n)'
    <3> SUFFICES ASSUME NEW i \in DOMAIN queue, queue[i] = n
                 PROVE  since'[n] + Busy' + Turns(i - 1) <= Latest
      BY <1>1 DEF InTurn
    <3>1. /\ phase = "reading" /\ spent < ReconcileTime /\ spent' = spent + 1
          /\ phase' = "reading"
      BY <1>1, <1>2, <1>3
    <3>2. Busy = ReconcileTime - spent /\ Busy' = ReconcileTime - spent'
      BY <3>1 DEF Busy
    <3>3. since[n] + Busy + Turns(i - 1) <= Latest
      BY <2>1 DEF InTime, InTurn
    <3>4. since'[n] + Busy' = since[n] + Busy
      BY <1>1, <1>4, <2>1, <3>1, <3>2
    <3> QED
      BY <3>3, <3>4
  <2> QED
    BY <1>1, <2>2, <2>3, <2>4 DEF InTime, NoticeInTime
<1> QED
  BY <1>1, <1>5, <1>6 DEF Punctual

LEMMA TakeKeepsTime ==
  ASSUME Inv, QueueShape, Punctual, Take
  PROVE  QueueShape' /\ Punctual'
<1> USE DEF Inv
<1>1. /\ queue \in Seq(Node) /\ queue # <<>> /\ known \subseteq Node
      /\ phase = "idle" /\ phase' = "taken" /\ spent = 0
      /\ queue' = Tail(queue) /\ current' = Head(queue)
      /\ dirty' = dirty \ {Head(queue)}
      /\ UNCHANGED <<known, notices, spent, due, since>>
  BY DEF Take, TypeOK, QueueShape, timerVars
<1>2. /\ Distinct(queue') /\ current' \notin Range(queue')
      /\ Range(queue') \subseteq Range(queue) /\ 1 \in DOMAIN queue
      /\ queue[1] = current'
      /\ \A i \in DOMAIN queue' : /\ i \in Nat /\ i - 1 \in Nat
                                  /\ i + 1 \in DOMAIN queue /\ queue'[i] = queue[i + 1]
  BY <1>1, TailDistinct DEF QueueShape
<1>3. QueueShape'
  BY <1>1, <1>2 DEF QueueShape
<1>4. Busy = 0 /\ Busy' = ReconcileTime /\ ReconcileTime \in Nat
      /\ \A n \in Node : since[n] \in Nat
  BY <1>1, LatestFacts, TimeTypes DEF Busy
<1>5. ASSUME NEW n \in known PROVE InTime(n)'
  <2>1. InTime(n) /\ n \in Node
    BY <1>1 DEF Punctual
  <2>2. TimerInTime(n)'
    BY <1>1, <2>1 DEF InTime, TimerInTime
  <2>3. NoticeInTime(n)'
    BY <1>1, <2>1, TailRange, QueueAssumption DEF InTime, NoticeInTime, TypeOK
  <2>4. InHandInTime(n)'
    <3> SUFFICES ASSUME current' = n PROVE since[n] <= Latest
      BY <1>1 DEF InHandInTime
    <3>1. since[n] + Busy + Turns(1 - 1) <= Latest
      BY <1>2, <2>1 DEF InTime, InTurn
    <3>2. Turns(1 - 1) = 0
      <4>1. 1 - 1 = 0
        OBVIOUS
      <4> QED
        BY <4>1, TurnsFacts
    <3> QED
      BY <1>4, <2>1, <3>1, <3>2
  <2>5. InTurn(n)'
    <3> SUFFICES ASSUME NEW i \in DOMAIN queue', queue'[i] = n
                 PROVE  since[n] + Busy' + Turns(i - 1) <= Latest
      BY <1>1 DEF InTurn
    <3>1. i \in Nat /\ i - 1 \in Nat /\ (i + 1) - 1 = i /\ (i - 1) + 1 = i
      BY <1>2
    <3>2. since[n] + Busy + Turns((i + 1) - 1) <= Latest
      BY <1>2, <2>1 DEF InTime, InTurn
    <3>3. Turns((i + 1) - 1) = Turns(i)
      BY <3>1
    <3>4. Turns(i) = Turns(i - 1) + ReconcileTime /\ Turns(i - 1) \in Nat
      BY <3>1, TurnsFacts
    <3> DEFINE ahead == Turns(i - 1)
               before == Turns(i)
    <3>5. since[n] + Busy + before <= Latest /\ before = ahead + ReconcileTime /\ ahead \in Nat
      BY <3>2, <3>3, <3>4
    <3> HIDE DEF ahead, before
    <3>6. since[n] + Busy' + ahead <= Latest
      BY <1>4, <2>1, <3>5
    <3> QED
      BY <3>6 DEF ahead
  <2> QED
    BY <2>2, <2>3, <2>4, <2>5 DEF InTime
<1> QED
  BY <1>1, <1>3, <1>5 DEF Punctual

LEMMA ReadKeepsTime ==
  ASSUME Inv, QueueShape, Punctual, Read
  PROVE  QueueShape' /\ Punctual'
<1> USE DEF Inv
<1>1. /\ phase = "taken" /\ phase' \in {"reading", "absent"} /\ current \in Node
      /\ UNCHANGED <<known, notices, queue, dirty, current, spent, due>>
      /\ spent = 0 /\ Busy' = Busy /\ known \subseteq Node
      /\ \A n \in Node : since'[n] = IF n = current /\ n \in known THEN 0 ELSE since[n]
  BY DEF Read, queueVars, timerVars, TypeOK, QueueShape, Busy
<1>2. QueueShape'
  BY <1>1 DEF QueueShape
<1>3. ASSUME NEW n \in known PROVE InTime(n)'
  <2>1. InTime(n) /\ n \in Node
    BY <1>1 DEF Punctual
  <2>2. CASE n = current
    <3>1. since'[n] = 0 /\ n \notin Range(queue) /\ since[n] \in Nat
      BY <1>1, <2>1, <2>2 DEF QueueShape, TypeOK
    <3>2. TimerInTime(n)'
      <4>1. due[n] # NoTimer => due[n] \in Nat /\ due[n] <= Longest
        BY <2>1 DEF TypeOK, QueueShape
      <4> QED
        BY <1>1, <3>1, <4>1, LatestFacts DEF TimerInTime
    <3>3. InHandInTime(n)'
      BY <1>1, <3>1 DEF InHandInTime
    <3>4. InTurn(n)' /\ NoticeInTime(n)'
      BY <1>1, <3>1 DEF InTurn, Range, NoticeInTime
    <3> QED
      BY <3>2, <3>3, <3>4 DEF InTime
  <2>3. CASE n # current
    <3>1. since'[n] = since[n]
      BY <1>1, <2>1, <2>3
    <3> QED
      BY <1>1, <2>1, <2>3, <3>1
      DEF InTime, TimerInTime, InHandInTime, InTurn, NoticeInTime
  <2> QED
    BY <2>2, <2>3
<1> QED
  BY <1>1, <1>2, <1>3 DEF Punctual
LEMMA TimeStep == Inv /\ QueueShape /\ Punctual /\ [Next]_vars => QueueShape' /\ Punctual'
<1> SUFFICES ASSUME Inv, QueueShape, Punctual, [Next]_vars
             PROVE  QueueShape' /\ Punctual'
  OBVIOUS
<1> USE DEF Inv
<1>1. ASSUME NEW n \in Node, NodeAppears(n) PROVE QueueShape' /\ Punctual'
  <2>1. /\ known' = known \cup {n} /\ UNCHANGED <<queueVars, workerVars, timerVars>>
        /\ notices' = notices \cup {n} /\ known \subseteq Node
        /\ since'[n] = 0 /\ \A m \in Node : m # n => since'[m] = since[m]
    BY <1>1 DEF NodeAppears, TypeOK
  <2>2. QueueShape' /\ Busy' = Busy
    BY <2>1 DEF QueueShape, Busy, queueVars, workerVars, timerVars
  <2>3. InTime(n)'
    <3>1. TimerInTime(n)' /\ InHandInTime(n)' /\ NoticeInTime(n)'
      <4>1. /\ due[n] # NoTimer => due[n] \in Nat /\ due[n] <= Longest
            /\ Longest \in Nat /\ ReconcileTime \in Nat
            /\ spent \in Nat /\ Latest \in Nat
        BY LatestFacts, TimeTypes DEF TypeOK, QueueShape
      <4> QED
        BY <2>1, <4>1 DEF TimerInTime, InHandInTime, NoticeInTime, timerVars, workerVars
    <3>2. InTurn(n)'
      <4> SUFFICES ASSUME NEW i \in DOMAIN queue
                   PROVE  0 + Busy + Turns(i - 1) <= Latest
        BY <2>1, <2>2 DEF InTurn, queueVars
      <4>1. /\ Busy + Turns(i - 1) \in Nat
            /\ Longest + ReconcileTime + Busy + Turns(i - 1) <= Latest
        BY TimeTypes, Ahead DEF TypeOK, QueueShape
      <4> DEFINE ahead == Turns(i - 1)
      <4>2. i - 1 \in Nat
        BY DEF TypeOK
      <4>3. ahead \in Nat
        BY <4>2, TurnsFacts
      <4>4. Longest \in Nat /\ ReconcileTime \in Nat /\ Busy \in Nat /\ Latest \in Nat
        BY LatestFacts, TimeTypes
      <4>5. Longest + ReconcileTime + Busy + ahead <= Latest
        BY <4>1
      <4> HIDE DEF ahead
      <4>6. 0 + Busy + ahead <= Latest
        BY <4>3, <4>4, <4>5
      <4> QED
        BY <4>6 DEF ahead
    <3> QED
      BY <3>1, <3>2 DEF InTime
  <2>4. ASSUME NEW m \in known, m # n PROVE InTime(m)'
    <3>1. InTime(m) /\ since'[m] = since[m]
      BY <2>1, <2>4 DEF Punctual
    <3> QED
      BY <2>1, <2>2, <2>4, <3>1
      DEF InTime, TimerInTime, InHandInTime, InTurn, NoticeInTime, queueVars,
          workerVars, timerVars
  <2> QED
    BY <2>1, <2>2, <2>3, <2>4 DEF Punctual
<1>2. ASSUME NEW n \in Node, NodeDisappears(n) PROVE QueueShape' /\ Punctual'
  <2>1. /\ known' \subseteq known
        /\ UNCHANGED <<notices, queueVars, workerVars, timerVars, since>>
    BY <1>2 DEF NodeDisappears
  <2>2. QueueShape' /\ Busy' = Busy
    BY <2>1 DEF QueueShape, Busy, queueVars, workerVars, timerVars
  <2> QED
    BY <2>1, <2>2
    DEF Punctual, InTime, TimerInTime, InHandInTime, InTurn, NoticeInTime,
        queueVars, workerVars, timerVars
<1>3. ASSUME NEW n \in Node, Annotated(n) PROVE QueueShape' /\ Punctual'
  <2>1. /\ n \in known /\ notices' = notices \cup {n}
        /\ UNCHANGED <<known, queueVars, workerVars, timerVars, since>>
    BY <1>3 DEF Annotated, Updated, UpdateFunc
  <2>2. QueueShape' /\ Busy' = Busy
    BY <2>1 DEF QueueShape, Busy, queueVars, workerVars, timerVars
  <2>3. \/ n \in notices \/ due[n] # NoTimer
        \/ n \in Range(queue) \/ n = current
    BY <2>1 DEF NoNodeForgotten, InHand
  <2>4. ASSUME NEW m \in known PROVE NoticeInTime(m)'
    <3>1. NoticeInTime(m)
      BY DEF Punctual, InTime
    <3> QED
      BY <2>1, <2>3, <3>1 DEF NoticeInTime, queueVars, workerVars, timerVars
  <2> QED
    BY <2>1, <2>2, <2>4
    DEF Punctual, InTime, TimerInTime, InHandInTime, InTurn, queueVars,
        workerVars, timerVars
<1>4. ASSUME NEW n \in Node, Deliver(n) PROVE QueueShape' /\ Punctual'
  <2>1. n \in notices /\ notices' = notices \ {n} /\ Add(n)
        /\ UNCHANGED <<known, workerVars, timerVars, since>>
    BY <1>4 DEF Deliver
  <2>2. ASSUME n \in known, n \notin dirty, n # current
        PROVE  since[n] <= Longest + ReconcileTime
    <3>1. InTime(n) /\ n \notin Range(queue)
      BY <2>2 DEF Punctual, QueueShape
    <3>2. since[n] = 0 \/ due[n] # NoTimer
      BY <2>1, <2>2, <3>1 DEF InTime, NoticeInTime
    <3>3. /\ since[n] \in Nat /\ (due[n] # NoTimer => due[n] \in Nat)
          /\ Longest \in Nat /\ ReconcileTime \in Nat
      BY TimeTypes, LatestFacts
    <3> QED
      BY <3>1, <3>2, <3>3 DEF InTime, TimerInTime
  <2> QED
    BY <2>1, <2>2, AddKeepsTime DEF timerVars
<1>5. ASSUME NEW n \in Node, TimerFires(n) PROVE QueueShape' /\ Punctual'
  <2>1. /\ due[n] = 0 /\ Add(n)
        /\ UNCHANGED <<known, notices, workerVars, since>>
        /\ \A m \in Node : due'[m] = due[m] \/ (m = n /\ due'[m] = NoTimer)
    BY <1>5 DEF TimerFires, TypeOK
  <2>2. ASSUME n \in known PROVE since[n] <= Longest + ReconcileTime
    <3>1. TimerInTime(n) /\ since[n] \in Nat
      BY <2>2 DEF Punctual, InTime, TypeOK
    <3> QED
      BY <2>1, <3>1, LatestFacts DEF TimerInTime, NoTimer
  <2> QED
    BY <2>1, <2>2, AddKeepsTime
<1>6. CASE Take
  BY <1>6, TakeKeepsTime
<1>7. CASE Read
  BY <1>7, ReadKeepsTime
<1>8. ASSUME phase = "reading", NEW d \in Nat, d <= Longest, DoneAddAfter(current, d),
             UNCHANGED <<known, notices, since>>
      PROVE  QueueShape' /\ Punctual'
  <2> DEFINE again == d = 0 \/ current \in dirty
  <2>1. /\ queue' = IF again THEN Append(queue, current) ELSE queue
        /\ dirty \subseteq dirty' /\ (again => current \in dirty')
        /\ phase' = "idle" /\ current' = NoNode /\ spent' = 0
    BY <1>8 DEF DoneAddAfter
  <2>2. /\ current \in Node /\ due \in [Node -> Nat \cup {NoTimer}]
        /\ due[current] <= Longest
    BY <1>8 DEF TypeOK, QueueShape
  <2>3. /\ \A m \in Node : m # current => due'[m] = due[m]
        /\ due'[current] \in Nat \cup {NoTimer} /\ due'[current] <= Longest
        /\ again \/ due'[current] # NoTimer
    <3>1. CASE d = 0
      BY <1>8, <2>2, <3>1 DEF DoneAddAfter
    <3>2. CASE d # 0
      <4>1. due' = [due EXCEPT ![current] = Wait(current, d)]
        BY <1>8, <3>2 DEF DoneAddAfter
      <4>2. Wait(current, d) \in Nat /\ Wait(current, d) <= Longest
        BY <1>8, <2>2, LatestFacts DEF Wait, Least
      <4>3. due'[current] = Wait(current, d) /\ Wait(current, d) # NoTimer
        BY <2>2, <4>1, <4>2 DEF NoTimer
      <4> QED
        BY <2>2, <4>1, <4>2, <4>3
    <3> QED
      BY <3>1, <3>2
  <2> HIDE DEF again
  <2>4. again \in BOOLEAN
    BY DEF again
  <2> QED
    BY <1>8, <2>1, <2>2, <2>3, <2>4, ReleaseKeepsTime
<1>9. ASSUME NEW wrote \in BOOLEAN, Succeeds(wrote) PROVE QueueShape' /\ Punctual'
  <2>1. notices' = notices
    BY <1>9 DEF Succeeds, Updated, UpdateFunc
  <2> QED
    BY <1>8, <1>9, <2>1, LatestFacts DEF Succeeds
<1>10. CASE Fails
  <2>1. current \in Node /\ failures[current] \in 0 .. Len(Backoff)
    BY <1>10 DEF Fails, TypeOK
  <2>2. Len(Backoff) \in Nat \ {0}
    BY QueueAssumption
  <2>3. Least(failures[current] + 1, Len(Backoff)) \in 1 .. Len(Backoff)
    BY <2>1, <2>2 DEF Least
  <2>4. failures'[current] \in 1 .. Len(Backoff)
    BY <1>10, <2>1, <2>3 DEF Fails, TypeOK
  <2>5. Backoff[failures'[current]] \in Nat /\ Backoff[failures'[current]] <= Longest
    BY <2>4, BackoffIsDelay, LatestFacts
  <2> QED
    BY <1>8, <1>10, <2>5 DEF Fails
<1>11. CASE EndsAbsent
  <2> DEFINE again == current \in dirty
  <2>1. /\ queue' = IF again THEN Append(queue, current) ELSE queue
        /\ phase = "absent" /\ phase' = "idle" /\ current' = NoNode /\ spent' = 0
        /\ UNCHANGED <<known, notices, since, dirty, due>>
    BY <1>11 DEF EndsAbsent, Done
  <2>2. /\ current \in Node /\ due[current] \in Nat \cup {NoTimer}
        /\ due[current] <= Longest
    BY <2>1 DEF TypeOK, QueueShape
  <2>3. again => current \in dirty'
    BY <2>1
  <2>4. again \in BOOLEAN
    OBVIOUS
  <2> HIDE DEF again
  <2> QED
    BY <2>1, <2>2, <2>3, <2>4, ReleaseKeepsTime
<1>12. CASE Restart
  <2>1. /\ queue' = <<>> /\ phase' = "idle" /\ current' = NoNode /\ spent' = 0
        /\ known' = known /\ known \subseteq Node
        /\ \A n \in Node : due'[n] = NoTimer /\ since'[n] = 0
    BY <1>12 DEF Restart, TypeOK
  <2>2. Longest \in Nat /\ NoNode \notin Node
    BY LatestFacts, QueueAssumption
  <2>3. DOMAIN <<>> = {} /\ Range(<<>>) = {}
    BY DEF Range
  <2>4. QueueShape'
    BY <2>1, <2>2, <2>3 DEF QueueShape, Distinct, NoTimer
  <2>5. ASSUME NEW n \in known PROVE InTime(n)'
    BY <2>1, <2>2, <2>3
    DEF InTime, TimerInTime, InHandInTime, InTurn, NoticeInTime
  <2> QED
    BY <2>1, <2>4, <2>5 DEF Punctual
<1>13. CASE Tick
  BY <1>13, TickKeepsTime
<1>14. CASE UNCHANGED vars
  BY <1>14
  DEF vars, queueVars, workerVars, timerVars, QueueShape, Punctual, InTime,
      TimerInTime, InHandInTime, InTurn, NoticeInTime, Busy
<1> QED
  BY <1>1, <1>2, <1>3, <1>4, <1>5, <1>6, <1>7, <1>9, <1>10, <1>11, <1>12, <1>13,
     <1>14 DEF Next, NodeEvent, Ends

LEMMA TimeInit == Init => QueueShape /\ Punctual
<1> SUFFICES ASSUME Init PROVE QueueShape /\ Punctual
  OBVIOUS
<1>1. /\ queue = <<>> /\ phase = "idle" /\ current = NoNode /\ spent = 0
      /\ known \subseteq Node
      /\ \A n \in Node : due[n] = NoTimer /\ since[n] = 0
  BY DEF Init
<1>2. Longest \in Nat /\ NoNode \notin Node
  BY LatestFacts, QueueAssumption
<1>3. DOMAIN <<>> = {} /\ Range(<<>>) = {}
  BY DEF Range
<1>4. QueueShape
  BY <1>1, <1>2, <1>3 DEF QueueShape, Distinct, NoTimer
<1> QED
  BY <1>1, <1>2, <1>3, <1>4
  DEF Punctual, InTime, TimerInTime, InHandInTime, InTurn, NoticeInTime

(* Wherever a node is, it has not waited too long. *)
LEMMA PunctualIsInTime == Inv /\ QueueShape /\ Punctual => ReadInTime
<1> SUFFICES ASSUME Inv, QueueShape, Punctual, NEW n \in known
             PROVE  since[n] <= Latest
  BY DEF ReadInTime
<1>1. n \in Node /\ InTime(n)
  BY DEF Inv, TypeOK, Punctual
<1>2. /\ Latest \in Nat /\ Latest >= Longest + ReconcileTime
      /\ Longest \in Nat /\ ReconcileTime \in Nat /\ since[n] \in Nat
      /\ spent \in Nat /\ spent <= ReconcileTime
      /\ due[n] # NoTimer => due[n] \in Nat
      /\ Busy \in Nat
  BY <1>1, TimeTypes, LatestFacts DEF Inv
<1>3. \/ n \in notices \/ n \in Range(queue) \/ due[n] # NoTimer \/ current = n
  BY DEF Inv, NoNodeForgotten, InHand
<1>4. CASE due[n] # NoTimer
  BY <1>1, <1>2, <1>4 DEF InTime, TimerInTime
<1>5. CASE n \in Range(queue)
  <2>1. PICK i \in DOMAIN queue : queue[i] = n
    BY <1>5 DEF Range
  <2> DEFINE ahead == Turns(i - 1)
  <2>2. since[n] + Busy + ahead <= Latest
    BY <1>1, <2>1 DEF InTime, InTurn
  <2>3. i - 1 \in Nat
    BY DEF Inv, TypeOK
  <2>4. ahead \in Nat
    BY <2>3, TurnsFacts
  <2> HIDE DEF ahead
  <2> QED
    BY <1>2, <2>2, <2>4
<1>6. CASE current = n
  BY <1>1, <1>2, <1>6 DEF InTime, InHandInTime
<1>7. CASE n \in notices
  BY <1>1, <1>2, <1>4, <1>5, <1>6, <1>7 DEF InTime, NoticeInTime
<1> QED
  BY <1>3, <1>4, <1>5, <1>6, <1>7

(* However many nodes there are, whichever of their exporters are dead and *)
(* whatever comes, goes, fails and restarts, a node is read at the latest  *)
(* after the longest poll or backoff and one full turn of every node,      *)
(* itself included: its own last reconcile's time counts too (ReadInTime). *)
THEOREM NodesReadInTime == Spec => []ReadInTime
<1>1. Init => Inv /\ QueueShape /\ Punctual
  BY InitInv, TimeInit
<1>2. Inv /\ QueueShape /\ Punctual /\ [Next]_vars
        => (Inv /\ QueueShape /\ Punctual)'
  BY NextInv, TimeStep
<1>3. Inv /\ QueueShape /\ Punctual => ReadInTime
  BY PunctualIsInTime
<1> QED
  BY <1>1, <1>2, <1>3, PTL DEF Spec
=============================================================================

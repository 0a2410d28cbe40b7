--------------------------- MODULE WebhookDispatch ---------------------------
(***************************************************************************)
(* The delivery queue of src/modules/webhooks/webhooks.service.ts with its *)
(* bounded concurrency, the dispatch of a tip to a creator's webhooks, the *)
(* test ping, the drain at shutdown (server.ts, app.ts) and the failure    *)
(* notifications of src/modules/notifications/webhook-failure.service.ts.  *)
(* A job is one POST to one webhook.  One action per stretch of code       *)
(* between two awaits; a failed database call is one of its outcomes.      *)
(***************************************************************************)
EXTENDS Integers, FiniteSets, Sequences

CONSTANTS Tips,         \* the tips handed to enqueueWebhookDispatch
          Pings,        \* the calls of POST /:id/ping
          Hooks,        \* the webhooks
          Concurrency   \* config.webhooks.deliveryConcurrency

ASSUME DispatchAssumption ==
  /\ IsFiniteSet(Tips) /\ IsFiniteSet(Pings) /\ IsFiniteSet(Hooks)
  /\ Tips \cap Pings = {}
  /\ Concurrency \in Nat \ {0}

VARIABLES
  deliveryQueue, activeDeliveries, activeDispatches,  \* as in the source
  call,    \* how far dispatchWebhooks or sendTestPing got
  step,    \* how far a job got, its failure notification included
  failed,  \* the jobs whose outcome is not a success
  rows,    \* WEBHOOK_FAILED rows of a webhook in the suppression window
  phase    \* "draining" is a waiter in deliveryQueueIdleWaiters

queueVars == <<deliveryQueue, activeDeliveries, activeDispatches>>
vars == <<queueVars, call, step, failed, rows, phase>>

Jobs == (Tips \cup Pings) \X Hooks

JobsOf(c) == {c} \X Hooks

Elements(q) == {q[i] : i \in 1 .. Len(q)}

(* The jobs of S in the order the database returned the webhooks.          *)
Orders(S) == {q \in [1 .. Cardinality(S) -> S] : Elements(q) = S}

-----------------------------------------------------------------------------

Init == /\ deliveryQueue = <<>>
        /\ activeDeliveries = 0 /\ activeDispatches = 0
        /\ call = [c \in Tips \cup Pings |-> "none"]
        /\ step = [j \in Jobs |-> "none"]
        /\ failed = {}
        /\ rows = [h \in Hooks |-> 0]
        /\ phase = "up"

\* Faulty variant: dispatches in progress are not asked for.
Idle_QueueOnly == activeDeliveries = 0 /\ deliveryQueue = <<>>

Idle == activeDispatches = 0 /\ activeDeliveries = 0 /\ deliveryQueue = <<>>

(* Every waiter is resolved once the queue is idle.                        *)
ResolveDeliveryQueueIdle ==
  phase' = IF phase = "draining" /\ Idle' THEN "closed" ELSE phase

\* Faulty variant: "<=" for "<" against the limit.
Startable_OffByOne(queue, active) ==
  IF Len(queue) <= Concurrency - active THEN Len(queue) ELSE Concurrency - active + 1

Startable(queue, active) ==
  IF Len(queue) <= Concurrency - active THEN Len(queue) ELSE Concurrency - active

\* Faulty variant: pop for shift.
ProcessDeliveryQueue_Pop(queue, active, steps) ==
  LET left == Len(queue) - Startable(queue, active)
      started == {queue[i] : i \in left + 1 .. Len(queue)}
  IN /\ deliveryQueue' = SubSeq(queue, 1, left)
     /\ activeDeliveries' = active + Startable(queue, active)
     /\ step' = [j \in Jobs |-> IF j \in started THEN "posting" ELSE steps[j]]
     /\ ResolveDeliveryQueueIdle

(* Jobs leave the queue from its front while a slot is free.               *)
ProcessDeliveryQueue(queue, active, steps) ==
  LET n == Startable(queue, active)
      started == {queue[i] : i \in 1 .. n}
  IN /\ deliveryQueue' = SubSeq(queue, n + 1, Len(queue))
     /\ activeDeliveries' = active + n
     /\ step' = [j \in Jobs |-> IF j \in started THEN "posting" ELSE steps[j]]
     /\ ResolveDeliveryQueueIdle

(* One queueDelivery after another: the last of them leaves what one pass  *)
(* over all of them does.                                                  *)
QueueDeliveries(q) ==
  ProcessDeliveryQueue(deliveryQueue \o q, activeDeliveries,
                       [j \in Jobs |-> IF j \in Elements(q) THEN "queued" ELSE step[j]])

Running == phase # "dead"

(* The indexer hands a tip over; it is stopped before the drain begins.    *)
EnqueueWebhookDispatch(t) ==
  /\ phase = "up"
  /\ call[t] = "none"
  /\ call' = [call EXCEPT ![t] = "reading"]
  /\ activeDispatches' = activeDispatches + 1
  /\ UNCHANGED <<deliveryQueue, activeDeliveries, step, failed, rows, phase>>

(* The creator is read with the enabled webhooks.  No creator, webhooks    *)
(* switched off, none enabled and a failed read all queue nothing.         *)
DispatchWebhooks(t) ==
  /\ Running
  /\ call[t] = "reading"
  /\ call' = [call EXCEPT ![t] = "waiting"]
  /\ UNCHANGED <<activeDispatches, failed, rows>>
  /\ \E hooks \in SUBSET Hooks : \E q \in Orders({t} \X hooks) : QueueDeliveries(q)

StartPing(p) ==
  /\ phase = "up"
  /\ call[p] = "none"
  /\ call' = [call EXCEPT ![p] = "reading"]
  /\ UNCHANGED <<queueVars, step, failed, rows, phase>>

(* The webhook is read and its job queued, or there is no such webhook.  A *)
(* client that hung up does not hold the drain up, so this may come late.  *)
SendTestPing(p) ==
  /\ Running
  /\ call[p] = "reading"
  /\ call' = [call EXCEPT ![p] = "done"]
  /\ UNCHANGED <<activeDispatches, failed, rows>>
  /\ \/ \E h \in Hooks : QueueDeliveries(<<<<p, h>>>>)
     \/ UNCHANGED <<deliveryQueue, activeDeliveries, step, phase>>

(* deliver up to its last await: the answer, or the abort after timeoutMs. *)
Post(j) ==
  /\ Running
  /\ step[j] = "posting"
  /\ step' = [step EXCEPT ![j] = "recording"]
  /\ failed' \in {failed, failed \cup {j}}
  /\ UNCHANGED <<queueVars, call, rows, phase>>

AfterOutcome(j) == IF j[1] \in Tips /\ j \in failed' THEN "looking" ELSE "over"

(* The delivery row is written, or the write fails and so does the         *)
(* outcome; the slot is freed and a failed dispatch goes on to notify.     *)
Record(j) ==
  /\ Running
  /\ step[j] = "recording"
  /\ failed' \in {failed, failed \cup {j}}
  /\ UNCHANGED <<activeDispatches, call, rows>>
  /\ ProcessDeliveryQueue(deliveryQueue, activeDeliveries - 1,
                          [step EXCEPT ![j] = AfterOutcome(j)])

\* Faulty variant: the cutoff compared the wrong way round misses the rows.
ReadRecent_WrongSide(j) ==
  /\ Running
  /\ step[j] = "looking"
  /\ step' \in {[step EXCEPT ![j] = "notifying"], [step EXCEPT ![j] = "over"]}
  /\ UNCHANGED <<queueVars, call, failed, rows, phase>>

(* notifyWebhookFailure reads the rows of the window, then writes one;     *)
(* errors of either are swallowed.                                         *)
ReadRecent(j) ==
  /\ Running
  /\ step[j] = "looking"
  /\ \/ rows[j[2]] = 0 /\ step' = [step EXCEPT ![j] = "notifying"]
     \/ step' = [step EXCEPT ![j] = "over"]
  /\ UNCHANGED <<queueVars, call, failed, rows, phase>>

NotifyWebhookFailure(j) ==
  /\ Running
  /\ step[j] = "notifying"
  /\ step' = [step EXCEPT ![j] = "over"]
  /\ rows' \in {rows, [rows EXCEPT ![j[2]] = @ + 1]}
  /\ UNCHANGED <<queueVars, call, failed, phase>>

\* Faulty variant: the waiters are not looked at.
FinishDispatch_NoResolve(t) ==
  /\ Running
  /\ call[t] = "waiting"
  /\ \A j \in JobsOf(t) : step[j] \in {"none", "over"}
  /\ call' = [call EXCEPT ![t] = "done"]
  /\ activeDispatches' = activeDispatches - 1
  /\ UNCHANGED <<deliveryQueue, activeDeliveries, step, failed, rows, phase>>

(* All outcomes of a tip are in: the finally of enqueueWebhookDispatch.    *)
FinishDispatch(t) ==
  /\ Running
  /\ call[t] = "waiting"
  /\ \A j \in JobsOf(t) : step[j] \in {"none", "over"}
  /\ call' = [call EXCEPT ![t] = "done"]
  /\ activeDispatches' = activeDispatches - 1
  /\ UNCHANGED <<deliveryQueue, activeDeliveries, step, failed, rows>>
  /\ ResolveDeliveryQueueIdle

WindowLapses(h) ==
  /\ Running
  /\ rows[h] > 0
  /\ rows' = [rows EXCEPT ![h] = @ - 1]
  /\ UNCHANGED <<queueVars, call, step, failed, phase>>

(* server.close: the drain, then the database is disconnected.             *)
DrainWebhookDeliveries ==
  /\ phase = "up"
  /\ phase' = IF Idle THEN "closed" ELSE "draining"
  /\ UNCHANGED <<queueVars, call, step, failed, rows>>

(* A crash, or the ten seconds of the shutdown are up.                     *)
Exit ==
  /\ Running
  /\ phase' = "dead"
  /\ UNCHANGED <<queueVars, call, step, failed, rows>>

Dispatch(t) == DispatchWebhooks(t) \/ FinishDispatch(t)

Deliver(j) == Post(j) \/ Record(j) \/ ReadRecent(j) \/ NotifyWebhookFailure(j)

Next == \/ \E t \in Tips : EnqueueWebhookDispatch(t) \/ Dispatch(t)
        \/ \E p \in Pings : StartPing(p) \/ SendTestPing(p)
        \/ \E j \in Jobs : Deliver(j)
        \/ \E h \in Hooks : WindowLapses(h)
        \/ DrainWebhookDeliveries
        \/ Exit

Spec == Init /\ [][Next]_vars

(* Every await of a dispatch and a delivery ends: the POST by its abort    *)
(* timer, a database call by its answer or error.                          *)
Fairness == /\ \A t \in Tips : WF_vars(Dispatch(t))
            /\ \A p \in Pings : WF_vars(SendTestPing(p))
            /\ \A j \in Jobs : WF_vars(Deliver(j))

FairSpec == Spec /\ Fairness

-----------------------------------------------------------------------------
(* Properties.                                                             *)

(* Every variable has its type.                                            *)
TypeOK ==
  /\ deliveryQueue \in Seq(Jobs)
  /\ activeDeliveries \in Nat /\ activeDispatches \in Nat
  /\ call \in [Tips \cup Pings -> {"none", "reading", "waiting", "done"}]
  /\ step \in [Jobs -> {"none", "queued", "posting", "recording", "looking",
                        "notifying", "over"}]
  /\ failed \subseteq Jobs
  /\ rows \in [Hooks -> Nat]
  /\ phase \in {"up", "draining", "closed", "dead"}

InFlight == {j \in Jobs : step[j] \in {"posting", "recording"}}

OpenDispatches == {t \in Tips : call[t] \in {"reading", "waiting"}}

(* The counter of busy slots counts the deliveries in flight, and no order *)
(* of completions lets more than Concurrency of them run                   *)
(* (webhooks.service.ts, lines 131-149).                                   *)
SlotsRespected ==
  /\ activeDeliveries = Cardinality(InFlight)
  /\ activeDeliveries <= Concurrency

(* A job never waits beside a free slot: each way a slot is freed or a job *)
(* is queued looks at the other (lines 131-149 and 161).                   *)
NoIdleSlot == deliveryQueue # <<>> => activeDeliveries = Concurrency

(* A queued job is in the queue, once, and nothing else is: none is lost   *)
(* or posted twice (lines 136 and 157).                                    *)
QueueHoldsQueued ==
  /\ Elements(deliveryQueue) = {j \in Jobs : step[j] = "queued"}
  /\ \A a, b \in 1 .. Len(deliveryQueue) :
       deliveryQueue[a] = deliveryQueue[b] => a = b

(* The three of them: however deliveries end, jobs join and drains wait,   *)
(* the slots are counted and used and no job is lost (lines 131-164).      *)
QueueSound == SlotsRespected /\ NoIdleSlot /\ QueueHoldsQueued

(* Once the drain is over, and the database with it, no dispatch, delivery *)
(* or failure notification of a tip is left half done (lines 166-180).     *)
DrainedQuiet ==
  phase = "closed" =>
    /\ OpenDispatches = {}
    /\ \A t \in Tips : \A j \in JobsOf(t) : step[j] \in {"none", "over"}

(* What is under way, for the shutdown: a dispatch, or the delivery of a   *)
(* ping.                                                                   *)
Begun == {t \in Tips : call[t] # "none"}
         \cup {p \in Pings : \E j \in JobsOf(p) : step[j] # "none"}

Busy == OpenDispatches
        \cup {p \in Pings : \E j \in JobsOf(p) : step[j] \in {"queued", "posting", "recording"}}

Drain == INSTANCE DeliveryDrain WITH begun <- Begun, busy <- Busy

(* The queue, its slots and its waiters implement DeliveryDrain, on which  *)
(* the shutdown relies: a drain is over at once if nothing is under way    *)
(* and otherwise with the step that ends the last of it, whichever that is *)
(* (lines 119-129, 143-147 and 166-180).                                   *)
ImplementsDrain == Drain!DrainSpec

(* A drain that waits has something to wait for: whatever ends last wakes  *)
(* it (lines 119-129, 144 and 195-197).                                    *)
NoLostWaiter == phase = "draining" => ~Idle

(* A job starts only after every job queued before it.                     *)
StartsInOrder ==
  [][\A a, b \in 1 .. Len(deliveryQueue) :
       a < b /\ step'[deliveryQueue[b]] # "queued" => step'[deliveryQueue[a]] # "queued"]_vars

(* The failures of a webhook that have looked and are about to write.      *)
Writing(h) == {j \in Jobs : j[2] = h /\ step[j] = "notifying"}

(* From the first row in the window of a webhook on, its rows and the      *)
(* writes under way together never grow: only failures that looked before  *)
(* that row was there add to it, no later one does, however jobs overlap   *)
(* and whichever writes fail (webhook-failure.service.ts, lines 50-81).    *)
BurstIsOver ==
  [][\A h \in Hooks : rows[h] > 0 /\ rows'[h] > 0 =>
       rows'[h] + Cardinality(Writing(h)') <= rows[h] + Cardinality(Writing(h))]_vars

(* Every drain ends, whatever the endpoints and the database answer.       *)
DrainEnds == phase = "draining" ~> phase \in {"closed", "dead"}

(* Every queued job is delivered, recorded and, if it failed, reported.    *)
EveryJobSettles == \A j \in Jobs : step[j] = "queued" ~> step[j] = "over" \/ phase = "dead"

(* Nothing a dispatch or a drain waits for is lost, with any mix of        *)
(* answers, failed writes and freed slots (lines 131-149 and 166-199).     *)
EverythingSettles == DrainEnds /\ EveryJobSettles

(* webhook-failure.service.ts, line 16: "at most one row is written per    *)
(* webhook per SUPPRESS_WINDOW_MS".                                        *)
OneFailureRowPerWindow == \A h \in Hooks : rows[h] <= 1
=============================================================================

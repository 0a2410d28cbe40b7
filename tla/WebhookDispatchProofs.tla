------------------------ MODULE WebhookDispatchProofs ------------------------
(***************************************************************************)
(* The delivery queue for any number of tips, pings, webhooks and slots:   *)
(* its limit, that it loses and doubles nothing, its order and the drain.  *)
(***************************************************************************)
EXTENDS WebhookDispatch, FiniteSetTheorems, FunctionTheorems, SequenceTheorems, TLAPS

Steps == {"none", "queued", "posting", "recording", "looking", "notifying", "over"}

Holding(steps) == {j \in Jobs : steps[j] \in {"posting", "recording"}}

(* A queue without repetition that holds what is queued, and a counter     *)
(* that counts what holds a slot.                                          *)
QueueOK(queue, active, steps) ==
  /\ queue \in Seq(Jobs)
  /\ steps \in [Jobs -> Steps]
  /\ Elements(queue) = {j \in Jobs : steps[j] = "queued"}
  /\ \A a, b \in 1 .. Len(queue) : queue[a] = queue[b] => a = b
  /\ active = Cardinality(Holding(steps))
  /\ active <= Concurrency

(* What the calls know of their jobs, and the drain of the calls.          *)
CallInv ==
  /\ call \in [Tips \cup Pings -> {"none", "reading", "waiting", "done"}]
  /\ failed \subseteq Jobs /\ rows \in [Hooks -> Nat]
  /\ phase \in {"up", "draining", "closed", "dead"}
  /\ activeDispatches = Cardinality(OpenDispatches)
  /\ \A c \in Tips \cup Pings : \A j \in JobsOf(c) :
       call[c] \in {"none", "reading"} => step[j] = "none"
  /\ \A t \in Tips : \A j \in JobsOf(t) :
       call[t] = "done" => step[j] \in {"none", "over"}
  /\ phase = "closed" => OpenDispatches = {}

IInv ==
  /\ QueueOK(deliveryQueue, activeDeliveries, step)
  /\ NoIdleSlot
  /\ CallInv
  /\ NoLostWaiter

-----------------------------------------------------------------------------
(* The queue.                                                              *)

LEMMA FiniteSubset ==
  ASSUME NEW S, IsFiniteSet(S), NEW R \in SUBSET S
  PROVE  IsFiniteSet(R) /\ Cardinality(R) \in Nat
BY FS_Subset, FS_CardinalityType

LEMMA JobsFinite == IsFiniteSet(Jobs)
BY DispatchAssumption, FS_Union, FS_Product DEF Jobs

LEMMA HoldingFinite ==
  ASSUME NEW steps
  PROVE  IsFiniteSet(Holding(steps)) /\ Cardinality(Holding(steps)) \in Nat
BY JobsFinite, FiniteSubset DEF Holding

(* The first n entries of a queue without repetition are n jobs.           *)
LEMMA FirstEntries ==
  ASSUME NEW queue \in Seq(Jobs), NEW n \in 0 .. Len(queue),
         \A a, b \in 1 .. Len(queue) : queue[a] = queue[b] => a = b
  PROVE  /\ IsFiniteSet({queue[i] : i \in 1 .. n})
         /\ Cardinality({queue[i] : i \in 1 .. n}) = n
<1> DEFINE S == {queue[i] : i \in 1 .. n}
           f == [i \in 1 .. n |-> queue[i]]
<1>1. f \in Bijection(1 .. n, S)
  <2>1. f \in [1 .. n -> S]
    OBVIOUS
  <2>2. \A a, b \in 1 .. n : f[a] = f[b] => a = b
    OBVIOUS
  <2>3. \A s \in S : \E i \in 1 .. n : f[i] = s
    OBVIOUS
  <2>4. QED
    BY <2>1, <2>2, <2>3, Fun_IsBij
<1>2. IsFiniteSet(1 .. n) /\ Cardinality(1 .. n) = n
  BY FS_Interval
<1>3. ExistsBijection(1 .. n, S)
  BY <1>1 DEF ExistsBijection
<1>4. QED
  BY <1>2, <1>3, FS_Bijection

(* processDeliveryQueue restores the invariant, leaves no slot idle beside *)
(* a waiting job and starts jobs only.                                     *)
LEMMA Processed ==
  ASSUME NEW queue, NEW active, NEW steps, QueueOK(queue, active, steps),
         ProcessDeliveryQueue(queue, active, steps)
  PROVE  /\ QueueOK(deliveryQueue, activeDeliveries, step)'
         /\ NoIdleSlot'
         /\ \A j \in Jobs : step'[j] # steps[j] => steps[j] = "queued" /\ step'[j] = "posting"
<1> DEFINE n == Startable(queue, active)
           started == {queue[i] : i \in 1 .. n}
<1>1. /\ active \in Nat /\ Len(queue) \in Nat /\ n \in 0 .. Len(queue)
      /\ n <= Concurrency - active
      /\ n < Len(queue) => n = Concurrency - active
  BY HoldingFinite, DispatchAssumption DEF QueueOK, Startable
<1> HIDE DEF n
<1>2. /\ deliveryQueue' = SubSeq(queue, n + 1, Len(queue))
      /\ activeDeliveries' = active + n
      /\ step' = [j \in Jobs |-> IF j \in started THEN "posting" ELSE steps[j]]
  BY DEF ProcessDeliveryQueue, n
<1>3. IsFiniteSet(started) /\ Cardinality(started) = n
  BY <1>1, FirstEntries DEF QueueOK
<1>4. started \subseteq Elements(queue) /\ Elements(queue) \subseteq Jobs
  BY <1>1 DEF QueueOK, Elements
<1>5. /\ deliveryQueue' \in Seq(Jobs)
      /\ Len(deliveryQueue') = Len(queue) - n
      /\ \A i \in 1 .. Len(queue) - n : deliveryQueue'[i] = queue[n + i]
  <2>1. \A i \in n + 1 .. Len(queue) : queue[i] \in Jobs
    BY <1>1, ElementOfSeq DEF QueueOK
  <2>2. QED
    BY <1>1, <1>2, <2>1, SubSeqProperties
<1>6. Elements(deliveryQueue)' = Elements(queue) \ started
  <2>1. ASSUME NEW i \in 1 .. Len(deliveryQueue') PROVE deliveryQueue'[i] \in Elements(queue) \ started
    <3>1. n + i \in 1 .. Len(queue) /\ deliveryQueue'[i] = queue[n + i]
      BY <1>1, <1>5
    <3>2. \A k \in 1 .. n : queue[k] # queue[n + i]
      BY <1>1, <3>1 DEF QueueOK
    <3>3. QED
      BY <3>1, <3>2 DEF Elements
  <2>2. ASSUME NEW i \in 1 .. Len(queue), queue[i] \notin started
        PROVE  \E k \in 1 .. Len(deliveryQueue') : deliveryQueue'[k] = queue[i]
    <3>1. i - n \in 1 .. Len(deliveryQueue')
      BY <1>1, <1>5, <2>2
    <3>2. deliveryQueue'[i - n] = queue[i]
      BY <1>1, <1>5, <3>1
    <3>3. QED
      BY <3>1, <3>2
  <2>3. QED
    BY <2>1, <2>2 DEF Elements
<1>7. \A a, b \in 1 .. Len(deliveryQueue') : deliveryQueue'[a] = deliveryQueue'[b] => a = b
  BY <1>1, <1>5 DEF QueueOK
<1>8. Holding(step') = Holding(steps) \cup started /\ Holding(steps) \cap started = {}
  BY <1>2, <1>4 DEF QueueOK, Holding
<1>9. Cardinality(Holding(step')) = active + n
  <2>1. Cardinality(Holding(steps) \cap started) = 0
    BY <1>8, FS_EmptySet
  <2>2. Cardinality(Holding(steps) \cup started)
          = Cardinality(Holding(steps)) + Cardinality(started) - Cardinality(Holding(steps) \cap started)
    BY <1>3, HoldingFinite, FS_Union
  <2>3. active = Cardinality(Holding(steps))
    BY DEF QueueOK
  <2>4. QED
    BY <1>1, <1>3, <1>8, <2>1, <2>2, <2>3
<1>10. QueueOK(deliveryQueue, activeDeliveries, step)'
  <2>1. step' \in [Jobs -> Steps]
    BY <1>2 DEF QueueOK, Steps
  <2>2. Elements(deliveryQueue)' = {j \in Jobs : step'[j] = "queued"}
    BY <1>2, <1>4, <1>6 DEF QueueOK
  <2>3. activeDeliveries' <= Concurrency
    BY <1>1, <1>2, DispatchAssumption
  <2>4. QED
    BY <1>2, <1>5, <1>7, <1>9, <2>1, <2>2, <2>3 DEF QueueOK
<1>11. NoIdleSlot'
  <2>1. CASE n = Len(queue)
    BY <1>1, <1>5, <2>1, EmptySeq DEF NoIdleSlot
  <2>2. CASE n < Len(queue)
    BY <1>1, <1>2, <2>2, DispatchAssumption DEF NoIdleSlot
  <2>3. QED
    BY <1>1, <2>1, <2>2
<1>12. \A j \in Jobs : step'[j] # steps[j] => steps[j] = "queued" /\ step'[j] = "posting"
  BY <1>2, <1>4 DEF QueueOK
<1>13. QED
  BY <1>10, <1>11, <1>12

(* A started job was queued, and so were no other jobs before it.          *)
LEMMA ProcessedInOrder ==
  ASSUME NEW queue, NEW active, NEW steps, QueueOK(queue, active, steps),
         ProcessDeliveryQueue(queue, active, steps),
         NEW a \in 1 .. Len(queue), NEW b \in 1 .. Len(queue), a < b,
         step'[queue[b]] # "queued"
  PROVE  step'[queue[a]] # "queued"
<1> DEFINE n == Startable(queue, active)
           started == {queue[i] : i \in 1 .. n}
<1>1. Len(queue) \in Nat /\ n \in Int
  BY HoldingFinite, DispatchAssumption DEF QueueOK, Startable
<1> HIDE DEF n
<1>2. step' = [j \in Jobs |-> IF j \in started THEN "posting" ELSE steps[j]]
  BY DEF ProcessDeliveryQueue, n
<1>3. queue[a] \in Jobs /\ queue[b] \in Jobs /\ steps[queue[b]] = "queued"
  BY ElementOfSeq DEF QueueOK, Elements
<1>4. queue[b] \in started
  BY <1>2, <1>3
<1>5. b <= n
  BY <1>1, <1>4 DEF QueueOK
<1>6. queue[a] \in started
  BY <1>1, <1>5
<1>7. QED
  BY <1>2, <1>3, <1>6

(* Jobs that were never queued join the queue.                             *)
LEMMA QueueGrows ==
  ASSUME NEW queue, NEW active, NEW steps, QueueOK(queue, active, steps),
         NEW q \in Seq(Jobs), \A a, b \in 1 .. Len(q) : q[a] = q[b] => a = b,
         \A j \in Elements(q) : steps[j] = "none"
  PROVE  QueueOK(queue \o q, active,
                 [j \in Jobs |-> IF j \in Elements(q) THEN "queued" ELSE steps[j]])
<1> DEFINE all == queue \o q
           new == [j \in Jobs |-> IF j \in Elements(q) THEN "queued" ELSE steps[j]]
<1>1. /\ all \in Seq(Jobs) /\ Len(queue) \in Nat /\ Len(q) \in Nat
      /\ Len(all) = Len(queue) + Len(q)
      /\ \A i \in 1 .. Len(queue) : all[i] = queue[i]
      /\ \A i \in 1 .. Len(q) : all[Len(queue) + i] = q[i]
  BY ConcatProperties DEF QueueOK
<1> HIDE DEF all
<1>2. \A i \in 1 .. Len(all) : i \in 1 .. Len(queue) \/ i - Len(queue) \in 1 .. Len(q)
  BY <1>1
<1>3. Elements(q) \subseteq Jobs
  BY ElementOfSeq DEF Elements
<1>4. Elements(all) = Elements(queue) \cup Elements(q)
  <2>1. ASSUME NEW i \in 1 .. Len(all) PROVE all[i] \in Elements(queue) \cup Elements(q)
    <3>1. CASE i \in 1 .. Len(queue)
      BY <1>1, <3>1 DEF Elements
    <3>2. CASE i - Len(queue) \in 1 .. Len(q)
      <4>1. all[i] = q[i - Len(queue)]
        BY <1>1, <3>2
      <4>2. QED
        BY <3>2, <4>1 DEF Elements
    <3>3. QED
      BY <1>2, <3>1, <3>2
  <2>2. ASSUME NEW i \in 1 .. Len(queue) PROVE queue[i] \in Elements(all)
    <3>1. i \in 1 .. Len(all) /\ all[i] = queue[i]
      BY <1>1
    <3>2. QED
      BY <3>1 DEF Elements
  <2>3. ASSUME NEW i \in 1 .. Len(q) PROVE q[i] \in Elements(all)
    <3>1. Len(queue) + i \in 1 .. Len(all) /\ all[Len(queue) + i] = q[i]
      BY <1>1
    <3>2. QED
      BY <3>1 DEF Elements
  <2>4. Elements(all) \subseteq Elements(queue) \cup Elements(q)
    <3>1. \A x \in Elements(all) : \E i \in 1 .. Len(all) : x = all[i]
      BY Zenon DEF Elements
    <3>2. QED
      BY <2>1, <3>1, Zenon
  <2>5. Elements(queue) \cup Elements(q) \subseteq Elements(all)
    <3>1. \A x \in Elements(queue) : \E i \in 1 .. Len(queue) : x = queue[i]
      BY Zenon DEF Elements
    <3>2. \A x \in Elements(q) : \E i \in 1 .. Len(q) : x = q[i]
      BY Zenon DEF Elements
    <3>3. Elements(queue) \subseteq Elements(all)
      BY <2>2, <3>1, Zenon
    <3>4. Elements(q) \subseteq Elements(all)
      BY <2>3, <3>2, Zenon
    <3>5. QED
      BY <3>3, <3>4, Zenon
  <2>6. QED
    BY <2>4, <2>5, Zenon
<1>5. Elements(queue) \cap Elements(q) = {}
  BY DEF QueueOK
<1>6. \A a, b \in 1 .. Len(all) : all[a] = all[b] => a = b
  <2> SUFFICES ASSUME NEW a \in 1 .. Len(all), NEW b \in 1 .. Len(all), all[a] = all[b]
               PROVE  a = b
    OBVIOUS
  <2>1. ASSUME NEW c \in 1 .. Len(all)
        PROVE  /\ c \in 1 .. Len(queue) => all[c] = queue[c] /\ all[c] \in Elements(queue)
               /\ c \notin 1 .. Len(queue) =>
                    /\ c - Len(queue) \in 1 .. Len(q)
                    /\ all[c] = q[c - Len(queue)] /\ all[c] \in Elements(q)
    <3>1. c \notin 1 .. Len(queue) => all[c] = q[c - Len(queue)]
      BY <1>1, <1>2
    <3>2. QED
      BY <1>1, <1>2, <3>1 DEF Elements
  <2>2. CASE a \in 1 .. Len(queue)
    <3>1. b \in 1 .. Len(queue)
      BY <1>5, <2>1, <2>2
    <3>2. QED
      BY <2>1, <2>2, <3>1 DEF QueueOK
  <2>3. CASE a \notin 1 .. Len(queue)
    <3>1. b \notin 1 .. Len(queue)
      BY <1>5, <2>1, <2>3
    <3>2. a - Len(queue) = b - Len(queue)
      BY <2>1, <2>3, <3>1
    <3>3. QED
      BY <1>1, <3>2
  <2>4. QED
    BY <2>2, <2>3
<1>7. Elements(all) = {j \in Jobs : new[j] = "queued"}
  BY <1>3, <1>4 DEF QueueOK
<1>8. Holding(new) = Holding(steps)
  BY DEF Holding
<1>9. new \in [Jobs -> Steps]
  BY DEF QueueOK, Steps
<1>10. QED
  BY <1>1, <1>6, <1>7, <1>8, <1>9 DEF QueueOK, all

(* A job goes on without its slot changing hands.                          *)
LEMMA StepGoesOn ==
  ASSUME NEW queue, NEW active, NEW steps, QueueOK(queue, active, steps), NEW j \in Jobs,
         NEW s \in Steps \ {"queued"}, steps[j] # "queued",
         steps[j] \in {"posting", "recording"} <=> s \in {"posting", "recording"}
  PROVE  QueueOK(queue, active, [steps EXCEPT ![j] = s])
<1>1. Holding([steps EXCEPT ![j] = s]) = Holding(steps)
  BY DEF QueueOK, Holding
<1>2. Elements(queue) = {k \in Jobs : [steps EXCEPT ![j] = s][k] = "queued"}
  BY DEF QueueOK
<1>3. QED
  BY <1>1, <1>2 DEF QueueOK

(* A job gives its slot back.                                              *)
LEMMA SlotFreed ==
  ASSUME NEW queue, NEW active, NEW steps, QueueOK(queue, active, steps), NEW j \in Jobs,
         NEW s \in {"looking", "over"}, steps[j] = "recording"
  PROVE  QueueOK(queue, active - 1, [steps EXCEPT ![j] = s])
<1>1. Holding([steps EXCEPT ![j] = s]) = Holding(steps) \ {j} /\ j \in Holding(steps)
  BY DEF QueueOK, Holding
<1>2. Cardinality(Holding(steps) \ {j}) = Cardinality(Holding(steps)) - 1
  BY <1>1, HoldingFinite, FS_RemoveElement
<1>3. Elements(queue) = {k \in Jobs : [steps EXCEPT ![j] = s][k] = "queued"}
  BY DEF QueueOK
<1>4. [steps EXCEPT ![j] = s] \in [Jobs -> Steps]
  BY DEF QueueOK, Steps
<1>5. active - 1 <= Concurrency
  BY HoldingFinite, DispatchAssumption DEF QueueOK
<1>6. QED
  BY <1>1, <1>2, <1>3, <1>4, <1>5 DEF QueueOK

LEMMA OrdersAreQueues ==
  ASSUME NEW S \in SUBSET Jobs, NEW q \in Orders(S)
  PROVE  /\ q \in Seq(Jobs) /\ Elements(q) = S
         /\ \A a, b \in 1 .. Len(q) : q[a] = q[b] => a = b
<1>1. IsFiniteSet(S) /\ Cardinality(S) \in Nat
  BY JobsFinite, FiniteSubset
<1>2. q \in [1 .. Cardinality(S) -> S] /\ Elements(q) = S
  BY DEF Orders
<1>3. q \in Seq(Jobs) /\ Len(q) = Cardinality(S)
  BY <1>1, <1>2
<1>4. q \in Surjection(1 .. Cardinality(S), S)
  BY <1>2, <1>3, Fun_IsSurj DEF Elements
<1>5. IsFiniteSet(1 .. Cardinality(S)) /\ Cardinality(1 .. Cardinality(S)) = Cardinality(S)
  BY <1>1, FS_Interval
<1>6. q \in Injection(1 .. Cardinality(S), S)
  BY <1>4, <1>5, FS_SurjSameCardinalityImpliesInj
<1>7. QED
  BY <1>2, <1>3, <1>6, Fun_InjectionProperties

LEMMA OnlyOrder ==
  ASSUME NEW j
  PROVE  <<j>> \in Orders({j})
<1>1. Cardinality({j}) = 1
  BY FS_Singleton
<1>2. <<j>> \in [1 .. 1 -> {j}] /\ Elements(<<j>>) = {j}
  BY DEF Elements
<1>3. QED
  BY <1>1, <1>2 DEF Orders

-----------------------------------------------------------------------------
(* The calls.                                                              *)

LEMMA OpenFinite == IsFiniteSet(OpenDispatches) /\ Cardinality(OpenDispatches) \in Nat
BY DispatchAssumption, FiniteSubset DEF OpenDispatches

LEMMA InitIInv == Init => IInv
<1> SUFFICES ASSUME Init PROVE IInv
  OBVIOUS
<1> USE DEF Init
<1>1. QueueOK(deliveryQueue, activeDeliveries, step)
  <2>1. Holding(step) = {} /\ Elements(deliveryQueue) = {}
    BY EmptySeq DEF Holding, Elements
  <2>2. activeDeliveries = Cardinality(Holding(step)) /\ activeDeliveries <= Concurrency
    <3>1. Cardinality(Holding(step)) = 0
      BY <2>1, FS_EmptySet, HoldingFinite
    <3>2. QED
      BY <3>1, DispatchAssumption
  <2>3. deliveryQueue \in Seq(Jobs) /\ Len(deliveryQueue) = 0
    BY EmptySeq
  <2>4. step \in [Jobs -> Steps] /\ {j \in Jobs : step[j] = "queued"} = {}
    BY DEF Steps
  <2>5. QED
    BY <2>1, <2>2, <2>3, <2>4 DEF QueueOK
<1>2. CallInv
  <2>1. OpenDispatches = {}
    BY DEF OpenDispatches
  <2>2. QED
    BY <2>1, FS_EmptySet, DispatchAssumption DEF CallInv, JobsOf, Jobs
<1>3. QED
  BY <1>1, <1>2 DEF IInv, NoIdleSlot, NoLostWaiter

(* Jobs that start change nothing for the calls.                           *)
LEMMA CallsKept ==
  ASSUME CallInv, NEW steps \in [Jobs -> Steps],
         \A c \in Tips \cup Pings : \A j \in JobsOf(c) :
           call'[c] \in {"none", "reading"} => steps[j] = "none",
         \A t \in Tips : \A j \in JobsOf(t) : call'[t] = "done" => steps[j] \in {"none", "over"},
         \A j \in Jobs : step'[j] # steps[j] => steps[j] = "queued" /\ step'[j] = "posting",
         call' \in [Tips \cup Pings -> {"none", "reading", "waiting", "done"}],
         OpenDispatches' = OpenDispatches, activeDispatches' = activeDispatches,
         failed' \subseteq Jobs, rows' \in [Hooks -> Nat],
         phase' = phase \/ (phase' = "closed" /\ Idle')
  PROVE  CallInv'
<1>1. \A c \in Tips \cup Pings : JobsOf(c) \subseteq Jobs
  BY DEF JobsOf, Jobs
<1>2. phase' = "closed" => OpenDispatches' = {}
  <2>1. CASE phase' = phase
    BY <2>1 DEF CallInv
  <2>2. CASE Idle'
    <3>1. Cardinality(OpenDispatches) = 0
      BY <2>2 DEF Idle, CallInv
    <3>2. QED
      BY <3>1, OpenFinite, FS_EmptySet DEF CallInv
  <2>3. QED
    BY <2>1, <2>2
<1>3. /\ \A c \in Tips \cup Pings : \A j \in JobsOf(c) :
           call'[c] \in {"none", "reading"} => step'[j] = "none"
      /\ \A t \in Tips : \A j \in JobsOf(t) : call'[t] = "done" => step'[j] \in {"none", "over"}
  BY <1>1
<1>4. QED
  BY <1>2, <1>3 DEF CallInv

(* One pass over the queue, whatever was done to a job before.             *)
LEMMA PassKeeps ==
  ASSUME IInv, NEW queue, NEW active, NEW steps, QueueOK(queue, active, steps),
         ProcessDeliveryQueue(queue, active, steps),
         \A c \in Tips \cup Pings : \A j \in JobsOf(c) :
           call'[c] \in {"none", "reading"} => steps[j] = "none",
         \A t \in Tips : \A j \in JobsOf(t) : call'[t] = "done" => steps[j] \in {"none", "over"},
         call' \in [Tips \cup Pings -> {"none", "reading", "waiting", "done"}],
         OpenDispatches' = OpenDispatches, activeDispatches' = activeDispatches,
         failed' \subseteq Jobs, rows' \in [Hooks -> Nat]
  PROVE  IInv'
<1>1. /\ QueueOK(deliveryQueue, activeDeliveries, step)' /\ NoIdleSlot'
      /\ \A j \in Jobs : step'[j] # steps[j] => steps[j] = "queued" /\ step'[j] = "posting"
  BY Processed
<1>2. phase' = IF phase = "draining" /\ Idle' THEN "closed" ELSE phase
  BY DEF ProcessDeliveryQueue, ResolveDeliveryQueueIdle
<1>3. CallInv'
  <2>1. CallInv /\ steps \in [Jobs -> Steps]
    BY DEF IInv, QueueOK
  <2>2. phase' = phase \/ (phase' = "closed" /\ Idle')
    BY <1>2
  <2>3. QED
    BY <1>1, <2>1, <2>2, CallsKept
<1>4. NoLostWaiter'
  BY <1>2 DEF NoLostWaiter
<1>5. QED
  BY <1>1, <1>3, <1>4 DEF IInv

(* A step that leaves queue, slots and drain alone.                        *)
LEMMA QuietKeeps ==
  ASSUME IInv, UNCHANGED <<queueVars, phase>>, OpenDispatches' = OpenDispatches,
         QueueOK(deliveryQueue, activeDeliveries, step'),
         \A c \in Tips \cup Pings : \A j \in JobsOf(c) :
           call'[c] \in {"none", "reading"} => step'[j] = "none",
         \A t \in Tips : \A j \in JobsOf(t) : call'[t] = "done" => step'[j] \in {"none", "over"},
         call' \in [Tips \cup Pings -> {"none", "reading", "waiting", "done"}],
         failed' \subseteq Jobs, rows' \in [Hooks -> Nat]
  PROVE  IInv'
<1> USE DEF queueVars
<1>1. QueueOK(deliveryQueue, activeDeliveries, step)'
  BY DEF QueueOK, Elements
<1>2. CallInv'
  BY DEF IInv, CallInv
<1>3. NoIdleSlot' /\ NoLostWaiter'
  BY DEF IInv, NoIdleSlot, NoLostWaiter, Idle
<1>4. QED
  BY <1>1, <1>2, <1>3 DEF IInv

LEMMA JobSteps ==
  ASSUME IInv, NEW j \in Jobs, Deliver(j)
  PROVE  IInv'
<1>1. PICK c \in Tips \cup Pings, h \in Hooks : j = <<c, h>>
  BY DEF Jobs
<1>2. /\ j \in JobsOf(c) /\ j[1] = c /\ j[2] = h
      /\ \A d \in Tips \cup Pings : j \in JobsOf(d) => d = c
      /\ \A d \in Tips \cup Pings : JobsOf(d) \subseteq Jobs
  BY <1>1 DEF JobsOf, Jobs
<1>3. /\ QueueOK(deliveryQueue, activeDeliveries, step) /\ CallInv
      /\ step \in [Jobs -> Steps] /\ rows \in [Hooks -> Nat] /\ failed \subseteq Jobs
      /\ call \in [Tips \cup Pings -> {"none", "reading", "waiting", "done"}]
  BY DEF IInv, CallInv, QueueOK
<1>4. ASSUME NEW s \in Steps, step[j] \notin {"none", "over"}, call' = call
      PROVE  /\ \A d \in Tips \cup Pings : \A k \in JobsOf(d) :
                  call'[d] \in {"none", "reading"} => [step EXCEPT ![j] = s][k] = "none"
             /\ \A t \in Tips : \A k \in JobsOf(t) :
                  call'[t] = "done" => [step EXCEPT ![j] = s][k] \in {"none", "over"}
  BY <1>2, <1>3, <1>4 DEF CallInv
<1>5. call' = call => OpenDispatches' = OpenDispatches
  BY DEF OpenDispatches
<1>6. CASE Post(j)
  <2>1. QueueOK(deliveryQueue, activeDeliveries, step')
    BY <1>3, <1>6, StepGoesOn DEF Post, Steps
  <2>2. step' = [step EXCEPT ![j] = "recording"] /\ failed' \subseteq Jobs /\ rows' = rows
    BY <1>3, <1>6 DEF Post
  <2>3. QED
    BY <1>3, <1>4, <1>5, <1>6, <2>1, <2>2, QuietKeeps DEF Post, Steps
<1>7. CASE ReadRecent(j)
  <2>1. PICK s \in {"notifying", "over"} : step' = [step EXCEPT ![j] = s]
    BY <1>7 DEF ReadRecent
  <2>2. QueueOK(deliveryQueue, activeDeliveries, step')
    BY <1>3, <1>7, <2>1, StepGoesOn DEF ReadRecent, Steps
  <2>3. QED
    BY <1>3, <1>4, <1>5, <1>7, <2>1, <2>2, QuietKeeps DEF ReadRecent, Steps
<1>8. CASE NotifyWebhookFailure(j)
  <2>1. QueueOK(deliveryQueue, activeDeliveries, step')
    BY <1>3, <1>8, StepGoesOn DEF NotifyWebhookFailure, Steps
  <2>2. rows' \in [Hooks -> Nat]
    BY <1>3, <1>8 DEF NotifyWebhookFailure
  <2>3. QED
    BY <1>3, <1>4, <1>5, <1>8, <2>1, <2>2, QuietKeeps DEF NotifyWebhookFailure, Steps
<1>9. CASE Record(j)
  <2>1. AfterOutcome(j) \in {"looking", "over"}
    BY DEF AfterOutcome
  <2>2. QueueOK(deliveryQueue, activeDeliveries - 1, [step EXCEPT ![j] = AfterOutcome(j)])
    BY <1>3, <1>9, <2>1, SlotFreed DEF Record
  <2>3. /\ failed' \subseteq Jobs /\ rows' = rows /\ call' = call
        /\ activeDispatches' = activeDispatches
    BY <1>3, <1>9 DEF Record
  <2>4. AfterOutcome(j) \in Steps /\ step[j] \notin {"none", "over"}
    BY <1>9, <2>1 DEF Record, Steps
  <2> DEFINE steps == [step EXCEPT ![j] = AfterOutcome(j)]
  <2>5. /\ \A d \in Tips \cup Pings : \A k \in JobsOf(d) :
             call'[d] \in {"none", "reading"} => steps[k] = "none"
        /\ \A t \in Tips : \A k \in JobsOf(t) :
             call'[t] = "done" => steps[k] \in {"none", "over"}
    BY <1>4, <2>3, <2>4
  <2>6. ProcessDeliveryQueue(deliveryQueue, activeDeliveries - 1, steps)
    BY <1>9 DEF Record
  <2> HIDE DEF steps
  <2>7. QueueOK(deliveryQueue, activeDeliveries - 1, steps)
    BY <2>2 DEF steps
  <2>8. QED
    BY <1>3, <1>5, <2>3, <2>5, <2>6, <2>7, PassKeeps
<1>10. QED
  BY <1>6, <1>7, <1>8, <1>9 DEF Deliver

(* Jobs of a call that goes from "reading" on are queued.                  *)
LEMMA QueuedKeeps ==
  ASSUME IInv, NEW c \in Tips \cup Pings, call[c] = "reading",
         NEW on \in {"waiting", "done"}, call' = [call EXCEPT ![c] = on],
         on = "done" => c \notin Tips,
         NEW S \in SUBSET JobsOf(c), NEW q \in Orders(S), QueueDeliveries(q),
         UNCHANGED <<activeDispatches, failed, rows>>
  PROVE  IInv'
<1> DEFINE steps == [j \in Jobs |-> IF j \in Elements(q) THEN "queued" ELSE step[j]]
<1>1. /\ \A d \in Tips \cup Pings : JobsOf(d) \subseteq Jobs
      /\ \A d \in Tips \cup Pings : d # c => JobsOf(d) \cap JobsOf(c) = {}
  BY DEF JobsOf, Jobs
<1>2. /\ QueueOK(deliveryQueue, activeDeliveries, step) /\ CallInv
      /\ call \in [Tips \cup Pings -> {"none", "reading", "waiting", "done"}]
  BY DEF IInv, CallInv
<1>3. /\ q \in Seq(Jobs) /\ Elements(q) = S
      /\ \A a, b \in 1 .. Len(q) : q[a] = q[b] => a = b
  BY <1>1, OrdersAreQueues
<1>4. \A j \in Elements(q) : step[j] = "none"
  BY <1>2, <1>3 DEF CallInv
<1>5. QueueOK(deliveryQueue \o q, activeDeliveries, steps)
  BY <1>2, <1>3, <1>4, QueueGrows
<1>6. ProcessDeliveryQueue(deliveryQueue \o q, activeDeliveries, steps)
  BY DEF QueueDeliveries
<1>7. /\ \A d \in Tips \cup Pings : \A j \in JobsOf(d) :
           call'[d] \in {"none", "reading"} => steps[j] = "none"
      /\ \A t \in Tips : \A j \in JobsOf(t) : call'[t] = "done" => steps[j] \in {"none", "over"}
  BY <1>1, <1>2, <1>3 DEF CallInv
<1> HIDE DEF steps
<1>8. OpenDispatches' = OpenDispatches
  BY <1>2, DispatchAssumption DEF OpenDispatches
<1>9. /\ call' \in [Tips \cup Pings -> {"none", "reading", "waiting", "done"}]
      /\ failed' \subseteq Jobs /\ rows' \in [Hooks -> Nat]
  BY <1>2 DEF CallInv
<1>10. QED
  BY <1>5, <1>6, <1>7, <1>8, <1>9, PassKeeps

LEMMA CallSteps ==
  ASSUME IInv, NEW t \in Tips, EnqueueWebhookDispatch(t) \/ Dispatch(t)
  PROVE  IInv'
<1>1. /\ QueueOK(deliveryQueue, activeDeliveries, step) /\ CallInv
      /\ call \in [Tips \cup Pings -> {"none", "reading", "waiting", "done"}]
      /\ step \in [Jobs -> Steps] /\ activeDispatches = Cardinality(OpenDispatches)
  BY DEF IInv, CallInv, QueueOK
<1>2. CASE EnqueueWebhookDispatch(t)
  <2>1. OpenDispatches' = OpenDispatches \cup {t} /\ t \notin OpenDispatches
    BY <1>1, <1>2 DEF EnqueueWebhookDispatch, OpenDispatches
  <2>2. activeDispatches' = Cardinality(OpenDispatches)'
    BY <1>1, <1>2, <2>1, OpenFinite, FS_AddElement DEF EnqueueWebhookDispatch
  <2>3. UNCHANGED <<deliveryQueue, activeDeliveries, step, failed, rows, phase>> /\ phase = "up"
    BY <1>2 DEF EnqueueWebhookDispatch
  <2>4. CallInv'
    <3>1. \A c \in Tips \cup Pings : call'[c] # call[c] => c = t
      BY <1>1, <1>2 DEF EnqueueWebhookDispatch
    <3>2. call[t] = "none" /\ call'[t] = "reading"
      BY <1>1, <1>2 DEF EnqueueWebhookDispatch
    <3>3. call' \in [Tips \cup Pings -> {"none", "reading", "waiting", "done"}]
      BY <1>1, <1>2 DEF EnqueueWebhookDispatch
    <3>4. /\ \A c \in Tips \cup Pings : \A j \in JobsOf(c) :
               call'[c] \in {"none", "reading"} => step'[j] = "none"
          /\ \A u \in Tips : \A j \in JobsOf(u) : call'[u] = "done" => step'[j] \in {"none", "over"}
      BY <1>1, <2>3, <3>1, <3>2 DEF CallInv
    <3>5. phase' = "up" /\ failed' \subseteq Jobs /\ rows' \in [Hooks -> Nat]
      BY <1>1, <2>3 DEF CallInv
    <3>6. QED
      BY <2>2, <3>3, <3>4, <3>5 DEF CallInv
  <2>5. QueueOK(deliveryQueue, activeDeliveries, step)' /\ NoIdleSlot' /\ NoLostWaiter'
    BY <2>3 DEF IInv, QueueOK, Elements, NoIdleSlot, NoLostWaiter
  <2>6. QED
    BY <2>4, <2>5 DEF IInv
<1>3. CASE DispatchWebhooks(t)
  <2>0. PICK hooks \in SUBSET Hooks : \E q \in Orders({t} \X hooks) : QueueDeliveries(q)
    BY <1>3 DEF DispatchWebhooks
  <2>1. PICK q \in Orders({t} \X hooks) : QueueDeliveries(q)
    BY <2>0
  <2>2. {t} \X hooks \in SUBSET JobsOf(t)
    BY DEF JobsOf
  <2>3. QED
    BY <1>3, <2>1, <2>2, QueuedKeeps DEF DispatchWebhooks
<1>4. CASE FinishDispatch(t)
  <2>1. OpenDispatches' = OpenDispatches \ {t} /\ t \in OpenDispatches
    BY <1>1, <1>4 DEF FinishDispatch, OpenDispatches
  <2>2. activeDispatches' = Cardinality(OpenDispatches)'
    <3>1. Cardinality(OpenDispatches \ {t}) = Cardinality(OpenDispatches) - 1
      BY <2>1, OpenFinite, FS_RemoveElement
    <3>2. QED
      BY <1>1, <1>4, <2>1, <3>1 DEF FinishDispatch
  <2>3. /\ UNCHANGED <<deliveryQueue, activeDeliveries, step, failed, rows>>
        /\ phase' = IF phase = "draining" /\ Idle' THEN "closed" ELSE phase
    BY <1>4 DEF FinishDispatch, ResolveDeliveryQueueIdle
  <2>4. CallInv'
    <3>1. \A c \in Tips \cup Pings : call'[c] # call[c] => c = t
      BY <1>1, <1>4 DEF FinishDispatch
    <3>2. /\ call'[t] = "done" /\ \A j \in JobsOf(t) : step[j] \in {"none", "over"}
          /\ call' \in [Tips \cup Pings -> {"none", "reading", "waiting", "done"}]
      BY <1>1, <1>4 DEF FinishDispatch
    <3>3. phase' = "closed" => OpenDispatches' = {}
      <4>1. CASE phase = "closed"
        BY <1>1, <2>1, <4>1 DEF CallInv
      <4>2. CASE Idle'
        <5>1. IsFiniteSet(OpenDispatches') /\ Cardinality(OpenDispatches') = 0
          BY <2>1, <2>2, <4>2, OpenFinite, FS_RemoveElement DEF Idle
        <5>2. QED
          BY <5>1, FS_EmptySet
      <4>3. QED
        BY <2>3, <4>1, <4>2
    <3>4. QED
      BY <1>1, <2>2, <2>3, <3>1, <3>2, <3>3 DEF CallInv
  <2>5. QueueOK(deliveryQueue, activeDeliveries, step)' /\ NoIdleSlot'
    BY <2>3 DEF IInv, QueueOK, Elements, NoIdleSlot
  <2>6. NoLostWaiter'
    BY <2>3 DEF NoLostWaiter
  <2>7. QED
    BY <2>4, <2>5, <2>6 DEF IInv
<1>5. QED
  BY <1>2, <1>3, <1>4 DEF Dispatch

LEMMA PingSteps ==
  ASSUME IInv, NEW p \in Pings, StartPing(p) \/ SendTestPing(p)
  PROVE  IInv'
<1>1. /\ QueueOK(deliveryQueue, activeDeliveries, step) /\ CallInv
      /\ call \in [Tips \cup Pings -> {"none", "reading", "waiting", "done"}]
      /\ step \in [Jobs -> Steps] /\ p \notin Tips
  BY DispatchAssumption DEF IInv, CallInv, QueueOK
<1>2. ASSUME NEW to \in {"reading", "done"}, call[p] \in {"none", "reading"},
             call' = [call EXCEPT ![p] = to], UNCHANGED <<queueVars, step, failed, rows, phase>>
      PROVE  IInv'
  <2>1. OpenDispatches' = OpenDispatches
    BY <1>1, <1>2 DEF OpenDispatches
  <2>2. /\ \A c \in Tips \cup Pings : \A j \in JobsOf(c) :
             call'[c] \in {"none", "reading"} => step'[j] = "none"
        /\ \A t \in Tips : \A j \in JobsOf(t) : call'[t] = "done" => step'[j] \in {"none", "over"}
    BY <1>1, <1>2 DEF CallInv
  <2>3. /\ call' \in [Tips \cup Pings -> {"none", "reading", "waiting", "done"}]
        /\ failed' \subseteq Jobs /\ rows' \in [Hooks -> Nat]
    BY <1>1, <1>2 DEF CallInv
  <2>4. QueueOK(deliveryQueue, activeDeliveries, step')
    BY <1>1, <1>2
  <2>5. QED
    BY <1>2, <2>1, <2>2, <2>3, <2>4, QuietKeeps
<1>3. CASE StartPing(p)
  BY <1>2, <1>3 DEF StartPing
<1>4. CASE SendTestPing(p)
  <2>1. ASSUME NEW h \in Hooks, QueueDeliveries(<<<<p, h>>>>) PROVE IInv'
    <3>1. {<<p, h>>} \in SUBSET JobsOf(p)
      BY DEF JobsOf
    <3>2. <<<<p, h>>>> \in Orders({<<p, h>>})
      BY OnlyOrder
    <3>3. call[p] = "reading" /\ call' = [call EXCEPT ![p] = "done"]
          /\ UNCHANGED <<activeDispatches, failed, rows>>
      BY <1>4 DEF SendTestPing
    <3>4. QED
      BY <1>1, <2>1, <3>1, <3>2, <3>3, QueuedKeeps
  <2>2. CASE UNCHANGED <<deliveryQueue, activeDeliveries, step, phase>>
    BY <1>2, <1>4, <2>2 DEF SendTestPing, queueVars
  <2>3. QED
    BY <1>4, <2>1, <2>2 DEF SendTestPing
<1>5. QED
  BY <1>3, <1>4

LEMMA ShutdownSteps ==
  ASSUME IInv, DrainWebhookDeliveries \/ Exit
  PROVE  IInv'
<1>1. /\ UNCHANGED <<queueVars, call, step, failed, rows>>
      /\ phase' = "closed" => Idle
      /\ phase' = "draining" => ~Idle
      /\ phase' \in {"draining", "closed", "dead"}
  BY DEF DrainWebhookDeliveries, Exit
<1>2. OpenDispatches' = OpenDispatches
  BY <1>1 DEF OpenDispatches
<1>3. Idle => OpenDispatches = {}
  BY OpenFinite, FS_EmptySet DEF Idle, IInv, CallInv
<1>4. CallInv'
  BY <1>1, <1>2, <1>3 DEF IInv, CallInv, queueVars
<1>5. QueueOK(deliveryQueue, activeDeliveries, step)' /\ NoIdleSlot' /\ NoLostWaiter'
  BY <1>1 DEF IInv, QueueOK, Elements, NoIdleSlot, NoLostWaiter, Idle, queueVars
<1>6. QED
  BY <1>4, <1>5 DEF IInv

LEMMA NextKeeps == IInv /\ [Next]_vars => IInv'
<1> SUFFICES ASSUME IInv, [Next]_vars PROVE IInv'
  OBVIOUS
<1>1. ASSUME UNCHANGED <<queueVars, call, step, failed, phase>>, rows' \in [Hooks -> Nat]
      PROVE  IInv'
  <2>1. OpenDispatches' = OpenDispatches
    BY <1>1 DEF OpenDispatches
  <2>2. QED
    BY <1>1, <2>1, QuietKeeps DEF IInv, CallInv
<1>2. ASSUME NEW h \in Hooks, WindowLapses(h) PROVE IInv'
  <2>1. rows' \in [Hooks -> Nat]
    BY <1>2 DEF WindowLapses, IInv, CallInv
  <2>2. QED
    BY <1>1, <1>2, <2>1 DEF WindowLapses
<1>3. CASE UNCHANGED vars
  BY <1>1, <1>3 DEF vars, IInv, CallInv
<1>4. QED
  BY <1>2, <1>3, CallSteps, PingSteps, JobSteps, ShutdownSteps DEF Next

-----------------------------------------------------------------------------
(* The order.                                                              *)

InOrder ==
  \A a, b \in 1 .. Len(deliveryQueue) :
    a < b /\ step'[deliveryQueue[b]] # "queued" => step'[deliveryQueue[a]] # "queued"

(* Queued jobs that stay queued are in order.                              *)
LEMMA QuietInOrder ==
  ASSUME QueueOK(deliveryQueue, activeDeliveries, step),
         \A j \in Jobs : step[j] = "queued" => step'[j] = "queued"
  PROVE  InOrder
<1>1. \A b \in 1 .. Len(deliveryQueue) :
        deliveryQueue[b] \in Jobs /\ step[deliveryQueue[b]] = "queued"
  BY DEF QueueOK, Elements
<1>2. QED
  BY <1>1 DEF InOrder

(* So are the jobs of a queue that others join behind them.                *)
LEMMA JoinedInOrder ==
  ASSUME IInv, NEW c \in Tips \cup Pings, call[c] = "reading",
         NEW S \in SUBSET JobsOf(c), NEW q \in Orders(S), QueueDeliveries(q)
  PROVE  InOrder
<1> DEFINE steps == [j \in Jobs |-> IF j \in Elements(q) THEN "queued" ELSE step[j]]
           all == deliveryQueue \o q
<1>1. S \in SUBSET Jobs
  BY DEF JobsOf, Jobs
<1>2. /\ q \in Seq(Jobs) /\ Elements(q) = S
      /\ \A a, b \in 1 .. Len(q) : q[a] = q[b] => a = b
  BY <1>1, OrdersAreQueues
<1>3. \A j \in Elements(q) : step[j] = "none"
  BY <1>2 DEF IInv, CallInv
<1>4. QueueOK(deliveryQueue, activeDeliveries, step)
  BY DEF IInv
<1>5. QueueOK(all, activeDeliveries, steps)
  BY <1>2, <1>3, <1>4, QueueGrows
<1>6. ProcessDeliveryQueue(all, activeDeliveries, steps)
  BY DEF QueueDeliveries
<1>7. /\ Len(deliveryQueue) \in Nat /\ Len(q) \in Nat
      /\ Len(all) = Len(deliveryQueue) + Len(q)
      /\ \A i \in 1 .. Len(deliveryQueue) : all[i] = deliveryQueue[i]
  BY <1>2, <1>4, ConcatProperties DEF QueueOK
<1> HIDE DEF all, steps
<1>8. ASSUME NEW a \in 1 .. Len(deliveryQueue), NEW b \in 1 .. Len(deliveryQueue), a < b,
             step'[deliveryQueue[b]] # "queued"
      PROVE  step'[deliveryQueue[a]] # "queued"
  <2>1. /\ a \in 1 .. Len(all) /\ b \in 1 .. Len(all)
        /\ all[a] = deliveryQueue[a] /\ all[b] = deliveryQueue[b]
    BY <1>7
  <2>2. QED
    BY <1>5, <1>6, <1>8, <2>1, ProcessedInOrder
<1>9. QED
  BY <1>8 DEF InOrder

LEMMA StepInOrder == IInv /\ [Next]_vars => InOrder
<1> SUFFICES ASSUME IInv, [Next]_vars PROVE InOrder
  OBVIOUS
<1>1. QueueOK(deliveryQueue, activeDeliveries, step) /\ step \in [Jobs -> Steps]
  BY DEF IInv, QueueOK
<1>2. CASE step' = step
  BY <1>1, <1>2, QuietInOrder
<1>3. ASSUME NEW t \in Tips, DispatchWebhooks(t) PROVE InOrder
  <2>1. PICK hooks \in SUBSET Hooks : \E q \in Orders({t} \X hooks) : QueueDeliveries(q)
    BY <1>3 DEF DispatchWebhooks
  <2>2. PICK q \in Orders({t} \X hooks) : QueueDeliveries(q)
    BY <2>1
  <2>3. {t} \X hooks \in SUBSET JobsOf(t)
    BY DEF JobsOf
  <2>4. QED
    BY <1>3, <2>2, <2>3, JoinedInOrder DEF DispatchWebhooks
<1>4. ASSUME NEW p \in Pings, SendTestPing(p) PROVE InOrder
  <2>1. ASSUME NEW h \in Hooks, QueueDeliveries(<<<<p, h>>>>) PROVE InOrder
    <3>1. {<<p, h>>} \in SUBSET JobsOf(p)
      BY DEF JobsOf
    <3>2. QED
      BY <1>4, <2>1, <3>1, OnlyOrder, JoinedInOrder DEF SendTestPing
  <2>2. QED
    BY <1>2, <1>4, <2>1 DEF SendTestPing
<1>5. ASSUME NEW j \in Jobs, Record(j) PROVE InOrder
  <2>1. AfterOutcome(j) \in {"looking", "over"} /\ step[j] = "recording"
    BY <1>5 DEF AfterOutcome, Record
  <2>2. QueueOK(deliveryQueue, activeDeliveries - 1, [step EXCEPT ![j] = AfterOutcome(j)])
    BY <1>1, <2>1, SlotFreed
  <2>3. ProcessDeliveryQueue(deliveryQueue, activeDeliveries - 1,
                             [step EXCEPT ![j] = AfterOutcome(j)])
    BY <1>5 DEF Record
  <2>4. QED
    BY <2>2, <2>3, ProcessedInOrder DEF InOrder
<1>6. ASSUME NEW j \in Jobs, Post(j) \/ ReadRecent(j) \/ NotifyWebhookFailure(j) PROVE InOrder
  <2>1. PICK s : step' = [step EXCEPT ![j] = s]
    BY <1>6 DEF Post, ReadRecent, NotifyWebhookFailure
  <2>2. step[j] # "queued"
    BY <1>6 DEF Post, ReadRecent, NotifyWebhookFailure
  <2>3. QED
    BY <1>1, <2>1, <2>2, QuietInOrder
<1>7. CASE UNCHANGED vars
  BY <1>2, <1>7 DEF vars
<1>8. CASE \E t \in Tips : EnqueueWebhookDispatch(t) \/ FinishDispatch(t)
  BY <1>2, <1>8 DEF EnqueueWebhookDispatch, FinishDispatch
<1>9. CASE \/ \E p \in Pings : StartPing(p)
           \/ \E h \in Hooks : WindowLapses(h)
           \/ DrainWebhookDeliveries \/ Exit
  BY <1>2, <1>9 DEF StartPing, WindowLapses, DrainWebhookDeliveries, Exit
<1>10. QED
  BY <1>3, <1>4, <1>5, <1>6, <1>7, <1>8, <1>9 DEF Next, Dispatch, Deliver

-----------------------------------------------------------------------------
(* The drain, and the specification it implements.                         *)

Live == {"queued", "posting", "recording"}

(* The test of drainWebhookDeliveries sees all that is under way.          *)
DrainSeesAll == Idle <=> Busy = {}

LEMMA IdleIsNotBusy == IInv => DrainSeesAll
<1> SUFFICES ASSUME IInv PROVE DrainSeesAll
  OBVIOUS
<1>1. /\ deliveryQueue \in Seq(Jobs) /\ step \in [Jobs -> Steps]
      /\ Elements(deliveryQueue) = {j \in Jobs : step[j] = "queued"}
      /\ activeDeliveries = Cardinality(Holding(step))
      /\ activeDispatches = Cardinality(OpenDispatches)
      /\ call \in [Tips \cup Pings -> {"none", "reading", "waiting", "done"}]
  BY DEF IInv, QueueOK, CallInv
<1>2. ASSUME Idle PROVE Busy = {}
  <2>1. OpenDispatches = {} /\ Holding(step) = {}
    BY <1>1, <1>2, OpenFinite, HoldingFinite, FS_EmptySet DEF Idle
  <2>2. \A j \in Jobs : step[j] # "queued"
    <3>1. Elements(deliveryQueue) = {}
      BY <1>2, EmptySeq DEF Idle, Elements
    <3>2. QED
      BY <1>1, <3>1
  <2>3. \A p \in Pings : \A j \in JobsOf(p) : step[j] \notin Live
    <3>1. \A p \in Pings : JobsOf(p) \subseteq Jobs
      BY DEF JobsOf, Jobs
    <3>2. \A j \in Jobs : step[j] \notin {"posting", "recording"}
      BY <2>1 DEF Holding
    <3>3. QED
      BY <2>2, <3>1, <3>2 DEF Live
  <2>4. QED
    BY <2>1, <2>3 DEF Busy, Live
<1>3. ASSUME Busy = {} PROVE Idle
  <2>1. OpenDispatches = {}
    BY <1>3 DEF Busy
  <2>2. \A j \in Jobs : step[j] \notin Live
    <3> SUFFICES ASSUME NEW j \in Jobs PROVE step[j] \notin Live
      OBVIOUS
    <3>1. PICK c \in Tips \cup Pings : j \in JobsOf(c)
      BY DEF Jobs, JobsOf
    <3>2. CASE c \in Tips
      <4>1. call[c] \in {"none", "done"}
        BY <1>1, <2>1, <3>2 DEF OpenDispatches
      <4>2. step[j] \in {"none", "over"}
        BY <3>1, <3>2, <4>1 DEF IInv, CallInv
      <4>3. QED
        BY <4>2 DEF Live
    <3>3. CASE c \in Pings
      BY <1>3, <3>1, <3>3 DEF Busy, Live
    <3>4. QED
      BY <3>2, <3>3
  <2>3. deliveryQueue = <<>>
    <3>1. Elements(deliveryQueue) = {}
      BY <1>1, <2>2 DEF Live
    <3>2. \A i \in 1 .. Len(deliveryQueue) : deliveryQueue[i] \in Elements(deliveryQueue)
      BY DEF Elements
    <3>3. Len(deliveryQueue) = 0
      <4>1. Len(deliveryQueue) \in Nat
        BY <1>1
      <4>2. 1 \notin 1 .. Len(deliveryQueue)
        BY <3>1, <3>2
      <4>3. QED
        BY <4>1, <4>2
    <3>4. QED
      BY <1>1, <3>3, EmptySeq
  <2>4. Holding(step) = {}
    BY <2>2 DEF Holding, Live
  <2>5. activeDeliveries = 0 /\ activeDispatches = 0
    BY <1>1, <2>1, <2>4, FS_EmptySet
  <2>6. QED
    BY <2>3, <2>5 DEF Idle
<1>4. QED
  BY <1>2, <1>3 DEF DrainSeesAll

(* The work under way is the same when no dispatch opens or ends and the   *)
(* jobs of the pings keep their place before or after their end.           *)
LEMMA SameWork ==
  ASSUME OpenDispatches' = OpenDispatches,
         \A t \in Tips : call'[t] = "none" <=> call[t] = "none",
         \A p \in Pings : \A j \in JobsOf(p) :
           /\ step'[j] = "none" <=> step[j] = "none"
           /\ step'[j] \in Live <=> step[j] \in Live
  PROVE  UNCHANGED <<Begun, Busy>>
<1>1. \A p \in Pings :
        (\E j \in JobsOf(p) : step'[j] # "none") <=> (\E j \in JobsOf(p) : step[j] # "none")
  OBVIOUS
<1>2. \A p \in Pings :
        (\E j \in JobsOf(p) : step'[j] \in Live) <=> (\E j \in JobsOf(p) : step[j] \in Live)
  OBVIOUS
<1>3. Begun' = Begun
  BY <1>1 DEF Begun
<1>4. Busy' = Busy
  BY <1>2 DEF Busy, Live
<1>5. QED
  BY <1>3, <1>4

(* A pass over the queue starts jobs, which are under way before and after.*)
LEMMA PassSameWork ==
  ASSUME NEW queue, NEW active, NEW steps, QueueOK(queue, active, steps),
         ProcessDeliveryQueue(queue, active, steps)
  PROVE  /\ \A j \in Jobs : /\ step'[j] = "none" <=> steps[j] = "none"
                            /\ step'[j] \in Live <=> steps[j] \in Live
         /\ phase' = IF phase = "draining" /\ Idle' THEN "closed" ELSE phase
<1>1. \A j \in Jobs : step'[j] # steps[j] => steps[j] = "queued" /\ step'[j] = "posting"
  BY Processed
<1>2. QED
  BY <1>1 DEF Live, ProcessDeliveryQueue, ResolveDeliveryQueueIdle

(* A dispatch opens, finds its webhooks and ends.                          *)
LEMMA CallImplements ==
  ASSUME IInv, DrainSeesAll', NEW t \in Tips, EnqueueWebhookDispatch(t) \/ Dispatch(t)
  PROVE  Drain!DrainNext \/ UNCHANGED <<Begun, Busy, phase>>
<1>1. /\ QueueOK(deliveryQueue, activeDeliveries, step) /\ t \notin Pings
      /\ call \in [Tips \cup Pings -> {"none", "reading", "waiting", "done"}]
  BY DispatchAssumption DEF IInv, CallInv
<1>2. \A p \in Pings : JobsOf(p) \cap JobsOf(t) = {} /\ JobsOf(p) \subseteq Jobs
  BY <1>1 DEF JobsOf, Jobs
<1>3. CASE EnqueueWebhookDispatch(t)
  <2>1. /\ phase = "up" /\ phase' = phase /\ step' = step
        /\ call[t] = "none" /\ call' = [call EXCEPT ![t] = "reading"]
    BY <1>3 DEF EnqueueWebhookDispatch
  <2>2. OpenDispatches' = OpenDispatches \cup {t}
    BY <1>1, <2>1 DEF OpenDispatches
  <2>3. t \notin Begun /\ Begun' = Begun \cup {t}
    BY <1>1, <2>1 DEF Begun
  <2>4. Busy' = Busy \cup {t}
    BY <2>1, <2>2 DEF Busy
  <2>5. Drain!BeginWork(t)
    BY <2>1, <2>3, <2>4 DEF Drain!BeginWork
  <2>6. QED
    BY <2>5 DEF Drain!DrainNext
<1>4. CASE DispatchWebhooks(t)
  <2>1. call[t] = "reading" /\ call' = [call EXCEPT ![t] = "waiting"]
    BY <1>4 DEF DispatchWebhooks
  <2>2. OpenDispatches' = OpenDispatches /\ t \in OpenDispatches'
    BY <1>1, <2>1 DEF OpenDispatches
  <2>3. PICK hooks \in SUBSET Hooks : \E q \in Orders({t} \X hooks) : QueueDeliveries(q)
    BY <1>4 DEF DispatchWebhooks
  <2>4. PICK q \in Orders({t} \X hooks) : QueueDeliveries(q)
    BY <2>3
  <2> DEFINE steps == [j \in Jobs |-> IF j \in Elements(q) THEN "queued" ELSE step[j]]
  <2>5. /\ Elements(q) \subseteq JobsOf(t)
        /\ QueueOK(deliveryQueue \o q, activeDeliveries, steps)
    <3>1. {t} \X hooks \in SUBSET JobsOf(t) /\ {t} \X hooks \in SUBSET Jobs
      BY DEF JobsOf, Jobs
    <3>2. /\ q \in Seq(Jobs) /\ Elements(q) = {t} \X hooks
          /\ \A a, b \in 1 .. Len(q) : q[a] = q[b] => a = b
      BY <3>1, OrdersAreQueues
    <3>3. \A j \in Elements(q) : step[j] = "none"
      BY <2>1, <3>1, <3>2 DEF IInv, CallInv
    <3>4. QED
      BY <1>1, <3>1, <3>2, <3>3, QueueGrows
  <2>6. ProcessDeliveryQueue(deliveryQueue \o q, activeDeliveries, steps)
    BY <2>4 DEF QueueDeliveries
  <2>7. \A p \in Pings : \A j \in JobsOf(p) : steps[j] = step[j]
    BY <1>2, <2>5
  <2> HIDE DEF steps
  <2>8. /\ \A j \in Jobs : /\ step'[j] = "none" <=> steps[j] = "none"
                           /\ step'[j] \in Live <=> steps[j] \in Live
        /\ phase' = IF phase = "draining" /\ Idle' THEN "closed" ELSE phase
    BY <2>5, <2>6, PassSameWork
  <2>9. UNCHANGED <<Begun, Busy>>
    <3>1. \A u \in Tips : call'[u] = "none" <=> call[u] = "none"
      BY <1>1, <2>1
    <3>2. \A p \in Pings : \A j \in JobsOf(p) :
            /\ step'[j] = "none" <=> step[j] = "none"
            /\ step'[j] \in Live <=> step[j] \in Live
      BY <1>2, <2>7, <2>8
    <3>3. QED
      BY <2>2, <3>1, <3>2, SameWork
  <2>10. ~Idle'
    BY <2>2 DEF DrainSeesAll, Busy
  <2>11. QED
    BY <2>8, <2>9, <2>10
<1>5. CASE FinishDispatch(t)
  <2>1. /\ phase # "dead" /\ step' = step
        /\ call[t] = "waiting" /\ call' = [call EXCEPT ![t] = "done"]
        /\ phase' = IF phase = "draining" /\ Idle' THEN "closed" ELSE phase
    BY <1>5 DEF FinishDispatch, Running, ResolveDeliveryQueueIdle
  <2>2. OpenDispatches' = OpenDispatches \ {t} /\ t \in OpenDispatches
    BY <1>1, <2>1 DEF OpenDispatches
  <2>3. Begun' = Begun
    BY <1>1, <2>1 DEF Begun
  <2>4. t \in Busy /\ Busy' = Busy \ {t}
    BY <1>1, <2>1, <2>2 DEF Busy
  <2>5. Drain!EndWork(t)
    BY <2>1, <2>3, <2>4 DEF Drain!EndWork, DrainSeesAll
  <2>6. QED
    BY <2>5 DEF Drain!DrainNext
<1>6. QED
  BY <1>3, <1>4, <1>5 DEF Dispatch

(* A ping comes to work when its job is queued.                            *)
LEMMA PingImplements ==
  ASSUME IInv, DrainSeesAll', NEW p \in Pings, StartPing(p) \/ SendTestPing(p)
  PROVE  Drain!DrainNext \/ UNCHANGED <<Begun, Busy, phase>>
<1>1. /\ QueueOK(deliveryQueue, activeDeliveries, step) /\ p \notin Tips
      /\ call \in [Tips \cup Pings -> {"none", "reading", "waiting", "done"}]
      /\ step \in [Jobs -> Steps]
  BY DispatchAssumption DEF IInv, CallInv, QueueOK
<1>2. /\ OpenDispatches' = OpenDispatches
      /\ \A t \in Tips : call'[t] = call[t]
  <2>1. \A t \in Tips : call'[t] = call[t]
    BY <1>1 DEF StartPing, SendTestPing
  <2>2. QED
    BY <2>1 DEF OpenDispatches
<1>3. CASE step' = step /\ phase' = phase
  BY <1>2, <1>3, SameWork
<1>4. ASSUME NEW h \in Hooks, SendTestPing(p), QueueDeliveries(<<<<p, h>>>>)
      PROVE  Drain!DrainNext
  <2> DEFINE q == <<<<p, h>>>>
             steps == [j \in Jobs |-> IF j \in Elements(q) THEN "queued" ELSE step[j]]
  <2>1. /\ q \in Seq(Jobs) /\ Elements(q) = {<<p, h>>} /\ <<p, h>> \in JobsOf(p)
        /\ \A a, b \in 1 .. Len(q) : q[a] = q[b] => a = b
    <3>1. {<<p, h>>} \in SUBSET Jobs /\ <<p, h>> \in JobsOf(p)
      BY DEF JobsOf, Jobs
    <3>2. q \in Orders({<<p, h>>})
      BY OnlyOrder
    <3>3. QED
      BY <3>1, <3>2, OrdersAreQueues
  <2>2. phase # "dead" /\ \A j \in JobsOf(p) : step[j] = "none"
    BY <1>4 DEF SendTestPing, Running, IInv, CallInv
  <2>3. QueueOK(deliveryQueue \o q, activeDeliveries, steps)
    BY <1>1, <2>1, <2>2, QueueGrows
  <2>4. ProcessDeliveryQueue(deliveryQueue \o q, activeDeliveries, steps)
    BY <1>4 DEF QueueDeliveries
  <2>5. /\ <<p, h>> \in Jobs /\ steps[<<p, h>>] = "queued"
        /\ \A r \in Pings \ {p} : \A j \in JobsOf(r) : j \in Jobs /\ steps[j] = step[j]
    BY <2>1 DEF JobsOf, Jobs
  <2> HIDE DEF q, steps
  <2>6. /\ \A j \in Jobs : /\ step'[j] = "none" <=> steps[j] = "none"
                           /\ step'[j] \in Live <=> steps[j] \in Live
        /\ phase' = IF phase = "draining" /\ Idle' THEN "closed" ELSE phase
    BY <2>3, <2>4, PassSameWork
  <2>7. /\ \A r \in Pings \ {p} : \A j \in JobsOf(r) :
             /\ step'[j] = "none" <=> step[j] = "none"
             /\ step'[j] \in Live <=> step[j] \in Live
        /\ step'[<<p, h>>] # "none" /\ step'[<<p, h>>] \in Live
    BY <2>5, <2>6 DEF Live
  <2>8. p \notin Begun /\ Begun' = Begun \cup {p}
    <3>1. \A r \in Pings \ {p} :
            (\E j \in JobsOf(r) : step'[j] # "none") <=> (\E j \in JobsOf(r) : step[j] # "none")
      BY <2>7
    <3>2. \E j \in JobsOf(p) : step'[j] # "none"
      BY <2>1, <2>7
    <3>3. QED
      BY <1>1, <1>2, <2>2, <3>1, <3>2 DEF Begun
  <2>9. Busy' = Busy \cup {p}
    <3>1. \A r \in Pings \ {p} :
            (\E j \in JobsOf(r) : step'[j] \in Live) <=> (\E j \in JobsOf(r) : step[j] \in Live)
      BY <2>7
    <3>2. \E j \in JobsOf(p) : step'[j] \in Live
      BY <2>1, <2>7
    <3>3. QED
      BY <1>2, <3>1, <3>2 DEF Busy, Live
  <2>10. phase' = phase
    BY <2>6, <2>9 DEF DrainSeesAll
  <2>11. Drain!BeginWork(p)
    BY <1>1, <2>2, <2>8, <2>9, <2>10 DEF Drain!BeginWork
  <2>12. QED
    BY <2>11 DEF Drain!DrainNext
<1>5. QED
  BY <1>3, <1>4 DEF StartPing, SendTestPing

(* The delivery of a ping ends with its record; that of a tip is part of   *)
(* its dispatch.                                                           *)
LEMMA JobImplements ==
  ASSUME IInv, DrainSeesAll', NEW j \in Jobs, Deliver(j)
  PROVE  Drain!DrainNext \/ UNCHANGED <<Begun, Busy, phase>>
<1>1. /\ QueueOK(deliveryQueue, activeDeliveries, step)
      /\ call \in [Tips \cup Pings -> {"none", "reading", "waiting", "done"}]
      /\ step \in [Jobs -> Steps] /\ Tips \cap Pings = {}
  BY DispatchAssumption DEF IInv, CallInv, QueueOK
<1>2. PICK c \in Tips \cup Pings : j \in JobsOf(c)
  BY DEF Jobs, JobsOf
<1>3. \A d \in Tips \cup Pings : JobsOf(d) \subseteq Jobs /\ (j \in JobsOf(d) => d = c)
  BY <1>2 DEF JobsOf, Jobs
<1>4. call' = call /\ OpenDispatches' = OpenDispatches
  BY DEF Deliver, Post, Record, ReadRecent, NotifyWebhookFailure, OpenDispatches
<1>5. ASSUME NEW s \in Steps \ {"none"}, step' = [step EXCEPT ![j] = s], step[j] # "none",
             s \in Live <=> step[j] \in Live
      PROVE  UNCHANGED <<Begun, Busy>>
  <2>1. \A k \in Jobs : /\ step'[k] = "none" <=> step[k] = "none"
                        /\ step'[k] \in Live <=> step[k] \in Live
    BY <1>1, <1>5
  <2>2. QED
    BY <1>3, <1>4, <2>1, SameWork
<1>6. CASE Post(j)
  BY <1>5, <1>6 DEF Post, Live, Steps
<1>7. CASE ReadRecent(j)
  <2>1. PICK s \in {"notifying", "over"} : step' = [step EXCEPT ![j] = s]
    BY <1>7 DEF ReadRecent
  <2>2. QED
    BY <1>5, <1>7, <2>1 DEF ReadRecent, Live, Steps
<1>8. CASE NotifyWebhookFailure(j)
  BY <1>5, <1>8 DEF NotifyWebhookFailure, Live, Steps
<1>9. CASE Record(j)
  <2> DEFINE steps == [step EXCEPT ![j] = AfterOutcome(j)]
  <2>1. /\ phase # "dead" /\ step[j] = "recording" /\ AfterOutcome(j) \in {"looking", "over"}
        /\ ProcessDeliveryQueue(deliveryQueue, activeDeliveries - 1, steps)
    BY <1>9 DEF Record, Running, AfterOutcome
  <2>2. QueueOK(deliveryQueue, activeDeliveries - 1, steps)
    BY <1>1, <2>1, SlotFreed
  <2>3. /\ \A k \in Jobs : /\ step'[k] = "none" <=> steps[k] = "none"
                           /\ step'[k] \in Live <=> steps[k] \in Live
        /\ phase' = IF phase = "draining" /\ Idle' THEN "closed" ELSE phase
    BY <2>1, <2>2, PassSameWork
  <2>4. /\ \A k \in Jobs \ {j} : steps[k] = step[k]
        /\ steps[j] # "none" /\ steps[j] \notin Live /\ step[j] # "none" /\ step[j] \in Live
    BY <1>1, <2>1 DEF Live
  <2> HIDE DEF steps
  <2>5. /\ \A k \in Jobs \ {j} : /\ step'[k] = "none" <=> step[k] = "none"
                                 /\ step'[k] \in Live <=> step[k] \in Live
        /\ step'[j] # "none" /\ step'[j] \notin Live
    BY <2>3, <2>4
  <2>6. CASE c \in Tips
    <3>1. \A p \in Pings : JobsOf(p) \subseteq Jobs \ {j}
      BY <1>1, <1>3, <2>6
    <3>2. UNCHANGED <<Begun, Busy>>
      BY <1>4, <2>5, <3>1, SameWork
    <3>3. c \in OpenDispatches
      <4>1. call[c] \notin {"none", "reading", "done"}
        BY <1>2, <2>1, <2>6 DEF IInv, CallInv
      <4>2. QED
        BY <1>1, <2>6, <4>1 DEF OpenDispatches
    <3>4. ~Idle'
      BY <1>4, <3>3 DEF DrainSeesAll, Busy
    <3>5. QED
      BY <2>3, <3>2, <3>4
  <2>7. CASE c \in Pings
    <3>1. \A p \in Pings \ {c} : JobsOf(p) \subseteq Jobs \ {j}
      BY <1>3
    <3>2. Begun' = Begun
      <4>1. \A p \in Pings :
              (\E k \in JobsOf(p) : step'[k] # "none") <=> (\E k \in JobsOf(p) : step[k] # "none")
        BY <1>2, <2>4, <2>5, <3>1
      <4>2. QED
        BY <1>4, <4>1 DEF Begun
    <3>3. c \in Busy
      BY <1>2, <2>4, <2>7 DEF Busy, Live
    <3>4. \A p \in Pings \ {c} :
            (\E k \in JobsOf(p) : step'[k] \in Live) <=> (\E k \in JobsOf(p) : step[k] \in Live)
      BY <2>5, <3>1
    <3>5. Busy' \ {c} = Busy \ {c}
      BY <1>1, <1>4, <3>4 DEF Busy, Live
    <3>6. CASE c \in Busy'
      <4>1. Busy' = Busy
        BY <3>3, <3>5, <3>6
      <4>2. QED
        BY <2>3, <3>2, <3>6, <4>1 DEF DrainSeesAll
    <3>7. CASE c \notin Busy'
      <4>1. Busy' = Busy \ {c}
        BY <3>5, <3>7
      <4>2. Drain!EndWork(c)
        BY <2>1, <2>3, <3>2, <3>3, <4>1 DEF Drain!EndWork, DrainSeesAll
      <4>3. QED
        BY <2>7, <4>2 DEF Drain!DrainNext
    <3>8. QED
      BY <3>6, <3>7
  <2>8. QED
    BY <2>6, <2>7
<1>10. QED
  BY <1>6, <1>7, <1>8, <1>9 DEF Deliver, Post, ReadRecent, NotifyWebhookFailure

LEMMA StepImplements ==
  IInv /\ DrainSeesAll /\ DrainSeesAll' /\ [Next]_vars => [Drain!DrainNext]_(Drain!drainVars)
<1> SUFFICES ASSUME IInv, DrainSeesAll, DrainSeesAll', [Next]_vars
             PROVE  Drain!DrainNext \/ UNCHANGED <<Begun, Busy, phase>>
  BY DEF Drain!drainVars
<1>1. CASE UNCHANGED <<call, step, phase>>
  BY <1>1, SameWork DEF OpenDispatches
<1>2. CASE DrainWebhookDeliveries
  <2>1. UNCHANGED <<Begun, Busy>>
    BY <1>2, SameWork DEF DrainWebhookDeliveries, OpenDispatches
  <2>2. Drain!StartDrain
    BY <1>2, <2>1 DEF DrainWebhookDeliveries, Drain!StartDrain, DrainSeesAll
  <2>3. QED
    BY <2>2 DEF Drain!DrainNext
<1>3. CASE Exit
  <2>1. UNCHANGED <<Begun, Busy>>
    BY <1>3, SameWork DEF Exit, OpenDispatches
  <2>2. Drain!Die
    BY <1>3, <2>1 DEF Exit, Running, Drain!Die
  <2>3. QED
    BY <2>2 DEF Drain!DrainNext
<1>4. CASE (\E h \in Hooks : WindowLapses(h)) \/ UNCHANGED vars
  BY <1>1, <1>4 DEF WindowLapses, vars
<1>5. QED
  BY <1>2, <1>3, <1>4, CallImplements, PingImplements, JobImplements DEF Next

-----------------------------------------------------------------------------
(* The theorems.                                                           *)

(* The inductive invariant of the queue and the calls.                     *)
THEOREM DispatchInductive == Spec => []IInv
BY InitIInv, NextKeeps, PTL DEF Spec

(* Types.                                                                  *)
THEOREM DispatchTypeCorrect == Spec => []TypeOK
<1>1. IInv => TypeOK
  BY HoldingFinite, OpenFinite DEF IInv, QueueOK, CallInv, TypeOK, Steps
<1>2. QED
  BY <1>1, DispatchInductive, PTL

(* processDeliveryQueue never has more than deliveryConcurrency requests   *)
(* under way, and its counter is their number (webhooks.service.ts, lines  *)
(* 131-149).                                                               *)
THEOREM LimitHolds == Spec => []SlotsRespected
<1>1. IInv => SlotsRespected
  BY DEF IInv, QueueOK, SlotsRespected, InFlight, Holding
<1>2. QED
  BY <1>1, DispatchInductive, PTL

(* No job waits beside a free slot (lines 131-149 and 161).                *)
THEOREM SlotsAreUsed == Spec => []NoIdleSlot
<1>1. IInv => NoIdleSlot
  BY DEF IInv
<1>2. QED
  BY <1>1, DispatchInductive, PTL

(* No job is lost or queued twice (lines 136 and 157).                     *)
THEOREM QueueIsExact == Spec => []QueueHoldsQueued
<1>1. IInv => QueueHoldsQueued
  BY DEF IInv, QueueOK, QueueHoldsQueued
<1>2. QED
  BY <1>1, DispatchInductive, PTL

(* The queue as a whole: the three together, for any number of jobs and    *)
(* slots and any order of completions (lines 131-164).                     *)
THEOREM QueueIsSound == Spec => []QueueSound
<1>1. QueueSound <=> SlotsRespected /\ NoIdleSlot /\ QueueHoldsQueued
  BY DEF QueueSound
<1>2. QED
  BY <1>1, LimitHolds, SlotsAreUsed, QueueIsExact, PTL

(* The drain ends when the work does: with it over, no dispatch of a tip   *)
(* is half done, and while it waits there is work (lines 119-129, 166-198).*)
THEOREM DrainIsExact == Spec => [](DrainedQuiet /\ NoLostWaiter)
<1>1. IInv => DrainedQuiet /\ NoLostWaiter
  BY DEF IInv, CallInv, QueueOK, DrainedQuiet, OpenDispatches, NoLostWaiter
<1>2. QED
  BY <1>1, DispatchInductive, PTL

(* Jobs start in the order they were queued in, those of later tips behind *)
(* those of earlier ones (lines 136 and 157).                              *)
THEOREM OrderKept == Spec => StartsInOrder
<1>1. IInv /\ [Next]_vars =>
        [\A a, b \in 1 .. Len(deliveryQueue) :
           a < b /\ step'[deliveryQueue[b]] # "queued" => step'[deliveryQueue[a]] # "queued"]_vars
  BY StepInOrder DEF InOrder
<1>2. QED
  BY <1>1, DispatchInductive, PTL DEF Spec, StartsInOrder

(* A step writes one row at most, and then its writer is done; a failure   *)
(* that finds a row begins no write; every other step adds no writer.      *)
LEMMA BurstStep ==
  ASSUME IInv, [Next]_vars, NEW h \in Hooks, rows[h] > 0, rows'[h] > 0
  PROVE  rows'[h] + Cardinality(Writing(h)') <= rows[h] + Cardinality(Writing(h))
<1> /\ step \in [Jobs -> Steps]
    /\ rows \in [Hooks -> Nat]
  BY DEF IInv, QueueOK, CallInv
<1>1. IsFiniteSet(Writing(h)) /\ Cardinality(Writing(h)) \in Nat
  BY JobsFinite, FiniteSubset DEF Writing
<1>2. ASSUME rows'[h] <= rows[h], rows'[h] \in Nat,
             \A j \in Jobs : step'[j] = "notifying" => step[j] = "notifying" \/ j[2] # h
      PROVE  rows'[h] + Cardinality(Writing(h)') <= rows[h] + Cardinality(Writing(h))
  <2>1. Writing(h)' \in SUBSET Writing(h)
    BY <1>2 DEF Writing
  <2>2. Cardinality(Writing(h)') \in Nat /\ Cardinality(Writing(h)') <= Cardinality(Writing(h))
    BY <1>1, <2>1, FS_Subset, FS_CardinalityType
  <2>3. QED
    BY <1>1, <1>2, <2>2
<1>3. CASE UNCHANGED vars
  BY <1>2, <1>3 DEF vars
<1>4. ASSUME NEW j \in Jobs, NotifyWebhookFailure(j)
      PROVE  rows'[h] + Cardinality(Writing(h)') <= rows[h] + Cardinality(Writing(h))
  <2>1. step' = [step EXCEPT ![j] = "over"] /\ step[j] = "notifying"
        /\ rows' \in {rows, [rows EXCEPT ![j[2]] = @ + 1]} /\ j[2] \in Hooks
    BY <1>4 DEF NotifyWebhookFailure, Jobs
  <2>2. CASE rows' = rows \/ j[2] # h
    BY <1>2, <2>1, <2>2
  <2>3. CASE rows' = [rows EXCEPT ![j[2]] = @ + 1] /\ j[2] = h
    <3>1. Writing(h)' = Writing(h) \ {j} /\ j \in Writing(h)
      BY <2>1, <2>3 DEF Writing
    <3>2. Cardinality(Writing(h)') = Cardinality(Writing(h)) - 1
      BY <1>1, <3>1, FS_RemoveElement
    <3>3. rows'[h] = rows[h] + 1
      BY <2>3
    <3>4. QED
      BY <1>1, <3>2, <3>3
  <2>4. QED
    BY <2>1, <2>2, <2>3
<1>5. ASSUME NEW j \in Jobs, ReadRecent(j)
      PROVE  rows'[h] + Cardinality(Writing(h)') <= rows[h] + Cardinality(Writing(h))
  BY <1>2, <1>5 DEF ReadRecent
<1>6. ASSUME NEW k \in Hooks, WindowLapses(k)
      PROVE  rows'[h] + Cardinality(Writing(h)') <= rows[h] + Cardinality(Writing(h))
  BY <1>2, <1>6 DEF WindowLapses
<1>7. ASSUME rows' = rows, step' = step
      PROVE  rows'[h] + Cardinality(Writing(h)') <= rows[h] + Cardinality(Writing(h))
  BY <1>2, <1>7
<1>8. ASSUME NEW q, rows' = rows, QueueDeliveries(q)
      PROVE  rows'[h] + Cardinality(Writing(h)') <= rows[h] + Cardinality(Writing(h))
  BY <1>2, <1>8 DEF QueueDeliveries, ProcessDeliveryQueue
<1>9. ASSUME NEW j \in Jobs, Record(j)
      PROVE  rows'[h] + Cardinality(Writing(h)') <= rows[h] + Cardinality(Writing(h))
  BY <1>2, <1>9 DEF Record, AfterOutcome, ProcessDeliveryQueue
<1>10. ASSUME NEW j \in Jobs, Post(j)
       PROVE  rows'[h] + Cardinality(Writing(h)') <= rows[h] + Cardinality(Writing(h))
  BY <1>2, <1>10 DEF Post
<1>11. ASSUME NEW t \in Tips, DispatchWebhooks(t)
       PROVE  rows'[h] + Cardinality(Writing(h)') <= rows[h] + Cardinality(Writing(h))
  BY <1>8, <1>11 DEF DispatchWebhooks
<1>12. ASSUME NEW p \in Pings, SendTestPing(p)
       PROVE  rows'[h] + Cardinality(Writing(h)') <= rows[h] + Cardinality(Writing(h))
  BY <1>7, <1>8, <1>12 DEF SendTestPing
<1>13. QED
  BY <1>3, <1>4, <1>5, <1>6, <1>7, <1>9, <1>10, <1>11, <1>12
     DEF Next, Dispatch, Deliver, EnqueueWebhookDispatch, FinishDispatch, StartPing,
         DrainWebhookDeliveries, Exit

(* From the first notification in a window on, later failures add none,    *)
(* for any number of webhooks, jobs and slots (webhook-failure.service.ts, *)
(* lines 50-81).                                                           *)
THEOREM BurstEnds == Spec => BurstIsOver
<1>1. IInv /\ [Next]_vars =>
        [\A h \in Hooks : rows[h] > 0 /\ rows'[h] > 0 =>
           rows'[h] + Cardinality(Writing(h)') <= rows[h] + Cardinality(Writing(h))]_vars
  BY BurstStep
<1>2. QED
  BY <1>1, DispatchInductive, PTL DEF Spec, BurstIsOver

(* The queue with its counters and its waiters implements the drain the    *)
(* shutdown relies on: over at once when nothing is under way, otherwise   *)
(* with the step that ends the last of it (lines 119-129, 143-147 and      *)
(* 166-198).                                                               *)
THEOREM DispatchImplementsDrain == Spec => ImplementsDrain
<1>1. Init => Drain!DrainInit
  BY SMT DEF Init, Begun, Busy, OpenDispatches, JobsOf, Jobs, Drain!DrainInit
<1>2. QED
  BY <1>1, IdleIsNotBusy, StepImplements, DispatchInductive, PTL
     DEF Spec, ImplementsDrain, Drain!DrainSpec
==============================================================================

---------------------------- MODULE ProcessProofs ----------------------------
(***************************************************************************)
(* Proofs about the life of the process, Application: that a shutdown is   *)
(* orderly and keeps to the contract of the delivery queue.  Then about    *)
(* the pruner of placeholders that runs in it, PlaceholderPruner: its      *)
(* types, and that it takes no creator whose claim was answered.           *)
(***************************************************************************)
EXTENDS Application, PlaceholderPruner, WellFoundedInduction, TLAPS

-----------------------------------------------------------------------------
(* The life of the process.                                                *)

(* What the shutdown has behind it stays so: nobody starts the indexer or  *)
(* a timer again, and the server lets no request in.                       *)
ShutdownInv ==
  /\ app \in {"stopping", "closing", "draining", "disconnecting", "clean"} => ~running /\ ~active
  /\ app \in {"closing", "draining", "disconnecting", "clean"} => indexer = "off"
  /\ app \in {"draining", "disconnecting", "clean"} => \A p \in Pings : request[p] # "open"

(* How far the queue is when the process is that far.                      *)
QueueInv ==
  /\ app \in {"starting", "serving", "stopping", "closing"} => phase = "up"
  /\ app = "draining" => phase \in {"draining", "closed"}
  /\ app = "disconnecting" => phase = "closed"
  /\ phase = "closed" \/ app = "clean" => busy \cap Tips = {}

AppInv == AppTypeOK /\ ShutdownInv /\ QueueInv

LEMMA AppInitInv == AppInit => AppInv
<1> SUFFICES ASSUME AppInit PROVE AppInv
  OBVIOUS
<1>1. AppTypeOK
  BY DEF AppInit, DrainInit, AppTypeOK
<1>2. ShutdownInv /\ QueueInv
  BY DEF AppInit, DrainInit, ShutdownInv, QueueInv
<1>3. QED
  BY <1>1, <1>2 DEF AppInv

LEMMA AppTypeStep == AppTypeOK /\ [AppNext]_appVars => AppTypeOK'
<1> SUFFICES ASSUME AppTypeOK, [AppNext]_appVars PROVE AppTypeOK'
  OBVIOUS
<1>1. /\ busy' \subseteq begun' /\ begun' \subseteq Tips \cup Pings
      /\ phase' \in {"up", "draining", "closed", "dead"}
  BY DEF AppNext, Start, StartFails, Exit, Listen, ListenFails, Work, HandOver, Accept, HangUp,
         Ping, Answer, WorkEnds, IndexerBoots, BootFails, IterationEnds, IndexerWakes, PassBegins,
         PassEnds, Signal, CloseServer, ServerClosed, Disconnect, CleanExit, ShutdownFails,
         ShutdownTimeout, BeginWork, EndWork, StartDrain, drainVars, appVars, AppTypeOK
<1>2. /\ app' \in {"starting", "serving", "stopping", "closing", "draining", "disconnecting"}
                  \cup Ended
      /\ request' \in [Pings -> {"none", "open", "left", "over"}]
  BY DEF AppNext, Start, StartFails, Exit, Listen, ListenFails, Work, HandOver, Accept, HangUp,
         Ping, Answer, WorkEnds, IndexerBoots, BootFails, IterationEnds, IndexerWakes, PassBegins,
         PassEnds, Signal, CloseServer, ServerClosed, Disconnect, CleanExit, ShutdownFails,
         ShutdownTimeout, Ended, appVars, AppTypeOK
<1>3. /\ indexer' \in {"off", "boot", "poll", "asleep"} /\ (indexer' = "asleep" => running')
      /\ pruner' \in {"off", "timer", "pass"} /\ (pruner' = "timer" => active')
  BY DEF AppNext, Start, StartFails, Exit, Listen, ListenFails, Work, HandOver, Accept, HangUp,
         Ping, Answer, WorkEnds, IndexerBoots, BootFails, IterationEnds, IndexerWakes, PassBegins,
         PassEnds, Signal, StopPruners, StopIndexer, CloseServer, ServerClosed, Disconnect,
         CleanExit, ShutdownFails, ShutdownTimeout, appVars, AppTypeOK
<1>4. {running', active', listening', timer'} \subseteq BOOLEAN
  BY DEF AppNext, Start, StartFails, Exit, Listen, ListenFails, Work, HandOver, Accept, HangUp,
         Ping, Answer, WorkEnds, IndexerBoots, BootFails, IterationEnds, IndexerWakes, PassBegins,
         PassEnds, Signal, StopPruners, ArmTimer, StopIndexer, CloseServer, ServerClosed,
         Disconnect, CleanExit, ShutdownFails, ShutdownTimeout, appVars, AppTypeOK
<1>5. QED
  BY <1>1, <1>2, <1>3, <1>4 DEF AppTypeOK

LEMMA ShutdownStep == AppInv /\ [AppNext]_appVars => ShutdownInv'
<1> SUFFICES ASSUME AppTypeOK, ShutdownInv, [AppNext]_appVars PROVE ShutdownInv'
  BY DEF AppInv
<1>1. CASE Start \/ Signal
  BY <1>1 DEF Start, Signal, StopPruners, StopIndexer, ShutdownInv
<1>2. CASE CloseServer \/ ServerClosed \/ Disconnect
  BY <1>2 DEF CloseServer, ServerClosed, Disconnect, IndexerStopped, ShutdownInv
<1>3. ASSUME NEW how \in Ended, Exit(how), how = "clean" => app = "disconnecting"
      PROVE  ShutdownInv'
  BY <1>3 DEF Exit, Ended, ShutdownInv
<1>4. CASE StartFails \/ ListenFails \/ BootFails \/ CleanExit \/ ShutdownFails \/ ShutdownTimeout
  BY <1>3, <1>4 DEF StartFails, ListenFails, BootFails, CleanExit, ShutdownFails, ShutdownTimeout,
                    Ended
<1>5. CASE IndexerBoots \/ IterationEnds \/ IndexerWakes \/ PassBegins \/ PassEnds \/ Listen
  BY <1>5 DEF IndexerBoots, IterationEnds, IndexerWakes, PassBegins, PassEnds, Listen, ShutdownInv
<1>6. ASSUME NEW p \in Pings, Accept(p) \/ HangUp(p) \/ Answer(p) PROVE ShutdownInv'
  BY <1>6 DEF Accept, HangUp, Answer, ShutdownInv, AppTypeOK
<1>7. CASE \/ \E t \in Tips : HandOver(t)
           \/ \E p \in Pings : Ping(p)
           \/ \E w \in Tips \cup Pings : WorkEnds(w)
           \/ UNCHANGED appVars
  BY <1>7 DEF HandOver, Ping, WorkEnds, appVars, ShutdownInv
<1>8. QED
  BY <1>1, <1>2, <1>4, <1>5, <1>6, <1>7 DEF AppNext, Work

(* Each step of the process is a step of the queue, or none.               *)
LEMMA DrainStep == AppInv /\ [AppNext]_appVars => [DrainNext]_drainVars
<1> SUFFICES ASSUME AppInv, [AppNext]_appVars PROVE DrainNext \/ UNCHANGED drainVars
  OBVIOUS
<1>1. app \notin Ended => phase # "dead"
  BY DEF AppInv, AppTypeOK, QueueInv
<1>2. ASSUME NEW t \in Tips, HandOver(t) PROVE BeginWork(t)
  <2>1. phase = "up"
    BY <1>2 DEF HandOver, Up, Ended, AppInv, AppTypeOK, ShutdownInv, QueueInv
  <2>2. QED
    BY <1>2, <2>1 DEF HandOver, BeginWork
<1>3. ASSUME NEW p \in Pings, Ping(p) PROVE BeginWork(p)
  BY <1>3 DEF Ping
<1>4. ASSUME NEW w \in Tips \cup Pings, WorkEnds(w) PROVE EndWork(w)
  BY <1>4 DEF WorkEnds
<1>5. CASE ServerClosed
  BY <1>5 DEF ServerClosed, DrainNext
<1>6. ASSUME NEW how, Exit(how), app \notin Ended PROVE Die
  BY <1>1, <1>6 DEF Exit, Die
<1>7. CASE StartFails \/ ListenFails \/ BootFails \/ CleanExit \/ ShutdownFails \/ ShutdownTimeout
  BY <1>6, <1>7 DEF StartFails, ListenFails, BootFails, CleanExit, ShutdownFails, ShutdownTimeout,
                    Up, Ended, DrainNext
<1>8. CASE \/ Start \/ Listen \/ IndexerBoots \/ IterationEnds \/ IndexerWakes \/ PassBegins
           \/ PassEnds \/ (\E p \in Pings : Accept(p) \/ HangUp(p) \/ Answer(p))
           \/ Signal \/ CloseServer \/ Disconnect \/ UNCHANGED appVars
  BY <1>8 DEF Start, Listen, IndexerBoots, IterationEnds, IndexerWakes, PassBegins, PassEnds,
              Accept, HangUp, Answer, Signal, CloseServer, Disconnect, appVars
<1>9. QED
  BY <1>2, <1>3, <1>4, <1>5, <1>7, <1>8 DEF AppNext, Work, DrainNext

LEMMA QueueStep == AppInv /\ [AppNext]_appVars => QueueInv'
<1> SUFFICES ASSUME AppInv, [AppNext]_appVars PROVE QueueInv'
  OBVIOUS
<1> USE DEF AppInv
<1>1. ASSUME NEW t \in Tips, HandOver(t) PROVE QueueInv'
  BY <1>1 DEF HandOver, Up, Ended, AppTypeOK, ShutdownInv, QueueInv
<1>2. ASSUME NEW p \in Pings, Ping(p) PROVE QueueInv'
  BY <1>2 DEF Ping, Up, Ended, BeginWork, QueueInv
<1>3. ASSUME NEW w \in Tips \cup Pings, WorkEnds(w) PROVE QueueInv'
  BY <1>3 DEF WorkEnds, Up, Ended, EndWork, QueueInv
<1>4. CASE ServerClosed
  BY <1>4 DEF ServerClosed, StartDrain, QueueInv
<1>5. CASE Start \/ Signal \/ CloseServer \/ Disconnect
  BY <1>5 DEF Start, Signal, CloseServer, Disconnect, Drained, drainVars, QueueInv
<1>6. ASSUME NEW how \in Ended, Exit(how), how = "clean" => app = "disconnecting"
      PROVE  QueueInv'
  BY <1>6 DEF Exit, Ended, QueueInv
<1>7. CASE StartFails \/ ListenFails \/ BootFails \/ CleanExit \/ ShutdownFails \/ ShutdownTimeout
  BY <1>6, <1>7 DEF StartFails, ListenFails, BootFails, CleanExit, ShutdownFails, ShutdownTimeout,
                    Ended
<1>8. CASE \/ Listen \/ IndexerBoots \/ IterationEnds \/ IndexerWakes \/ PassBegins \/ PassEnds
           \/ (\E p \in Pings : Accept(p) \/ HangUp(p) \/ Answer(p)) \/ UNCHANGED appVars
  BY <1>8 DEF Listen, IndexerBoots, IterationEnds, IndexerWakes, PassBegins, PassEnds,
              Accept, HangUp, Answer, drainVars, appVars, QueueInv
<1>9. QED
  BY <1>1, <1>2, <1>3, <1>4, <1>5, <1>7, <1>8 DEF AppNext, Work

LEMMA AppInductive == AppSpec => []AppInv
<1>1. AppInv /\ [AppNext]_appVars => AppInv'
  BY AppTypeStep, ShutdownStep, QueueStep DEF AppInv
<1>2. QED
  BY <1>1, AppInitInv, PTL DEF AppSpec

(* The types; a loop that was told to stop does not sleep, and a pruner    *)
(* that was has no timer (indexer.ts, lines 265-272).                      *)
THEOREM AppTypeCorrect == AppSpec => []AppTypeOK
<1>1. AppInv => AppTypeOK
  BY DEF AppInv
<1>2. QED
  BY <1>1, AppInductive, PTL

(* When the connections to the database and Redis close, everything the    *)
(* shutdown waits for is over, for any number of tips and requests and     *)
(* wherever the signal found them (app.ts, lines 54-75).                   *)
THEOREM ShutdownIsOrderly == AppSpec => []NothingCutOff
<1>1. AppInv => NothingCutOff
  BY DEF AppInv, AppTypeOK, ShutdownInv, QueueInv, NothingCutOff
<1>2. QED
  BY <1>1, AppInductive, PTL

(* The process implements the contract of the queue: no tip enters a queue *)
(* that drains, although only the order of the shutdown keeps it out       *)
(* (app.ts, lines 69-73).                                                  *)
THEOREM ProcessDrains == AppSpec => KeepsToDrain
<1>1. AppInit => DrainInit
  BY DEF AppInit
<1>2. AppInv /\ [AppNext]_appVars => [DrainNext]_drainVars
  BY DrainStep
<1>3. QED
  BY <1>1, <1>2, AppInductive, PTL DEF AppSpec, KeepsToDrain, DrainSpec

-----------------------------------------------------------------------------
(* The pass over the abandoned placeholders (PlaceholderPruner).           *)

(* A pass that goes on has a batch left of its budget.                     *)
BudgetInv == stage \in {"scan", "delete"} => batchesUsed < MaxBatches

(* An answered claim has left the placeholder form, and if the batch in    *)
(* hand was scanned before, its release is on record.                      *)
KeptInv ==
  \A c \in claimed : /\ slug[c] \in {"prefix", "real"}
                     /\ c \in ids => c \in released

PlaceholderInv == TypeOK /\ BudgetInv /\ KeptInv

(* A set of numbers has a least one.                                       *)
LEMMA Least ==
  ASSUME NEW T, T \subseteq Nat, T # {}
  PROVE  \E x \in T : \A y \in T : x <= y
<1> DEFINE R == {p \in Nat \X Nat : p[1] < p[2]}
<1>1. IsWellFoundedOn(R, Nat)
  <2>1. R = OpToRel(<, Nat)
    BY DEF OpToRel
  <2>2. QED
    BY <2>1, NatLessThanWellFounded
<1> HIDE DEF R
<1>2. \E x \in T : \A y \in T : ~(<<y, x>> \in R)
  <2>1. T \subseteq Nat /\ T # {}
    OBVIOUS
  <2>2. QED
    BY <1>1, <2>1, WFMin, Zenon
<1>3. ASSUME NEW x \in T, NEW y \in T, <<y, x>> \notin R
      PROVE  x <= y
  BY <1>3 DEF R
<1>4. QED
  BY <1>2, <1>3

LEMMA MaxFound ==
  ASSUME NEW n \in Nat, NEW T, T \subseteq 1 .. n, T # {}
  PROVE  Max(T) \in T
<1> DEFINE below == {n - x : x \in T}
<1>1. below \subseteq Nat /\ below # {}
  <2>1. \A x \in T : n - x \in Nat
    OBVIOUS
  <2>2. QED
    BY <2>1
<1>2. PICK y \in below : \A z \in below : y <= z
  BY <1>1, Least
<1>3. PICK x \in T : y = n - x
  OBVIOUS
<1>4. ASSUME NEW z \in T PROVE x >= z
  <2>1. n - x <= n - z
    BY <1>2, <1>3
  <2>2. QED
    BY <2>1
<1>5. QED
  BY <1>4 DEF Max

LEMMA PlaceholderInitInv == Init => PlaceholderInv
<1> SUFFICES ASSUME Init PROVE PlaceholderInv
  OBVIOUS
<1> USE PlaceholderAssumption DEF Init
<1>1. full \in BOOLEAN /\ pruneActive \in BOOLEAN /\ (stage = "timer" => pruneActive)
  OBVIOUS
<1>2. cursor \in 0 .. NumCreators /\ batchesUsed \in 0 .. MaxBatches /\ faults \in 0 .. MaxFaults
  OBVIOUS
<1>3. /\ slug \in [Creators -> Forms \cup {"none"}]
      /\ inUse \cup released \subseteq {c \in Creators : Exists(c)}
  BY DEF Forms
<1>4. TypeOK
  BY <1>1, <1>2, <1>3 DEF TypeOK
<1>5. BudgetInv /\ KeptInv
  BY DEF BudgetInv, KeptInv
<1>6. QED
  BY <1>4, <1>5 DEF PlaceholderInv

(* A page has a last row, which becomes the cursor.                        *)
LEMMA ScanMoves ==
  ASSUME TypeOK, Scan
  PROVE  /\ cursor' \in 0 .. NumCreators /\ ids' \subseteq Creators /\ full' \in BOOLEAN
         /\ \A c \in ids' : c \in ids \/ slug[c] = "placeholder"
         /\ stage' = "delete" \/ ScheduleNext
<1>1. PICK behind \in After :
        LET page == Page({c \in due \cap behind : slug[c] \in {"placeholder", "prefix"} /\ IsInert(c)})
        IN IF page = {}
           THEN ScheduleNext /\ UNCHANGED passVars
           ELSE /\ stage' = "delete"
                /\ ids' = {c \in page : slug[c] = "placeholder"}
                /\ cursor' = Max(page)
                /\ full' = (Cardinality(page) = BatchSize)
                /\ UNCHANGED <<due, batchesUsed>>
  BY DEF Scan
<1> DEFINE page == Page({c \in due \cap behind : slug[c] \in {"placeholder", "prefix"} /\ IsInert(c)})
<1>2. page \subseteq 1 .. NumCreators
  BY DEF Page, TypeOK, Creators
<1> HIDE DEF page
<1>3. CASE page = {}
  <2>1. ScheduleNext /\ UNCHANGED passVars
    BY <1>1, <1>3 DEF page
  <2>2. full' = full
    BY <2>1 DEF passVars
  <2>3. QED
    BY <2>1, <2>2 DEF passVars, TypeOK
<1>4. CASE page # {}
  <2>1. Max(page) \in 0 .. NumCreators
    <3>1. NumCreators \in Nat
      BY PlaceholderAssumption
    <3>2. Max(page) \in page
      BY <1>2, <1>4, <3>1, MaxFound
    <3>3. \A x \in 1 .. NumCreators : x \in 0 .. NumCreators
      BY <3>1
    <3>4. QED
      BY <1>2, <3>2, <3>3, Zenon
  <2>2. /\ stage' = "delete" /\ cursor' = Max(page)
        /\ ids' = {c \in page : slug[c] = "placeholder"}
        /\ full' = (Cardinality(page) = BatchSize)
    BY <1>1, <1>4 DEF page
  <2>3. full' \in BOOLEAN
    BY <2>2, Zenon
  <2>4. QED
    BY <1>2, <2>1, <2>2, <2>3 DEF Creators
<1>5. QED
  BY <1>3, <1>4

LEMMA PlaceholderTypeStep ==
  ASSUME TypeOK, BudgetInv, [Next]_vars
  PROVE  TypeOK' /\ BudgetInv'
<1> USE PlaceholderAssumption DEF TypeOK, BudgetInv
<1>1. ASSUME NEW c \in Creators,
             Expire(c) \/ Use(c) \/ FallIdle(c) \/ ReleasePassesOn(c) \/ DeleteCreator(c)
      PROVE  TypeOK' /\ BudgetInv'
  BY <1>1 DEF Expire, Use, FallIdle, ReleasePassesOn, DeleteCreator, Exists, Fault, passVars
<1>2. ASSUME NEW c \in Creators, Claim(c) PROVE TypeOK' /\ BudgetInv'
  BY <1>2 DEF Claim, UpdateClaim, RecordSlugRelease, LoseRelease, Exists, Fault, Forms, passVars
<1>3. CASE StartPass
  <2>1. /\ stage' = "scan" /\ cursor' = 0 /\ ids' = {} /\ full' = FALSE /\ batchesUsed' = 0
        /\ due' = expired /\ UNCHANGED <<rowVars, pruneActive, faults>>
    BY <1>3 DEF StartPass
  <2>2. cursor' \in 0 .. NumCreators /\ batchesUsed' \in 0 .. MaxBatches /\ batchesUsed' < MaxBatches
    BY <2>1
  <2>3. full' \in BOOLEAN /\ pruneActive' \in BOOLEAN
    BY <2>1
  <2>4. QED
    BY <2>1, <2>2, <2>3 DEF Exists, rowVars
<1>4. CASE Scan
  <2>1. /\ cursor' \in 0 .. NumCreators /\ ids' \subseteq Creators /\ full' \in BOOLEAN
        /\ stage' = "delete" \/ ScheduleNext
    BY <1>4, ScanMoves
  <2>2. /\ stage = "scan" /\ UNCHANGED <<rowVars, pruneActive, faults, due, batchesUsed>>
    BY <1>4 DEF Scan, passVars
  <2>3. stage' \in {"delete", "timer", "off"} /\ (stage' = "timer" => pruneActive)
    BY <2>1 DEF ScheduleNext
  <2>4. pruneActive' \in BOOLEAN /\ (stage' = "timer" => pruneActive')
    BY <2>2, <2>3
  <2>5. QED
    BY <2>1, <2>2, <2>3, <2>4 DEF Exists, rowVars
<1>5. CASE DeleteBatch
  <2>1. slug' \in [Creators -> Forms \cup {"none"}]
    BY <1>5 DEF DeleteBatch
  <2>2. inUse' \cup released' \subseteq {c \in Creators : slug'[c] # "none"}
    BY <1>5 DEF DeleteBatch, Exists
  <2>3. /\ batchesUsed' \in 0 .. MaxBatches
        /\ (stage' = "scan" /\ batchesUsed' < MaxBatches) \/ ScheduleNext
    BY <1>5 DEF DeleteBatch
  <2>4. /\ ids' = {} /\ UNCHANGED <<expired, updated, claimed, due, cursor, full, pruneActive, faults>>
    BY <1>5 DEF DeleteBatch
  <2>5. QED
    BY <2>1, <2>2, <2>3, <2>4 DEF ScheduleNext, Exists
<1>6. CASE PassFails
  BY <1>6 DEF PassFails, ScheduleNext, Fault, Exists, rowVars
<1>7. CASE StartPlaceholderCreatorPruner
  BY <1>7 DEF StartPlaceholderCreatorPruner, Exists, rowVars, passVars
<1>8. CASE StopPlaceholderCreatorPruner
  <2>1. /\ stage' \in {"off", "scan", "delete"} /\ (stage' # "off" => stage' = stage)
        /\ pruneActive' = FALSE /\ faults' \in 0 .. MaxFaults
        /\ UNCHANGED <<rowVars, passVars>>
    BY <1>8 DEF StopPlaceholderCreatorPruner, Fault
  <2>2. QED
    BY <2>1 DEF Exists, rowVars, passVars
<1>9. CASE UNCHANGED vars
  BY <1>9 DEF vars, Exists, rowVars, passVars
<1>10. QED
  BY <1>1, <1>2, <1>3, <1>4, <1>5, <1>6, <1>7, <1>8, <1>9 DEF Next, PrunePlaceholderCreators

LEMMA KeptStep ==
  ASSUME TypeOK, KeptInv, [Next]_vars
  PROVE  KeptInv'
<1> USE DEF TypeOK, KeptInv
<1>1. ASSUME NEW c \in Creators,
             Expire(c) \/ Use(c) \/ FallIdle(c) \/ ReleasePassesOn(c) \/ DeleteCreator(c)
      PROVE  KeptInv'
  BY <1>1 DEF Expire, Use, FallIdle, ReleasePassesOn, DeleteCreator, passVars
<1>2. ASSUME NEW c \in Creators, Claim(c) PROVE KeptInv'
  BY <1>2 DEF Claim, UpdateClaim, RecordSlugRelease, LoseRelease, Exists, passVars
<1>3. CASE Scan
  <2>1. \A c \in ids' : c \in ids \/ slug[c] = "placeholder"
    BY <1>3, ScanMoves
  <2>2. UNCHANGED rowVars
    BY <1>3 DEF Scan
  <2>3. QED
    BY <2>1, <2>2 DEF rowVars
<1>4. CASE DeleteBatch
  <2>1. \A c \in claimed : c \notin Deletable
    BY DEF Deletable, IsInert
  <2>2. QED
    BY <1>4, <2>1 DEF DeleteBatch
<1>5. CASE StartPass \/ PassFails
  BY <1>5 DEF StartPass, PassFails, rowVars
<1>6. CASE StartPlaceholderCreatorPruner \/ StopPlaceholderCreatorPruner \/ UNCHANGED vars
  BY <1>6 DEF StartPlaceholderCreatorPruner, StopPlaceholderCreatorPruner, vars, rowVars, passVars
<1>7. QED
  BY <1>1, <1>2, <1>3, <1>4, <1>5, <1>6 DEF Next, PrunePlaceholderCreators

LEMMA PlaceholderInductive == Spec => []PlaceholderInv
<1>1. PlaceholderInv /\ [Next]_vars => PlaceholderInv'
  BY PlaceholderTypeStep, KeptStep DEF PlaceholderInv
<1>2. QED
  BY <1>1, PlaceholderInitInv, PTL DEF Spec

(* Every variable keeps its type: a pass never exceeds its budget of       *)
(* batches, a timer is set only while the pruner is active, and nothing    *)
(* refers to a creator that is gone (placeholder-retention.ts, lines       *)
(* 128-143 and 187-228).                                                   *)
THEOREM PlaceholderTypeCorrect == Spec => []TypeOK
<1>1. PlaceholderInv => TypeOK
  BY DEF PlaceholderInv
<1>2. QED
  BY <1>1, PlaceholderInductive, PTL

(* A creator whose claim was answered is never taken for a placeholder,    *)
(* for any number of creators, any batch size and any budget, although the *)
(* delete goes by ids and does not ask for the slug again                  *)
(* (placeholder-retention.ts, lines 106-109).                              *)
THEOREM ClaimsAreKept == Spec => []ClaimedKept
<1>1. PlaceholderInv => ClaimedKept
  BY DEF PlaceholderInv, KeptInv, ClaimedKept, Exists
<1>2. QED
  BY <1>1, PlaceholderInductive, PTL
=============================================================================

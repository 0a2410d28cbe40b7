---------------------------- MODULE IndexerProofs ----------------------------
(***************************************************************************)
(* The indexer's invariants for every set of events, limit and bound, and  *)
(* that its poll loop implements TipLog.                                   *)
(***************************************************************************)
EXTENDS Indexer, FiniteSetTheorems, TLAPS

(* What a row stands for: its own event and those of its transaction.      *)
LEMMA RowsStand ==
  /\ \A S : WithRow(S) \subseteq Events
  /\ \A S \in SUBSET Events : S \subseteq WithRow(S)
  /\ \A S, U : S \subseteq U => WithRow(S) \subseteq WithRow(U)
BY DEF WithRow, Events

(* Events whose transactions have rows add nothing when they are stored.   *)
LEMMA RowsAbsorb ==
  ASSUME NEW S, NEW U \in SUBSET WithRow(S)
  PROVE  WithRow(S \cup U) = WithRow(S)
<1>1. WithRow(S) \subseteq WithRow(S \cup U)
  BY DEF WithRow
<1>2. ASSUME NEW T \in Transactions, T \cap (S \cup U) # {}
      PROVE  T \cap S # {}
  <2>1. CASE T \cap S # {}
    BY <2>1
  <2>2. CASE T \cap U # {}
    <3>1. PICK e \in T : e \in WithRow(S)
      BY <2>2
    <3>2. PICK T2 \in Transactions : e \in T2 /\ T2 \cap S # {}
      BY <3>1 DEF WithRow
    <3>3. T = T2
      BY <3>1, <3>2, ChainAssumption
    <3>4. QED
      BY <3>2, <3>3
  <2>3. QED
    BY <1>2, <2>1, <2>2
<1>3. WithRow(S \cup U) \subseteq WithRow(S)
  BY <1>2 DEF WithRow
<1>4. QED
  BY <1>1, <1>3

(* A tip already counted stays counted when rows are added.                *)
LEMMA EnoughGrows ==
  ASSUME NEW E \in SUBSET Events, NEW S, NEW T, S \subseteq T,
         HasEnough(E, S)
  PROVE  HasEnough(E, T)
<1>1. CASE E \subseteq S
  BY <1>1 DEF HasEnough
<1>2. CASE Cardinality(E \cap S) >= PollLimit
  <2>1. IsFiniteSet(E \cap T)
    BY FS_Subset, ChainAssumption
  <2>2. Cardinality(E \cap S) <= Cardinality(E \cap T) /\ IsFiniteSet(E \cap S)
    BY <2>1, FS_Subset, E \cap S \subseteq E \cap T
  <2>3. Cardinality(E \cap S) \in Nat /\ Cardinality(E \cap T) \in Nat
    BY <2>1, <2>2, FS_CardinalityType
  <2>4. Cardinality(E \cap T) >= PollLimit
    BY <1>2, <2>2, <2>3, ChainAssumption
  <2>5. QED
    BY <2>4 DEF HasEnough
<1>3. QED
  BY <1>1, <1>2 DEF HasEnough

LEMMA CoverageGrows ==
  ASSUME NEW S, NEW T, NEW c, S \subseteq T, CoveredBy(S, c)
  PROVE  CoveredBy(T, c)
<1>1. SUFFICES ASSUME NEW l \in StartLedger .. c, l > 0
               PROVE  HasEnough(EventsAt(l), WithRow(T))
  BY DEF CoveredBy
<1>2. HasEnough(EventsAt(l), WithRow(S))
  BY <1>1 DEF CoveredBy
<1>3. EventsAt(l) \in SUBSET Events /\ WithRow(S) \subseteq WithRow(T)
  BY RowsStand DEF EventsAt
<1>4. QED
  BY <1>2, <1>3, EnoughGrows

(* A batch as planBatch splits it covers every ledger up to the cursor it  *)
(* plans: the heart of the indexer.  A ledger below the last one of a      *)
(* batch is complete in it; the last one is complete in a short batch,     *)
(* left to the next fetch by a full one that spans several ledgers, and in *)
(* a full one of a single ledger represented by PollLimit tips.            *)
LEMMA BatchCovers ==
  ASSUME TypeOK, NEW s \in Nat, s >= StartLedger,
         CoveredBy(tips, s - 1),
         NEW B \in FetchResults(s), NEW last \in 1 .. head, IsLastLedger(B, last),
         NEW P, P = PlanBatch(B, last)
  PROVE  CoveredBy(tips \cup P.toProcess, P.cursor)
<1> USE ChainAssumption
<1> DEFINE A == Available(s)
<1>1. /\ B \subseteq A
      /\ Cardinality(B) <= PollLimit
      /\ B # A => Cardinality(B) = PollLimit
      /\ \A e \in B, f \in A \ B : ledgerOf[e] <= ledgerOf[f]
  BY DEF FetchResults
<1>2. A \subseteq Events /\ ledgerOf \in [Events -> Nat] /\ tips \subseteq Events
  BY DEF Available, TypeOK, DataOK
<1>3. IsFiniteSet(B) /\ Cardinality(B) \in Nat
  BY <1>1, <1>2, FS_Subset, FS_CardinalityType
<1>4. SUFFICES ASSUME NEW l \in StartLedger .. P.cursor, l > 0
               PROVE  HasEnough(EventsAt(l), WithRow(tips \cup P.toProcess))
  BY DEF CoveredBy
<1>5. P.cursor \in {last - 1, last} /\ P.toProcess \subseteq B /\ last \in Nat /\ l \in Nat
  BY DEF PlanBatch
<1>6. /\ WithRow(tips) \subseteq WithRow(tips \cup P.toProcess)
       /\ tips \cup P.toProcess \subseteq WithRow(tips \cup P.toProcess)
       /\ WithRow(tips \cup P.toProcess) \subseteq Events
  <2>1. tips \cup P.toProcess \in SUBSET Events
    BY <1>1, <1>2, <1>5
  <2>2. QED
    BY <2>1, RowsStand
<1>7. CASE l < s
  <2>1. HasEnough(EventsAt(l), WithRow(tips))
    BY <1>4, <1>7, <1>5 DEF CoveredBy
  <2>2. EventsAt(l) \in SUBSET Events
    BY DEF EventsAt
  <2>3. QED
    <3> DEFINE rows == WithRow(tips)
               more == WithRow(tips \cup P.toProcess)
    <3>1. rows \subseteq more /\ HasEnough(EventsAt(l), rows)
      BY <2>1, <1>6
    <3> HIDE DEF rows, more
    <3>2. HasEnough(EventsAt(l), more)
      BY <2>2, <3>1, EnoughGrows
    <3>3. QED
      BY <3>2 DEF more
<1>8. CASE l >= s /\ l < last
  <2>1. PICK top \in B : ledgerOf[top] = last
    BY DEF IsLastLedger
  <2>2. EventsAt(l) \subseteq B
    <3>1. SUFFICES ASSUME NEW f \in Events, ledgerOf[f] = l, f \notin B
                   PROVE  FALSE
      BY DEF EventsAt
    <3>2. f \in A
      BY <1>8, <3>1, <1>4 DEF Available
    <3>3. QED
      BY <1>1, <1>2, <1>5, <1>8, <2>1, <3>1, <3>2
  <2>3. EventsAt(l) \subseteq P.toProcess
    BY <2>2, <1>8, <1>5 DEF PlanBatch, EventsAt
  <2>4. QED
    BY <2>3, <1>6 DEF HasEnough
<1>9. CASE l = last
  <2>1. ~HoldsBack(B, last) /\ P.toProcess = B
    BY <1>9, <1>4, <1>5 DEF PlanBatch
  <2>2. CASE B = A
    <3>1. last >= s
      BY <1>1, <1>2, <1>5 DEF IsLastLedger, Available
    <3>2. EventsAt(l) \subseteq A
      BY <1>9, <1>4, <3>1, <1>5 DEF EventsAt, Available
    <3>3. B \subseteq tips \cup P.toProcess
      BY <2>1
    <3>4. EventsAt(l) \subseteq WithRow(tips \cup P.toProcess)
      BY <2>2, <3>2, <3>3, <1>6
    <3>5. QED
      BY <3>4 DEF HasEnough
  <2>3. CASE B # A
    <3>1. Cardinality(B) = PollLimit
      BY <1>1, <2>3
    <3>2. \A e \in B : ledgerOf[e] = last
      BY <2>1, <3>1, <1>1, <1>2, <1>5 DEF HoldsBack, IsLastLedger
    <3>3. B \subseteq EventsAt(l) \cap WithRow(tips \cup P.toProcess)
      BY <3>2, <2>1, <1>9, <1>1, <1>2, <1>6 DEF EventsAt
    <3>4. IsFiniteSet(EventsAt(l) \cap WithRow(tips \cup P.toProcess))
      BY FS_Subset DEF EventsAt
    <3>5. Cardinality(EventsAt(l) \cap WithRow(tips \cup P.toProcess)) >= PollLimit
      BY <3>1, <3>3, <3>4, <1>3, FS_Subset, FS_CardinalityType
    <3>6. QED
      BY <3>5 DEF HasEnough
  <2>4. QED
    BY <2>2, <2>3
<1>10. QED
  BY <1>4, <1>5, <1>7, <1>8, <1>9

(* An empty fetch proves the chain holds no tip from its start on.         *)
LEMMA EmptyFetch ==
  ASSUME NEW s, {} \in FetchResults(s)
  PROVE  Available(s) = {}
<1>1. Cardinality({}) = 0
  BY FS_EmptySet
<1>2. QED
  BY <1>1, ChainAssumption DEF FetchResults

LEMMA EmptyFetchCovers ==
  ASSUME TypeOK, NEW s \in Nat, CoveredBy(tips, s - 1),
         Available(s) = {}, NEW c \in Nat
  PROVE  CoveredBy(tips, c)
<1>1. SUFFICES ASSUME NEW l \in StartLedger .. c, l > 0
               PROVE  HasEnough(EventsAt(l), WithRow(tips))
  BY DEF CoveredBy
<1>2. l \in Nat
  BY ChainAssumption
<1>3. CASE l < s
  BY <1>1, <1>2, <1>3, ChainAssumption DEF CoveredBy
<1>4. CASE l >= s
  <2>1. EventsAt(l) = {}
    BY <1>1, <1>2, <1>4 DEF Available, EventsAt, TypeOK, DataOK
  <2>2. QED
    BY <2>1 DEF HasEnough
<1>5. QED
  BY <1>2, <1>3, <1>4

-----------------------------------------------------------------------------

LEMMA TypeInit == Init => TypeOK
<1>1. Init => FlagsOK
  BY DEF Init, FlagsOK
<1>2. Init => DataOK
  BY ChainAssumption, IndexerAssumption DEF Init, ChainInit, DataOK, NoPlan, NoHead
<1>3. QED
  BY <1>1, <1>2 DEF TypeOK

LEMMA FlagsNext == FlagsOK /\ [Next]_vars => FlagsOK'
<1> SUFFICES ASSUME FlagsOK, [Next]_vars PROVE FlagsOK'
  OBVIOUS
<1> USE IndexerAssumption DEF FlagsOK, batch, locals
<1>1. CASE LedgerCloses
  BY <1>1 DEF LedgerCloses
<1>2. CASE StartIndexer
  BY <1>2 DEF StartIndexer
<1>3. CASE StopIndexer
  BY <1>3 DEF StopIndexer
<1>4. CASE Crash
  BY <1>4 DEF Crash
<1>5. CASE PollFails
  BY <1>5 DEF PollFails
<1>6. CASE Boot
  BY <1>6 DEF Boot
<1>7. CASE ReadHead
  BY <1>7 DEF ReadHead
<1>8. CASE HeadUnavailable
  BY <1>8 DEF HeadUnavailable
<1>9. CASE SkipIdleCheck
  BY <1>9 DEF SkipIdleCheck
<1>10. CASE FetchTips
  BY <1>10 DEF FetchTips
<1>11. CASE FetchNothing
  BY <1>11 DEF FetchNothing
<1>12. ASSUME NEW e \in Events, PersistTip(e) PROVE FlagsOK'
  BY <1>12 DEF PersistTip
<1>13. CASE Notify
  BY <1>13 DEF Notify
<1>14. CASE SaveCursor
  BY <1>14 DEF SaveCursor
<1>15. CASE Wake
  BY <1>15 DEF Wake
<1>16. CASE UNCHANGED vars
  BY <1>16 DEF vars
<1>17. QED
  BY <1>1, <1>2, <1>3, <1>4, <1>5, <1>6, <1>7, <1>8,
     <1>9, <1>10, <1>11, <1>12, <1>13, <1>14, <1>15, <1>16
     DEF Next, RunLoop, CheckIdle, HandleEvent

LEMMA DataNext == DataOK /\ [Next]_vars => DataOK'
<1> SUFFICES ASSUME DataOK, [Next]_vars PROVE DataOK'
  OBVIOUS
<1> USE ChainAssumption, IndexerAssumption DEF DataOK, NoHead
<1> USE DEF chain, database, batch, locals
<1>1. CASE LedgerCloses
  BY <1>1 DEF LedgerCloses, CloseLedger
<1>2. CASE StartIndexer
  BY <1>2 DEF StartIndexer
<1>3. CASE StopIndexer
  BY <1>3 DEF StopIndexer, Fault
<1>4. CASE Crash
  BY <1>4 DEF Crash, Fault
<1>5. CASE PollFails
  BY <1>5 DEF PollFails, Fault, Park, Upsert
<1>6. CASE Boot
  BY <1>6 DEF Boot
<1>7. CASE ReadHead
  BY <1>7 DEF ReadHead
<1>8. CASE HeadUnavailable
  BY <1>8 DEF HeadUnavailable, Fault
<1>9. CASE SkipIdleCheck
  BY <1>9 DEF SkipIdleCheck
<1>10. CASE FetchTips
  BY <1>10 DEF FetchTips, FetchResults, Available, PlanBatch
<1>11. CASE FetchNothing
  BY <1>11 DEF FetchNothing, IdleAdvances, Park
<1>12. ASSUME NEW e \in Events, PersistTip(e) PROVE DataOK'
  BY <1>12 DEF PersistTip, Upsert
<1>13. CASE Notify
  BY <1>13 DEF Notify
<1>14. CASE SaveCursor
  BY <1>14 DEF SaveCursor, Park
<1>15. CASE Wake
  BY <1>15 DEF Wake
<1>16. CASE UNCHANGED vars
  BY <1>16 DEF vars
<1>17. QED
  BY <1>1, <1>2, <1>3, <1>4, <1>5, <1>6, <1>7, <1>8,
     <1>9, <1>10, <1>11, <1>12, <1>13, <1>14, <1>15, <1>16
     DEF Next, RunLoop, CheckIdle, HandleEvent

(* Type correctness of the indexer.                                        *)
THEOREM IndexerTypeCorrect == Spec => []TypeOK
<1>1. TypeOK /\ [Next]_vars => TypeOK'
  BY FlagsNext, DataNext DEF TypeOK
<1>2. QED
  BY TypeInit, <1>1, PTL DEF Spec
-----------------------------------------------------------------------------
(* The chain only grows at its end.                                        *)
LEMMA ClosedLedgersFixed ==
  ASSUME DataOK, ChainInv, CloseLedger
  PROVE  /\ ChainInv'
         /\ head' = head + 1
         /\ \A l \in 1 .. head : EventsAt(l)' = EventsAt(l)
         /\ \A e \in Events : \/ ledgerOf'[e] = ledgerOf[e]
                              \/ ledgerOf[e] = 0 /\ ledgerOf'[e] = head + 1
<1>1. PICK emitted \in SUBSET EventsAt(0) :
        ledgerOf' = [e \in Events |-> IF e \in emitted THEN head + 1 ELSE ledgerOf[e]]
  BY DEF CloseLedger
<1>2. \A e \in emitted : e \in Events /\ ledgerOf[e] = 0
  BY <1>1 DEF EventsAt
<1>3. \A e \in Events : \/ ledgerOf'[e] = ledgerOf[e]
                        \/ ledgerOf[e] = 0 /\ ledgerOf'[e] = head + 1
  BY <1>1, <1>2
<1>4. \A l \in 1 .. head : EventsAt(l)' = EventsAt(l)
  BY <1>3 DEF EventsAt, DataOK
<1>5. ChainInv'
  BY <1>3 DEF ChainInv, DataOK, CloseLedger
<1>6. head' = head + 1
  BY DEF CloseLedger
<1>7. QED
  BY <1>3, <1>4, <1>5, <1>6

LEMMA CoverageKept ==
  ASSUME DataOK, ChainInv, CloseLedger, NEW S, NEW c \in Int,
         c <= head \/ c < StartLedger,
         CoveredBy(S, c)
  PROVE  \A l \in StartLedger .. c : l > 0 => HasEnough(EventsAt(l)', WithRow(S))
<1>1. SUFFICES ASSUME NEW l \in StartLedger .. c, l > 0
               PROVE  HasEnough(EventsAt(l)', WithRow(S))
  OBVIOUS
<1>2. l \in 1 .. head
  BY <1>1, ChainAssumption DEF DataOK
<1>3. EventsAt(l)' = EventsAt(l)
  BY <1>2, ClosedLedgersFixed
<1>4. QED
  BY <1>1, <1>3 DEF CoveredBy

LEMMA CloseLedgerInv == IInv /\ LedgerCloses => IInv'
<1> SUFFICES ASSUME IInv, LedgerCloses PROVE IInv'
  OBVIOUS
<1> USE DEF IInv
<1>1. CloseLedger /\ DataOK /\ TypeOK' /\ DataOK'
  BY FlagsNext, DataNext DEF LedgerCloses, TypeOK, Next
<1>2. UNCHANGED <<tied, pc, running, locals, batch, failing, dispatched, faults>>
  BY DEF LedgerCloses, database
<1>3. /\ ChainInv' /\ head' = head + 1 /\ UNCHANGED <<tips, cursor>>
      /\ \A e \in Events : \/ ledgerOf'[e] = ledgerOf[e]
                           \/ ledgerOf[e] = 0 /\ ledgerOf'[e] = head + 1
  BY <1>1, ClosedLedgersFixed DEF LedgerCloses, database
<1>4. CursorInv'
  <2>1. \A l \in StartLedger .. cursor : l > 0 => HasEnough(EventsAt(l)', WithRow(tips))
    BY <1>1, CoverageKept DEF CursorInv, CursorCovered, DataOK
  <2>2. CoveredBy(tips, cursor)'
    BY <2>1, <1>3 DEF CoveredBy
  <2>3. QED
    BY <2>2, <1>3, <1>1 DEF CursorInv, CursorCovered, DataOK
<1>5. PositionInv'
  <2>1. SUFFICES ASSUME pc \in Polling PROVE PositionInv'
    BY <1>2 DEF PositionInv, PositionCovered
  <2>2. startLedger - 1 <= head \/ startLedger - 1 < StartLedger
    BY <2>1, <1>1, ChainAssumption DEF PositionInv, DataOK
  <2>3. \A l \in StartLedger .. startLedger - 1 : l > 0 => HasEnough(EventsAt(l)', WithRow(tips))
    BY <1>1, <2>1, <2>2, CoverageKept DEF PositionInv, PositionCovered, DataOK
  <2>4. CoveredBy(tips, startLedger - 1)'
    BY <2>3, <1>2, <1>3 DEF CoveredBy, locals
  <2>5. (\A e \in Available(startLedger) : ledgerOf[e] > cursor)'
    BY <2>1, <1>1, <1>2, <1>3
       DEF PositionInv, PositionCovered, CursorInv, CursorCovered, Available, locals, DataOK
  <2>6. QED
    BY <2>1, <2>4, <2>5, <1>1, <1>2, <1>3, ChainAssumption
       DEF PositionInv, PositionCovered, locals, DataOK
<1>6. HeadInv'
  BY <1>1, <1>2, <1>3 DEF HeadInv, locals, DataOK, NoHead
<1>7. PlanInv'
  <2>1. CASE pc \notin {"handle", "notify", "save"}
    BY <2>1, <1>2 DEF PlanInv
  <2>2. CASE pc \in {"handle", "notify", "save"}
    <3>1. /\ plan.next = plan.cursor + 1 /\ plan.cursor \in cursor .. head
          /\ plan.cursor >= StartLedger /\ plan.cursor \in Nat
      BY <2>2, <1>1 DEF PlanInv, DataOK
    <3>2. (plan.cursor \in cursor .. head)'
      BY <3>1, <1>1, <1>2, <1>3 DEF batch, DataOK
    <3>3. pc \in {"handle", "notify"} =>
            CoveredBy(tips \cup todo, plan.cursor)' /\ (todo \subseteq Available(StartLedger))'
      <4> SUFFICES ASSUME pc \in {"handle", "notify"}
                   PROVE  CoveredBy(tips \cup todo, plan.cursor)'
                          /\ (todo \subseteq Available(StartLedger))'
        OBVIOUS
      <4>1. \A l \in StartLedger .. plan.cursor :
              l > 0 => HasEnough(EventsAt(l)', WithRow(tips \cup todo))
        BY <1>1, <3>1, CoverageKept DEF PlanInv, DataOK
      <4>2. CoveredBy(tips \cup todo, plan.cursor)'
        BY <4>1, <1>2, <1>3 DEF CoveredBy, batch
      <4>3. (todo \subseteq Available(StartLedger))'
        BY <1>1, <1>2, <1>3 DEF PlanInv, Available, batch, DataOK
      <4>4. QED
        BY <4>2, <4>3
    <3>4. pc = "save" =>
            CoveredBy(tips, plan.cursor)'
            /\ (\A e \in Available(startLedger) : ledgerOf[e] > plan.cursor)'
      <4> SUFFICES ASSUME pc = "save"
                   PROVE  CoveredBy(tips, plan.cursor)'
                          /\ (\A e \in Available(startLedger) : ledgerOf[e] > plan.cursor)'
        OBVIOUS
      <4>1. \A l \in StartLedger .. plan.cursor : l > 0 => HasEnough(EventsAt(l)', WithRow(tips))
        BY <1>1, <3>1, CoverageKept DEF PlanInv, DataOK
      <4>2. CoveredBy(tips, plan.cursor)'
        BY <4>1, <1>2, <1>3 DEF CoveredBy, batch
      <4>3. (\A e \in Available(startLedger) : ledgerOf[e] > plan.cursor)'
        BY <3>1, <1>1, <1>2, <1>3 DEF PlanInv, Available, batch, locals, DataOK
      <4>4. QED
        BY <4>2, <4>3
    <3>5. (pc = "notify" => inHand \subseteq WithRow(tips))'
      BY <1>2, <1>3 DEF PlanInv, batch
    <3>6. QED
      BY <3>1, <3>2, <3>3, <3>4, <3>5, <1>2 DEF PlanInv, batch
  <2>3. QED
    BY <2>1, <2>2
<1>8. StoppedNeverSleeps'
  BY <1>2 DEF StoppedNeverSleeps
<1>9. QED
  BY <1>1, <1>3, <1>4, <1>5, <1>6, <1>7, <1>8
-----------------------------------------------------------------------------
(* Steps of the loop.  Those that touch neither the chain nor the database *)
(* keep what is known of them.                                             *)
DatabaseKept == UNCHANGED <<head, ledgerOf, tips, cursor>>

LEMMA KeptInv ==
  ASSUME IInv, DatabaseKept, TypeOK'
  PROVE  ChainInv' /\ CursorInv'
BY DEF DatabaseKept, IInv, ChainInv, CursorInv, CursorCovered, CoveredBy, EventsAt

LEMMA QuietStepInv ==
  ASSUME IInv, DatabaseKept, TypeOK', UNCHANGED <<startLedger, todo, plan>>,
         pc' \in Polling => pc \in Polling,
         pc' \in {"handle", "notify", "save"} => pc' = pc /\ UNCHANGED inHand,
         pc' = "sleep" => running',
         HeadInv'
  PROVE  IInv'
<1>1. ChainInv' /\ CursorInv'
  BY KeptInv
<1>2. PositionInv'
  BY DEF DatabaseKept, IInv, PositionInv, PositionCovered, CoveredBy, EventsAt, Available
<1>3. PlanInv'
  BY DEF DatabaseKept, IInv, PlanInv, CoveredBy, EventsAt, Available
<1>4. QED
  BY <1>1, <1>2, <1>3 DEF IInv, StoppedNeverSleeps

LEMMA TypeStep == TypeOK /\ [Next]_vars => TypeOK'
BY FlagsNext, DataNext DEF TypeOK

LEMMA LifecycleInv ==
  IInv /\ (StartIndexer \/ StopIndexer \/ Crash \/ CheckIdle \/ Wake) => IInv'
<1> SUFFICES ASSUME IInv, StartIndexer \/ StopIndexer \/ Crash \/ CheckIdle \/ Wake
             PROVE  IInv'
  OBVIOUS
<1> USE DEF chain, database, locals, batch, DatabaseKept
<1>1. TypeOK' /\ DataOK
  BY TypeStep DEF Next, RunLoop, IInv, TypeOK
<1>2. CASE StartIndexer
  <2>1. pc' = "boot" /\ DatabaseKept /\ UNCHANGED <<startLedger, todo, plan>>
    BY <1>2 DEF StartIndexer
  <2>2. QED
    BY <1>1, <2>1, QuietStepInv DEF HeadInv, Polling
<1>3. CASE StopIndexer
  <2>1. /\ pc' = (IF pc = "sleep" THEN "down" ELSE pc) /\ DatabaseKept
        /\ UNCHANGED <<startLedger, todo, plan, inHand, observedHead>>
    BY <1>3 DEF StopIndexer
  <2>2. HeadInv'
    BY <2>1 DEF HeadInv, IInv
  <2>3. QED
    BY <1>1, <2>1, <2>2, QuietStepInv DEF Polling
<1>4. CASE Crash
  <2>1. pc' = "down" /\ DatabaseKept /\ UNCHANGED <<startLedger, todo, plan>>
    BY <1>4 DEF Crash
  <2>2. QED
    BY <1>1, <2>1, QuietStepInv DEF HeadInv, Polling
<1>5. CASE CheckIdle
  <2>1. /\ pc = "poll" /\ pc' = "fetch" /\ DatabaseKept
        /\ UNCHANGED <<startLedger, todo, plan>>
        /\ observedHead' \in {head, NoHead}
    BY <1>5 DEF CheckIdle, ReadHead, HeadUnavailable, SkipIdleCheck
  <2>2. HeadInv'
    BY <2>1, <1>1 DEF HeadInv, IInv, CursorInv, CursorCovered, DataOK, NoHead
  <2>3. QED
    BY <1>1, <2>1, <2>2, QuietStepInv DEF Polling
<1>6. CASE Wake
  <2>1. /\ pc = "sleep" /\ pc' \in {"poll", "down"} /\ DatabaseKept
        /\ UNCHANGED <<startLedger, todo, plan>>
    BY <1>6 DEF Wake
  <2>2. QED
    BY <1>1, <2>1, QuietStepInv DEF HeadInv, Polling
<1>7. QED
  BY <1>2, <1>3, <1>4, <1>5, <1>6

LEMMA BootInv == IInv /\ Boot => IInv'
<1> SUFFICES ASSUME IInv, Boot PROVE IInv'
  OBVIOUS
<1>1. TypeOK' /\ DataOK
  BY TypeStep DEF Next, RunLoop, IInv, TypeOK
<1>2. /\ DatabaseKept /\ pc' = (IF running THEN "poll" ELSE "down")
      /\ startLedger' = (IF cursor > 0 THEN cursor + 1 ELSE StartLedger)
  BY DEF Boot, chain, database, DatabaseKept
<1>3. ChainInv' /\ CursorInv'
  BY <1>1, <1>2, KeptInv
<1>4. CoveredBy(tips, startLedger - 1)'
  <2>1. CASE cursor > 0
    BY <1>1, <1>2, <1>3, <2>1 DEF CursorInv, CursorCovered, DatabaseKept, DataOK
  <2>2. CASE cursor = 0
    BY <1>1, <1>2, <2>2, ChainAssumption DEF CoveredBy, DataOK
  <2>3. QED
    BY <1>1, <2>1, <2>2 DEF DataOK
<1>5. PositionInv'
  BY <1>1, <1>2, <1>3, <1>4, ChainAssumption
     DEF PositionInv, PositionCovered, Available, CursorInv, CursorCovered,
         DatabaseKept, DataOK, TypeOK, IInv
<1>6. HeadInv' /\ PlanInv' /\ StoppedNeverSleeps'
  BY <1>2 DEF HeadInv, PlanInv, StoppedNeverSleeps
<1>7. QED
  BY <1>1, <1>3, <1>5, <1>6 DEF IInv
LEMMA FetchTipsInv == IInv /\ FetchTips => IInv'
<1> SUFFICES ASSUME IInv, FetchTips PROVE IInv'
  OBVIOUS
<1>1. TypeOK' /\ TypeOK /\ DataOK /\ pc = "fetch" /\ pc' = "handle"
  BY TypeStep DEF Next, RunLoop, IInv, TypeOK, FetchTips
<1>2. DatabaseKept /\ UNCHANGED startLedger
  BY DEF FetchTips, chain, database, locals, DatabaseKept
<1>3. ChainInv' /\ CursorInv'
  BY <1>1, <1>2, KeptInv
<1>4. PICK B \in FetchResults(startLedger), last \in 1 .. head :
        /\ IsLastLedger(B, last)
        /\ todo' = PlanBatch(B, last).toProcess
        /\ plan' = [next |-> PlanBatch(B, last).next, cursor |-> PlanBatch(B, last).cursor]
  BY DEF FetchTips
<1> DEFINE P == PlanBatch(B, last)
<1>5. /\ startLedger \in Nat /\ startLedger >= StartLedger
      /\ CoveredBy(tips, startLedger - 1)
      /\ \A e \in Available(startLedger) : ledgerOf[e] > cursor
  BY <1>1, ChainAssumption DEF IInv, PositionInv, PositionCovered, Polling, DataOK
<1>6. CoveredBy(tips \cup P.toProcess, P.cursor)
  <2> HIDE DEF P
  <2>1. P = PlanBatch(B, last)
    BY DEF P
  <2>2. QED
    BY <1>1, <1>4, <1>5, <2>1, BatchCovers
<1>7. /\ P.next = P.cursor + 1 /\ P.cursor \in cursor .. head
      /\ P.cursor >= StartLedger
  <2>1. /\ B \subseteq Events
        /\ \A e \in B : ledgerOf[e] \in Nat /\ ledgerOf[e] > cursor
                      /\ ledgerOf[e] >= startLedger
    BY <1>1, <1>5 DEF FetchResults, Available, DataOK
  <2>2. last > cursor /\ last >= startLedger
    BY <1>4, <2>1 DEF IsLastLedger
  <2>3. HoldsBack(B, last) => last - 1 > cursor /\ last - 1 >= startLedger
    BY <1>1, <1>4, <2>1 DEF HoldsBack, DataOK
  <2>4. QED
    BY <1>1, <1>5, <2>2, <2>3, ChainAssumption DEF PlanBatch, DataOK
<1>8. P.toProcess \subseteq B /\ B \subseteq Available(StartLedger)
  BY <1>1, <1>5, ChainAssumption DEF PlanBatch, FetchResults, Available, DataOK
<1>9. PlanInv'
  <2>1. CoveredBy(tips \cup todo, plan.cursor)'
    BY <1>2, <1>4, <1>6 DEF CoveredBy, EventsAt, DatabaseKept
  <2>2. (todo \subseteq Available(StartLedger))'
    BY <1>2, <1>4, <1>8 DEF Available, DatabaseKept
  <2>3. QED
    BY <1>1, <1>2, <1>4, <1>7, <2>1, <2>2 DEF PlanInv, DatabaseKept
<1>10. PositionInv'
  BY <1>1, <1>2 DEF IInv, PositionInv, PositionCovered, Polling, DatabaseKept,
                    CoveredBy, EventsAt, Available
<1>11. QED
  BY <1>1, <1>3, <1>9, <1>10 DEF IInv, HeadInv, StoppedNeverSleeps

LEMMA FetchNothingInv == IInv /\ FetchNothing => IInv'
<1> SUFFICES ASSUME IInv, FetchNothing PROVE IInv'
  OBVIOUS
<1>1. TypeOK' /\ TypeOK /\ DataOK /\ pc = "fetch"
  BY TypeStep DEF Next, RunLoop, IInv, TypeOK, FetchNothing
<1>2. DatabaseKept /\ UNCHANGED <<startLedger, todo, running>>
  BY DEF FetchNothing, chain, database, locals, DatabaseKept
<1>3. ChainInv' /\ CursorInv'
  BY <1>1, <1>2, KeptInv
<1>4. Available(startLedger) = {}
  BY EmptyFetch DEF FetchNothing
<1>5. PositionInv'
  BY <1>1, <1>2 DEF IInv, PositionInv, PositionCovered, Polling, DatabaseKept,
                    CoveredBy, EventsAt, Available
<1>6. CASE IdleAdvances /\ pc' = "save"
           /\ plan' = [next |-> observedHead + 1, cursor |-> observedHead]
  <2>1. observedHead \in cursor .. head /\ observedHead \in Nat
        /\ observedHead >= StartLedger /\ startLedger \in Nat
        /\ CoveredBy(tips, startLedger - 1)
    BY <1>1, <1>6, ChainAssumption
       DEF IInv, HeadInv, IdleAdvances, PositionInv, PositionCovered, Polling, DataOK, NoHead
  <2>2. CoveredBy(tips, observedHead)
    BY <1>1, <1>4, <2>1, EmptyFetchCovers
  <2>3. CoveredBy(tips, plan.cursor)'
    BY <1>2, <1>6, <2>2 DEF CoveredBy, EventsAt, DatabaseKept
  <2>4. PlanInv'
    BY <1>2, <1>4, <1>6, <2>1, <2>3 DEF PlanInv, DatabaseKept, Available
  <2>5. QED
    BY <1>1, <1>3, <1>5, <1>6, <2>4 DEF IInv, HeadInv, StoppedNeverSleeps
<1>7. CASE Park
  <2>1. pc' \in {"sleep", "down"} /\ (pc' = "sleep" => running')
    BY <1>2, <1>7 DEF Park
  <2>2. QED
    BY <1>1, <1>3, <1>5, <2>1 DEF IInv, HeadInv, PlanInv, StoppedNeverSleeps
<1>8. QED
  BY <1>6, <1>7 DEF FetchNothing

(* Adding the row of an event the chain has emitted.                       *)
LEMMA RowAdded ==
  ASSUME IInv, UNCHANGED <<head, ledgerOf, cursor, startLedger>>, TypeOK',
         tips \subseteq tips', pc \in Polling
  PROVE  /\ ChainInv' /\ CursorInv' /\ PositionInv'
         /\ \A S, c : CoveredBy(S, c) =>
              \A l \in StartLedger .. c : l > 0 => HasEnough(EventsAt(l)', WithRow(S))
<1>1. \A l : EventsAt(l)' = EventsAt(l)
  BY DEF EventsAt
<1>2. \A S, c : CoveredBy(S, c) =>
        \A l \in StartLedger .. c : l > 0 => HasEnough(EventsAt(l)', WithRow(S))
  BY <1>1 DEF CoveredBy
<1>3. CoveredBy(tips', cursor) /\ CoveredBy(tips', startLedger - 1)
  BY CoverageGrows DEF IInv, CursorInv, CursorCovered, PositionInv, PositionCovered
<1>4. CoveredBy(tips, cursor)' /\ CoveredBy(tips, startLedger - 1)'
  BY <1>1, <1>3 DEF CoveredBy
<1>5. ChainInv' /\ CursorInv'
  BY <1>4 DEF IInv, ChainInv, CursorInv, CursorCovered
<1>6. PositionInv'
  BY <1>4 DEF IInv, PositionInv, PositionCovered, Available
<1>7. QED
  BY <1>2, <1>5, <1>6

LEMMA PersistTipInv ==
  ASSUME IInv, NEW e \in Events, PersistTip(e)
  PROVE  IInv'
<1>1. TypeOK' /\ TypeOK /\ DataOK
  BY TypeStep DEF Next, RunLoop, HandleEvent, IInv, TypeOK
<1>2. /\ UNCHANGED <<head, ledgerOf, cursor, startLedger, todo, plan>>
      /\ pc = "handle" /\ pc' = "notify" /\ inHand' = {e}
      /\ e \in todo /\ Upsert(e)
  BY DEF PersistTip, chain, locals
<1>3. tips' = tips \cup {e} \/ (tips' = tips /\ e \in WithRow(tips))
  BY <1>2 DEF Upsert
<1>4. tips \subseteq tips' /\ e \in WithRow(tips')
  BY <1>3, RowsStand, <1>1 DEF DataOK
<1>5. /\ ChainInv' /\ CursorInv' /\ PositionInv'
      /\ \A S, c : CoveredBy(S, c) =>
           \A l \in StartLedger .. c : l > 0 => HasEnough(EventsAt(l)', WithRow(S))
  BY <1>1, <1>2, <1>4, RowAdded DEF Polling
<1>6. CoveredBy(tips \cup todo, plan.cursor)'
  <2>1. CoveredBy(tips \cup todo, plan.cursor) /\ tips' \cup todo = tips \cup todo
    BY <1>2, <1>3 DEF IInv, PlanInv
  <2>2. QED
    BY <1>2, <1>5, <2>1 DEF CoveredBy
<1>7. PlanInv'
  BY <1>2, <1>6, <1>4 DEF IInv, PlanInv, Available
<1>8. QED
  BY <1>1, <1>2, <1>5, <1>7 DEF IInv, HeadInv, StoppedNeverSleeps

LEMMA NotifyInv == IInv /\ Notify => IInv'
<1> SUFFICES ASSUME IInv, Notify PROVE IInv'
  OBVIOUS
<1>1. TypeOK' /\ TypeOK /\ DataOK /\ pc = "notify"
  BY TypeStep DEF Next, RunLoop, HandleEvent, IInv, TypeOK, Notify
<1>2. /\ DatabaseKept /\ UNCHANGED plan
      /\ todo' = todo \ inHand /\ inHand \subseteq WithRow(tips)
      /\ \/ pc' = "handle" /\ UNCHANGED startLedger
         \/ pc' = "save" /\ startLedger' = plan.next /\ todo' = {}
  BY <1>1 DEF Notify, chain, database, DatabaseKept, IInv, PlanInv
<1>3. ChainInv' /\ CursorInv'
  BY <1>1, <1>2, KeptInv
<1>4. /\ plan.next = plan.cursor + 1 /\ plan.cursor \in cursor .. head
      /\ plan.cursor >= StartLedger /\ plan.cursor \in Nat
      /\ CoveredBy(tips \cup todo, plan.cursor)
      /\ todo \subseteq Available(StartLedger)
  BY <1>1 DEF IInv, PlanInv, DataOK
<1>5. WithRow(tips \cup todo) = WithRow(tips \cup (todo \ inHand))
  <2> DEFINE rest == tips \cup (todo \ inHand)
  <2>1. inHand \subseteq WithRow(rest)
    <3>1. WithRow(tips) \subseteq WithRow(rest)
      BY tips \subseteq rest, RowsStand
    <3>2. QED
      BY <1>2, <3>1
  <2>2. WithRow(rest \cup (todo \cap inHand)) = WithRow(rest)
    BY <2>1, RowsAbsorb
  <2>3. rest \cup (todo \cap inHand) = tips \cup todo
    OBVIOUS
  <2>4. QED
    BY <2>2, <2>3
<1>6. CoveredBy(tips \cup todo, plan.cursor)'
  BY <1>2, <1>4, <1>5 DEF CoveredBy, EventsAt, DatabaseKept
<1>7. CASE pc' = "handle" /\ UNCHANGED startLedger
  <2>1. PlanInv'
    BY <1>2, <1>4, <1>6, <1>7 DEF PlanInv, DatabaseKept, Available
  <2>2. PositionInv'
    BY <1>1, <1>2, <1>7 DEF IInv, PositionInv, PositionCovered, Polling, DatabaseKept,
                            CoveredBy, EventsAt, Available
  <2>3. QED
    BY <1>1, <1>3, <1>7, <2>1, <2>2 DEF IInv, HeadInv, StoppedNeverSleeps
<1>8. CASE pc' = "save" /\ startLedger' = plan.next /\ todo' = {}
  <2>0. WithRow(tips \cup todo) = WithRow(tips)
    <3>1. tips \cup (todo \ inHand) = tips
      BY <1>2, <1>8
    <3>2. QED
      BY <1>5, <3>1
  <2>1. CoveredBy(tips, plan.cursor) /\ plan.cursor = plan.next - 1
    <3>1. CoveredBy(tips, plan.cursor)
      BY <1>4, <2>0 DEF CoveredBy
    <3>2. plan.cursor = plan.next - 1
      BY <1>4
    <3>3. QED
      BY <3>1, <3>2
  <2>2. CoveredBy(tips, plan.cursor)' /\ CoveredBy(tips, startLedger - 1)'
    BY <1>2, <1>8, <2>1 DEF CoveredBy, EventsAt, DatabaseKept
  <2>3. (\A e \in Available(startLedger) : ledgerOf[e] > plan.cursor)'
    BY <1>1, <1>2, <1>4, <1>8 DEF Available, DatabaseKept, DataOK
  <2>4. PlanInv'
    BY <1>2, <1>4, <1>8, <2>2, <2>3 DEF PlanInv, DatabaseKept
  <2>5. PositionInv'
    BY <1>1, <1>2, <1>4, <1>8, <2>2, ChainAssumption
       DEF PositionInv, PositionCovered, DatabaseKept, DataOK, Available
  <2>6. QED
    BY <1>1, <1>3, <1>8, <2>4, <2>5 DEF IInv, HeadInv, StoppedNeverSleeps
<1>9. QED
  BY <1>2, <1>7, <1>8
LEMMA SaveCursorInv ==
  ASSUME IInv, pc = "save", TypeOK', UNCHANGED <<head, ledgerOf, tips>>,
         \/ UNCHANGED cursor
         \/ cursor' = plan.cursor,
         \/ UNCHANGED startLedger
         \/ cursor' = plan.cursor /\ startLedger' = plan.next,
         pc' = IF running THEN "sleep" ELSE "down", UNCHANGED running
  PROVE  IInv'
<1>1. TypeOK /\ DataOK
  BY DEF IInv, TypeOK
<1>2. /\ plan.next = plan.cursor + 1 /\ plan.cursor \in cursor .. head
      /\ plan.cursor >= StartLedger /\ plan.cursor \in Nat
      /\ CoveredBy(tips, plan.cursor)
      /\ \A e \in Available(startLedger) : ledgerOf[e] > plan.cursor
  BY <1>1 DEF IInv, PlanInv, DataOK
<1>3. CoveredBy(tips, cursor') /\ CoveredBy(tips, startLedger' - 1)
  <2>1. plan.next - 1 = plan.cursor
    BY <1>2
  <2>2. QED
    BY <1>2, <2>1
       DEF IInv, CursorInv, CursorCovered, PositionInv, PositionCovered, Polling
<1>4. CoveredBy(tips, cursor)' /\ CoveredBy(tips, startLedger - 1)'
  BY <1>3 DEF CoveredBy, EventsAt
<1>5. ChainInv' /\ CursorInv'
  BY <1>1, <1>2, <1>4 DEF IInv, ChainInv, CursorInv, CursorCovered, DataOK
<1>6. (\A e \in Available(startLedger) : ledgerOf[e] > cursor)'
  BY <1>1, <1>2 DEF Available, DataOK, IInv, PositionInv, PositionCovered, Polling
<1>7. PositionInv'
  BY <1>1, <1>2, <1>4, <1>6, ChainAssumption
     DEF IInv, PositionInv, PositionCovered, Polling, DataOK
<1>8. HeadInv' /\ PlanInv' /\ StoppedNeverSleeps'
  BY DEF HeadInv, PlanInv, StoppedNeverSleeps
<1>9. QED
  BY <1>5, <1>7, <1>8 DEF IInv

LEMMA PollFailsInv == IInv /\ PollFails => IInv'
<1> SUFFICES ASSUME IInv, PollFails PROVE IInv'
  OBVIOUS
<1>1. TypeOK' /\ TypeOK /\ DataOK
  BY TypeStep DEF Next, IInv, TypeOK
<1>2. /\ UNCHANGED <<head, ledgerOf, startLedger, running, todo, plan>>
      /\ pc' = IF running THEN "sleep" ELSE "down"
  BY DEF PollFails, chain, locals, batch, Park
<1>3. CASE pc \in {"fetch", "handle"}
  <2>1. UNCHANGED cursor /\ tips \subseteq tips'
    BY <1>3 DEF PollFails, database, Upsert
  <2>2. ChainInv' /\ CursorInv' /\ PositionInv'
    BY <1>1, <1>2, <1>3, <2>1, RowAdded DEF Polling
  <2>3. QED
    BY <1>1, <1>2, <2>2 DEF IInv, HeadInv, PlanInv, StoppedNeverSleeps
<1>4. CASE pc = "save"
  <2>1. cursor' \in {cursor, plan.cursor} /\ UNCHANGED tips
    BY <1>4 DEF PollFails
  <2>2. QED
    BY <1>1, <1>2, <1>4, <2>1, SaveCursorInv
<1>5. QED
  BY <1>3, <1>4 DEF PollFails

(* The inductive invariant is preserved by every step.                     *)
LEMMA NextInv == IInv /\ [Next]_vars => IInv'
<1> SUFFICES ASSUME IInv, [Next]_vars PROVE IInv'
  OBVIOUS
<1>1. CASE LedgerCloses
  BY <1>1, CloseLedgerInv
<1>2. CASE StartIndexer \/ StopIndexer \/ Crash \/ CheckIdle \/ Wake
  BY <1>2, LifecycleInv
<1>3. CASE Boot \/ FetchTips \/ FetchNothing \/ Notify
  BY <1>3, BootInv, FetchTipsInv, FetchNothingInv, NotifyInv
<1>4. ASSUME NEW e \in Events, PersistTip(e) PROVE IInv'
  BY <1>4, PersistTipInv
<1>5. CASE SaveCursor
  <2>1. TypeOK'
    BY <1>5, TypeStep DEF Next, RunLoop, IInv
  <2>2. QED
    BY <1>5, <2>1, SaveCursorInv DEF SaveCursor, Park, chain
<1>6. CASE PollFails
  BY <1>6, PollFailsInv
<1>7. CASE UNCHANGED vars
  <2>1. /\ DatabaseKept /\ UNCHANGED <<pc, running, startLedger, observedHead, todo, plan, inHand>>
    BY <1>7 DEF vars, chain, database, locals, batch, DatabaseKept
  <2>2. TypeOK' /\ HeadInv'
    BY <2>1, TypeStep DEF IInv, HeadInv, DatabaseKept
  <2>3. QED
    BY <2>1, <2>2, QuietStepInv DEF IInv, StoppedNeverSleeps
<1>8. QED
  BY <1>1, <1>2, <1>3, <1>4, <1>5, <1>6, <1>7
     DEF Next, RunLoop, CheckIdle, HandleEvent

LEMMA InitInv == Init => IInv
<1> SUFFICES ASSUME Init PROVE IInv
  OBVIOUS
<1>1. TypeOK /\ DataOK
  BY TypeInit DEF TypeOK
<1>2. ChainInv /\ head = 0 /\ cursor = 0 /\ pc = "down"
  BY DEF Init, ChainInit, ChainInv
<1>3. CursorInv
  BY <1>2, ChainAssumption DEF CursorInv, CursorCovered, CoveredBy
<1>4. QED
  BY <1>1, <1>2, <1>3
     DEF IInv, PositionInv, PositionCovered, Polling, HeadInv, PlanInv, StoppedNeverSleeps

THEOREM Inductive == Spec => []IInv
BY InitInv, NextInv, PTL DEF Spec

(* The saved cursor never passes a tip that is not in the table, for any   *)
(* number of tips, any batch limit, and any crashes, stops and failures.   *)
THEOREM CursorNeverSkips == Spec => []CursorCovered
<1>1. IInv => CursorCovered
  BY DEF IInv, CursorInv
<1>2. QED
  BY <1>1, Inductive, PTL

(* The position in memory never passes a tip that is not in the table.     *)
THEOREM PositionNeverSkips == Spec => []PositionCovered
<1>1. IInv => PositionCovered
  BY DEF IInv, PositionInv
<1>2. QED
  BY <1>1, Inductive, PTL

(* stopIndexer never leaves the loop asleep.                               *)
THEOREM StopFindsNoSleeper == Spec => []StoppedNeverSleeps
<1>1. IInv => StoppedNeverSleeps
  BY DEF IInv
<1>2. QED
  BY <1>1, Inductive, PTL

-----------------------------------------------------------------------------
(* Refinement: a step of the loop closes a ledger, stores one tip of a     *)
(* closed ledger, moves the cursor forward over covered ledgers, or does   *)
(* nothing TipLog sees.                                                    *)
LEMMA SameEvents == Log!Events = Events
BY DEF Log!Events, Events

LEMMA SameCoverage == \A S, c : Log!CoveredBy(S, c) <=> CoveredBy(S, c)
<1>1. \A l : Log!EventsAt(l) = EventsAt(l)
  BY SameEvents DEF Log!EventsAt, EventsAt
<1>2. \A E, S : Log!HasEnough(E, S) <=> HasEnough(E, S)
  BY Zenon DEF Log!HasEnough, HasEnough, Log!Cardinality, Cardinality, Log!IsFiniteSet, IsFiniteSet
<1>3. \A S : Log!WithRow(S) = WithRow(S)
  BY DEF Log!WithRow, WithRow
<1>4. QED
  BY <1>1, <1>2, <1>3 DEF Log!CoveredBy, CoveredBy

LEMMA GrowStep ==
  ASSUME CloseLedger, UNCHANGED <<tips, cursor>>
  PROVE  Log!LogNext
BY DEF Log!LogNext, Log!Grow, Log!CloseLedger, Log!EventsAt, Log!Events, CloseLedger,
       EventsAt, Events

LEMMA StoreStep ==
  ASSUME IInv, NEW e \in todo, pc \in {"handle", "notify"},
         e \notin WithRow(tips), tips' = tips \cup {e},
         UNCHANGED <<head, ledgerOf, cursor>>
  PROVE  Log!LogNext
<1>1. e \in Events /\ ledgerOf[e] > 0 /\ ledgerOf[e] >= StartLedger
  BY DEF IInv, PlanInv, Available
<1>2. Log!Record(e)
  BY <1>1 DEF Log!Record, Log!chain, Log!WithRow, WithRow
<1>3. QED
  BY <1>1, <1>2, SameEvents DEF Log!LogNext

LEMMA AdvanceStep ==
  ASSUME IInv, pc = "save", cursor' = plan.cursor, UNCHANGED <<head, ledgerOf, tips>>
  PROVE  Log!LogNext
<1>1. /\ plan.cursor \in cursor .. head /\ plan.cursor \in 0 .. head
      /\ CoveredBy(tips, plan.cursor)
  BY DEF IInv, PlanInv, TypeOK, DataOK
<1>2. Log!Advance(plan.cursor)
  BY <1>1, SameCoverage DEF Log!Advance, Log!chain
<1>3. QED
  BY <1>1, <1>2 DEF Log!LogNext

LEMMA StepRefines == IInv /\ [Next]_vars => [Log!LogNext]_(Log!logVars)
<1> SUFFICES ASSUME IInv, [Next]_vars
             PROVE  Log!LogNext \/ UNCHANGED <<head, ledgerOf, tips, cursor>>
  BY DEF Log!logVars, Log!chain
<1> USE DEF chain, database
<1>1. CASE LedgerCloses
  BY <1>1, GrowStep DEF LedgerCloses
<1>2. CASE StartIndexer \/ StopIndexer \/ Crash
  BY <1>2 DEF StartIndexer, StopIndexer, Crash
<1>3. CASE Boot \/ CheckIdle \/ Wake
  BY <1>3 DEF Boot, CheckIdle, ReadHead, HeadUnavailable, SkipIdleCheck, Wake
<1>4. CASE FetchTips \/ FetchNothing \/ Notify
  BY <1>4 DEF FetchTips, FetchNothing, Notify
<1>5. ASSUME NEW e \in Events, PersistTip(e)
      PROVE  Log!LogNext \/ UNCHANGED <<head, ledgerOf, tips, cursor>>
  BY <1>5, StoreStep DEF PersistTip, Upsert
<1>6. CASE SaveCursor
  BY <1>6, AdvanceStep DEF SaveCursor
<1>7. CASE PollFails
  <2>1. CASE UNCHANGED <<tips, cursor>>
    BY <1>7, <2>1 DEF PollFails
  <2>2. CASE pc = "handle" /\ UNCHANGED cursor /\ \E e \in todo : Upsert(e)
    BY <1>7, <2>2, StoreStep DEF PollFails, Upsert
  <2>3. CASE pc = "save" /\ UNCHANGED tips /\ cursor' = plan.cursor
    BY <1>7, <2>3, AdvanceStep DEF PollFails
  <2>4. QED
    BY <1>7, <2>1, <2>2, <2>3 DEF PollFails
<1>8. CASE UNCHANGED vars
  BY <1>8 DEF vars
<1>9. QED
  BY <1>1, <1>2, <1>3, <1>4, <1>5, <1>6, <1>7, <1>8
     DEF Next, RunLoop, HandleEvent

(* The poll loop implements the abstract log of tips.                      *)
THEOREM IndexerImplementsTipLog == Spec => ImplementsTipLog
<1>1. Init => Log!LogInit
  BY SameEvents DEF Init, ChainInit, Log!LogInit, Log!ChainInit
<1>2. QED
  BY <1>1, StepRefines, Inductive, PTL DEF Spec, ImplementsTipLog, Log!LogSpec
=============================================================================

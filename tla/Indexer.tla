------------------------------- MODULE Indexer -------------------------------
(***************************************************************************)
(* The poll loop of src/indexer: indexer.ts (runLoop, startIndexer,        *)
(* stopIndexer, handleEvent) with cursor.ts (planBatch, planIdleAdvance),  *)
(* persist.ts (persistTip, updateCursor, readCursor) and status.ts.  One   *)
(* action per stretch of code between two awaits; a crash may fall between *)
(* any two.  Time is abstracted: a sleep or a backoff lasts any while, the *)
(* idle check falls due at any poll after the first.                       *)
(***************************************************************************)
EXTENDS Integers, Chain

CONSTANTS MaxFaults,     \* bound of the model: crashes, stops and failed calls
          MetricsLinked  \* FALSE: indexer.ts calls updateIndexerCursor and
                         \* updateIndexerLag without importing them, as it does
                         \* at this commit; TRUE: with the import in place

ASSUME IndexerAssumption == MaxFaults \in Nat /\ MetricsLinked \in BOOLEAN

VARIABLES
  tips,                 \* the events that were stored in a Tip row
  cursor,               \* IndexerCursor.lastLedger, 0 without a row
  tied,                 \* the rows whose createdAt equals their ledgerAt
  pc,                   \* where the loop waits; "down" is no loop
  running,              \* the module variable of that name
  startLedger, persistedCursor, idleChecked,  \* locals of runLoop
  observedHead,         \* local of one iteration, NoHead for null
  todo, plan,           \* what planBatch or planIdleAdvance returned
  inHand, isNew,        \* the event in handleEvent, persistTip's result
  failing,              \* consecutiveFailures > 0; lastError # null in status.ts
  dispatched,           \* the events handed to webhook and email dispatch
  faults                \* crashes, stops and failed calls so far

database == <<tips, cursor, tied>>
batch    == <<todo, plan, inHand, isNew>>
locals   == <<startLedger, persistedCursor, idleChecked, observedHead>>
vars     == <<chain, database, pc, running, locals, batch, failing, dispatched, faults>>

NoHead  == -1
NoPlan  == [next |-> 0, cursor |-> 0]

-----------------------------------------------------------------------------
(* Pure parts: what a fetch may return and what is planned from it.        *)

Available(s) == {e \in Events : ledgerOf[e] > 0 /\ ledgerOf[e] >= s}

(* fetchTipEvents: every event from ledger s on, or PollLimit of them with *)
(* no event of an earlier ledger left out.                                 *)
FetchResults(s) ==
  {B \in SUBSET Available(s) :
     /\ Cardinality(B) <= PollLimit
     /\ B # Available(s) => Cardinality(B) = PollLimit
     /\ \A e \in B, f \in Available(s) \ B : ledgerOf[e] <= ledgerOf[f]}

IsLastLedger(B, l) == /\ \E e \in B : ledgerOf[e] = l
                      /\ \A e \in B : ledgerOf[e] <= l

\* Faulty variants: nothing is held back; a full single ledger is held back.
HoldsBack_Never(B, last) == FALSE
HoldsBack_Always(B, last) == Cardinality(B) >= PollLimit

(* A full batch over several ledgers: the last one may be cut off.         *)
HoldsBack(B, last) == /\ Cardinality(B) >= PollLimit
                      /\ \E e \in B : ledgerOf[e] < last

PlanBatch(B, last) ==
  IF HoldsBack(B, last)
  THEN [toProcess |-> {e \in B : ledgerOf[e] < last}, next |-> last, cursor |-> last - 1]
  ELSE [toProcess |-> B, next |-> last + 1, cursor |-> last]

\* Faulty variant: ">" for ">=" against the position.
IdleAdvances_OffByOne == /\ observedHead # NoHead
                         /\ observedHead > startLedger
                         /\ observedHead > persistedCursor

(* planIdleAdvance returns null unless this holds.                         *)
IdleAdvances == /\ observedHead # NoHead
                /\ observedHead >= startLedger
                /\ observedHead > persistedCursor

-----------------------------------------------------------------------------

Init == /\ ChainInit
        /\ tips = {} /\ cursor = 0
        /\ tied = {}
        /\ pc = "down" /\ running = FALSE
        /\ startLedger = StartLedger /\ persistedCursor = 0
        /\ idleChecked = FALSE /\ observedHead = NoHead
        /\ todo = {} /\ plan = NoPlan /\ inHand = {} /\ isNew = FALSE
        /\ failing = FALSE
        /\ dispatched = {}
        /\ faults = 0

Fault == /\ faults < MaxFaults
         /\ faults' = faults + 1

\* Faulty variant: the loop sleeps without looking at the flag.
Park_NoCheck == pc' = "sleep"

(* The end of an iteration: "if (!running) break", then a sleep.           *)
Park == pc' = IF running THEN "sleep" ELSE "down"

LedgerCloses ==
  /\ CloseLedger
  /\ UNCHANGED <<database, pc, running, locals, batch, failing, dispatched, faults>>

(* startIndexer with no loop in flight; with one it only joins its promise. *)
StartIndexer ==
  /\ pc = "down"
  /\ pc' = "boot"
  /\ running' = TRUE
  /\ UNCHANGED <<chain, database, locals, batch, failing, dispatched, faults>>

\* Faulty variant: the saved cursor is ignored.
Boot_IgnoresCursor ==
  /\ pc = "boot"
  /\ startLedger' = StartLedger
  /\ persistedCursor' = cursor
  /\ idleChecked' = FALSE
  /\ failing' = FALSE
  /\ pc' = IF running THEN "poll" ELSE "down"
  /\ UNCHANGED <<chain, database, running, observedHead, batch, dispatched, faults>>

(* runLoop up to the loop: readCursor and the first "while (running)".     *)
Boot ==
  /\ pc = "boot"
  /\ startLedger' = IF cursor > 0 THEN cursor + 1 ELSE StartLedger
  /\ persistedCursor' = cursor
  /\ idleChecked' = FALSE
  /\ failing' = FALSE
  /\ pc' = IF running THEN "poll" ELSE "down"
  /\ UNCHANGED <<chain, database, running, observedHead, batch, dispatched, faults>>

(* The top of an iteration: the idle check is due or it is not; when it    *)
(* is, the chain head is read before the fetch.                            *)
ReadHead ==
  /\ pc = "poll"
  /\ pc' = "fetch"
  /\ observedHead' = head
  /\ idleChecked' = TRUE
  /\ UNCHANGED <<chain, database, running, startLedger, persistedCursor, batch,
                 failing, dispatched, faults>>

(* A failed head read is swallowed; the check still counts as done.        *)
HeadUnavailable ==
  /\ pc = "poll"
  /\ Fault
  /\ pc' = "fetch"
  /\ observedHead' = NoHead
  /\ idleChecked' = TRUE
  /\ UNCHANGED <<chain, database, running, startLedger, persistedCursor, batch,
                 failing, dispatched>>

SkipIdleCheck ==
  /\ pc = "poll"
  /\ idleChecked
  /\ pc' = "fetch"
  /\ observedHead' = NoHead
  /\ UNCHANGED <<chain, database, running, startLedger, persistedCursor,
                 idleChecked, batch, failing, dispatched, faults>>

FetchTips ==
  /\ pc = "fetch"
  /\ \E B \in FetchResults(startLedger), last \in 1 .. head :
       /\ IsLastLedger(B, last)
       /\ LET p == PlanBatch(B, last)
          IN /\ todo' = p.toProcess
             /\ plan' = [next |-> p.next, cursor |-> p.cursor]
  /\ pc' = "handle"
  /\ UNCHANGED <<chain, database, running, locals, inHand, isNew, failing,
                 dispatched, faults>>

(* An empty batch: the cursor moves to the head read before the fetch.     *)
FetchNothing ==
  /\ pc = "fetch"
  /\ {} \in FetchResults(startLedger)
  /\ \/ /\ IdleAdvances
        /\ plan' = [next |-> observedHead + 1, cursor |-> observedHead]
        /\ pc' = "save"
        /\ UNCHANGED failing
     \/ /\ ~IdleAdvances
        /\ failing' = FALSE
        /\ Park
        /\ UNCHANGED plan
  /\ UNCHANGED <<chain, database, running, locals, todo, inHand, isNew,
                 dispatched, faults>>

(* The upsert on txHash: a row of the transaction stays as it is, also     *)
(* when it is another event's; a new one may tie.                          *)
Upsert(e) ==
  \/ /\ e \in WithRow(tips)
     /\ UNCHANGED <<tips, tied>>
  \/ /\ e \notin WithRow(tips)
     /\ tips' = tips \cup {e}
     /\ tied' \in {tied, tied \cup {e}}

(* persistTip returns whether the createdAt of the transaction's row       *)
(* equals its ledgerAt.                                                    *)
PersistTip(e) ==
  /\ pc = "handle"
  /\ e \in todo
  /\ Upsert(e)
  /\ isNew' = (e \in WithRow(tied'))
  /\ inHand' = {e}
  /\ pc' = "notify"
  /\ UNCHANGED <<chain, cursor, running, locals, todo, plan, failing,
                 dispatched, faults>>

(* The rest of handleEvent, and after the last event the assignment of     *)
(* startLedger.                                                            *)
Notify ==
  /\ pc = "notify"
  /\ dispatched' = IF isNew THEN dispatched \cup inHand ELSE dispatched
  /\ todo' = todo \ inHand
  /\ inHand' = {}
  /\ \/ /\ todo' # {}
        /\ pc' = "handle"
        /\ UNCHANGED startLedger
     \/ /\ todo' = {}
        /\ pc' = "save"
        /\ startLedger' = plan.next
  /\ UNCHANGED <<chain, database, running, persistedCursor, idleChecked,
                 observedHead, plan, isNew, failing, faults>>

(* updateCursor and what follows it; without the import the call of        *)
(* updateIndexerCursor throws into the catch of the iteration.             *)
SaveCursor ==
  /\ pc = "save"
  /\ cursor' = plan.cursor
  /\ startLedger' = plan.next
  /\ persistedCursor' = plan.cursor
  /\ failing' = ~MetricsLinked
  /\ Park
  /\ UNCHANGED <<chain, tips, tied, running, idleChecked, observedHead, batch,
                 dispatched, faults>>

(* A failed call lands in the catch; a failed write may have been applied. *)
PollFails ==
  /\ Fault
  /\ \/ pc = "fetch" /\ UNCHANGED database
     \/ /\ pc = "handle"
        /\ UNCHANGED <<tips, tied>> \/ \E e \in todo : Upsert(e)
        /\ UNCHANGED cursor
     \/ /\ pc = "save"
        /\ cursor' \in {cursor, plan.cursor}
        /\ UNCHANGED <<tips, tied>>
  /\ failing' = TRUE
  /\ Park
  /\ UNCHANGED <<chain, running, locals, batch, dispatched>>

(* The sleep or the backoff ends.                                          *)
Wake ==
  /\ pc = "sleep"
  /\ pc' = IF running THEN "poll" ELSE "down"
  /\ UNCHANGED <<chain, database, running, locals, batch, failing, dispatched, faults>>

(* stopIndexer: a parked loop is woken and ends, any other finishes its    *)
(* iteration first.                                                        *)
StopIndexer ==
  /\ running
  /\ Fault
  /\ running' = FALSE
  /\ pc' = IF pc = "sleep" THEN "down" ELSE pc
  /\ UNCHANGED <<chain, database, locals, batch, failing, dispatched>>

(* The process dies, or exits because readCursor failed or the shutdown    *)
(* timer fired.                                                            *)
Crash ==
  /\ pc # "down"
  /\ Fault
  /\ pc' = "down"
  /\ running' = FALSE
  /\ inHand' = {}
  /\ UNCHANGED <<chain, database, locals, todo, plan, isNew, failing, dispatched>>

CheckIdle == ReadHead \/ HeadUnavailable \/ SkipIdleCheck

HandleEvent == Notify \/ \E e \in Events : PersistTip(e)

RunLoop == Boot \/ CheckIdle \/ FetchTips \/ FetchNothing \/ HandleEvent
           \/ SaveCursor \/ Wake

Next == LedgerCloses \/ StartIndexer \/ StopIndexer \/ Crash \/ PollFails \/ RunLoop

Spec == Init /\ [][Next]_vars

(* The loop keeps running, the process is restarted (docker-compose.yml),  *)
(* and the idle check, due once a minute of polls, is done again and again. *)
Fairness == /\ WF_vars(RunLoop)
            /\ WF_vars(StartIndexer)
            /\ SF_vars(ReadHead)

FairSpec == Spec /\ Fairness

-----------------------------------------------------------------------------
(* Properties.                                                             *)

FlagsOK == /\ running \in BOOLEAN /\ idleChecked \in BOOLEAN
           /\ isNew \in BOOLEAN /\ failing \in BOOLEAN

DataOK ==
  /\ head \in Nat
  /\ ledgerOf \in [Events -> Nat]
  /\ tips \subseteq Events /\ tied \subseteq Events
  /\ cursor \in Nat
  /\ pc \in {"down", "boot", "poll", "fetch", "handle", "notify", "save", "sleep"}
  /\ startLedger \in Nat /\ persistedCursor \in Nat
  /\ observedHead \in Nat \cup {NoHead}
  /\ todo \subseteq Events /\ inHand \subseteq Events /\ dispatched \subseteq Events
  /\ plan \in [next : Nat, cursor : Nat]
  /\ faults \in 0 .. MaxFaults

(* Every variable has its type.                                            *)
TypeOK == FlagsOK /\ DataOK

(* The cursor never claims a ledger that is not in the table: every tip of *)
(* a ledger up to the cursor has its row, or its ledger already has        *)
(* PollLimit of them.  A truncated batch, a failed or half-applied write,  *)
(* a crash anywhere in the loop and a head read late could each break it   *)
(* (indexer.ts, lines 182-231).                                            *)
CursorCovered == cursor <= head /\ CoveredBy(tips, cursor)

(* The position held in memory, which runs ahead of the cursor while a     *)
(* cursor write fails and behind it when a write was applied without an    *)
(* answer, has everything before it in the table, and no tip lies between  *)
(* it and a cursor ahead of it (indexer.ts, lines 204-229).                *)
Polling == {"poll", "fetch", "handle", "notify", "save", "sleep"}

PositionCovered ==
  pc \in Polling =>
    /\ CoveredBy(tips, startLedger - 1)
    /\ \A e \in Available(startLedger) : ledgerOf[e] > cursor

(* A stopped loop is never parked in a sleep nobody will wake: stopIndexer *)
(* waits for the loop, and a sleep it missed would hold the shutdown up    *)
(* (indexer.ts, lines 244, 249 and 268).                                   *)
StoppedNeverSleeps == pc = "sleep" => running

Log == INSTANCE TipLog WITH recorded <- tips, saved <- cursor

(* The loop implements TipLog, with the table for what is on record and    *)
(* the cursor row for how far: no step loses a row, moves the cursor back, *)
(* or stores a tip of a ledger that is not closed.                         *)
ImplementsTipLog == Log!LogSpec

(* The inductive invariant: what is known at each point of an iteration.   *)
ChainInv == \A e \in Events : ledgerOf[e] <= head

CursorInv == CursorCovered /\ (cursor = 0 \/ cursor >= StartLedger)

PositionInv ==
  /\ PositionCovered
  /\ pc \in Polling =>
       \/ startLedger = StartLedger
       \/ startLedger > StartLedger /\ startLedger - 1 <= head

HeadInv == pc = "fetch" /\ observedHead # NoHead => observedHead \in cursor .. head

PlanInv ==
  /\ pc \in {"handle", "notify", "save"} =>
       /\ plan.next = plan.cursor + 1
       /\ plan.cursor \in cursor .. head
       /\ plan.cursor >= StartLedger
  /\ pc \in {"handle", "notify"} =>
       /\ CoveredBy(tips \cup todo, plan.cursor)
       /\ todo \subseteq Available(StartLedger)
  /\ pc = "notify" => inHand \subseteq WithRow(tips)
  /\ pc = "save" =>
       /\ CoveredBy(tips, plan.cursor)
       /\ \A e \in Available(startLedger) : ledgerOf[e] > plan.cursor

IInv == TypeOK /\ ChainInv /\ CursorInv /\ PositionInv /\ HeadInv /\ PlanInv
             /\ StoppedNeverSleeps

(* Every tip emitted from the start ledger on has a row, its own or that   *)
(* of another tip of its transaction, or its ledger has PollLimit tips     *)
(* that do, whatever finitely many crashes, stops and failures happen.     *)
EveryTipStored ==
  \A e \in Events :
    ledgerOf[e] > 0 /\ ledgerOf[e] >= StartLedger
      ~> \/ e \in WithRow(tips)
         \/ Cardinality(WithRow(tips) \cap EventsAt(ledgerOf[e])) >= PollLimit

(* The loop finds nothing to fetch at a position whose cursor write failed *)
(* (startLedger was assigned before it, indexer.ts, lines 207-209).        *)
PositionAhead == /\ pc \in {"poll", "fetch", "sleep"}
                 /\ startLedger > StartLedger
                 /\ startLedger > persistedCursor + 1

(* The cursor reaches every closed ledger, tips or none, across crashes,   *)
(* stops and failed calls, so a restart does not scan a quiet stretch      *)
(* again (indexer.ts, lines 13-14).  The one exception: the cursor write   *)
(* of a batch failed and no ledger closed since, for the write is not      *)
(* tried again while planIdleAdvance finds the head behind the position.   *)
CursorFollowsHead ==
  \A l \in 1 .. MaxLedger :
    head >= l /\ l >= StartLedger
      ~> cursor >= l \/ [](PositionAhead /\ startLedger > head)

(* persist.ts, line 23: "Returns true when the tip was newly created".     *)
NewTipReportedNew == [][tips' # tips => isNew']_vars

(* indexer.ts, line 233: "Successful poll resets consecutive failure       *)
(* count": a poll that moved the cursor leaves no failure behind.          *)
SuccessfulPollResetsFailures == [][cursor' # cursor => ~failing']_vars
=============================================================================

--------------------------- MODULE RetentionPruner ---------------------------
(***************************************************************************)
(* src/modules/webhooks/retention.ts: the pass that deletes rows past      *)
(* their window, in batches under a budget, and the timer that repeats it. *)
(* Successes and failures are WebhookDelivery rows and share a budget;     *)
(* notifications have one of their own.                                    *)
(***************************************************************************)
EXTENDS Integers, FiniteSets

CONSTANTS Records,        \* the rows there may be, of any kind
          MaxFaults,   \* failed passes, stops and exits
          Windows,     \* the kinds with a window: successDays > 0, ...
          BatchSize,   \* config.webhooks.retention.batchSize
          MaxBatches   \* MAX_BATCHES_PER_RUN

Kinds == {"success", "failure", "notification"}

Budgets == {"deliveries", "notifications"}

(* Deliveries and notifications have a budget each.                        *)
Budget(k) == IF k = "notification" THEN "notifications" ELSE "deliveries"

ASSUME RetentionAssumption ==
  /\ IsFiniteSet(Records) /\ MaxFaults \in Nat
  /\ Windows \subseteq Kinds /\ Windows # {}
  /\ BatchSize \in Nat \ {0} /\ MaxBatches \in Nat \ {0}

VARIABLES
  written,      \* every row that was ever inserted
  fresh, old,   \* the rows of each kind inside and past its window
  due,          \* those past the cutoff of the pass that are left
  stage,        \* "off", "timer", the kind in hand, or "report"
  ids,          \* the batch read last
  budget,       \* batches left of each budget
  truncated,    \* of PruneResult
  pruneActive,  \* as in the source
  faults

tableVars == <<written, fresh, old>>
passVars == <<due, stage, ids, budget, truncated>>
retentionVars == <<tableVars, passVars, pruneActive, faults>>

RetentionInit == /\ written = {}
                 /\ fresh = [k \in Kinds |-> {}] /\ old = [k \in Kinds |-> {}]
                 /\ due = [k \in Kinds |-> {}]
                 /\ stage = "off" /\ ids = {} /\ truncated = FALSE
                 /\ budget = [b \in Budgets |-> MaxBatches]
                 /\ pruneActive = FALSE
                 /\ faults = 0

-----------------------------------------------------------------------------
(* The table: rows are written and age.                                    *)

InsertRow(k, r) ==
  /\ r \notin written
  /\ written' = written \cup {r}
  /\ fresh' = [fresh EXCEPT ![k] = @ \cup {r}]
  /\ UNCHANGED <<old, passVars, pruneActive, faults>>

RowExpires(k, r) ==
  /\ r \in fresh[k]
  /\ fresh' = [fresh EXCEPT ![k] = @ \ {r}]
  /\ old' = [old EXCEPT ![k] = @ \cup {r}]
  /\ UNCHANGED <<written, passVars, pruneActive, faults>>

-----------------------------------------------------------------------------
(* The pass.                                                               *)

(* The stages of pruneRetainedRows that are left, in order; deliveries are *)
(* skipped once their budget is used up.                                   *)
After(k) == CASE k = "timer" -> Kinds
              [] k = "success" -> {"failure", "notification"}
              [] k = "failure" -> {"notification"}
              [] OTHER -> {}

NextStage(k, left) ==
  LET ready == {n \in After(k) \cap Windows : left[Budget(n)] > 0}
  IN IF "success" \in ready THEN "success"
     ELSE IF "failure" \in ready THEN "failure"
     ELSE IF "notification" \in ready THEN "notification" ELSE "report"

(* The cutoffs are taken from one clock reading at the start.              *)
StartPass ==
  LET full == [b \in Budgets |-> MaxBatches]
  IN /\ stage = "timer"
     /\ due' = [k \in Kinds |-> IF k \in Windows THEN old[k] ELSE {}]
     /\ stage' = NextStage(stage, full)
     /\ ids' = {} /\ budget' = full /\ truncated' = FALSE
     /\ UNCHANGED <<tableVars, pruneActive, faults>>

(* findMany of a batch: any BatchSize rows, or all there are.              *)
FindBatch ==
  /\ stage \in Kinds /\ ids = {} /\ due[stage] # {}
  /\ \E S \in SUBSET due[stage] :
       /\ \/ Cardinality(S) = BatchSize
          \/ S = due[stage] /\ Cardinality(S) < BatchSize
       /\ ids' = S
  /\ UNCHANGED <<tableVars, due, stage, budget, truncated, pruneActive, faults>>

FindNothing ==
  /\ stage \in Kinds /\ ids = {} /\ due[stage] = {}
  /\ stage' = NextStage(stage, budget)
  /\ UNCHANGED <<tableVars, due, ids, budget, truncated, pruneActive, faults>>

\* Faulty variant: a full page is taken for a short one.
ShortPage_OffByOne == Cardinality(ids) <= BatchSize

(* A short page means the predicate is exhausted.                          *)
ShortPage == Cardinality(ids) < BatchSize

(* deleteMany by id.  The stage ends with a short page or its budget.      *)
DeleteBatch ==
  LET left == [budget EXCEPT ![Budget(stage)] = @ - 1]
      spent == left[Budget(stage)] = 0
  IN /\ stage \in Kinds /\ ids # {}
     /\ old' = [old EXCEPT ![stage] = @ \ ids]
     /\ due' = [due EXCEPT ![stage] = @ \ ids]
     /\ ids' = {} /\ budget' = left
     /\ truncated' = (truncated \/ (spent /\ ~ShortPage))
     /\ stage' = IF ShortPage \/ spent THEN NextStage(stage, left) ELSE stage
     /\ UNCHANGED <<written, fresh, pruneActive, faults>>

\* Faulty variant: an error ends the chain of timers.
ScheduleNext_Once ==
  stage' = IF stage = "report" /\ pruneActive THEN "timer" ELSE "off"

ScheduleNext == stage' = IF pruneActive THEN "timer" ELSE "off"

(* The end of runPrune.                                                    *)
EndPass ==
  /\ stage = "report"
  /\ ScheduleNext
  /\ UNCHANGED <<tableVars, due, ids, budget, truncated, pruneActive, faults>>

Fault == faults < MaxFaults /\ faults' = faults + 1

(* Any query fails: logged, and tried again with the next timer.           *)
PassFails ==
  /\ Fault
  /\ stage \in Kinds
  /\ ScheduleNext
  /\ ids' = {}
  /\ UNCHANGED <<tableVars, due, budget, truncated, pruneActive>>

-----------------------------------------------------------------------------
(* The process.                                                            *)

(* Once at its start.                                                      *)
StartDeliveryPruner ==
  /\ ~pruneActive /\ stage = "off"
  /\ pruneActive' = TRUE /\ stage' = "timer"
  /\ UNCHANGED <<tableVars, due, ids, budget, truncated, faults>>

(* A shutdown clears the timer; a pass in hand goes on.                    *)
StopDeliveryPruner ==
  /\ Fault
  /\ pruneActive
  /\ pruneActive' = FALSE
  /\ stage' = IF stage = "timer" THEN "off" ELSE stage
  /\ UNCHANGED <<tableVars, due, ids, budget, truncated>>

ExitDuringPass ==
  /\ Fault
  /\ stage \in Kinds \cup {"report"}
  /\ pruneActive' = FALSE /\ stage' = "off" /\ ids' = {}
  /\ UNCHANGED <<tableVars, due, budget, truncated>>

PruneRetainedRows == StartPass \/ FindBatch \/ FindNothing \/ DeleteBatch \/ EndPass

RetentionNext == \/ \E k \in Kinds, r \in Records : InsertRow(k, r) \/ RowExpires(k, r)
                 \/ PruneRetainedRows
                 \/ PassFails
                 \/ StartDeliveryPruner \/ StopDeliveryPruner \/ ExitDuringPass

RetentionSpec == RetentionInit /\ [][RetentionNext]_retentionVars

(* The timer fires, every query ends, and the process is started again.    *)
RetentionFairness == WF_retentionVars(PruneRetainedRows) /\ WF_retentionVars(StartDeliveryPruner)

RetentionFairSpec == RetentionSpec /\ RetentionFairness

-----------------------------------------------------------------------------
(* Properties.                                                             *)

(* The types; a timer is set only while the pruner is active.              *)
RowsOK == \A f \in {fresh, old, due} : f \in [Kinds -> SUBSET Records]

RetentionTypeOK ==
  /\ RowsOK /\ written \subseteq Records
  /\ stage \in Kinds \cup {"off", "timer", "report"}
  /\ ids \subseteq Records
  /\ budget \in [Budgets -> 0 .. MaxBatches]
  /\ truncated \in BOOLEAN /\ pruneActive \in BOOLEAN
  /\ stage = "timer" => pruneActive
  /\ faults \in 0 .. MaxFaults

(* A pass that reports nothing outstanding left nothing of what was past   *)
(* its window when it began, unless successes took the whole budget of     *)
(* deliveries (retention.ts, lines 79-103 and 150-184).                    *)
PassIsThorough ==
  stage = "report" /\ ~truncated =>
    /\ due["success"] = {} /\ due["notification"] = {}
    /\ due["failure"] = {} \/ budget["deliveries"] = 0

(* Every row of a finite backlog is deleted once past its window, whatever *)
(* finitely many errors, stops and exits do: passes resume where the       *)
(* ceiling ended one (lines 23-30 and 272-277).  A flow of successes that  *)
(* never ends may keep the whole budget from the failures for ever.        *)
EveryOldRowPruned ==
  \A k \in Windows : \A r \in Records : r \in old[k] ~> r \notin old[k]

(* retention.ts, line 46: "True when the batch ceiling was hit with rows   *)
(* still outstanding."                                                     *)
OutstandingReported ==
  stage = "report" /\ (\E k \in Windows : due[k] # {}) => truncated
=============================================================================

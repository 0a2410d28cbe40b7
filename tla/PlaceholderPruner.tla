-------------------------- MODULE PlaceholderPruner --------------------------
(***************************************************************************)
(* src/modules/creator/placeholder-retention.ts: the pass that deletes     *)
(* abandoned sign-in placeholders, page by page under a budget, the timer  *)
(* that repeats it, and the claims it races with (claimSlug of             *)
(* creator.service.ts).  A slug is one of three forms: "placeholder"       *)
(* matches PLACEHOLDER_SLUG_REGEX, "prefix" only starts with "user_".      *)
(***************************************************************************)
EXTENDS Integers, FiniteSets, FiniteSetsExt

CONSTANTS NumCreators,  \* creators that signed in, numbered as their ids sort
          BatchSize,    \* config.creators.placeholderPruneBatchSize
          MaxBatches,   \* MAX_BATCHES_PER_RUN
          MaxFaults     \* failed queries, stops, claims cut off, rows that go

ASSUME PlaceholderAssumption ==
  /\ NumCreators \in Nat /\ MaxFaults \in Nat
  /\ BatchSize \in Nat \ {0} /\ MaxBatches \in Nat \ {0}

VARIABLES
  slug,         \* the form of a creator's slug, "none" without a row
  inUse,        \* creators with a tip, a webhook or a notification
  released,     \* creators a ReleasedSlug row names as previous owner
  expired,      \* creators older than the retention window
  updated,      \* claims between the update and the release of the old slug
  claimed,      \* answered claims of a slug without the placeholder form
  stage,        \* "off", "timer", "scan" or "delete"
  due,          \* those past the cutoff of the pass
  cursor, ids, full, batchesUsed,  \* locals of pruneBatch
  pruneActive,  \* as in the source
  faults

rowVars == <<slug, inUse, released, expired, updated, claimed>>
passVars == <<due, cursor, ids, full, batchesUsed>>
vars == <<rowVars, passVars, stage, pruneActive, faults>>

Creators == 1 .. NumCreators
Forms == {"placeholder", "prefix", "real"}
Exists(c) == slug[c] # "none"

Init == /\ slug = [c \in Creators |-> "placeholder"]
        /\ inUse = {} /\ released = {} /\ expired = {}
        /\ updated = {} /\ claimed = {}
        /\ stage = "off" /\ pruneActive = FALSE
        /\ due = {} /\ cursor = 0 /\ ids = {} /\ full = FALSE /\ batchesUsed = 0
        /\ faults = 0

Fault == faults < MaxFaults /\ faults' = faults + 1

-----------------------------------------------------------------------------
(* The rows.                                                               *)

Expire(c) ==
  /\ c \notin expired
  /\ expired' = expired \cup {c}
  /\ UNCHANGED <<slug, inUse, released, updated, claimed, passVars, stage, pruneActive, faults>>

(* A tip, webhook or notification is added.                                *)
Use(c) ==
  /\ Exists(c) /\ c \notin inUse
  /\ inUse' = inUse \cup {c}
  /\ UNCHANGED <<slug, released, expired, updated, claimed, passVars, stage, pruneActive, faults>>

(* The last webhook or notification of a creator without tips goes.        *)
FallIdle(c) ==
  /\ Fault
  /\ c \in inUse
  /\ inUse' = inUse \ {c}
  /\ UNCHANGED <<slug, released, expired, updated, claimed, passVars, stage, pruneActive>>

(* The checks of claimSlug passed.  A slug of the placeholder form is as   *)
(* good as any for them; a claim of the own one changes nothing here.      *)
UpdateClaim(c, form) ==
  /\ slug[c] = "placeholder" /\ c \notin updated
  /\ slug' = [slug EXCEPT ![c] = form]
  /\ updated' = updated \cup {c}
  /\ UNCHANGED <<inUse, released, expired, claimed, passVars, stage, pruneActive, faults>>

(* The old slug is recorded as released, which a missing row refuses.      *)
RecordSlugRelease(c) ==
  /\ c \in updated
  /\ updated' = updated \ {c}
  /\ released' = IF Exists(c) THEN released \cup {c} ELSE released
  /\ claimed' = IF slug[c] \in {"prefix", "real"} THEN claimed \cup {c} ELSE claimed
  /\ UNCHANGED <<slug, inUse, expired, passVars, stage, pruneActive, faults>>

(* The claim ends with an error, or with the process, before the record.   *)
LoseRelease(c) ==
  /\ Fault
  /\ c \in updated
  /\ updated' = updated \ {c}
  /\ UNCHANGED <<slug, inUse, released, expired, claimed, passVars, stage, pruneActive>>

(* Somebody takes the slug c had and leaves it in turn: the row names them *)
(* now.  The hold outlasts the moment between a scan and its delete.       *)
ReleasePassesOn(c) ==
  /\ Fault
  /\ c \in released /\ c \notin ids
  /\ released' = released \ {c}
  /\ UNCHANGED <<slug, inUse, expired, updated, claimed, passVars, stage, pruneActive>>

DeleteCreator(c) ==
  /\ Exists(c)
  /\ slug' = [slug EXCEPT ![c] = "none"]
  /\ inUse' = inUse \ {c} /\ released' = released \ {c} /\ claimed' = claimed \ {c}
  /\ UNCHANGED <<expired, updated, passVars, stage, pruneActive, faults>>

-----------------------------------------------------------------------------
(* The pass.                                                               *)

IsInert(c) == c \notin inUse \cup released

StartPass ==
  /\ stage = "timer"
  /\ stage' = "scan"
  /\ due' = expired /\ cursor' = 0 /\ ids' = {} /\ full' = FALSE /\ batchesUsed' = 0
  /\ UNCHANGED <<rowVars, pruneActive, faults>>

\* Faulty variant: every page is read from the first row on.
After_FirstPage == {Creators}

(* The page after the cursor.  A cursor whose row the batch deleted finds  *)
(* the rows behind it or none, which is for the database client to say.    *)
After ==
  LET behind == {c \in Creators : c > cursor}
  IN IF cursor = 0 \/ Exists(cursor) THEN {behind} ELSE {behind, {}}

(* The first BatchSize of S.                                               *)
Page(S) == {c \in S : Cardinality({d \in S : d <= c}) <= BatchSize}

\* Faulty variant: a pass in hand at the shutdown sets the timer again.
ScheduleNext_Always == stage' = "timer"

ScheduleNext == stage' = IF pruneActive THEN "timer" ELSE "off"

(* findMany by prefix; the filter keeps the exact pattern.  An empty page  *)
(* ends the pass.                                                          *)
Scan ==
  /\ stage = "scan"
  /\ \E behind \in After :
       LET page == Page({c \in due \cap behind : slug[c] \in {"placeholder", "prefix"} /\ IsInert(c)})
       IN IF page = {}
          THEN ScheduleNext /\ UNCHANGED passVars
          ELSE /\ stage' = "delete"
               /\ ids' = {c \in page : slug[c] = "placeholder"}
               /\ cursor' = Max(page)
               /\ full' = (Cardinality(page) = BatchSize)
               /\ UNCHANGED <<due, batchesUsed>>
  /\ UNCHANGED <<rowVars, pruneActive, faults>>

\* Faulty variant: the delete takes what was scanned.
Deletable_AsScanned == {c \in ids : Exists(c)}

Deletable == {c \in ids : Exists(c) /\ IsInert(c)}

(* The delete repeats isInert, not the slug.                               *)
DeleteBatch ==
  /\ stage = "delete"
  /\ slug' = [c \in Creators |-> IF c \in Deletable THEN "none" ELSE slug[c]]
  /\ inUse' = inUse \ Deletable /\ released' = released \ Deletable
  /\ ids' = {} /\ batchesUsed' = batchesUsed + 1
  /\ IF full /\ batchesUsed' < MaxBatches THEN stage' = "scan" ELSE ScheduleNext
  /\ UNCHANGED <<expired, updated, claimed, due, cursor, full, pruneActive, faults>>

(* A query fails: logged, and tried again with the next timer.             *)
PassFails ==
  /\ Fault
  /\ stage \in {"scan", "delete"}
  /\ ScheduleNext
  /\ ids' = {}
  /\ UNCHANGED <<rowVars, due, cursor, full, batchesUsed, pruneActive>>

-----------------------------------------------------------------------------
(* The process.                                                            *)

StartPlaceholderCreatorPruner ==
  /\ ~pruneActive /\ stage = "off"
  /\ pruneActive' = TRUE /\ stage' = "timer"
  /\ UNCHANGED <<rowVars, passVars, faults>>

(* A shutdown clears the timer; a pass in hand goes on.                    *)
StopPlaceholderCreatorPruner ==
  /\ Fault
  /\ pruneActive
  /\ pruneActive' = FALSE
  /\ stage' = IF stage = "timer" THEN "off" ELSE stage
  /\ UNCHANGED <<rowVars, passVars>>

PrunePlaceholderCreators == StartPass \/ Scan \/ DeleteBatch

Claim(c) == \/ \E form \in Forms : UpdateClaim(c, form)
            \/ RecordSlugRelease(c)
            \/ LoseRelease(c)

Next == \/ \E c \in Creators : \/ Expire(c) \/ Use(c) \/ FallIdle(c) \/ Claim(c)
                               \/ ReleasePassesOn(c) \/ DeleteCreator(c)
        \/ PrunePlaceholderCreators
        \/ PassFails
        \/ StartPlaceholderCreatorPruner \/ StopPlaceholderCreatorPruner

Spec == Init /\ [][Next]_vars

(* The timer fires, every query ends, and the process is started again.    *)
Fairness == WF_vars(PrunePlaceholderCreators) /\ WF_vars(StartPlaceholderCreatorPruner)

FairSpec == Spec /\ Fairness

-----------------------------------------------------------------------------
(* Properties.                                                             *)

(* The types; only an existing row is referred to by others.               *)
TypeOK ==
  /\ slug \in [Creators -> Forms \cup {"none"}]
  /\ inUse \cup released \subseteq {c \in Creators : Exists(c)}
  /\ expired \cup updated \cup claimed \cup due \cup ids \subseteq Creators
  /\ stage \in {"off", "timer", "scan", "delete"}
  /\ cursor \in 0 .. NumCreators /\ batchesUsed \in 0 .. MaxBatches
  /\ full \in BOOLEAN /\ pruneActive \in BOOLEAN /\ (stage = "timer" => pruneActive)
  /\ faults \in 0 .. MaxFaults

(* A creator whose claim was answered stays, although the pruner deletes   *)
(* by ids it scanned while the slug was a placeholder: the release is      *)
(* recorded before the answer and the delete repeats isInert               *)
(* (placeholder-retention.ts, lines 59-70 and 106-109;                     *)
(* creator.service.ts, lines 299-301).  It says nothing of a claimed slug  *)
(* that has the placeholder form itself.                                   *)
ClaimedKept == \A c \in claimed : Exists(c)

Abandoned(c) == slug[c] = "placeholder" /\ IsInert(c) /\ c \in expired

(* Rows every scan reads and no batch deletes.                             *)
NearMisses == {c \in expired : slug[c] = "prefix" /\ IsInert(c)}

Room == Cardinality(NearMisses) < BatchSize * MaxBatches

(* No abandoned placeholder stays for ever: near-misses that every scan    *)
(* reads again do not keep a page or a pass from the rows behind them      *)
(* (lines 72-77), unless there are as many as a pass may read (line 38).   *)
AbandonedGoes == \A c \in Creators : Abandoned(c) /\ Room ~> ~Abandoned(c) \/ ~Room
=============================================================================

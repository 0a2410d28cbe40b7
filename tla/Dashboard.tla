----------------------------- MODULE Dashboard -----------------------------
(***************************************************************************)
(* The aggregates of src/modules/analytics/analytics.service.ts over the   *)
(* rows of TipFeed: totals, the daily series, the supporters and what each *)
(* collaborator earned.  They keep no state; the ledger time of a row is   *)
(* the UTC day of its ledgerAt here.  Each is cached for 30 seconds on its *)
(* own; the operators are what the queries answer.                         *)
(***************************************************************************)
EXTENDS TipFeed, Functions

CONSTANTS Amount,      \* stroops of a tip
          From,        \* its fromAddress
          Recipients,  \* addresses that splits name, the owner among them
          Owner,       \* walletAddress of the creator
          BpsTotal     \* 10000 in the code: the whole of a tip

ASSUME DashboardAssumption ==
  /\ Amount \in [Keys -> Nat \ {0}] /\ DOMAIN From = Keys
  /\ IsFiniteSet(Recipients) /\ Owner \in Recipients
  /\ BpsTotal \in Nat \ {0}

Sum(S) == SumFunctionOnSet(Amount, S)

TipsOf(s) == {k \in Rows : From[k] = s}

Supporters == {From[k] : k \in Rows}

GetTotals == [totalTips |-> Cardinality(Rows),
              totalAmountRaw |-> Sum(Rows),
              uniqueSupporters |-> Cardinality(Supporters)]

-----------------------------------------------------------------------------
(* The daily series.                                                       *)

\* Faulty variant: "days" for "days - 1".
WindowStart_OffByOne(today, days) == today - days

WindowStart(today, days) == today - (days - 1)

(* One point for each day of the window, empty days included.              *)
GetTimeSeries(today, days) ==
  LET start == WindowStart(today, days)
      on(d) == {k \in Rows : ledger[k] >= start /\ ledger[k] = d}
  IN [d \in start .. start + (days - 1) |->
        [tipCount |-> Cardinality(on(d)), amountRaw |-> Sum(on(d))]]

(* ORDER BY the sum DESC LIMIT n: a tie at the limit may fall either way.  *)
GetTopSupporters(n) ==
  {top \in SUBSET Supporters :
     /\ Cardinality(top) = IF Cardinality(Supporters) < n THEN Cardinality(Supporters) ELSE n
     /\ \A s \in top, r \in Supporters \ top : Sum(TipsOf(s)) >= Sum(TipsOf(r))}

-----------------------------------------------------------------------------
(* The split of a jar.                                                     *)

Allotted(splits) == SumFunction(splits)

(* CreatorSplitsSchema: no recipient twice, and no more than the whole.    *)
CreatorSplits ==
  {splits \in UNION {[to -> 1 .. BpsTotal] : to \in SUBSET Recipients} :
     Allotted(splits) <= BpsTotal}

(* floor(amount * bps / 10000), summed over the tips.                      *)
Earned(bps) == SumFunction([k \in Rows |-> (Amount[k] * bps) \div BpsTotal])

(* No splits on record: the owner gets the whole.                          *)
GetCollaboratorEarnings(stored) ==
  LET splits == IF DOMAIN stored = {} THEN [r \in {Owner} |-> BpsTotal] ELSE stored
      earned == [r \in DOMAIN splits |-> Earned(splits[r])]
  IN [totalAmountRaw |-> Sum(Rows),
      collaborators |-> earned,
      unallocatedRaw |-> Sum(Rows) - SumFunction(earned)]

-----------------------------------------------------------------------------
(* Properties.                                                             *)

(* What is not earned by anyone is never negative; if the splits are the   *)
(* whole it is rounding dust, less than a stroop for each recipient and    *)
(* tip, and without splits there is none (analytics.service.ts, lines      *)
(* 589-601; collaborators.ts, lines 116-123).                              *)
BreakdownSound ==
  \A stored \in CreatorSplits :
    LET left == GetCollaboratorEarnings(stored).unallocatedRaw
    IN /\ left >= 0
       /\ Allotted(stored) = BpsTotal /\ Rows # {}
            => left < Cardinality(Rows) * Cardinality(DOMAIN stored)
       /\ DOMAIN stored = {} => left = 0

(* A series over all days so far adds up to the totals, a shorter one to   *)
(* the tips of its days, today's included; the supporters listed have sent *)
(* the whole if none is cut off, and otherwise no less than any other      *)
(* choice of as many.                                                      *)
PanelsAgree ==
  LET tipsIn(series) == SumFunction([d \in DOMAIN series |-> series[d].tipCount])
      sumOf(series) == SumFunction([d \in DOMAIN series |-> series[d].amountRaw])
      sentBy(S) == Sum({k \in Rows : From[k] \in S})
  IN /\ \A days \in 1 .. Ledgers :
          LET recent == {k \in Rows : ledger[k] > Ledgers - days}
              series == GetTimeSeries(Ledgers, days)
          IN tipsIn(series) = Cardinality(recent) /\ sumOf(series) = Sum(recent)
     /\ \A n \in 1 .. GetTotals.uniqueSupporters : \A top \in GetTopSupporters(n) :
          \A S \in SUBSET Supporters : Cardinality(S) = n => sentBy(S) <= sentBy(top)
     /\ \A top \in GetTopSupporters(GetTotals.uniqueSupporters) :
          sentBy(top) = GetTotals.totalAmountRaw

(* The panels of a dashboard read at one moment fit together, whatever     *)
(* tips arrived in whatever order, and so does every breakdown.            *)
DashboardAddsUp == BreakdownSound /\ PanelsAgree
=============================================================================

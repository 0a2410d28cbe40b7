------------------------------- MODULE TipLog -------------------------------
(***************************************************************************)
(* What the indexer promises, without how it polls: a table of tips and a  *)
(* cursor beside a chain.  Tips are only ever added, one at a time, one    *)
(* for a transaction, and only from ledgers the chain has closed; the      *)
(* cursor only moves forward, and only to a closed ledger such that every  *)
(* ledger up to it has all its tips in the table - or PollLimit of them,   *)
(* the documented loss of a ledger that holds more tips than one fetch can *)
(* return (src/indexer/cursor.ts, planBatch).                              *)
(***************************************************************************)
EXTENDS Chain

VARIABLES recorded,  \* the tips that are on record
          saved      \* the ledger up to which they are

logVars == <<chain, recorded, saved>>

-----------------------------------------------------------------------------

LogInit == ChainInit /\ recorded = {} /\ saved = 0

Grow == CloseLedger /\ UNCHANGED <<recorded, saved>>

Record(e) ==
  /\ ledgerOf[e] > 0
  /\ ledgerOf[e] >= StartLedger
  /\ e \notin WithRow(recorded)
  /\ recorded' = recorded \cup {e}
  /\ UNCHANGED <<chain, saved>>

Advance(c) ==
  /\ c \in saved .. head
  /\ CoveredBy(recorded, c)
  /\ saved' = c
  /\ UNCHANGED <<chain, recorded>>

LogNext == \/ Grow
           \/ \E e \in Events : Record(e)
           \/ \E c \in 0 .. head : Advance(c)

LogSpec == LogInit /\ [][LogNext]_logVars
=============================================================================

------------------------------- MODULE Chain -------------------------------
(***************************************************************************)
(* The Stellar network as the indexer sees it: ledgers close one after the *)
(* other, each with some of the transactions that emit TipReceived events. *)
(* External: the chain and its RPC are not part of the repository.         *)
(***************************************************************************)
EXTENDS Naturals, FiniteSets

CONSTANTS Transactions, \* those that may be closed, each the set of the
                        \* TipReceived events it emits
          StartLedger,  \* INDEXER_START_LEDGER
          PollLimit,    \* INDEXER_POLL_LIMIT
          MaxLedger     \* bound of the model: the last ledger that closes

Events == UNION Transactions

ASSUME ChainAssumption == /\ IsFiniteSet(Events)
                          /\ \A T, U \in Transactions : T # U => T \cap U = {}
                          /\ StartLedger \in Nat
                          /\ PollLimit \in Nat \ {0}
                          /\ MaxLedger \in Nat

VARIABLES head,      \* sequence number of the last closed ledger
          ledgerOf   \* the ledger an event was emitted in, 0 before it is

chain == <<head, ledgerOf>>

EventsAt(l) == {e \in Events : ledgerOf[e] = l}

(* The events whose transaction has a row when S are the events stored: a  *)
(* Tip row is keyed by txHash.                                             *)
WithRow(S) == UNION {T \in Transactions : T \cap S # {}}

(* S holds the tips E of one ledger, or as many as one fetch returns.      *)
HasEnough(E, S) == E \subseteq S \/ Cardinality(E \cap S) >= PollLimit

(* No ledger up to c holds a tip whose transaction has no row among S,     *)
(* except beyond the first PollLimit tips of one ledger.                   *)
CoveredBy(S, c) ==
  \A l \in StartLedger .. c : l > 0 => HasEnough(EventsAt(l), WithRow(S))

ChainInit == head = 0 /\ ledgerOf = [e \in Events |-> 0]

(* A ledger closes with some of the transactions not closed so far.        *)
CloseLedger ==
  /\ head < MaxLedger
  /\ head' = head + 1
  /\ \E closed \in SUBSET {T \in Transactions : T \subseteq EventsAt(0)} :
       ledgerOf' = [e \in Events |-> IF e \in UNION closed THEN head + 1 ELSE ledgerOf[e]]
=============================================================================

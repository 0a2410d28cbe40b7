------------------------------ MODULE MCTipFeed ------------------------------
(* TipFeed and Dashboard for TLC: amounts that do not divide evenly, from  *)
(* two supporters; the clients are interchangeable.                        *)
EXTENDS Dashboard, TLC

MCAmount == [k \in Keys |-> 2 * k + 1]
MCFrom == [k \in Keys |-> k % 2]

FeedSymmetry == Permutations(Walks)
=============================================================================

--------------------------- MODULE MCSlugRegistry ---------------------------
(* SlugRegistry for TLC: what is interchangeable, and a bound.             *)
EXTENDS SlugRegistry, TLC

RegistrySymmetry ==
  Permutations(Creators) \cup Permutations(Slugs) \cup Permutations(Tips)
    \cup Permutations(Requests)

(* The bound of the run: two creators send two requests between them, one  *)
(* creator alone all there are.                                            *)
ThirdRequestAlone ==
  Cardinality(born) > 1 => Cardinality({r \in Requests : req[r].pc # "new"}) <= 2
=============================================================================

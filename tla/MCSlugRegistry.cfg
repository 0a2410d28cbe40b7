\* Two creators with two requests that overlap and one with three, two slugs,
\* a tip and one failure.
CONSTANTS
  Creators = {c1, c2}
  Slugs = {s1, s2}
  Tips = {t1}
  Requests = {r1, r2, r3}
  NoOne = NoOne
  MaxFaults = 1
SPECIFICATION Spec
SYMMETRY RegistrySymmetry
CONSTRAINT ThirdRequestAlone
INVARIANTS
  CreditMatchesJar
  RepeatedClaimsOverlap
  LeftSlugsRecorded
PROPERTY CreditLasts
\* The requests of the model run out.
CHECK_DEADLOCK FALSE

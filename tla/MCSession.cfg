\* Two challenges and two requests, which may carry the same one; two accounts,
\* one slug that is taken, three attempts.
CONSTANTS
  Challenges = {c1, c2}
  Requests = {r1, r2}
  NonceTtl = 2
  JwtLifetime = 2
  MaxAttempts = 3
  MaxCreators = 2
  MaxCollisions = 1
  MaxTime = 4
SPECIFICATION Spec
INVARIANTS
  ChallengeUsedOnce
  RevokedStaysOut
PROPERTY
  SignInSucceeds
\* Every request is answered and the clock stands at its bound.
CHECK_DEADLOCK FALSE

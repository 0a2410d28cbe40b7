\* A webhook whose secret is not encrypted yet, two that are registered, a
\* cap of two, and two processes that start.
CONSTANTS
  Legacy = {w1}
  Creates = {w2, w3}
  Rotations = {r1, r2}
  Processes = {p1, p2}
  Tips = {t1}
  WebhookLimit = 2
SPECIFICATION Spec
INVARIANTS
  ExcessByOverlap
  RotationSticks
  JobsCanSign
\* The creator may do nothing more.
CHECK_DEADLOCK FALSE

\* Two tips for two webhooks and a ping are five jobs for two slots; no
\* symmetry, for the liveness properties.
CONSTANTS
  Tips = {t1, t2}
  Pings = {p1}
  Hooks = {h1, h2}
  Concurrency = 2
SPECIFICATION FairSpec
INVARIANTS
  QueueSound
PROPERTIES
  StartsInOrder
  BurstIsOver
  ImplementsDrain
  EverythingSettles
\* A drained or dead process does nothing more.
CHECK_DEADLOCK FALSE

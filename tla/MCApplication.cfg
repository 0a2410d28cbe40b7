\* Two tips and two pings: one may be under way while the other begins.
CONSTANTS
  Tips = {t1, t2}
  Pings = {p1, p2}
SPECIFICATION AppFairSpec
INVARIANTS AppTypeOK NothingCutOff
PROPERTIES KeepsToDrain ShutdownEnds
\* A process that has exited does nothing more.
CHECK_DEADLOCK FALSE

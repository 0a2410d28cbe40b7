\* A cap of one for two tips over two hours, one change of address and one
\* failure; no symmetry, since it is not sound for EveryTipMailed.
CONSTANTS
  Addresses = {a, b}
  NoEmail = NoEmail
  Updates = {u1, u2}
  Tips = {t1, t2}
  MailCap = 1
  MaxHour = 1
  MaxFaults = 1
SPECIFICATION FairSpec
INVARIANTS
  MarkedWereMailed
  CapOverrunBounded
  DigestRepeatsNothing
  MailOnlyToProved
PROPERTIES
  ScanTakesUnmailed
  EveryTipMailed
\* The tips and updates of the model run out.
CHECK_DEADLOCK FALSE

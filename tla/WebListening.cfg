SPECIFICATION Spec
CONSTANTS
  alice = alice
  bob = bob
  t1 = t1
  t2 = t2
  None = None
  Accounts = {alice, bob}
  Tracks = {t1, t2}
  MaxGap = 1
  MinListened = 1
  MaxBatch = 1
  Length = 2
  MaxRefusing = 1
  MaxPlayed = 3
  MaxChoices = 2
  MaxFailures = 1
  MaxSignIns = 1
CHECK_DEADLOCK FALSE
INVARIANT ReportedWasPlayed
INVARIANT ReportsAreCounted
PROPERTY OutboxDrains

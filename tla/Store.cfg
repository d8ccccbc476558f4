SPECIFICATION FairSpec
CONSTANTS
  Handles = {h1}
  None = None
  Torn = Torn
  Faults = {"append", "prepare", "power"}
  MaxId = 2
  MaxLsn = 2
  MaxTxn = 2
  MaxGen = 2
  MaxCrash = 2
INVARIANT TypeOK
INVARIANT RecoveredAcked
INVARIANT LogReplayable
INVARIANT IdsRetired
PROPERTY ImplementsDb
PROPERTY LockReleased

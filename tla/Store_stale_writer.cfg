SPECIFICATION Spec
CONSTANTS
  Handles = {h1, h2}
  None = None
  Torn = Torn
  Faults = {}
  MaxId = 2
  MaxLsn = 2
  MaxTxn = 2
  MaxGen = 0
  MaxCrash = 0
INVARIANT LogReplayable

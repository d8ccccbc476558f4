SPECIFICATION Spec
CONSTANTS
  Handles = {h1, h2}
  None = None
  Torn = Torn
  Faults = {"kill", "append", "prepare", "publish", "reopen", "overlap", "unlink"}
  MaxId = 1
  MaxLsn = 1
  MaxTxn = 1
  MaxGen = 1
  MaxCrash = 1
SYMMETRY HandleSymmetry
INVARIANT FoldPreservesView
INVARIANT LiveBase
INVARIANT LockWithinCall

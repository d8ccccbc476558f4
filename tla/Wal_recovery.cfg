SPECIFICATION Spec
CONSTANTS
  MaxCommits = 3
  MaxOps = 1
  MaxBlob = 1
  MaxDamage = 2
  Flips = {"base_generation", "lsn", "txn_id", "magic", "len", "op_count", "crc32c", "payload"}
  FlipValues = {0, 1, 2, 9, 17}
  Junk = TRUE
CHECK_DEADLOCK FALSE
INVARIANT RecoveredClean
INVARIANT FramedTailDropped
PROPERTY ReplayTerminates

SPECIFICATION Spec
CONSTANTS
  NodeMax = 7
  EdgeMax = 15
  PkSpan = 8
  Absent = Absent
  Sessions = {s1}
  Workers = {w1}
  TableNames = {"nodes", "places"}
  EdgeNames = {"edges", "visits"}
  Members <- MCMembers
  Pairs <- MCPairs
  Chain <- MCChain
  MaxEdges = 2
  MaxChanges = 2
  MaxCalls = 2
INVARIANT StoredLoads
INVARIANT CachesMatch
INVARIANT AnswersExact
PROPERTY RebuiltWhole
PROPERTY ReplaySound
PROPERTY MaintenanceCatchesUp

CONSTANTS
  Scale = 995328
  Nodes <- MCNodes
  GraphSet <- MCGraphs
  HyperSet <- MCHypers
  ElementLists <- MCElementLists
  MaxIterations = 2
  MaxCalls = 2
  MaxEdges = 3
  Vertices = 2
  Hyperedges = 2
SPECIFICATION Spec
CHECK_DEADLOCK FALSE
INVARIANT PartitionsCorrect
INVARIANT PathsCorrect
INVARIANT RankSound
PROPERTY Returns

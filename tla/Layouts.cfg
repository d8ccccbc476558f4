CONSTANTS
  NodeMax = 3
  EdgeMax = 3
  VertexMax = 2
  RelationMax = 2
  IncidenceMax = 3
  MAX_SECTION_COUNT = 12
  NullCell = 99
  MaxSize = 6
  MaxParticipants = 2
  MaxIncidences = 4
  MaxDamage = 4
SPECIFICATION Spec
CHECK_DEADLOCK FALSE
INVARIANT FreezeFaithful
INVARIANT FileFaithful
INVARIANT VerifiedIsWritten
INVARIANT AcceptedSafe

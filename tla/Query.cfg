SPECIFICATION Spec
CONSTANTS
  MaxElement = 4
  MaxRelation = 3
  MaxIncidence = 6
  Labels = {1}
  Types = {1, 2}
  Roles = {1, 2}
  ElementKeys = {1, 2}
  RelationKeys = {3}
  IncidenceKeys = {}
  MaxValue = 1
  Absent = Absent
  Unset = Unset
  IndexMax = 15
  MaxSchemaOps = 3
  MaxEdits = 2
CHECK_DEADLOCK FALSE
INVARIANT CatalogSound
PROPERTY NamesStable
INVARIANT ReadsMatchRecords
INVARIANT ProjectionsMatchRecords
INVARIANT BaseFileSound

SPECIFICATION Spec
CONSTANTS
  MaxElement = 4
  MaxRelation = 3
  MaxIncidence = 6
  Labels = {1}
  Types = {1, 2}
  Roles = {1, 2}
  ElementKeys = {1, 2}
  RelationKeys = {3}
  IncidenceKeys = {}
  MaxValue = 1
  Absent = Absent
  Unset = Unset
  IndexMax = 15
  MaxSchemaOps = 2
  MaxEdits = 0
CHECK_DEADLOCK FALSE
INVARIANT SchemaShapes

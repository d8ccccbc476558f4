SPECIFICATION Spec
CONSTANTS
  MaxElement = 2
  MaxRelation = 1
  MaxIncidence = 2
  Labels = {l1}
  Types = {t1}
  Roles = {role1}
  ElementKeys = {k1}
  RelationKeys = {k2}
  IncidenceKeys = {k3}
  MaxValue = 1
  Absent = Absent
  Unset = Unset
  IdentityKeys = {k1, k2}
  MaxTxnOps = 3
  MaxCommits = 1
  MaxFolds = 1
INVARIANT LookupsMatchScan
INVARIANT ReplayRebuilds
INVARIANT GraphIntact
INVARIANT FreshIds
INVARIANT Reconciled

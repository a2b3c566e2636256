SPECIFICATION StoreSpec
CONSTANTS
  s1 = s1
  s2 = s2
  s3 = s3
  SessionIds = {s1, s2, s3}
  RequestIds = {1, 2, 3, 4}
  Metas = {mA, mB}
  UsesId <- MCUsesId
  MaxRequests = 3
  Absent = Absent
  NoSession = NoSession
  NoMeta = NoMeta
PROPERTY EndClearsOnlyOwnEntries
CHECK_DEADLOCK FALSE

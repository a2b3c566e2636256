SPECIFICATION Spec
CONSTANTS
  s1 = s1
  r1 = r1
  r2 = r2
  SessionIds = {s1}
  RequestIds = {r1, r2}
  Metas = {m1}
  UsesId <- MCUsesId
  MaxRequests = 6
  Absent = Absent
  NoSession = NoSession
  NoMeta = NoMeta
  NumTasks = 3
  Requests <- MCRequests
  MaxFrames <- MCMaxFrames
  BusDrops = TRUE
  NoRequest = NoRequest
  NoSnapshot = NoSnapshot
  NoRow = NoRow
INVARIANTS EventsMatchReply FailureLeavesNoTrace
  CountedRequestsSucceeded MirroredUnlessOvertaken
CHECK_DEADLOCK FALSE

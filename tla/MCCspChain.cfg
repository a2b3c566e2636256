SPECIFICATION ChainSpec
CONSTANTS
  Files <- MCFiles
  MaxNesting = 8
  Documents <- MCDocuments
  Results <- MCResults
INVARIANTS ListsFollowPolicy FramesFailClosed ProxyReachable
CHECK_DEADLOCK FALSE

SPECIFICATION Spec
CONSTANTS
  Inbounds <- MCInbounds
  Replies <- MCReplies
  Provider <- MCProvider
  Rewrite <- MCRewrite
  MaxTime = 2
  MaxNesting = 8
INVARIANTS
  StreamedInOrder
  LogMatchesAnswer
  SchemaAsServed
  SinksAgree
  TimesConsistent
  NothingSkipped
CHECK_DEADLOCK FALSE

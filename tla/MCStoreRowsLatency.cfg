SPECIFICATION Spec
CONSTANTS
  p1 = p1
  p2 = p2
  s1 = s1
  s2 = s2
  number1 = number1
  string1 = string1
  number2 = number2
  text1 = text1
  text2 = text2
  h1 = h1
  h2 = h2
  tool = tool
  Proxies = {p1, p2}
  Sessions = {s1, s2}
  Ids = {number1, string1, number2}
  Text <- MCText
  ToolOf <- MCToolOf
  Batches <- MCBatches
  Delays = {0, 1}
  Items = {tool}
  Hashes = {h1, h2}
  NoSession = NoSession
  None = None
  AllProxies = AllProxies
  MaxFailures = 0
  MaxEvents = 3
  MaxWork = 4
  MaxVacuums = 0
INVARIANTS LatencyRecovered
CHECK_DEADLOCK FALSE

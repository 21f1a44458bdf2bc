CONSTANTS
  Values = {0, 1, 2}
  Gaps = {1, 2, 4}
  SIZE = 3
  CAPACITY = 3
  WINDOW = 4
  MIN_SPAN = 1
  FAULT = 2
  Bits = {v1, v2}
  Periods = {1, 2}
  STUCK = 4
  FAULT_AFTER = 2
  MaxQueue = 2
  AwaitMax = 6
  None = None
  Relay = Relay
  p1 = p1
  v1 = v1
  v2 = v2
SPECIFICATION FSpec
INVARIANTS TrendIsOfTheLast ResultIsTrue
PROPERTIES StuckMeansFrozen PlugFollows

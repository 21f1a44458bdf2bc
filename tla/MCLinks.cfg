CONSTANTS
  None = None
  n1 = n1
  n2 = n2
  Web = Web
  Askers = {Web, console}
  Codes = {c1, c2}
SPECIFICATION LSpec
INVARIANTS PhaseFollowsCloud
PROPERTIES BoardIsReachable  

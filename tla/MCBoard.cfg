CONSTANTS
  TICKS = 2
  DEAD_AFTER = 2
  MIN_UPTIME = 1
  DAILY_UPTIME = 3
  DAILY_WINDOW = 2
  QUEUE = 2
  None = None
  Docs = {defaults, d1, d2}
  DefaultDoc = defaults
  Foreign = foreign
  Histories = {blank, h1, h2}
  BlankHistory = blank
  Devices = {1, 2}
  Channels = {1, 2}
  Plugs = {"p1", "p2"}
  KeyOf <- OwnKey
  Periods = {10}
  SECONDS = 4
  WIDTH = 1024
  Defaults <- Delivered
  Malformed = Malformed
  Pages = {tab1}
  Documents <- Sent
  Outputs <- Entered
SPECIFICATION BSpec
INVARIANTS DailyInterruptsNothing StoredIsWhatRuns KeyOpensItsPlug OneDeviceAnOutput GoodImageIsReachable
PROPERTIES DeadServerIsCured

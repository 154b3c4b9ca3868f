CONSTANTS
  Page = {"/", "/systemLog", "/wallet", "/contracts"}
  MaxLosses = 2
  Filter = {"", "a", "["}
  NoFilter = ""
  Matches <- Matching
  LINES_LIMIT = 1
  LogCount = 2
  LogVisits = 2
  LogFetches = 1
  Peer = {"a", "b", "c"}
  Country <- Countries
  ServerLists <- Lists
  MaxUpdates = 2
  MaxBlinks = 2
  PAGE_SIZE = 2
  ShowAllSize = 6
  Sizes = {0, 1, 2, 3, 4, 5, 6, 7}
  MaxRequests = 4
  Contract = {c1, c2}
  None = None
  MaxAsked = 2
  File = {f, g}
  MaxFiles = 2
  MaxSubmits = 2
  Method <- Methods
  MaxCalls = 2
  TermVisits = 2
  MaxLoads = 2
  MaxCommands = 1
  Transaction = {t1, t2, t3}
  CONFIRMED_LIMIT = 2
  Counts = {0, 3}
  Times = {1}
  MaxReports = 4
  MaxNetworkInfos = 2
  MaxTests = 1
  MaxInfos = 2
  MaxPhrases = 2
  MaxClicks = 2
  MaxEdits = 1
SPECIFICATION PagesFairSpec
INVARIANTS ConnectionAgrees LogShown PeersShown ContractShown AnswersShown StatusShown DialogsConfirmed
PROPERTIES RouteServed LogCatchesUp ListConverges ImportAndStatusEnd TerminalServed LockFollowsUnlock
CHECK_DEADLOCK FALSE

SPECIFICATION MCSpec
CONSTANTS
  Users = {"ann"}
  CmdRateLimit = 1
  Window = 1
  MaxTime = 1
  Callers = {"first", "second"}
  Margin = 2
  Timeout = 1
  Lives = {3}
  Runs = {"first", "second"}
  QueueCap = 1
  MaxLines = 2
  CardLines = 1
  Sender <- MCSender
  Offers <- MCOffers
INVARIANTS CommandsTypeOK NeverAboveLimit RefusedOnlyAtLimit NoExpiredToken AskedOnlyWhenDue LatestLinesShown HeaderTrue SilentOnlyWithoutText
PROPERTY EveryRequestEnds
CHECK_DEADLOCK FALSE

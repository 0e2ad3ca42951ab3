CONSTANTS
  NumEndpoints = 2
  MaxItems = 1
  MaxPollItemRetries = 1
  MaxIdleApsConfirmErrors = 0
  RxOnWhenIdle = TRUE
  Kinds = {"zigbee", "zgp"}
  Cores <- MCNewCores
  WidgetReloads = FALSE
  MaxQueue = 1
  MaxUrgent = 0
SPECIFICATION FairSpec
INVARIANTS EnterArrivesFirst
PROPERTIES InterviewCompletes PollRoundEnds

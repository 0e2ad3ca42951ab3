CONSTANTS
  NumEndpoints = 1
  MaxItems = 2
  MaxPollItemRetries = 2
  MaxIdleApsConfirmErrors = 1
  RxOnWhenIdle = FALSE
  Kinds = {"zigbee", "coordinator"}
  Cores <- MCNewOrKnownCores
  WidgetReloads = TRUE
  MaxQueue = 1
  MaxUrgent = 1
SPECIFICATION Spec
INVARIANTS TypeOK LevelsConsistent DescriptionPending PollBusyHasItem

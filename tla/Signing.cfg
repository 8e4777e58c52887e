SPECIFICATION FairSpec
CONSTANTS
  Workers <- Both
  HistoryLimit = 20
  SwitchBound = 2
  FaultBound = 2
PROPERTIES AuthorizedIsConfirmed
CHECK_DEADLOCK FALSE

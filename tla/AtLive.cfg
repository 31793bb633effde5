SPECIFICATION FairSpec
CONSTANTS
  Tasks = {t1, t2}
  NoTask = NoTask
  Lists <- SingleLists
  CmdRetryTime = 2
  LateAnswers = TRUE
  MaxPending = 1
  MaxWire = 2
INVARIANT TypeOK
PROPERTY CallReturns

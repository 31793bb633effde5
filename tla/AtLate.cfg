SPECIFICATION Spec
CONSTANTS
  Tasks = {t1, t2}
  NoTask = NoTask
  Lists <- AllLists
  CmdRetryTime = 2
  LateAnswers = TRUE
  MaxPending = 1
  MaxWire = 3
INVARIANTS OneExchange AnswerIsKept
PROPERTY ImplementsService
SYMMETRY TaskSymmetry

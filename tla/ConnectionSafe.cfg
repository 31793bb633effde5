SPECIFICATION Spec
CONSTANTS
    Senders = {"report"}
    MaxLost = 1
    MaxHarm = 1
    RetryCount = 2
    MaxRegister = 2
    Faults = {"break", "silence", "refuse", "torn", "memory"}
INVARIANTS TypeOK NetExclusive RestartHasCause NoCircle
PROPERTIES LossHandled
CHECK_DEADLOCK FALSE

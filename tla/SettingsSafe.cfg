SPECIFICATION Spec
CONSTANTS
    Tasks <- MCTasks
    Prio <- MCPrio
    MaxSleep = 3
    Imei = Imei
    OtherName = OtherName
    Choices = {far, near}
    Cleared = Cleared
    Old = Old
    MaxCuts = 2
    MaxSets = 3
INVARIANTS RecordsApart StoredWhole
PROPERTIES SleepsEnd
CHECK_DEADLOCK FALSE

SPECIFICATION FairSpec
CONSTANTS
    Tasks = {u1, u2}
    Tries = 2
    Faults = {"send", "reject", "eeprom", "create", "late", "link", "power", "race", "early"}
    MaxFaults = 2
    MaxDesired = 2
    MaxNet = 3
    NoReport = NoReport
INVARIANTS TypeOK RestartHasCause
PROPERTIES ForgottenOnlySo TasksEnd
CHECK_DEADLOCK FALSE

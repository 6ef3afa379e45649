SPECIFICATION Spec
CONSTANTS
    None = None
    Requests = {1, 2, 3, 4}
    Phones = {"alice", "bob"}
    MessageIds = {"SM1", "SM2", "SM3", "SM4"}
    MessageOf <- ChangeOfMindTwice
    ReplyMode = "api"
    SmsProvider = "mock"
    SendStatuses = {"sent"}
    HistoryLimit = 2
    CoarseClock = FALSE
    MaxFaults = 0
    MaxCrashes = 0
INVARIANTS
    AuditTrail

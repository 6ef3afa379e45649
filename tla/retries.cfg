SPECIFICATION EventLoopSpec
CONSTANTS
    None = None
    Requests = {1, 2, 3}
    Phones = {"alice", "bob"}
    MessageIds = {"SM1", "SM2", "SM3", "SM4"}
    MessageOf <- RetriedQuestion
    ReplyMode = "api"
    SmsProvider = "twilio"
    SendStatuses = {"queued", "failed"}
    HistoryLimit = 2
    CoarseClock = FALSE
    MaxFaults = 1
    MaxCrashes = 1
INVARIANTS
    TypeOK
    ConsistentReceipts
    ReplyAtMostOnce
    RecordBeforeReply
    SettledRecord
PROPERTIES
    Lifecycle
    KeepsPromise
    EveryQuestionSettles

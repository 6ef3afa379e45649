SPECIFICATION EventLoopSpec
CONSTANTS
    None = None
    Requests = {1, 2, 3, 4}
    Phones = {"alice", "bob"}
    MessageIds = {"SM1", "SM2", "SM3", "SM4"}
    MessageOf <- TwoUsers
    ReplyMode = "twiml"
    SmsProvider = "mock"
    SendStatuses = {"sent"}
    HistoryLimit = 1
    CoarseClock = FALSE
    MaxFaults = 1
    MaxCrashes = 0
INVARIANTS
    ConsistentReceipts
    RatingsWellPlaced
    PromptScope
    RepliesInTheResponse
PROPERTIES
    EveryWebhookAnswered

SPECIFICATION Spec
CONSTANTS
    None = None
    Requests = {"r1", "r2"}
    Settings <- SomeSettings
    Inputs <- TwoRequests
CHECK_DEADLOCK FALSE
INVARIANTS
    GatewayTypeOK
    LinesNameTheirRequest
    ErrorsNameTheirRequest
    TwilioMessagesAreSigned

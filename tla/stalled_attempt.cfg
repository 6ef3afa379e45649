SPECIFICATION Spec
CONSTANTS
    Deadline = 40
    MaxRetries = 2
    RetryAfters = {2, 80}
CHECK_DEADLOCK FALSE
INVARIANTS
    SilentServerIsRetried

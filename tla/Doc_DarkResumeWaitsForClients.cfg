SPECIFICATION Spec
CONSTANTS
    DelayIds <- OneDelay
    Clients = {chrome}
    InternalDelays = {chargeLimit}
    ChargeLimitDelay = chargeLimit
    MaxDelayTimeout = 2
    DarkResumeMinDelay = 1
    DischargeDelay = 1
    ChargeLimitPref = FALSE
    ShutdownEnabled = FALSE
    Timeouts <- MCTimeouts
    RequestKinds <- DefaultRequests
    PolicyChanges <- NoPolicies
    MaxRetries = 1
    RetryDelay = 1
    AttemptTicks <- Instant
    MaxRequests = 2
    DarkIds = 2
    MaxCrashes = 0
INVARIANT DarkResumeWaitsForClients

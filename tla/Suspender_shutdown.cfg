SPECIFICATION FairSpec
CONSTANTS
    DelayIds <- NoDelays
    Clients = {chrome}
    InternalDelays = {chargeLimit}
    ChargeLimitDelay = chargeLimit
    MaxDelayTimeout = 2
    DarkResumeMinDelay = 1
    DischargeDelay = 1
    ChargeLimitPref = FALSE
    ShutdownEnabled = TRUE
    Timeouts <- MCTimeouts
    RequestKinds <- AllRequests
    PolicyChanges <- NoPolicies
    MaxRetries = 1
    RetryDelay = 1
    AttemptTicks <- InstantOrLong
    MaxRequests = 2
    DarkIds = 3
    MaxCrashes = 2
INVARIANTS IdleIsClean RetriesAreBounded ShutdownReachesSuspender ToldIsAnnounced
PROPERTIES EveryAnnouncementEnds GivingUpShutsDown

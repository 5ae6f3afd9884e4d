SPECIFICATION FairSpec
CONSTANTS
    DelayIds <- MCDelayIds
    Clients = {chrome, shill}
    InternalDelays = {chargeLimit}
    MaxDelayTimeout = 2
    DarkResumeMinDelay = 1
    Timeouts <- MCTimeouts
    MaxRequests = 2
INVARIANTS TypeOK WaitedAreRegistered NeverStuck ReadyIsReady BoundedWait
PROPERTY EveryRequestIsReported

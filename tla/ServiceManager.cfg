SPECIFICATION FairSpec
CONSTANTS
    health = health
    unlisted = unlisted
    healthd = healthd
    diag = diag
    chrome = chrome
    Services <- MCServices
    Policy <- MCPolicy
    Processes <- MCProcesses
    UidOf <- MCUidOf
    ContextOf <- MCContextOf
    Requests = {r1, r2}
    Providers = {p1, p2}
    Observers = {o1}
    None = None
INVARIANTS TypeOK NoDanglingReferences RequestsAreAccounted OwnerMatchesProvider ViewsAreCurrent
PROPERTIES EventsGoToRequesters TimedRequestsEnd
CHECK_DEADLOCK FALSE

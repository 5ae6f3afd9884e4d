SPECIFICATION FairSpec
CONSTANT
    MaxWrites = 5
INVARIANTS TypeOK StoredInOrder ChainBreaksOnlyAfterFailure QueueHoldsLiveContexts ReadyHeadIsResumed
PROPERTY EveryWriteIsAnswered
CHECK_DEADLOCK FALSE

\* The attempts of the code.
SPECIFICATION FairSpec
CONSTANTS
    StopRecordAttempts = 5
    StopFinalizeAttempts = 3
INVARIANTS TypeOK ReleasedMeansStopped
PROPERTIES ImplementsStop StepsRunOut StopHandlerEnds
CHECK_DEADLOCK FALSE

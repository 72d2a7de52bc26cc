\* The main loop, the teardown and the two workers may end.
CHECK_DEADLOCK FALSE
SPECIFICATION Spec
CONSTANTS
    TM_OBJECT_MAX <- WideObjects
    MaxAlarms <- TwoAlarms
INVARIANTS TypeOK NoLostWork WorkersOutlived ExitExactlyInitialized WorkersWaitForInit FailedInitNeverBlocks HandleEventsDefined

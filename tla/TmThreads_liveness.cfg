\* The main loop, the teardown and the two workers may end.
CHECK_DEADLOCK FALSE
SPECIFICATION FairSpec
CONSTANTS
    TM_OBJECT_MAX <- SmallObjects
    MaxAlarms <- OneAlarm
PROPERTIES ExposeRedraws UpdateDrawn TicksForever FailedInitExits StopOutcome WakeupImplemented

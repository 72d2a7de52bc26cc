\* The main loop, the teardown and the two workers may end.
CHECK_DEADLOCK FALSE
SPECIFICATION Spec
CONSTANTS
    TM_OBJECT_MAX <- SmallObjects
    MaxAlarms <- OneAlarm
INVARIANT DrawsOnMainOnly

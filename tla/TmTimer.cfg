\* Initialization, ticks and teardown all end.
CHECK_DEADLOCK FALSE
SPECIFICATION Spec
CONSTANTS
    Timers <- MCTimers
    Period <- MCPeriod
    INTERVAL_DEFAULT <- MCDefault
    MaxTicks <- MCMaxTicks
INVARIANTS TypeOK Paced NeverBehind ItimerExact

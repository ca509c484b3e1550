SPECIFICATION FairSpec
CONSTANT MaxEvents = 3
INVARIANTS TypeOK QuietRestart
PROPERTIES RestartOnlyFromSession AlwaysReachable
CHECK_DEADLOCK FALSE

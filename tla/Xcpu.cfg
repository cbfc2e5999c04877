SPECIFICATION Spec
CONSTANTS
    Remote = {1, 2}
    Sms = {"s1", "s2", "s3", "s4"}
    Workloads <- Calls
INVARIANTS ObjectsAlive CloneExclusive
PROPERTIES CallReturns AllFreed
CHECK_DEADLOCK FALSE

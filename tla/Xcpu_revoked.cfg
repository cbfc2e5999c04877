SPECIFICATION Spec
CONSTANTS
    Remote = {1, 2}
    Sms = {"s1", "s2", "s3", "s4"}
    Workloads <- Revoked
INVARIANTS PassedReturn
CHECK_DEADLOCK FALSE

SPECIFICATION Spec
CONSTANTS
    w1 = w1
    w2 = w2
    j1 = j1
    u1 = u1
    Workers <- TwoWorkers
    Jobs <- TwoJobs
    UniqueJobs <- OneUnique
    NoWorker = none
    MaxAttempts = 2
    Interval = 1
    Timeout = 4
    Thresholds <- SameThreshold
    Slack = 1
    Horizon = 4
    RescueOnStartup = TRUE
    MaxFaults = 1
    MaxCalls = 1
SYMMETRY WorkerSymmetry
INVARIANTS
    TypeOK
    UniqueRunsAlone
PROPERTIES
    RescueSparesHealthy
CHECK_DEADLOCK FALSE

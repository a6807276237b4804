SPECIFICATION FairSpec
CONSTANTS
    Requests = {q1}
    Scheduler = Scheduler
    MaxDisputes = 2
    Faults = FALSE
PROPERTY SilenceIsConsent
CHECK_DEADLOCK FALSE

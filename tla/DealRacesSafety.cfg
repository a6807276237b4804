SPECIFICATION Spec
CONSTANTS
    Requests = {q1, q2}
    Scheduler = Scheduler
    MaxDisputes = 1
    Faults = TRUE
SYMMETRY RequestSymmetry
INVARIANT TypeOK
INVARIANT TimelineIsLegal
INVARIANT JobNeverAhead
CHECK_DEADLOCK FALSE

SPECIFICATION FairSpec
CONSTANTS
    Sides = {"client", "owner"}
    Requests = {q1, q2}
    Scheduler = Scheduler
    MaxDisputes = 2
    MaxFaults = 1
INVARIANT FreezeHasTwoGaps
INVARIANT RepliesAreOpen
PROPERTY KeepsReviewsBlind
PROPERTY EveryReviewOpens
CHECK_DEADLOCK FALSE

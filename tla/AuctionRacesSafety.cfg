SPECIFICATION Spec
CONSTANTS
    Owners = {o1}
    Requests = {q1, q2}
    Scheduler = Scheduler
    MaxBids = 2
    Prices = {1}
    Duration = 2
    DecisionWindow = 1
    SnipeWindow = 1
    ExtendBy = 1
    WithdrawLimit = 2
    Horizon = 2
    Faults = TRUE
SYMMETRY AuctionSymmetry
INVARIANT TypeOK
INVARIANT DoubleTapIsOneBid
INVARIANT ExtensionsArePaid
CHECK_DEADLOCK FALSE

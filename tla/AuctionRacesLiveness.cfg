SPECIFICATION FairSpec
CONSTANTS
    Owners = {o1, o2}
    Requests = {q1}
    Scheduler = Scheduler
    MaxBids = 2
    Prices = {1, 2}
    Duration = 2
    DecisionWindow = 1
    SnipeWindow = 1
    ExtendBy = 1
    WithdrawLimit = 2
    Horizon = 5
    Faults = FALSE
PROPERTY AuctionSettles
CHECK_DEADLOCK FALSE

SPECIFICATION Spec
CONSTANTS
    Owners = {o1, o2, o3}
    NoOwner = NoOwner
    Reporters = {r1}
    Budgets = {4}
    Prices = {2, 3, 4, 5}
    Terms <- MCTerms
    AuctionDuration = 3
    DecisionWindow = 1
    AcceptanceWindow = 2
    SnipeWindow = 1
    ExtendBy = 2
    WithdrawLimit = 2
SYMMETRY OwnerSymmetry
INVARIANT TypeOK
INVARIANT WinnerSettled
INVARIANT DealHonoursWinner
INVARIANT DistinctActivePrices
INVARIANT RecommendedIsCheapest
INVARIANT JobDealAgreement
PROPERTY DisputeHoldsDeal
PROPERTY DealClosedIsFinal
PROPERTY ClosedJobStaysClosed
CHECK_DEADLOCK FALSE

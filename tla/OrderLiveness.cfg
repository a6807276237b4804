SPECIFICATION FairSpec
CONSTANTS
    Owners = {o1, o2}
    NoOwner = NoOwner
    Reporters = {r1}
    Budgets = {4}
    Prices = {2, 3, 5}
    Terms <- MCTerms
    AuctionDuration = 2
    DecisionWindow = 1
    AcceptanceWindow = 2
    SnipeWindow = 1
    ExtendBy = 2
    WithdrawLimit = 2
PROPERTY DueAuctionCloses
PROPERTY DecisionCloses
PROPERTY SilenceIsConsent
CHECK_DEADLOCK FALSE

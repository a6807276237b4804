SPECIFICATION AccessSpec
CONSTANTS
    CodeTTL = 1
    AccessTTL = 2
    TicketTTL = 2
    RefreshTTL = 3
    MaxAttempts = 3
    Deadline = 1
    MaxKeys = 2
    KidPerKey = TRUE
    Moderator = TRUE
INVARIANT SanctionTakesHold
INVARIANT GuestChangesNothing

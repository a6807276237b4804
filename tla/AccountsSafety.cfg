SPECIFICATION Spec
CONSTANTS
    Requests = {q1, q2}
    Worker = Worker
    MaxAccounts = 1
    MaxTokens = 1
    MaxApps = 1
    Sanctions = {"active", "banned"}
    ModeratorPhone = TRUE
    Faults = TRUE
SYMMETRY RequestSymmetry
INVARIANT OneSuccessor
INVARIANT BarredGetNothing
INVARIANT ErasedForGood
INVARIANT BadgeWasEarned

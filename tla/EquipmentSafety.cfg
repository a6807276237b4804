SPECIFICATION Spec
CONSTANTS
    Requests = {q1, q2}
    Categories = {k1}
    NoCategory = NoCategory
    TTL = 1
    FetchLimit = 1
SYMMETRY RequestSymmetry
INVARIANT VersionsDoNotMix
INVARIANT BadgeWasReviewed
INVARIANT StaleUnitIsBounded

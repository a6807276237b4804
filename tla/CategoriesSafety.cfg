SPECIFICATION Spec
CONSTANTS
    Requests = {q1, q2}
    Slugs = {1, 2, 3}
    Seeded = {1, 2}
SYMMETRY RequestSymmetry
INVARIANT SameBranch
INVARIANT TreeShowsTheRest

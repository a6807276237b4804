SPECIFICATION Spec
CONSTANTS
    Client = c
    Owners = {o1, o2}
    NoOwner = nobody
    ChatRequests = {q1, q2}
    MaxMessages = 2
    People = {c, o1, o2}
    NoOne = nobody
    Choosers = {c}
    Tokens = {t1}
    MaxNotes = 3
    Day = 4
    Zone = 1
    DefaultFrom = 3
    DefaultTo = 1
    HourInputs <- MCHours
    Switches = {"message"}
    EventKinds = {"outbid"}
    MaxActs = 4
SYMMETRY MCSymmetry
INVARIANT NoContactBeforeDeal
INVARIANT RestIsRespected
INVARIANT RingsForItsUser
INVARIANT FeedIsTheRecord
CHECK_DEADLOCK FALSE

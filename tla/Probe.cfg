SPECIFICATION Spec
CHECK_DEADLOCK FALSE
CONSTANTS
    Calls = {c1, c2}
    Outputs = {o1, o2}
    None = None
    PageSize = 2
    MaxRunRecords = 3
    MaxRunRequests = 4
    Expiry = 1
    MaxRuns = 3
    MaxAttempts = 2
SYMMETRY CallSymmetry
INVARIANTS
    DispatchIsOnRecord
    ResultIsTheProbe
    AnswersAgree
    PollIsAffordable
PROPERTIES
    KeepsLedger

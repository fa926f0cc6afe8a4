SPECIFICATION Spec
CHECK_DEADLOCK FALSE
CONSTANTS
    index = index
    image = image
    note = note
    None = None
    Versions = {index, image, note}
    Graphs <- MCGraphs
    MinimumAge = 1
    MaximumGap = 1
    MaxTime = 3
    MaxRuns = 3
    MaxEvents = 2
INVARIANTS
    CandidateWasWatched
    WatchedIsCandidate
    ProtectedIsHeld
    ChainNeverForks

SPECIFICATION Spec
CHECK_DEADLOCK FALSE
CONSTANTS
    feature = feature
    fix = fix
    chore = chore
    Fragments = {feature, fix, chore}
    Impact <- MCImpact
    Unreleased = {feature}
    Releasers = {r1, r2}
    None = None
    MaxCommits = 4
    MaxDeaths = 1
SYMMETRY ReleaserSymmetry
INVARIANTS
    TypeOK
    NothingLost
    ReleasedOnce
    VersionFollows
    TagIsRelease
    TaggedStays

SPECIFICATION Spec
CHECK_DEADLOCK FALSE
CONSTANTS
    feature = feature
    fix = fix
    chore = chore
    Fragments = {feature, fix, chore}
    Impact <- MCImpact
    Unreleased = {feature, fix}
    Releasers = {r1}
    None = None
    MaxCommits = 3
    MaxDeaths = 0
INVARIANTS
    PullRequestsConsumeNothing

SPECIFICATION Spec
CONSTANTS
    UNDEF_HEIGHT = 99
    Configs <- VotedThenFixed
    VotingWindow = 3
    VotingThreshold = 60
    UpgradeWindow = 1
    MaxBlocks = 11
INVARIANTS  VotingHeightExact
PROPERTIES RestartInvisible StartedOnCheckedVersions

CONSTANTS
    Agents = {"a"}
    MaxTokens = 3
    MaxCrashes = 3
    MaxFailures = 2
    MaxLosses = 2
SPECIFICATION FairSpec
INVARIANTS TypeOK TokensStand LossNeedsFailure
PROPERTIES EnrollmentSucceeds ControlFollowsToken

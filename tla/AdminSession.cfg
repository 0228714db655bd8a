CONSTANTS
    Browsers = {"b"}
    Requests = {1, 2}
    TTL = 1
    MaxTime = 2
    MaxLogins = 2
    MaxRestarts = 1
SPECIFICATION FairSpec
INVARIANTS TypeOK LogoutIsFinal RefusedForCause
PROPERTY RedirectsEnd

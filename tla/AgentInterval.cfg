CONSTANTS
    Handlers = {"h1", "h2"}
    Intervals = {1, 2, 3}
SPECIFICATION FairSpec
INVARIANTS TypeOK ChangeKept
PROPERTIES LoopComesBack ChangeArrives

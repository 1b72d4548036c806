CONSTANT Files <- MCFiles
SPECIFICATION FairSpec
INVARIANTS
    OwnedOnce
    NoLeak
    DoneIsComplete
PROPERTY Returns

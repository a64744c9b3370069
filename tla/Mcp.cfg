SPECIFICATION FairSpec
CONSTANTS
    None = None
    v1 = v1
    v2 = v2
    c1 = c1
    Key <- Keys
    Version <- Versions
    Caller <- Callers
    Target <- Targets
    Configs <- Contents
    GiveUpAfter = 2
    MaxEdits = 2
    MaxRestarts = 1
INVARIANTS
    NoMissedEdit
    Faithful
    RecordTruthful
PROPERTIES
    SteadyKept
    NoNeedlessReload
    EveryKeyServed
\* Nothing is left to do once edits and restarts are used up.
CHECK_DEADLOCK FALSE

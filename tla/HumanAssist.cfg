SPECIFICATION FairSpec
CONSTANTS
    h1 = h1
    h2 = h2
    h3 = h3
    p1 = p1
    k1 = k1
    k2 = k2
    None = None
    Task <- Records
    Fresh <- Recoveries
    Ask <- Asks
    ByResume <- Nobody
INVARIANTS
    QueuedIsWorked
    RewardEarned
    LiveAsksDiffer
    CurrentTakesAnswer
PROPERTIES
    EveryResumeSettles

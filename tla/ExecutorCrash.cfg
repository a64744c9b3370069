SPECIFICATION FairSpec
CONSTANTS
    r1 = r1
    x1 = x1
    None = None
    Runtime <- OneRuntime
    Request <- OneRequest
    RuntimeOf <- OfFirst
    MaxProgress = 0
    MaxFaults = 1
PROPERTIES
    CrashNoticed
\* A sidecar that reports nothing more leaves every thread waiting.
CHECK_DEADLOCK FALSE

SPECIFICATION Spec
CONSTANTS
    r1 = r1
    x1 = x1
    None = None
    Runtime <- OneRuntime
    Request <- OneRequest
    RuntimeOf <- OfFirst
    MaxProgress = 1
    MaxFaults = 1
INVARIANTS
    EndedStaysEnded
    ApprovalNeedsOperator
    ListedIsOpen
\* A sidecar that reports nothing more leaves every thread waiting.
CHECK_DEADLOCK FALSE

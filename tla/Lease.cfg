SPECIFICATION Spec
CONSTANTS
    a1 = a1
    a2 = a2
    b1 = b1
    b2 = b2
    A = A
    B = B
    None = None
    Run <- Runs
    Agent <- Agents
    Owner <- Owners
    Restorable = TRUE
INVARIANTS
    Mirrored
    HandleFollowsLease
    NoLeakedLease
    AgentsExcluded
PROPERTIES
    FencedHolder
\* The process may stop asking for the lease once every run has ended.
CHECK_DEADLOCK FALSE

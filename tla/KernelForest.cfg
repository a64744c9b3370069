CONSTANTS
  None = None
  Task <- Tree
  Parent <- TreeParent
  Above <- TreeAbove
  Explicit = {"r"}
  Gated = {"r", "b", "g"}
  AutoApproved = {"b"}
  ClosesOnApproval = {"g"}
  Retried = {"r"}
  Unattended = {"a"}
  Faults = {"crash", "abandon"}
  MaxRuns = 2
SPECIFICATION Spec
INVARIANTS HeldIffPending ApprovedBeforeExecuting NoOrphan SettledAgrees
PROPERTIES FirstOutcomeStands ParentFollowsLastChild CleanCloseoutReplayed ImplementsForest

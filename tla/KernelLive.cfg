CONSTANTS
  None = None
  Task <- Tree
  Parent <- TreeParent
  Above <- TreeAbove
  Explicit = {"g"}
  Gated = {"a", "b", "g"}
  AutoApproved = {"g"}
  ClosesOnApproval = {"b"}
  Retried = {}
  Unattended = {}
  Faults = {"recovery"}
  MaxRuns = 1
SPECIFICATION FairSpec
INVARIANTS HeldIffPending
PROPERTIES EveryTaskEnds
\* The system may stop once every task has ended: no task is submitted twice.
CHECK_DEADLOCK FALSE

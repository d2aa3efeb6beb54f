\* One node under everything the cluster may do to its log, fairly scheduled.
SPECIFICATION FairSpec
CONSTANTS
  Call = {c, d}
  Unencodable = {d}
  NoOp = NoOp
  Foreign = Foreign
  Slots = 1
  Churn = TRUE
  MaxLog = 3
  MaxTerms = 2
  MaxBoots = 1
INVARIANTS TypeOK AppliedIsCommitted AcknowledgedIsCommitted
PROPERTIES CommittedIsApplied RegisteredIsAnswered
CHECK_DEADLOCK FALSE

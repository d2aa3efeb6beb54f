\* Three nodes, two elections: both in one term, or one after the other.
SPECIFICATION Spec
CONSTANTS
  Server = {a, b, c}
  Cmd = {v}
  NoOp = NoOp
  Nil = Nil
  Faults = {}
  MaxElections = 2
  MaxLog = 2
  MaxCalls = 1
  MaxBoots = 0
SYMMETRY Symmetry
INVARIANTS ElectionSafety LeaderCompleteness
PROPERTY ReplicatedLogSpec
CHECK_DEADLOCK FALSE

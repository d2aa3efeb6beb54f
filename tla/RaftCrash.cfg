\* A node is killed and restarts without the entries it acknowledged.
SPECIFICATION Spec
CONSTANTS
  Server = {a, b, c}
  Cmd = {v}
  NoOp = NoOp
  Nil = Nil
  Faults = {"crash"}
  MaxElections = 2
  MaxLog = 1
  MaxCalls = 1
  MaxBoots = 1
SYMMETRY Symmetry
INVARIANT LeaderCompleteness
CHECK_DEADLOCK FALSE

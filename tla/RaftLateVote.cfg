\* A RequestVote arrives after an AppendEntries of its own term: two leaders in one term.
SPECIFICATION RestartedSpec
CONSTANTS
  Server = {a, b, c}
  Cmd = {v}
  NoOp = NoOp
  Nil = Nil
  Faults = {"lateVote"}
  MaxElections = 3
  MaxLog = 0
  MaxCalls = 1
  MaxBoots = 0
SYMMETRY Symmetry
INVARIANT ElectionSafety
CHECK_DEADLOCK FALSE

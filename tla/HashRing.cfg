\* Two points for each of three nodes on a circle of four: points coincide often.
SPECIFICATION Spec
CONSTANTS
  Address = {a, b, c}
  NoNode = NoNode
  virtualNodes = 2
  Circle = 4
  MaxPoints = 6
SYMMETRY Symmetry
INVARIANTS TypeOK LookupIsNearest NodesAreMembers
PROPERTY OnlyOwnKeysMove
CHECK_DEADLOCK FALSE

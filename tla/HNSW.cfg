\* Three insertions, two at a time, and a search.
SPECIFICATION OrderedSpec
CONSTANTS
  Insertion = {1, 2, 3}
  Query = {4}
  Id <- Distinct
  NoId = 0
  Position <- Marks
  Similarity <- OnALine
  M = 2
  EfConstruction = 3
  Ef = 3
  TopK = 1
  Writers = 2
  MaxLevel = 2
INVARIANTS TypeOK EntryPointSound LinksStayOnLayer SearchExact
PROPERTY CallsEnd
CHECK_DEADLOCK FALSE

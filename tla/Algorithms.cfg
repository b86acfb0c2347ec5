SPECIFICATION AlgorithmsSpec
CONSTANTS
  Nodes = {1, 2, 3, 4}
  TestNodes = {2}
  EntryNodes = {1}
  Module <- EvenOdd
  TextSize <- OneEach
  Relations <- SomeRelations
  MaxPaths = 2
  MaxRelations = 6
  HopsPerPath = 3
  MaxContext = 4
  MaxNodes = 3
  MaxEdges = 3
  PathGroups <- SomePaths
  RelationGroups <- Singles
  ReturnedPaths = 1
  SomeNodes <- Functions4
  SomeEdges <- Edges5
  MaxChanges = 3
INVARIANTS
  FlowsAreShortest
  NoFlowMissed
  NothingLostSilently
  AcceptedIsWhole
  DeltaMirrored
CHECK_DEADLOCK FALSE

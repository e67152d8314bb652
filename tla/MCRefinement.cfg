CONSTANTS
  ClusterNames <- MCClusterNames
  NodeNames <- MCNodeNames
  PodNames <- MCPodNames
  Chars <- MCChars
  Responses <- MCResponses
  Queries <- MCQueries
  MaxTime = 1
  Null = Null
  StrictMode = FALSE
SPECIFICATION Spec
INVARIANT ReadyListHasCatalog
PROPERTY ImplementsAbstractTargets


CONSTANTS
  ClusterNames <- MCClusterNames
  NodeNames <- MCNodeNames
  PodNames <- MCPodNames
  Chars <- MCChars
  TargetValues <- MCTargetValues
  SearchValues <- MCSearchValues
  MaxTargets = 2
SPECIFICATION Spec
INVARIANT EmptyClusterSelectionPassesThrough
CHECK_DEADLOCK FALSE

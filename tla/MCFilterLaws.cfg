CONSTANTS
  ClusterNames <- MCClusterNames
  NodeNames <- MCNodeNames
  PodNames <- MCPodNames
  Chars <- MCChars
  TargetValues <- MCTargetValues
  SearchValues <- MCSearchValues
  MaxTargets = 2
SPECIFICATION Spec
INVARIANT TargetFilterContract
INVARIANT FiltersCommute
CHECK_DEADLOCK FALSE

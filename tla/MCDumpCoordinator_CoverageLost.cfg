CONSTANTS
  s1 = s1
  s2 = s2
  p1 = p1
  p2 = p2
  p3 = p3
  Svcs <- MCSvcs
  PodIds <- MCPodIds
  PodLists <- MCPodLists
  Limit <- MCLimit
  MaxData <- MCMaxData
  MaxCalls <- MCMaxCalls
SPECIFICATION Spec
\* The caller's calls are bounded; after the last one only the environment
\* may still act.
CHECK_DEADLOCK FALSE
INVARIANT
  CoverageAccounted

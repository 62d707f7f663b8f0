CONSTANTS
  County_3 = County_3
  County_4 = County_4
  Region_4 = Region_4
  Region_5 = Region_5
  Files = {County_3, County_4, Region_4}
  Priority <- MCPriority3
  NoPriority = 9
  NumThreads = 1
SPECIFICATION FairSpec
PROPERTY WinnerDeclared
\* The run is about an execution that stops.
CHECK_DEADLOCK FALSE

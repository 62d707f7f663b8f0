CONSTANTS
  County_3 = County_3
  County_4 = County_4
  Region_4 = Region_4
  Region_5 = Region_5
  Files = {County_3, County_4, Region_4, Region_5}
  Priority <- MCPriority
  NoPriority = 9
  NumThreads = 2
SPECIFICATION Spec
INVARIANTS TypeOK LimitUnlessRaced StuckOnlyAfterRace
PROPERTY FilesOnceSpec
\* main ends, or waits for a signal that was lost.
CHECK_DEADLOCK FALSE

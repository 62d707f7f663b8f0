CONSTANTS
  c1 = c1
  c2 = c2
  c3 = c3
  Clients = {c1, c2, c3}
  Nobody = Nobody
  Mortal = {c3}
  Scripts <- Commands
SPECIFICATION FairSpec
INVARIANTS TypeOK RepliesInStep ExecutedOnce NoBrokenPipe OneHandler
PROPERTIES SerialSpec WellFormedServed
\* Once every client has closed its connection the server waits in accept.
CHECK_DEADLOCK FALSE

CONSTANTS
  c1 = c1
  c2 = c2
  c3 = c3
  Clients = {c1, c2}
  Nobody = Nobody
  Mortal = {}
  Scripts <- WithOtherLine
SPECIFICATION FairSpec
PROPERTY WellFormedServed
\* Once every client has closed its connection the server waits in accept.
CHECK_DEADLOCK FALSE

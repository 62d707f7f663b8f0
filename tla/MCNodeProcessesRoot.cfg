SPECIFICATION Spec
CONSTANTS
  Tokens <- MCTokens
  Numbers = {"2"}
  Comment = "#"
  WhoWon = "Who_Won"
  InputFiles <- TreeFiles
  Builds = {"kept"}
  MaxFailures = 0
INVARIANT
  RootFound
CHECK_DEADLOCK FALSE

SPECIFICATION Spec
CONSTANTS
  Tokens <- MCTokens
  Numbers = {"2"}
  Comment = "#"
  WhoWon = "Who_Won"
  InputFiles <- MCInputFiles
  Builds = {"kept", "zero", "tokens"}
  MaxFailures = 2
INVARIANTS
  TypeOK
  LoopTestExact
  RootRight
  OutputsExact
  NoVoteTwice
PROPERTY
  Ends
CHECK_DEADLOCK FALSE

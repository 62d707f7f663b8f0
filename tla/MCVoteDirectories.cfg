SPECIFICATION Spec
CONSTANTS
  Dirs <- MCDirs
  WhoWon = "Who_Won"
  Above <- MCAbove
  Names = {0, 1, 2}
  VoteFiles <- MCVoteFiles
  FirstVotes <- MCFirstVotes
  LinkSets <- MCLinkSets
  Tops = {"Who_Won", "R", "L3"}
  MaxRuns = 2
  MaxKills = 1
INVARIANTS
  TypeOK
  SumsAgree
  WinnerOfBallots
  CyclesReported
  FailedSaysNothing
PROPERTY
  RunEnds
CHECK_DEADLOCK FALSE

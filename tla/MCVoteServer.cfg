CONSTANTS
  who_won = who_won
  region_1 = region_1
  region_2 = region_2
  county_1 = county_1
  A = A
  B = B
  NoName = NoName
  NoOne = NoOne
  Undecided = Undecided
  Names <- MCNames
  NewNames = {region_2}
  MaxRegions = 4
  InitSize = 3
  InitName <- MCInitName
  InitParent <- MCInitParent
  Candidates = {A, B}
  VoteFiles <- MCVoteFiles
  MaxVotes = 2
  MaxCount = 6
SPECIFICATION Spec
VIEW WithoutReply
INVARIANTS TypeOK LeavesExact StoredSumsRight WinnerStands
PROPERTIES WinnerStable ErrorsChangeNothing NoVotesUnderClosed

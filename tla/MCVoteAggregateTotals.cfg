CONSTANTS
  Who_Won = Who_Won
  Region_1 = Region_1
  Region_2 = Region_2
  County_1 = County_1
  County_2 = County_2
  Stray = Stray
  C = C
  D = D
  Smith = Smith
  Dirs <- MCDirs
  RootDir = Who_Won
  Above <- MCAbove
  Leaves <- MCLeaves
  Candidates = {C, D, Smith}
  OneLetter = {C, D}
  BallotFiles <- MCBallotFiles
SPECIFICATION Spec
INVARIANT TotalsComplete
CHECK_DEADLOCK FALSE

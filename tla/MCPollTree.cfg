CONSTANTS
  who_won = who_won
  region_1 = region_1
  region_2 = region_2
  county_1 = county_1
  county_2 = county_2
  NoName = NoName
  Names <- MCNames
  NewNames = {county_1, county_2}
  MaxRegions = 6
  InitSize = 4
  InitName <- MCInitName
  InitParent <- MCInitParent
SPECIFICATION PollSpec
INVARIANTS PollTypeOK SubtreeAhead
PROPERTIES OneSubtree LifecycleSpec

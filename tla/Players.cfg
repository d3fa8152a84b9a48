SPECIFICATION FairSpec
CONSTANTS
  f1 = f1
  f2 = f2
  f3 = f3
  Nothing = Nothing
  Files = {f1, f2, f3}
  Lists <- FourLists
  MaxChanges = 2
  MaxErrors = 1
  MaxMoves = 1
INVARIANTS
  TypeOK
  AdvertsGoOn
PROPERTIES
  EveryFileShown
CHECK_DEADLOCK FALSE

SPECIFICATION Spec
CONSTANTS
  MaxPairs = 1
  PairTtl = 0
  PubLegs = {"pub"}
  SubLegs = {"sub"}
  Addrs <- Both
  PathChoices <- Homes
  MaxGen = 2
  MaxUfrag = 2
INVARIANTS RoutesAreExact NominationIsCurrent PairsAreVouched
CHECK_DEADLOCK FALSE
PROPERTIES SetupCompletes

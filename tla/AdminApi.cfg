SPECIFICATION AdminSpec
CONSTANTS
  UserIds = {1, 2}
INVARIANTS
  StrangersLearnNothing
  ListIsWhole
  StatusNamesTheFault

SPECIFICATION AdminSpec
CONSTANTS
  UserIds = {1}
INVARIANTS
  EveryAnswerNoStore

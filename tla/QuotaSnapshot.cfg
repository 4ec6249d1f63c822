\* One auth file and one identity of another type, each switched on and off.
CONSTANTS
  AuthFiles = {file}
  OtherIdentities = {other}
SPECIFICATION FairSpec
INVARIANTS
  NothingLeftBehind
  QuotasAreOfListed
PROPERTIES
  SnapshotEnds

\* Two requests; processes that follow one another on one database.
SPECIFICATION FairProcSpec
CONSTANTS
  Absent = Absent
  Missing = Missing
  Garbled = Garbled
  Refused = Refused
  MaxI64 = 2
  MinTokenBytes = 32
  Requests = {r1, r2}
  Inputs <- Launches
INVARIANTS
  ReadyBeforeServing
  StrongerSourcesRule
PROPERTIES
  NobodyCutOff
  CleanupFailureReported
  ShutdownEnds

\* Bodies that end before, at and behind the limit, cut in every way; paths of up
\* to three names and three slashes; ids of twice the signed width and up to three
\* addresses; six texts in the status line; two connections for five requests.
CONSTANTS
  MaxKept = 5
  MaxBody = 12
  Unknown = Unknown
  Segments = {"usage", "cpa"}
  MaxNames = 3
  MaxSlashes = 3
  None = None
  MaxI64 = 3
  MaxEmails = 3
  MaxShows = 6
  Singles = {s1, s2}
  Callbacks = {c1, c2, c3}
  MaxConnections = 2
SPECIFICATION PartsSpec
INVARIANTS
  MarkTellsOfLoss
  MadeIsRightBelow
  EmailIsBest
  OnlySuccessFades
PROPERTIES
  EveryRequestEnds

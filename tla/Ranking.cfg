\* Two users, a key without a row, and an id more than a user has: Keeper may
\* list a key twice.  On the page, every pick and some numbers.
CONSTANTS
  Users = {u1, u2}
  Outsiders = {k}
  Ids = {p1, p2, p3}
  None = None
  Nothing = Nothing
  Values <- SomeValues
SYMMETRY RankingSymmetry
SPECIFICATION RankingSpec
INVARIANTS
  UsageIsTheUsers
  EverybodyRankedOnce
  PickIsShown
  NumbersReadBack

\* Two states, three callbacks, a clock that outlives a state.
SPECIFICATION Spec
CONSTANTS
  Starts = {s1, s2}
  Callbacks = {c1, c2, c3}
  None = None
  TTL = 2
  MaxTime = 3
SYMMETRY RequestSymmetry
INVARIANTS
  StateUsedOnce
  LiveStateHonoured
PROPERTIES
  ImplementsOneTimeTokens

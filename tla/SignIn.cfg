\* Two browsers, two identities; a login, another login, a visit and a logout
\* in every order.
CONSTANTS
  Browsers = {b1, b2}
  Identities = {i1, i2}
  States = {s1, s2}
  Callbacks = {c1, c2}
  Visits = {v1}
  Logouts = {o1}
  None = None
SYMMETRY SignInSymmetry
SPECIFICATION SignOutSpec
INVARIANTS
  ShownIsConfirmed
  SessionsHaveAccounts
  LogoutEndsSession
PROPERTIES
  AccountSwitches

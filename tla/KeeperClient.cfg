\* Three calls, and a Keeper that may leave any of them without an answer.
SPECIFICATION FairSpec
CONSTANTS
  Tasks = {t1, t2, t3}
  NoSession = NoSession
INVARIANTS
  NoRedundantLogin
  OneLoginPerGeneration
PROPERTIES
  RetryUsesNewCookie
  NoLoginDuringRequest
  ImplementsSharedLogin
  CallsReturn
  HeldUpOnlyByLogins

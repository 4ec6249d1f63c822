\* Two logins of one identity: one key per user?
SPECIFICATION Spec
CONSTANTS
  Logins = {l1, l2}
  GitHubIds = {g1}
  EncryptionKey = EncryptionKey
  None = None
  MaxTime = 1
INVARIANTS OneKeyPerUser

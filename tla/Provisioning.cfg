\* Three logins of two identities.
SPECIFICATION FairProfileSpec
CONSTANTS
  Logins = {l1, l2, l3}
  GitHubIds = {g1, g2}
  EncryptionKey = EncryptionKey
  None = None
  MaxTime = 2
INVARIANTS
  StoredKeysActive
  LateLoginsAddNoKey
  CreatedBeforeLastLogin
  NewestProfileShown
PROPERTIES
  ImplementsDirectory
  LoginsEnd

CONSTANTS
  mail = mail
  Users = {u1, u2}
  Addresses = {mail}
  AddressOf <- SameAddress
  Logins = {l1, l2}
  None = none
  Threshold = 2
  LockTime = 2
  MaxTime = 3
  MaxWrong = 2
  Browsers = {b1, b2}
  Calls = {c1, c2}
  TokenTime = 1
  MaxTokens = 2
  PerBrowser = 2
  MayFail = TRUE
SYMMETRY Symmetry
SPECIFICATION MCSpec
INVARIANTS TypeOK TokensTypeOK NoEarlyLock CountsConsecutiveFailures TokensStayRevoked
PROPERTIES LockedRowsRest SessionKept SignInsRefined
CHECK_DEADLOCK FALSE

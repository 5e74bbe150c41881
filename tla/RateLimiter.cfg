CONSTANTS
  u1 = u1
  a1 = a1
  NoUser = NoUser
  Users <- OneUser
  IPs <- OneAddress
  GlobalLimit = 2
  GlobalWindow = 2
  LoginLimit = 1
  LoginWindow = 3
  LaunchLimit = 1
  LaunchWindow = 2
  MaxTime = 4
  MaxLaunching = 2
SPECIFICATION Spec
INVARIANTS
  TypeOK
  Budget
  RefusalsAreFree
  MemoryBounded

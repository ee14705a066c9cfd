CONSTANTS
  Api = {a1, a2}
  None = None
  Content = {"v1", "v2"}
  Lexical <- MCLexical
  Shipped <- MCShipped
  Wanted <- MCWanted
  RoleOf <- MCRoleOf
  Settings <- MCSettings
  Deployable <- MCDeployable
  MaxStarts = 2
  MaxEnds = 1
  MaxDeploys = 1
  MaxLogins = 2
  MaxRows = 5
  MaxSkipped = 1
  MaxExpired = 1
SPECIFICATION FairSpec
INVARIANTS
  MigratedOnce
  ServesReady
  TamperBreaksMidChain
  RowsAuthorised
PROPERTY
  StartEnds
CHECK_DEADLOCK FALSE

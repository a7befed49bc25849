SPECIFICATION Spec
CONSTANTS
  j1 = j1
  j2 = j2
  j3 = j3
  Jobs <- MCJobs3
  MaxConns = 2
  ScriptOps <- AllOps
  Reentrant = TRUE
SYMMETRY Symmetry3
INVARIANTS
  TypeOK
  JobAccounting
  HeldJobsExist
  NoCallbackLost
  ConnectionsAgree
PROPERTIES
  ImplementsService

SPECIFICATION Spec
CONSTANTS
  ClientIds = {"p", "q"}
  Posts <- MCPosts
  DependsOn <- MCDependsOn
  Users = {u1}
  None = None
  MaxRetries = 2
  MaxAge = 1
  MaxWrites = 2
  MaxTime = 1
  MaxJobs = 2
  MaxCrashes = 1
  MaxLogouts = 0
  MaxDirect = 1
  MaxUserActions = 0
  EditsBusy = FALSE
INVARIANT TypeOK
INVARIANT NoSilentDrops
INVARIANT PendingMirrorsQueue
PROPERTY ImplementsAtomicQueue

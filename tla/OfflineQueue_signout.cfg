SPECIFICATION Spec
CONSTANTS
  ClientIds = {"r"}
  Posts <- MCPosts
  DependsOn <- MCDependsOn
  Users = {u1, u2}
  None = None
  MaxRetries = 1
  MaxAge = 1
  MaxWrites = 2
  MaxTime = 0
  MaxJobs = 2
  MaxCrashes = 0
  MaxLogouts = 1
  MaxDirect = 1
  MaxUserActions = 1
  EditsBusy = TRUE
INVARIANT QueueBelongsToSession
PROPERTY LatestEntryWins
SYMMETRY Accounts

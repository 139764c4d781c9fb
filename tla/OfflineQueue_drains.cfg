SPECIFICATION FairSpec
CONSTANTS
  ClientIds = {"p", "q"}
  Posts <- MCPosts
  DependsOn <- MCDependsOn
  Users = {u1}
  None = None
  MaxRetries = 2
  MaxAge = 2
  MaxWrites = 2
  MaxTime = 0
  MaxJobs = 2
  MaxCrashes = 0
  MaxLogouts = 0
  MaxDirect = 0
  MaxUserActions = 1
  EditsBusy = FALSE
PROPERTY QueueDrains

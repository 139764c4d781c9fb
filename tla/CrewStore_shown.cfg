SPECIFICATION Spec
CONSTANTS
  Crews = {"a", "b"}
  Fresh = "new"
  Kinds = {"polls", "points", "packing", "expenses", "statuses", "roster"}
  Ops = {"select", "createCrew", "reformCrew", "leaveCrew", "deleteCrew", "forceAddMember", "load", "create", "delete", "loadStatuses", "updateMyStatus", "others", "revoke", "signOut"}
  Alone = {"forceAddMember", "signOut"}
  MaxItems = 1
  MaxLost = 1
  MaxRequests = 3
  MaxEvents = 1
  MaxVersion = 2
  None = None
INVARIANT TypeOK
INVARIANT LastSelectWins
INVARIANT RosterMatchesCrew
INVARIANT OfflineCreatedOnce
PROPERTY OthersNeverRegress
CHECK_DEADLOCK FALSE

SPECIFICATION Spec
CONSTANTS
  Emails = {"old", "new"}
  Home = "old"
  None = None
  MaxSessions = 1
  MaxRequests = 4
  MaxInflight = 2
  Situations <- MC_Situations
INVARIANT TypeOK
INVARIANT SessionOverflowIsBounded
INVARIANT StaleAreRaced
INVARIANT ChangeLinksAreCut
CHECK_DEADLOCK FALSE

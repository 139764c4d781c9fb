SPECIFICATION Spec
CONSTANTS
  ua = ua  ub = ub  uc = uc  f1 = f1  f2 = f2
  Users = {ua, ub, uc}
  Festivals = {f1, f2}
  Home = f1
  Scenarios <- MC_Scenarios
  MaxChoices = {2}
  NewMax = 3
  MaxCrews = 3
  MaxRequests = 3
  None = None
INVARIANTS TypeOK OneOwner ReformIsIdempotent
PROPERTIES CapHolds MembersHaveJoined ReformFindsExisting
CHECK_DEADLOCK FALSE

SPECIFICATION Spec
CONSTANTS
  None = None
  u1 = u1  u2 = u2  c1 = c1  c2 = c2  s1 = s1  s2 = s2  t1 = t1  t2 = t2
  Users = {u1, u2}
  Crews = {c1, c2}
  Festivals = {"f1"}
  Sockets = {s1, s2}
  Slots = {t1, t2}
  Owner <- MC_Owner
  Roster <- MC_Roster
  Leaders <- MC_Leaders
  Scenarios <- MC_Scenarios
  Cap = 1
SYMMETRY Symmetry
INVARIANTS TypeOK StreamIsCut RoomIsListed RemovedLeaveRoom GateMatchesRoom
CHECK_DEADLOCK FALSE

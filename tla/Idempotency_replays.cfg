SPECIFICATION FairSpec
CONSTANTS
  Requests = {1, 2, 3}
  IpOf <- MCIpOf
  Keyings <- MCKeyings
  None = None
  MaxEntries = 1
INVARIANT TypeOK
INVARIANT ExecutedOnce
INVARIANT NoOrphanReservation
PROPERTY WaitersAreReleased
CHECK_DEADLOCK FALSE

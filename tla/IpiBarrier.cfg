SPECIFICATION FairSpec
CONSTANTS
  NrCores = 4
  SelSpan = 4
  MaxHarts = 6
  NonSmpHart = 0
INVARIANT NonePending
PROPERTIES ImplementsRendezvous AllLeave
CHECK_DEADLOCK FALSE

SPECIFICATION BootFairSpec
CONSTANTS
  MaxHarts = 4
  NonSmpHart = 2
  Capacity = 6
  LbaMod = 8
  Block <- MCBlock
  Disks <- MCDisks
  NoBlock <- MCNoBlock
INVARIANT StartedLoaded
PROPERTIES ImplementsRendezvous AllStart
CHECK_DEADLOCK FALSE

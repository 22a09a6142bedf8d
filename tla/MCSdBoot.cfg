SPECIFICATION FairSpec
CONSTANTS
  Disks <- MCDisks
  MaxTries = 3
  LbaMod = 8
  Damaged <- MCDamaged
INVARIANTS LoadedImage HostInv
PROPERTIES BootEnds GoodCardBoots
CHECK_DEADLOCK FALSE

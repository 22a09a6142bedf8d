SPECIFICATION FairIoSpec
CONSTANTS
  FifoDepth = 3
  Lens = {1, 3, 4}
  MaxBytes = 8
  Freq = 50000000
  Baud = 9600
  Values = {0, 7, 40, 305}
  Sizes = {1, 250, 1020}
  Period = 100
  Word = 1000000
  Words <- MCWords
  Status <- MCStatus
INVARIANTS PortInv DivisorKept PrintsNumeral ScreenShows
PROPERTIES CallsReturn PrintsEnd
CHECK_DEADLOCK FALSE

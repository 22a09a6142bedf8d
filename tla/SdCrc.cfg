SPECIFICATION CrcSpec
CONSTANTS
  Bytes = {{}, {0}, {3}, {7}, {7, 5, 2, 0}, {7, 6, 5, 4, 3, 2, 1, 0}}
  MaxFree = 3
  BlockLen = 512
INVARIANTS Crc16IsRemainder DamageShows OnesShow
CHECK_DEADLOCK FALSE

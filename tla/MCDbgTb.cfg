SPECIFICATION DbgSpec
CONSTANTS
  HeapSize = 8
  Incrs <- MCIncrs
  Texts <- MCTexts
  Complaint <- MCComplaint
  MaxCalls = 4
  MaxT = 55
INVARIANTS HeapApart
PROPERTIES ResetOffEdge
CHECK_DEADLOCK FALSE

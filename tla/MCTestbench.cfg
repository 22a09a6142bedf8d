SPECIFICATION FairTb
CONSTANTS
  Base <- MCBase
  Size = 12
  Span = 24
  RowBytes = 2
  Programs <- MCPrograms
  Lines <- MCLines
  Codes = {0, 1, 2}
  ResetCycles = 10
  SvResetEdges = 8
  TimeOut = 7
  MaxTime = 13
INVARIANTS ImageLoaded Verdict RunsBinary HtifArgs
PROPERTIES TraceOrdered Stops
CHECK_DEADLOCK FALSE

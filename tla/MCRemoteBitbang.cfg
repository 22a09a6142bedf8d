SPECIFICATION FairSpec
CONSTANTS
  TICK_DELAY = 1
  EofReturns = TRUE
  MaxCmds = 2
  MaxReplies = 2
  Cmds <- MCCmds
  Tap <- MCTap
  Edge <- MCEdge
  Tdo <- MCTdo
INVARIANT SettledInv
PROPERTIES ImplementsWire CommandsExecuted QuitEnds
CHECK_DEADLOCK FALSE

SPECIFICATION CliSpec
CONSTANTS
  Worker = {w1, w2}
  Main = main
  Item = {f1, f2}
  None = None
INVARIANTS
  CliInv
  OutputNotInterleaved
  ExitStatusTellsMatch
PROPERTIES
  ImplementsService

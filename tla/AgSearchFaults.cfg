SPECIFICATION FaultSpec
CONSTANTS
  Worker = {w1, w2}
  Main = main
  Item = {f1, f2}
  None = None
  Behaviors = {"start", "onsearch"}
INVARIANTS
  FaultInv
  
PROPERTIES
  SearchReturns

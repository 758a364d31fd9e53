SPECIFICATION Spec
CONSTANTS
  Worker = {w1, w2}
  Main = main
  Item = {f1, f2}
  None = None
  Behaviors = {"start", "onsearch"}
INVARIANTS
  WorkersParked
  Quiescent
  MatchNeitherLostNorDoubled
PROPERTIES
  FlagsChangeUnseen
  ImplementsService
  StopReturns

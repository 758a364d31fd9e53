SPECIFICATION Spec
CONSTANTS
  NULL = NULL
  Discipline <- Clients
INVARIANTS
  
  
  StatsOfLatestSearch
  PlainClientMemorySafe

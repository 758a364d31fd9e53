SPECIFICATION Spec
CONSTANTS
  NULL = NULL
  Discipline <- OnlyOnsearch
INVARIANTS
  MemorySafe

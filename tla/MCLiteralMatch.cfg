SPECIFICATION Spec
CONSTANTS
  Char <- Chars
  Queries <- ShortQueries
  Buffers <- ShortBuffers
  MaxSearches = 1
  Builds = {TRUE, FALSE}
  H_SIZE = 65536
  max_matches_per_file = 4
INVARIANTS
  LeftmostMatches
PROPERTIES
  OffsetAdvances
CHECK_DEADLOCK FALSE

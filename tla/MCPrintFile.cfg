\* The loops over a buffer, the inversion of matches, and the output.
CONSTANTS
  MaxLength = 5
  max_matches_per_file = 3
  Formats <- MCFormats
  INT_MAX = 12
SPECIFICATION PrintSpec
INVARIANT ReportsTheLines
INVARIANT PrintTypeOK
INVARIANT PrintsTheLines
INVARIANT SeparatesGroups
PROPERTY SearchBufEnds
\* The buffer has been searched.
CHECK_DEADLOCK FALSE

\* A walk two directories deep, with up to three lines in the ignore files.
CONSTANTS
  Name <- MCName
  Kind <- MCKind
  Hidden <- MCHidden
  Extension <- MCExtension
  Glob <- MCGlob
  Suffix <- MCSuffix
  fnmatch <- MCfnmatch
  Rank <- MCRank
  Lines <- MCLines
  Options <- MCOptions
  MaxLines = 3
  MaxDepth = 2
SPECIFICATION Spec
INVARIANT TypeOK
INVARIANT EmptyTablesSkipped
 

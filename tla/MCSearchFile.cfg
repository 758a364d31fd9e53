\* One file of every kind, and another thread with files of its own.
CONSTANTS
  InSize = 2
  OutSize = 2
  ReadSize = 3
  Descriptor = {3, 4}
  FirstRead = 2
  MaxPlain = 3
  IntMax = 2
  Compressed <- MCCompressed
  Options <- MCOptions
SPECIFICATION Spec
INVARIANT FileInv
INVARIANT ContentInOrder
INVARIANT NothingMissed
INVARIANT BuffersSuffice
INVARIANT DescriptorsKept
PROPERTY SearchFileEnds
\* The search is over.
CHECK_DEADLOCK FALSE

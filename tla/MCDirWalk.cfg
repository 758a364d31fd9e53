\* The walk over trees with links, unreadable and ignored directories.
CONSTANTS
  r = r  a = a  b = b  f = f  g = g  h = h  x = x  y = y
  disk = disk  usb = usb
  Missing = Missing  Fifo = Fifo
  Dir <- Dirs
  File <- Files
  Name <- Names
  Dev <- Devs
  FileSystems <- MCFileSystems
  Options <- MCOptions
  Arguments <- MCArguments
SPECIFICATION Spec
INVARIANT WalkInv
INVARIANT SymhashIsStack
 
PROPERTY WalkEnds
\* The walk is over.
CHECK_DEADLOCK FALSE

CONSTANTS
  SrcPath <- MCSrcPath
  DestPath <- MCDestPath
  MaxEntries <- MCMaxEntries
  HeaderNames <- AllNames
SPECIFICATION Spec
\* unTarAll returns after its last entry.
CHECK_DEADLOCK FALSE
INVARIANT
  UnderDestPath

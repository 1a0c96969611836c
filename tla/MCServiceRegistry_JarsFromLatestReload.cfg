CONSTANTS
  n1 = n1
  i1 = i1
  i2 = i2
  NoPod = NoPod
  Names <- MCNames
  Images <- MCImages
  MaxObjs <- MCMaxObjs
  MaxReloads <- MCMaxReloads
SPECIFICATION Spec
CHECK_DEADLOCK FALSE
INVARIANT
  JarsFromLatestReload

CONSTANTS
  n1 = n1
  i1 = i1
  i2 = i2
  NoPod = NoPod
  Names <- MCNames
  Images <- MCImages
  MaxObjs <- MCMaxObjs
  MaxReloads <- MCMaxReloads
SPECIFICATION Spec
\* Once the object and reload bounds are used up the registry only
\* receives events that change nothing; a crash ends the process.
CHECK_DEADLOCK FALSE
PROPERTY
  EventuallyLoaded

\* Operator: once edits and API failures stop, does the reconcile loop bring
\* the Agent and its StatefulSet into step?
CONSTANTS
  a0 = a0
  a = a
  b = b
  c = c
  NoAnn = NoAnn
  NoSts = NoSts
  Specs <- MCSpecs
  FillDefault <- MCFillDefault
  Storage <- MCSameStorage
  MaxEdits = 2
  MaxFailures = 1
  MaxStsDeletes = 1
SPECIFICATION Spec
PROPERTIES
  Converges
CHECK_DEADLOCK FALSE

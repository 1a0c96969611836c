\* Operator: does the annotation still stand for the deployed StatefulSet
\* when Reconcile skips UpdateResource?
CONSTANTS
  a0 = a0
  a = a
  b = b
  c = c
  NoAnn = NoAnn
  NoSts = NoSts
  Specs <- MCSpecs
  FillDefault <- MCFillDefault
  Storage <- MCSameStorage
  MaxEdits = 2
  MaxFailures = 1
  MaxStsDeletes = 1
SPECIFICATION Spec
INVARIANTS
  SkipMeansApplied
CHECK_DEADLOCK FALSE

\* Operator with a storage change, user edits, API failures and a deleted
\* StatefulSet: the annotation only records deployed specs.
CONSTANTS
  a0 = a0
  a = a
  b = b
  c = c
  NoAnn = NoAnn
  NoSts = NoSts
  Specs <- MCSpecs
  FillDefault <- MCFillDefault
  Storage <- MCStorage
  MaxEdits = 2
  MaxFailures = 1
  MaxStsDeletes = 1
SPECIFICATION Spec
INVARIANTS
  TypeOK
  AnnotationApplied
CHECK_DEADLOCK FALSE

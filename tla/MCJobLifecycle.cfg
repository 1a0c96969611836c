CONSTANTS
  NPlans <- TwoNPlans
  MaxJobs <- TwoMaxJobs
  MaxFailures <- TwoMaxFailures
  MergeEvery <- TwoMergeEvery
SPECIFICATION Spec
\* The plan bound ends the coordinator's activity; the agent then only
\* sleeps in its poll loops, which the model leaves out.
CHECK_DEADLOCK FALSE
INVARIANTS
  TypeOK
  

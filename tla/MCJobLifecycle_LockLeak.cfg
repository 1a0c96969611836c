CONSTANTS
  NPlans <- OneNPlans
  MaxJobs <- OneMaxJobs
  MaxFailures <- OneMaxFailures
  MergeEvery <- OneMergeEvery
SPECIFICATION Spec
\* The plan bound ends the coordinator's activity; the agent then only
\* sleeps in its poll loops, which the model leaves out.
CHECK_DEADLOCK FALSE
INVARIANT
  DumpLockReleased

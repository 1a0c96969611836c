--------------------------- MODULE MCJobLifecycle ---------------------------
(* Model-checking instances of JobLifecycle.                               *)
(*                                                                         *)
(* Two plans (the "Two" constants): each plan gets one job object, so the  *)
(* runs see a job of an old plan still live while the next plan's job is   *)
(* created.  The merge period of job.go (every 10th iteration) is cut to  *)
(* 1: the iterations in between are identical dumpExec calls.             *)
(*                                                                         *)
(* One plan (the "One" constants): the plan's job may be failed, deleted   *)
(* after the grace period and re-created by a later poll, once per failed  *)
(* callback the budget allows; the merge period is 2 so that the loop      *)
(* alternates between dump-only and dump-then-merge ticks.                 *)
EXTENDS JobLifecycle

TwoNPlans      == 2
TwoMaxFailures == 0
TwoMaxJobs     == TwoNPlans
TwoMergeEvery  == 1

OneNPlans      == 1
OneMaxFailures == 2
OneMaxJobs     == OneNPlans + OneMaxFailures
OneMergeEvery  == 2
=============================================================================

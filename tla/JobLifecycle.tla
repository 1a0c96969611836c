---------------------------- MODULE JobLifecycle ----------------------------
(***************************************************************************)
(* The per-plan job lifecycle of the sourcecov agent (agent/core/job.go    *)
(* and the callbacks of agent/core/callback.go).                           *)
(*                                                                         *)
(* WatchJob polls the coordinator; saveJob stores a DetectionJob per plan  *)
(* id in RunJobs, cancelling every stored job when it creates a new one,   *)
(* and starts schedulingJob, which runs two goroutines per job object:     *)
(*   main   bootstrap (mkdir, loadClassSources), initial dumpExec,         *)
(*          callbackReady, then a loop of dumpExec / mergeAllSvcExec;      *)
(*   watch  the watchdog: cleanup after cancellation, cancellation on a    *)
(*          terminal status, report() while the status is Ending.          *)
(* Goroutines name their job by plan id and look it up with GetJob at each *)
(* step, so a goroutine of one DetectionJob object may act on a later      *)
(* object stored under the same plan id.  Objects are therefore modelled   *)
(* by identity (1..MaxJobs), RunJobs as a map from plan id to object.      *)
(*                                                                         *)
(* A dumpExec or mergeAllSvcExec call is one step, taken when the job's    *)
(* DumpLock is free (it takes and releases the lock around work on the     *)
(* services, which this module abstracts).  The                          *)
(* external processes (java, extract-jar.sh, tar) succeed or fail          *)
(* nondeterministically.  The                                              *)
(* coordinator is the environment: it starts plans, the user ends or       *)
(* cancels them, and it reacts to the callbacks it receives.               *)
(***************************************************************************)
EXTENDS Naturals, FiniteSets, Functions

CONSTANTS
  NPlans,       \* plan ids the coordinator hands out: 1..NPlans
  MaxJobs,      \* bound on the DetectionJob objects saveJob allocates
  MaxFailures,  \* bound on callbacks that fail (lost request or lost reply)
  MergeEvery    \* schedulingJob merges when loopTimes > MergeEvery (10 in job.go)

ASSUME /\ NPlans \in Nat \ {0}
       /\ MaxJobs \in Nat \ {0}
       /\ MaxFailures \in Nat
       /\ MergeEvery \in Nat \ {0}

Plans    == 1 .. NPlans
Objs     == 1 .. MaxJobs
NoJob    == 0
\* Only report()'s watchdog ever holds a DumpLock between steps.
NoThread == 0

\* CodeCoverageExecStatus (status.go); "none" stands for a plan not yet started.
Terminal   == {"cancel", "success", "fail"}
ExecStatus == {"running", "ready", "ending"} \cup Terminal
\* DetectionJob.JobStatus; "" is Go's zero value, left when saveJob sees
\* a status other than running/ready.
Phase == {"", "running", "ready", "fail"}

\* Callbacks: ready, end(success), end(fail), report.
NoteKinds == {"ready", "endSuccess", "endFail", "report"}
\* Outcome of one HTTP callback: delivered, lost before the coordinator saw
\* it (upload or connection error), or delivered with the reply lost.
Outcomes == {"ok", "lost", "late"}

MainPcs  == {"idle", "boot", "load", "loadFailed", "dump1", "ready", "reget",
             "reset", "readyFailed", "endSet", "endCb", "loop", "tick",
             "merge", "done"}
WatchPcs == {"idle", "poll", "grace", "rDump", "rMerge", "rLock", "rXml",
             "rHtml", "rFailed", "eSet", "eCb", "done"}

VARIABLES
  coordPlan,    \* the plan the coordinator's status endpoint reports (0: none)
  coordStatus,  \* the coordinator's status of each plan
  runJobs,      \* RunJobs: plan id -> DetectionJob object (NoJob: absent)
  job,          \* the DetectionJob objects: plan, Status, JobStatus, ctx cancelled
  nJobs,        \* objects allocated so far
  lock,         \* DumpLock of each object held past a step: the object whose watchdog holds it
  mainPc, watchPc,
  loopTimes,    \* schedulingJob's loopTimes
  capJob,       \* schedulingJob's job variable after line 158 (whose ctx the loop waits on)
  repJob,       \* report()'s job variable (whose DumpLock it takes at line 193)
  svcExecs,     \* report(): mergeAllSvcExec ran on a stored job
  endJob,       \* callbackEndWithMessage's job variable, per goroutine of each object
  pollJob,      \* saveJob's job variable on the update path (NoJob: no poll under way)
  pollSt,       \* the status of the detail that poll fetched
  failures      \* callbacks failed so far

coordVars == <<coordPlan, coordStatus>>
regVars   == <<runJobs, job, nJobs>>
pollVars  == <<pollJob, pollSt>>
locals    == <<loopTimes, capJob, repJob, svcExecs, endJob, pollJob, pollSt>>
vars == <<coordPlan, coordStatus, runJobs, job, nJobs, lock, mainPc,
          watchPc, loopTimes, capJob, repJob, svcExecs, endJob, pollJob,
          pollSt, failures>>

JobRec == [plan : Plans \cup {0}, status : ExecStatus \cup {"none"},
           jobStatus : Phase, cancelled : BOOLEAN]

PlanOf(i) == job[i].plan
\* GetJob(planID) as a goroutine of object i sees it.
Cur(i) == runJobs[PlanOf(i)]

-----------------------------------------------------------------------------
(* The coordinator (environment, from the API contract).                  *)

\* How the coordinator reacts to a callback it receives.
Receive(p, kind) ==
  CASE kind = "ready" /\ coordStatus[p] = "running"
         -> [coordStatus EXCEPT ![p] = "ready"]
    [] kind = "endSuccess" /\ coordStatus[p] \notin Terminal
         -> [coordStatus EXCEPT ![p] = "success"]
    [] kind = "endFail" /\ coordStatus[p] \notin Terminal
         -> [coordStatus EXCEPT ![p] = "fail"]
    [] OTHER -> coordStatus

\* The user starts the next plan once the current one is over.
CoordStart ==
  /\ coordPlan < NPlans
  /\ IF coordPlan = 0 THEN TRUE ELSE coordStatus[coordPlan] \in Terminal
  /\ coordPlan' = coordPlan + 1
  /\ coordStatus' = [coordStatus EXCEPT ![coordPlan + 1] = "running"]
  /\ UNCHANGED <<regVars, lock, mainPc, watchPc, locals, failures>>

\* The user ends a ready plan (asks for the report) or cancels a live one.
CoordUser ==
  /\ coordPlan # 0
  /\ \/ coordStatus[coordPlan] = "ready"
        /\ coordStatus' = [coordStatus EXCEPT ![coordPlan] = "ending"]
     \/ coordStatus[coordPlan] \in {"running", "ready", "ending"}
        /\ coordStatus' = [coordStatus EXCEPT ![coordPlan] = "cancel"]
  /\ UNCHANGED <<coordPlan, regVars, lock, mainPc, watchPc, locals,
                 failures>>

-----------------------------------------------------------------------------
(* Helpers of the agent.                                                   *)

\* callbackReady / callbackEnd / callbackReport: one POST with outcome o.
\* retry.RetryOnConflict retries only Kubernetes conflict errors, so each
\* call is a single attempt.
Callback(p, kind, o) ==
  /\ IF o = "ok" THEN UNCHANGED failures
     ELSE failures < MaxFailures /\ failures' = failures + 1
  /\ IF o = "lost" THEN UNCHANGED coordStatus
     ELSE coordStatus' = Receive(p, kind)

\* A dumpExec or mergeAllSvcExec call for plan p: GetJob returns at once
\* when the plan has no job; otherwise it blocks until the job's DumpLock
\* is free, works under it and releases it (defer Unlock).
LockedCall(p) ==
  LET j == runJobs[p] IN IF j = NoJob THEN TRUE ELSE lock[j] = NoThread

\* callbackEndWithMessage (callback.go), run by goroutine t of object i, in
\* three steps: GetJob (returning when the plan has no job); the writes
\* Status = Fail, JobStatus = Fail, cancelFunc() on that object and
\* SetJob(planID, job); the end(fail) POST.
EndGetJob(i, t) == endJob' = [endJob EXCEPT ![i][t] = Cur(i)]

EndSetJob(i, t) ==
  LET j == endJob[i][t] IN
  /\ job' = [job EXCEPT ![j].status = "fail", ![j].jobStatus = "fail",
                        ![j].cancelled = TRUE]
  /\ runJobs' = [runJobs EXCEPT ![PlanOf(j)] = j]
  /\ endJob' = [endJob EXCEPT ![i][t] = NoJob]

EndCallback(i) == \E o \in Outcomes : Callback(PlanOf(i), "endFail", o)

-----------------------------------------------------------------------------
(* WatchJob + saveJob: one poll of the coordinator's status endpoint.      *)

\* Lines 568 and 616: the detail of the coordinator's plan is fetched and
\* GetJob finds a job stored under its id; saveJob keeps the pointer.  Every
\* poll takes this path while the job is stored, whatever its status.
PollGetJob ==
  LET p == coordPlan IN
  /\ p # 0
  /\ pollJob = NoJob
  /\ runJobs[p] # NoJob
  /\ pollJob' = runJobs[p]
  /\ pollSt' = coordStatus[p]
  /\ UNCHANGED <<coordVars, regVars, lock, mainPc, watchPc, loopTimes, capJob,
                 repJob, svcExecs, endJob, failures>>

\* Lines 616-617: job.Status = detail.Status on the object read, then
\* SetJob(detail.PlanID, job), which stores it under its plan id again.
SaveJobUpdate ==
  LET j == pollJob IN
  /\ j # NoJob
  /\ job' = [job EXCEPT ![j].status = pollSt]
  /\ runJobs' = [runJobs EXCEPT ![PlanOf(j)] = j]
  /\ pollJob' = NoJob
  /\ pollSt' = "none"
  /\ UNCHANGED <<coordVars, nJobs, lock, mainPc, watchPc, loopTimes, capJob,
                 repJob, svcExecs, endJob, failures>>

\* The cancellation loop over RunJobs that precedes the new job.
CancelAll(j) == IF j \in Range(runJobs) THEN [job[j] EXCEPT !.cancelled = TRUE]
                ELSE job[j]

SaveJobCreate ==
  LET p == coordPlan
      i == nJobs + 1
      st == coordStatus[p]
  IN
  /\ p # 0
  /\ pollJob = NoJob
  /\ runJobs[p] = NoJob
  /\ nJobs < MaxJobs
  /\ job' = [j \in Objs |->
               IF j = i
               THEN [plan |-> p, status |-> st, cancelled |-> FALSE,
                     jobStatus |-> IF st \in {"running", "ready"}
                                   THEN "running" ELSE ""]
               ELSE CancelAll(j)]
  /\ runJobs' = [runJobs EXCEPT ![p] = i]
  /\ nJobs' = i
  /\ mainPc' = [mainPc EXCEPT ![i] = "boot"]
  /\ watchPc' = [watchPc EXCEPT ![i] = "poll"]
  /\ UNCHANGED <<coordVars, lock, locals, failures>>

\* Writing settings.xml fails after the stored jobs were cancelled: saveJob
\* returns without storing a job.
SaveJobSettingsFail ==
  LET p == coordPlan IN
  /\ p # 0
  /\ pollJob = NoJob
  /\ runJobs[p] = NoJob
  /\ job' = [j \in Objs |-> CancelAll(j)]
  /\ UNCHANGED <<coordVars, runJobs, nJobs, lock, mainPc, watchPc, locals,
                 failures>>

-----------------------------------------------------------------------------
(* schedulingJob, main goroutine of object i.                              *)

SetMain(i, pc) == mainPc' = [mainPc EXCEPT ![i] = pc]

mainOnly == <<coordVars, regVars, lock, watchPc, locals, failures>>

\* GetJob; return unless JobStatus is running; os.Mkdir of the plan
\* directory, whose failure also returns silently.
MainBoot(i) ==
  /\ mainPc[i] = "boot"
  /\ LET j == Cur(i) IN
     IF j = NoJob \/ job[j].jobStatus # "running"
     THEN SetMain(i, "done")
     ELSE \E mkdirOk \in BOOLEAN : SetMain(i, IF mkdirOk THEN "load" ELSE "done")
  /\ UNCHANGED mainOnly

\* loadClassSources: extract-jar.sh over the jars of all services.  With no
\* jar it returns an error; when the script fails it first sends end(fail).
MainLoad(i) ==
  /\ mainPc[i] = "load"
  /\ \/ SetMain(i, "dump1") /\ UNCHANGED <<coordStatus, failures>>
     \/ SetMain(i, "loadFailed") /\ UNCHANGED <<coordStatus, failures>>
     \/ /\ SetMain(i, "loadFailed")
        /\ \E o \in Outcomes : Callback(PlanOf(i), "endFail", o)
  /\ UNCHANGED <<coordPlan, regVars, lock, watchPc, locals>>

\* callbackEndWithMessage after loadClassSources or callbackReady failed.
MainFail(i) ==
  /\ mainPc[i] \in {"loadFailed", "readyFailed"}
  /\ EndGetJob(i, "main")
  /\ SetMain(i, IF Cur(i) = NoJob THEN "done" ELSE "endSet")
  /\ UNCHANGED <<coordVars, regVars, lock, watchPc, loopTimes, capJob, repJob,
                 svcExecs, pollVars, failures>>

MainEndSet(i) ==
  /\ mainPc[i] = "endSet"
  /\ EndSetJob(i, "main")
  /\ SetMain(i, "endCb")
  /\ UNCHANGED <<coordVars, nJobs, lock, watchPc, loopTimes, capJob, repJob,
                 svcExecs, pollVars, failures>>

MainEndCallback(i) ==
  /\ mainPc[i] = "endCb"
  /\ EndCallback(i)
  /\ SetMain(i, "done")
  /\ UNCHANGED <<coordPlan, regVars, lock, watchPc, locals>>

\* The initial dumpExec.
MainDump1(i) ==
  /\ mainPc[i] = "dump1"
  /\ LockedCall(PlanOf(i))
  /\ SetMain(i, "ready")
  /\ UNCHANGED mainOnly

\* callbackReady: nil without a POST when the job is absent or its Status
\* is already ready; otherwise a POST whose error fails the run.
MainReady(i) ==
  /\ mainPc[i] = "ready"
  /\ LET j == Cur(i) IN
     \/ /\ IF j = NoJob THEN TRUE ELSE job[j].status = "ready"
        /\ SetMain(i, "reget")
        /\ UNCHANGED <<coordStatus, failures>>
     \/ /\ j # NoJob /\ job[j].status # "ready"
        /\ \E o \in Outcomes :
             /\ Callback(PlanOf(i), "ready", o)
             /\ SetMain(i, IF o = "ok" THEN "reget" ELSE "readyFailed")
  /\ UNCHANGED <<coordPlan, regVars, lock, watchPc, locals>>

\* Lines 158-161: GetJob again; return when the plan has no job, else keep
\* that object in the loop's job variable.
MainReadyGetJob(i) ==
  /\ mainPc[i] = "reget"
  /\ IF Cur(i) = NoJob THEN SetMain(i, "done") ELSE SetMain(i, "reset")
  /\ capJob' = [capJob EXCEPT ![i] = Cur(i)]
  /\ UNCHANGED <<coordVars, regVars, lock, watchPc, loopTimes, repJob,
                 svcExecs, endJob, pollVars, failures>>

\* Lines 162-163: job.JobStatus = Ready on the kept object, SetJob(planID, job).
MainReadySetJob(i) ==
  LET j == capJob[i] IN
  /\ mainPc[i] = "reset"
  /\ job' = [job EXCEPT ![j].jobStatus = "ready"]
  /\ runJobs' = [runJobs EXCEPT ![PlanOf(i)] = j]
  /\ SetMain(i, "loop")
  /\ UNCHANGED <<coordVars, nJobs, lock, watchPc, locals, failures>>

\* The loop's select on ctx.Done of the kept job and a fresh 5-minute
\* timer: once the context is cancelled the timer cannot win any more, so
\* a tick happens only while the job is live.
MainLoopExit(i) ==
  /\ mainPc[i] = "loop"
  /\ job[capJob[i]].cancelled
  /\ SetMain(i, "done")
  /\ loopTimes' = [loopTimes EXCEPT ![i] = 1]
  /\ capJob' = [capJob EXCEPT ![i] = NoJob]
  /\ UNCHANGED <<coordVars, regVars, lock, watchPc, repJob, svcExecs, endJob, pollVars,
                 failures>>

MainTick(i) ==
  /\ mainPc[i] = "loop"
  /\ ~job[capJob[i]].cancelled
  /\ SetMain(i, "tick")
  /\ UNCHANGED mainOnly

\* The tick's dumpExec, loopTimes++, and a full merge when it exceeds 10.
MainTickDump(i) ==
  /\ mainPc[i] = "tick"
  /\ LockedCall(PlanOf(i))
  /\ loopTimes' = [loopTimes EXCEPT ![i] = @ + 1]
  /\ SetMain(i, IF loopTimes[i] + 1 > MergeEvery THEN "merge" ELSE "loop")
  /\ UNCHANGED <<coordVars, regVars, lock, watchPc, capJob, repJob, svcExecs,
                 endJob, pollVars, failures>>

\* Variant without the reset of loopTimes after the merge.
MainMergeNoReset(i) ==
  /\ mainPc[i] = "merge"
  /\ LockedCall(PlanOf(i))
  /\ SetMain(i, "loop")
  /\ UNCHANGED <<coordVars, regVars, lock, watchPc, locals, failures>>

\* mergeAllSvcExec, then loopTimes = 1.
MainMerge(i) ==
  /\ mainPc[i] = "merge"
  /\ LockedCall(PlanOf(i))
  /\ SetMain(i, "loop")
  /\ loopTimes' = [loopTimes EXCEPT ![i] = 1]
  /\ UNCHANGED <<coordVars, regVars, lock, watchPc, capJob, repJob, svcExecs,
                 endJob, pollVars, failures>>

-----------------------------------------------------------------------------
(* schedulingJob, watchdog goroutine of object i, and report().            *)

SetWatch(i, pc) == watchPc' = [watchPc EXCEPT ![i] = pc]

\* One iteration: GetJob (return if absent); ctx.Done -> wait and clean up;
\* a terminal Status -> cancelFunc and return; Ending -> report().  Any
\* other Status only sleeps 30s, which changes nothing.
WatchPoll(i) ==
  /\ watchPc[i] = "poll"
  /\ LET j == Cur(i) IN
     \/ /\ j = NoJob
        /\ SetWatch(i, "done")
        /\ UNCHANGED <<job, repJob>>
     \/ /\ j # NoJob /\ job[j].cancelled
        /\ SetWatch(i, "grace")
        /\ UNCHANGED <<job, repJob>>
     \/ /\ j # NoJob /\ ~job[j].cancelled /\ job[j].status \in Terminal
        /\ job' = [job EXCEPT ![j].cancelled = TRUE]
        /\ SetWatch(i, "done")
        /\ UNCHANGED repJob
     \/ /\ j # NoJob /\ ~job[j].cancelled /\ job[j].status = "ending"
        /\ repJob' = [repJob EXCEPT ![i] = j]
        /\ SetWatch(i, "rDump")
        /\ UNCHANGED job
  /\ UNCHANGED <<coordVars, runJobs, nJobs, lock, mainPc, loopTimes, capJob,
                 svcExecs, endJob, pollVars, failures>>

\* After the 5-minute grace: rm -rf the plan directory, DeleteJob(planID).
WatchGrace(i) ==
  /\ watchPc[i] = "grace"
  /\ runJobs' = [runJobs EXCEPT ![PlanOf(i)] = NoJob]
  /\ SetWatch(i, "done")
  /\ UNCHANGED <<coordVars, job, nJobs, lock, mainPc, locals, failures>>

\* report(): dumpExec, then mergeAllSvcExec.
ReportDump(i) ==
  /\ watchPc[i] = "rDump"
  /\ LockedCall(PlanOf(i))
  /\ SetWatch(i, "rMerge")
  /\ UNCHANGED <<coordVars, regVars, lock, mainPc, locals, failures>>

\* mergeAllSvcExec returns nil when the plan has no job.
ReportMerge(i) ==
  /\ watchPc[i] = "rMerge"
  /\ LockedCall(PlanOf(i))
  /\ svcExecs' = [svcExecs EXCEPT ![i] = Cur(i) # NoJob]
  /\ SetWatch(i, "rLock")
  /\ UNCHANGED <<coordVars, regVars, lock, mainPc, loopTimes, capJob, repJob,
                 endJob, pollVars, failures>>

\* Lines 193-211: job.DumpLock.Lock(); an empty merged map (no job, no live
\* service with a readable dump directory, or the job cancelled before a
\* service was visited), a failed CreateTemp or a failed project merge
\* returns the error before the Unlock.
ReportProjectMerge(i) ==
  /\ watchPc[i] = "rLock"
  /\ lock[repJob[i]] = NoThread
  /\ \E mergeOk \in BOOLEAN :
       IF svcExecs[i] /\ mergeOk
       THEN SetWatch(i, "rXml") /\ UNCHANGED lock
       ELSE /\ lock' = [lock EXCEPT ![repJob[i]] = i]
            /\ SetWatch(i, "rFailed")
  /\ UNCHANGED <<coordVars, regVars, mainPc, locals, failures>>

\* An external process (java report, tar) and then a callback: callbackEnd
\* (success) with the uploaded xml tarball, or callbackReport with the html
\* one.  The process touches no shared state and shares the callback's step.
ReportCallback(i, from, kind, to) ==
  /\ watchPc[i] = from
  /\ \/ /\ SetWatch(i, "rFailed")
        /\ UNCHANGED <<coordStatus, failures>>
     \/ \E o \in Outcomes :
          /\ Callback(PlanOf(i), kind, o)
          /\ SetWatch(i, IF o = "ok" THEN to ELSE "rFailed")
  /\ UNCHANGED <<coordPlan, regVars, lock, mainPc, locals>>

\* xml report, tar, callbackEnd(success).
ReportEnd(i) == ReportCallback(i, "rXml", "endSuccess", "rHtml")

\* html report, tar, callbackReport; report() returns nil.
ReportDone(i) == ReportCallback(i, "rHtml", "report", "poll")

\* report() returned an error: callbackEndWithMessage, then the next poll.
ReportFailed(i) ==
  /\ watchPc[i] = "rFailed"
  /\ EndGetJob(i, "watch")
  /\ SetWatch(i, IF Cur(i) = NoJob THEN "poll" ELSE "eSet")
  /\ UNCHANGED <<coordVars, regVars, lock, mainPc, loopTimes, capJob, repJob,
                 svcExecs, pollVars, failures>>

ReportEndSet(i) ==
  /\ watchPc[i] = "eSet"
  /\ EndSetJob(i, "watch")
  /\ SetWatch(i, "eCb")
  /\ UNCHANGED <<coordVars, nJobs, lock, mainPc, loopTimes, capJob, repJob,
                 svcExecs, pollVars, failures>>

ReportEndCallback(i) ==
  /\ watchPc[i] = "eCb"
  /\ EndCallback(i)
  /\ SetWatch(i, "poll")
  /\ UNCHANGED <<coordPlan, regVars, lock, mainPc, locals>>

-----------------------------------------------------------------------------
(* The specification.                                                      *)

Init ==
  /\ coordPlan = 0
  /\ coordStatus = [p \in Plans |-> "none"]
  /\ runJobs = [p \in Plans |-> NoJob]
  /\ job = [i \in Objs |-> [plan |-> 0, status |-> "none", jobStatus |-> "",
                            cancelled |-> FALSE]]
  /\ nJobs = 0
  /\ lock = [i \in Objs |-> NoThread]
  /\ mainPc = [i \in Objs |-> "idle"]
  /\ watchPc = [i \in Objs |-> "idle"]
  /\ loopTimes = [i \in Objs |-> 1]
  /\ capJob = [i \in Objs |-> NoJob]
  /\ repJob = [i \in Objs |-> NoJob]
  /\ svcExecs = [i \in Objs |-> FALSE]
  /\ endJob = [i \in Objs |-> [t \in {"main", "watch"} |-> NoJob]]
  /\ pollJob = NoJob
  /\ pollSt = "none"
  /\ failures = 0

Poll == PollGetJob \/ SaveJobUpdate \/ SaveJobCreate \/ SaveJobSettingsFail

MainStep(i) ==
  \/ MainBoot(i) \/ MainLoad(i) \/ MainFail(i) \/ MainEndSet(i)
  \/ MainEndCallback(i) \/ MainDump1(i) \/ MainReady(i) \/ MainReadyGetJob(i)
  \/ MainReadySetJob(i)
  \/ MainLoopExit(i) \/ MainTick(i) \/ MainTickDump(i) \/ MainMerge(i)

WatchStep(i) ==
  \/ WatchPoll(i) \/ WatchGrace(i) \/ ReportDump(i) \/ ReportMerge(i)
  \/ ReportProjectMerge(i) \/ ReportEnd(i) \/ ReportDone(i) \/ ReportFailed(i)
  \/ ReportEndSet(i) \/ ReportEndCallback(i)

Next ==
  \/ CoordStart \/ CoordUser
  \/ Poll
  \/ \E i \in Objs : MainStep(i) \/ WatchStep(i)

\* Goroutines are scheduled fairly by the Go runtime, and the poll loop runs
\* every minute.  A goroutine waiting on DumpLock only intermittently finds
\* it free; sync.Mutex hands the lock to a waiter starved for 1ms, which
\* justifies strong fairness for the steps that take it.  The coordinator's
\* user gets no fairness.
LockSteps(i) == MainDump1(i) \/ MainTickDump(i) \/ MainMerge(i)
                \/ ReportDump(i) \/ ReportMerge(i) \/ ReportProjectMerge(i)

Fairness ==
  /\ WF_vars(Poll)
  /\ \A i \in Objs : /\ WF_vars(MainStep(i))
                     /\ WF_vars(WatchStep(i))
                     /\ SF_vars(LockSteps(i))

Spec == Init /\ [][Next]_vars /\ Fairness

-----------------------------------------------------------------------------
(* Properties.                                                             *)

TypeOK ==
  /\ coordPlan \in 0 .. NPlans
  /\ coordStatus \in [Plans -> ExecStatus \cup {"none"}]
  /\ runJobs \in [Plans -> Objs \cup {NoJob}]
  /\ job \in [Objs -> JobRec]
  /\ nJobs \in 0 .. MaxJobs
  /\ lock \in [Objs -> Objs \cup {NoThread}]
  /\ mainPc \in [Objs -> MainPcs]
  /\ watchPc \in [Objs -> WatchPcs]
  /\ loopTimes \in [Objs -> 1 .. MergeEvery + 1]
  /\ capJob \in [Objs -> Objs \cup {NoJob}]
  /\ repJob \in [Objs -> Objs \cup {NoJob}]
  /\ svcExecs \in [Objs -> BOOLEAN]
  /\ endJob \in [Objs -> [{"main", "watch"} -> Objs \cup {NoJob}]]
  /\ pollJob \in Objs \cup {NoJob}
  /\ pollSt \in ExecStatus \cup {"none"}
  /\ failures \in 0 .. MaxFailures

LiveJobs == {i \in 1 .. nJobs : ~job[i].cancelled}

Registry == INSTANCE RunRegistry WITH
              Runs <- Objs, NoRun <- NoJob,
              runs <- runJobs, live <- LiveJobs, used <- 1 .. nJobs

RunRegistrySpec == Registry!RegSpec

\* No DumpLock stays held once the call that took it has returned: dumpExec
\* and mergeAllSvcExec release it by defer (job.go:379-380, 482-483), and
\* report() (job.go:193-211) must release it on every path.
DumpLockReleased == \A j \in Objs : lock[j] = NoThread

=============================================================================

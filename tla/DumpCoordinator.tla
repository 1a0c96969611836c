--------------------------- MODULE DumpCoordinator ---------------------------
(***************************************************************************)
(* dumpExec and mergeAllSvcExec of one DetectionJob (agent/core/job.go),   *)
(* called one at a time under the job's DumpLock.                          *)
(*                                                                         *)
(* dumpExec ranges over Services and starts one worker goroutine per       *)
(* service through a semaphore of Limit slots (limit_wait_group: Add       *)
(* blocks while Limit workers run, Done frees a slot, Wait waits for all). *)
(* A worker walks the pod list it read when it started: it skips a pod     *)
(* marked HasError, dials it, dumps it with --reset into a temp file, then *)
(* merges the temp files into a new exec file of the service's dump        *)
(* directory and writes the pod errors back, one index at a time, onto    *)
(* the pod list stored at each moment.  mergeAllSvcExec merges each        *)
(* service's exec files into one and removes the inputs.                   *)
(*                                                                         *)
(* The informer (saveServices, deleteService) runs concurrently: it        *)
(* replaces a service's pod list with fresh Pod entries, or marks the      *)
(* service deleted.  Test traffic adds execution data to pods.  Execution  *)
(* data is counted in units; a pod address is its identity.                *)
(***************************************************************************)
EXTENDS Naturals, FiniteSets, Sequences, Functions

CONSTANTS
  Svcs,      \* service names
  PodIds,    \* pod addresses
  PodLists,  \* PodLists[s]: the pod lists saveServices may store for s
  Limit,     \* semaphore slots (5 in job.go)
  MaxData,   \* bound on the units of data one pod holds
  MaxCalls   \* bound on the dumpExec and mergeAllSvcExec calls

WPcs == {"none", "start", "pods", "merge", "write", "mark", "set", "done",
         "crashed"}

VARIABLES
  pods,       \* Service.Pods: a sequence of [id, hasError]
  isDelete,   \* Service.IsDelete
  errMsg,     \* Service.ErrorMessage is not empty
  podData,    \* execution data in each pod's agent, not yet dumped
  dir,        \* execution data in the exec files of each service's dump directory
  cancelled,  \* the job's context is cancelled
  dpc,        \* dumpExec: "idle", "range" (Services.Range), "wait" (wait.Wait)
  visited,    \* services Services.Range has handed to a worker
  wpc,        \* each service's worker in this dumpExec call
  wSnap,      \* the pod list the worker ranges over
  wIdx,       \* the worker's podIndex
  wTmp,       \* data in the worker's pod temp files (podExecList)
  wFailed,    \* podErrorMap: the addresses of the pods that failed
  wSvcErr,    \* svcErrorMessage is not empty
  calls,      \* dumpExec and mergeAllSvcExec calls so far
  generated,  \* ghost: data the pods have produced
  dropped,    \* ghost: data discarded on a path that records an error
  dialFailed  \* ghost: addresses a dial ever failed for

vars == <<pods, isDelete, errMsg, podData, dir, cancelled, dpc, visited, wpc,
          wSnap, wIdx, wTmp, wFailed, wSvcErr, calls, generated, dropped,
          dialFailed>>
svcVars    == <<pods, isDelete>>
workerVars == <<wpc, wSnap, wIdx, wTmp, wFailed, wSvcErr>>

\* A freshly listed pod list: getServiceByDeploy builds Pod entries with
\* HasError unset.
Fresh(l) == [k \in DOMAIN l |-> [id |-> l[k], hasError |-> FALSE]]

\* Workers holding a semaphore slot.
Running == {s \in Svcs : wpc[s] \in {"start", "pods", "merge", "write", "mark",
                                       "set"}}

\* A worker panicked: the agent process is gone, and no step of it, of
\* the informer feeding it or of the caller happens any more.
Crashed == \E s \in Svcs : wpc[s] = "crashed"

-----------------------------------------------------------------------------
(* The environment: test traffic, the informer, the job's cancellation.    *)

Traffic(p) ==
  /\ ~Crashed
  /\ \E s \in Svcs : \E k \in DOMAIN pods[s] : pods[s][k].id = p
  /\ podData[p] < MaxData
  /\ podData' = [podData EXCEPT ![p] = @ + 1]
  /\ generated' = generated + 1
  /\ UNCHANGED <<svcVars, errMsg, dir, cancelled, dpc, visited, workerVars,
                 calls, dropped, dialFailed>>

\* saveServices: oldSvc.Pods = svc.Pods, on every update event.
ReplacePods(s, l) ==
  /\ ~Crashed
  /\ pods' = [pods EXCEPT ![s] = Fresh(l)]
  /\ UNCHANGED <<isDelete, errMsg, podData, dir, cancelled, dpc, visited,
                 workerVars, calls, generated, dropped, dialFailed>>

\* deleteService.
Delete(s) ==
  /\ ~Crashed
  /\ ~isDelete[s]
  /\ isDelete' = [isDelete EXCEPT ![s] = TRUE]
  /\ UNCHANGED <<pods, errMsg, podData, dir, cancelled, dpc, visited,
                 workerVars, calls, generated, dropped, dialFailed>>

Cancel ==
  /\ ~Crashed
  /\ ~cancelled
  /\ cancelled' = TRUE
  /\ UNCHANGED <<svcVars, errMsg, podData, dir, dpc, visited, workerVars,
                 calls, generated, dropped, dialFailed>>

-----------------------------------------------------------------------------
(* dumpExec.                                                               *)

DumpCall ==
  /\ ~Crashed
  /\ dpc = "idle"
  /\ calls < MaxCalls
  /\ calls' = calls + 1
  /\ dpc' = "range"
  /\ visited' = {}
  /\ wpc' = [s \in Svcs |-> "none"]
  /\ wTmp' = [s \in Svcs |-> 0]
  /\ wFailed' = [s \in Svcs |-> {}]
  /\ wSvcErr' = [s \in Svcs |-> FALSE]
  /\ UNCHANGED <<svcVars, errMsg, podData, dir, cancelled, wSnap, wIdx,
                 generated, dropped, dialFailed>>

\* One key of Services.Range: stop when the job's context is done;
\* otherwise wait.Add(1), which blocks while Limit workers run, and start
\* the key's worker.  After the last key, wait.Wait().
RangeStep ==
  /\ ~Crashed
  /\ dpc = "range"
  /\ \/ /\ cancelled \/ visited = Svcs
        /\ dpc' = "wait"
        /\ UNCHANGED <<visited, wpc>>
     \/ /\ ~cancelled
        /\ Cardinality(Running) < Limit
        /\ \E s \in Svcs \ visited :
             /\ visited' = visited \cup {s}
             /\ wpc' = [wpc EXCEPT ![s] = "start"]
        /\ UNCHANGED dpc
  /\ UNCHANGED <<svcVars, errMsg, podData, dir, cancelled, wSnap, wIdx, wTmp,
                 wFailed, wSvcErr, calls, generated, dropped, dialFailed>>

\* wait.Wait() returns once every worker has called Done.
WaitDone ==
  /\ ~Crashed
  /\ dpc = "wait"
  /\ Running = {}
  /\ dpc' = "idle"
  /\ UNCHANGED <<svcVars, errMsg, podData, dir, cancelled, visited,
                 workerVars, calls, generated, dropped, dialFailed>>

SetW(s, pc) == wpc' = [wpc EXCEPT ![s] = pc]

WorkerStart(s) ==
  /\ ~Crashed
  /\ wpc[s] = "start"
  /\ \/ /\ isDelete[s]
        /\ SetW(s, "done") /\ UNCHANGED <<wSnap, wIdx>>
     \/ /\ ~isDelete[s]
        /\ \/ SetW(s, "done") /\ UNCHANGED <<wSnap, wIdx>>
           \/ /\ SetW(s, "pods")
              /\ wSnap' = [wSnap EXCEPT ![s] = pods[s]]
              /\ wIdx' = [wIdx EXCEPT ![s] = 1]
  /\ UNCHANGED <<svcVars, errMsg, podData, dir, cancelled, dpc, visited, wTmp,
                 wFailed, wSvcErr, calls, generated, dropped, dialFailed>>

\* One pod of the loop: skip it when HasError; a failed dial records the
\* error and continues; a failed CreateTemp or dump records the error and
\* RETURNS, leaving the temp files of the pods dumped so far unmerged; a
\* dump with --reset moves the pod's data into a temp file.
WorkerPod(s) ==
  LET pod == wSnap[s][wIdx[s]]
      p   == pod.id
      Fail(pc) ==
        /\ wFailed' = [wFailed EXCEPT ![s] = @ \cup {p}]
        /\ SetW(s, pc)
  IN
  /\ ~Crashed
  /\ wpc[s] = "pods"
  /\ wIdx[s] <= Len(wSnap[s])
  /\ wIdx' = [wIdx EXCEPT ![s] = @ + 1]
  /\ \/ /\ pod.hasError
        /\ UNCHANGED <<wpc, wFailed, wTmp, podData, dialFailed>>
     \/ /\ ~pod.hasError
        /\ \/ /\ Fail("pods")
              /\ dialFailed' = dialFailed \cup {p}
              /\ UNCHANGED <<wTmp, podData>>
           \/ /\ Fail("done")
              /\ wTmp' = [wTmp EXCEPT ![s] = 0]
              /\ UNCHANGED <<podData, dialFailed>>
           \/ /\ wTmp' = [wTmp EXCEPT ![s] = @ + podData[p]]
              /\ podData' = [podData EXCEPT ![p] = 0]
              /\ UNCHANGED <<wpc, wFailed, dialFailed>>
  /\ UNCHANGED <<svcVars, errMsg, dir, cancelled, dpc, visited, wSnap,
                 wSvcErr, calls, generated, dropped>>

\* mergeExec of the pod temp files into the service's exec file; on an
\* error svcErrorMessage is set and the temp files stay behind, unused.
WorkerMerge(s) ==
  /\ ~Crashed
  /\ wpc[s] = "pods"
  /\ wIdx[s] > Len(wSnap[s])
  /\ SetW(s, "write")
  /\ \/ /\ dir' = [dir EXCEPT ![s] = @ + wTmp[s]]
        /\ UNCHANGED <<wSvcErr, dropped>>
     \/ /\ wSvcErr' = [wSvcErr EXCEPT ![s] = TRUE]
        /\ dropped' = dropped + wTmp[s]
        /\ UNCHANGED dir
  /\ wTmp' = [wTmp EXCEPT ![s] = 0]
  /\ UNCHANGED <<svcVars, errMsg, podData, cancelled, dpc, visited, wSnap,
                 wIdx, wFailed, calls, generated, dialFailed>>

\* Lines 452-459: GetService again; return if the service is deleted;
\* append svcErrorMessage to ErrorMessage.  The range over nowSvc.Pods
\* evaluates the slice once, so the loop's length is that of the list
\* stored now.
WorkerWrite(s) ==
  /\ ~Crashed
  /\ wpc[s] = "write"
  /\ IF isDelete[s]
     THEN SetW(s, "done") /\ UNCHANGED <<errMsg, wSnap, wIdx>>
     ELSE /\ SetW(s, "mark")
          /\ errMsg' = [errMsg EXCEPT ![s] = @ \/ wSvcErr[s]]
          /\ wSnap' = [wSnap EXCEPT ![s] = pods[s]]
          /\ wIdx' = [wIdx EXCEPT ![s] = 1]
  /\ UNCHANGED <<svcVars, podData, dir, cancelled, dpc, visited, wTmp,
                 wFailed, wSvcErr, calls, generated, dropped, dialFailed>>

\* nowSvc.Pods[podIndex] names the list stored at the moment of the read,
\* which saveServices may have replaced by a shorter one: an index past
\* its end panics, and the panic ends the agent process.
OutOfRange(s) == wIdx[s] > Len(pods[s])

\* Line 460: one index of the loop reads the address of the pod now at that
\* position; after the last index, SetService and the deferred wait.Done().
WorkerMark(s) ==
  /\ ~Crashed
  /\ wpc[s] = "mark"
  /\ \/ /\ wIdx[s] > Len(wSnap[s])
        /\ SetW(s, "done") /\ UNCHANGED wIdx
     \/ /\ wIdx[s] <= Len(wSnap[s])
        /\ \/ OutOfRange(s) /\ SetW(s, "crashed") /\ UNCHANGED wIdx
           \/ /\ ~OutOfRange(s)
              /\ pods[s][wIdx[s]].id \in wFailed[s]
              /\ SetW(s, "set") /\ UNCHANGED wIdx
           \/ /\ ~OutOfRange(s)
              /\ pods[s][wIdx[s]].id \notin wFailed[s]
              /\ wIdx' = [wIdx EXCEPT ![s] = @ + 1]
              /\ UNCHANGED wpc
  /\ UNCHANGED <<svcVars, errMsg, podData, dir, cancelled, dpc, visited, wSnap,
                 wTmp, wFailed, wSvcErr, calls, generated, dropped, dialFailed>>

\* Lines 461-462: ErrorMsg and HasError are written through a new read of
\* nowSvc.Pods[podIndex], onto whatever pod is at that position now.
WorkerMarkSet(s) ==
  /\ ~Crashed
  /\ wpc[s] = "set"
  /\ \/ OutOfRange(s) /\ SetW(s, "crashed") /\ UNCHANGED <<pods, wIdx>>
     \/ /\ ~OutOfRange(s)
        /\ pods' = [pods EXCEPT ![s][wIdx[s]].hasError = TRUE]
        /\ wIdx' = [wIdx EXCEPT ![s] = @ + 1]
        /\ SetW(s, "mark")
  /\ UNCHANGED <<isDelete, errMsg, podData, dir, cancelled, dpc, visited, wSnap,
                 wTmp, wFailed, wSvcErr, calls, generated, dropped, dialFailed>>

-----------------------------------------------------------------------------
(* mergeAllSvcExec.                                                        *)

\* For every service not deleted (none once the context is done): ReadDir
\* or CreateTemp may fail and skip it; a failed mergeExec records
\* ErrorMessage; the listed exec files are removed in either case, so a
\* failed merge discards the directory's data.
MergeAll ==
  LET live == IF cancelled THEN {} ELSE {s \in Svcs : ~isDelete[s]} IN
  /\ ~Crashed
  /\ dpc = "idle"
  /\ calls < MaxCalls
  /\ calls' = calls + 1
  /\ \E failed \in SUBSET live :
       /\ dir' = [s \in Svcs |-> IF s \in failed THEN 0 ELSE dir[s]]
       /\ errMsg' = [s \in Svcs |-> errMsg[s] \/ s \in failed]
       /\ dropped' = dropped + SumFunctionOnSet(dir, failed)
  /\ UNCHANGED <<svcVars, podData, cancelled, dpc, visited, workerVars,
                 generated, dialFailed>>

-----------------------------------------------------------------------------

Init ==
  /\ pods \in [Svcs -> {Fresh(l) : l \in UNION {PodLists[s] : s \in Svcs}}]
  /\ \A s \in Svcs : pods[s] \in {Fresh(l) : l \in PodLists[s]}
  /\ isDelete = [s \in Svcs |-> FALSE]
  /\ errMsg = [s \in Svcs |-> FALSE]
  /\ podData = [p \in PodIds |-> 0]
  /\ dir = [s \in Svcs |-> 0]
  /\ cancelled = FALSE
  /\ dpc = "idle"
  /\ visited = {}
  /\ wpc = [s \in Svcs |-> "none"]
  /\ wSnap = [s \in Svcs |-> << >>]
  /\ wIdx = [s \in Svcs |-> 1]
  /\ wTmp = [s \in Svcs |-> 0]
  /\ wFailed = [s \in Svcs |-> {}]
  /\ wSvcErr = [s \in Svcs |-> FALSE]
  /\ calls = 0
  /\ generated = 0
  /\ dropped = 0
  /\ dialFailed = {}

Environment ==
  \/ \E p \in PodIds : Traffic(p)
  \/ \E s \in Svcs : Delete(s) \/ \E l \in PodLists[s] : ReplacePods(s, l)
  \/ Cancel

Worker(s) ==
  \/ WorkerStart(s) \/ WorkerPod(s) \/ WorkerMerge(s) \/ WorkerWrite(s)
  \/ WorkerMark(s) \/ WorkerMarkSet(s)

Next ==
  \/ Environment
  \/ DumpCall \/ RangeStep \/ WaitDone \/ MergeAll
  \/ \E s \in Svcs : Worker(s)

\* The Go runtime schedules the goroutine running dumpExec and every
\* worker; the environment and the caller's next call get no fairness.
Spec == Init /\ [][Next]_vars
        /\ WF_vars(RangeStep) /\ WF_vars(WaitDone)
        /\ \A s \in Svcs : WF_vars(Worker(s))

-----------------------------------------------------------------------------
(* Properties.                                                             *)

PodRec == [id : PodIds, hasError : BOOLEAN]

\* The pod lists are the listed ones; a worker's index stays within one past
\* the end of the list it ranges over.
TypeOK ==
  /\ \A s \in Svcs : pods[s] \in Seq(PodRec) /\ wSnap[s] \in Seq(PodRec)
  /\ isDelete \in [Svcs -> BOOLEAN] /\ errMsg \in [Svcs -> BOOLEAN]
  /\ podData \in [PodIds -> 0 .. MaxData]
  /\ cancelled \in BOOLEAN
  /\ dpc \in {"idle", "range", "wait"}
  /\ visited \subseteq Svcs
  /\ wpc \in [Svcs -> WPcs]
  /\ \A s \in Svcs : wIdx[s] \in 1 .. Len(wSnap[s]) + 1
  /\ wFailed \in [Svcs -> SUBSET PodIds]
  /\ wSvcErr \in [Svcs -> BOOLEAN]
  /\ calls \in 0 .. MaxCalls
  /\ dialFailed \subseteq PodIds

\* HasError is set only on a pod a dial really failed for, although the
\* worker's write-back loop (job.go:459-464) re-reads the stored pod list
\* at each index, which saveServices may replace meanwhile (watcher.go:297).
PodErrorOnFailedPod ==
  \A s \in Svcs : \A k \in DOMAIN pods[s] :
    pods[s][k].hasError => pods[s][k].id \in dialFailed

\* Execution data taken from a pod with --reset is kept in the service's
\* dump directory, unless the code records an error for the failure that
\* discarded it: the pods, the workers' temp files, the dump directories
\* and the reported losses account for all data the pods produced.
CoverageAccounted ==
  generated = SumFunction(podData) + SumFunction(wTmp) + SumFunction(dir)
                + dropped

====

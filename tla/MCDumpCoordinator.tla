------------------------- MODULE MCDumpCoordinator -------------------------
(* Two services and a semaphore of one slot, so that the range blocks in  *)
(* wait.Add while the other service's worker runs.  Service s1 has two    *)
(* pods, so that one is dumped before the other fails, and saveServices   *)
(* can replace its list <<p1, p2>> by <<p2>>, which moves p2 to position 1 *)
(* while a worker holds the old list.  One unit of data per pod and two   *)
(* calls of dumpExec or mergeAllSvcExec.                                  *)
EXTENDS DumpCoordinator

CONSTANTS s1, s2, p1, p2, p3

MCSvcs     == {s1, s2}
MCPodIds   == {p1, p2, p3}
MCPodLists == [s \in MCSvcs |-> IF s = s1 THEN {<<p1, p2>>, <<p2>>}
                                 ELSE {<<p3>>}]
\* The pass run: s2 has no pod, so its worker only takes the slot.
MCSmallPodLists == [s \in MCSvcs |-> IF s = s1 THEN {<<p1, p2>>, <<p2>>}
                                      ELSE {<< >>}]
MCLimit    == 1
MCMaxData  == 1
MCMaxCalls == 2
\* The state without the data counts (wTmp, dir and the ghosts), which no
\* guard and no other variable reads except each other: the pass run
\* checks no property of the data.
MCPodView == <<pods, isDelete, errMsg, podData, cancelled, dpc, visited, wpc,
               wSnap, wIdx, wFailed, wSvcErr, calls, dialFailed>>
====

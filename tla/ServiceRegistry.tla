--------------------------- MODULE ServiceRegistry ---------------------------
(***************************************************************************)
(* The service registry of the sourcecov agent (agent/core/watcher.go).    *)
(*                                                                         *)
(* The deployment informer delivers add, update and delete events, one at  *)
(* a time; each handler turns the deployment into a fresh Service object   *)
(* (getServiceByDeploy, which lists the pods at that moment) and calls     *)
(* saveServices or deleteService on the Services map.  saveServices starts *)
(* a deletion watchdog for a service it stores and a reloadJarAddr         *)
(* goroutine, which copies /app out of the first pod under the Service     *)
(* object's LoadJarPackageLock and writes the jar list or an error onto    *)
(* the object stored under the name at the end.                            *)
(*                                                                         *)
(* Service objects are modelled by identity (1..MaxObjs): on an image      *)
(* change the reload runs on the new object built by getServiceByDeploy    *)
(* while the registry keeps the old one.  A pod list is abstracted to the  *)
(* image its first pod runs (NoPod for an empty list); a jar list to the   *)
(* reload that wrote it.  The initial preload, whose reloads run inline,   *)
(* is covered by the asynchronous reloads, of which it is one ordering.    *)
(***************************************************************************)
EXTENDS Naturals, FiniteSets

CONSTANTS
  Names,       \* deployment names (label app), model values
  Images,      \* container images, model values
  NoPod,       \* model value: a pod list with no pod
  MaxObjs,     \* bound on the Service objects getServiceByDeploy builds
  MaxReloads   \* bound on the reloadJarAddr goroutines started

ASSUME NoPod \notin Images

Objs    == 1 .. MaxObjs
Reloads == 1 .. MaxReloads
NoSvc   == 0
NoJars  == 0
\* LoadJarPackageLock free.
Free    == 0

ReloadPcs == {"lock", "copy", "store", "done"}
WatchPcs  == {"none", "wait", "grace", "done"}

VARIABLES
  deployed,  \* names of the deployments that exist in the namespace
  services,  \* Services: name -> Service object (NoSvc: absent)
  svc,       \* the Service objects
  nObjs,     \* objects built so far
  loadLock,  \* LoadJarPackageLock of each object: the reload holding it
  reload,    \* reloadJarAddr goroutines: object, pc, outcome of the copy
  nReloads,  \* reloads started so far
  svcWatch,  \* deletion watchdog of each stored object
  crashed    \* a goroutine panicked, which ends the agent process

vars == <<deployed, services, svc, nObjs, loadLock, reload, nReloads,
          svcWatch, crashed>>

SvcRec == [name : Names, image : Images, pod : Images \cup {NoPod},
           jars : Reloads \cup {NoJars}, err : BOOLEAN, isDelete : BOOLEAN,
           cancelled : BOOLEAN]

ReloadRec == [obj : Objs \cup {NoSvc}, pc : ReloadPcs,
              ok : BOOLEAN]

\* The object getServiceByDeploy builds for deployment n.
NewService(n, img, pod) ==
  [name |-> n, image |-> img, pod |-> pod, jars |-> NoJars, err |-> FALSE,
   isDelete |-> FALSE, cancelled |-> FALSE]

\* Start reloadJarAddr(o) in a new goroutine.
StartReload(o) ==
  /\ nReloads < MaxReloads
  /\ reload' = [reload EXCEPT ![nReloads + 1] = [obj |-> o, pc |-> "lock",
                                                  ok |-> FALSE]]
  /\ nReloads' = nReloads + 1

\* Variant of saveServices that stores a new service without starting its
\* reload (the asynchronous branch of watcher.go:283-289 left out).
SaveServicesNoReload(n, img, pod) ==
  LET old == services[n]
      o   == nObjs + 1
  IN
  IF old = NoSvc
  THEN /\ nObjs < MaxObjs
       /\ services' = [services EXCEPT ![n] = o]
       /\ svc' = [svc EXCEPT ![o] = NewService(n, img, pod)]
       /\ nObjs' = o
       /\ svcWatch' = [svcWatch EXCEPT ![o] = "wait"]
       /\ UNCHANGED <<reload, nReloads>>
  ELSE IF svc[old].image = img
  THEN /\ svc' = [svc EXCEPT ![old].pod = pod]
       /\ UNCHANGED <<services, nObjs, svcWatch, reload, nReloads>>
  ELSE /\ nObjs < MaxObjs
       /\ svc' = [svc EXCEPT ![old].pod = pod, ![old].image = img,
                             ![o] = NewService(n, img, pod)]
       /\ nObjs' = o
       /\ StartReload(o)
       /\ UNCHANGED <<services, svcWatch>>

\* saveServices(newSvc) for the object getServiceByDeploy built from
\* deployment n with image img and first pod pod.  An unknown name stores
\* the new object, starts its deletion watchdog and a reload of it.  A
\* known name keeps the stored object, replaces its pods, and on an image
\* change sets the image and reloads the NEW object.
SaveServices(n, img, pod) ==
  LET old == services[n]
      o   == nObjs + 1
  IN
  IF old = NoSvc
  THEN /\ nObjs < MaxObjs
       /\ services' = [services EXCEPT ![n] = o]
       /\ svc' = [svc EXCEPT ![o] = NewService(n, img, pod)]
       /\ nObjs' = o
       /\ svcWatch' = [svcWatch EXCEPT ![o] = "wait"]
       /\ StartReload(o)
  ELSE IF svc[old].image = img
  THEN /\ svc' = [svc EXCEPT ![old].pod = pod]
       /\ UNCHANGED <<services, nObjs, svcWatch, reload, nReloads>>
  ELSE /\ nObjs < MaxObjs
       /\ svc' = [svc EXCEPT ![old].pod = pod, ![old].image = img,
                             ![o] = NewService(n, img, pod)]
       /\ nObjs' = o
       /\ StartReload(o)
       /\ UNCHANGED <<services, svcWatch>>

\* getServiceByDeploy returns nil when listing the pods fails; the
\* handler's saveServices(nil) then does nothing.
Observe(n, img, pod) ==
  \/ SaveServices(n, img, pod)
  \/ UNCHANGED <<services, svc, nObjs, svcWatch, reload, nReloads>>

-----------------------------------------------------------------------------
(* Informer handlers.                                                      *)

AddFunc(n, img, pod) ==
  /\ ~crashed
  /\ n \notin deployed
  /\ deployed' = deployed \cup {n}
  /\ Observe(n, img, pod)
  /\ UNCHANGED <<loadLock, crashed>>

UpdateFunc(n, img, pod) ==
  /\ ~crashed
  /\ n \in deployed
  /\ Observe(n, img, pod)
  /\ UNCHANGED <<deployed, loadLock, crashed>>

\* deleteService: mark the stored object deleted and cancel its context.
DeleteFunc(n) ==
  /\ ~crashed
  /\ n \in deployed
  /\ deployed' = deployed \ {n}
  /\ IF services[n] = NoSvc THEN UNCHANGED svc
     ELSE svc' = [svc EXCEPT ![services[n]].isDelete = TRUE,
                             ![services[n]].cancelled = TRUE]
  /\ UNCHANGED <<services, nObjs, loadLock, reload, nReloads, svcWatch,
                 crashed>>

-----------------------------------------------------------------------------
(* The deletion watchdog of a stored object.                              *)

SvcWatchWake(o) ==
  /\ ~crashed
  /\ svcWatch[o] = "wait"
  /\ svc[o].cancelled
  /\ svcWatch' = [svcWatch EXCEPT ![o] = "grace"]
  /\ UNCHANGED <<deployed, services, svc, nObjs, loadLock, reload, nReloads,
                 crashed>>

\* After 10 minutes: GetService(name); if it is marked deleted,
\* DeleteService(name), which deletes the key from RunJobs, not Services.
SvcWatchGrace(o) ==
  /\ ~crashed
  /\ svcWatch[o] = "grace"
  /\ svcWatch' = [svcWatch EXCEPT ![o] = "done"]
  /\ UNCHANGED <<deployed, services, svc, nObjs, loadLock, reload, nReloads,
                 crashed>>

-----------------------------------------------------------------------------
(* reloadJarAddr(svc) for reload r.                                        *)

ReloadLock(r) ==
  LET o == reload[r].obj IN
  /\ ~crashed
  /\ reload[r].pc = "lock"
  /\ loadLock[o] = Free
  /\ loadLock' = [loadLock EXCEPT ![o] = r]
  /\ reload' = [reload EXCEPT ![r].pc = "copy"]
  /\ UNCHANGED <<deployed, services, svc, nObjs, nReloads, svcWatch, crashed>>

\* getServiceJarPackage: copyFromPod(svc.Pods[0]) of the reload's object,
\* which panics on an empty pod list; the copy or the walk may fail.
ReloadCopy(r) ==
  LET o == reload[r].obj IN
  /\ ~crashed
  /\ reload[r].pc = "copy"
  /\ IF svc[o].pod = NoPod
     THEN crashed' = TRUE /\ UNCHANGED reload
     ELSE /\ \E ok \in BOOLEAN :
               reload' = [reload EXCEPT ![r].pc = "store", ![r].ok = ok]
          /\ UNCHANGED crashed
  /\ UNCHANGED <<deployed, services, svc, nObjs, loadLock, nReloads, svcWatch>>

\* GetService(name) of the object stored NOW; write the error or the jar
\* list onto it; the deferred Unlock.
ReloadStore(r) ==
  LET o   == reload[r].obj
      cur == services[svc[o].name]
  IN
  /\ ~crashed
  /\ reload[r].pc = "store"
  /\ svc' = IF cur = NoSvc THEN svc
            ELSE IF reload[r].ok THEN [svc EXCEPT ![cur].jars = r]
            ELSE [svc EXCEPT ![cur].err = TRUE]
  /\ loadLock' = [loadLock EXCEPT ![o] = Free]
  /\ reload' = [reload EXCEPT ![r].pc = "done"]
  /\ UNCHANGED <<deployed, services, nObjs, nReloads, svcWatch, crashed>>

-----------------------------------------------------------------------------
(* The specification.                                                      *)

Init ==
  /\ deployed = {}
  /\ services = [n \in Names |-> NoSvc]
  /\ svc = [o \in Objs |-> NewService(CHOOSE n \in Names : TRUE,
                                      CHOOSE i \in Images : TRUE, NoPod)]
  /\ nObjs = 0
  /\ loadLock = [o \in Objs |-> Free]
  /\ reload = [r \in Reloads |-> [obj |-> NoSvc, pc |-> "done", ok |-> FALSE]]
  /\ nReloads = 0
  /\ svcWatch = [o \in Objs |-> "none"]
  /\ crashed = FALSE

Informer ==
  \E n \in Names :
    \/ DeleteFunc(n)
    \/ \E img \in Images, pod \in Images \cup {NoPod} :
         AddFunc(n, img, pod) \/ UpdateFunc(n, img, pod)

ReloadStep(r) == ReloadLock(r) \/ ReloadCopy(r) \/ ReloadStore(r)

SvcWatchStep(o) == SvcWatchWake(o) \/ SvcWatchGrace(o)

Next ==
  \/ Informer
  \/ \E r \in Reloads : ReloadStep(r)
  \/ \E o \in Objs : SvcWatchStep(o)

\* The informer follows the cluster and gets no fairness; every goroutine
\* the registry starts is scheduled fairly by the Go runtime.
Spec == Init /\ [][Next]_vars
        /\ \A r \in Reloads : WF_vars(ReloadStep(r))
        /\ \A o \in Objs : WF_vars(SvcWatchStep(o))

-----------------------------------------------------------------------------
(* Properties.                                                             *)

\* The reloads started for name n, and whether all of them have returned.
ReloadsOf(n) == {r \in 1 .. nReloads : svc[reload[r].obj].name = n}
Settled(n) == \A r \in ReloadsOf(n) : reload[r].pc = "done"
LastReload(n) == CHOOSE r \in ReloadsOf(n) : \A q \in ReloadsOf(n) : q <= r

\* Every service stored under a name eventually has a jar list or a
\* recorded error: the reloadJarAddr goroutine saveServices starts for it
\* (watcher.go:283-294) runs to its store under the lock, unless the agent
\* crashed.
Loaded(n) ==
  \/ crashed
  \/ services[n] # NoSvc
     /\ (svc[services[n]].jars # NoJars \/ svc[services[n]].err)

EventuallyLoaded == \A n \in Names : services[n] # NoSvc ~> Loaded(n)

\* Artifact discovery is serialised per service (spec: "Per-service
\* artifact discovery is serialized per service via its load lock"): once
\* every reload of a name has returned and the last one started succeeded,
\* the stored jar list is the one that reload found.
JarsFromLatestReload ==
  \A n \in Names :
    (services[n] # NoSvc /\ ReloadsOf(n) # {} /\ Settled(n)
       /\ reload[LastReload(n)].ok)
      => svc[services[n]].jars = LastReload(n)

====

------------------------------ MODULE Operator ------------------------------
(***************************************************************************)
(* The Agent operator (controllers/agent_controller.go, converter.go): one *)
(* AgentReconciler for one Agent object.  The API server holds the Agent   *)
(* (its spec, resourceVersion, "spec" annotation and status) and the       *)
(* objects ConvertAgent builds for it: ServiceAccount, Role, RoleBinding   *)
(* and StatefulSet.  A StatefulSet is the spec it was converted from.      *)
(*                                                                         *)
(* controller-runtime runs Reconcile for the Agent one call at a time from *)
(* a work queue (For Agent, Owns StatefulSet): an event on either object,  *)
(* a returned error or a RequeueAfter marks it queued, and a mark made     *)
(* while Reconcile runs makes it run again afterwards.  Reconcile is split *)
(* at its API calls, each of which may fail; the user, the StatefulSet     *)
(* controller and the garbage collector act in between.                    *)
(***************************************************************************)
EXTENDS Naturals, FiniteSets

CONSTANTS
  Specs,          \* the agent specs a user may write
  FillDefault,    \* FillDefaultValue on specs: [Specs -> Specs]
  Storage,        \* the volumeClaimTemplate fields of the spec's StatefulSet
  NoAnn,          \* no "spec" annotation on the Agent
  NoSts,          \* no StatefulSet
  MaxEdits,       \* bound on the user's edits of the spec
  MaxFailures,    \* bound on failed API calls
  MaxStsDeletes   \* bound on deletions of the StatefulSet by hand

ASSUME FillDefault \in [Specs -> Specs]

VARIABLES
  agent,      \* "live", "deleting" (deletionTimestamp set) or "gone"
  spec,       \* the Agent's spec
  rv,         \* the Agent's resourceVersion
  ann,        \* the Agent's "spec" annotation
  status,     \* the Agent's status.statefulSetStatus
  rbac,       \* which of "sa", "role", "rb" exist
  sts,        \* the spec the StatefulSet was converted from, or NoSts
  stsRv,      \* the StatefulSet's resourceVersion
  stsStatus,  \* the StatefulSet's status: "rolling" or "ready"
  applied,    \* every spec a StatefulSet was written from (history)
  pc,         \* where Reconcile is, "idle" between calls
  local,      \* what Reconcile read: the defaulted agent and the sts
  queued,     \* the Agent's key is in the work queue
  failures, edits, stsDeletes

agentVars == <<agent, spec, rv, ann, status>>
stsVars == <<rbac, sts, stsRv, stsStatus, applied>>
boundVars == <<failures, edits, stsDeletes>>
vars == <<agentVars, stsVars, pc, local, queued, boundVars>>

Statuses == {"rolling", "ready"}

LocalNone == [spec |-> NoSts, rv |-> 0, ann |-> NoAnn, stsRv |-> 0,
              stsStatus |-> "rolling"]

\* The end of a Reconcile call; an error or a RequeueAfter requeues it.
Return(requeue) ==
  /\ pc' = "idle"
  /\ local' = LocalNone
  /\ queued' = (queued \/ requeue)

\* An API call that fails (a transient error): Reconcile returns err.
Fail ==
  /\ failures < MaxFailures
  /\ failures' = failures + 1
  /\ Return(TRUE)
  /\ UNCHANGED <<agentVars, stsVars, edits, stsDeletes>>

\* An API call that returns an error the state explains (NotFound,
\* Conflict, AlreadyExists, Forbidden, a bad annotation).
ErrorReturn ==
  /\ Return(TRUE)
  /\ UNCHANGED <<agentVars, stsVars, boundVars>>

-----------------------------------------------------------------------------
(* Reconcile                                                               *)

\* The work queue hands the Agent's key to the reconciler.
Start ==
  /\ pc = "idle"
  /\ queued
  /\ pc' = "getAgent"
  /\ queued' = FALSE
  /\ UNCHANGED <<agentVars, stsVars, local, boundVars>>

\* Mutant of GetAgent: the spec read from the annotation instead of the
\* Agent's spec.
GetAgentReadsAnnotation ==
  /\ pc = "getAgent"
  /\ agent = "live"
  /\ pc' = "getSts"
  /\ local' = [local EXCEPT !.spec = ann, !.rv = rv, !.ann = ann]
  /\ UNCHANGED <<agentVars, stsVars, queued, boundVars>>

\* Get the Agent: NotFound and a deletionTimestamp return nil; otherwise
\* FillDefaultValue works on a deep copy of it.
GetAgent ==
  /\ pc = "getAgent"
  /\ \/ Fail
     \/ /\ agent # "live"
        /\ Return(FALSE)
        /\ UNCHANGED <<agentVars, stsVars, boundVars>>
     \/ /\ agent = "live"
        /\ pc' = "getSts"
        /\ local' = [local EXCEPT !.spec = FillDefault[spec], !.rv = rv,
                                  !.ann = ann]
        /\ UNCHANGED <<agentVars, stsVars, queued, boundVars>>

\* Get the StatefulSet.  NotFound leads to CreateResource; otherwise the
\* annotation is unmarshalled (an error for a missing one) and compared
\* with the spec: UpdateResource if they differ, the status sync if not.
GetStatefulSet ==
  /\ pc = "getSts"
  /\ \/ Fail
     \/ /\ sts = NoSts
        /\ pc' = "c_sa"
        /\ UNCHANGED <<agentVars, stsVars, local, queued, boundVars>>
     \/ /\ sts # NoSts
        /\ local.ann = NoAnn
        /\ ErrorReturn
     \/ /\ sts # NoSts
        /\ local.ann \notin {NoAnn, local.spec}
        /\ pc' = "u_role"
        /\ local' = [local EXCEPT !.stsRv = stsRv]
        /\ UNCHANGED <<agentVars, stsVars, queued, boundVars>>
     \/ /\ sts # NoSts
        /\ local.ann = local.spec
        /\ pc' = "list"
        /\ UNCHANGED <<agentVars, stsVars, local, queued, boundVars>>

\* upsertResource in the order CreateResource (sa, role, rolebinding) and
\* UpdateResource (role, rolebinding, sa) call it: Create, and Update on
\* AlreadyExists.
UpsertNext == [c_sa |-> "c_role", c_role |-> "c_rb", c_rb |-> "c_sts",
               u_role |-> "u_rb", u_rb |-> "u_sa", u_sa |-> "u_sts"]
UpsertObject == [c_sa |-> "sa", c_role |-> "role", c_rb |-> "rb",
                 u_role |-> "role", u_rb |-> "rb", u_sa |-> "sa"]

Upsert ==
  /\ pc \in DOMAIN UpsertNext
  /\ \/ Fail
     \/ /\ rbac' = rbac \cup {UpsertObject[pc]}
        /\ pc' = UpsertNext[pc]
        /\ UNCHANGED <<agentVars, sts, stsRv, stsStatus, applied, local,
                       queued, boundVars>>

\* A write of the StatefulSet: a changed spec bumps its resourceVersion,
\* starts a rollout and, through Owns, queues the Agent.  An Update that
\* changes nothing is a no-op for the API server.
WriteSts(s) ==
  /\ sts' = s
  /\ applied' = applied \cup {s}
  /\ IF s = sts
     THEN UNCHANGED <<stsRv, stsStatus, queued>>
     ELSE /\ stsRv' = stsRv + 1
          /\ stsStatus' = "rolling"
          /\ queued' = TRUE

\* CreateResource: Create (not upsert) the StatefulSet converted from the
\* defaulted agent.
CreateStatefulSet ==
  /\ pc = "c_sts"
  /\ \/ Fail
     \/ /\ WriteSts(local.spec)
        /\ pc' = "annotate"
        /\ UNCHANGED <<agentVars, rbac, local, boundVars>>

\* Mutant of UpdateStatefulSet: a Forbidden Update taken for success, so
\* UpdateResource goes on to annotate the Agent.
UpdateStatefulSetIgnoreError ==
  /\ pc = "u_sts"
  /\ \/ /\ stsRv # local.stsRv
        /\ ErrorReturn
     \/ /\ stsRv = local.stsRv
        /\ Storage[sts] # Storage[local.spec]
        /\ pc' = "annotate"
        /\ UNCHANGED <<agentVars, stsVars, local, queued, boundVars>>
     \/ /\ stsRv = local.stsRv
        /\ Storage[sts] = Storage[local.spec]
        /\ WriteSts(local.spec)
        /\ pc' = "annotate"
        /\ UNCHANGED <<agentVars, rbac, local, boundVars>>

\* UpdateResource: oldDeploy.Spec = newDeploy.Spec and Update(oldDeploy),
\* with the resourceVersion Get returned.  The API server refuses a
\* changed volumeClaimTemplate (Forbidden), a stale resourceVersion
\* (Conflict) and a deleted StatefulSet (NotFound).
UpdateStatefulSet ==
  /\ pc = "u_sts"
  /\ \/ Fail
     \/ /\ stsRv # local.stsRv
        /\ ErrorReturn
     \/ /\ stsRv = local.stsRv
        /\ Storage[sts] # Storage[local.spec]
        /\ ErrorReturn
     \/ /\ stsRv = local.stsRv
        /\ Storage[sts] = Storage[local.spec]
        /\ WriteSts(local.spec)
        /\ pc' = "annotate"
        /\ UNCHANGED <<agentVars, rbac, local, boundVars>>

\* The last step of CreateResource and UpdateResource: the annotation
\* "spec" = json(agent.Spec) and Update(agent) of the defaulted copy, which
\* writes the defaults into the spec.  A resourceVersion changed since the
\* Get is a Conflict.  On success Reconcile returns RequeueAfter a minute.
UpdateAgent ==
  /\ pc = "annotate"
  /\ \/ Fail
     \/ /\ agent = "gone" \/ rv # local.rv
        /\ ErrorReturn
     \/ /\ agent # "gone"
        /\ rv = local.rv
        /\ spec' = local.spec
        /\ ann' = local.spec
        /\ rv' = rv + 1
        /\ Return(TRUE)
        /\ UNCHANGED <<agent, status, stsVars, boundVars>>

\* List the StatefulSets with the agent's labels and compare the first
\* one's status.  stsList.Size() is the encoded size of the list, never 0,
\* so an empty list reaches stsList.Items[0]: the reconciler panics and
\* the operator restarts, which queues every Agent again.
ListStatefulSets ==
  /\ pc = "list"
  /\ \/ Fail
     \/ /\ sts = NoSts
        /\ ErrorReturn
     \/ /\ sts # NoSts
        /\ stsStatus = status
        /\ Return(FALSE)
        /\ UNCHANGED <<agentVars, stsVars, boundVars>>
     \/ /\ sts # NoSts
        /\ stsStatus # status
        /\ pc' = "status"
        /\ local' = [local EXCEPT !.stsStatus = stsStatus]
        /\ UNCHANGED <<agentVars, stsVars, queued, boundVars>>

\* Status().Update(agent) with the status just listed.
UpdateStatus ==
  /\ pc = "status"
  /\ \/ Fail
     \/ /\ agent = "gone" \/ rv # local.rv
        /\ ErrorReturn
     \/ /\ agent # "gone"
        /\ rv = local.rv
        /\ status' = local.stsStatus
        /\ rv' = rv + 1
        /\ Return(TRUE)
        /\ UNCHANGED <<agent, spec, ann, stsVars, boundVars>>

Reconcile ==
  \/ Start \/ GetAgent \/ GetStatefulSet \/ Upsert \/ CreateStatefulSet
  \/ UpdateStatefulSet \/ UpdateAgent \/ ListStatefulSets \/ UpdateStatus

-----------------------------------------------------------------------------
(* The rest of the cluster                                                 *)

\* The user applies a new spec.
EditSpec(s) ==
  /\ agent = "live"
  /\ edits < MaxEdits
  /\ s # spec
  /\ spec' = s
  /\ rv' = rv + 1
  /\ edits' = edits + 1
  /\ queued' = TRUE
  /\ UNCHANGED <<agent, ann, status, stsVars, pc, local, failures, stsDeletes>>

\* Someone deletes the StatefulSet by hand.
DeleteStatefulSet ==
  /\ sts # NoSts
  /\ stsDeletes < MaxStsDeletes
  /\ sts' = NoSts
  /\ stsRv' = stsRv + 1
  /\ stsDeletes' = stsDeletes + 1
  /\ queued' = TRUE
  /\ UNCHANGED <<agentVars, rbac, stsStatus, applied, pc, local, failures,
                 edits>>

\* The StatefulSet controller finishes a rollout and updates its status.
RolloutDone ==
  /\ sts # NoSts
  /\ stsStatus = "rolling"
  /\ stsStatus' = "ready"
  /\ stsRv' = stsRv + 1
  /\ queued' = TRUE
  /\ UNCHANGED <<agentVars, rbac, sts, applied, pc, local, boundVars>>

\* The user deletes the Agent: foreground deletion sets deletionTimestamp
\* until the garbage collector is done, background deletion removes it.
DeleteAgent ==
  /\ agent = "live"
  /\ agent' \in {"deleting", "gone"}
  /\ rv' = rv + 1
  /\ queued' = TRUE
  /\ UNCHANGED <<spec, ann, status, stsVars, pc, local, boundVars>>

\* The garbage collector deletes the objects whose owner is being deleted
\* or gone (the owner references SetControllerReference put on them).
GarbageCollect ==
  /\ agent # "live"
  /\ sts # NoSts \/ rbac # {} \/ agent = "deleting"
  /\ agent' = "gone"
  /\ rbac' = {}
  /\ sts' = NoSts
  /\ stsRv' = stsRv + 1
  /\ queued' = TRUE
  /\ UNCHANGED <<spec, rv, ann, status, stsStatus, applied, pc, local,
                 boundVars>>

Init ==
  /\ agent = "live"
  /\ spec \in Specs
  /\ rv = 1
  /\ ann = NoAnn
  /\ status = "none"
  /\ rbac = {}
  /\ sts = NoSts
  /\ stsRv = 0
  /\ stsStatus = "rolling"
  /\ applied = {}
  /\ pc = "idle"
  /\ local = LocalNone
  /\ queued = TRUE
  /\ failures = 0 /\ edits = 0 /\ stsDeletes = 0

Next ==
  \/ Reconcile
  \/ \E s \in Specs : EditSpec(s)
  \/ DeleteStatefulSet
  \/ RolloutDone
  \/ DeleteAgent
  \/ GarbageCollect

\* controller-runtime keeps calling Reconcile while the key is queued, and
\* the garbage collector runs; nothing forces the user or the StatefulSet
\* controller to act.
Spec == Init /\ [][Next]_vars /\ WF_vars(Reconcile) /\ WF_vars(GarbageCollect)

-----------------------------------------------------------------------------
(* Properties                                                              *)

TypeOK ==
  /\ agent \in {"live", "deleting", "gone"}
  /\ spec \in Specs
  /\ rv \in Nat
  /\ ann \in Specs \cup {NoAnn}
  /\ status \in Statuses \cup {"none"}
  /\ rbac \subseteq {"sa", "role", "rb"}
  /\ sts \in Specs \cup {NoSts}
  /\ stsRv \in Nat
  /\ stsStatus \in Statuses
  /\ applied \subseteq Specs
  /\ queued \in BOOLEAN
  /\ local.spec \in Specs \cup {NoSts}

\* The annotation records only specs a StatefulSet was written from:
\* CreateResource and UpdateResource annotate the Agent only after the
\* StatefulSet Create or Update succeeded, so Reconcile's skip of
\* UpdateResource never rests on a spec that was never deployed.
AnnotationApplied == ann # NoAnn => ann \in applied

\* When Reconcile would skip UpdateResource (the annotation equals the
\* defaulted spec) the StatefulSet is the one converted from that spec:
\* the annotation stands for what is deployed.
SkipMeansApplied ==
  (agent = "live" /\ sts # NoSts /\ ann = FillDefault[spec]) => sts = ann

\* The Agent and its StatefulSet are in step: the StatefulSet is converted
\* from the defaulted spec, the annotation records it and the status is
\* the StatefulSet's.
InSync ==
  /\ sts = FillDefault[spec]
  /\ ann = sts
  /\ status = stsStatus

\* Once the user stops editing and API failures stop, the reconcile loop
\* brings a live Agent and its StatefulSet into step and they stay so.
Converges == <>[](agent = "live" => InSync)

====

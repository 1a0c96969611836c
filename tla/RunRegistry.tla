---------------------------- MODULE RunRegistry ----------------------------
(***************************************************************************)
(* What the agent's job registry promises, without goroutines, callbacks   *)
(* or the coordinator: RunJobs holds at most one run per plan id; storing  *)
(* a new run cancels every other run, so at most one run is live; runs are *)
(* cancelled but never revived; only a cancelled run leaves the registry.  *)
(* JobLifecycle implements it (JobLifecycle!RunRegistrySpec).             *)
(***************************************************************************)
EXTENDS FiniteSets

CONSTANTS Plans, Runs, NoRun

VARIABLES
  runs,  \* plan id -> stored run (NoRun: none)
  live,  \* the runs whose context is not cancelled
  used   \* the runs created so far

regVars == <<runs, live, used>>

\* A new run i for plan p, which has none stored: every other run is
\* cancelled.
Create(p, i) ==
  /\ runs[p] = NoRun
  /\ i \in Runs \ used
  /\ runs' = [runs EXCEPT ![p] = i]
  /\ live' = {i}
  /\ used' = used \cup {i}

\* Some live runs are cancelled.
Cancel(S) ==
  /\ S # {}
  /\ live' = live \ S
  /\ UNCHANGED <<runs, used>>

\* The stored run of p, already cancelled, leaves the registry.
Remove(p) ==
  /\ runs[p] # NoRun
  /\ runs[p] \notin live
  /\ runs' = [runs EXCEPT ![p] = NoRun]
  /\ UNCHANGED <<live, used>>

RegInit ==
  /\ runs = [p \in Plans |-> NoRun]
  /\ live = {}
  /\ used = {}

RegNext ==
  \/ \E p \in Plans, i \in Runs : Create(p, i)
  \/ \E S \in SUBSET live : Cancel(S)
  \/ \E p \in Plans : Remove(p)

RegSpec == RegInit /\ [][RegNext]_regVars
=============================================================================

----------------------------- MODULE MCOperator -----------------------------
(***************************************************************************)
(* Operator for TLC.  Four specs: "a0" leaves volumePath and resources     *)
(* empty and FillDefaultValue turns it into "a"; "b" differs from "a" in   *)
(* its pod template, "c" in its pod template and, in MCStorage, in its     *)
(* storage size.                                                           *)
(***************************************************************************)
EXTENDS Operator

CONSTANTS a0, a, b, c

MCSpecs == {a0, a, b, c}

MCFillDefault == [s \in MCSpecs |-> IF s = a0 THEN a ELSE s]

\* c asks for another storage size: its volumeClaimTemplate differs.
MCStorage == [s \in MCSpecs |-> IF s = c THEN 2 ELSE 1]

\* Every spec asks for the same storage: only the pod template changes.
MCSameStorage == [s \in MCSpecs |-> 1]

====

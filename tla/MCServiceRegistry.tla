-------------------------- MODULE MCServiceRegistry --------------------------
(* One deployment name and two images: enough for an image change while   *)
(* the previous reload is still running, and for a delete and re-add of    *)
(* the same name.  Three objects and three reloads allow the first store   *)
(* plus two image changes.                                                 *)
EXTENDS ServiceRegistry

CONSTANTS n1, i1, i2

MCNames      == {n1}
MCImages     == {i1, i2}
MCMaxObjs    == 3
MCMaxReloads == 3
====

------------------------------- MODULE MCUnTar -------------------------------
(* Source "/a" (for "/app"), destination "/d", and header names of up to   *)
(* MaxLen characters over "a", "b", "." and "/": long enough for a name    *)
(* that passes the prefix check and climbs out ("a/../b"), and for one     *)
(* that shares only the prefix's characters ("ab", "a..").                 *)
EXTENDS UnTar

MCSrcPath    == <<Slash, "a">>
MCDestPath   == <<Slash, "d">>
MCMaxLen     == 6
MCMaxEntries == 2

AllNames    == BoundedSeq({"a", "b", ".", Slash}, MCMaxLen)
====

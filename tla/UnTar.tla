-------------------------------- MODULE UnTar --------------------------------
(***************************************************************************)
(* copyFromPod and unTarAll (agent/core/watcher.go): the agent runs        *)
(* "tar cf - <srcPath>" in a pod through the exec subresource, pipes its   *)
(* stdout into a tar reader and recreates each entry under destPath.       *)
(*                                                                         *)
(* The archive is what the pod sends: up to MaxEntries headers whose names *)
(* are any of HeaderNames.  The exec stream may break at any point; the    *)
(* writer side of the pipe is then closed without an error, so the reader  *)
(* sees a clean end of file at a header boundary and an unexpected one in  *)
(* the middle of an entry.  Creating a directory or file may fail.  Entry  *)
(* kinds (directory, file, symlink) differ only in which of these calls    *)
(* are made, so an entry is its name.                                      *)
(***************************************************************************)
EXTENDS StripPath

CONSTANTS
  SrcPath,      \* the directory copied out of the pod ("/app")
  DestPath,     \* the local destination directory
  HeaderNames,  \* the names a header may carry
  MaxEntries    \* bound on the entries of one archive

VARIABLES
  pc,         \* "exec", "untar", or the result: "ok", "error", "corrupted"
  remaining,  \* entries of the archive not read yet
  written     \* local paths created for the entries read

vars == <<pc, remaining, written>>

\* copyFromPod lines 411-413: the prefix every header name must carry.
Prefix == StripPathShortcuts(Clean(GetPrefix(SrcPath)))

\* filepath.Join(destDir, header.Name[len(prefix):]).
Destination(name) == Join(DestPath, SubSeq(name, Len(Prefix) + 1, Len(name)))

\* NewSPDYExecutor, the streaming goroutine and the check of its err.  The
\* goroutine calls wait.Done() before exec.Stream, so line 407 reads err
\* before the stream sets it (a data race): only a stream that fails at
\* once can be seen there, and then only by chance.
Exec ==
  /\ pc = "exec"
  /\ \/ pc' = "error"
     \/ pc' = "untar"
  /\ UNCHANGED <<remaining, written>>

\* One iteration of unTarAll's loop for a header named name: the prefix
\* check, then MkdirAll / Symlink / Create at the destination, any of
\* which may fail.
UnTarEntry(name) ==
  /\ pc = "untar"
  /\ remaining > 0
  /\ remaining' = remaining - 1
  /\ IF ~IsPrefix(Prefix, name)
     THEN pc' = "corrupted" /\ UNCHANGED written
     ELSE \/ written' = written \cup {Destination(name)} /\ UNCHANGED pc
          \/ pc' = "error" /\ UNCHANGED written

\* tarReader.Next() returns io.EOF after the last entry.
UnTarEof ==
  /\ pc = "untar"
  /\ remaining = 0
  /\ pc' = "ok"
  /\ UNCHANGED <<remaining, written>>

\* The exec stream breaks with entries left: the deferred outStream.Close()
\* ends the pipe without an error.
StreamBreak ==
  /\ pc = "untar"
  /\ remaining > 0
  /\ \/ pc' = "ok"
     \/ pc' = "error"
  /\ UNCHANGED <<remaining, written>>

Init ==
  /\ pc = "exec"
  /\ remaining \in 1 .. MaxEntries
  /\ written = {}

Next ==
  \/ Exec
  \/ \E name \in HeaderNames : UnTarEntry(name)
  \/ UnTarEof
  \/ StreamBreak

Spec == Init /\ [][Next]_vars

-----------------------------------------------------------------------------
(* Properties.                                                             *)

\* Every path unTarAll creates lies inside the destination directory (spec:
\* remote file copy "strips parent-directory traversal segments before
\* extraction").
UnderDestPath ==
  \A w \in written : w = DestPath \/ IsPrefix(DestPath \o <<Slash>>, w)

====

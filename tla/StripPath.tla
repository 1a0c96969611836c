------------------------------ MODULE StripPath ------------------------------
(***************************************************************************)
(* The path arithmetic copyFromPod and unTarAll use (agent/core/           *)
(* watcher.go): getPrefix, stripPathShortcuts, and the Go library's        *)
(* path.Clean and filepath.Join (Unix) it relies on.                       *)
(*                                                                         *)
(* Paths are sequences of characters, because the properties are about     *)
(* what these conversions do to "..", "." and "/".  path.Clean follows the *)
(* rules its documentation gives: drop empty and "." elements, let ".."    *)
(* cancel the element before it, drop ".." at the root, and return "." for *)
(* an empty result.                                                        *)
(***************************************************************************)
EXTENDS Naturals, Sequences, SequencesExt

Slash       == "/"
Dot         == <<".">>
DotDot      == <<".", ".">>
DotDotSlash == <<".", ".", "/">>

\* strings.TrimPrefix.
TrimPrefix(s, p) == IF IsPrefix(p, s) THEN SubSeq(s, Len(p) + 1, Len(s)) ELSE s

\* The elements of s between slashes, empty ones included.
RECURSIVE Elements(_)
Elements(s) ==
  IF s = <<>> THEN << <<>> >>
  ELSE LET rest == Elements(Tail(s)) IN
       IF Head(s) = Slash THEN << <<>> >> \o rest
       ELSE << <<Head(s)>> \o Head(rest) >> \o Tail(rest)

\* The elements, joined by slashes.
JoinElements(es) ==
  IF es = <<>> THEN <<>>
  ELSE FoldLeft(LAMBDA acc, e : acc \o <<Slash>> \o e, Head(es), Tail(es))

\* One element of path.Clean's scan over the elements, into out.
CleanStep(rooted, out, e) ==
    IF e = <<>> \/ e = Dot THEN out
    ELSE IF e = DotDot
         THEN IF out # <<>> /\ Last(out) # DotDot THEN Front(out)
              ELSE IF rooted THEN out ELSE Append(out, DotDot)
    ELSE Append(out, e)

\* The elements path.Clean keeps for s.
CleanElements(s) ==
  LET rooted == s # <<>> /\ Head(s) = Slash IN
  FoldLeft(LAMBDA out, e : CleanStep(rooted, out, e), <<>>, Elements(s))

\* path.Clean.
Clean(s) ==
  LET body == JoinElements(CleanElements(s)) IN
  IF s # <<>> /\ Head(s) = Slash THEN <<Slash>> \o body
  ELSE IF body = <<>> THEN Dot ELSE body

\* filepath.Join(dir, name): empty elements are ignored, the rest joined
\* with a slash and cleaned.
Join(dir, name) ==
  IF name = <<>> THEN Clean(dir) ELSE Clean(dir \o <<Slash>> \o name)

\* getPrefix: strings.TrimLeft(file, "/").
RECURSIVE GetPrefix(_)
GetPrefix(file) ==
  IF file # <<>> /\ Head(file) = Slash THEN GetPrefix(Tail(file)) ELSE file

\* stripPathShortcuts: clean, strip "../" while that changes the path, map
\* a leftover "." or ".." to "", and drop one leading slash.
StripPathShortcuts(p) ==
  LET RECURSIVE TrimLoop(_)
      TrimLoop(newPath) ==
        LET trimmed == TrimPrefix(newPath, DotDotSlash) IN
        IF trimmed = newPath THEN newPath ELSE TrimLoop(trimmed)
      stripped == TrimLoop(Clean(p))
      rest == IF stripped = Dot \/ stripped = DotDot THEN <<>> ELSE stripped
  IN IF rest # <<>> /\ Head(rest) = Slash THEN Tail(rest) ELSE rest

====

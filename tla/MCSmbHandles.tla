---------------------------- MODULE MCSmbHandles ----------------------------
(***************************************************************************)
(* SmbHandles for TLC: one directory with a file in it and a second file   *)
(* of the same name beside the directory.                                  *)
(***************************************************************************)
EXTENDS SmbHandles, TLC

CONSTANTS dir, inner, outer, root, nopath, c1, c2

MCNames    == {"dir", "episode"}
MCNameOf   == [p \in Paths |-> IF p = dir THEN "dir" ELSE "episode"]
MCParentOf == [p \in Paths |-> IF p = inner THEN dir ELSE root]

Symmetry == Permutations({c1, c2})
=============================================================================

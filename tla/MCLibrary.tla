----------------------------- MODULE MCLibrary -----------------------------
(* A small instance: a folder, its first season, and a folder of the same   *)
(* name elsewhere; one MAL entry is titled like the folder.                 *)
EXTENDS Library, TLC
CONSTANTS naruto, season, copy, hit, miss, r1, t1, t2

StemOf   == [e \in Ids |-> IF e = season THEN "season" ELSE "naruto"]
InsideOf == [e \in Ids |-> IF e = naruto THEN {season} \cap Ids ELSE {}]
FindsOf  == [e \in Ids |-> IF e = naruto THEN {hit} ELSE {miss}]
TitleOf  == (hit :> "naruto") @@ (miss :> "other")
=============================================================================

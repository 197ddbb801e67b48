------------------------------ MODULE MCCopyJob ------------------------------
(* Instances of CopyJob for TLC.  Files of two chunks are the least that   *)
(* can be partial with something written.                                  *)
EXTENDS CopyJob, TLC

CONSTANTS j1, j2, naruto, bleach, season, bonus, ep1, ep2

(* Two seasons of one name, "Season 1", with a file of the same name, and  *)
(* one with another file.                                                  *)
Twins == (naruto :> <<season, ep1, ep2>>) @@ (bleach :> <<season, ep1>>)

(* One entry with a file in its folder and one in a folder below.          *)
Nested == naruto :> <<season, ep1, bonus, ep2>>
=============================================================================

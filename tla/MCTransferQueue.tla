--------------------------- MODULE MCTransferQueue ---------------------------
(* Instances of TransferQueue for TLC.  With three entries one can be      *)
(* transferred, one wait and one be asked for in between.                  *)
EXTENDS TransferQueue, TLC

(* Entries and slots are interchangeable; only runs without temporal       *)
(* properties use this.                                                    *)
Symmetry == Permutations(Entries) \cup Permutations(Slots)
=============================================================================

--------------------------- MODULE MCSmb2Transport ---------------------------
(***************************************************************************)
(* The negotiation, a write of two credits and a chain of two.             *)
(***************************************************************************)
EXTENDS Smb2Transport

MCCalls == <<"negotiate", "write", "compound">>
MCCharges == [negotiate |-> <<0>>, compound |-> <<1, 1>>, write |-> <<2>>]
MCMischief == {"timeout", "drop", "destroy", "break", "pend"}
=============================================================================

-------------------------- MODULE MCServerLifecycle --------------------------
(* Instances of ServerLifecycle for TLC.  Three start attempts are the     *)
(* least with which a late start can meet a running server and a stop, two *)
(* services the least with which a service outlives the screen it served.  *)
EXTENDS ServerLifecycle
=============================================================================

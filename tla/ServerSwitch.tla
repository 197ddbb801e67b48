----------------------------- MODULE ServerSwitch -----------------------------
(***************************************************************************)
(* What the switch on the phone's screen promises of the server, whatever  *)
(* threads bring it about: a server comes up only after the user asked for *)
(* one, the screen shows STOPPED only when none is up, and it does not     *)
(* stay at STARTING.                                                       *)
(***************************************************************************)
VARIABLES
    shown,  \* what the screen shows
    up      \* a server thread exists

vars == <<shown, up>>

Init == shown = "STOPPED" /\ up = FALSE

Press   == shown = "STOPPED" /\ shown' = "STARTING" /\ UNCHANGED up

ComeUp  == shown = "STARTING" /\ ~up /\ up' = TRUE /\ UNCHANGED shown

Show    == shown = "STARTING" /\ shown' = "RUNNING" /\ UNCHANGED up

GoDown  == up /\ up' = FALSE /\ UNCHANGED shown

Stopped == shown # "STOPPED" /\ ~up /\ shown' = "STOPPED" /\ UNCHANGED up

Answer  == Show \/ (shown = "STARTING" /\ Stopped)

Next == Press \/ ComeUp \/ Show \/ GoDown \/ Stopped

(* A press is answered.                                                    *)
Spec == Init /\ [][Next]_vars /\ WF_vars(Answer)
=============================================================================

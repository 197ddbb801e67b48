----------------------------- MODULE TransferLine -----------------------------
(***************************************************************************)
(* What the transfer window promises: the phone is served one entry after  *)
(* the other, in the order in which the user asked, and none is forgotten. *)
(***************************************************************************)
EXTENDS Sequences, SequencesExt

CONSTANTS Entries, NoEntry

VARIABLES
    line,       \* the entries that wait
    current     \* the entry being served, or NoEntry

vars == <<line, current>>

Init == line = <<>> /\ current = NoEntry

Ask(e) ==
    IF current = NoEntry THEN current' = e /\ UNCHANGED line
    ELSE line' = Append(line, e) /\ UNCHANGED current

Withdraw(i) == line' = RemoveAt(line, i) /\ UNCHANGED current

Serve ==
    /\ current # NoEntry
    /\ IF line = <<>> THEN current' = NoEntry /\ UNCHANGED line
       ELSE current' = Head(line) /\ line' = Tail(line)

Next ==
    \/ \E e \in Entries : Ask(e)
    \/ \E i \in DOMAIN line : Withdraw(i)
    \/ Serve

Spec == Init /\ [][Next]_vars /\ WF_vars(Serve)
=============================================================================

---------------------------- MODULE TransferQueue ----------------------------
(***************************************************************************)
(* The transfer window of src/app.js: one user, one JavaScript thread, and *)
(* the commands it has invoked, whose answers arrive in any order and at   *)
(* any time.  A handler runs to its next await in one step.  The back end  *)
(* is what CopyJob says of it: a transfer that has been sent begins,       *)
(* resetting the cancel flag, and ends in one of three ways.               *)
(***************************************************************************)
EXTENDS Integers, Sequences, FiniteSets, SequencesExt

CONSTANTS
    Entries,    \* entries of the library
    None,       \* null
    Slots,      \* bound: transfers under way at once
    MaxQueue,   \* bound: entries queued
    MaxTimers,  \* bound: timers pending
    MaxCalls    \* bound: answers awaited at once

ASSUME NoneAssumption == None \notin Entries
ASSUME BoundsAssumption == {MaxQueue, MaxTimers, MaxCalls} \subseteq Nat

VARIABLES
    view,       \* the window: hidden, open, or minimized
    screen,     \* showTransferState
    entry,      \* transferEntry
    hasIp,      \* transferPhoneIp # null
    files,      \* the entry whose files transferAllFiles lists, or None
    sel,        \* transferSelectedFiles: none, some or all of those
    canStart,   \* the start button, as the files were rendered last
    listed,     \* the list of files, as it was rendered last, has files
    inProgress, \* transferInProgress
    queue,      \* transferQueue
    timers,     \* pending setTimeout(startTransfer, 300)
    calls,      \* commands whose answer is awaited: <<name, entry>>
    dialog,     \* the confirmation: closed, or about the transfer that ...
    task,       \* the back end's transfers
    cancel      \* CANCEL_TRANSFER

window  == <<view, screen>>
choice  == <<entry, hasIp, files, sel, canStart, listed>>
work    == <<inProgress, queue, timers>>
backend == <<task, cancel>>
vars    == <<window, choice, work, calls, dialog, backend>>

Results == {"ok", "cancelled", "failed"}
NoTask  == [state |-> "idle", entry |-> None, part |-> None]

(* discover_smb_phone and list_entry_files are invoked for an entry,       *)
(* verify_smb_ip by either "Connect" button.  Bound: of two calls with the *)
(* same name and entry the first is answered before the second is made.    *)
Calls == ({"discover", "list"} \X Entries) \cup {<<"verify", None>>}

Init ==
    /\ view = "hidden" /\ screen = "discovery"
    /\ entry = None /\ hasIp = FALSE /\ files = None /\ sel = "none"
    /\ canStart = TRUE /\ listed = FALSE
    /\ inProgress = FALSE /\ queue = <<>> /\ timers = 0
    /\ calls = {}
    /\ dialog = "closed"
    /\ task = [t \in Slots |-> NoTask]
    /\ cancel = FALSE

-----------------------------------------------------------------------------
(* selectedFiles: a list only if some but not all files are selected.      *)
Part == IF sel = "some" THEN files ELSE None

(* startTransfer.                                                          *)
CanTransfer == entry # None /\ hasIp

StartTransfer ==
    IF ~CanTransfer
    THEN UNCHANGED <<inProgress, screen, task>>
    ELSE /\ inProgress' = TRUE
         /\ screen' = "progress"
         /\ \E t \in Slots :
               /\ task[t] = NoTask
               /\ task' = [task EXCEPT ![t] =
                              [state |-> "sent", entry |-> entry, part |-> Part]]

(* openTransferModal.  While a transfer is in progress the phone's address *)
(* is known (KnownWhileBusy), so the call it might make is never made.     *)
(* The mutant forgets the test.                                            *)
NeverBusy == FALSE
IsBusy    == inProgress

OpenTransferModal(e) ==
    IF IsBusy
    THEN /\ Len(queue) < MaxQueue
         /\ queue' = Append(queue, e)
         /\ UNCHANGED <<window, choice, inProgress, timers, calls>>
    ELSE /\ <<"discover", e>> \notin calls /\ Cardinality(calls) < MaxCalls
         /\ entry' = e /\ hasIp' = FALSE /\ files' = None /\ sel' = "none"
         /\ view' = "open" /\ screen' = "discovery"
         /\ UNCHANGED <<canStart, listed>>
         /\ calls' = calls \cup {<<"discover", e>>}
         /\ UNCHANGED work

-----------------------------------------------------------------------------
(* The user.  The window covers the library, and the dialog the window.    *)
UserFree == dialog = "closed"

OpenEntry(e) ==
    /\ UserFree /\ view # "open"
    /\ OpenTransferModal(e)
    /\ UNCHANGED <<dialog, backend>>

Retry ==
    /\ UserFree /\ view = "open" /\ screen = "error" /\ entry # None
    /\ OpenTransferModal(entry)
    /\ UNCHANGED <<dialog, backend>>

ConnectManually ==
    /\ UserFree /\ view = "open" /\ screen \in {"discovery", "error"}
    /\ <<"verify", None>> \notin calls /\ Cardinality(calls) < MaxCalls
    /\ calls' = calls \cup {<<"verify", None>>}
    /\ UNCHANGED <<window, choice, work, dialog, backend>>

(* The files shown may no longer be those of transferAllFiles: between a   *)
(* cancelled transfer and the next one that list is empty.  In an entry    *)
(* without files there is nothing to select.                               *)
Select(s) ==
    /\ UserFree /\ view = "open" /\ screen = "files"
    /\ s # sel
    /\ s = "all" => files # None
    /\ s = "some" => listed
    /\ sel' = s
    /\ canStart' = (s # "none")
    /\ UNCHANGED <<window, entry, hasIp, files, listed, work, calls, dialog, backend>>

ClickStart ==
    /\ UserFree /\ view = "open" /\ screen = "files" /\ canStart
    /\ StartTransfer
    /\ UNCHANGED <<view, choice, queue, timers, calls, dialog, cancel>>

(* The cancel buttons of the window and of its minimized form.             *)
ClickCancel ==
    /\ UserFree
    /\ view = "mini" \/ (view = "open" /\ screen = "progress")
    /\ cancel' = TRUE
    /\ UNCHANGED <<window, choice, work, calls, dialog, task>>

(* The close button, and a click beside the window.                        *)
ClickClose ==
    /\ UserFree /\ view = "open"
    /\ IF inProgress THEN dialog' = "asked" /\ UNCHANGED view
       ELSE view' = "hidden" /\ UNCHANGED dialog
    /\ UNCHANGED <<screen, choice, work, calls, backend>>

AnswerDialog(ok) ==
    /\ dialog # "closed"
    /\ dialog' = "closed"
    /\ view' = "hidden"
    /\ cancel' = (ok \/ cancel)
    /\ UNCHANGED <<screen, choice, work, calls, task>>

ClickDone ==
    /\ UserFree /\ view = "open" /\ screen \in {"complete", "error"}
    /\ view' = "hidden"
    /\ UNCHANGED <<screen, choice, work, calls, dialog, backend>>

Minimize ==
    /\ UserFree /\ view \in {"open", "mini"}
    /\ view' = IF view = "open" THEN "mini" ELSE "open"
    /\ UNCHANGED <<screen, choice, work, calls, dialog, backend>>

RemoveQueued(i) ==
    /\ UserFree /\ view = "open"
    /\ i \in DOMAIN queue
    /\ queue' = RemoveAt(queue, i)
    /\ UNCHANGED <<window, choice, inProgress, timers, calls, dialog, backend>>

-----------------------------------------------------------------------------
(* Answers.  A discovery that fails only shows the manual entry.           *)
Discovered(e) ==
    /\ <<"discover", e>> \in calls
    /\ \/ /\ <<"list", e>> \notin calls
          /\ hasIp' = TRUE
          /\ screen' = "found"
          /\ calls' = (calls \ {<<"discover", e>>}) \cup {<<"list", e>>}
       \/ /\ calls' = calls \ {<<"discover", e>>}
          /\ UNCHANGED <<hasIp, screen>>
    /\ UNCHANGED <<view, entry, files, sel, canStart, listed, work, dialog, backend>>

(* "Connect": the address is checked, then the files of the entry shown    *)
(* are listed.                                                             *)
Verified ==
    /\ <<"verify", None>> \in calls
    /\ \/ /\ <<"list", entry>> \notin calls
          /\ hasIp' = TRUE
          /\ screen' = "found"
          /\ calls' = (calls \ {<<"verify", None>>}) \cup {<<"list", entry>>}
       \/ /\ calls' = calls \ {<<"verify", None>>}
          /\ UNCHANGED <<hasIp, screen>>
    /\ UNCHANGED <<view, entry, files, sel, canStart, listed, work, dialog, backend>>

(* An entry may have no files (one that was just added has none); a list   *)
(* that fails leaves the screen as it is.                                  *)
Listed(e) ==
    /\ <<"list", e>> \in calls
    /\ calls' = calls \ {<<"list", e>>}
    /\ \/ /\ files' = e /\ sel' = "all" /\ canStart' = TRUE /\ listed' = TRUE
          /\ screen' = "files"
       \/ /\ files' = None /\ sel' = "none" /\ canStart' = FALSE /\ listed' = FALSE
          /\ screen' = "files"
       \/ /\ files' = None /\ sel' = "none"
          /\ UNCHANGED <<screen, canStart, listed>>
    /\ UNCHANGED <<view, entry, hasIp, work, dialog, backend>>

Timer ==
    /\ timers > 0
    /\ timers' = timers - 1
    /\ StartTransfer
    /\ UNCHANGED <<view, choice, queue, calls, dialog, cancel>>

(* The back end's side of a transfer.                                      *)
Begins(t) ==
    /\ task[t].state = "sent"
    /\ cancel' = FALSE
    /\ \E s \in {"running", "failed"} : task' = [task EXCEPT ![t].state = s]
    /\ UNCHANGED <<window, choice, work, calls, dialog>>

Ends(t) ==
    /\ task[t].state = "running"
    /\ \E r \in Results :
          /\ r = "cancelled" => cancel
          /\ task' = [task EXCEPT ![t].state = r]
    /\ UNCHANGED <<window, choice, work, calls, dialog, cancel>>

(* showTransferState at the end of a transfer.  The mutant gives it the    *)
(* name of no screen.                                                      *)
ScreenOfResult(r) == IF r = "ok" THEN "complete" ELSE r

ScreenAfter(r) ==
    CASE r = "ok"        -> "complete"
      [] r = "failed"    -> "error"
      [] r = "cancelled" -> IF files = None THEN "found" ELSE "files"

(* The queue's next entry.  The mutant serves the last one first.          *)
QueueRest == Tail(queue)

NextLast  == queue[Len(queue)]
NextFirst == Head(queue)

(* The mutant keeps the last transfer's selection.                         *)
KeptSelection  == UNCHANGED <<files, sel>>
ClearSelection == files' = None /\ sel' = "none"

(* Both ends of a transfer clear transferInProgress and look at the queue. *)
(* The mutants forget it in the handler of errors.                         *)
StaysBusy(r) == r = "failed"
BusyAfter(r) == FALSE

ServesOnSuccess(r) == queue # <<>> /\ r = "ok"
ServesNext(r)      == queue # <<>>

(* The answer of transfer_folder_to_phone, then processNextInQueue.        *)
Answered(t) ==
    /\ task[t].state \in Results
    /\ task' = [task EXCEPT ![t] = NoTask]
    /\ inProgress' = BusyAfter(task[t].state)
    /\ screen' = ScreenAfter(task[t].state)
    /\ dialog' = IF dialog = "asked" THEN "stale" ELSE dialog
    /\ canStart' = IF screen' = "files" THEN sel # "none" ELSE canStart
    /\ listed' = (listed \/ screen' = "files")
    /\ IF ~ServesNext(task[t].state)
       THEN UNCHANGED <<entry, hasIp, files, sel, queue, timers>>
       ELSE /\ timers < MaxTimers
            /\ queue' = QueueRest
            /\ entry' = NextFirst
            /\ hasIp' = TRUE
            /\ ClearSelection
            /\ timers' = timers + 1
    /\ UNCHANGED <<view, calls, cancel>>

-----------------------------------------------------------------------------
User ==
    \/ \E e \in Entries : OpenEntry(e)
    \/ Retry \/ ConnectManually
    \/ \E s \in {"none", "some", "all"} : Select(s)
    \/ ClickStart \/ ClickCancel \/ ClickClose \/ ClickDone \/ Minimize
    \/ \E i \in 1 .. MaxQueue : RemoveQueued(i)

Answers ==
    \/ \E e \in Entries : Discovered(e) \/ Listed(e)
    \/ Verified \/ Timer
    \/ \E t \in Slots : Begins(t) \/ Ends(t) \/ Answered(t)

Dialog == \E ok \in BOOLEAN : AnswerDialog(ok)

Next == User \/ Dialog \/ Answers

(* A user who waits for what is under way, short of a transfer: the search *)
(* for the phone, the list of the files, the 300 ms before the next one.   *)
PatientUser == calls = {} /\ timers = 0 /\ User

PatientNext == PatientUser \/ Dialog \/ Answers

(* Commands are answered, transfers end (CopyJob!JobEnds), timers fire.    *)
Fairness ==
    /\ WF_vars(Timer)
    /\ \A t \in Slots : WF_vars(Begins(t) \/ Ends(t) \/ Answered(t))

Spec        == Init /\ [][Next]_vars
PatientSpec == Init /\ [][PatientNext]_vars /\ Fairness

-----------------------------------------------------------------------------
Task == [state : {"idle", "sent", "running"} \cup Results,
         entry : Entries \cup {None}, part : Entries \cup {None}]

TypeOK ==
    /\ view \in {"hidden", "open", "mini"}
    /\ screen \in {"discovery", "found", "files", "progress", "complete", "error"}
    /\ entry \in Entries \cup {None} /\ files \in Entries \cup {None}
    /\ canStart \in BOOLEAN /\ listed \in BOOLEAN
    /\ hasIp \in BOOLEAN /\ inProgress \in BOOLEAN /\ cancel \in BOOLEAN
    /\ sel \in {"none", "some", "all"}
    /\ queue \in Seq(Entries) /\ Len(queue) <= MaxQueue
    /\ timers \in Nat
    /\ calls \subseteq Calls
    /\ dialog \in {"closed", "asked", "stale"}
    /\ task \in [Slots -> Task]

Under(t) == task[t] # NoTask

(* The phone's address is known as long as a transfer is in progress.      *)
KnownWhileBusy == inProgress => hasIp /\ entry # None

(* One transfer at a time, and transferInProgress says so: two would share *)
(* the cancel flag and the progress shown.                                 *)
OneTransfer ==
    /\ inProgress <=> \E t \in Slots : Under(t)
    /\ \A s, t \in Slots : Under(s) /\ Under(t) => s = t
    /\ timers > 0 => ~inProgress /\ timers = 1

(* "Queued: ..." (openTransferModal): an entry that waits has a transfer   *)
(* before it whose end, or a timer whose firing, will start it.            *)
QueueIsServed == queue # <<>> => inProgress \/ timers > 0

(* "Transfer Selected" (index.html): a transfer of selected files is given *)
(* files of the entry it transfers.                                        *)
SelectionFits == \A t \in Slots : task[t].part \in {None, task[t].entry}

(* The types of what transfers and their order depend on; for a patient    *)
(* user there is one timer at most.                                        *)
Types ==
    /\ entry \in Entries \cup {None} /\ files \in Entries \cup {None}
    /\ hasIp \in BOOLEAN /\ inProgress \in BOOLEAN
    /\ queue \in Seq(Entries)
    /\ timers \in {0, 1}
    /\ task \in [Slots -> Task]

(* While a transfer is under way, or about to be, nothing else is awaited  *)
(* and the files are not shown, so nothing changes its entry or starts     *)
(* another.                                                                *)
BusyIsAlone ==
    /\ inProgress => screen = "progress" /\ timers = 0
    /\ inProgress \/ timers = 1 => calls = {} /\ CanTransfer

(* Whatever is awaited was asked for the entry shown.                      *)
AwaitedIsShown ==
    /\ files \in {None, entry}
    /\ \A e \in Entries : \A n \in {"discover", "list"} : <<n, e>> \in calls => e = entry

(* What a user who waits for searches and lists can rely on: one transfer  *)
(* at a time, of the entry shown, with its own files, and nobody in the    *)
(* queue forgotten.                                                        *)
QueueInv == Types /\ OneTransfer /\ BusyIsAlone /\ AwaitedIsShown
            /\ QueueIsServed /\ SelectionFits

(* "Cancel transfer?": the dialog is about the transfer that a "yes" would *)
(* cancel.                                                                 *)
DialogIsCurrent == dialog = "stale" => ~inProgress

(* A transfer that was started is answered for.                            *)
TransferEnds == inProgress ~> ~inProgress

(* One entry after the other, in order: see TransferLine.                  *)
Line == INSTANCE TransferLine WITH
            NoEntry <- None, line <- queue,
            current <- IF inProgress \/ timers > 0 THEN entry ELSE None
LineSpec == Line!Spec
=============================================================================

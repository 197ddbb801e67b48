------------------------- MODULE TransferQueueProofs -------------------------
(***************************************************************************)
(* Theorems of TransferQueue, for every number of entries, of transfers    *)
(* and of queued entries: what a user who waits for the answers gets.      *)
(***************************************************************************)
EXTENDS TransferQueue, TLAPS, SequenceTheorems

LEMMA QueueInit == Init => QueueInv
  <1> SUFFICES ASSUME Init PROVE QueueInv
    OBVIOUS
  <1>1. <<>> \in Seq(Entries)
    OBVIOUS
  <1>2. NoTask \in Task
    BY DEF NoTask, Task
  <1>3. Types
    BY <1>1, <1>2 DEF Init, Types
  <1> QED
    BY <1>3 DEF Init, QueueInv, OneTransfer, BusyIsAlone, AwaitedIsShown,
                QueueIsServed, SelectionFits, Under, NoTask

-----------------------------------------------------------------------------
(* Starting a transfer while none is under way: by the user, who sees the  *)
(* files, or by the timer.                                                 *)
LEMMA StartKeeps ==
    ASSUME QueueInv, ~inProgress, StartTransfer, calls = {}, calls' = {},
           timers' = 0, queue # <<>> => CanTransfer,
           UNCHANGED <<entry, hasIp, files, queue>>
    PROVE  QueueInv'
  <1>1. CASE ~CanTransfer
    <2>1. UNCHANGED <<inProgress, screen, task>>
      BY <1>1 DEF StartTransfer
    <2>2. Types' /\ SelectionFits'
      BY <2>1 DEF QueueInv, Types, SelectionFits
    <2>3. OneTransfer'
      BY <2>1 DEF QueueInv, OneTransfer, Under
    <2>4. BusyIsAlone' /\ AwaitedIsShown'
      BY <2>1 DEF QueueInv, BusyIsAlone, AwaitedIsShown
    <2>5. QueueIsServed'
      BY <1>1 DEF QueueIsServed
    <2> QED
      BY <2>2, <2>3, <2>4, <2>5 DEF QueueInv
  <1>2. CASE CanTransfer
    <2>1. PICK t \in Slots :
              task' = [task EXCEPT ![t] =
                          [state |-> "sent", entry |-> entry, part |-> Part]]
      BY <1>2 DEF StartTransfer
    <2>2. inProgress' = TRUE /\ screen' = "progress"
      BY <1>2 DEF StartTransfer
    <2>3. \A s \in Slots : ~Under(s)
      BY DEF QueueInv, OneTransfer
    <2>4. Part \in {None, entry}
      BY DEF QueueInv, AwaitedIsShown, Part
    <2>5. [state |-> "sent", entry |-> entry, part |-> Part] \in Task
      BY <2>4 DEF QueueInv, Types, Task
    <2>6. Types'
      BY <2>1, <2>2, <2>5 DEF QueueInv, Types
    <2>7. \A s \in Slots : Under(s)' <=> s = t
      BY <2>1, <2>3 DEF QueueInv, Types, Under, NoTask
    <2>8. OneTransfer'
      BY <2>2, <2>7 DEF OneTransfer
    <2>9. BusyIsAlone' /\ AwaitedIsShown' /\ QueueIsServed'
      BY <1>2, <2>2 DEF QueueInv, BusyIsAlone, AwaitedIsShown, QueueIsServed,
                        CanTransfer
    <2>10. SelectionFits'
      BY <2>1, <2>4 DEF QueueInv, Types, SelectionFits
    <2> QED
      BY <2>6, <2>8, <2>9, <2>10 DEF QueueInv
  <1> QED
    BY <1>1, <1>2

(* Steps of the window that leave the transfers, the queue and what is     *)
(* awaited alone.                                                          *)
LEMMA WindowKeeps ==
    ASSUME QueueInv, UNCHANGED <<inProgress, timers, queue, task, calls>>,
           inProgress => UNCHANGED screen,
           UNCHANGED <<entry, hasIp, files>>
    PROVE  QueueInv'
  <1>1. Types' /\ AwaitedIsShown'
    BY DEF QueueInv, Types, AwaitedIsShown
  <1>2. BusyIsAlone' /\ QueueIsServed' /\ SelectionFits'
    BY DEF QueueInv, BusyIsAlone, CanTransfer, QueueIsServed, SelectionFits
  <1>3. OneTransfer'
    BY DEF QueueInv, OneTransfer, Under
  <1> QED
    BY <1>1, <1>2, <1>3 DEF QueueInv

(* Opening an entry: in the queue while busy, in the window otherwise.     *)
LEMMA OpenKeeps ==
    ASSUME QueueInv, calls = {}, timers = 0, NEW e \in Entries,
           OpenTransferModal(e), UNCHANGED task
    PROVE  QueueInv'
  <1>1. CASE inProgress
    <2>1. queue' = Append(queue, e)
          /\ UNCHANGED <<screen, entry, hasIp, files, inProgress, timers, calls>>
      BY <1>1 DEF OpenTransferModal, IsBusy, window, choice
    <2>2. Types' /\ AwaitedIsShown'
      BY <2>1 DEF QueueInv, Types, AwaitedIsShown
    <2>3. BusyIsAlone' /\ QueueIsServed' /\ SelectionFits'
      BY <1>1, <2>1 DEF QueueInv, BusyIsAlone, CanTransfer, QueueIsServed,
                        SelectionFits
    <2>4. OneTransfer'
      BY <2>1 DEF QueueInv, OneTransfer, Under
    <2> QED
      BY <2>2, <2>3, <2>4 DEF QueueInv
  <1>2. CASE ~inProgress
    <2>1. /\ entry' = e /\ hasIp' = FALSE /\ files' = None
          /\ calls' = {<<"discover", e>>}
          /\ UNCHANGED <<inProgress, queue, timers>>
      BY <1>2 DEF OpenTransferModal, IsBusy, work
    <2>2. Types' /\ AwaitedIsShown'
      BY <2>1 DEF QueueInv, Types, AwaitedIsShown
    <2>3. BusyIsAlone' /\ QueueIsServed' /\ SelectionFits'
      BY <1>2, <2>1 DEF QueueInv, BusyIsAlone, QueueIsServed, SelectionFits
    <2>4. OneTransfer'
      BY <2>1 DEF QueueInv, OneTransfer, Under
    <2> QED
      BY <2>2, <2>3, <2>4 DEF QueueInv
  <1> QED
    BY <1>1, <1>2 DEF QueueInv, Types

LEMMA RemoveKeeps ==
    ASSUME QueueInv, NEW i, RemoveQueued(i)
    PROVE  QueueInv'
  <1>1. i \in 1 .. Len(queue) /\ queue \in Seq(Entries)
    BY DEF RemoveQueued, QueueInv, Types
  <1>2. queue' \in Seq(Entries) /\ queue # <<>>
    BY <1>1 DEF RemoveQueued, RemoveAt
  <1>3. UNCHANGED <<screen, entry, hasIp, files, inProgress, timers, calls, task>>
    BY DEF RemoveQueued, window, choice, backend
  <1>4. Types' /\ AwaitedIsShown'
    BY <1>2, <1>3 DEF QueueInv, Types, AwaitedIsShown
  <1>5. BusyIsAlone' /\ QueueIsServed' /\ SelectionFits'
    BY <1>2, <1>3 DEF QueueInv, BusyIsAlone, CanTransfer, QueueIsServed,
                      SelectionFits
  <1>6. OneTransfer'
    BY <1>3 DEF QueueInv, OneTransfer, Under
  <1> QED
    BY <1>4, <1>5, <1>6 DEF QueueInv

(* What the user does while nothing is awaited.                            *)
LEMMA UserKeeps ==
    ASSUME QueueInv, PatientUser
    PROVE  QueueInv'
  <1> USE DEF PatientUser
  <1>1. ASSUME NEW e \in Entries, OpenEntry(e) PROVE QueueInv'
    BY <1>1, OpenKeeps DEF OpenEntry, backend
  <1>2. CASE Retry
    BY <1>2, OpenKeeps DEF Retry, backend, QueueInv, Types
  <1>3. CASE ConnectManually
    <2>1. ~inProgress /\ timers = 0
      BY <1>3 DEF ConnectManually, QueueInv, BusyIsAlone
    <2>2. calls' = {<<"verify", None>>}
          /\ UNCHANGED <<entry, hasIp, files, inProgress, queue, timers, task>>
      BY <1>3 DEF ConnectManually, choice, work, backend
    <2>3. Types' /\ AwaitedIsShown'
      BY <2>2 DEF QueueInv, Types, AwaitedIsShown
    <2>4. BusyIsAlone' /\ QueueIsServed' /\ SelectionFits'
      BY <2>1, <2>2 DEF QueueInv, BusyIsAlone, QueueIsServed, SelectionFits
    <2>5. OneTransfer'
      BY <2>2 DEF QueueInv, OneTransfer, Under
    <2> QED
      BY <2>3, <2>4, <2>5 DEF QueueInv
  <1>4. ASSUME NEW s, Select(s) PROVE QueueInv'
    BY <1>4, WindowKeeps DEF Select, window, work, backend
  <1>5. CASE ClickStart
    <2>1. ~inProgress /\ queue = <<>>
      BY <1>5 DEF ClickStart, QueueInv, BusyIsAlone, QueueIsServed
    <2> QED
      BY <1>5, <2>1, StartKeeps DEF ClickStart, choice
  <1>6. CASE ClickCancel
    BY <1>6, WindowKeeps DEF ClickCancel, window, choice, work
  <1>7. CASE ClickClose
    BY <1>7, WindowKeeps DEF ClickClose, choice, work, backend
  <1>8. CASE ClickDone
    BY <1>8, WindowKeeps DEF ClickDone, choice, work, backend
  <1>9. CASE Minimize
    BY <1>9, WindowKeeps DEF Minimize, choice, work, backend
  <1> QED
    BY <1>1, <1>2, <1>3, <1>4, <1>5, <1>6, <1>7, <1>8, <1>9, RemoveKeeps DEF User

-----------------------------------------------------------------------------
(* Answers of searches and lists: there is no transfer, nor one to come.   *)
LEMMA AnswerKeeps ==
    ASSUME QueueInv, calls # {},
           UNCHANGED <<entry, inProgress, queue, timers, task>>,
           hasIp' \in BOOLEAN,
           files' \in {None, entry},
           \A e \in Entries : \A n \in {"discover", "list"} :
              <<n, e>> \in calls' => e = entry
    PROVE  QueueInv'
  <1>1. ~inProgress /\ timers = 0
    BY DEF QueueInv, BusyIsAlone, Types
  <1>2. Types' /\ AwaitedIsShown'
    BY DEF QueueInv, Types, AwaitedIsShown
  <1>3. BusyIsAlone' /\ QueueIsServed' /\ SelectionFits'
    BY <1>1 DEF QueueInv, BusyIsAlone, QueueIsServed, SelectionFits
  <1>4. OneTransfer'
    BY DEF QueueInv, OneTransfer, Under
  <1> QED
    BY <1>2, <1>3, <1>4 DEF QueueInv

LEMMA CallsKeep ==
    ASSUME QueueInv,
           (\E e \in Entries : Discovered(e) \/ Listed(e)) \/ Verified
    PROVE  QueueInv'
  <1>1. ASSUME NEW e \in Entries, Discovered(e) PROVE QueueInv'
    <2>1. e = entry /\ calls # {}
      BY <1>1 DEF Discovered, QueueInv, AwaitedIsShown
    <2>2. calls' \subseteq calls \cup {<<"list", entry>>}
      BY <1>1, <2>1 DEF Discovered
    <2>3. hasIp' \in BOOLEAN /\ files' \in {None, entry}
          /\ UNCHANGED <<entry, inProgress, queue, timers, task>>
      BY <1>1 DEF Discovered, work, backend, QueueInv, Types, AwaitedIsShown
    <2>4. \A f \in Entries : \A n \in {"discover", "list"} :
              <<n, f>> \in calls' => f = entry
      BY <2>2 DEF QueueInv, AwaitedIsShown
    <2> QED
      BY <2>1, <2>3, <2>4, AnswerKeeps
  <1>2. ASSUME NEW e \in Entries, Listed(e) PROVE QueueInv'
    <2>1. e = entry /\ calls # {}
      BY <1>2 DEF Listed, QueueInv, AwaitedIsShown
    <2>2. calls' \subseteq calls
      BY <1>2 DEF Listed
    <2>3. hasIp' \in BOOLEAN /\ files' \in {None, entry}
          /\ UNCHANGED <<entry, inProgress, queue, timers, task>>
      BY <1>2, <2>1 DEF Listed, work, backend, QueueInv, Types
    <2>4. \A f \in Entries : \A n \in {"discover", "list"} :
              <<n, f>> \in calls' => f = entry
      BY <2>2 DEF QueueInv, AwaitedIsShown
    <2> QED
      BY <2>1, <2>3, <2>4, AnswerKeeps
  <1>3. CASE Verified
    <2>1. calls # {} /\ calls' \subseteq calls \cup {<<"list", entry>>}
      BY <1>3 DEF Verified
    <2>2. hasIp' \in BOOLEAN /\ files' \in {None, entry}
          /\ UNCHANGED <<entry, inProgress, queue, timers, task>>
      BY <1>3 DEF Verified, work, backend, QueueInv, Types, AwaitedIsShown
    <2>3. \A f \in Entries : \A n \in {"discover", "list"} :
              <<n, f>> \in calls' => f = entry
      BY <2>1 DEF QueueInv, AwaitedIsShown
    <2> QED
      BY <2>1, <2>2, <2>3, AnswerKeeps
  <1> QED
    BY <1>1, <1>2, <1>3

LEMMA TimerKeeps ==
    ASSUME QueueInv, Timer
    PROVE  QueueInv'
  <1>1. timers = 1 /\ timers' = 0
    BY DEF Timer, QueueInv, Types
  <1>2. ~inProgress /\ calls = {} /\ CanTransfer
    BY <1>1 DEF QueueInv, OneTransfer, BusyIsAlone
  <1> QED
    BY <1>1, <1>2, StartKeeps DEF Timer, choice

(* The back end's steps keep the transfer under way.                       *)
LEMMA BackendKeeps ==
    ASSUME QueueInv, NEW t \in Slots, Begins(t) \/ Ends(t)
    PROVE  QueueInv'
  <1>1. PICK r \in {"running"} \cup Results : task' = [task EXCEPT ![t].state = r]
    BY DEF Begins, Ends, Results
  <1>2. task[t].state # "idle" /\ r # "idle"
    BY DEF Begins, Ends, Results
  <1>3. UNCHANGED <<screen, entry, hasIp, files, inProgress, queue, timers, calls>>
    BY DEF Begins, Ends, window, choice, work
  <1>4. task' \in [Slots -> Task]
    BY <1>1 DEF QueueInv, Types, Task
  <1>5. \A s \in Slots : Under(s)' <=> Under(s)
    BY <1>1, <1>2 DEF QueueInv, Types, Task, Under, NoTask
  <1>6. Types' /\ AwaitedIsShown'
    BY <1>3, <1>4 DEF QueueInv, Types, AwaitedIsShown
  <1>7. SelectionFits'
    BY <1>1 DEF QueueInv, Types, Task, SelectionFits
  <1>8. BusyIsAlone' /\ QueueIsServed'
    BY <1>3 DEF QueueInv, BusyIsAlone, CanTransfer, QueueIsServed
  <1>9. OneTransfer'
    BY <1>3, <1>5 DEF QueueInv, OneTransfer
  <1> QED
    BY <1>6, <1>7, <1>8, <1>9 DEF QueueInv

(* The end of a transfer, with the next entry of the queue.                *)
LEMMA AnsweredKeeps ==
    ASSUME QueueInv, NEW t \in Slots, Answered(t)
    PROVE  QueueInv'
  <1>1. Under(t) /\ task' = [task EXCEPT ![t] = NoTask] /\ inProgress' = FALSE
    BY DEF Answered, BusyAfter, Under, NoTask, Results
  <1>2. inProgress /\ timers = 0 /\ calls = {} /\ calls' = {}
    BY <1>1 DEF QueueInv, OneTransfer, BusyIsAlone, Answered
  <1>3. NoTask \in Task /\ task \in [Slots -> Task]
    BY DEF NoTask, Task, QueueInv, Types
  <1>4. \A s \in Slots : ~Under(s)'
    BY <1>1, <1>3 DEF QueueInv, OneTransfer, Under
  <1>5. SelectionFits'
    BY <1>1, <1>3 DEF QueueInv, SelectionFits, NoTask
  <1>6. CASE queue = <<>>
    <2>1. UNCHANGED <<entry, hasIp, files, queue, timers>>
      BY <1>6 DEF Answered, ServesNext
    <2>2. Types' /\ AwaitedIsShown'
      BY <1>1, <1>2, <1>3, <2>1 DEF QueueInv, Types, AwaitedIsShown
    <2>3. BusyIsAlone' /\ QueueIsServed' /\ OneTransfer'
      BY <1>1, <1>2, <1>4, <1>6, <2>1 DEF BusyIsAlone, QueueIsServed, OneTransfer
    <2> QED
      BY <1>5, <2>2, <2>3 DEF QueueInv
  <1>7. CASE queue # <<>>
    <2>1. /\ queue' = Tail(queue) /\ entry' = Head(queue) /\ hasIp' = TRUE
          /\ files' = None /\ timers' = 1
      BY <1>2, <1>7 DEF Answered, ServesNext, QueueRest, NextFirst, ClearSelection
    <2>2. Head(queue) \in Entries /\ Tail(queue) \in Seq(Entries)
      BY <1>7 DEF QueueInv, Types
    <2>3. Types' /\ AwaitedIsShown'
      BY <1>1, <1>2, <1>3, <2>1, <2>2 DEF QueueInv, Types, AwaitedIsShown
    <2>4. BusyIsAlone' /\ QueueIsServed' /\ OneTransfer'
      BY <1>1, <1>2, <1>4, <2>1, <2>2, NoneAssumption
         DEF BusyIsAlone, CanTransfer, QueueIsServed, OneTransfer
    <2> QED
      BY <1>5, <2>3, <2>4 DEF QueueInv
  <1> QED
    BY <1>6, <1>7

-----------------------------------------------------------------------------
LEMMA QueueStep == QueueInv /\ [PatientNext]_vars => QueueInv'
  <1> SUFFICES ASSUME QueueInv, [PatientNext]_vars PROVE QueueInv'
    OBVIOUS
  <1>1. ASSUME NEW ok \in BOOLEAN, AnswerDialog(ok) PROVE QueueInv'
    BY <1>1, WindowKeeps DEF AnswerDialog, choice, work
  <1>2. CASE Answers
    BY <1>2, CallsKeep, TimerKeeps, BackendKeeps, AnsweredKeeps DEF Answers
  <1>3. CASE UNCHANGED vars
    BY <1>3, WindowKeeps DEF vars, window, choice, work, backend
  <1> QED
    BY <1>1, <1>2, <1>3, UserKeeps DEF PatientNext, Dialog

(* QueueInv holds for a user who waits for searches, lists and the timer   *)
(* (startTransfer, processNextInQueue, openTransferModal).                 *)
THEOREM PatientQueue == PatientSpec => []QueueInv
  <1> QED
    BY QueueInit, QueueStep, PTL DEF PatientSpec

(* Such a user never has two transfers under way: openTransferModal queues *)
(* while transferInProgress, and the timer of processNextInQueue is the    *)
(* only one that starts the next.                                          *)
THEOREM OneTransferAlways == PatientSpec => []OneTransfer
  <1>1. QueueInv => OneTransfer
    BY DEF QueueInv
  <1> QED
    BY <1>1, PatientQueue, PTL

(* Such a user's queued entries are never stranded: a transfer or a timer  *)
(* that can start is before them (processNextInQueue).                     *)
THEOREM QueueAlwaysServed == PatientSpec => []QueueIsServed
  <1>1. QueueInv => QueueIsServed
    BY DEF QueueInv
  <1> QED
    BY <1>1, PatientQueue, PTL

(* Such a user's transfers carry files of their own entry, although the    *)
(* selection is a global that window and queue both write (startTransfer). *)
THEOREM SelectionAlwaysFits == PatientSpec => []SelectionFits
  <1>1. QueueInv => SelectionFits
    BY DEF QueueInv
  <1> QED
    BY <1>1, PatientQueue, PTL

(* Whatever the user does and in whatever order the answers come, a        *)
(* transfer in progress has its phone and its entry (startTransfer 2532),  *)
(* so openTransferModal never searches for the phone to queue an entry.    *)
THEOREM KnownAlways == Spec => []KnownWhileBusy
  <1>1. Init => KnownWhileBusy
    BY DEF Init, KnownWhileBusy
  <1>2. KnownWhileBusy /\ [Next]_vars => KnownWhileBusy'
    <2> SUFFICES ASSUME KnownWhileBusy, [Next]_vars PROVE KnownWhileBusy'
      OBVIOUS
    <2> USE DEF KnownWhileBusy
    <2>1. ASSUME UNCHANGED <<inProgress, entry, hasIp>> PROVE KnownWhileBusy'
      BY <2>1
    <2>2. ASSUME NEW e, OpenTransferModal(e) PROVE KnownWhileBusy'
      BY <2>2 DEF OpenTransferModal, IsBusy, choice, work
    <2>3. ASSUME StartTransfer, UNCHANGED <<entry, hasIp>> PROVE KnownWhileBusy'
      BY <2>3 DEF StartTransfer, CanTransfer
    <2>4. CASE User
      <3>1. CASE (\E e \in Entries : OpenEntry(e)) \/ Retry
        BY <2>2, <3>1 DEF OpenEntry, Retry
      <3>2. CASE ClickStart
        BY <2>3, <3>2 DEF ClickStart, choice
      <3>3. CASE ConnectManually \/ ClickCancel \/ ClickClose \/ ClickDone \/ Minimize
        BY <2>1, <3>3 DEF ConnectManually, ClickCancel, ClickClose, ClickDone,
                          Minimize, choice, work
      <3>4. ASSUME NEW s, Select(s) PROVE KnownWhileBusy'
        BY <2>1, <3>4 DEF Select, work
      <3>5. ASSUME NEW i, RemoveQueued(i) PROVE KnownWhileBusy'
        BY <2>1, <3>5 DEF RemoveQueued, choice
      <3> QED
        BY <2>4, <3>1, <3>2, <3>3, <3>4, <3>5 DEF User
    <2>5. CASE Answers
      <3>1. ASSUME NEW e, Discovered(e) PROVE KnownWhileBusy'
        <4>1. UNCHANGED <<inProgress, entry>>
          BY <3>1 DEF Discovered, work
        <4>2. hasIp' = TRUE \/ UNCHANGED hasIp
          BY <3>1 DEF Discovered
        <4> QED
          BY <4>1, <4>2
      <3>6. ASSUME NEW e, Listed(e) PROVE KnownWhileBusy'
        BY <2>1, <3>6 DEF Listed, work
      <3>2. CASE Verified
        <4>1. UNCHANGED <<inProgress, entry>>
          BY <3>2 DEF Verified, work
        <4>2. hasIp' = TRUE \/ UNCHANGED hasIp
          BY <3>2 DEF Verified
        <4> QED
          BY <4>1, <4>2
      <3>3. CASE Timer
        BY <2>3, <3>3 DEF Timer, choice
      <3>4. ASSUME NEW t \in Slots, Begins(t) \/ Ends(t) PROVE KnownWhileBusy'
        BY <2>1, <3>4 DEF Begins, Ends, choice, work
      <3>5. ASSUME NEW t \in Slots, Answered(t) PROVE KnownWhileBusy'
        BY <3>5 DEF Answered, BusyAfter
      <3> QED
        BY <2>5, <3>1, <3>2, <3>3, <3>4, <3>5, <3>6 DEF Answers
    <2>6. CASE Dialog
      BY <2>1, <2>6 DEF Dialog, AnswerDialog, choice, work
    <2>7. CASE UNCHANGED vars
      BY <2>1, <2>7 DEF vars, choice, work
    <2> QED
      BY <2>4, <2>5, <2>6, <2>7 DEF Next
  <1> QED
    BY <1>1, <1>2, PTL DEF Spec

-----------------------------------------------------------------------------
(* Whatever the user does: what is shown, and what is awaited for it, has  *)
(* an entry, which a "Connect" button then lists.                          *)
Shown == view # "hidden" \/ calls # {} => entry \in Entries
Typed == TypeOK /\ Shown

LEMMA StartIsTyped ==
    ASSUME TypeOK, StartTransfer
    PROVE  /\ inProgress' \in BOOLEAN /\ task' \in [Slots -> Task]
           /\ screen' \in {"discovery", "found", "files", "progress", "complete", "error"}
  <1>1. CASE ~CanTransfer
    BY <1>1 DEF StartTransfer, TypeOK
  <1>2. CASE CanTransfer
    <2>1. [state |-> "sent", entry |-> entry, part |-> Part] \in Task
      BY DEF TypeOK, Task, Part
    <2> QED
      BY <1>2, <2>1 DEF StartTransfer, TypeOK
  <1> QED
    BY <1>1, <1>2

LEMMA OpenIsTyped ==
    ASSUME Typed, NEW e \in Entries, OpenTransferModal(e), UNCHANGED <<dialog, backend>>
    PROVE  Typed'
  <1>1. CASE inProgress
    <2>1. queue' \in Seq(Entries) /\ Len(queue') = Len(queue) + 1 /\ Len(queue) < MaxQueue
      BY <1>1 DEF OpenTransferModal, IsBusy, Typed, TypeOK
    <2>2. Len(queue') <= MaxQueue
      BY <2>1, BoundsAssumption
    <2> QED
      BY <1>1, <2>1, <2>2 DEF OpenTransferModal, IsBusy, Typed, TypeOK, Shown,
                              window, choice, backend
  <1>2. CASE ~inProgress
    <2>1. <<"discover", e>> \in Calls
      BY DEF Calls
    <2> QED
      BY <1>2, <2>1 DEF OpenTransferModal, IsBusy, Typed, TypeOK, Shown, work, backend
  <1> QED
    BY <1>1, <1>2 DEF Typed, TypeOK

LEMMA RemoveIsTyped ==
    ASSUME Typed, NEW i, RemoveQueued(i)
    PROVE  Typed'
  <1>1. i \in 1 .. Len(queue) /\ queue \in Seq(Entries) /\ Len(queue) \in Nat
    BY DEF RemoveQueued, Typed, TypeOK
  <1>2. queue' = SubSeq(queue, 1, i - 1) \o SubSeq(queue, i + 1, Len(queue))
    BY DEF RemoveQueued, RemoveAt
  <1>3. SubSeq(queue, 1, i - 1) \in Seq(Entries) /\ Len(SubSeq(queue, 1, i - 1)) = i - 1
    BY <1>1
  <1>4. /\ SubSeq(queue, i + 1, Len(queue)) \in Seq(Entries)
        /\ Len(SubSeq(queue, i + 1, Len(queue))) = Len(queue) - i
    BY <1>1
  <1>5. queue' \in Seq(Entries) /\ Len(queue') = Len(queue) - 1
    <2> DEFINE front == SubSeq(queue, 1, i - 1)
               back  == SubSeq(queue, i + 1, Len(queue))
    <2>1. front \in Seq(Entries) /\ back \in Seq(Entries)
      BY <1>3, <1>4
    <2>2. Len(front) = i - 1 /\ Len(back) = Len(queue) - i
      BY <1>3, <1>4
    <2>3. queue' = front \o back
      BY <1>2
    <2> HIDE DEF front, back
    <2>4. queue' \in Seq(Entries) /\ Len(queue') = Len(front) + Len(back)
      BY <2>1, <2>3
    <2> QED
      BY <1>1, <2>2, <2>4
  <1>6. Len(queue') <= MaxQueue
    BY <1>1, <1>5, BoundsAssumption DEF Typed, TypeOK
  <1> QED
    BY <1>5, <1>6 DEF RemoveQueued, Typed, TypeOK, Shown, window, choice, backend

LEMMA UserIsTyped ==
    ASSUME Typed, User
    PROVE  Typed'
  <1> USE DEF Typed, TypeOK, Shown
  <1>1. ASSUME NEW e \in Entries, OpenEntry(e) PROVE Typed'
    BY <1>1, OpenIsTyped DEF OpenEntry
  <1>2. CASE Retry
    BY <1>2, OpenIsTyped DEF Retry
  <1>3. CASE ConnectManually
    BY <1>3 DEF ConnectManually, Calls, window, choice, work, backend
  <1>4. ASSUME NEW s \in {"none", "some", "all"}, Select(s) PROVE Typed'
    BY <1>4 DEF Select, window, work, backend
  <1>5. CASE ClickStart
    BY <1>5, StartIsTyped DEF ClickStart, choice
  <1>6. CASE ClickCancel
    BY <1>6 DEF ClickCancel, window, choice, work
  <1>7. CASE ClickClose \/ ClickDone \/ Minimize
    BY <1>7 DEF ClickClose, ClickDone, Minimize, choice, work, backend
  <1> QED
    BY <1>1, <1>2, <1>3, <1>4, <1>5, <1>6, <1>7, RemoveIsTyped DEF User

LEMMA AnsweredIsTyped ==
    ASSUME Typed, NEW t \in Slots, Answered(t)
    PROVE  Typed'
  <1> USE DEF Typed, TypeOK
  <1>1. task' \in [Slots -> Task] /\ inProgress' = FALSE
    <2>1. NoTask \in Task
      BY DEF NoTask, Task
    <2> QED
      BY <2>1 DEF Answered, BusyAfter
  <1>2. screen' \in {"discovery", "found", "files", "progress", "complete", "error"}
    BY DEF Answered, ScreenAfter, Results
  <1>3. canStart' \in BOOLEAN /\ listed' \in BOOLEAN /\ dialog' \in {"closed", "asked", "stale"}
    BY DEF Answered
  <1>4. CASE queue = <<>>
    BY <1>1, <1>2, <1>3, <1>4 DEF Answered, ServesNext, Shown
  <1>5. CASE queue # <<>>
    <2>1. /\ queue' = Tail(queue) /\ entry' = Head(queue) /\ hasIp' = TRUE
          /\ files' = None /\ sel' = "none" /\ timers' = timers + 1
      BY <1>5 DEF Answered, ServesNext, QueueRest, NextFirst, ClearSelection
    <2>2. /\ Head(queue) \in Entries /\ Tail(queue) \in Seq(Entries)
          /\ Len(queue) \in Nat /\ Len(Tail(queue)) = Len(queue) - 1
      BY <1>5
    <2>3. Len(queue') <= MaxQueue
      BY <2>1, <2>2, BoundsAssumption
    <2>4. UNCHANGED <<view, calls, cancel>>
      BY DEF Answered
    <2>5. queue' \in Seq(Entries) /\ entry' \in Entries /\ timers' \in Nat
      BY <2>1, <2>2
    <2>6. hasIp' \in BOOLEAN /\ files' \in Entries \cup {None} /\ sel' \in {"none", "some", "all"}
      BY <2>1
    <2> QED
      BY <1>1, <1>2, <1>3, <2>3, <2>4, <2>5, <2>6 DEF Shown
  <1> QED
    BY <1>4, <1>5

LEMMA AnswersAreTyped ==
    ASSUME Typed, Answers
    PROVE  Typed'
  <1> USE DEF Typed, TypeOK, Shown
  <1>1. ASSUME NEW e \in Entries, Discovered(e) PROVE Typed'
    <2>1. <<"list", e>> \in Calls /\ calls # {}
      BY <1>1 DEF Discovered, Calls
    <2>2. calls' \subseteq Calls
      BY <1>1, <2>1 DEF Discovered
    <2>3. /\ hasIp' \in BOOLEAN /\ UNCHANGED <<view, entry, files, sel, canStart, listed, work, dialog, backend>>
          /\ screen' \in {"discovery", "found", "files", "progress", "complete", "error"}
      BY <1>1 DEF Discovered
    <2> QED
      BY <2>1, <2>2, <2>3 DEF work, backend
  <1>2. ASSUME NEW e \in Entries, Listed(e) PROVE Typed'
    BY <1>2 DEF Listed, work, backend
  <1>3. CASE Verified
    <2>1. entry \in Entries /\ <<"list", entry>> \in Calls
      BY <1>3 DEF Verified, Calls
    <2>2. calls' \subseteq Calls
      BY <1>3, <2>1 DEF Verified
    <2>3. /\ hasIp' \in BOOLEAN /\ UNCHANGED <<view, entry, files, sel, canStart, listed, work, dialog, backend>>
          /\ screen' \in {"discovery", "found", "files", "progress", "complete", "error"}
      BY <1>3 DEF Verified
    <2> QED
      BY <2>1, <2>2, <2>3 DEF work, backend
  <1>4. CASE Timer
    BY <1>4, StartIsTyped DEF Timer, choice
  <1>5. ASSUME NEW t \in Slots, Begins(t) \/ Ends(t) PROVE Typed'
    <2>1. PICK r \in {"running"} \cup Results : task' = [task EXCEPT ![t].state = r]
      BY <1>5 DEF Begins, Ends, Results
    <2>2. task' \in [Slots -> Task]
      BY <2>1 DEF Task
    <2>3. cancel' \in BOOLEAN /\ UNCHANGED <<window, choice, work, calls, dialog>>
      BY <1>5 DEF Begins, Ends
    <2> QED
      BY <2>2, <2>3 DEF window, choice, work
  <1> QED
    BY <1>1, <1>2, <1>3, <1>4, <1>5, AnsweredIsTyped DEF Answers

LEMMA TypedStep == Typed /\ [Next]_vars => Typed'
  <1> SUFFICES ASSUME Typed, [Next]_vars PROVE Typed'
    OBVIOUS
  <1>1. CASE Dialog
    BY <1>1 DEF Dialog, AnswerDialog, Typed, TypeOK, Shown, choice, work
  <1>2. CASE UNCHANGED vars
    BY <1>2 DEF vars, window, choice, work, backend, Typed, TypeOK, Shown
  <1> QED
    BY <1>1, <1>2, UserIsTyped, AnswersAreTyped DEF Next

(* The variables keep their types and the queue its bound whatever the     *)
(* user does, so above all a "Connect" never lists the files of no entry   *)
(* (app.js 2821-2827), and so for the user who waits.                    *)
THEOREM TypesAlways == (Spec => []TypeOK) /\ (PatientSpec => []TypeOK)
  <1>1. Init => Typed
    <2>1. NoTask \in Task
      BY DEF NoTask, Task
    <2>2. <<>> \in Seq(Entries) /\ Len(<<>>) = 0 /\ 0 <= MaxQueue
      BY BoundsAssumption
    <2> SUFFICES ASSUME Init PROVE Typed
      OBVIOUS
    <2>3. task \in [Slots -> Task]
      BY <2>1 DEF Init
    <2>4. queue \in Seq(Entries) /\ Len(queue) <= MaxQueue
      BY <2>2 DEF Init
    <2>5. view = "hidden" /\ calls = {} /\ timers = 0
      BY DEF Init
    <2>6. /\ screen = "discovery" /\ entry = None /\ hasIp = FALSE /\ files = None
          /\ sel = "none" /\ canStart = TRUE /\ listed = FALSE /\ inProgress = FALSE
          /\ dialog = "closed" /\ cancel = FALSE
      BY DEF Init
    <2> QED
      BY <2>3, <2>4, <2>5, <2>6 DEF Typed, TypeOK, Shown
  <1>2. Typed /\ [PatientNext]_vars => Typed'
    BY TypedStep DEF PatientNext, PatientUser, Next
  <1>3. Typed => TypeOK
    BY DEF Typed
  <1> QED
    BY <1>1, <1>2, <1>3, TypedStep, PTL DEF Spec, PatientSpec

-----------------------------------------------------------------------------
(* The window implements TransferLine: steps that are not of the line.     *)
LEMMA OffLine ==
    ASSUME UNCHANGED <<inProgress, timers, queue>>,
           inProgress \/ timers > 0 => UNCHANGED entry
    PROVE  UNCHANGED Line!vars
  BY DEF Line!vars

(* A transfer is started for the entry shown, or for the one the timer was *)
(* set for.                                                                *)
LEMMA StartOnLine ==
    ASSUME QueueInv, ~inProgress, StartTransfer, UNCHANGED <<entry, queue>>,
           \/ timers = 0 /\ timers' = 0
           \/ timers = 1 /\ timers' = 0
    PROVE  Line!Next \/ UNCHANGED Line!vars
  <1>1. CASE timers = 1
    <2>1. CanTransfer
      BY <1>1 DEF QueueInv, BusyIsAlone
    <2> QED
      BY <1>1, <2>1 DEF StartTransfer, Line!vars
  <1>2. CASE timers = 0 /\ CanTransfer
    <2>1. entry \in Entries /\ inProgress'
      BY <1>2 DEF CanTransfer, QueueInv, Types, StartTransfer
    <2>2. Line!Ask(entry)
      BY <1>2, <2>1 DEF Line!Ask
    <2> QED
      BY <2>1, <2>2 DEF Line!Next
  <1>3. CASE timers = 0 /\ ~CanTransfer
    BY <1>3 DEF StartTransfer, Line!vars
  <1> QED
    BY <1>1, <1>2, <1>3

LEMMA OpenOnLine ==
    ASSUME QueueInv, timers = 0, NEW e \in Entries, OpenTransferModal(e)
    PROVE  Line!Next \/ UNCHANGED Line!vars
  <1>1. CASE inProgress
    <2>1. queue' = Append(queue, e) /\ UNCHANGED <<inProgress, timers, entry>>
      BY <1>1 DEF OpenTransferModal, IsBusy, choice
    <2>2. entry # None
      BY <1>1 DEF QueueInv, BusyIsAlone, CanTransfer
    <2>3. Line!Ask(e)
      BY <1>1, <2>1, <2>2 DEF Line!Ask
    <2> QED
      BY <2>3 DEF Line!Next
  <1>2. CASE ~inProgress
    BY <1>2, OffLine DEF OpenTransferModal, IsBusy, work
  <1> QED
    BY <1>1, <1>2 DEF QueueInv, Types

LEMMA AnsweredOnLine ==
    ASSUME QueueInv, NEW t \in Slots, Answered(t)
    PROVE  Line!Next
  <1>1. inProgress /\ timers = 0 /\ entry # None /\ inProgress' = FALSE
    <2>1. Under(t)
      BY DEF Answered, Under, NoTask, Results
    <2> QED
      BY <2>1 DEF QueueInv, OneTransfer, BusyIsAlone, CanTransfer, Answered,
                  BusyAfter
  <1>2. Line!Serve
    <2>1. CASE queue = <<>>
      BY <1>1, <2>1 DEF Answered, ServesNext, Line!Serve
    <2>2. CASE queue # <<>>
      BY <1>1, <2>2 DEF Answered, ServesNext, QueueRest, NextFirst, Line!Serve
    <2> QED
      BY <2>1, <2>2
  <1> QED
    BY <1>2 DEF Line!Next

LEMMA LineStep ==
    QueueInv /\ [PatientNext]_vars => [Line!Next]_(Line!vars)
  <1> SUFFICES ASSUME QueueInv, [PatientNext]_vars
               PROVE  Line!Next \/ UNCHANGED Line!vars
    OBVIOUS
  <1>1. CASE PatientUser
    <2>1. timers = 0 /\ User
      BY <1>1 DEF PatientUser
    <2>2. CASE (\E e \in Entries : OpenEntry(e)) \/ Retry
      BY <2>1, <2>2, OpenOnLine DEF OpenEntry, Retry, QueueInv, Types
    <2>3. CASE ClickStart
      <3>1. ~inProgress
        BY <2>3 DEF ClickStart, QueueInv, BusyIsAlone
      <3> QED
        BY <2>1, <2>3, <3>1, StartOnLine DEF ClickStart, choice
    <2>4. ASSUME NEW i, RemoveQueued(i) PROVE Line!Next
      <3>1. i \in DOMAIN queue /\ Line!Withdraw(i)
        BY <2>4 DEF RemoveQueued, RemoveAt, choice, Line!Withdraw, Line!RemoveAt
      <3> QED
        BY <3>1 DEF Line!Next
    <2>5. CASE ConnectManually \/ ClickCancel \/ ClickClose \/ ClickDone \/ Minimize
      BY <2>5, OffLine DEF ConnectManually, ClickCancel, ClickClose, ClickDone,
                           Minimize, choice, work
    <2>6. ASSUME NEW s, Select(s) PROVE UNCHANGED Line!vars
      BY <2>6, OffLine DEF Select, work
    <2> QED
      BY <2>1, <2>2, <2>3, <2>4, <2>5, <2>6 DEF User
  <1>2. CASE Answers
    <2>1. ASSUME NEW e, Discovered(e) \/ Listed(e) \/ Verified
          PROVE  UNCHANGED Line!vars
      BY <2>1, OffLine DEF Discovered, Listed, Verified, work
    <2>2. CASE Timer
      <3>1. timers = 1 /\ timers' = 0 /\ ~inProgress
        BY <2>2 DEF Timer, QueueInv, Types, OneTransfer
      <3> QED
        BY <2>2, <3>1, StartOnLine DEF Timer, choice
    <2>3. ASSUME NEW t \in Slots, Begins(t) \/ Ends(t)
          PROVE  UNCHANGED Line!vars
      BY <2>3, OffLine DEF Begins, Ends, choice, work
    <2> QED
      BY <1>2, <2>1, <2>2, <2>3, AnsweredOnLine DEF Answers
  <1>3. CASE Dialog
    BY <1>3, OffLine DEF Dialog, AnswerDialog, choice, work
  <1>4. CASE UNCHANGED vars
    BY <1>4, OffLine DEF vars, choice, work
  <1> QED
    BY <1>1, <1>2, <1>3, <1>4 DEF PatientNext

(* For a user who waits, the transfers are those of a line: one after the  *)
(* other, in the order asked for (processNextInQueue).                     *)
THEOREM LineSafety == PatientSpec => Line!Init /\ [][Line!Next]_(Line!vars)
  <1>1. Init => Line!Init
    BY DEF Init, Line!Init
  <1> QED
    BY <1>1, LineStep, PatientQueue, PTL DEF PatientSpec
=============================================================================

------------------------------- MODULE CopyJob -------------------------------
(***************************************************************************)
(* transfer_folder_to_phone and copy_dir_to_smb (src-tauri/src/main.rs):   *)
(* jobs that copy a library entry's folder to the phone over SMB.  Every   *)
(* await of a job is a step, where other jobs, the cancel command and the  *)
(* network come in between.  All jobs share CANCEL_TRANSFER and            *)
(* CURRENT_REMOTE_FILE.                                                    *)
(*                                                                         *)
(* An entry's folder is the sequence of the remote paths its recursive     *)
(* copy visits, the folder itself first: read_dir gives some order, and    *)
(* every item is visited after one look at the flag by the loop that finds *)
(* it.  Remote paths start with the last component of the local folder, so *)
(* two entries may share some.  A file is a number of chunks; what the     *)
(* phone holds at a path is a set of them, each with the entry it is of.   *)
(*                                                                         *)
(* Any call to the phone may fail: always when the connection has broken,  *)
(* and over one that holds when the phone refuses it, as it does with no   *)
(* handle left or a full disk.                                             *)
(***************************************************************************)
EXTENDS Integers, Sequences, FiniteSets

CONSTANTS
    Jobs,       \* calls of transfer_folder_to_phone
    Entries,    \* entries of the library
    Files,      \* remote paths of files
    Folders,    \* remote paths of directories
    Walk,       \* entry -> the paths its copy visits, in order
    Chunks,     \* chunks in a file
    None,       \* no file (CURRENT_REMOTE_FILE empty); no filter
    MaxLosses,  \* bound: connections lost
    MaxCrashes, \* bound: crashes of the program
    MaxOverlaps, \* bound: commands sent while another job is active
    MaxRefusals, \* bound: calls refused over connections that hold
    MaxTroubles \* bound: all of these together

ASSUME WalkAssumption ==
    /\ Walk \in [Entries -> Seq(Files \cup Folders)]
    /\ \A e \in Entries : \A m, n \in DOMAIN Walk[e] :
          Walk[e][m] = Walk[e][n] => m = n
    /\ \A e \in Entries : Walk[e] # << >> /\ Walk[e][1] \in Folders
    /\ Files \cap Folders = {}
    /\ None \notin Files /\ \A s \in SUBSET Files : s # None
    /\ Chunks \in Nat \ {0}
    /\ {MaxLosses, MaxCrashes, MaxOverlaps, MaxRefusals, MaxTroubles} \subseteq Nat

VARIABLES
    phone,      \* path -> the chunks the phone's share holds there
    present,    \* the paths that exist there
    cancel,     \* CANCEL_TRANSFER
    remote,     \* CURRENT_REMOTE_FILE
    job,        \* job -> its local variables, see Job
    leftover,   \* history: the files whose deletion failed or never came
    losses, crashes, overlaps, refusals

env  == <<losses, crashes, overlaps, refusals>>
vars == <<phone, present, cancel, remote, job, leftover, env>>

Troubles == losses + crashes + overlaps + refusals

FilesOf(e) == {Walk[e][n] : n \in DOMAIN Walk[e]} \cap Files

(* All of entry e's file.                                                  *)
Full(e) == {e} \X (1 .. Chunks)

Results == {"ok", "cancelled", "failed"}
PC == {"idle", "sent", "connect", "next", "stat", "mkdir", "read", "open",
       "write", "delete", "purge"} \cup Results

(* pos: the item of Walk the job is at; sel: filter_set or None; copied:   *)
(* files_copied; off: chunks of the file written; linked: its connection   *)
(* is up; named: the file it writes still has its name on the phone;       *)
(* victim: the path it is about to delete in the loop; misled (history):   *)
(* the phone has the file it is about to create and refused to say so.     *)
Job == [pc : PC, entry : Entries \cup {None}, pos : Nat, sel : {None} \cup SUBSET Files,
        copied : Nat, off : 0 .. Chunks, linked : BOOLEAN, named : BOOLEAN,
        victim : Files \cup {None}, misled : BOOLEAN]

Unsent == [pc |-> "idle", entry |-> None, pos |-> 1, sel |-> None, copied |-> 0,
           off |-> 0, linked |-> FALSE, named |-> FALSE, victim |-> None,
           misled |-> FALSE]

Init ==
    /\ phone = [f \in Files |-> {}]
    /\ present = {}
    /\ cancel = FALSE
    /\ remote = None
    /\ job = [j \in Jobs |-> Unsent]
    /\ leftover = {}
    /\ losses = 0
    /\ crashes = 0
    /\ overlaps = 0
    /\ refusals = 0

-----------------------------------------------------------------------------
Active(j)  == job[j].pc \notin Results \cup {"idle"}
At(j, pc)  == job[j].pc = pc
Path(j)    == Walk[job[j].entry][job[j].pos]
InWalk(j)  == job[j].pos <= Len(Walk[job[j].entry])
Wanted(j)  == IF job[j].sel = None THEN FilesOf(job[j].entry)
              ELSE FilesOf(job[j].entry) \cap job[j].sel

(* Removing path f takes its name from every job that writes to it.        *)
Unnamed(f) ==
    [k \in Jobs |-> IF At(k, "write") /\ Path(k) = f
                    THEN [job[k] EXCEPT !.named = FALSE] ELSE job[k]]

(* The phone deletes file f, or keeps it.                                  *)
Removed(f) ==
    /\ phone' = [phone EXCEPT ![f] = {}]
    /\ present' = present \ {f}
    /\ leftover' = leftover \ {f}

Kept(f) ==
    /\ leftover' = leftover \cup ({f} \cap present)
    /\ UNCHANGED <<phone, present>>

(* The phone refuses a call over a connection that holds: it has no free   *)
(* handle, its disk is full, it may not delete the file.                   *)
Refuse(j) ==
    /\ job[j].linked
    /\ refusals < MaxRefusals /\ Troubles < MaxTroubles
    /\ refusals' = refusals + 1
    /\ UNCHANGED <<losses, crashes, overlaps>>

(* The user interface calls the command, with the selected files or all.   *)
(* Of a job that has ended it has shown the answer by now.  It sends one    *)
(* job after the other; that jobs overlap is counted.                      *)
Send(j, e, s) ==
    /\ ~Active(j)
    /\ job' = [k \in Jobs |->
                IF k = j THEN [Unsent EXCEPT !.pc = "sent", !.entry = e, !.sel = s]
                ELSE IF Active(k) THEN job[k] ELSE Unsent]
    /\ overlaps' = IF \E k \in Jobs : Active(k) THEN overlaps + 1 ELSE overlaps
    /\ UNCHANGED <<phone, present, cancel, remote, leftover, losses, crashes, refusals>>
    /\ overlaps' <= MaxOverlaps /\ Troubles' <= MaxTroubles

(* cancel_transfer.                                                        *)
Cancel ==
    /\ \E j \in Jobs : Active(j)
    /\ cancel' = TRUE
    /\ UNCHANGED <<phone, present, remote, job, leftover, env>>

(* The command up to its first await: the entry or its folder may be gone  *)
(* by now.                                                                 *)
FlagReset == FALSE

Begin(j) ==
    /\ At(j, "sent")
    /\ cancel' = FlagReset
    /\ \E pc \in {"connect", "failed"} : job' = [job EXCEPT ![j].pc = pc]
    /\ UNCHANGED <<phone, present, remote, leftover, env>>

Connect(j) ==
    /\ At(j, "connect")
    /\ \/ job' = [job EXCEPT ![j].pc = "stat", ![j].linked = TRUE]
       \/ job' = [job EXCEPT ![j].pc = "failed"]
    /\ UNCHANGED <<phone, present, cancel, remote, leftover, env>>

(* The connection breaks: every call on it fails from then on.             *)
Lose(j) ==
    /\ Active(j) /\ job[j].linked
    /\ losses < MaxLosses /\ Troubles < MaxTroubles
    /\ losses' = losses + 1
    /\ job' = [job EXCEPT ![j].linked = FALSE]
    /\ UNCHANGED <<phone, present, cancel, remote, leftover, crashes, overlaps, refusals>>

(* The program is closed or dies; the phone keeps what it has.             *)
Unfinished == {Path(j) : j \in {k \in Jobs : job[k].pc \in {"write", "delete"}}}

Crash ==
    /\ \E j \in Jobs : Active(j)
    /\ crashes < MaxCrashes /\ Troubles < MaxTroubles
    /\ crashes' = crashes + 1
    /\ job' = [j \in Jobs |-> Unsent]
    /\ leftover' = leftover \cup Unfinished
    /\ cancel' = FALSE
    /\ remote' = None
    /\ UNCHANGED <<phone, present, losses, overlaps, refusals>>

-----------------------------------------------------------------------------
(* The loop of copy_dir_to_smb sees the flag; with a path in               *)
(* CURRENT_REMOTE_FILE, which another job must have put there, it deletes  *)
(* that first.                                                             *)
LoopCancelled(j) ==
    /\ At(j, "next") /\ InWalk(j) /\ cancel
    /\ job' = [job EXCEPT ![j].pc = IF remote = None THEN "cancelled" ELSE "purge",
                          ![j].victim = remote]
    /\ UNCHANGED <<phone, present, cancel, remote, leftover, env>>

Purge(j) ==
    /\ At(j, "purge") /\ job[j].linked
    /\ Removed(job[j].victim)
    /\ job' = [Unnamed(job[j].victim) EXCEPT ![j].pc = "cancelled"]
    /\ UNCHANGED <<cancel, remote, env>>

(* It fails, which is ignored: ...                                         *)
PurgeFails(j) ==
    /\ At(j, "purge")
    /\ Kept(job[j].victim)
    /\ job' = [job EXCEPT ![j].pc = "cancelled"]
    /\ UNCHANGED <<cancel, remote>>

(* ... over the broken connection, or since the phone refuses.             *)
PurgeBroken(j)  == ~job[j].linked /\ PurgeFails(j) /\ UNCHANGED env
PurgeRefused(j) == Refuse(j) /\ PurgeFails(j)

(* A file outside the filter is passed over.                               *)
PassOver(r) == [r EXCEPT !.pos = @ + 1]

(* The next item.                                                          *)
Visit(j) ==
    /\ At(j, "next") /\ InWalk(j) /\ ~cancel
    /\ job' = IF Path(j) \in Files \ Wanted(j)
              THEN [job EXCEPT ![j] = PassOver(@)]
              ELSE [job EXCEPT ![j].pc = "stat"]
    /\ UNCHANGED <<phone, present, cancel, remote, leftover, env>>

Finish(j) ==
    /\ At(j, "next") /\ ~InWalk(j)
    /\ job' = [job EXCEPT ![j].pc = "ok"]
    /\ UNCHANGED <<phone, present, cancel, remote, leftover, env>>

(* read_dir, its entries or read fail on the desktop's side.               *)
LocalError(j) ==
    /\ At(j, "next") \/ At(j, "read")
    /\ job' = [job EXCEPT ![j].pc = "failed"]
    /\ UNCHANGED <<phone, present, cancel, remote, leftover, env>>

(* A directory that is there is walked into.  The mutant comes back to it. *)
WalkedInAgain(r) == [r EXCEPT !.pc = "next"]
Onward(r) == [r EXCEPT !.pc = "next", !.pos = @ + 1]

(* A file that is there is skipped, whatever its length, and counted.  The *)
(* mutant does not count it.                                               *)
SkipUncounted(r) == [r EXCEPT !.pc = "next", !.pos = @ + 1]
Skip(r)          == [r EXCEPT !.pc = "next", !.pos = @ + 1, !.copied = @ + 1]

(* The phone says the path is there.  The mutant never asks for files.     *)
FoundDir(j) == job[j].linked /\ Path(j) \in present \cap Folders
Found(j)    == job[j].linked /\ Path(j) \in present

Missing(j) == IF Path(j) \in Files THEN "read" ELSE "mkdir"

Stat(j) ==
    /\ At(j, "stat")
    /\ job' = [job EXCEPT ![j] =
                IF Found(j) THEN IF Path(j) \in Files THEN Skip(@) ELSE Onward(@)
                ELSE [@ EXCEPT !.pc = Missing(j)]]
    /\ UNCHANGED <<phone, present, cancel, remote, leftover, env>>

(* Any error counts as "not there", that of a phone which has the path and *)
(* no free handle to look at it as well.                                   *)
StatRefused(j) ==
    /\ At(j, "stat") /\ Refuse(j) /\ Path(j) \in present
    /\ job' = [job EXCEPT ![j].pc = Missing(j), ![j].misled = Path(j) \in Files]
    /\ UNCHANGED <<phone, present, cancel, remote, leftover>>

(* create_directory; the phone takes a directory that is there for made.   *)
MakeDir(j) ==
    /\ At(j, "mkdir") /\ job[j].linked
    /\ present' = present \cup {Path(j)}
    /\ job' = [job EXCEPT ![j] = Onward(@)]
    /\ UNCHANGED <<phone, cancel, remote, leftover, env>>

MakeDirFails(j) ==
    /\ At(j, "mkdir")
    /\ job' = [job EXCEPT ![j].pc = "failed"]
    /\ UNCHANGED <<phone, present, cancel, remote, leftover>>

MakeDirBroken(j)  == ~job[j].linked /\ MakeDirFails(j) /\ UNCHANGED env
MakeDirRefused(j) == Refuse(j) /\ MakeDirFails(j)

Read(j) ==
    /\ At(j, "read")
    /\ remote' = Path(j)
    /\ job' = [job EXCEPT ![j].pc = "open"]
    /\ UNCHANGED <<phone, present, cancel, leftover, env>>

(* write_file_with_progress: the file is created, or emptied, ...          *)
Open(j) ==
    /\ At(j, "open") /\ job[j].linked
    /\ phone' = [phone EXCEPT ![Path(j)] = {}]
    /\ present' = present \cup {Path(j)}
    /\ leftover' = leftover \ {Path(j)}
    /\ job' = [job EXCEPT ![j].pc = "write", ![j].off = 0, ![j].named = TRUE,
                          ![j].misled = FALSE]
    /\ UNCHANGED <<cancel, remote, env>>

(* ... written chunk by chunk, with a look at the flag after each one, ... *)
(* The mutant is off by one.                                               *)
OneTooMany(j) == job[j].off <= Chunks
Unwritten(j)  == job[j].off < Chunks

Put(f, e, n) == {c \in phone[f] : c[2] # n} \cup {<<e, n>>}

WriteChunk(j) ==
    /\ At(j, "write") /\ job[j].linked
    /\ Unwritten(j)
    /\ LET n == job[j].off + 1 IN
       /\ phone' = IF job[j].named
                   THEN [phone EXCEPT ![Path(j)] = Put(Path(j), job[j].entry, n)]
                   ELSE phone
       /\ job' = [job EXCEPT ![j].off = n, ![j].pc = IF cancel THEN "delete" ELSE @]
       /\ remote' = IF cancel THEN None ELSE remote
    /\ UNCHANGED <<present, cancel, leftover, env>>

(* ... and closed.  The mutant leaves the name of the file behind.         *)
NameKept    == remote
NameCleared == None

WriteDone(j) ==
    /\ At(j, "write") /\ job[j].linked
    /\ job[j].off = Chunks
    /\ remote' = NameCleared
    /\ job' = [job EXCEPT ![j].pc = "next", ![j].pos = @ + 1, ![j].copied = @ + 1]
    /\ UNCHANGED <<phone, present, cancel, leftover, env>>

(* It fails: what was written is to be deleted.  The mutant only cleans up *)
(* after a cancellation.                                                   *)
CleansCancelled(j) == IF cancel THEN "delete" ELSE "failed"
AfterFailure(j)    == "delete"

WriteFails(j) ==
    /\ At(j, "open") \/ At(j, "write")
    /\ remote' = None
    /\ job' = [job EXCEPT ![j].pc = AfterFailure(j)]
    /\ UNCHANGED <<phone, present, cancel, leftover>>

WriteBroken(j)  == ~job[j].linked /\ WriteFails(j) /\ UNCHANGED env
WriteRefused(j) == Refuse(j) /\ WriteFails(j)

Ending == IF cancel THEN "cancelled" ELSE "failed"

(* delete_file.                                                            *)
Delete(j) ==
    /\ At(j, "delete") /\ job[j].linked
    /\ Removed(Path(j))
    /\ job' = [Unnamed(Path(j)) EXCEPT ![j].pc = Ending]
    /\ UNCHANGED <<cancel, remote, env>>

(* That it fails is ignored.                                               *)
DeleteFails(j) ==
    /\ At(j, "delete")
    /\ Kept(Path(j))
    /\ job' = [job EXCEPT ![j].pc = Ending]
    /\ UNCHANGED <<cancel, remote>>

DeleteBroken(j)  == ~job[j].linked /\ DeleteFails(j) /\ UNCHANGED env
DeleteRefused(j) == Refuse(j) /\ DeleteFails(j)

-----------------------------------------------------------------------------
(* Some of the files, or no filter, which is the same as all of them.      *)
Selections(e) == {None} \cup (SUBSET FilesOf(e) \ {{}, FilesOf(e)})

AnySend(j) == \E e \in Entries : \E s \in Selections(e) : Send(j, e, s)

Copy(j) ==
    \/ Begin(j) \/ Connect(j) \/ LoopCancelled(j) \/ Purge(j) \/ PurgeBroken(j)
    \/ Visit(j) \/ Finish(j) \/ Stat(j) \/ MakeDir(j) \/ MakeDirBroken(j)
    \/ Read(j) \/ Open(j) \/ WriteChunk(j) \/ WriteDone(j) \/ WriteBroken(j)
    \/ Delete(j) \/ DeleteBroken(j)

(* What the phone may refuse over a connection that holds.                 *)
Refusal(j) ==
    \/ StatRefused(j) \/ MakeDirRefused(j) \/ WriteRefused(j)
    \/ DeleteRefused(j) \/ PurgeRefused(j)

Trouble(j) == LocalError(j) \/ Refusal(j) \/ Lose(j)

Progress == Cancel \/ Crash \/ \E j \in Jobs : Copy(j) \/ Trouble(j)

Next == Progress \/ \E j \in Jobs : AnySend(j)

(* Every await of a job returns in the end; that something fails is never  *)
(* needed for a job to go on.  It is weak fairness of Copy(j), which is    *)
(* enabled whenever j is active and changes job[j], with that written out. *)
Fairness == \A j \in Jobs :
    <>[]Active(j) => []<><<job[j]' # job[j] /\ Copy(j)>>_vars

Spec == Init /\ [][Next]_vars /\ Fairness

-----------------------------------------------------------------------------
TypeOK ==
    /\ phone \in [Files -> SUBSET (Entries \X (1 .. Chunks))]
    /\ present \subseteq Files \cup Folders
    /\ cancel \in BOOLEAN
    /\ remote \in Files \cup {None}
    /\ job \in [Jobs -> Job]
    /\ leftover \subseteq Files
    /\ losses \in 0 .. MaxLosses
    /\ crashes \in 0 .. MaxCrashes
    /\ overlaps \in 0 .. MaxOverlaps
    /\ refusals \in 0 .. MaxRefusals
    /\ Troubles <= MaxTroubles

IsWhole(f) == \E e \in Entries : f \in FilesOf(e) /\ phone[f] = Full(e)

(* So far one job came after the other.                                    *)
Alone == overlaps = 0
Quiet == \A j \in Jobs : ~Active(j)

(* With no job under way, every file on the phone is whole, unless its     *)
(* deletion failed or never came: a partial file is taken for whole by the *)
(* next attempt.  ("The partially transferred file will be deleted.",      *)
(* app.js: that holds whenever the phone does what it is asked to.)        *)
NoPartialLeft ==
    Alone /\ Quiet => \A f \in present \cap Files : IsWhole(f) \/ f \in leftover

(* CURRENT_REMOTE_FILE names a file that is being written: were it to name *)
(* a finished one, the next cancellation would delete that from the phone. *)
RemoteIsWritten ==
    remote # None =>
        \E j \in Jobs : job[j].pc \in {"open", "write"} /\ Path(j) = remote

(* A job that ends well leaves every file it was to copy on the phone, and *)
(* whole, whether it wrote it or found it there; only what an earlier      *)
(* attempt could not delete may be there in part.                          *)
OkIsWhole ==
    Alone => \A j \in Jobs : At(j, "ok") =>
        \A f \in Wanted(j) : f \in present /\ (IsWhole(f) \/ f \in leftover)

(* "Transferred successfully!" (index.html): those files are there, whole, *)
(* and are this entry's.                                                   *)
OkIsComplete ==
    \A j \in Jobs : At(j, "ok") =>
        \A f \in Wanted(j) : f \in present /\ phone[f] = Full(job[j].entry)

(* "N files transferred": the count in the message of success is the       *)
(* number of files that were to be copied, skipped ones included.          *)
CountIsTotal ==
    \A j \in Jobs : At(j, "ok") => job[j].copied = Cardinality(Wanted(j))

(* The files on the phone are what the answers of the jobs say: whole      *)
(* after a success, in the number told, and none in part after a failure,  *)
(* but for those the phone did not delete; and the name kept for a         *)
(* cancellation is that of the file being written.                         *)
FilesAreWhole == TypeOK /\ NoPartialLeft /\ OkIsWhole /\ CountIsTotal /\ RemoteIsWritten

(* A whole file stays as it is, through retries, failures, cancellations   *)
(* and crashes, while one job comes after the other: only a job that is    *)
(* writing it, that deletes what it wrote, or to which the phone has       *)
(* refused to show the file, may change it.                                *)
InHand(j) == \/ job[j].pc \in {"write", "delete"}
             \/ job[j].pc \in {"read", "open"} /\ job[j].misled

Busy(f) == \E j \in Jobs : InHand(j) /\ Path(j) = f

WholeFilesStay ==
    [][ \A f \in present \cap Files :
            Alone /\ IsWhole(f) /\ ~Busy(f) => f \in present' /\ phone'[f] = phone[f] ]_vars

(* Every job ends, whatever is lost and cancelled on the way, and if two   *)
(* share the flag and the name.                                            *)
JobEnds == \A j \in Jobs : Active(j) ~> ~Active(j)
=============================================================================

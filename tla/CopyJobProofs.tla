--------------------------- MODULE CopyJobProofs ---------------------------
(***************************************************************************)
(* Theorems of CopyJob for any number of jobs, entries, files and chunks,  *)
(* any folders, and any number of losses, refusals, crashes and overlaps.  *)
(***************************************************************************)
EXTENDS CopyJob, FiniteSetTheorems, TLAPS

InCopy  == {"next", "stat", "mkdir", "read", "open", "write", "delete", "purge"}
AtItem  == {"stat", "mkdir", "read", "open", "write", "delete"}
OnAFile == {"read", "open", "write", "delete"}

(* The paths a job with record r has dealt with, those it is to copy, and  *)
(* the one it is at.                                                       *)
Visited(r) == {Walk[r.entry][n] : n \in 1 .. r.pos - 1}
ToCopy(r)  == IF r.sel = None THEN FilesOf(r.entry) ELSE FilesOf(r.entry) \cap r.sel
Item(r)    == Walk[r.entry][r.pos]

(* What a job knows of itself: it is within its walk, counts the files it  *)
(* has dealt with, and is only ever busy with a file it is to copy.        *)
OnItsWay(r) ==
    r.pc # "idle" =>
        /\ r.entry \in Entries
        /\ r.pos \in 1 .. Len(Walk[r.entry]) + 1
        /\ r.copied = Cardinality(ToCopy(r) \cap Visited(r))
        /\ r.pc \in {"sent", "connect"} => r.pos = 1
        /\ r.pc \in AtItem => /\ r.pos <= Len(Walk[r.entry])
                              /\ Item(r) \in Files => Item(r) \in ToCopy(r)
        /\ r.pc \in OnAFile => Item(r) \in Files
        /\ r.pc = "mkdir" => Item(r) \in Folders
        /\ r.pc = "purge" => r.victim \in Files
        /\ r.pc = "ok" => r.pos = Len(Walk[r.entry]) + 1

Ways == \A j \in Jobs : OnItsWay(job[j])

(* One job after the other: of the rest nothing is left.                   *)
OneAtATime ==
    Alone => \A j, k \in Jobs : j # k => At(j, "idle") \/ At(k, "idle")

(* While jobs do not overlap: a file about to be created was not there     *)
(* when the job looked, unless the phone refused to say so, and nobody     *)
(* else has put it there; the file being written holds what has been       *)
(* written of it; and the loop finds no name of a file to delete.          *)
Undisturbed(j) ==
    /\ ~At(j, "purge")
    /\ job[j].pc \in {"read", "open"} /\ job[j].linked =>
          Path(j) \notin present \/ job[j].misled
    /\ At(j, "write") =>
          /\ job[j].named /\ Path(j) \in present
          /\ phone[Path(j)] = {job[j].entry} \X (1 .. job[j].off)

Accounted(f) == IsWhole(f) \/ f \in leftover

(* What a job was to copy and has dealt with is there, whole, but for what *)
(* an earlier one could not delete.                                        *)
Thorough(j) ==
    Active(j) \/ At(j, "ok") =>
        \A f \in ToCopy(job[j]) \cap Visited(job[j]) : f \in present /\ Accounted(f)

(* Of the rest, what is there in part is being written or about to be      *)
(* deleted.                                                                *)
InWork(f) == \E j \in Jobs : job[j].pc \in {"write", "delete"} /\ Path(j) = f

PartialIsInWork == \A f \in present \cap Files : Accounted(f) \/ InWork(f)

IInv ==
    /\ TypeOK
    /\ Ways
    /\ RemoteIsWritten
    /\ OneAtATime
    /\ Alone => PartialIsInWork /\ \A j \in Jobs : Undisturbed(j) /\ Thorough(j)

(* The bounds on what goes wrong; a step within them that starts no job    *)
(* over another.                                                           *)
Counters ==
    /\ losses \in 0 .. MaxLosses
    /\ crashes \in 0 .. MaxCrashes
    /\ overlaps \in 0 .. MaxOverlaps
    /\ refusals \in 0 .. MaxRefusals
    /\ Troubles <= MaxTroubles

Counted == Counters' /\ overlaps' = overlaps

-----------------------------------------------------------------------------
(* Walks, and how a job gets along on its own.                             *)

(* A walk is a sequence of paths without repetitions, and has finitely     *)
(* many files.                                                             *)
LEMMA Walks ==
  ASSUME NEW e \in Entries
  PROVE  /\ Walk[e] \in Seq(Files \cup Folders) /\ Len(Walk[e]) \in Nat
         /\ DOMAIN Walk[e] = 1 .. Len(Walk[e]) /\ Len(Walk[e]) >= 1
         /\ \A n \in 1 .. Len(Walk[e]) : Walk[e][n] \in Files \cup Folders
         /\ Walk[e][1] \in Folders /\ Walk[e][1] \notin Files
         /\ IsFiniteSet(FilesOf(e)) /\ FilesOf(e) \subseteq Files
<1>1. Walk[e] \in Seq(Files \cup Folders) /\ Walk[e] # << >> /\ Walk[e][1] \in Folders
  BY WalkAssumption
<1>2. Len(Walk[e]) \in Nat /\ DOMAIN Walk[e] = 1 .. Len(Walk[e]) /\ Len(Walk[e]) >= 1
  BY <1>1
<1>3. \A n \in 1 .. Len(Walk[e]) : Walk[e][n] \in Files \cup Folders
  BY <1>1
<1>4. Walk[e][1] \notin Files
  BY <1>1, WalkAssumption
<1>5. IsFiniteSet(FilesOf(e))
  <2> DEFINE S == 1 .. Len(Walk[e])
             T == {Walk[e][n] : n \in S}
             f == [n \in S |-> Walk[e][n]]
  <2>1. IsFiniteSet(S)
    BY <1>2, FS_Interval
  <2>2. f \in Surjection(S, T)
    BY DEF Surjection
  <2>3. IsFiniteSet(T)
    BY <2>1, <2>2, FS_Surjection
  <2>4. FilesOf(e) \subseteq T
    BY <1>2 DEF FilesOf
  <2> QED BY <2>3, <2>4, FS_Subset
<1> QED BY <1>1, <1>2, <1>3, <1>4, <1>5 DEF FilesOf

(* A job that moves on to the next item has dealt with one path more, and  *)
(* counts it if it was to be copied.                                       *)
LEMMA OneFurther ==
  ASSUME NEW r \in Job, NEW q \in Job, OnItsWay(r), r.pc # "idle",
         r.pos <= Len(Walk[r.entry]),
         q.entry = r.entry, q.sel = r.sel, q.pos = r.pos + 1, q.pc = "next",
         q.copied = IF Item(r) \in ToCopy(r) THEN r.copied + 1 ELSE r.copied
  PROVE  OnItsWay(q) /\ Visited(q) = Visited(r) \cup {Item(r)} /\ ToCopy(q) = ToCopy(r)
<1> DEFINE V == ToCopy(r) \cap Visited(r)
<1>1. /\ r.entry \in Entries /\ r.pos \in 1 .. Len(Walk[r.entry])
      /\ r.copied = Cardinality(V)
  BY DEF OnItsWay
<1>2. r.pos \in Nat /\ Len(Walk[r.entry]) \in Nat
  BY <1>1, Walks
<1>3. Visited(q) = Visited(r) \cup {Item(r)}
  <2>1. (1 .. q.pos - 1) = (1 .. r.pos - 1) \cup {r.pos}
    BY <1>1, <1>2
  <2> QED BY <2>1 DEF Visited, Item
<1>4. Item(r) \notin Visited(r)
  <2>1. \A n \in 1 .. r.pos - 1 : n \in DOMAIN Walk[r.entry] /\ r.pos \in DOMAIN Walk[r.entry] /\ n # r.pos
    BY <1>1, <1>2, Walks
  <2>2. \A n \in 1 .. r.pos - 1 : Walk[r.entry][n] # Walk[r.entry][r.pos]
    BY <1>1, <2>1, WalkAssumption
  <2> QED BY <2>2 DEF Visited, Item
<1>5. IsFiniteSet(V)
  <2>1. V \in SUBSET FilesOf(r.entry)
    BY DEF ToCopy
  <2> QED BY <1>1, <2>1, Walks, FS_Subset
<1>6. ToCopy(q) = ToCopy(r)
  BY DEF ToCopy
<1>7. ToCopy(q) \cap Visited(q) = IF Item(r) \in ToCopy(r) THEN V \cup {Item(r)} ELSE V
  BY <1>3, <1>6
<1>8. Cardinality(V \cup {Item(r)}) = Cardinality(V) + 1
  BY <1>4, <1>5, FS_AddElement
<1>9. q.copied = Cardinality(ToCopy(q) \cap Visited(q))
  BY <1>1, <1>7, <1>8
<1>10. q.pos \in 1 .. Len(Walk[q.entry]) + 1
  BY <1>1, <1>2
<1> QED BY <1>1, <1>3, <1>6, <1>9, <1>10 DEF OnItsWay, AtItem, OnAFile

(* A job that only turns to something else stays on its way.               *)
LEMMA SameItem ==
  ASSUME NEW r \in Job, NEW q \in Job, OnItsWay(r), r.pc # "idle",
         q.entry = r.entry, q.sel = r.sel, q.pos = r.pos, q.copied = r.copied,
         q.pc \notin {"sent", "connect"} \/ r.pc \in {"sent", "connect"},
         q.pc \in AtItem => /\ r.pos <= Len(Walk[r.entry])
                            /\ Item(r) \in Files => Item(r) \in ToCopy(r),
         q.pc \in OnAFile => Item(r) \in Files,
         q.pc = "mkdir" => Item(r) \in Folders,
         q.pc = "purge" => q.victim \in Files,
         q.pc = "ok" => r.pos = Len(Walk[r.entry]) + 1
  PROVE  /\ OnItsWay(q)
         /\ Visited(q) = Visited(r) /\ ToCopy(q) = ToCopy(r) /\ Item(q) = Item(r)
<1>1. Visited(q) = Visited(r) /\ ToCopy(q) = ToCopy(r) /\ Item(q) = Item(r)
  BY DEF Visited, ToCopy, Item
<1> QED BY <1>1 DEF OnItsWay

-----------------------------------------------------------------------------
(* What a step of one job has to see to.                                   *)

LEMMA InitIInv == Init => IInv
<1> SUFFICES ASSUME Init PROVE IInv
  OBVIOUS
<1>1. Unsent \in Job /\ Unsent.pc = "idle"
  BY WalkAssumption DEF Unsent, Job, PC
<1>2. \A j \in Jobs : job[j] = Unsent
  BY DEF Init
<1>3. TypeOK
  <2>1. job \in [Jobs -> Job]
    BY <1>1 DEF Init
  <2>2. {losses, crashes, overlaps, refusals} \subseteq {0} /\ Troubles = 0
    BY DEF Init, Troubles
  <2>3. Counters
    BY <2>2, WalkAssumption DEF Counters
  <2> QED BY <2>1, <2>3 DEF Init, TypeOK, Counters
<1>4. Ways /\ OneAtATime
  BY <1>1, <1>2 DEF Ways, OnItsWay, OneAtATime, At
<1>5. RemoteIsWritten /\ PartialIsInWork
  BY DEF Init, RemoteIsWritten, PartialIsInWork
<1>6. \A j \in Jobs : Undisturbed(j) /\ Thorough(j)
  BY <1>1, <1>2 DEF Undisturbed, Thorough, Active, At
<1> QED BY <1>3, <1>4, <1>5, <1>6 DEF IInv

(* A step that leaves the counters alone, and one the phone refuses.       *)
LEMMA EnvStays ==
  ASSUME IInv, UNCHANGED env
  PROVE  Counted
BY DEF IInv, TypeOK, env, Counted, Counters, Troubles

LEMMA RefusalsCounted ==
  ASSUME NEW j \in Jobs, IInv, Refuse(j)
  PROVE  Counted
<1>1. UNCHANGED <<losses, crashes, overlaps>> /\ refusals' = refusals + 1
      /\ refusals < MaxRefusals /\ Troubles < MaxTroubles
  BY DEF Refuse
<1> QED BY <1>1, WalkAssumption DEF IInv, TypeOK, Counted, Counters, Troubles

(* With the rest idle, the invariant is about the job that moves.          *)
LEMMA StepOfOne ==
  ASSUME NEW j \in Jobs, IInv, ~At(j, "idle"),
         TypeOK', Ways', RemoteIsWritten', overlaps' = overlaps,
         Alone => \A k \in Jobs \ {j} : job'[k] = job[k],
         Alone => Undisturbed(j)' /\ Thorough(j)' /\ PartialIsInWork'
  PROVE  IInv'
<1>1. Alone' => Alone
  BY DEF Alone
<1>2. ASSUME Alone
      PROVE  \A k \in Jobs \ {j} : job[k].pc = "idle" /\ job'[k].pc = "idle"
  BY <1>2 DEF IInv, OneAtATime, At
<1>3. OneAtATime'
  BY <1>1, <1>2 DEF OneAtATime, At
<1>4. ASSUME Alone'
      PROVE  \A k \in Jobs : Undisturbed(k)'
  BY <1>1, <1>2, <1>4 DEF Undisturbed, At
<1>5. ASSUME Alone'
      PROVE  \A k \in Jobs : Thorough(k)'
  BY <1>1, <1>2, <1>5 DEF Thorough, At, Active
<1> QED BY <1>1, <1>3, <1>4, <1>5 DEF IInv

(* The same of a step that leaves the phone alone.                         *)
LEMMA StepBesides ==
  ASSUME NEW j \in Jobs, NEW q \in Job, IInv, ~At(j, "idle"),
         job' = [job EXCEPT ![j] = q], OnItsWay(q),
         UNCHANGED <<phone, present>>, Counted,
         leftover \subseteq leftover', leftover' \subseteq Files,
         cancel' \in BOOLEAN, remote' \in Files \cup {None}, RemoteIsWritten',
         q.pc # "write", Alone => q.pc # "purge",
         Alone /\ q.pc \in {"read", "open"} /\ q.linked => Item(q) \notin present \/ q.misled,
         Alone /\ job[j].pc \in {"write", "delete"} =>
             \/ q.pc = "delete" /\ Item(q) = Path(j)
             \/ \A f \in present : f = Path(j) => Accounted(f)',
         Alone /\ q.pc \notin {"cancelled", "failed"} =>
             \A f \in ToCopy(q) \cap Visited(q) : f \in present /\ Accounted(f)
  PROVE  IInv'
<1>1. job \in [Jobs -> Job]
  BY DEF IInv, TypeOK
<1>2. job'[j] = q /\ \A k \in Jobs \ {j} : job'[k] = job[k]
  BY <1>1
<1>3. TypeOK' /\ overlaps' = overlaps
  BY <1>1 DEF IInv, TypeOK, Counted, Counters
<1>4. Ways'
  BY <1>2 DEF IInv, Ways
<1>5. \A f : IsWhole(f)' = IsWhole(f)
  BY DEF IsWhole, Full
<1>6. \A f : Accounted(f) => Accounted(f)'
  BY <1>5 DEF Accounted
<1>7. Alone => Undisturbed(j)'
  BY <1>2 DEF Undisturbed, At, Path, Item
<1>8. Alone => Thorough(j)'
  BY <1>2, <1>6 DEF Thorough, Active, At, Results
<1>9. ASSUME Alone PROVE PartialIsInWork'
  <2>1. \A f \in present \cap Files : Accounted(f) \/ InWork(f)
    BY <1>9 DEF IInv, PartialIsInWork
  <2>2. ASSUME NEW f \in present, InWork(f), ~Accounted(f)' PROVE InWork(f)'
    <3>1. PICK k \in Jobs : job[k].pc \in {"write", "delete"} /\ Path(k) = f
      BY <2>2 DEF InWork
    <3>2. CASE k = j
      BY <1>2, <1>9, <2>2, <3>1, <3>2 DEF InWork, Path, Item
    <3>3. CASE k # j
      BY <1>2, <3>1, <3>3 DEF InWork, Path
    <3> QED BY <3>2, <3>3
  <2> QED BY <1>6, <2>1, <2>2 DEF PartialIsInWork
<1> QED BY <1>2, <1>3, <1>4, <1>7, <1>8, <1>9, StepOfOne

(* As long as a job that may have its file's name in CURRENT_REMOTE_FILE   *)
(* stays where it is, the name is that of a file being written.            *)
LEMMA NameStays ==
  ASSUME IInv, remote' = remote,
         \A k \in Jobs : job[k].pc \in {"open", "write"} =>
                            UNCHANGED <<job[k].pc, job[k].entry, job[k].pos>>
  PROVE  RemoteIsWritten'
<1> SUFFICES ASSUME remote # None
             PROVE  \E k \in Jobs : job'[k].pc \in {"open", "write"} /\ Path(k)' = remote
  BY DEF RemoteIsWritten
<1>1. PICK k \in Jobs : job[k].pc \in {"open", "write"} /\ Path(k) = remote
  BY DEF IInv, RemoteIsWritten
<1> QED BY <1>1 DEF Path

(* What the invariant says of a job under way.                             *)
LEMMA UnderWay ==
  ASSUME NEW j \in Jobs, IInv, ~At(j, "idle")
  PROVE  /\ job \in [Jobs -> Job] /\ job[j] \in Job /\ OnItsWay(job[j])
         /\ job[j].entry \in Entries
         /\ job[j].pos \in 1 .. Len(Walk[job[j].entry]) + 1
         /\ Path(j) = Item(job[j]) /\ Wanted(j) = ToCopy(job[j])
         /\ Alone /\ job[j].pc \notin {"cancelled", "failed"} =>
               \A f \in ToCopy(job[j]) \cap Visited(job[j]) : f \in present /\ Accounted(f)
<1>1. job \in [Jobs -> Job] /\ OnItsWay(job[j])
  BY DEF IInv, TypeOK, Ways
<1>2. Path(j) = Item(job[j]) /\ Wanted(j) = ToCopy(job[j])
  BY DEF Path, Item, Wanted, ToCopy
<1>3. Alone => Thorough(j)
  BY DEF IInv
<1> QED BY <1>1, <1>2, <1>3 DEF OnItsWay, At, Thorough, Active, Results

(* A job that only turns to something else: it stays at its item, on its   *)
(* way, and with what it has dealt with.                                   *)
LEMMA TurnOf ==
  ASSUME NEW j \in Jobs, NEW q \in Job, IInv,
         job' = [job EXCEPT ![j] = q], UNCHANGED <<phone, present, leftover>>, Counted,
         cancel' \in BOOLEAN, remote' \in Files \cup {None}, RemoteIsWritten',
         job[j].pc \notin {"idle", "write", "delete"} \cup Results,
         q.entry = job[j].entry, q.sel = job[j].sel, q.pos = job[j].pos,
         q.copied = job[j].copied,
         q.pc \notin {"idle", "sent", "write"},
         q.pc = "connect" => job[j].pc = "sent",
         q.pc \in AtItem => /\ job[j].pos <= Len(Walk[job[j].entry])
                            /\ Path(j) \in Files => Path(j) \in Wanted(j),
         q.pc \in OnAFile => Path(j) \in Files,
         q.pc = "mkdir" => Path(j) \in Folders,
         q.pc = "purge" => q.victim \in Files /\ ~Alone,
         q.pc = "ok" => job[j].pos = Len(Walk[job[j].entry]) + 1,
         Alone /\ q.pc \in {"read", "open"} /\ q.linked => Path(j) \notin present \/ q.misled
  PROVE  IInv'
<1>1. ~At(j, "idle")
  BY DEF At
<1>2. /\ OnItsWay(q) /\ Item(q) = Path(j)
      /\ Visited(q) = Visited(job[j]) /\ ToCopy(q) = ToCopy(job[j])
  BY <1>1, UnderWay, SameItem
<1>3. Alone => \A f \in ToCopy(q) \cap Visited(q) : f \in present /\ Accounted(f)
  BY <1>1, <1>2, UnderWay DEF Results
<1>4. leftover \subseteq leftover' /\ leftover' \subseteq Files
  BY DEF IInv, TypeOK
<1> QED BY <1>1, <1>2, <1>3, <1>4, StepBesides

(* A job that goes on to its next item, with the phone as it is.           *)
LEMMA FurtherOf ==
  ASSUME NEW j \in Jobs, NEW q \in Job, IInv,
         job' = [job EXCEPT ![j] = q], UNCHANGED <<phone, present, leftover>>, Counted,
         cancel' \in BOOLEAN, remote' \in Files \cup {None}, RemoteIsWritten',
         job[j].pc \in InCopy, job[j].pos <= Len(Walk[job[j].entry]),
         q.entry = job[j].entry, q.sel = job[j].sel, q.linked = job[j].linked,
         q.pos = job[j].pos + 1, q.pc = "next",
         q.copied = IF Path(j) \in Wanted(j) THEN job[j].copied + 1 ELSE job[j].copied,
         Alone /\ Path(j) \in Wanted(j) => Path(j) \in present /\ Accounted(Path(j)),
         Alone /\ job[j].pc \in {"write", "delete"} => Accounted(Path(j))
  PROVE  IInv'
<1>1. ~At(j, "idle") /\ job[j].pc \notin {"cancelled", "failed"}
  BY DEF At, InCopy
<1>2. /\ OnItsWay(q) /\ ToCopy(q) = ToCopy(job[j])
      /\ Visited(q) = Visited(job[j]) \cup {Item(job[j])}
  BY <1>1, UnderWay, OneFurther DEF At
<1>3. Alone => \A f \in ToCopy(q) \cap Visited(q) : f \in present /\ Accounted(f)
  BY <1>1, <1>2, UnderWay
<1>4. leftover \subseteq leftover' /\ leftover' \subseteq Files
  BY DEF IInv, TypeOK
<1>5. \A f : Accounted(f) => Accounted(f)'
  BY DEF Accounted, IsWhole, Full
<1> QED BY <1>1, <1>2, <1>3, <1>4, <1>5, StepBesides

-----------------------------------------------------------------------------
(* The steps of a job, one by one.                                         *)

LEMMA BeginKeeps ==
  ASSUME NEW j \in Jobs, IInv, Begin(j)
  PROVE  IInv'
<1>1. ~At(j, "idle") /\ job[j].pc = "sent"
  BY DEF Begin, At
<1>2. job \in [Jobs -> Job] /\ job[j] \in Job
  BY <1>1, UnderWay
<1>3. PICK pc \in {"connect", "failed"} : job' = [job EXCEPT ![j].pc = pc]
  BY DEF Begin
<1> DEFINE q == [job[j] EXCEPT !.pc = pc]
<1>4. q \in Job /\ q.pc = pc /\ job' = [job EXCEPT ![j] = q]
  BY <1>2, <1>3 DEF Job, PC, Results
<1>5. UNCHANGED <<phone, present, remote, leftover>> /\ Counted /\ cancel' \in BOOLEAN
      /\ remote' \in Files \cup {None}
  BY EnvStays DEF Begin, FlagReset, IInv, TypeOK
<1>6. RemoteIsWritten'
  BY <1>1, <1>2, <1>4, <1>5, NameStays
<1> QED BY <1>1, <1>2, <1>3, <1>4, <1>5, <1>6, TurnOf DEF Results, AtItem, OnAFile, Job

LEMMA ConnectKeeps ==
  ASSUME NEW j \in Jobs, IInv, Connect(j)
  PROVE  IInv'
<1>1. ~At(j, "idle") /\ job[j].pc = "connect"
  BY DEF Connect, At
<1>2. job \in [Jobs -> Job] /\ job[j] \in Job
  BY <1>1, UnderWay
<1>3. PICK q \in {[job[j] EXCEPT !.pc = "stat", !.linked = TRUE], [job[j] EXCEPT !.pc = "failed"]} :
        job' = [job EXCEPT ![j] = q]
  BY <1>2 DEF Connect
<1>4. /\ q \in Job /\ q.pc \in {"stat", "failed"} /\ (q.pc = "stat" => q.linked)
      /\ q.entry = job[j].entry /\ q.sel = job[j].sel /\ q.pos = job[j].pos
      /\ q.copied = job[j].copied
  BY <1>2, <1>3 DEF Job, PC, Results
<1>5. UNCHANGED <<phone, present, cancel, remote, leftover>> /\ Counted /\ cancel' \in BOOLEAN
      /\ remote' \in Files \cup {None}
  BY EnvStays DEF Connect, IInv, TypeOK
<1>6. RemoteIsWritten'
  BY <1>1, <1>2, <1>3, <1>4, <1>5, NameStays
<1>7. job[j].pos = 1 /\ job[j].entry \in Entries /\ job[j].pos <= Len(Walk[job[j].entry])
      /\ Path(j) \notin Files
  BY <1>1, UnderWay, Walks DEF OnItsWay, Path
<1> QED BY <1>1, <1>3, <1>4, <1>5, <1>6, <1>7, TurnOf DEF Results, AtItem, OnAFile

LEMMA LoopCancelledKeeps ==
  ASSUME NEW j \in Jobs, IInv, LoopCancelled(j)
  PROVE  IInv'
<1>1. ~At(j, "idle") /\ job[j].pc = "next"
  BY DEF LoopCancelled, At
<1>2. job \in [Jobs -> Job] /\ job[j] \in Job
  BY <1>1, UnderWay
<1>3. UNCHANGED <<phone, present, cancel, remote, leftover>> /\ Counted /\ cancel' \in BOOLEAN
      /\ remote \in Files \cup {None} /\ remote' \in Files \cup {None}
  BY EnvStays DEF LoopCancelled, IInv, TypeOK
<1> DEFINE q == [job[j] EXCEPT !.pc = IF remote = None THEN "cancelled" ELSE "purge",
                               !.victim = remote]
<1>4. q \in Job /\ job' = [job EXCEPT ![j] = q]
  BY <1>2, <1>3 DEF LoopCancelled, Job, PC, Results
<1>5. /\ q.pc \in {"cancelled", "purge"} /\ (q.pc = "purge" => q.victim \in Files)
      /\ q.entry = job[j].entry /\ q.sel = job[j].sel /\ q.pos = job[j].pos
      /\ q.copied = job[j].copied /\ q.linked = job[j].linked
  BY <1>2, <1>3 DEF Job
<1>6. RemoteIsWritten'
  BY <1>1, <1>2, <1>3, <1>4, NameStays
<1>7. q.pc = "purge" => ~Alone
  <2> SUFFICES ASSUME remote # None, Alone PROVE FALSE
    BY <1>2 DEF Job
  <2>1. PICK k \in Jobs : job[k].pc \in {"open", "write"}
    BY DEF IInv, RemoteIsWritten
  <2> QED BY <1>1, <2>1 DEF IInv, OneAtATime, At
<1> HIDE DEF q
<1> QED BY <1>1, <1>3, <1>4, <1>5, <1>6, <1>7, TurnOf DEF Results, AtItem, OnAFile

LEMMA FinishKeeps ==
  ASSUME NEW j \in Jobs, IInv, Finish(j)
  PROVE  IInv'
<1>1. ~At(j, "idle") /\ job[j].pc = "next"
  BY DEF Finish, At
<1>2. job \in [Jobs -> Job] /\ job[j] \in Job /\ job[j].pos = Len(Walk[job[j].entry]) + 1
  BY <1>1, UnderWay, Walks DEF Finish, InWalk
<1> DEFINE q == [job[j] EXCEPT !.pc = "ok"]
<1>3. q \in Job /\ job' = [job EXCEPT ![j] = q] /\ q.pc = "ok"
      /\ q.entry = job[j].entry /\ q.sel = job[j].sel /\ q.pos = job[j].pos
      /\ q.copied = job[j].copied
  BY <1>2 DEF Finish, Job, PC, Results
<1>4. UNCHANGED <<phone, present, cancel, remote, leftover>> /\ Counted /\ cancel' \in BOOLEAN
      /\ remote' \in Files \cup {None}
  BY EnvStays DEF Finish, IInv, TypeOK
<1>5. RemoteIsWritten'
  BY <1>1, <1>2, <1>3, <1>4, NameStays
<1> HIDE DEF q
<1> QED BY <1>1, <1>2, <1>3, <1>4, <1>5, TurnOf DEF Results, AtItem, OnAFile

LEMMA LocalErrorKeeps ==
  ASSUME NEW j \in Jobs, IInv, LocalError(j)
  PROVE  IInv'
<1>1. ~At(j, "idle") /\ job[j].pc \in {"next", "read"}
  BY DEF LocalError, At
<1>2. job \in [Jobs -> Job] /\ job[j] \in Job
  BY <1>1, UnderWay
<1> DEFINE q == [job[j] EXCEPT !.pc = "failed"]
<1>3. q \in Job /\ job' = [job EXCEPT ![j] = q] /\ q.pc = "failed"
      /\ q.entry = job[j].entry /\ q.sel = job[j].sel /\ q.pos = job[j].pos
      /\ q.copied = job[j].copied
  BY <1>2 DEF LocalError, Job, PC, Results
<1>4. UNCHANGED <<phone, present, cancel, remote, leftover>> /\ Counted /\ cancel' \in BOOLEAN
      /\ remote' \in Files \cup {None}
  BY EnvStays DEF LocalError, IInv, TypeOK
<1>5. RemoteIsWritten'
  BY <1>1, <1>2, <1>3, <1>4, NameStays
<1> HIDE DEF q
<1> QED BY <1>1, <1>2, <1>3, <1>4, <1>5, TurnOf DEF Results, AtItem, OnAFile

LEMMA VisitKeeps ==
  ASSUME NEW j \in Jobs, IInv, Visit(j)
  PROVE  IInv'
<1>1. ~At(j, "idle") /\ job[j].pc = "next" /\ job[j].pos <= Len(Walk[job[j].entry])
  BY DEF Visit, At, InWalk
<1>2. job \in [Jobs -> Job] /\ job[j] \in Job
  BY <1>1, UnderWay
<1>3. UNCHANGED <<phone, present, cancel, remote, leftover>> /\ Counted /\ cancel' \in BOOLEAN
      /\ remote' \in Files \cup {None}
  BY EnvStays DEF Visit, IInv, TypeOK
<1>4. CASE Path(j) \in Files \ Wanted(j)
  <2> DEFINE q == [job[j] EXCEPT !.pos = @ + 1]
  <2>1. q \in Job /\ job' = [job EXCEPT ![j] = q]
    BY <1>2, <1>4 DEF Visit, PassOver, Job
  <2>2. /\ q.pc = "next" /\ q.entry = job[j].entry /\ q.sel = job[j].sel
        /\ q.pos = job[j].pos + 1 /\ q.copied = job[j].copied /\ q.linked = job[j].linked
    BY <1>1, <1>2 DEF Job
  <2>3. RemoteIsWritten'
    BY <1>1, <1>2, <1>3, <2>1, NameStays
  <2> HIDE DEF q
  <2> QED BY <1>1, <1>3, <1>4, <2>1, <2>2, <2>3, FurtherOf DEF InCopy
<1>5. CASE Path(j) \notin Files \ Wanted(j)
  <2> DEFINE q == [job[j] EXCEPT !.pc = "stat"]
  <2>1. q \in Job /\ job' = [job EXCEPT ![j] = q]
    BY <1>2, <1>5 DEF Visit, Job, PC
  <2>2. /\ q.pc = "stat" /\ q.entry = job[j].entry /\ q.sel = job[j].sel
        /\ q.pos = job[j].pos /\ q.copied = job[j].copied /\ q.linked = job[j].linked
    BY <1>1, <1>2 DEF Job
  <2>3. RemoteIsWritten'
    BY <1>1, <1>2, <1>3, <2>1, NameStays
  <2> HIDE DEF q
  <2> QED BY <1>1, <1>3, <1>5, <2>1, <2>2, <2>3, TurnOf DEF Results, OnAFile
<1> QED BY <1>4, <1>5

LEMMA StatKeeps ==
  ASSUME NEW j \in Jobs, IInv, Stat(j)
  PROVE  IInv'
<1>1. ~At(j, "idle") /\ job[j].pc = "stat"
  BY DEF Stat, At
<1>2. job \in [Jobs -> Job] /\ job[j] \in Job
  BY <1>1, UnderWay
<1>3. UNCHANGED <<phone, present, cancel, remote, leftover>> /\ Counted /\ cancel' \in BOOLEAN
      /\ remote' \in Files \cup {None}
  BY EnvStays DEF Stat, IInv, TypeOK
<1>4. /\ job[j].pos <= Len(Walk[job[j].entry])
      /\ Path(j) \in Files => Path(j) \in Wanted(j)
      /\ Path(j) \in Files \cup Folders
  <2>1. /\ job[j].entry \in Entries /\ job[j].pos \in 1 .. Len(Walk[job[j].entry])
        /\ Item(job[j]) \in Files => Item(job[j]) \in ToCopy(job[j])
    <3>1. job[j].entry \in Entries /\ Len(Walk[job[j].entry]) \in Nat /\ OnItsWay(job[j])
      BY <1>1, UnderWay, Walks
    <3> QED BY <1>1, <3>1 DEF OnItsWay, AtItem
  <2>2. Path(j) \in Files \cup Folders
    BY <2>1, Walks DEF Path
  <2> QED BY <1>1, <2>1, <2>2, UnderWay
<1>5. Wanted(j) \subseteq Files
  BY DEF Wanted, FilesOf
<1>6. CASE Found(j)
  <2> DEFINE q == IF Path(j) \in Files THEN Skip(job[j]) ELSE Onward(job[j])
  <2>1. q \in Job /\ job' = [job EXCEPT ![j] = q]
    <3>1. q \in Job
      <4>1. job[j].pos + 1 \in Nat /\ job[j].copied + 1 \in Nat /\ "next" \in PC
        BY <1>2 DEF Job, PC
      <4>2. Skip(job[j]) \in Job
        BY <1>2, <4>1 DEF Skip, Job
      <4>3. Onward(job[j]) \in Job
        BY <1>2, <4>1 DEF Onward, Job
      <4> QED BY <4>2, <4>3
    <3>2. job' = [job EXCEPT ![j] = q]
      BY <1>2, <1>6 DEF Stat
    <3> QED BY <3>1, <3>2
  <2>2. /\ q.pc = "next" /\ q.entry = job[j].entry /\ q.sel = job[j].sel
        /\ q.pos = job[j].pos + 1 /\ q.linked = job[j].linked
        /\ q.copied = IF Path(j) \in Files THEN job[j].copied + 1 ELSE job[j].copied
    BY <1>1, <1>2 DEF Skip, Onward, Job
  <2>3. RemoteIsWritten'
    BY <1>1, <1>2, <1>3, <2>1, NameStays
  <2>4. Path(j) \in present
    BY <1>6 DEF Found
  <2>5. ASSUME Alone, Path(j) \in Files PROVE Accounted(Path(j))
    <3>1. Accounted(Path(j)) \/ InWork(Path(j))
      BY <2>4, <2>5 DEF IInv, PartialIsInWork
    <3>2. ~InWork(Path(j))
      BY <1>1, <2>5 DEF IInv, OneAtATime, At, InWork
    <3> QED BY <3>1, <3>2
  <2> HIDE DEF q
  <2> QED BY <1>1, <1>3, <1>4, <1>5, <2>1, <2>2, <2>3, <2>4, <2>5, FurtherOf DEF InCopy
<1>7. CASE ~Found(j)
  <2> DEFINE q == [job[j] EXCEPT !.pc = Missing(j)]
  <2>1. q \in Job /\ job' = [job EXCEPT ![j] = q]
    BY <1>2, <1>7 DEF Stat, Missing, Job, PC
  <2>2. /\ q.pc = IF Path(j) \in Files THEN "read" ELSE "mkdir"
        /\ q.entry = job[j].entry /\ q.sel = job[j].sel
        /\ q.pos = job[j].pos /\ q.copied = job[j].copied /\ q.linked = job[j].linked
    BY <1>1, <1>2 DEF Job, Missing
  <2>3. RemoteIsWritten'
    BY <1>1, <1>2, <1>3, <2>1, NameStays
  <2>4. q.linked => Path(j) \notin present
    BY <1>7, <2>2 DEF Found
  <2> HIDE DEF q
  <2> QED BY <1>1, <1>3, <1>4, <2>1, <2>2, <2>3, <2>4, TurnOf DEF Results, OnAFile
<1> QED BY <1>6, <1>7

LEMMA StatRefusedKeeps ==
  ASSUME NEW j \in Jobs, IInv, StatRefused(j)
  PROVE  IInv'
<1>1. ~At(j, "idle") /\ job[j].pc = "stat"
  BY DEF StatRefused, At
<1>2. job \in [Jobs -> Job] /\ job[j] \in Job
  BY <1>1, UnderWay
<1>3. UNCHANGED <<phone, present, cancel, remote, leftover>> /\ Counted /\ cancel' \in BOOLEAN
      /\ remote' \in Files \cup {None}
  BY RefusalsCounted DEF StatRefused, IInv, TypeOK
<1>4. /\ job[j].pos <= Len(Walk[job[j].entry])
      /\ Path(j) \in Files => Path(j) \in Wanted(j)
      /\ Path(j) \in Files \cup Folders
  <2>1. /\ job[j].entry \in Entries /\ job[j].pos \in 1 .. Len(Walk[job[j].entry])
        /\ Item(job[j]) \in Files => Item(job[j]) \in ToCopy(job[j])
    <3>1. job[j].entry \in Entries /\ Len(Walk[job[j].entry]) \in Nat /\ OnItsWay(job[j])
      BY <1>1, UnderWay, Walks
    <3> QED BY <1>1, <3>1 DEF OnItsWay, AtItem
  <2>2. Path(j) \in Files \cup Folders
    BY <2>1, Walks DEF Path
  <2> QED BY <1>1, <2>1, <2>2, UnderWay
<1> DEFINE q == [job[j] EXCEPT !.pc = Missing(j), !.misled = Path(j) \in Files]
<1>5. q \in Job /\ job' = [job EXCEPT ![j] = q]
  <2>1. Missing(j) \in PC /\ (Path(j) \in Files) \in BOOLEAN
    BY DEF Missing, PC
  <2>2. q \in Job
    BY <1>2, <2>1 DEF Job
  <2> QED BY <1>2, <2>2 DEF StatRefused
<1>6. /\ q.pc = IF Path(j) \in Files THEN "read" ELSE "mkdir"
      /\ q.entry = job[j].entry /\ q.sel = job[j].sel
      /\ q.pos = job[j].pos /\ q.copied = job[j].copied
      /\ q.pc = "read" => q.misled
  BY <1>1, <1>2 DEF Job, Missing
<1>7. RemoteIsWritten'
  BY <1>1, <1>2, <1>3, <1>5, NameStays
<1> HIDE DEF q
<1> QED BY <1>1, <1>3, <1>4, <1>5, <1>6, <1>7, TurnOf DEF Results, OnAFile

LEMMA ReadKeeps ==
  ASSUME NEW j \in Jobs, IInv, Read(j)
  PROVE  IInv'
<1>1. ~At(j, "idle") /\ job[j].pc = "read"
  BY DEF Read, At
<1>2. job \in [Jobs -> Job] /\ job[j] \in Job
  BY <1>1, UnderWay
<1>3. /\ job[j].pos <= Len(Walk[job[j].entry]) /\ Path(j) \in Files
      /\ Path(j) \in Wanted(j)
      /\ Alone /\ job[j].linked => Path(j) \notin present \/ job[j].misled
  BY <1>1, UnderWay DEF OnItsWay, AtItem, OnAFile, IInv, Undisturbed
<1>4. UNCHANGED <<phone, present, cancel, leftover>> /\ Counted /\ cancel' \in BOOLEAN
      /\ remote' = Path(j) /\ remote' \in Files \cup {None}
  BY <1>3, EnvStays DEF Read, IInv, TypeOK
<1> DEFINE q == [job[j] EXCEPT !.pc = "open"]
<1>5. q \in Job /\ job' = [job EXCEPT ![j] = q]
  BY <1>2 DEF Read, Job, PC
<1>6. /\ q.pc = "open" /\ q.entry = job[j].entry /\ q.sel = job[j].sel
      /\ q.pos = job[j].pos /\ q.copied = job[j].copied /\ q.linked = job[j].linked
      /\ q.misled = job[j].misled
  BY <1>1, <1>2 DEF Job
<1>7. RemoteIsWritten'
  <2>1. job'[j].pc = "open" /\ Path(j)' = Path(j)
    BY <1>2, <1>5, <1>6 DEF Path
  <2> QED BY <1>4, <2>1 DEF RemoteIsWritten
<1> HIDE DEF q
<1> QED BY <1>1, <1>3, <1>4, <1>5, <1>6, <1>7, TurnOf DEF Results

(* A path a job has dealt with is not the one it is at, ...                *)
LEMMA NotAgain ==
  ASSUME NEW j \in Jobs, IInv, job[j].pc \in AtItem
  PROVE  Path(j) \notin Visited(job[j])
<1>1. ~At(j, "idle")
  BY DEF At, AtItem
<1> DEFINE r == job[j]
<1>2. r.entry \in Entries /\ r.pos \in 1 .. Len(Walk[r.entry]) + 1 /\ r.pos <= Len(Walk[r.entry])
      /\ Len(Walk[r.entry]) \in Nat /\ DOMAIN Walk[r.entry] = 1 .. Len(Walk[r.entry])
  BY <1>1, UnderWay, Walks DEF OnItsWay, At
<1>3. \A n \in 1 .. r.pos - 1 : n \in DOMAIN Walk[r.entry] /\ r.pos \in DOMAIN Walk[r.entry] /\ n # r.pos
  BY <1>2
<1>4. \A n \in 1 .. r.pos - 1 : Walk[r.entry][n] # Walk[r.entry][r.pos]
  BY <1>2, <1>3, WalkAssumption
<1> QED BY <1>4 DEF Visited, Path

(* ... and of the rest all is whole, or left over.                         *)
LEMMA RestIsWhole ==
  ASSUME NEW j \in Jobs, IInv, Alone, ~At(j, "idle")
  PROVE  \A f \in present \cap Files :
            Accounted(f) \/ (job[j].pc \in {"write", "delete"} /\ Path(j) = f)
<1>1. \A f \in present \cap Files : Accounted(f) \/ InWork(f)
  BY DEF IInv, PartialIsInWork
<1>2. \A k \in Jobs : k # j => job[k].pc = "idle"
  BY DEF IInv, OneAtATime, At
<1> QED BY <1>1, <1>2 DEF InWork

LEMMA WriteDoneKeeps ==
  ASSUME NEW j \in Jobs, IInv, WriteDone(j)
  PROVE  IInv'
<1>1. ~At(j, "idle") /\ job[j].pc = "write" /\ job[j].off = Chunks
  BY DEF WriteDone, At
<1>2. job \in [Jobs -> Job] /\ job[j] \in Job /\ OnItsWay(job[j])
      /\ Path(j) = Item(job[j]) /\ Wanted(j) = ToCopy(job[j]) /\ job[j].entry \in Entries
  BY <1>1, UnderWay
<1>3. job[j].pos <= Len(Walk[job[j].entry]) /\ Path(j) \in Wanted(j)
  BY <1>1, <1>2 DEF OnItsWay, AtItem, OnAFile
<1>4. UNCHANGED <<phone, present, cancel, leftover>> /\ Counted /\ cancel' \in BOOLEAN
      /\ remote' = None
  BY EnvStays DEF WriteDone, NameCleared, IInv, TypeOK
<1> DEFINE q == [job[j] EXCEPT !.pc = "next", !.pos = @ + 1, !.copied = @ + 1]
<1>5. q \in Job /\ job' = [job EXCEPT ![j] = q]
  BY <1>2 DEF WriteDone, Job, PC
<1>6. /\ q.pc = "next" /\ q.entry = job[j].entry /\ q.sel = job[j].sel
      /\ q.pos = job[j].pos + 1 /\ q.copied = job[j].copied + 1 /\ q.linked = job[j].linked
  BY <1>1, <1>2 DEF Job
<1>7. RemoteIsWritten'
  BY <1>4 DEF RemoteIsWritten
<1>8. ASSUME Alone PROVE Path(j) \in present /\ Accounted(Path(j))
  <2>1. Path(j) \in present /\ phone[Path(j)] = Full(job[j].entry)
    BY <1>1, <1>8 DEF IInv, Undisturbed, At, Full
  <2>2. Path(j) \in FilesOf(job[j].entry)
    BY <1>3 DEF Wanted
  <2> QED BY <1>2, <2>1, <2>2 DEF IsWhole, Accounted
<1> HIDE DEF q
<1> QED BY <1>1, <1>3, <1>4, <1>5, <1>6, <1>7, <1>8, FurtherOf DEF InCopy

LEMMA WriteFailsKeeps ==
  ASSUME NEW j \in Jobs, IInv, WriteFails(j), Counted
  PROVE  IInv'
<1>1. ~At(j, "idle") /\ job[j].pc \in {"open", "write"}
  BY DEF WriteFails, At
<1>2. job \in [Jobs -> Job] /\ job[j] \in Job /\ OnItsWay(job[j])
  BY <1>1, UnderWay
<1>3. UNCHANGED <<phone, present, cancel, leftover>> /\ Counted /\ cancel' \in BOOLEAN
      /\ remote' = None
  BY DEF WriteFails, IInv, TypeOK
<1> DEFINE q == [job[j] EXCEPT !.pc = "delete"]
<1>4. q \in Job /\ job' = [job EXCEPT ![j] = q]
  BY <1>2 DEF WriteFails, AfterFailure, Job, PC
<1>5. /\ q.pc = "delete" /\ q.entry = job[j].entry /\ q.sel = job[j].sel
      /\ q.pos = job[j].pos /\ q.copied = job[j].copied /\ q.linked = job[j].linked
  BY <1>1, <1>2 DEF Job
<1>6. RemoteIsWritten'
  BY <1>3 DEF RemoteIsWritten
<1> HIDE DEF q
<1>7. /\ OnItsWay(q) /\ Item(q) = Path(j)
      /\ Visited(q) = Visited(job[j]) /\ ToCopy(q) = ToCopy(job[j])
  <2>1. /\ job[j].pos <= Len(Walk[job[j].entry]) /\ Item(job[j]) \in Files
        /\ Item(job[j]) \in ToCopy(job[j])
    BY <1>1, <1>2 DEF OnItsWay, AtItem, OnAFile
  <2> QED BY <1>1, <1>2, <1>4, <1>5, <2>1, UnderWay, SameItem
<1>8. Alone => \A f \in ToCopy(q) \cap Visited(q) : f \in present /\ Accounted(f)
  BY <1>1, <1>7, UnderWay
<1>9. leftover \subseteq leftover' /\ leftover' \subseteq Files
  BY <1>3 DEF IInv, TypeOK
<1> QED BY <1>1, <1>3, <1>4, <1>5, <1>6, <1>7, <1>8, <1>9, StepBesides

LEMMA MakeDirKeeps ==
  ASSUME NEW j \in Jobs, IInv, MakeDir(j)
  PROVE  IInv'
<1>1. ~At(j, "idle") /\ job[j].pc = "mkdir"
  BY DEF MakeDir, At
<1>2. job \in [Jobs -> Job] /\ job[j] \in Job /\ OnItsWay(job[j])
      /\ Path(j) = Item(job[j]) /\ Wanted(j) = ToCopy(job[j]) /\ job[j].entry \in Entries
  BY <1>1, UnderWay
<1>3. job[j].pos <= Len(Walk[job[j].entry]) /\ Path(j) \in Folders
  BY <1>1, <1>2 DEF OnItsWay, AtItem
<1>4. UNCHANGED <<phone, cancel, remote, leftover>> /\ Counted /\ cancel' \in BOOLEAN
      /\ remote' \in Files \cup {None}
  BY EnvStays DEF MakeDir, IInv, TypeOK
<1> DEFINE q == Onward(job[j])
<1>5. q \in Job /\ job' = [job EXCEPT ![j] = q]
  <2>1. job[j].pos + 1 \in Nat /\ "next" \in PC
    BY <1>2 DEF Job, PC
  <2>2. q \in Job
    BY <1>2, <2>1 DEF Onward, Job
  <2> QED BY <1>2, <2>2 DEF MakeDir
<1>6. /\ q.pc = "next" /\ q.entry = job[j].entry /\ q.sel = job[j].sel
      /\ q.pos = job[j].pos + 1 /\ q.copied = job[j].copied
  BY <1>1, <1>2 DEF Job, Onward
<1> HIDE DEF q
<1>7. job'[j] = q /\ \A k \in Jobs \ {j} : job'[k] = job[k]
  BY <1>2, <1>5
<1>8. present' = present \cup {Path(j)} /\ present' \cap Files = present \cap Files
  BY <1>3, WalkAssumption DEF MakeDir
<1>9. Path(j) \notin Wanted(j)
  BY <1>3, WalkAssumption DEF Wanted, FilesOf
<1>10. /\ OnItsWay(q) /\ ToCopy(q) = ToCopy(job[j])
       /\ Visited(q) = Visited(job[j]) \cup {Path(j)}
  BY <1>1, <1>2, <1>3, <1>5, <1>6, <1>9, OneFurther
<1>11. TypeOK' /\ overlaps' = overlaps
  BY <1>2, <1>3, <1>4, <1>5, <1>8 DEF IInv, TypeOK, Counted, Counters
<1>12. Ways'
  BY <1>7, <1>10 DEF IInv, Ways
<1>13. RemoteIsWritten'
  BY <1>1, <1>4, <1>7, NameStays
<1>14. Undisturbed(j)'
  BY <1>6, <1>7 DEF Undisturbed, At
<1>15. \A f : Accounted(f)' = Accounted(f)
  BY <1>4 DEF Accounted, IsWhole, Full
<1>16. ASSUME Alone PROVE Thorough(j)'
  <2>1. \A f \in ToCopy(q) \cap Visited(q) : f \in present /\ Accounted(f)
    BY <1>1, <1>2, <1>9, <1>10, <1>16, UnderWay
  <2> QED BY <1>6, <1>7, <1>8, <1>15, <2>1 DEF Thorough
<1>17. ASSUME Alone PROVE PartialIsInWork'
  BY <1>1, <1>8, <1>15, <1>17, RestIsWhole DEF PartialIsInWork
<1> QED BY <1>1, <1>7, <1>11, <1>12, <1>13, <1>14, <1>16, <1>17, StepOfOne

LEMMA MakeDirFailsKeeps ==
  ASSUME NEW j \in Jobs, IInv, MakeDirFails(j), Counted
  PROVE  IInv'
<1>1. ~At(j, "idle") /\ job[j].pc = "mkdir"
  BY DEF MakeDirFails, At
<1>2. job \in [Jobs -> Job] /\ job[j] \in Job
  BY <1>1, UnderWay
<1>3. UNCHANGED <<phone, present, cancel, remote, leftover>> /\ cancel' \in BOOLEAN
      /\ remote' \in Files \cup {None}
  BY DEF MakeDirFails, IInv, TypeOK
<1> DEFINE q == [job[j] EXCEPT !.pc = "failed"]
<1>4. q \in Job /\ job' = [job EXCEPT ![j] = q] /\ q.pc = "failed"
      /\ q.entry = job[j].entry /\ q.sel = job[j].sel /\ q.pos = job[j].pos
      /\ q.copied = job[j].copied
  BY <1>2 DEF MakeDirFails, Job, PC, Results
<1>5. RemoteIsWritten'
  BY <1>1, <1>2, <1>3, <1>4, NameStays
<1> HIDE DEF q
<1> QED BY <1>1, <1>3, <1>4, <1>5, TurnOf DEF Results, AtItem, OnAFile

LEMMA OpenKeeps ==
  ASSUME NEW j \in Jobs, IInv, Open(j)
  PROVE  IInv'
<1>1. ~At(j, "idle") /\ job[j].pc = "open" /\ job[j].linked
  BY DEF Open, At
<1>2. job \in [Jobs -> Job] /\ job[j] \in Job /\ OnItsWay(job[j])
      /\ Path(j) = Item(job[j]) /\ Wanted(j) = ToCopy(job[j]) /\ job[j].entry \in Entries
  BY <1>1, UnderWay
<1>3. /\ job[j].pos <= Len(Walk[job[j].entry]) /\ Path(j) \in Files
      /\ Path(j) \in Wanted(j)
  BY <1>1, <1>2 DEF OnItsWay, AtItem, OnAFile
<1>4. UNCHANGED <<cancel, remote>> /\ Counted /\ phone' = [phone EXCEPT ![Path(j)] = {}]
      /\ leftover' = leftover \ {Path(j)}
      /\ present' = present \cup {Path(j)}
  BY EnvStays DEF Open
<1>5. phone \in [Files -> SUBSET (Entries \X (1 .. Chunks))]
  BY DEF IInv, TypeOK
<1> DEFINE q == [job[j] EXCEPT !.pc = "write", !.off = 0, !.named = TRUE,
                               !.misled = FALSE]
<1>6. q \in Job /\ job' = [job EXCEPT ![j] = q]
  <2>1. 0 \in 0 .. Chunks /\ "write" \in PC
    BY WalkAssumption DEF PC
  <2>2. q \in Job
    BY <1>2, <2>1 DEF Job
  <2> QED BY <1>2, <2>2 DEF Open
<1>7. /\ q.pc = "write" /\ q.entry = job[j].entry /\ q.sel = job[j].sel /\ q.off = 0 /\ q.named
      /\ q.pos = job[j].pos /\ q.copied = job[j].copied /\ q.linked = job[j].linked
  BY <1>1, <1>2 DEF Job
<1> HIDE DEF q
<1>8. job'[j] = q /\ \A k \in Jobs \ {j} : job'[k] = job[k]
  BY <1>2, <1>6
<1>9. /\ OnItsWay(q) /\ Item(q) = Path(j)
      /\ Visited(q) = Visited(job[j]) /\ ToCopy(q) = ToCopy(job[j])
  BY <1>1, <1>2, <1>3, <1>6, <1>7, SameItem
<1>10. TypeOK'
  BY <1>2, <1>3, <1>4, <1>5, <1>6 DEF IInv, TypeOK, Counted, Counters
<1>11. Ways'
  BY <1>8, <1>9 DEF IInv, Ways
<1>12. RemoteIsWritten'
  <2>1. \A k \in Jobs : Path(k)' = Path(k)
    BY <1>7, <1>8 DEF Path
  <2> QED BY <1>4, <1>7, <1>8, <2>1 DEF IInv, RemoteIsWritten
<1>13. Undisturbed(j)'
  <2>1. phone'[Path(j)] = {q.entry} \X (1 .. q.off)
    BY <1>3, <1>4, <1>5, <1>7
  <2>2. Path(j)' = Path(j)
    BY <1>7, <1>8 DEF Path
  <2> QED BY <1>4, <1>7, <1>8, <2>1, <2>2 DEF Undisturbed, At
<1>14. \A f \in Files : f # Path(j) => Accounted(f)' = Accounted(f)
  BY <1>4, <1>5 DEF Accounted, IsWhole, Full
<1>15. ASSUME Alone PROVE Thorough(j)'
  <2>1. Path(j) \notin Visited(job[j])
    BY <1>1, NotAgain DEF AtItem
  <2>2. \A f \in ToCopy(q) \cap Visited(q) : f \in present /\ Accounted(f) /\ f # Path(j) /\ f \in Files
    BY <1>1, <1>2, <1>9, <1>15, <2>1, UnderWay DEF ToCopy, FilesOf
  <2> QED BY <1>1, <1>4, <1>7, <1>8, <1>14, <2>2 DEF Thorough
<1>16. ASSUME Alone PROVE PartialIsInWork'
  <2>1. \E k \in Jobs : job'[k].pc \in {"write", "delete"} /\ Path(k)' = Path(j)
    BY <1>7, <1>8 DEF Path
  <2>2. \A f \in present \cap Files : Accounted(f)
    BY <1>1, <1>16, RestIsWhole
  <2> QED BY <1>4, <1>14, <2>1, <2>2 DEF PartialIsInWork, InWork
<1>17. overlaps' = overlaps
  BY <1>4 DEF Counted
<1> QED BY <1>1, <1>8, <1>10, <1>11, <1>12, <1>13, <1>15, <1>16, <1>17, StepOfOne

LEMMA WriteChunkKeeps ==
  ASSUME NEW j \in Jobs, IInv, WriteChunk(j)
  PROVE  IInv'
<1> DEFINE n == job[j].off + 1
           pc == IF cancel THEN "delete" ELSE "write"
           q == [job[j] EXCEPT !.off = n, !.pc = pc]
<1>1. ~At(j, "idle") /\ job[j].pc = "write" /\ job[j].linked /\ job[j].off < Chunks
  BY DEF WriteChunk, Unwritten, At
<1>2. job \in [Jobs -> Job] /\ job[j] \in Job /\ OnItsWay(job[j])
      /\ Path(j) = Item(job[j]) /\ Wanted(j) = ToCopy(job[j]) /\ job[j].entry \in Entries
  BY <1>1, UnderWay
<1>3. /\ job[j].pos <= Len(Walk[job[j].entry]) /\ Path(j) \in Files
      /\ Path(j) \in Wanted(j)
  BY <1>1, <1>2 DEF OnItsWay, AtItem, OnAFile
<1>4. UNCHANGED <<present, cancel, leftover>> /\ Counted /\ remote' = IF cancel THEN None ELSE remote
  BY EnvStays DEF WriteChunk
<1>5. phone \in [Files -> SUBSET (Entries \X (1 .. Chunks))]
  BY DEF IInv, TypeOK
<1>6. n \in 1 .. Chunks /\ job[j].off \in Nat
  BY <1>1, <1>2, WalkAssumption DEF Job
<1>7. q \in Job /\ job' = [job EXCEPT ![j] = q]
  <2>1. n \in 0 .. Chunks /\ pc \in PC
    BY <1>6, WalkAssumption DEF PC
  <2>2. q \in Job
    BY <1>2, <2>1 DEF Job
  <2> QED BY <1>1, <1>2, <2>2 DEF WriteChunk
<1>8. /\ q.pc = pc /\ q.entry = job[j].entry /\ q.sel = job[j].sel /\ q.off = n
      /\ q.pos = job[j].pos /\ q.copied = job[j].copied /\ q.linked = job[j].linked
      /\ q.named = job[j].named
  BY <1>1, <1>2 DEF Job
<1>9. phone' = IF job[j].named
               THEN [phone EXCEPT ![Path(j)] = Put(Path(j), job[j].entry, n)] ELSE phone
  BY DEF WriteChunk
<1>10. phone' \in [Files -> SUBSET (Entries \X (1 .. Chunks))]
  <2>1. Put(Path(j), job[j].entry, n) \subseteq Entries \X (1 .. Chunks)
    BY <1>2, <1>3, <1>5, <1>6 DEF Put
  <2> QED BY <1>5, <1>9, <2>1
<1>11. pc \in {"write", "delete"} /\ (pc = "delete" <=> cancel)
  OBVIOUS
<1> HIDE DEF q, n, pc
<1>12. job'[j] = q /\ \A k \in Jobs \ {j} : job'[k] = job[k]
  BY <1>2, <1>7
<1>13. /\ OnItsWay(q) /\ Item(q) = Path(j)
       /\ Visited(q) = Visited(job[j]) /\ ToCopy(q) = ToCopy(job[j])
  BY <1>1, <1>2, <1>3, <1>7, <1>8, <1>11, SameItem
<1>14. TypeOK'
  BY <1>2, <1>4, <1>7, <1>10 DEF IInv, TypeOK, Counted, Counters
<1>15. Ways'
  BY <1>12, <1>13 DEF IInv, Ways
<1>16. \A k \in Jobs : Path(k)' = Path(k)
  BY <1>8, <1>12 DEF Path
<1>17. RemoteIsWritten'
  BY <1>4, <1>8, <1>11, <1>12, <1>16 DEF IInv, RemoteIsWritten
<1>18. ASSUME Alone
       PROVE  /\ Undisturbed(j)' /\ Path(j) \in present
              /\ phone'[Path(j)] = {job[j].entry} \X (1 .. n)
  <2>1. /\ job[j].named /\ Path(j) \in present
        /\ phone[Path(j)] = {job[j].entry} \X (1 .. job[j].off)
    BY <1>1, <1>18 DEF IInv, Undisturbed, At
  <2>2. phone'[Path(j)] = Put(Path(j), job[j].entry, n)
    BY <1>3, <1>5, <1>9, <2>1
  <2>3. Put(Path(j), job[j].entry, n) = {job[j].entry} \X (1 .. n)
    <3>1. 1 .. n = (1 .. job[j].off) \cup {n} /\ n \notin 1 .. job[j].off
      BY <1>6 DEF n
    <3>2. \A c \in phone[Path(j)] : c[2] # n
      BY <2>1, <3>1
    <3>3. Put(Path(j), job[j].entry, n) = phone[Path(j)] \cup {<<job[j].entry, n>>}
      BY <3>2 DEF Put
    <3> QED BY <2>1, <3>1, <3>3
  <2> QED BY <1>4, <1>8, <1>11, <1>12, <1>16, <2>1, <2>2, <2>3 DEF Undisturbed, At
<1>19. \A f \in Files : f # Path(j) => Accounted(f)' = Accounted(f)
  BY <1>4, <1>5, <1>9 DEF Accounted, IsWhole, Full
<1>20. ASSUME Alone PROVE Thorough(j)'
  <2>1. Path(j) \notin Visited(job[j])
    BY <1>1, NotAgain DEF AtItem
  <2>2. \A f \in ToCopy(q) \cap Visited(q) : f \in present /\ Accounted(f) /\ f # Path(j) /\ f \in Files
    BY <1>1, <1>2, <1>13, <1>20, <2>1, UnderWay DEF ToCopy, FilesOf
  <2> QED BY <1>1, <1>4, <1>8, <1>12, <1>19, <2>2 DEF Thorough
<1>21. ASSUME Alone PROVE PartialIsInWork'
  <2>1. \E k \in Jobs : job'[k].pc \in {"write", "delete"} /\ Path(k)' = Path(j)
    BY <1>8, <1>11, <1>12, <1>16
  <2>2. \A f \in present \cap Files : Accounted(f) \/ f = Path(j)
    BY <1>1, <1>21, RestIsWhole
  <2> QED BY <1>4, <1>19, <2>1, <2>2 DEF PartialIsInWork, InWork
<1>22. overlaps' = overlaps
  BY <1>4 DEF Counted
<1> QED BY <1>1, <1>12, <1>14, <1>15, <1>17, <1>18, <1>20, <1>21, <1>22, StepOfOne

(* What of a job's record it depends on that it is on its way.             *)
LEMMA SameFields ==
  ASSUME NEW r, NEW q, OnItsWay(r),
         q.pc = r.pc, q.entry = r.entry, q.sel = r.sel, q.pos = r.pos,
         q.copied = r.copied, q.victim = r.victim
  PROVE  OnItsWay(q)
<1>1. Visited(q) = Visited(r) /\ ToCopy(q) = ToCopy(r) /\ Item(q) = Item(r)
  BY DEF Visited, ToCopy, Item
<1> QED BY <1>1 DEF OnItsWay

(* Removing a path, at the end of a job that cleans up or is cancelled.    *)
LEMMA RemovalKeeps ==
  ASSUME NEW j \in Jobs, NEW f \in Files, NEW pc \in {"cancelled", "failed"}, IInv,
         job[j].pc \in {"delete", "purge"}, job[j].pc = "delete" => Path(j) = f,
         Removed(f), job' = [Unnamed(f) EXCEPT ![j].pc = pc],
         UNCHANGED <<cancel, remote>>, Counted
  PROVE  IInv'
<1>1. ~At(j, "idle")
  BY DEF At
<1>2. job \in [Jobs -> Job] /\ job[j] \in Job /\ OnItsWay(job[j])
  BY <1>1, UnderWay
<1>3. Unnamed(f) \in [Jobs -> Job] /\ Unnamed(f)[j] = job[j]
  BY <1>2 DEF Unnamed, Job, At
<1> DEFINE q == [job[j] EXCEPT !.pc = pc]
<1>4. q \in Job /\ job'[j] = q /\ job' \in [Jobs -> Job]
  BY <1>2, <1>3 DEF Job, PC, Results
<1>5. \A k \in Jobs \ {j} : job'[k] = Unnamed(f)[k]
  BY <1>3
<1>6. \A k \in Jobs \ {j} : job'[k] = job[k] \/ (At(k, "write") /\ job'[k] = [job[k] EXCEPT !.named = FALSE])
  BY <1>5 DEF Unnamed
<1>7. /\ q.pc = pc /\ q.entry = job[j].entry /\ q.sel = job[j].sel
      /\ q.pos = job[j].pos /\ q.copied = job[j].copied
  BY <1>2 DEF Job
<1> HIDE DEF q
<1>8. OnItsWay(q)
  BY <1>1, <1>2, <1>4, <1>7, SameItem DEF AtItem, OnAFile, At
<1>9. TypeOK'
  BY <1>4 DEF Removed, IInv, TypeOK, Counted, Counters
<1>10. \A k \in Jobs \ {j} :
          /\ job'[k].pc = job[k].pc /\ job'[k].entry = job[k].entry /\ job'[k].sel = job[k].sel
          /\ job'[k].pos = job[k].pos /\ job'[k].copied = job[k].copied
          /\ job'[k].victim = job[k].victim
  <2> TAKE k \in Jobs \ {j}
  <2>1. job[k] \in Job
    BY <1>2
  <2>2. CASE job'[k] = [job[k] EXCEPT !.named = FALSE]
    <3> DEFINE r == [job[k] EXCEPT !.named = FALSE]
    <3>1. /\ r.pc = job[k].pc /\ r.entry = job[k].entry /\ r.sel = job[k].sel
          /\ r.pos = job[k].pos /\ r.copied = job[k].copied /\ r.victim = job[k].victim
      BY <2>1 DEF Job
    <3> QED BY <2>2, <3>1
  <2> QED BY <1>6, <2>2
<1>11. Ways'
  <2>1. ASSUME NEW k \in Jobs \ {j} PROVE OnItsWay(job'[k])
    BY <1>10, SameFields DEF IInv, Ways
  <2> QED BY <1>4, <1>8, <2>1 DEF Ways
<1>12. RemoteIsWritten'
  BY <1>10, NameStays
<1>13. Alone => \A k \in Jobs \ {j} : job'[k] = job[k]
  BY <1>1, <1>6 DEF IInv, OneAtATime, At
<1>14. Undisturbed(j)' /\ Thorough(j)'
  BY <1>4, <1>7 DEF Undisturbed, Thorough, At, Active, Results
<1>15. ASSUME Alone PROVE PartialIsInWork'
  <2>1. \A g \in present \cap Files : g # f /\ ~Accounted(g) => Path(j) = g /\ job[j].pc = "delete"
    BY <1>1, <1>15, RestIsWhole DEF At
  <2>2. \A g \in Files \ {f} : Accounted(g)' = Accounted(g)
    BY DEF Removed, Accounted, IsWhole, Full, IInv, TypeOK
  <2> QED BY <2>1, <2>2 DEF Removed, PartialIsInWork
<1>16. overlaps' = overlaps
  BY DEF Counted
<1> QED BY <1>1, <1>9, <1>11, <1>12, <1>13, <1>14, <1>15, <1>16, StepOfOne

(* The same, when nothing is removed.                                      *)
LEMMA NoRemovalKeeps ==
  ASSUME NEW j \in Jobs, NEW f \in Files, NEW pc \in {"cancelled", "failed"}, IInv,
         job[j].pc \in {"delete", "purge"}, job[j].pc = "delete" => Path(j) = f,
         Kept(f), job' = [job EXCEPT ![j].pc = pc], UNCHANGED <<cancel, remote>>, Counted
  PROVE  IInv'
<1>1. ~At(j, "idle")
  BY DEF At
<1>2. job \in [Jobs -> Job] /\ job[j] \in Job /\ OnItsWay(job[j])
  BY <1>1, UnderWay
<1> DEFINE q == [job[j] EXCEPT !.pc = pc]
<1>3. q \in Job /\ job' = [job EXCEPT ![j] = q]
  BY <1>2 DEF Job, PC, Results
<1>4. /\ q.pc = pc /\ q.entry = job[j].entry /\ q.sel = job[j].sel
      /\ q.pos = job[j].pos /\ q.copied = job[j].copied
  BY <1>2 DEF Job
<1> HIDE DEF q
<1>5. OnItsWay(q)
  BY <1>1, <1>2, <1>3, <1>4, SameItem DEF AtItem, OnAFile, At
<1>6. RemoteIsWritten'
  BY <1>2, <1>3, NameStays
<1>7. /\ UNCHANGED <<phone, present>>
      /\ leftover \subseteq leftover' /\ leftover' \subseteq Files
      /\ f \in present => f \in leftover'
  BY DEF Kept, IInv, TypeOK
<1>8. job[j].pc = "delete" => \A g \in present : g = Path(j) => Accounted(g)'
  BY <1>7 DEF Accounted
<1>9. cancel' \in BOOLEAN /\ remote' \in Files \cup {None}
  BY DEF IInv, TypeOK
<1> QED BY <1>1, <1>3, <1>4, <1>5, <1>6, <1>7, <1>8, <1>9, StepBesides

LEMMA DeleteKeeps ==
  ASSUME NEW j \in Jobs, IInv, Counted, Delete(j) \/ DeleteFails(j)
  PROVE  IInv'
<1>1. job[j].pc = "delete" /\ Path(j) \in Files /\ Ending \in {"cancelled", "failed"}
  BY UnderWay DEF Delete, DeleteFails, At, OnItsWay, OnAFile, Ending
<1>2. CASE Delete(j)
  BY <1>1, <1>2, RemovalKeeps DEF Delete
<1>3. CASE DeleteFails(j)
  BY <1>1, <1>3, NoRemovalKeeps DEF DeleteFails
<1> QED BY <1>2, <1>3

LEMMA PurgeKeeps ==
  ASSUME NEW j \in Jobs, IInv, Counted, Purge(j) \/ PurgeFails(j)
  PROVE  IInv'
<1>1. job[j].pc = "purge" /\ job[j].victim \in Files
  BY UnderWay DEF Purge, PurgeFails, At, OnItsWay
<1>2. CASE Purge(j)
  BY <1>1, <1>2, RemovalKeeps DEF Purge
<1>3. CASE PurgeFails(j)
  BY <1>1, <1>3, NoRemovalKeeps DEF PurgeFails
<1> QED BY <1>2, <1>3

LEMMA LoseKeeps ==
  ASSUME NEW j \in Jobs, IInv, Lose(j)
  PROVE  IInv'
<1>1. ~At(j, "idle") /\ job[j].pc \notin Results
  BY DEF Lose, Active, At
<1>2. job \in [Jobs -> Job] /\ job[j] \in Job /\ OnItsWay(job[j])
  BY <1>1, UnderWay
<1>3. UNCHANGED <<phone, present, cancel, remote, leftover, crashes, overlaps, refusals>>
      /\ losses' = losses + 1 /\ losses < MaxLosses /\ Troubles < MaxTroubles
  BY DEF Lose
<1> DEFINE q == [job[j] EXCEPT !.linked = FALSE]
<1>4. q \in Job /\ job' = [job EXCEPT ![j] = q]
  BY <1>2 DEF Lose, Job
<1>5. /\ q.pc = job[j].pc /\ q.entry = job[j].entry /\ q.sel = job[j].sel
      /\ q.pos = job[j].pos /\ q.copied = job[j].copied /\ q.victim = job[j].victim
      /\ q.linked = FALSE /\ q.named = job[j].named /\ q.off = job[j].off
  BY <1>2 DEF Job
<1> HIDE DEF q
<1>6. job'[j] = q /\ \A k \in Jobs \ {j} : job'[k] = job[k]
  BY <1>2, <1>4
<1>7. Counters'
  BY <1>3, WalkAssumption DEF IInv, TypeOK, Counters, Troubles
<1>8. TypeOK'
  BY <1>2, <1>3, <1>4, <1>7 DEF IInv, TypeOK, Counters
<1>9. Ways'
  BY <1>2, <1>5, <1>6, SameFields DEF IInv, Ways
<1>10. RemoteIsWritten'
  BY <1>3, <1>5, <1>6, NameStays
<1>11. \A k \in Jobs : Path(k)' = Path(k) /\ job'[k].pc = job[k].pc
  BY <1>5, <1>6 DEF Path
<1>12. Alone => Undisturbed(j)'
  BY <1>3, <1>5, <1>6, <1>11 DEF IInv, Undisturbed, At
<1>13. \A f : Accounted(f)' = Accounted(f)
  BY <1>3 DEF Accounted, IsWhole, Full
<1>14. Alone => Thorough(j)'
  <2>1. ToCopy(q) = ToCopy(job[j]) /\ Visited(q) = Visited(job[j])
    BY <1>5 DEF ToCopy, Visited
  <2> QED BY <1>3, <1>5, <1>6, <1>13, <2>1 DEF IInv, Thorough, Active, At
<1>15. Alone => PartialIsInWork'
  BY <1>3, <1>11, <1>13 DEF IInv, PartialIsInWork, InWork
<1> QED BY <1>1, <1>3, <1>6, <1>8, <1>9, <1>10, <1>12, <1>14, <1>15, StepOfOne

(* A new job starts at the first item with nothing copied; if no other is  *)
(* active, it is the only one.                                             *)
LEMMA SendKeeps ==
  ASSUME NEW j \in Jobs, NEW e \in Entries, NEW s \in Selections(e), IInv, Send(j, e, s)
  PROVE  IInv'
<1> DEFINE q == [Unsent EXCEPT !.pc = "sent", !.entry = e, !.sel = s]
<1>1. UNCHANGED <<phone, present, cancel, remote, leftover, losses, crashes, refusals>> /\ ~Active(j)
  BY DEF Send
<1>2. Unsent \in Job /\ Unsent.pc = "idle"
  BY WalkAssumption DEF Unsent, Job, PC
<1>3. s \in {None} \cup SUBSET Files
  <2>1. Selections(e) \subseteq {None} \cup SUBSET FilesOf(e) /\ FilesOf(e) \subseteq Files
    BY DEF Selections, FilesOf
  <2> QED BY <2>1
<1>4. /\ q \in Job /\ q.pc = "sent" /\ q.entry = e /\ q.sel = s /\ q.pos = 1 /\ q.copied = 0
  BY <1>2, <1>3 DEF Unsent, Job, PC
<1>5. job' = [k \in Jobs |-> IF k = j THEN q ELSE IF Active(k) THEN job[k] ELSE Unsent]
  BY DEF Send
<1> HIDE DEF q
<1>6. job'[j] = q /\ \A k \in Jobs \ {j} : IF Active(k) THEN job'[k] = job[k] ELSE job'[k] = Unsent
  BY <1>5
<1>7. job' \in [Jobs -> Job]
  BY <1>2, <1>4, <1>5 DEF IInv, TypeOK
<1>8. /\ overlaps \in Nat /\ overlaps' \in 0 .. MaxOverlaps /\ Troubles' <= MaxTroubles
      /\ (\E k \in Jobs : Active(k)) => overlaps' # 0
      /\ overlaps' = 0 => overlaps = 0
  BY WalkAssumption DEF Send, IInv, TypeOK
<1>9. TypeOK'
  BY <1>1, <1>7, <1>8 DEF IInv, TypeOK
<1>10. OnItsWay(q) /\ ToCopy(q) \cap Visited(q) = {}
  <2>1. ToCopy(q) \cap Visited(q) = {}
    BY <1>4 DEF Visited
  <2>2. 1 \in 1 .. Len(Walk[e]) + 1
    BY Walks
  <2> QED BY <1>4, <2>1, <2>2, FS_EmptySet DEF OnItsWay, AtItem, OnAFile
<1>11. Ways'
  BY <1>2, <1>6, <1>10 DEF IInv, Ways, OnItsWay
<1>12. RemoteIsWritten'
  BY <1>1, <1>6, NameStays DEF Active, Results
<1>13. ASSUME Alone' PROVE Alone /\ \A k \in Jobs \ {j} : job'[k].pc = "idle"
  BY <1>2, <1>6, <1>8, <1>13 DEF Alone
<1>14. OneAtATime'
  BY <1>13 DEF OneAtATime, At
<1>15. ASSUME Alone', NEW k \in Jobs PROVE Undisturbed(k)'
  BY <1>4, <1>6, <1>13, <1>15 DEF Undisturbed, At
<1>16. ASSUME Alone', NEW k \in Jobs PROVE Thorough(k)'
  BY <1>4, <1>6, <1>10, <1>13, <1>16 DEF Thorough, Active, At
<1>17. ASSUME Alone' PROVE PartialIsInWork'
  <2>1. Alone /\ ~\E k \in Jobs : Active(k)
    BY <1>1, <1>8, <1>17 DEF Alone
  <2>2. \A f \in present \cap Files : Accounted(f)
    BY <2>1 DEF IInv, PartialIsInWork, InWork, Active, Results
  <2> QED BY <1>1, <2>2 DEF PartialIsInWork, Accounted, IsWhole, Full
<1> QED BY <1>9, <1>11, <1>12, <1>14, <1>15, <1>16, <1>17 DEF IInv

LEMMA CrashKeeps ==
  ASSUME IInv, Crash
  PROVE  IInv'
<1>1. Unsent \in Job /\ Unsent.pc = "idle"
  BY WalkAssumption DEF Unsent, Job, PC
<1>2. /\ \A k \in Jobs : job'[k] = Unsent
      /\ job' \in [Jobs -> Job]
      /\ UNCHANGED <<phone, present, losses, overlaps, refusals>>
      /\ cancel' = FALSE /\ remote' = None
      /\ leftover' = leftover \cup Unfinished
      /\ crashes' = crashes + 1 /\ crashes < MaxCrashes /\ Troubles < MaxTroubles
  BY <1>1 DEF Crash
<1>3. Counters'
  BY <1>2, WalkAssumption DEF IInv, TypeOK, Counters, Troubles
<1>4. Unfinished \subseteq Files
  <2> SUFFICES ASSUME NEW j \in Jobs, job[j].pc \in {"write", "delete"} PROVE Path(j) \in Files
    BY DEF Unfinished
  <2> QED BY UnderWay DEF At, OnItsWay, OnAFile
<1>5. TypeOK'
  BY <1>2, <1>3, <1>4 DEF IInv, TypeOK, Counters
<1>6. Ways' /\ RemoteIsWritten' /\ OneAtATime'
  BY <1>1, <1>2 DEF Ways, OnItsWay, RemoteIsWritten, OneAtATime, At
<1>7. \A k \in Jobs : Undisturbed(k)' /\ Thorough(k)'
  BY <1>1, <1>2 DEF Undisturbed, Thorough, Active, At
<1>8. ASSUME Alone PROVE PartialIsInWork'
  <2>1. \A f : InWork(f) => f \in Unfinished
    BY DEF InWork, Unfinished
  <2>2. \A f : Accounted(f) \/ InWork(f) => Accounted(f)'
    BY <1>2, <2>1 DEF Accounted, IsWhole, Full
  <2> QED BY <1>2, <1>8, <2>2 DEF IInv, PartialIsInWork
<1>9. Alone' = Alone
  BY <1>2 DEF Alone
<1> QED BY <1>5, <1>6, <1>7, <1>8, <1>9 DEF IInv

(* The cancellation itself, and nothing at all.                            *)
LEMMA FlagKeeps ==
  ASSUME IInv, UNCHANGED <<phone, present, remote, job, leftover, env>>, cancel' \in BOOLEAN
  PROVE  IInv'
<1>1. Counted /\ UNCHANGED Alone
  BY EnvStays DEF Counted, Alone
<1>2. TypeOK' /\ Ways' /\ RemoteIsWritten' /\ OneAtATime'
  BY <1>1 DEF IInv, TypeOK, Counted, Counters, Ways, RemoteIsWritten, Path, OneAtATime, At
<1>3. \A k \in Jobs : Undisturbed(k) => Undisturbed(k)'
  BY DEF Undisturbed, At, Path
<1>4. \A f : Accounted(f)' = Accounted(f)
  BY DEF Accounted, IsWhole, Full
<1>5. \A k \in Jobs : Thorough(k) => Thorough(k)'
  BY <1>4 DEF Thorough, At, Active
<1>6. PartialIsInWork => PartialIsInWork'
  BY <1>4 DEF PartialIsInWork, InWork, Path
<1> QED BY <1>1, <1>2, <1>3, <1>5, <1>6 DEF IInv

-----------------------------------------------------------------------------
LEMMA StepIInv == IInv /\ [Next]_vars => IInv'
<1> SUFFICES ASSUME IInv, [Next]_vars PROVE IInv'
  OBVIOUS
<1>1. CASE Cancel
  BY <1>1, FlagKeeps DEF Cancel
<1>2. CASE Crash
  BY <1>2, CrashKeeps
<1>3. ASSUME NEW j \in Jobs, Copy(j) PROVE IInv'
  <2>1. CASE Begin(j) \/ Connect(j) \/ LoopCancelled(j) \/ Visit(j) \/ Finish(j)
    BY <2>1, BeginKeeps, ConnectKeeps, LoopCancelledKeeps, VisitKeeps, FinishKeeps
  <2>2. CASE Stat(j) \/ MakeDir(j) \/ Read(j) \/ Open(j) \/ WriteChunk(j) \/ WriteDone(j)
    BY <2>2, StatKeeps, MakeDirKeeps, ReadKeeps, OpenKeeps, WriteChunkKeeps, WriteDoneKeeps
  <2>3. CASE Purge(j) \/ Delete(j)
    <3>1. UNCHANGED env
      BY <2>3 DEF Purge, Delete
    <3> QED BY <2>3, <3>1, EnvStays, PurgeKeeps, DeleteKeeps
  <2>4. CASE PurgeBroken(j) \/ MakeDirBroken(j) \/ WriteBroken(j) \/ DeleteBroken(j)
    <3>1. Counted
      BY <2>4, EnvStays DEF PurgeBroken, MakeDirBroken, WriteBroken, DeleteBroken
    <3> QED BY <2>4, <3>1, PurgeKeeps, MakeDirFailsKeeps, WriteFailsKeeps, DeleteKeeps
            DEF PurgeBroken, MakeDirBroken, WriteBroken, DeleteBroken
  <2> QED BY <1>3, <2>1, <2>2, <2>3, <2>4 DEF Copy
<1>4. ASSUME NEW j \in Jobs, Trouble(j) PROVE IInv'
  <2>1. CASE LocalError(j) \/ StatRefused(j) \/ Lose(j)
    BY <2>1, LocalErrorKeeps, StatRefusedKeeps, LoseKeeps
  <2>2. CASE MakeDirRefused(j) \/ WriteRefused(j) \/ DeleteRefused(j) \/ PurgeRefused(j)
    <3>1. Counted
      BY <2>2, RefusalsCounted DEF MakeDirRefused, WriteRefused, DeleteRefused, PurgeRefused
    <3> QED BY <2>2, <3>1, PurgeKeeps, MakeDirFailsKeeps, WriteFailsKeeps, DeleteKeeps
            DEF MakeDirRefused, WriteRefused, DeleteRefused, PurgeRefused
  <2> QED BY <1>4, <2>1, <2>2 DEF Trouble, Refusal
<1>5. ASSUME NEW j \in Jobs, AnySend(j) PROVE IInv'
  BY <1>5, SendKeeps DEF AnySend
<1>6. CASE UNCHANGED vars
  BY <1>6, FlagKeeps DEF vars, IInv, TypeOK
<1> QED BY <1>1, <1>2, <1>3, <1>4, <1>5, <1>6 DEF Next, Progress

(* The invariant: what each job has done so far, whose file the name in    *)
(* CURRENT_REMOTE_FILE is, and, while jobs do not overlap, what the phone  *)
(* holds of it all.                                                        *)
THEOREM CopyInvariant == Spec => []IInv
<1> QED BY InitIInv, StepIInv, PTL DEF Spec

(* What the answers of transfer_folder_to_phone say of the phone's files   *)
(* is true: FilesAreWhole follows from the invariant at every state.       *)
LEMMA AnswersAreTrue == IInv => FilesAreWhole
<1> SUFFICES ASSUME IInv PROVE FilesAreWhole
  OBVIOUS
<1>1. TypeOK /\ RemoteIsWritten
  BY DEF IInv
<1>2. NoPartialLeft
  <2> SUFFICES ASSUME Alone, Quiet
               PROVE  \A f \in present \cap Files : Accounted(f)
    BY DEF NoPartialLeft, Accounted
  <2>1. \A f : ~InWork(f)
    BY DEF Quiet, Active, InWork, Results
  <2> QED BY <2>1 DEF IInv, PartialIsInWork
<1>3. ASSUME NEW j \in Jobs, At(j, "ok")
      PROVE  /\ job[j].copied = Cardinality(Wanted(j))
             /\ Alone => \A f \in Wanted(j) : f \in present /\ (IsWhole(f) \/ f \in leftover)
  <2>1. ~At(j, "idle") /\ job[j].pc = "ok" /\ job[j].entry \in Entries
    BY <1>3, UnderWay DEF At
  <2>2. /\ job[j].copied = Cardinality(Wanted(j) \cap Visited(job[j]))
        /\ job[j].pos = Len(Walk[job[j].entry]) + 1
    BY <2>1, UnderWay DEF OnItsWay
  <2>3. Wanted(j) \subseteq Visited(job[j])
    <3>1. Len(Walk[job[j].entry]) \in Nat /\ DOMAIN Walk[job[j].entry] = 1 .. Len(Walk[job[j].entry])
      BY <2>1, Walks
    <3>2. 1 .. job[j].pos - 1 = DOMAIN Walk[job[j].entry]
      BY <2>2, <3>1
    <3> QED BY <3>2 DEF Wanted, FilesOf, Visited
  <2>4. Wanted(j) \cap Visited(job[j]) = Wanted(j)
    BY <2>3
  <2> QED BY <2>1, <2>2, <2>4, UnderWay DEF Accounted
<1> QED BY <1>1, <1>2, <1>3 DEF FilesAreWhole, OkIsWhole, CountIsTotal

(* The files on the phone are what the answers of the jobs say, for any    *)
(* library, any number of jobs and any failures: nothing partial is left   *)
(* but what the phone did not delete, all is there after a job that ended  *)
(* well, in the number told, and the name kept for a cancellation is that  *)
(* of a file being written.                                                *)
THEOREM FilesAreWholeAlways == Spec => []FilesAreWhole
<1> QED BY CopyInvariant, AnswersAreTrue, PTL

-----------------------------------------------------------------------------
(* What a step of a job does to a file that is there and that no job has   *)
(* in hand: nothing, while jobs do not overlap.                            *)
Untouched(f) == f \in present' /\ phone'[f] = phone[f]

LEMMA WholeFilesKept ==
  ASSUME IInv, Next, Alone, NEW f \in present \cap Files, ~Busy(f)
  PROVE  Untouched(f)
<1>1. phone \in [Files -> SUBSET (Entries \X (1 .. Chunks))]
  BY DEF IInv, TypeOK
<1>2. \A j \in Jobs : Undisturbed(j)
  BY DEF IInv
<1>3. CASE UNCHANGED <<phone, present>>
  BY <1>3 DEF Untouched
<1>4. ASSUME NEW j \in Jobs, Open(j) PROVE Untouched(f)
  <2>1. Path(j) # f
    BY <1>2, <1>4 DEF Open, Undisturbed, At, Busy, InHand
  <2> QED BY <1>1, <1>4, <2>1 DEF Open, Untouched
<1>5. ASSUME NEW j \in Jobs, WriteChunk(j) PROVE Untouched(f)
  <2>1. Path(j) # f
    BY <1>5 DEF WriteChunk, Busy, InHand, At
  <2> QED BY <1>1, <1>5, <2>1 DEF WriteChunk, Untouched
<1>6. ASSUME NEW j \in Jobs, MakeDir(j) PROVE Untouched(f)
  BY <1>6 DEF MakeDir, Untouched
<1>7. ASSUME NEW j \in Jobs, Delete(j) PROVE Untouched(f)
  <2>1. Path(j) # f
    BY <1>7 DEF Delete, Busy, InHand, At
  <2> QED BY <1>1, <1>7, <2>1 DEF Delete, Removed, Untouched
<1>8. ASSUME NEW j \in Jobs PROVE ~Purge(j)
  BY <1>2, <1>8 DEF Purge, Undisturbed
<1>9. ASSUME NEW j \in Jobs,
             \/ Begin(j) \/ Connect(j) \/ LoopCancelled(j) \/ Visit(j) \/ Finish(j)
             \/ Stat(j) \/ Read(j) \/ WriteDone(j) \/ LocalError(j) \/ Lose(j) \/ AnySend(j)
      PROVE  UNCHANGED <<phone, present>>
  BY <1>9 DEF Begin, Connect, LoopCancelled, Visit, Finish, Stat, Read, WriteDone,
              LocalError, Lose, AnySend, Send
<1>10. ASSUME NEW j \in Jobs,
              \/ StatRefused(j) \/ MakeDirFails(j) \/ WriteFails(j)
              \/ DeleteFails(j) \/ PurgeFails(j)
       PROVE  UNCHANGED <<phone, present>>
  BY <1>10 DEF StatRefused, MakeDirFails, WriteFails, DeleteFails, PurgeFails, Kept
<1>11. Cancel \/ Crash => UNCHANGED <<phone, present>>
  BY DEF Cancel, Crash
<1>12. ASSUME NEW j \in Jobs, Copy(j) PROVE Untouched(f)
  <2>1. \/ Begin(j) \/ Connect(j) \/ LoopCancelled(j) \/ Visit(j) \/ Finish(j)
        \/ Stat(j) \/ Read(j) \/ WriteDone(j)
        \/ MakeDirFails(j) \/ WriteFails(j) \/ DeleteFails(j) \/ PurgeFails(j)
        \/ Open(j) \/ WriteChunk(j) \/ MakeDir(j) \/ Delete(j) \/ Purge(j)
    BY <1>12 DEF Copy, MakeDirBroken, WriteBroken, DeleteBroken, PurgeBroken
  <2> QED BY <1>3, <1>4, <1>5, <1>6, <1>7, <1>8, <1>9, <1>10, <2>1
<1>13. ASSUME NEW j \in Jobs, Trouble(j) \/ AnySend(j) PROVE Untouched(f)
  <2>1. \/ LocalError(j) \/ Lose(j) \/ AnySend(j) \/ StatRefused(j)
        \/ MakeDirFails(j) \/ WriteFails(j) \/ DeleteFails(j) \/ PurgeFails(j)
    BY <1>13 DEF Trouble, Refusal, MakeDirRefused, WriteRefused, DeleteRefused, PurgeRefused
  <2> QED BY <1>3, <1>9, <1>10, <2>1
<1> QED BY <1>3, <1>11, <1>12, <1>13 DEF Next, Progress

(* A whole file stays as it is, whatever the jobs do that come one after   *)
(* the other: copy_dir_to_smb creates only what was missing or what the    *)
(* phone refused to show, and deletes only what it was creating.           *)
THEOREM WholeFilesStayAlways == Spec => WholeFilesStay
<1>1. IInv /\ [Next]_vars =>
        [\A f \in present \cap Files :
            Alone /\ IsWhole(f) /\ ~Busy(f) => f \in present' /\ phone'[f] = phone[f]]_vars
  BY WholeFilesKept DEF Untouched
<1> QED BY <1>1, CopyInvariant, PTL DEF Spec, WholeFilesStay
=============================================================================

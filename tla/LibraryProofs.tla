--------------------------- MODULE LibraryProofs ---------------------------
(***************************************************************************)
(* Theorems of Library, for any roots, entries, titles, finds and tasks,   *)
(* and any number of passes, edits and crashes.                            *)
(***************************************************************************)
EXTENDS Library, WellFoundedInduction, TLAPS

(* What a task knows at the place where it waits: a command that names a   *)
(* file names that of a root, and a save has its entry and its link.       *)
Args(l, root) ==
    /\ l.kind = "none" => l = NoTask
    /\ l.kind # "none" => root \in Roots
    /\ l.pc \in {"load", "migrate", "create", "save"} => l.root \in Roots
    /\ l.pc \in {"create", "save"} \/ l.kind = "refetch" => l.entry \in Ids
    /\ l.pc = "save" \/ (l.kind = "refetch" /\ l.pc = "delete") => l.best \in Mals
    /\ l.pc = "pause" => l.pass < Passes
    /\ l.kind = "none" <=> l.pc = "idle"

(* Nothing is shown or open, and nothing runs, before there is a root.     *)
Typed ==
    /\ TypeOK
    /\ \A t \in Tasks : Args(task[t], rootPath)
    /\ view = "cards" \/ modal # "none" => rootPath \in Roots
    /\ rootPath = lastPath

-----------------------------------------------------------------------------
(* Mapping files.                                                          *)

(* A set of numbers that is not empty has a least member.                  *)
LEMMA LeastNumber ==
    ASSUME NEW T \in SUBSET Nat, T # {}
    PROVE  \E n \in T : \A m \in T : n <= m
  <1> DEFINE R == OpToRel(<, Nat)
  <1>1. IsWellFoundedOn(R, Nat)
    BY NatLessThanWellFounded
  <1> HIDE DEF R
  <1>2. PICK n \in T : \A m \in T : ~ (<<m, n>> \in R)
    BY <1>1, WFMin
  <1>3. \A m \in Nat : m < n => <<m, n>> \in R
    BY DEF R, OpToRel
  <1>4. \A m \in T : m \in Nat /\ n \in Nat /\ ~ (m < n)
    BY <1>2, <1>3
  <1>5. \A m \in T : n <= m
    BY <1>4
  <1> QED
    BY <1>5

LEMMA FirstIs ==
    ASSUME NEW s \in Seq(Record), NEW e, Of(s, e) # {}
    PROVE  /\ First(s, e) \in Of(s, e)
           /\ \A j \in Of(s, e) : First(s, e) <= j
  <1>1. Of(s, e) \in SUBSET Nat
    BY DEF Of
  <1>2. \E k \in Of(s, e) : \A j \in Of(s, e) : k <= j
    BY <1>1, LeastNumber
  <1> QED
    BY <1>2 DEF First

LEMMA RecordsAre ==
    ASSUME NEW s \in Seq(Record), NEW k \in DOMAIN s
    PROVE  s[k] \in Record /\ s[k].id \in Ids /\ s[k].mal \in Mals /\ s[k].mal # None
  <1>1. s[k] \in Record
    OBVIOUS
  <1>2. \A r \in Record : r.id \in Ids /\ r.mal \in Mals
    BY DEF Record
  <1> QED
    BY <1>1, <1>2, LibraryAssumption

LEMMA LinkIs ==
    ASSUME NEW s \in Seq(Record), NEW e
    PROVE  /\ Link(s, e) \in Mals \cup {None}
           /\ Of(s, e) = {} <=> Link(s, e) = None
           /\ \A k \in Of(s, e) : s[k] \in Record /\ s[k].mal \in Mals
           /\ Single(s, e) => \A k \in Of(s, e) : Link(s, e) = s[k].mal
  <1>1. \A k \in Of(s, e) : s[k] \in Record /\ s[k].mal \in Mals /\ s[k].mal # None
    BY RecordsAre DEF Of
  <1>2. CASE Of(s, e) = {}
    BY <1>1, <1>2 DEF Link
  <1>3. CASE Of(s, e) # {}
    BY <1>1, <1>3, FirstIs DEF Link, Single
  <1> QED
    BY <1>2, <1>3

LEMMA LinksOfIs ==
    ASSUME NEW s \in Seq(Record)
    PROVE  LinksOf(s) \in Links
  BY LinkIs DEF LinksOf, Links

LEMMA NotBroken == \A s \in Seq(Record) : s # Broken
  BY LibraryAssumption DEF Record

(* A save leaves a file that parses, names the new link for its entry and  *)
(* for every other entry what it named before.                             *)
LEMMA SavedIs ==
    ASSUME NEW s, s = Broken \/ s \in Seq(Record), NEW e \in Ids, NEW m \in Mals
    PROVE  /\ Saved(s, e, m) \in Seq(Record)
           /\ Saved(s, e, m) # Broken
           /\ Link(Saved(s, e, m), e) = m
           /\ s # Broken => \A f : f # e => /\ Of(Saved(s, e, m), f) = Of(s, f)
                                            /\ Link(Saved(s, e, m), f) = Link(s, f)
           /\ s = Broken => \A f : f # e => Link(Saved(s, e, m), f) = None
  <1> DEFINE t == Existing(s)
             r == [id |-> e, mal |-> m]
             u == Saved(s, e, m)
  <1>1. t \in Seq(Record) /\ r \in Record /\ r.id = e /\ r.mal = m
    <2>1. <<>> \in Seq(Record)
      OBVIOUS
    <2> QED
      BY <2>1 DEF Existing, Record
  <1>2. s # Broken => t = s
    BY DEF Existing
  <1>5. s = Broken => \A f : Link(t, f) = None
    BY DEF Existing, Link, Of
  <1> HIDE DEF t
  <1>3. CASE Of(t, e) = {}
    <2>1. u = Append(t, r)
      BY <1>3 DEF Saved, t
    <2>2. /\ u \in Seq(Record) /\ DOMAIN u = 1 .. Len(t) + 1 /\ u[Len(t) + 1] = r
          /\ \A k \in 1 .. Len(t) : u[k] = t[k]
      BY <1>1, <2>1
    <2>3. DOMAIN t = 1 .. Len(t) /\ Len(t) \in Nat
      BY <1>1
    <2> HIDE DEF u, r
    <2>4. Of(u, e) = {Len(t) + 1}
      BY <1>1, <1>3, <2>2, <2>3 DEF Of
    <2>5. First(u, e) = Len(t) + 1 /\ Link(u, e) = m
      BY <1>1, <2>2, <2>4, FirstIs DEF Link
    <2>6. \A f : f # e => Of(u, f) = Of(t, f)
      BY <1>1, <2>2, <2>3 DEF Of
    <2>7. ASSUME NEW f, f # e PROVE Link(u, f) = Link(t, f)
      <3>1. CASE Of(t, f) = {}
        BY <2>6, <2>7, <3>1 DEF Link
      <3>2. CASE Of(t, f) # {}
        <4>1. First(u, f) = First(t, f)
          BY <2>6, <2>7 DEF First
        <4>2. First(t, f) \in 1 .. Len(t)
          BY <1>1, <2>3, <3>2, FirstIs DEF Of
        <4> QED
          BY <2>2, <2>6, <2>7, <3>2, <4>1, <4>2 DEF Link
      <3> QED
        BY <3>1, <3>2
    <2> QED
      BY <1>2, <1>5, <2>2, <2>5, <2>6, <2>7, NotBroken DEF u
  <1>4. CASE Of(t, e) # {}
    <2> DEFINE i == First(t, e)
    <2>0. i \in DOMAIN t /\ t[i].id = e
      BY <1>1, <1>4, FirstIs DEF Of
    <2> HIDE DEF i
    <2>1. u = [t EXCEPT ![i] = r]
      BY <1>4 DEF Saved, t, i
    <2>2. /\ u \in Seq(Record) /\ DOMAIN u = DOMAIN t /\ u[i] = r
          /\ \A k \in DOMAIN t : k # i => u[k] = t[k]
      BY <1>1, <2>0, <2>1
    <2> HIDE DEF u, r
    <2>4. \A f : Of(u, f) = Of(t, f)
      BY <1>1, <2>0, <2>2 DEF Of
    <2>5. \A f : First(u, f) = First(t, f)
      BY <2>4 DEF First
    <2>6. Link(u, e) = m
      BY <1>1, <1>4, <2>2, <2>4, <2>5 DEF Link, i
    <2>7. ASSUME NEW f, f # e PROVE Link(u, f) = Link(t, f)
      <3>1. CASE Of(t, f) = {}
        BY <2>4, <3>1 DEF Link
      <3>2. CASE Of(t, f) # {}
        <4>1. First(t, f) \in DOMAIN t /\ First(t, f) # i
          BY <1>1, <2>0, <2>7, <3>2, FirstIs DEF Of
        <4> QED
          BY <2>2, <2>4, <2>5, <3>2, <4>1 DEF Link
      <3> QED
        BY <3>1, <3>2
    <2> QED
      BY <1>2, <1>5, <2>2, <2>4, <2>6, <2>7, NotBroken DEF u
  <1> QED
    BY <1>3, <1>4

(* A migration renames records, orphans only, to entries that were found.  *)
LEMMA MigratedIs ==
    ASSUME NEW s \in Seq(Record), NEW cur \in SUBSET Ids
    PROVE  /\ Migrated(s, cur) \in Seq(Record)
           /\ DOMAIN Migrated(s, cur) = DOMAIN s
           /\ \A k \in DOMAIN s : /\ NewId(cur, s[k]) \in Ids
                                  /\ s[k].id \in cur => NewId(cur, s[k]) = s[k].id
                                  /\ Migrated(s, cur)[k].id = NewId(cur, s[k])
                                  /\ Migrated(s, cur)[k].mal = s[k].mal
  <1>1. \A r \in Record : NewId(cur, r) \in Ids /\ (r.id \in cur => NewId(cur, r) = r.id)
    BY DEF NewId, Candidates, Record
  <1>2. \A k \in DOMAIN s : s[k] \in Record
    OBVIOUS
  <1>3. \A r \in Record, n \in Ids : /\ [r EXCEPT !.id = n] \in Record
                                     /\ [r EXCEPT !.id = n].id = n
                                     /\ [r EXCEPT !.id = n].mal = r.mal
    BY DEF Record
  <1> DEFINE M == [k \in DOMAIN s |-> [s[k] EXCEPT !.id = NewId(cur, s[k])]]
  <1>4. \A k \in DOMAIN s : M[k] \in Record
    BY <1>1, <1>2, <1>3
  <1>5. M \in Seq(Record)
    <2>1. DOMAIN s = 1 .. Len(s) /\ Len(s) \in Nat
      OBVIOUS
    <2>2. M \in [1 .. Len(s) -> Record]
      BY <1>4, <2>1
    <2> HIDE DEF M
    <2> QED
      BY <2>1, <2>2
  <1> QED
    BY <1>1, <1>2, <1>3, <1>5 DEF Migrated

LEMMA KnownIs ==
    ASSUME NEW raw \in Links, NEW cur \in SUBSET Ids
    PROVE  Known(raw, cur) \in Links /\ \A e \in cur : Known(raw, cur)[e] = raw[e]
  BY DEF Known, Links

LEMMA ReplayedIs ==
    ASSUME NEW s \in Seq(Record), NEW raw \in Links, NEW cur \in SUBSET Ids
    PROVE  Replayed(raw, s, cur) \in Links
  <1> DEFINE moved(e) == {k \in DOMAIN s : /\ s[k].id \notin cur
                                           /\ NewId(cur, s[k]) = e
                                           /\ raw[s[k].id] # None}
             least(e) == CHOOSE k \in moved(e) : \A j \in moved(e) : k <= j
  <1>1. ASSUME NEW e \in Ids, moved(e) # {}
        PROVE  raw[s[least(e)].id] \in Mals \cup {None}
    <2>1. moved(e) \in SUBSET Nat
      OBVIOUS
    <2>2. \E k \in moved(e) : \A j \in moved(e) : k <= j
      BY <1>1, <2>1, LeastNumber
    <2>3. least(e) \in moved(e)
      BY <2>2
    <2>4. s[least(e)] \in Record
      BY <2>3
    <2> QED
      BY <2>4 DEF Record, Links
  <1> QED
    BY <1>1, KnownIs DEF Replayed, Links

(* What loadLibrary repeats of a migration agrees with the file migrated,  *)
(* as long as the file it began with had one record of each entry.         *)
LEMMA ReplayedFits ==
    ASSUME NEW s \in Seq(Record), NEW cur \in SUBSET Ids, NEW e \in cur,
           \A f \in Ids : Single(s, f), Single(Migrated(s, cur), e)
    PROVE  Replayed(LinksOf(s), s, cur)[e] = Link(Migrated(s, cur), e)
  <1> DEFINE M == Migrated(s, cur)
             raw == LinksOf(s)
             moved == {k \in DOMAIN s : /\ s[k].id \notin cur
                                        /\ NewId(cur, s[k]) = e
                                        /\ raw[s[k].id] # None}
  <1>1. /\ M \in Seq(Record) /\ DOMAIN M = DOMAIN s /\ raw \in Links /\ e \in Ids
        /\ \A k \in DOMAIN s : /\ s[k] \in Record /\ s[k].id \in Ids /\ s[k].mal \in Mals
                               /\ M[k].id = NewId(cur, s[k]) /\ M[k].mal = s[k].mal
                               /\ s[k].id \in cur => NewId(cur, s[k]) = s[k].id
    BY MigratedIs, LinksOfIs, RecordsAre
  <1>2. \A f \in Ids : raw[f] = Link(s, f)
    BY DEF LinksOf
  <1>3. Of(s, e) \subseteq Of(M, e)
    BY <1>1 DEF Of
  <1>4. Known(raw, cur)[e] = raw[e]
    BY <1>1, KnownIs
  <1>5. CASE Of(s, e) # {}
    <2>1. PICK k \in Of(s, e) : TRUE
      BY <1>5
    <2>2. Link(s, e) = s[k].mal /\ Link(M, e) = M[k].mal /\ Link(s, e) # None
      BY <1>1, <1>3, <1>5, <2>1, LinkIs
    <2>3. Link(M, e) = Link(s, e)
      BY <1>1, <2>1, <2>2 DEF Of
    <2> QED
      BY <1>1, <1>2, <1>4, <2>2, <2>3 DEF Replayed
  <1>6. CASE Of(s, e) = {}
    <2>1. raw[e] = None
      BY <1>1, <1>2, <1>6, LinkIs
    <2>2. ASSUME NEW k \in Of(M, e)
          PROVE  s[k].id \notin cur /\ raw[s[k].id] = s[k].mal /\ s[k].mal # None /\ M[k].mal = s[k].mal
      <3>1. k \in DOMAIN s /\ NewId(cur, s[k]) = e /\ k \notin Of(s, e)
        BY <1>1, <1>6 DEF Of
      <3>2. k \in Of(s, s[k].id)
        BY <3>1 DEF Of
      <3>3. s[k].id # e
        BY <3>1, <3>2
      <3>4. s[k].id \notin cur
        BY <1>1, <3>1, <3>3
      <3> QED
        BY <1>1, <1>2, <3>1, <3>2, <3>4, LinkIs, LibraryAssumption
    <2>3. moved = Of(M, e)
      BY <1>1, <2>2, LibraryAssumption DEF Of
    <2>4. CASE Of(M, e) = {}
      <3>1. Link(M, e) = None
        BY <1>1, <2>4, LinkIs
      <3> QED
        BY <1>1, <1>4, <2>1, <2>3, <2>4, <3>1 DEF Replayed
    <2>5. CASE Of(M, e) # {}
      <3>1. PICK k \in Of(M, e) : TRUE
        BY <2>5
      <3>2. Of(M, e) = {k}
        BY <3>1 DEF Single
      <3>3. Link(M, e) = s[k].mal
        BY <1>1, <2>2, <3>1, LinkIs
      <3>4. (CHOOSE j \in moved : \A i \in moved : j <= i) = k
        BY <1>1, <2>3, <3>2
      <3>5. Replayed(raw, s, cur)[e] = raw[s[k].id]
        BY <1>1, <1>4, <2>1, <2>3, <2>5, <3>4 DEF Replayed
      <3> QED
        BY <2>2, <3>1, <3>3, <3>5
    <2> QED
      BY <2>4, <2>5
  <1> QED
    BY <1>5, <1>6

-----------------------------------------------------------------------------
(* Types.                                                                  *)

LEMMA NoTaskIs ==
    /\ NoTask \in Task
    /\ NoTask.kind = "none" /\ NoTask.pc = "idle" /\ NoTask.root = None
    /\ \A root : Args(NoTask, root)
  BY LibraryAssumption DEF NoTask, NoLink, Task, Links, Args

LEMMA Fetching ==
    ASSUME NEW l, NEW root \in Roots,
           \/ l = NoTask
           \/ /\ l \in Task /\ l.kind = "fetch" /\ l.root = None
              /\ l.pc = "search" \/ (l.pc = "pause" /\ l.pass < Passes)
    PROVE  /\ l \in Task /\ Args(l, root) /\ l.kind \in {"none", "fetch"}
           /\ l.pc \in {"idle", "search", "pause"} /\ l.root = None
  BY NoTaskIs DEF Args

LEMMA FetchTaskIs ==
    ASSUME NEW cur \in SUBSET Ids, NEW links \in Links, NEW root \in Roots
    PROVE  LET l == FetchTask(cur, links) IN
           /\ l \in Task /\ Args(l, root) /\ l.kind \in {"none", "fetch"}
           /\ l.pc \in {"idle", "search", "pause"} /\ l.root = None
  <1>1. Unlinked(cur, links) \in SUBSET Ids
    BY DEF Unlinked
  <1> DEFINE goes == [NoTask EXCEPT !.kind = "fetch", !.pc = "search", !.pass = 1,
                                    !.todo = Unlinked(cur, links)]
  <1>2. goes \in Task /\ goes.kind = "fetch" /\ goes.root = None /\ goes.pc = "search"
    <2>1. 1 \in 0 .. Passes
      BY LibraryAssumption
    <2> QED
      BY <1>1, <2>1, NoTaskIs DEF Task
  <1>3. \/ FetchTask(cur, links) = NoTask
        \/ /\ FetchTask(cur, links) \in Task /\ FetchTask(cur, links).kind = "fetch"
           /\ FetchTask(cur, links).root = None /\ FetchTask(cur, links).pc = "search"
    BY <1>1, <1>2 DEF FetchTask
  <1> QED
    BY <1>3, Fetching

LEMMA AdvancedIs ==
    ASSUME NEW l0 \in Task, l0.kind = "fetch", NEW left \in SUBSET Ids, NEW failed \in SUBSET Ids,
           NEW root \in Roots
    PROVE  LET l == Advanced(l0, left, failed) IN
           /\ l \in Task /\ Args(l, root) /\ l.kind \in {"none", "fetch"}
           /\ l.pc \in {"idle", "search", "pause"} /\ l.root = None
  <1> DEFINE paused == [NoTask EXCEPT !.kind = "fetch", !.pc = "pause", !.pass = l0.pass,
                                      !.todo = failed]
             goes == [l0 EXCEPT !.pc = "search", !.root = None, !.entry = None,
                                !.best = None, !.todo = left, !.next = failed]
  <1>1. /\ paused \in Task /\ paused.kind = "fetch" /\ paused.root = None /\ paused.pc = "pause"
        /\ paused.pass = l0.pass
    BY NoTaskIs DEF Task
  <1>2. /\ goes \in Task /\ goes.kind = "fetch" /\ goes.root = None /\ goes.pc = "search"
    BY DEF Task
  <1>3. NextPass(l0, failed) = NoTask \/ (NextPass(l0, failed) = paused /\ l0.pass < Passes)
    BY DEF NextPass
  <1>4. Advanced(l0, left, failed) = NextPass(l0, failed) \/ Advanced(l0, left, failed) = goes
    BY DEF Advanced
  <1> HIDE DEF paused, goes
  <1> QED
    BY <1>1, <1>2, <1>3, <1>4, Fetching

LEMMA Becoming ==
    ASSUME Typed, NEW t \in Tasks, NEW l \in Task, Becomes(t, l), Args(l, rootPath'),
           rootPath' = rootPath \/ rootPath' \in Roots
    PROVE  /\ task' \in [Tasks -> Task]
           /\ \A u \in Tasks : Args(task'[u], rootPath')
           /\ task'[t] = l /\ \A u \in Tasks : u # t => task'[u] = task[u]
  <1>1. task \in [Tasks -> Task] /\ task' = [task EXCEPT ![t] = l]
    BY DEF Typed, TypeOK, Becomes
  <1>2. \A u \in Tasks : u # t => Args(task[u], rootPath')
    BY DEF Typed, Args
  <1> QED
    BY <1>1, <1>2

LEMMA Ending ==
    ASSUME Typed, NEW t \in Tasks, Ends(t), rootPath' = rootPath
    PROVE  /\ task' \in [Tasks -> Task]
           /\ \A u \in Tasks : Args(task'[u], rootPath')
           /\ task'[t] = NoTask /\ \A u \in Tasks : u # t => task'[u] = task[u]
  <1>1. Becomes(t, NoTask)
    BY DEF Ends, Becomes
  <1> QED
    BY <1>1, Becoming, NoTaskIs

LEMMA Piping ==
    ASSUME Typed, NEW t \in Tasks
    PROVE  /\ Append(pipe, t) \in Seq(Tasks)
           /\ Answers(t) => Tail(pipe) \in Seq(Tasks) /\ Append(Tail(pipe), t) \in Seq(Tasks)
  <1>1. pipe \in Seq(Tasks)
    BY DEF Typed, TypeOK
  <1> QED
    BY <1>1 DEF Answers

LEMMA TaskIs ==
    ASSUME Typed, NEW t \in Tasks
    PROVE  task[t] \in Task /\ Args(task[t], rootPath)
  BY DEF Typed, TypeOK

LEMMA OpenFolderTyped ==
    ASSUME Typed, NEW t \in Tasks, NEW r \in Roots, OpenFolder(t, r)
    PROVE  Typed'
  <1> DEFINE l == [NoTask EXCEPT !.kind = "load", !.pc = "load", !.root = r]
  <1>1. l \in Task /\ Args(l, r)
    BY NoTaskIs DEF Task, Args
  <1>2. Becomes(t, l) /\ rootPath' = r /\ lastPath' = r /\ pipe' = Append(pipe, t)
        /\ UNCHANGED <<folders, store, torn, entries, mappings, abort, view, modal, editing,
                       pending, edits, crashes>>
    BY DEF OpenFolder, Sends, dialog, env
  <1> HIDE DEF l
  <1>3. task' \in [Tasks -> Task] /\ \A u \in Tasks : Args(task'[u], rootPath')
    BY <1>1, <1>2, Becoming
  <1>4. pipe' \in Seq(Tasks)
    BY <1>2, Piping
  <1> QED
    BY <1>2, <1>3, <1>4 DEF Typed, TypeOK

LEMMA ShowLibraryTyped ==
    ASSUME Typed, NEW t \in Tasks, rootPath \in Roots, NEW cur \in SUBSET Ids, NEW links \in Links,
           ShowLibrary(t, cur, links)
    PROVE  /\ entries' \subseteq Ids /\ mappings' \in Links /\ abort' \in BOOLEAN
           /\ rootPath' = rootPath
           /\ task' \in [Tasks -> Task] /\ \A u \in Tasks : Args(task'[u], rootPath')
           /\ task'[t].kind \in {"none", "fetch"} /\ task'[t].root = None
           /\ task'[t].pc \in {"idle", "search", "pause"}
           /\ \A u \in Tasks : u # t => task'[u] = task[u]
  <1>1. /\ Becomes(t, FetchTask(cur, links)) /\ rootPath' = rootPath
        /\ entries' = cur /\ mappings' = links /\ abort' = FALSE
    BY DEF ShowLibrary
  <1> DEFINE l == FetchTask(cur, links)
  <1>2. /\ l \in Task /\ Args(l, rootPath') /\ l.kind \in {"none", "fetch"}
        /\ l.pc \in {"idle", "search", "pause"} /\ l.root = None
    BY <1>1, FetchTaskIs
  <1>3. Becomes(t, l)
    BY <1>1
  <1> HIDE DEF l
  <1>4. /\ task' \in [Tasks -> Task] /\ \A u \in Tasks : Args(task'[u], rootPath')
        /\ task'[t] = l /\ \A u \in Tasks : u # t => task'[u] = task[u]
    BY <1>1, <1>2, <1>3, Becoming
  <1> QED
    BY <1>1, <1>2, <1>4

LEMMA FileIs ==
    ASSUME Typed, NEW r \in Roots, store[r] # Broken
    PROVE  store[r] \in Seq(Record) /\ folders[r] \in SUBSET Ids /\ LinksOf(store[r]) \in Links
  <1>1. store[r] \in Seq(Record) /\ folders[r] \in SUBSET Ids
    BY DEF Typed, TypeOK
  <1> QED
    BY <1>1, LinksOfIs

LEMMA LoadedTyped ==
    ASSUME Typed, NEW t \in Tasks, Loaded(t)
    PROVE  Typed'
  <1> DEFINE l == task[t]
             r == l.root
             cur == folders[r]
             raw == LinksOf(store[r])
  <1>1. /\ l \in Task /\ Args(l, rootPath) /\ r \in Roots /\ rootPath \in Roots
        /\ l.kind = "load"
    BY TaskIs DEF Loaded, At, Args
  <1>2. /\ Answers(t) /\ torn' \subseteq Roots
        /\ UNCHANGED <<folders, store, lastPath, modal, editing, pending, edits, crashes>>
    BY DEF Loaded, Reads, disk, dialog, env, Typed, TypeOK
  <1>3. CASE /\ Ends(t) /\ NoMore /\ view' = "welcome"
             /\ UNCHANGED <<rootPath, entries, mappings, abort>>
    BY <1>1, <1>2, <1>3, Ending, Piping DEF Typed, TypeOK, NoMore
  <1>4. CASE /\ store[r] # Broken
             /\ Becomes(t, [l EXCEPT !.pc = "migrate", !.found = cur, !.raw = raw])
             /\ SendsNext(t)
             /\ UNCHANGED shown
    <2> DEFINE k == [l EXCEPT !.pc = "migrate", !.found = cur, !.raw = raw]
    <2>1. k \in Task /\ Args(k, rootPath')
      <3>1. cur \in SUBSET Ids /\ raw \in Links
        BY <1>1, <1>4, FileIs
      <3> HIDE DEF cur, raw
      <3>2. k \in Task /\ k.kind = "load" /\ k.pc = "migrate" /\ k.root = r
        BY <1>1, <3>1 DEF Task
      <3> QED
        BY <1>1, <1>2, <1>4, <3>2 DEF Args, shown
    <2> HIDE DEF k
    <2>2. task' \in [Tasks -> Task] /\ \A u \in Tasks : Args(task'[u], rootPath')
      BY <1>2, <1>4, <2>1, Becoming DEF k, shown
    <2> QED
      BY <1>1, <1>2, <1>4, <2>2, Piping DEF Typed, TypeOK, SendsNext, shown
  <1>5. CASE /\ store[r] # Broken
             /\ ShowLibrary(t, cur, Known(raw, cur))
             /\ view' = "cards" /\ NoMore
    <2>1. cur \in SUBSET Ids /\ Known(raw, cur) \in Links
      BY <1>1, <1>5, FileIs, KnownIs
    <2> HIDE DEF cur, raw
    <2>2. /\ entries' \subseteq Ids /\ mappings' \in Links /\ abort' \in BOOLEAN
          /\ rootPath' = rootPath
          /\ task' \in [Tasks -> Task] /\ \A u \in Tasks : Args(task'[u], rootPath')
      BY <1>1, <1>2, <1>5, <2>1, ShowLibraryTyped
    <2> QED
      BY <1>1, <1>2, <1>5, <2>2, Piping DEF Typed, TypeOK, NoMore
  <1> QED
    BY <1>3, <1>4, <1>5 DEF Loaded

(* What a command does to the files, whether it fails or not.              *)
Filed ==
    /\ store' \in [Roots -> {Broken} \cup Seq(Record)] /\ torn' \subseteq Roots
    /\ UNCHANGED <<folders, lastPath>>

LEMMA SameFiles ==
    ASSUME Typed, UNCHANGED disk
    PROVE  Filed
  BY DEF Filed, disk, Typed, TypeOK

LEMMA Failing ==
    ASSUME Typed, NEW r \in Roots, NEW left, left = store[r] \/ left = Broken, NotWritten(r, left)
    PROVE  /\ Filed
           /\ store'[r] = left /\ torn' = torn \cup {r}
           /\ \A q \in Roots : q # r => store'[q] = store[q]
  <1>1. store \in [Roots -> {Broken} \cup Seq(Record)] /\ torn \subseteq Roots
    BY DEF Typed, TypeOK
  <1>2. /\ store' = [store EXCEPT ![r] = left] /\ torn' = torn \cup {r}
        /\ UNCHANGED <<folders, lastPath>>
    BY DEF NotWritten
  <1> QED
    BY <1>1, <1>2 DEF Filed

LEMMA SaveFailing ==
    ASSUME Typed, NEW r \in Roots, SaveFails(r)
    PROVE  Filed
  BY SameFiles, Failing DEF SaveFails

(* What a save does to them.                                               *)
LEMMA Saving ==
    ASSUME Typed, NEW r \in Roots, NEW e \in Ids, NEW m \in Mals,
           Writes(r, Saved(store[r], e, m))
    PROVE  /\ Filed /\ UNCHANGED torn
           /\ \A q \in Roots : q # r => store'[q] = store[q]
           /\ store'[r] = Saved(store[r], e, m) /\ store'[r] # Broken
  <1>1. store[r] = Broken \/ store[r] \in Seq(Record)
    BY DEF Typed, TypeOK
  <1>2. Saved(store[r], e, m) \in Seq(Record) /\ Saved(store[r], e, m) # Broken
    BY <1>1, SavedIs
  <1>3. /\ store' = [store EXCEPT ![r] = Saved(store[r], e, m)]
        /\ UNCHANGED <<folders, lastPath, torn>>
    BY DEF Writes
  <1> QED
    BY <1>2, <1>3 DEF Filed, Typed, TypeOK

(* What a migration does to them.                                          *)
LEMMA Migrating ==
    ASSUME Typed, NEW r \in Roots, store[r] \in Seq(Record), NEW cur \in SUBSET Ids,
           Writes(r, Migrated(store[r], cur))
    PROVE  /\ Filed /\ UNCHANGED torn
           /\ \A q \in Roots : q # r => store'[q] = store[q]
           /\ store'[r] = Migrated(store[r], cur) /\ store'[r] # Broken
  <1>1. Migrated(store[r], cur) \in Seq(Record) /\ Migrated(store[r], cur) # Broken
    BY MigratedIs, NotBroken
  <1>2. /\ store' = [store EXCEPT ![r] = Migrated(store[r], cur)]
        /\ UNCHANGED <<folders, lastPath, torn>>
    BY DEF Writes
  <1> QED
    BY <1>1, <1>2 DEF Filed, Typed, TypeOK

LEMMA HasMigratedTyped ==
    ASSUME Typed, NEW t \in Tasks, HasMigrated(t)
    PROVE  Typed'
  <1> DEFINE l == task[t]
             r == l.root
             s == store[r]
  <1>1. /\ l \in Task /\ Args(l, rootPath) /\ r \in Roots /\ rootPath \in Roots
        /\ l.kind = "load" /\ l.found \in SUBSET Ids /\ l.raw \in Links
    BY TaskIs DEF HasMigrated, At, Args, Task
  <1>2. Answers(t) /\ view' = "cards" /\ NoMore
        /\ UNCHANGED <<modal, editing, pending, edits, crashes>>
    BY DEF HasMigrated, dialog, env
  <1>3. s # Broken => s \in Seq(Record)
    BY <1>1, FileIs
  <1>4. \E links \in Links : ShowLibrary(t, l.found, links)
    BY <1>1, <1>3, ReplayedIs, KnownIs DEF HasMigrated
  <1>5. Filed
    <2>1. CASE UNCHANGED disk
      BY <2>1, SameFiles
    <2>2. CASE s # Broken /\ Writes(r, Migrated(s, l.found))
      BY <1>1, <1>3, <2>2, Migrating
    <2>3. CASE \E left \in {s, Broken} : NotWritten(r, left)
      BY <1>1, <2>3, Failing
    <2> QED
      BY <2>1, <2>2, <2>3 DEF HasMigrated
  <1>6. /\ entries' \subseteq Ids /\ mappings' \in Links /\ abort' \in BOOLEAN
        /\ rootPath' = rootPath
        /\ task' \in [Tasks -> Task] /\ \A u \in Tasks : Args(task'[u], rootPath')
    BY <1>1, <1>4, ShowLibraryTyped
  <1>7. pipe' \in Seq(Tasks)
    BY <1>2, Piping DEF NoMore
  <1> QED
    BY <1>1, <1>2, <1>5, <1>6, <1>7 DEF Typed, TypeOK, Filed

(* Steps that change nothing but a task, the commands on their way, the    *)
(* dialog and the files.                                                   *)
LEMMA OnlyTask ==
    ASSUME Typed, NEW t \in Tasks, NEW l \in Task, Becomes(t, l), Args(l, rootPath),
           UNCHANGED disk \/ Filed, UNCHANGED <<shown, env>>, pipe' \in Seq(Tasks),
           UNCHANGED dialog \/ \E ts \in SUBSET Tasks : ModalHidden(ts)
    PROVE  Typed'
  <1>1. Filed /\ UNCHANGED <<rootPath, entries, mappings, abort, view, edits, crashes>>
    BY SameFiles DEF shown, env
  <1>2. task' \in [Tasks -> Task] /\ \A u \in Tasks : Args(task'[u], rootPath')
    BY <1>1, Becoming
  <1>3. /\ modal' \in {"none", "edit", "add"}
        /\ editing' \in Ids \cup {None} /\ pending' \in Mals \cup {None}
        /\ modal' # "none" => modal # "none"
    BY DEF ModalHidden, dialog, Typed, TypeOK
  <1> QED
    BY <1>1, <1>2, <1>3 DEF Typed, TypeOK, Filed

LEMMA OnlyEnd ==
    ASSUME Typed, NEW t \in Tasks, Ends(t), UNCHANGED disk \/ Filed, UNCHANGED <<shown, env>>,
           pipe' \in Seq(Tasks),
           UNCHANGED dialog \/ \E ts \in SUBSET Tasks : ModalHidden(ts)
    PROVE  Typed'
  <1>1. Becomes(t, NoTask)
    BY DEF Ends, Becomes
  <1> QED
    BY <1>1, NoTaskIs, OnlyTask

LEMMA SamePipe == Typed => pipe \in Seq(Tasks)
  BY DEF Typed, TypeOK

LEMMA FetchedTyped ==
    ASSUME Typed, NEW t \in Tasks, NEW e \in Ids, NEW m \in Matches(e), Fetched(t, e, m)
    PROVE  Typed'
  <1>1. /\ task[t] \in Task /\ Args(task[t], rootPath) /\ rootPath \in Roots
        /\ task[t].kind = "fetch" /\ UNCHANGED <<disk, shown, dialog, env>>
        /\ task[t].todo \in SUBSET Ids /\ task[t].next \in SUBSET Ids
    BY TaskIs DEF Fetched, At, Args, Task
  <1>2. CASE m = None
    <2> DEFINE l == Advanced(task[t], task[t].todo \ {e}, task[t].next \cup {e})
    <2>1. Becomes(t, l) /\ pipe' = pipe
      BY <1>2 DEF Fetched
    <2>2. l \in Task /\ Args(l, rootPath)
      <3> DEFINE left == task[t].todo \ {e}
                 failed == task[t].next \cup {e}
      <3>1. left \in SUBSET Ids /\ failed \in SUBSET Ids
        BY <1>1
      <3> HIDE DEF left, failed
      <3> QED
        BY <1>1, <3>1, AdvancedIs DEF left, failed
    <2> HIDE DEF l
    <2> QED
      BY <1>1, <2>1, <2>2, OnlyTask, SamePipe
  <1>3. CASE m # None
    <2> DEFINE l == [task[t] EXCEPT !.pc = "save", !.root = rootPath, !.entry = e, !.best = m]
    <2>1. Becomes(t, l) /\ pipe' = Append(pipe, t)
      BY <1>3 DEF Fetched, Sends
    <2>2. m \in Mals
      BY <1>3, LibraryAssumption DEF Matches
    <2>3. l \in Task /\ Args(l, rootPath)
      BY <1>1, <2>2 DEF Task, Args
    <2> HIDE DEF l
    <2> QED
      BY <1>1, <2>1, <2>3, OnlyTask, Piping
  <1> QED
    BY <1>2, <1>3

(* A save with its effect on the cards.                                    *)
LEMMA SavedTyped ==
    ASSUME Typed, NEW t \in Tasks, task[t].kind # "none", task[t].pc = "save", Answers(t),
           Writes(task[t].root, Saved(store[task[t].root], task[t].entry, task[t].best)),
           NEW l \in Task, Becomes(t, l), Args(l, rootPath), pipe' \in Seq(Tasks),
           UNCHANGED env,
           \/ \E e \in Ids, m \in Mals : MemoryLinked(e, m)
           \/ UNCHANGED shown,
           UNCHANGED dialog \/ \E ts \in SUBSET Tasks : ModalHidden(ts)
    PROVE  Typed'
  <1>1. /\ task[t].root \in Roots /\ task[t].entry \in Ids /\ task[t].best \in Mals
    BY TaskIs DEF Args
  <1>2. Filed
    BY <1>1, Saving
  <1>3. /\ UNCHANGED <<rootPath, entries, abort, view>> /\ mappings' \in Links
    BY DEF MemoryLinked, Linked, Links, shown, Typed, TypeOK
  <1>4. task' \in [Tasks -> Task] /\ \A u \in Tasks : Args(task'[u], rootPath')
    BY <1>2, <1>3, Becoming
  <1>5. /\ modal' \in {"none", "edit", "add"}
        /\ editing' \in Ids \cup {None} /\ pending' \in Mals \cup {None}
        /\ modal' # "none" => modal # "none"
    BY DEF ModalHidden, dialog, Typed, TypeOK
  <1> QED
    BY <1>2, <1>3, <1>4, <1>5 DEF Typed, TypeOK, Filed, env

LEMMA FetchSavedTyped ==
    ASSUME Typed, NEW t \in Tasks, FetchSaved(t)
    PROVE  Typed'
  <1>1. /\ task[t] \in Task /\ Args(task[t], rootPath) /\ rootPath \in Roots
        /\ task[t].kind = "fetch" /\ task[t].pc = "save" /\ UNCHANGED <<dialog, env>>
        /\ task[t].todo \in SUBSET Ids /\ task[t].next \in SUBSET Ids
        /\ task[t].root \in Roots /\ task[t].entry \in Ids /\ task[t].best \in Mals
        /\ Answers(t) /\ pipe' = Tail(pipe)
    BY TaskIs DEF FetchSaved, At, Args, Task, NoMore
  <1>2. pipe' \in Seq(Tasks)
    BY <1>1, Piping
  <1> DEFINE left == task[t].todo \ {task[t].entry}
             failed == task[t].next \cup {task[t].entry}
             l == Advanced(task[t], left, task[t].next)
             k == Advanced(task[t], left, failed)
  <1>3. left \in SUBSET Ids /\ failed \in SUBSET Ids
    BY <1>1
  <1> HIDE DEF left, failed
  <1>4. l \in Task /\ Args(l, rootPath) /\ k \in Task /\ Args(k, rootPath)
    BY <1>1, <1>3, AdvancedIs
  <1>5. CASE /\ Writes(task[t].root, Saved(store[task[t].root], task[t].entry, task[t].best))
             /\ MemoryLinked(task[t].entry, task[t].best)
             /\ Becomes(t, l)
    <2> HIDE DEF l, k
    <2> QED
      BY <1>1, <1>2, <1>4, <1>5, SavedTyped
  <1>6. CASE Becomes(t, k) /\ SaveFails(task[t].root) /\ UNCHANGED shown
    <2>1. Filed
      BY <1>1, <1>6, SaveFailing
    <2> HIDE DEF l, k
    <2> QED
      BY <1>1, <1>2, <1>4, <1>6, <2>1, OnlyTask
  <1> QED
    BY <1>5, <1>6 DEF FetchSaved, left, failed

LEMMA NextPassTyped ==
    ASSUME Typed, NEW t \in Tasks, NextPassBegins(t)
    PROVE  Typed'
  <1> DEFINE l == [task[t] EXCEPT !.pc = "search", !.pass = @ + 1]
  <1>1. /\ UNCHANGED <<disk, shown, dialog, pipe, env>> /\ (Ends(t) \/ Becomes(t, l))
        /\ task[t].kind = "fetch" /\ task[t].pc = "pause"
    BY DEF NextPassBegins, At
  <1>2. l \in Task /\ Args(l, rootPath)
    <2>1. task[t].pass + 1 \in 0 .. Passes
      BY <1>1, TaskIs, LibraryAssumption DEF Args, Task
    <2> QED
      BY <1>1, <2>1, TaskIs DEF Args, Task
  <1> HIDE DEF l
  <1> QED
    <2>1. pipe' \in Seq(Tasks) /\ UNCHANGED <<disk, shown, env>> /\ UNCHANGED dialog
      BY <1>1, SamePipe
    <2>2. CASE Ends(t)
      BY <2>1, <2>2, OnlyEnd
    <2>3. CASE Becomes(t, l)
      BY <1>2, <2>1, <2>3, OnlyTask
    <2> QED
      BY <1>1, <2>2, <2>3

LEMMA RefetchTyped ==
    ASSUME Typed, NEW t \in Tasks, NEW e \in Ids, Refetch(t, e)
    PROVE  Typed'
  <1> DEFINE l == [NoTask EXCEPT !.kind = "refetch", !.pc = "search", !.entry = e]
  <1>1. UNCHANGED <<disk, shown, dialog, pipe, env>> /\ Becomes(t, l) /\ view = "cards"
    BY DEF Refetch
  <1>2. l \in Task /\ Args(l, rootPath)
    BY <1>1, NoTaskIs DEF Task, Args, Typed
  <1> HIDE DEF l
  <1> QED
    BY <1>1, <1>2, OnlyTask, SamePipe

LEMMA RefetchedTyped ==
    ASSUME Typed, NEW t \in Tasks, NEW m \in Mals \cup {None}, Refetched(t, m)
    PROVE  Typed'
  <1> DEFINE l == [task[t] EXCEPT !.pc = "delete", !.best = m]
  <1>1. /\ UNCHANGED <<disk, shown, dialog, env>>
        /\ \/ Ends(t) /\ pipe' = pipe
           \/ Becomes(t, l) /\ pipe' = Append(pipe, t) /\ m # None
        /\ task[t].kind = "refetch" /\ task[t].pc = "search"
    BY DEF Refetched, At, Sends
  <1>2. m # None => l \in Task /\ Args(l, rootPath)
    BY <1>1, TaskIs DEF Task, Args
  <1> HIDE DEF l
  <1> QED
    BY <1>1, <1>2, OnlyTask, OnlyEnd, SamePipe, Piping

LEMMA RefetchDeletedTyped ==
    ASSUME Typed, NEW t \in Tasks, RefetchDeleted(t)
    PROVE  Typed'
  <1> DEFINE l == [task[t] EXCEPT !.pc = "save", !.root = rootPath]
  <1>1. /\ UNCHANGED <<disk, shown, dialog, env>> /\ Answers(t)
        /\ Becomes(t, l) /\ pipe' = Append(Tail(pipe), t)
        /\ task[t].kind = "refetch" /\ task[t].pc = "delete"
    BY DEF RefetchDeleted, At, SendsNext
  <1>2. l \in Task /\ Args(l, rootPath)
    BY <1>1, TaskIs DEF Task, Args
  <1> HIDE DEF l
  <1> QED
    BY <1>1, <1>2, OnlyTask, Piping

LEMMA RefetchSavedTyped ==
    ASSUME Typed, NEW t \in Tasks, RefetchSaved(t)
    PROVE  Typed'
  <1>1. /\ UNCHANGED <<dialog, env>> /\ Answers(t) /\ Ends(t) /\ pipe' = Tail(pipe)
        /\ task[t].kind = "refetch" /\ task[t].pc = "save"
        /\ task[t].root \in Roots /\ task[t].entry \in Ids /\ task[t].best \in Mals
    BY TaskIs DEF RefetchSaved, At, NoMore, Args
  <1>2. pipe' \in Seq(Tasks) /\ Becomes(t, NoTask)
    BY <1>1, Piping DEF Ends, Becomes
  <1>3. CASE /\ Writes(task[t].root, Saved(store[task[t].root], task[t].entry, task[t].best))
             /\ MemoryLinked(task[t].entry, task[t].best)
    BY <1>1, <1>2, <1>3, NoTaskIs, SavedTyped
  <1>4. CASE SaveFails(task[t].root) /\ UNCHANGED shown
    BY <1>1, <1>2, <1>4, SaveFailing, OnlyEnd
  <1> QED
    BY <1>3, <1>4 DEF RefetchSaved

LEMMA DialogTyped ==
    ASSUME Typed, Dialog
    PROVE  Typed'
  <1>1. UNCHANGED <<disk, shown, task, pipe, env>>
    BY DEF Dialog, OpenEdit, OpenAdd, Choose, CloseModal
  <1>2. /\ modal' \in {"none", "edit", "add"}
        /\ editing' \in Ids \cup {None} /\ pending' \in Mals \cup {None}
        /\ modal' # "none" => rootPath \in Roots
    BY DEF Dialog, OpenEdit, OpenAdd, Choose, CloseModal, ModalHidden, Typed, TypeOK
  <1> QED
    BY <1>1, <1>2 DEF Typed, TypeOK, disk, shown, env

LEMMA SaveLinkTyped ==
    ASSUME Typed, NEW t \in Tasks, SaveLink(t)
    PROVE  Typed'
  <1> DEFINE l == [NoTask EXCEPT !.kind = "link", !.pc = "delete"]
  <1>1. /\ UNCHANGED <<disk, shown, dialog, env>> /\ Becomes(t, l) /\ pipe' = Append(pipe, t)
        /\ modal = "edit"
    BY DEF SaveLink, Sends
  <1>2. l \in Task /\ Args(l, rootPath)
    BY <1>1, NoTaskIs DEF Task, Args, Typed
  <1> HIDE DEF l
  <1> QED
    BY <1>1, <1>2, OnlyTask, Piping

LEMMA LinkDeletedTyped ==
    ASSUME Typed, NEW t \in Tasks, LinkDeleted(t)
    PROVE  Typed'
  <1> DEFINE l == [task[t] EXCEPT !.pc = "save", !.root = rootPath,
                                  !.entry = editing, !.best = pending]
  <1>1. /\ UNCHANGED <<disk, shown, dialog, env>> /\ Answers(t)
        /\ \/ Ends(t) /\ pipe' = Tail(pipe)
           \/ /\ Becomes(t, l) /\ pipe' = Append(Tail(pipe), t)
              /\ pending # None /\ editing # None
        /\ task[t].kind = "link" /\ task[t].pc = "delete"
    BY DEF LinkDeleted, At, SendsNext, NoMore
  <1>2. editing \in Ids \cup {None} /\ pending \in Mals \cup {None}
    BY DEF Typed, TypeOK
  <1>3. pending # None /\ editing # None => l \in Task /\ Args(l, rootPath)
    BY <1>1, <1>2, TaskIs DEF Task, Args
  <1> HIDE DEF l
  <1> QED
    BY <1>1, <1>3, OnlyTask, OnlyEnd, Piping

LEMMA LinkSavedTyped ==
    ASSUME Typed, NEW t \in Tasks, LinkSaved(t)
    PROVE  Typed'
  <1>1. /\ UNCHANGED env /\ Answers(t) /\ Ends(t) /\ pipe' = Tail(pipe)
        /\ task[t].kind = "link" /\ task[t].pc = "save" /\ task[t].root \in Roots
    BY TaskIs DEF LinkSaved, At, NoMore, Args
  <1>2. pipe' \in Seq(Tasks) /\ Becomes(t, NoTask)
    BY <1>1, Piping DEF Ends, Becomes
  <1>3. CASE SaveFails(task[t].root) /\ UNCHANGED <<shown, dialog>>
    BY <1>1, <1>2, <1>3, SaveFailing, OnlyEnd
  <1>4. CASE ~(SaveFails(task[t].root) /\ UNCHANGED <<shown, dialog>>)
    <2>1. Writes(task[t].root, Saved(store[task[t].root], task[t].entry, task[t].best))
      BY <1>4 DEF LinkSaved
    <2>2. (\E e \in Ids, m \in Mals : MemoryLinked(e, m)) \/ UNCHANGED shown
      BY <1>4 DEF LinkSaved, Typed, TypeOK
    <2>3. UNCHANGED dialog \/ \E ts \in SUBSET Tasks : ModalHidden(ts)
      BY <1>4 DEF LinkSaved
    <2> QED
      BY <1>1, <1>2, <2>1, <2>2, <2>3, NoTaskIs, SavedTyped
  <1> QED
    BY <1>3, <1>4

LEMMA AddNewTyped ==
    ASSUME Typed, NEW t \in Tasks, NEW n \in Ids, NEW x \in SUBSET Ids, AddNew(t, n, x)
    PROVE  Typed'
  <1> DEFINE l == [NoTask EXCEPT !.kind = "add", !.pc = "create", !.root = rootPath,
                                 !.entry = n, !.found = x]
  <1>1. /\ UNCHANGED <<disk, shown, dialog, crashes>> /\ Becomes(t, l) /\ pipe' = Append(pipe, t)
        /\ rootPath # None /\ edits' = edits + 1 /\ edits < MaxEdits
    BY DEF AddNew, Sends
  <1>2. rootPath \in Roots
    BY <1>1 DEF Typed, TypeOK
  <1>3. l \in Task /\ Args(l, rootPath)
    BY <1>2, NoTaskIs DEF Task, Args
  <1> HIDE DEF l
  <1>4. task' \in [Tasks -> Task] /\ \A u \in Tasks : Args(task'[u], rootPath')
    BY <1>1, <1>3, Becoming DEF disk, shown
  <1>5. pipe' \in Seq(Tasks)
    BY <1>1, Piping
  <1>6. edits' \in 0 .. MaxEdits
    BY <1>1, LibraryAssumption DEF Typed, TypeOK
  <1> QED
    BY <1>1, <1>4, <1>5, <1>6 DEF Typed, TypeOK, disk, shown, dialog

LEMMA CreatedTyped ==
    ASSUME Typed, NEW t \in Tasks, Created(t)
    PROVE  Typed'
  <1> DEFINE l == task[t]
             k == [l EXCEPT !.pc = IF pending = None THEN "load" ELSE "save",
                            !.root = rootPath, !.best = pending, !.found = {}]
  <1>1. /\ UNCHANGED <<store, lastPath, torn, shown, dialog, env>> /\ Answers(t)
        /\ l.kind = "add" /\ l.pc = "create" /\ rootPath \in Roots /\ l.entry \in Ids
        /\ \/ Ends(t) /\ NoMore /\ UNCHANGED folders
           \/ /\ folders' = [folders EXCEPT ![l.root] = WithFolder(@, l.entry)]
              /\ Becomes(t, k) /\ SendsNext(t)
    BY TaskIs DEF Created, At, Args
  <1>2. k \in Task /\ Args(k, rootPath)
    <2>1. pending \in Mals \cup {None}
      BY DEF Typed, TypeOK
    <2>2. l \in Task
      BY TaskIs
    <2> QED
      BY <1>1, <2>1, <2>2 DEF Task, Args
  <1> HIDE DEF k
  <1>3. task' \in [Tasks -> Task] /\ \A u \in Tasks : Args(task'[u], rootPath')
    BY <1>1, <1>2, Becoming, Ending DEF shown
  <1>4. pipe' \in Seq(Tasks)
    BY <1>1, Piping DEF NoMore, SendsNext
  <1>5. folders' \in [Roots -> SUBSET Ids]
    BY <1>1 DEF WithFolder, Typed, TypeOK
  <1> QED
    BY <1>1, <1>3, <1>4, <1>5 DEF Typed, TypeOK, shown, dialog, env

LEMMA AddSavedTyped ==
    ASSUME Typed, NEW t \in Tasks, AddSaved(t)
    PROVE  Typed'
  <1> DEFINE l == [task[t] EXCEPT !.pc = "load", !.root = rootPath]
  <1>1. /\ UNCHANGED <<shown, dialog, env>> /\ Answers(t)
        /\ task[t].kind = "add" /\ task[t].pc = "save" /\ rootPath \in Roots
        /\ \/ /\ Writes(task[t].root, Saved(store[task[t].root], task[t].entry, task[t].best))
              /\ Becomes(t, l) /\ pipe' = Append(Tail(pipe), t)
           \/ Ends(t) /\ pipe' = Tail(pipe) /\ SaveFails(task[t].root)
        /\ task[t].root \in Roots
    BY TaskIs DEF AddSaved, At, Args, NoMore, SendsNext
  <1>2. l \in Task /\ Args(l, rootPath)
    BY <1>1, TaskIs DEF Task, Args
  <1> HIDE DEF l
  <1> QED
    BY <1>1, <1>2, SavedTyped, SaveFailing, OnlyEnd, Piping

LEMMA AddLoadedTyped ==
    ASSUME Typed, NEW t \in Tasks, AddLoaded(t)
    PROVE  Typed'
  <1> DEFINE r == task[t].root
             l == [NoTask EXCEPT !.kind = "add", !.pc = "tick",
                                 !.found = folders[r], !.raw = LinksOf(store[r])]
  <1>1. /\ UNCHANGED <<folders, store, lastPath, dialog, env>> /\ Answers(t)
        /\ torn' \subseteq Roots /\ pipe' = Tail(pipe)
        /\ task[t].kind = "add" /\ task[t].pc = "load" /\ rootPath \in Roots /\ r \in Roots
        /\ \/ Ends(t) /\ UNCHANGED shown
           \/ /\ store[r] # Broken /\ abort' = TRUE
              /\ Becomes(t, l)
              /\ UNCHANGED <<rootPath, entries, mappings, view>>
    BY TaskIs DEF AddLoaded, At, Args, NoMore, Reads, disk, Typed, TypeOK
  <1>2. store[r] # Broken => l \in Task /\ Args(l, rootPath)
    <2>1. SUFFICES ASSUME store[r] # Broken PROVE l \in Task /\ Args(l, rootPath)
      OBVIOUS
    <2>2. folders[r] \in SUBSET Ids /\ LinksOf(store[r]) \in Links
      BY <1>1, <2>1, FileIs
    <2> QED
      BY <1>1, <2>2, NoTaskIs DEF Task, Args
  <1> HIDE DEF l
  <1>3. task' \in [Tasks -> Task] /\ \A u \in Tasks : Args(task'[u], rootPath')
    BY <1>1, <1>2, Becoming, Ending DEF shown
  <1>4. pipe' \in Seq(Tasks)
    BY <1>1, Piping
  <1> QED
    BY <1>1, <1>3, <1>4 DEF Typed, TypeOK, shown, dialog, env

LEMMA AddShownTyped ==
    ASSUME Typed, NEW t \in Tasks, AddShown(t)
    PROVE  Typed'
  <1>1. /\ UNCHANGED <<disk, view, pipe, env>> /\ ModalHidden(Tasks \ {t})
        /\ ShowLibrary(t, task[t].found, Known(task[t].raw, task[t].found))
        /\ rootPath \in Roots /\ task[t].found \in SUBSET Ids
        /\ Known(task[t].raw, task[t].found) \in Links
    BY TaskIs, KnownIs DEF AddShown, At, Args, Task
  <1>2. /\ entries' \subseteq Ids /\ mappings' \in Links /\ abort' \in BOOLEAN
        /\ rootPath' = rootPath
        /\ task' \in [Tasks -> Task] /\ \A u \in Tasks : Args(task'[u], rootPath')
    BY <1>1, ShowLibraryTyped DEF disk
  <1>3. /\ modal' = "none"
        /\ editing' \in Ids \cup {None} /\ pending' \in Mals \cup {None}
    BY <1>1 DEF ModalHidden, Typed, TypeOK
  <1> QED
    BY <1>1, <1>2, <1>3 DEF Typed, TypeOK, disk, env

LEMMA MoveTyped ==
    ASSUME Typed, NEW r \in Roots, NEW x \in Ids, NEW y \in Ids, Move(r, x, y)
    PROVE  Typed'
  <1>1. /\ folders' = [folders EXCEPT ![r] = (@ \ {x}) \cup {y}]
        /\ edits' = edits + 1 /\ edits < MaxEdits
        /\ UNCHANGED <<store, lastPath, torn, shown, dialog, task, pipe, crashes>>
    BY DEF Move
  <1>2. folders' \in [Roots -> SUBSET Ids]
    BY <1>1 DEF Typed, TypeOK
  <1>3. edits' \in 0 .. MaxEdits
    BY <1>1, LibraryAssumption DEF Typed, TypeOK
  <1> QED
    BY <1>1, <1>2, <1>3 DEF Typed, TypeOK, shown, dialog

LEMMA RestartTyped ==
    ASSUME Typed, NEW t \in Tasks, Restart(t)
    PROVE  Typed'
  <1> DEFINE l == [NoTask EXCEPT !.kind = "load", !.pc = "load", !.root = lastPath]
  <1>1. /\ crashes < MaxCrashes /\ crashes' = crashes + 1
        /\ rootPath' = lastPath /\ entries' = {} /\ mappings' = NoLink /\ abort' = FALSE
        /\ view' = "welcome"
        /\ modal' = "none" /\ editing' = None /\ pending' = None
        /\ UNCHANGED <<folders, lastPath, torn, edits>>
    BY DEF Restart
  <1>2. store' \in [Roots -> {Broken} \cup Seq(Record)]
    BY DEF Restart, Typed, TypeOK
  <1>3. NoLink \in Links
    BY DEF NoLink, Links
  <1>4. crashes' \in 0 .. MaxCrashes
    BY <1>1, LibraryAssumption DEF Typed, TypeOK
  <1>5. /\ task' \in [Tasks -> Task] /\ \A u \in Tasks : Args(task'[u], rootPath')
        /\ pipe' \in Seq(Tasks)
    <2>1. CASE lastPath = None /\ task' = [u \in Tasks |-> NoTask] /\ pipe' = <<>>
      BY <2>1, NoTaskIs
    <2>2. CASE /\ lastPath # None /\ pipe' = <<t>>
               /\ task' = [[u \in Tasks |-> NoTask] EXCEPT ![t] = l]
      <3>1. lastPath \in Roots
        BY <2>2 DEF Typed, TypeOK
      <3>2. l \in Task /\ Args(l, lastPath)
        BY <3>1, NoTaskIs DEF Task, Args
      <3> HIDE DEF l
      <3>3. \A u \in Tasks : task'[u] = IF u = t THEN l ELSE NoTask
        BY <2>2
      <3>4. task' \in [Tasks -> Task]
        BY <2>2, <3>2, NoTaskIs
      <3> QED
        BY <1>1, <2>2, <3>2, <3>3, <3>4, NoTaskIs
    <2> QED
      BY <2>1, <2>2 DEF Restart
  <1> QED
    BY <1>1, <1>2, <1>3, <1>4, <1>5 DEF Typed, TypeOK

LEMMA StepTyped ==
    ASSUME Typed, NEW t \in Tasks, Step(t)
    PROVE  Typed'
  BY LoadedTyped, HasMigratedTyped, FetchedTyped, FetchSavedTyped, NextPassTyped, RefetchedTyped,
     RefetchDeletedTyped, RefetchSavedTyped, LinkDeletedTyped, LinkSavedTyped, CreatedTyped,
     AddSavedTyped, AddLoadedTyped, AddShownTyped DEF Step

LEMMA OutsideTyped ==
    ASSUME Typed, Outside
    PROVE  Typed'
  <1>1. (CHOOSE t \in Tasks : TRUE) \in Tasks
    BY LibraryAssumption
  <1> QED
    BY <1>1, MoveTyped, RestartTyped DEF Outside

LEMMA AddsTyped ==
    ASSUME Typed, NEW t \in Tasks, NEW new \in SUBSET Ids, Adds(t, new)
    PROVE  Typed'
  <1>1. PICK n \in new, x \in {{}} \cup {{e} : e \in Ids} : AddNew(t, n, x)
    BY DEF Adds
  <1>2. n \in Ids /\ x \in SUBSET Ids
    BY <1>1
  <1> QED
    BY <1>1, <1>2, AddNewTyped

LEMMA NextTyped == Typed /\ [Next]_vars => Typed'
  <1> SUFFICES ASSUME Typed, [Next]_vars PROVE Typed'
    OBVIOUS
  <1>1. ASSUME NEW t \in Tasks, Opens(t) PROVE Typed'
    BY <1>1, OpenFolderTyped DEF Opens
  <1>2. CASE UNCHANGED vars
    BY <1>2 DEF Typed, TypeOK, vars, disk, shown, dialog, env
  <1> QED
    BY <1>1, <1>2, StepTyped, AddsTyped, SaveLinkTyped, RefetchTyped, DialogTyped, OutsideTyped
       DEF Next

LEMMA PoliteIsNext == PoliteNext => Next
  <1>1. ASSUME NEW t \in Tasks, Adds(t, Ids \ entries) PROVE Adds(t, Ids)
    BY <1>1 DEF Adds
  <1> QED
    BY <1>1 DEF PoliteNext, PoliteUser, Next

LEMMA InitTyped == Init => Typed
  <1> SUFFICES ASSUME Init PROVE Typed
    OBVIOUS
  <1>1. folders \in [Roots -> SUBSET Ids] /\ NoLink \in Links
    BY DEF Init, NoLink, Links
  <1>2. <<>> \in Seq(Record) /\ <<>> \in Seq(Tasks)
    OBVIOUS
  <1>3. store \in [Roots -> {Broken} \cup Seq(Record)]
    BY <1>2 DEF Init
  <1>4. task \in [Tasks -> Task] /\ \A t \in Tasks : Args(task[t], rootPath)
    BY NoTaskIs DEF Init
  <1>5. edits \in 0 .. MaxEdits /\ crashes \in 0 .. MaxCrashes
    BY LibraryAssumption DEF Init
  <1> QED
    BY <1>1, <1>2, <1>3, <1>4, <1>5 DEF Init, Typed, TypeOK

(* The variables of app.js stay what they are meant to be, whatever the    *)
(* user does and wherever the program dies: no command is sent without its *)
(* folder, its entry or its link, and no task runs more than its passes.   *)
THEOREM LibraryTypes == (Spec => []TypeOK) /\ (PoliteSpec => []TypeOK)
  <1>1. Typed => TypeOK
    BY DEF Typed
  <1>2. [PoliteNext]_vars => [Next]_vars
    BY PoliteIsNext
  <1> QED
    BY <1>1, <1>2, InitTyped, NextTyped, PTL DEF Spec, PoliteSpec

-----------------------------------------------------------------------------
(* A polite user.                                                          *)

(* While a folder is loaded or an anime is added nothing else runs, and    *)
(* one link is made at a time.                                             *)
Lone    == \A t, u \in Tasks : task[t].kind \in {"load", "add"} /\ task[u].kind # "none" => t = u
OneLink == \A t, u \in Tasks : task[t].kind = "link" /\ task[u].kind = "link" => t = u

(* What a task is about is the folder that is open, and its command is on  *)
(* its way; a link being saved is the one of the dialog; what was loaded   *)
(* is still what the disk holds; an anime being added is not shown yet.    *)
Commanding  == {"load", "migrate", "create", "delete", "save"}
Sent(t)     == \E k \in DOMAIN pipe : pipe[k] = t
LinkFits(t) ==
    task[t].kind = "link" =>
        /\ editing # None /\ pending # None
        /\ task[t].pc = "save" => task[t].entry = editing /\ task[t].best = pending
LoadFresh(t) ==
    /\ task[t].pc = "migrate" => /\ store[task[t].root] # Broken
                                 /\ task[t].raw = LinksOf(store[task[t].root])
                                 /\ task[t].found = folders[task[t].root]
    /\ task[t].pc = "tick" => /\ store[rootPath] # Broken
                              /\ task[t].raw = LinksOf(store[rootPath])
AddIsNew(t) == task[t].kind = "add" /\ task[t].pc \in {"create", "save"} => task[t].entry \notin entries
Placed(l) ==
    /\ l.kind = "load" => l.pc \in {"load", "migrate"}
    /\ l.pc = "migrate" => l.kind = "load"
    /\ l.pc \in {"create", "tick"} => l.kind = "add"
Fit(t) ==
    /\ task[t].root \in {None, rootPath}
    /\ task[t].pc \in Commanding => Sent(t)
    /\ LinkFits(t) /\ LoadFresh(t) /\ AddIsNew(t) /\ Placed(task[t])

(* The cards have a file that parses, or one that could not be written.    *)
Excused(r) == Whole(r) \/ r \in torn
CardsWhole == view = "cards" /\ ~Under({"load"}) => Excused(rootPath)
FilesStay  == \A r \in Roots : Excused(r) => Excused(r)'

Polite == Typed /\ Lone /\ OneLink /\ (\A t \in Tasks : Fit(t)) /\ CardsWhole

(* What the queue of commands becomes by a step of t.                      *)
Moved(t) ==
    \/ pipe' \in {pipe, Append(pipe, t)}
    \/ Answers(t) /\ pipe' \in {Tail(pipe), Append(Tail(pipe), t)}
Commands(t) ==
    \/ pipe' = Append(pipe, t)
    \/ Answers(t) /\ pipe' = Append(Tail(pipe), t)

LEMMA SentStays ==
    ASSUME Typed, NEW t \in Tasks, Moved(t)
    PROVE  /\ \A u \in Tasks : u # t /\ Sent(u) => Sent(u)'
           /\ Commands(t) => Sent(t)'
  <1>1. pipe \in Seq(Tasks) /\ Len(pipe) \in Nat /\ DOMAIN pipe = 1 .. Len(pipe)
    BY DEF Typed, TypeOK
  <1>2. /\ Append(pipe, t) \in Seq(Tasks) /\ DOMAIN Append(pipe, t) = 1 .. Len(pipe) + 1
        /\ Append(pipe, t)[Len(pipe) + 1] = t
        /\ \A k \in DOMAIN pipe : Append(pipe, t)[k] = pipe[k]
    BY <1>1
  <1>3. ASSUME Answers(t)
        PROVE  /\ \A k \in 1 .. Len(pipe) - 1 : /\ k \in DOMAIN Tail(pipe) /\ Tail(pipe)[k] = pipe[k + 1]
                                               /\ k \in DOMAIN Append(Tail(pipe), t)
                                               /\ Append(Tail(pipe), t)[k] = pipe[k + 1]
               /\ Len(pipe) \in DOMAIN Append(Tail(pipe), t) /\ Append(Tail(pipe), t)[Len(pipe)] = t
               /\ pipe[1] = t
    <2>1. pipe # <<>> /\ pipe[1] = t /\ Len(pipe) > 0
      BY <1>1, <1>3 DEF Answers
    <2>2. /\ Tail(pipe) \in Seq(Tasks) /\ Len(Tail(pipe)) = Len(pipe) - 1
          /\ \A k \in 1 .. Len(pipe) - 1 : Tail(pipe)[k] = pipe[k + 1]
      BY <1>1, <2>1
    <2> QED
      BY <1>1, <2>1, <2>2
  <1>4. ASSUME NEW u \in Tasks, u # t, Sent(u) PROVE Sent(u)'
    <2>1. PICK k \in DOMAIN pipe : pipe[k] = u
      BY <1>4 DEF Sent
    <2>2. CASE pipe' \in {pipe, Append(pipe, t)}
      BY <1>1, <1>2, <2>1, <2>2 DEF Sent
    <2>3. CASE Answers(t) /\ pipe' \in {Tail(pipe), Append(Tail(pipe), t)}
      <3>1. k - 1 \in 1 .. Len(pipe) - 1 /\ (k - 1) + 1 = k
        <4>1. pipe[1] = t
          BY <1>3, <2>3
        <4>2. k \in Nat /\ k >= 1 /\ k <= Len(pipe) /\ k # 1
          BY <1>1, <1>4, <2>1, <4>1
        <4> QED
          BY <1>1, <4>2
      <3> QED
        BY <1>3, <2>1, <2>3, <3>1 DEF Sent
    <2> QED
      BY <2>2, <2>3 DEF Moved
  <1>5. Commands(t) => Sent(t)'
    <2>1. CASE pipe' = Append(pipe, t)
      <3>1. Len(pipe) + 1 \in DOMAIN pipe' /\ pipe'[Len(pipe) + 1] = t
        BY <1>1, <1>2, <2>1
      <3> QED
        BY <3>1 DEF Sent
    <2>2. CASE Answers(t) /\ pipe' = Append(Tail(pipe), t)
      <3>1. Len(pipe) \in DOMAIN pipe' /\ pipe'[Len(pipe)] = t
        BY <1>3, <2>2
      <3> QED
        BY <3>1 DEF Sent
    <2> QED
      BY <2>1, <2>2 DEF Commands
  <1> QED
    BY <1>4, <1>5

(* A step of t: what it does to the others, and what is left to show of t. *)
LEMMA StepFits ==
    ASSUME Polite, NEW t \in Tasks, task[t].kind # "none", rootPath' = rootPath,
           \A u \in Tasks : u # t => task'[u] = task[u],
           \/ task'[t].kind \in {"none", task[t].kind}
           \/ task[t].kind \in {"load", "add"} /\ task'[t].kind \in {"none", "fetch"},
           Moved(t),
           UNCHANGED <<editing, pending>> \/ (\A u \in Tasks : u # t => task[u].kind # "link"),
           task'[t].root \in {None, rootPath},
           task'[t].pc \in Commanding => Commands(t),
           LinkFits(t)', LoadFresh(t)', AddIsNew(t)', Placed(task'[t])
    PROVE  Lone' /\ OneLink' /\ \A u \in Tasks : Fit(u)'
  <1>1. Lone' /\ OneLink'
    BY DEF Polite, Lone, OneLink
  <1>2. Fit(t)'
    BY SentStays DEF Fit, Polite
  <1>3. ASSUME NEW u \in Tasks, u # t PROVE Fit(u)'
    <2>1. Fit(u) /\ task'[u] = task[u] /\ task[u].kind \notin {"load", "add"}
      BY <1>3 DEF Polite, Lone
    <2>2. LoadFresh(u)' /\ AddIsNew(u)'
      BY <2>1 DEF Fit, LoadFresh, AddIsNew, Placed
    <2>3. LinkFits(u)'
      BY <1>3, <2>1 DEF Fit, LinkFits
    <2>4. task'[u].pc \in Commanding => Sent(u)'
      BY <1>3, <2>1, SentStays DEF Fit, Polite
    <2> QED
      BY <2>1, <2>2, <2>3, <2>4 DEF Fit
  <1> QED
    BY <1>1, <1>2, <1>3

(* The end of t, and any other step of it that takes no new command.       *)
LEMMA EndFits ==
    ASSUME Polite, NEW t \in Tasks, task[t].kind # "none", rootPath' = rootPath, Ends(t), Moved(t),
           UNCHANGED <<editing, pending>> \/ (\A u \in Tasks : u # t => task[u].kind # "link")
    PROVE  Lone' /\ OneLink' /\ \A u \in Tasks : Fit(u)'
  <1>1. task'[t] = NoTask /\ \A u \in Tasks : u # t => task'[u] = task[u]
    BY DEF Ends, Polite, Typed, TypeOK
  <1>2. LinkFits(t)' /\ LoadFresh(t)' /\ AddIsNew(t)' /\ Placed(NoTask)
    BY <1>1, NoTaskIs DEF LinkFits, LoadFresh, AddIsNew, Placed
  <1>3. NoTask.pc \notin Commanding
    BY NoTaskIs DEF Commanding
  <1> QED
    BY <1>1, <1>2, <1>3, NoTaskIs, StepFits

LEMMA FetchFits ==
    ASSUME Polite, NEW t \in Tasks, task[t].kind \in {"load", "add", "fetch"}, rootPath' = rootPath,
           \A u \in Tasks : u # t => task'[u] = task[u], Moved(t),
           task'[t].kind \in {"none", "fetch"}, task'[t].root = None,
           task'[t].pc \in {"idle", "search", "pause"},
           UNCHANGED <<editing, pending>> \/ (\A u \in Tasks : u # t => task[u].kind # "link")
    PROVE  Lone' /\ OneLink' /\ \A u \in Tasks : Fit(u)'
  <1>1. LinkFits(t)' /\ LoadFresh(t)' /\ AddIsNew(t)' /\ Placed(task'[t])
    BY DEF LinkFits, LoadFresh, AddIsNew, Placed
  <1>2. task'[t].pc \notin Commanding
    BY DEF Commanding
  <1> QED
    BY <1>1, <1>2, StepFits

LEMMA CardsStayWhole ==
    ASSUME Polite, NEW t \in Tasks, task[t].kind # "load", \A u \in Tasks : u # t => task'[u] = task[u],
           UNCHANGED <<view, rootPath>>, FilesStay \/ UNCHANGED <<store, torn>>
    PROVE  CardsWhole'
  <1>1. ~Under({"load"})' => ~Under({"load"})
    BY DEF Under
  <1> QED
    BY <1>1 DEF Polite, CardsWhole, Typed, Whole, Excused, FilesStay

(* Reading a file, and failing to write it.                                *)
LEMMA ReadingStays ==
    ASSUME Typed, NEW r \in Roots, Reads(r), store[r] # Broken
    PROVE  FilesStay
  BY DEF Reads, FilesStay, Excused, Whole

LEMMA FailingStays ==
    ASSUME Typed, NEW r \in Roots, SaveFails(r) \/ \E left \in {store[r], Broken} : NotWritten(r, left)
    PROVE  FilesStay
  <1>1. CASE UNCHANGED disk
    BY <1>1 DEF disk, FilesStay, Excused, Whole
  <1>2. CASE \E left \in {store[r], Broken} : NotWritten(r, left)
    BY <1>2, Failing DEF FilesStay, Excused, Whole
  <1> QED
    BY <1>1, <1>2 DEF SaveFails

LEMMA Turned ==
    ASSUME Typed, NEW t \in Tasks, NEW l, Becomes(t, l)
    PROVE  task'[t] = l /\ \A u \in Tasks : u # t => task'[u] = task[u]
  BY DEF Becomes, Typed, TypeOK

LEMMA TaskOf ==
    ASSUME Polite, NEW t \in Tasks
    PROVE  Typed /\ task[t] \in Task /\ Args(task[t], rootPath) /\ Fit(t)
  BY TaskIs DEF Polite

LEMMA LoadedPolite ==
    ASSUME Polite, NEW t \in Tasks, Loaded(t)
    PROVE  Polite'
  <1> DEFINE l == task[t]
             r == l.root
             cur == folders[r]
             raw == LinksOf(store[r])
  <1>1. /\ Typed /\ l \in Task /\ l.kind = "load" /\ l.pc = "load" /\ r \in Roots /\ rootPath \in Roots
        /\ r = rootPath
    BY TaskOf, LibraryAssumption DEF Loaded, At, Args, Fit
  <1>2. Answers(t) /\ UNCHANGED <<folders, store, lastPath, modal, editing, pending, edits, crashes>>
    BY DEF Loaded, Reads, disk, dialog, env
  <1>3. Typed'
    BY <1>1, LoadedTyped
  <1>4. CASE /\ Ends(t) /\ NoMore /\ view' = "welcome"
             /\ UNCHANGED <<rootPath, entries, mappings, abort>>
    <2>1. Lone' /\ OneLink' /\ \A u \in Tasks : Fit(u)'
      BY <1>1, <1>2, <1>4, EndFits DEF NoMore, Moved
    <2> QED
      BY <1>3, <1>4, <2>1 DEF Polite, CardsWhole
  <1>5. CASE /\ store[r] # Broken
             /\ Becomes(t, [l EXCEPT !.pc = "migrate", !.found = cur, !.raw = raw])
             /\ SendsNext(t)
             /\ UNCHANGED shown
    <2> DEFINE k == [l EXCEPT !.pc = "migrate", !.found = cur, !.raw = raw]
    <2>1. /\ k.kind = "load" /\ k.pc = "migrate" /\ k.root = r /\ k.found = cur /\ k.raw = raw
      BY <1>1 DEF Task
    <2>2. /\ UNCHANGED <<rootPath, view>> /\ pipe' = Append(Tail(pipe), t)
      BY <1>5 DEF shown, SendsNext
    <2> HIDE DEF k
    <2>3. task'[t] = k /\ \A u \in Tasks : u # t => task'[u] = task[u]
      BY <1>1, <1>5, Turned DEF k
    <2>4. LinkFits(t)' /\ LoadFresh(t)' /\ AddIsNew(t)' /\ Placed(task'[t])
      BY <1>2, <1>5, <2>1, <2>3 DEF LinkFits, LoadFresh, AddIsNew, Placed
    <2>5. Lone' /\ OneLink' /\ \A u \in Tasks : Fit(u)'
      BY <1>1, <1>2, <2>1, <2>2, <2>3, <2>4, StepFits DEF Moved, Commands
    <2>6. CardsWhole'
      BY <2>1, <2>3 DEF CardsWhole, Under
    <2> QED
      BY <1>3, <2>5, <2>6 DEF Polite
  <1>6. CASE /\ store[r] # Broken
             /\ ShowLibrary(t, cur, Known(raw, cur))
             /\ view' = "cards" /\ NoMore
    <2>1. cur \in SUBSET Ids /\ Known(raw, cur) \in Links
      BY <1>1, <1>6, FileIs, KnownIs
    <2> HIDE DEF cur, raw
    <2>2. /\ rootPath' = rootPath
          /\ task'[t].kind \in {"none", "fetch"} /\ task'[t].root = None
          /\ task'[t].pc \in {"idle", "search", "pause"}
          /\ \A u \in Tasks : u # t => task'[u] = task[u]
      BY <1>1, <1>2, <1>6, <2>1, ShowLibraryTyped
    <2>3. Moved(t)
      BY <1>2, <1>6 DEF Moved, NoMore
    <2>4. Lone' /\ OneLink' /\ \A u \in Tasks : Fit(u)'
      BY <1>1, <1>2, <2>2, <2>3, FetchFits
    <2>5. CardsWhole'
      BY <1>1, <1>2, <1>6, <2>2 DEF CardsWhole, Excused, Whole
    <2> QED
      BY <1>3, <2>4, <2>5 DEF Polite
  <1> QED
    BY <1>4, <1>5, <1>6 DEF Loaded

LEMMA HasMigratedPolite ==
    ASSUME Polite, NEW t \in Tasks, HasMigrated(t)
    PROVE  Polite'
  <1> DEFINE l == task[t]
             r == l.root
             s == store[r]
  <1>1. /\ Typed /\ l \in Task /\ l.kind = "load" /\ r \in Roots /\ rootPath \in Roots
        /\ r = rootPath /\ s # Broken
    BY TaskOf, LibraryAssumption DEF HasMigrated, At, Args, Fit, LoadFresh
  <1>2. Answers(t) /\ view' = "cards" /\ NoMore /\ UNCHANGED <<editing, pending>>
    BY DEF HasMigrated, dialog
  <1>3. s \in Seq(Record) /\ l.found \in SUBSET Ids /\ l.raw \in Links
    BY <1>1, FileIs DEF Task
  <1>4. (\E links \in Links : ShowLibrary(t, l.found, links)) /\ rootPath' = rootPath
    BY <1>3, ReplayedIs, KnownIs DEF HasMigrated, ShowLibrary
  <1>5. Excused(rootPath)'
    <2>1. CASE UNCHANGED disk
      BY <1>1, <1>4, <2>1 DEF disk, Excused, Whole
    <2>2. CASE Writes(r, Migrated(s, l.found))
      BY <1>1, <1>3, <1>4, <2>2, Migrating DEF Excused, Whole
    <2>3. CASE \E left \in {s, Broken} : NotWritten(r, left)
      BY <1>1, <1>4, <2>3, Failing DEF Excused
    <2> QED
      BY <2>1, <2>2, <2>3 DEF HasMigrated
  <1>6. /\ rootPath' = rootPath
        /\ task'[t].kind \in {"none", "fetch"} /\ task'[t].root = None
        /\ task'[t].pc \in {"idle", "search", "pause"}
        /\ \A u \in Tasks : u # t => task'[u] = task[u]
    BY <1>1, <1>3, <1>4, ShowLibraryTyped
  <1>7. Moved(t)
    BY <1>2 DEF Moved, NoMore
  <1>8. Lone' /\ OneLink' /\ \A u \in Tasks : Fit(u)'
    BY <1>1, <1>2, <1>6, <1>7, FetchFits
  <1>9. CardsWhole'
    BY <1>5 DEF CardsWhole
  <1> QED
    BY <1>1, <1>8, <1>9, HasMigratedTyped DEF Polite

LEMMA FetchedPolite ==
    ASSUME Polite, NEW t \in Tasks, NEW e \in Ids, NEW m \in Matches(e), Fetched(t, e, m)
    PROVE  Polite'
  <1>1. /\ Typed /\ task[t] \in Task /\ task[t].kind = "fetch" /\ rootPath \in Roots
        /\ UNCHANGED <<disk, shown, dialog, env>>
        /\ task[t].todo \in SUBSET Ids /\ task[t].next \in SUBSET Ids
    BY TaskOf DEF Fetched, At, Args, Task
  <1>2. UNCHANGED <<store, torn, rootPath, view, editing, pending>>
    BY <1>1 DEF disk, shown, dialog
  <1>3. CASE m = None
    <2> DEFINE l == Advanced(task[t], task[t].todo \ {e}, task[t].next \cup {e})
    <2>1. Becomes(t, l) /\ Moved(t)
      BY <1>3 DEF Fetched, Moved
    <2>2. l.kind \in {"none", "fetch"} /\ l.pc \in {"idle", "search", "pause"} /\ l.root = None
      <3> DEFINE left == task[t].todo \ {e}
                 failed == task[t].next \cup {e}
      <3>1. left \in SUBSET Ids /\ failed \in SUBSET Ids
        BY <1>1
      <3> HIDE DEF left, failed
      <3> QED
        BY <1>1, <3>1, AdvancedIs DEF left, failed
    <2> HIDE DEF l
    <2>3. task'[t] = l /\ \A u \in Tasks : u # t => task'[u] = task[u]
      BY <1>1, <2>1, Turned
    <2>4. Lone' /\ OneLink' /\ \A u \in Tasks : Fit(u)'
      BY <1>1, <1>2, <2>1, <2>2, <2>3, FetchFits
    <2>5. CardsWhole'
      BY <1>1, <1>2, <2>3, CardsStayWhole
    <2> QED
      BY <1>1, <2>4, <2>5, FetchedTyped DEF Polite
  <1>4. CASE m # None
    <2> DEFINE l == [task[t] EXCEPT !.pc = "save", !.root = rootPath, !.entry = e, !.best = m]
    <2>1. Becomes(t, l) /\ pipe' = Append(pipe, t)
      BY <1>4 DEF Fetched, Sends
    <2>2. l.kind = "fetch" /\ l.pc = "save" /\ l.root = rootPath
      BY <1>1 DEF Task
    <2> HIDE DEF l
    <2>3. task'[t] = l /\ \A u \in Tasks : u # t => task'[u] = task[u]
      BY <1>1, <2>1, Turned
    <2>4. LinkFits(t)' /\ LoadFresh(t)' /\ AddIsNew(t)' /\ Placed(task'[t])
      BY <2>2, <2>3 DEF LinkFits, LoadFresh, AddIsNew, Placed
    <2>5. Lone' /\ OneLink' /\ \A u \in Tasks : Fit(u)'
      BY <1>1, <1>2, <2>1, <2>2, <2>3, <2>4, StepFits DEF Moved, Commands
    <2>6. CardsWhole'
      BY <1>1, <1>2, <2>3, CardsStayWhole
    <2> QED
      BY <1>1, <2>5, <2>6, FetchedTyped DEF Polite
  <1> QED
    BY <1>3, <1>4

(* What saves leave of the order, whatever t is then.                      *)
LEMMA SaveKeeps ==
    ASSUME Polite, NEW t \in Tasks, task[t].kind # "none", task[t].pc = "save"
    PROVE  /\ Typed /\ task[t] \in Task /\ task[t].root = rootPath /\ rootPath \in Roots
           /\ task[t].entry \in Ids /\ task[t].best \in Mals
           /\ SaveFails(task[t].root) => FilesStay
           /\ Writes(task[t].root, Saved(store[task[t].root], task[t].entry, task[t].best))
              => /\ FilesStay /\ UNCHANGED torn
                 /\ store'[rootPath] = Saved(store[rootPath], task[t].entry, task[t].best)
  <1>1. /\ Typed /\ task[t] \in Task /\ task[t].root = rootPath /\ rootPath \in Roots
        /\ task[t].entry \in Ids /\ task[t].best \in Mals
    BY TaskOf, LibraryAssumption DEF Args, Fit
  <1>2. SaveFails(task[t].root) => FilesStay
    BY <1>1, FailingStays
  <1>3. ASSUME Writes(task[t].root, Saved(store[task[t].root], task[t].entry, task[t].best))
        PROVE  /\ FilesStay /\ UNCHANGED torn
               /\ store'[rootPath] = Saved(store[rootPath], task[t].entry, task[t].best)
    BY <1>1, <1>3, Saving DEF FilesStay, Excused, Whole
  <1> QED
    BY <1>1, <1>2, <1>3

LEMMA FetchSavedPolite ==
    ASSUME Polite, NEW t \in Tasks, FetchSaved(t)
    PROVE  Polite'
  <1>1. /\ Typed /\ task[t] \in Task /\ task[t].kind = "fetch" /\ task[t].pc = "save" /\ rootPath \in Roots
        /\ UNCHANGED <<editing, pending>> /\ Moved(t)
        /\ task[t].todo \in SUBSET Ids /\ task[t].next \in SUBSET Ids /\ task[t].entry \in Ids
    BY TaskOf DEF FetchSaved, At, Args, Task, NoMore, Moved, dialog
  <1> DEFINE left == task[t].todo \ {task[t].entry}
             failed == task[t].next \cup {task[t].entry}
             l == Advanced(task[t], left, task[t].next)
             k == Advanced(task[t], left, failed)
  <1>2. left \in SUBSET Ids /\ failed \in SUBSET Ids
    BY <1>1
  <1> HIDE DEF left, failed
  <1>3. /\ l.kind \in {"none", "fetch"} /\ l.pc \in {"idle", "search", "pause"} /\ l.root = None
        /\ k.kind \in {"none", "fetch"} /\ k.pc \in {"idle", "search", "pause"} /\ k.root = None
    BY <1>1, <1>2, AdvancedIs
  <1>4. Becomes(t, l) \/ Becomes(t, k)
    BY DEF FetchSaved, left, failed
  <1>5. UNCHANGED <<rootPath, view>> /\ FilesStay
    BY <1>1, SaveKeeps DEF FetchSaved, MemoryLinked, shown
  <1> HIDE DEF l, k
  <1>6. /\ \A u \in Tasks : u # t => task'[u] = task[u]
        /\ task'[t].kind \in {"none", "fetch"} /\ task'[t].pc \in {"idle", "search", "pause"}
        /\ task'[t].root = None
    BY <1>1, <1>3, <1>4, Turned
  <1>7. Lone' /\ OneLink' /\ \A u \in Tasks : Fit(u)'
    BY <1>1, <1>5, <1>6, FetchFits
  <1>8. CardsWhole'
    BY <1>1, <1>5, <1>6, CardsStayWhole
  <1> QED
    BY <1>1, <1>7, <1>8, FetchSavedTyped DEF Polite

LEMMA NextPassPolite ==
    ASSUME Polite, NEW t \in Tasks, NextPassBegins(t)
    PROVE  Polite'
  <1> DEFINE l == [task[t] EXCEPT !.pc = "search", !.pass = @ + 1]
  <1>1. /\ Typed /\ task[t] \in Task /\ task[t].kind = "fetch" /\ task[t].pc = "pause"
        /\ UNCHANGED <<store, torn, rootPath, view, editing, pending, pipe>>
        /\ Ends(t) \/ Becomes(t, l)
        /\ task[t].root \in {None, rootPath}
    BY TaskOf DEF NextPassBegins, At, disk, shown, dialog, Fit
  <1>2. l.kind = "fetch" /\ l.pc = "search" /\ l.root = task[t].root
    BY <1>1 DEF Task
  <1>3. Moved(t)
    BY <1>1 DEF Moved
  <1> HIDE DEF l
  <1>4. CASE Ends(t)
    <2>1. Becomes(t, NoTask)
      BY <1>4 DEF Ends, Becomes
    <2>2. \A u \in Tasks : u # t => task'[u] = task[u]
      BY <1>1, <2>1, Turned
    <2> QED
      BY <1>1, <1>3, <1>4, <2>2, EndFits, CardsStayWhole, NextPassTyped DEF Polite
  <1>5. CASE Becomes(t, l)
    <2>1. task'[t] = l /\ \A u \in Tasks : u # t => task'[u] = task[u]
      BY <1>1, <1>5, Turned
    <2>2. /\ LinkFits(t)' /\ LoadFresh(t)' /\ AddIsNew(t)' /\ Placed(task'[t])
          /\ task'[t].pc \notin Commanding
      BY <1>2, <2>1 DEF LinkFits, LoadFresh, AddIsNew, Placed, Commanding
    <2>3. Lone' /\ OneLink' /\ \A u \in Tasks : Fit(u)'
      BY <1>1, <1>2, <1>3, <2>1, <2>2, StepFits
    <2> QED
      BY <1>1, <2>1, <2>3, CardsStayWhole, NextPassTyped DEF Polite
  <1> QED
    BY <1>1, <1>4, <1>5

(* A step of t that changes neither what is shown nor the files that parse *)
(* nor the dialog, and leaves it what it was, or ends it.                  *)
LEMMA GoesOn ==
    ASSUME Polite, NEW t \in Tasks, task[t].kind \in {"refetch", "link", "add"}, Typed', NEW l,
           Becomes(t, l), Moved(t), UNCHANGED <<rootPath, view, editing, pending>>,
           FilesStay \/ UNCHANGED <<store, torn>>,
           l.kind = task[t].kind, l.root \in {None, rootPath},
           l.pc \in Commanding => Commands(t),
           LinkFits(t)', LoadFresh(t)', AddIsNew(t)', Placed(l)
    PROVE  Polite'
  <1>1. task'[t] = l /\ \A u \in Tasks : u # t => task'[u] = task[u]
    BY Turned DEF Polite
  <1>2. Lone' /\ OneLink' /\ \A u \in Tasks : Fit(u)'
    BY <1>1, StepFits
  <1>3. CardsWhole'
    BY <1>1, CardsStayWhole
  <1> QED
    BY <1>2, <1>3 DEF Polite

LEMMA GoesNoFurther ==
    ASSUME Polite, NEW t \in Tasks, task[t].kind \in {"refetch", "link", "add"}, Typed', Ends(t),
           Moved(t), UNCHANGED <<rootPath, view>>,
           FilesStay \/ UNCHANGED <<store, torn>>,
           UNCHANGED <<editing, pending>> \/ (\A u \in Tasks : u # t => task[u].kind # "link")
    PROVE  Polite'
  <1>1. \A u \in Tasks : u # t => task'[u] = task[u]
    BY DEF Ends, Polite, Typed, TypeOK
  <1> QED
    BY <1>1, EndFits, CardsStayWhole DEF Polite

LEMMA RefetchedPolite ==
    ASSUME Polite, NEW t \in Tasks, NEW m \in Mals \cup {None}, Refetched(t, m)
    PROVE  Polite'
  <1> DEFINE l == [task[t] EXCEPT !.pc = "delete", !.best = m]
  <1>1. /\ UNCHANGED <<store, torn, rootPath, view, editing, pending>>
        /\ \/ Ends(t) /\ pipe' = pipe
           \/ Becomes(t, l) /\ pipe' = Append(pipe, t)
        /\ task[t].kind = "refetch" /\ Typed /\ task[t] \in Task /\ Fit(t)
    BY TaskOf DEF Refetched, At, Sends, disk, shown, dialog
  <1>2. Typed' /\ Moved(t)
    BY <1>1, RefetchedTyped DEF Moved
  <1>3. l.kind = "refetch" /\ l.pc = "delete" /\ l.root \in {None, rootPath}
    BY <1>1 DEF Task, Fit
  <1> HIDE DEF l
  <1>4. CASE Ends(t)
    BY <1>1, <1>2, <1>4, GoesNoFurther
  <1>5. CASE Becomes(t, l) /\ pipe' = Append(pipe, t)
    <2>1. task'[t] = l
      BY <1>1, <1>5, Turned
    <2>2. LinkFits(t)' /\ LoadFresh(t)' /\ AddIsNew(t)' /\ Placed(l) /\ Commands(t)
      BY <1>3, <1>5, <2>1 DEF LinkFits, LoadFresh, AddIsNew, Placed, Commands
    <2> QED
      BY <1>1, <1>2, <1>3, <1>5, <2>2, GoesOn
  <1> QED
    BY <1>1, <1>4, <1>5

LEMMA RefetchDeletedPolite ==
    ASSUME Polite, NEW t \in Tasks, RefetchDeleted(t)
    PROVE  Polite'
  <1> DEFINE l == [task[t] EXCEPT !.pc = "save", !.root = rootPath]
  <1>1. /\ UNCHANGED <<store, torn, rootPath, view, editing, pending>>
        /\ Becomes(t, l) /\ pipe' = Append(Tail(pipe), t) /\ Answers(t)
        /\ task[t].kind = "refetch" /\ Typed /\ task[t] \in Task
    BY TaskOf DEF RefetchDeleted, At, SendsNext, disk, shown, dialog
  <1>2. Typed' /\ Moved(t) /\ Commands(t)
    BY <1>1, RefetchDeletedTyped DEF Moved, Commands
  <1>3. l.kind = "refetch" /\ l.pc = "save" /\ l.root = rootPath
    BY <1>1 DEF Task
  <1> HIDE DEF l
  <1>4. task'[t] = l
    BY <1>1, Turned
  <1>5. LinkFits(t)' /\ LoadFresh(t)' /\ AddIsNew(t)' /\ Placed(l)
    BY <1>3, <1>4 DEF LinkFits, LoadFresh, AddIsNew, Placed
  <1> QED
    BY <1>1, <1>2, <1>3, <1>5, GoesOn

LEMMA RefetchSavedPolite ==
    ASSUME Polite, NEW t \in Tasks, RefetchSaved(t)
    PROVE  Polite'
  <1>1. /\ UNCHANGED <<editing, pending>> /\ Ends(t) /\ pipe' = Tail(pipe) /\ Answers(t)
        /\ task[t].kind = "refetch" /\ task[t].pc = "save"
    BY DEF RefetchSaved, At, NoMore, dialog
  <1>2. Typed' /\ Moved(t)
    BY <1>1, RefetchSavedTyped DEF Moved, Polite
  <1>3. UNCHANGED <<rootPath, view>> /\ FilesStay
    BY <1>1, SaveKeeps DEF RefetchSaved, MemoryLinked, shown
  <1> QED
    BY <1>1, <1>2, <1>3, GoesNoFurther

LEMMA LinkDeletedPolite ==
    ASSUME Polite, NEW t \in Tasks, LinkDeleted(t)
    PROVE  Polite'
  <1> DEFINE l == [task[t] EXCEPT !.pc = "save", !.root = rootPath,
                                  !.entry = editing, !.best = pending]
  <1>1. /\ UNCHANGED <<store, torn, rootPath, view, editing, pending>> /\ Answers(t)
        /\ \/ Ends(t) /\ pipe' = Tail(pipe)
           \/ /\ Becomes(t, l) /\ pipe' = Append(Tail(pipe), t)
              /\ pending # None /\ editing # None
        /\ task[t].kind = "link" /\ Typed /\ task[t] \in Task
    BY TaskOf DEF LinkDeleted, At, SendsNext, NoMore, disk, shown, dialog
  <1>2. Typed' /\ Moved(t)
    BY <1>1, LinkDeletedTyped DEF Moved
  <1>3. l.kind = "link" /\ l.pc = "save" /\ l.root = rootPath /\ l.entry = editing /\ l.best = pending
    BY <1>1 DEF Task
  <1> HIDE DEF l
  <1>4. CASE Ends(t)
    BY <1>1, <1>2, <1>4, GoesNoFurther
  <1>5. CASE Becomes(t, l) /\ pipe' = Append(Tail(pipe), t) /\ pending # None /\ editing # None
    <2>1. task'[t] = l
      BY <1>1, <1>5, Turned
    <2>2. LinkFits(t)' /\ LoadFresh(t)' /\ AddIsNew(t)' /\ Placed(l) /\ Commands(t)
      BY <1>1, <1>3, <1>5, <2>1 DEF LinkFits, LoadFresh, AddIsNew, Placed, Commands
    <2> QED
      BY <1>1, <1>2, <1>3, <1>5, <2>2, GoesOn
  <1> QED
    BY <1>1, <1>4, <1>5

LEMMA LinkSavedPolite ==
    ASSUME Polite, NEW t \in Tasks, LinkSaved(t)
    PROVE  Polite'
  <1>1. /\ Ends(t) /\ pipe' = Tail(pipe) /\ Answers(t)
        /\ task[t].kind = "link" /\ task[t].pc = "save"
    BY DEF LinkSaved, At, NoMore
  <1>2. Typed' /\ Moved(t)
    BY <1>1, LinkSavedTyped DEF Moved, Polite
  <1>3. UNCHANGED <<rootPath, view>> /\ FilesStay
    BY <1>1, SaveKeeps DEF LinkSaved, MemoryLinked, shown
  <1>4. \A u \in Tasks : u # t => task[u].kind # "link"
    BY <1>1 DEF Polite, OneLink
  <1> QED
    BY <1>1, <1>2, <1>3, <1>4, GoesNoFurther

LEMMA CreatedPolite ==
    ASSUME Polite, NEW t \in Tasks, Created(t)
    PROVE  Polite'
  <1> DEFINE l == task[t]
             k == [l EXCEPT !.pc = IF pending = None THEN "load" ELSE "save",
                            !.root = rootPath, !.best = pending, !.found = {}]
  <1>1. /\ UNCHANGED <<store, torn, rootPath, view, entries, editing, pending>> /\ Answers(t)
        /\ l.kind = "add" /\ l.pc = "create" /\ Typed /\ l \in Task /\ Fit(t)
        /\ \/ Ends(t) /\ pipe' = Tail(pipe)
           \/ Becomes(t, k) /\ pipe' = Append(Tail(pipe), t)
    BY TaskOf DEF Created, At, NoMore, SendsNext, shown, dialog
  <1>2. Typed' /\ Moved(t)
    BY <1>1, CreatedTyped DEF Moved
  <1>3. k.kind = "add" /\ k.pc \in {"load", "save"} /\ k.root = rootPath /\ k.entry = l.entry
    BY <1>1 DEF Task
  <1> HIDE DEF k
  <1>4. CASE Ends(t)
    BY <1>1, <1>2, <1>4, GoesNoFurther
  <1>5. CASE Becomes(t, k) /\ pipe' = Append(Tail(pipe), t)
    <2>1. task'[t] = k
      BY <1>1, <1>5, Turned
    <2>2. LinkFits(t)' /\ LoadFresh(t)' /\ Placed(k) /\ Commands(t)
      BY <1>1, <1>3, <1>5, <2>1 DEF LinkFits, LoadFresh, Placed, Commands
    <2>3. AddIsNew(t)'
      BY <1>1, <1>3, <2>1 DEF AddIsNew, Fit
    <2> QED
      BY <1>1, <1>2, <1>3, <1>5, <2>2, <2>3, GoesOn
  <1> QED
    BY <1>1, <1>4, <1>5

LEMMA AddSavedPolite ==
    ASSUME Polite, NEW t \in Tasks, AddSaved(t)
    PROVE  Polite'
  <1> DEFINE l == [task[t] EXCEPT !.pc = "load", !.root = rootPath]
  <1>1. /\ UNCHANGED <<rootPath, view, editing, pending>> /\ Answers(t)
        /\ task[t].kind = "add" /\ task[t].pc = "save" /\ Typed /\ task[t] \in Task
        /\ \/ Becomes(t, l) /\ pipe' = Append(Tail(pipe), t)
           \/ Ends(t) /\ pipe' = Tail(pipe)
    BY TaskOf DEF AddSaved, At, NoMore, SendsNext, shown, dialog
  <1>2. Typed' /\ Moved(t)
    BY <1>1, AddSavedTyped DEF Moved
  <1>3. l.kind = "add" /\ l.pc = "load" /\ l.root = rootPath
    BY <1>1 DEF Task
  <1> HIDE DEF l
  <1>4. FilesStay
    BY <1>1, SaveKeeps DEF AddSaved
  <1>5. CASE Ends(t)
    BY <1>1, <1>2, <1>4, <1>5, GoesNoFurther
  <1>6. CASE Becomes(t, l) /\ pipe' = Append(Tail(pipe), t)
    <2>1. task'[t] = l
      BY <1>1, <1>6, Turned
    <2>2. LinkFits(t)' /\ LoadFresh(t)' /\ AddIsNew(t)' /\ Placed(l) /\ Commands(t)
      BY <1>1, <1>3, <1>6, <2>1 DEF LinkFits, LoadFresh, AddIsNew, Placed, Commands
    <2> QED
      BY <1>1, <1>2, <1>3, <1>4, <1>6, <2>2, GoesOn
  <1> QED
    BY <1>1, <1>5, <1>6

LEMMA AddLoadedPolite ==
    ASSUME Polite, NEW t \in Tasks, AddLoaded(t)
    PROVE  Polite'
  <1> DEFINE r == task[t].root
             l == [NoTask EXCEPT !.kind = "add", !.pc = "tick",
                                 !.found = folders[r], !.raw = LinksOf(store[r])]
  <1>1. /\ UNCHANGED <<store, rootPath, view, editing, pending>> /\ Answers(t) /\ pipe' = Tail(pipe)
        /\ task[t].kind = "add" /\ task[t].pc = "load" /\ Typed /\ r \in Roots /\ r = rootPath
        /\ \/ Ends(t) /\ UNCHANGED torn
           \/ store[r] # Broken /\ Becomes(t, l) /\ Reads(r)
    BY TaskOf, LibraryAssumption DEF AddLoaded, At, Args, NoMore, Reads, disk, shown, dialog, Fit
  <1>2. Typed' /\ Moved(t)
    BY <1>1, AddLoadedTyped DEF Moved
  <1>3. l.kind = "add" /\ l.pc = "tick" /\ l.root = None /\ l.raw = LinksOf(store[r])
    BY <1>1, NoTaskIs DEF Task
  <1> HIDE DEF l
  <1>4. CASE Ends(t) /\ UNCHANGED torn
    BY <1>1, <1>2, <1>4, GoesNoFurther
  <1>5. CASE store[r] # Broken /\ Becomes(t, l) /\ Reads(r)
    <2>1. task'[t] = l
      BY <1>1, <1>5, Turned
    <2>2. LinkFits(t)' /\ AddIsNew(t)' /\ Placed(l) /\ l.pc \notin Commanding
      BY <1>3, <2>1 DEF LinkFits, AddIsNew, Placed, Commanding
    <2>3. LoadFresh(t)'
      BY <1>1, <1>3, <1>5, <2>1 DEF LoadFresh
    <2>4. FilesStay
      BY <1>1, <1>5, ReadingStays
    <2> QED
      BY <1>1, <1>2, <1>3, <1>5, <2>2, <2>3, <2>4, GoesOn
  <1> QED
    BY <1>1, <1>4, <1>5

LEMMA AddShownPolite ==
    ASSUME Polite, NEW t \in Tasks, AddShown(t)
    PROVE  Polite'
  <1>1. /\ UNCHANGED <<store, torn, view, pipe>> /\ Typed
        /\ ShowLibrary(t, task[t].found, Known(task[t].raw, task[t].found))
        /\ rootPath \in Roots /\ task[t].found \in SUBSET Ids /\ task[t].kind = "add"
        /\ Known(task[t].raw, task[t].found) \in Links
    BY TaskOf, KnownIs DEF AddShown, At, Args, Task, disk
  <1>2. /\ rootPath' = rootPath
        /\ task'[t].kind \in {"none", "fetch"} /\ task'[t].root = None
        /\ task'[t].pc \in {"idle", "search", "pause"}
        /\ \A u \in Tasks : u # t => task'[u] = task[u]
    BY <1>1, ShowLibraryTyped
  <1>3. \A u \in Tasks : u # t => task[u].kind # "link"
    BY <1>1 DEF Polite, Lone
  <1>4. Lone' /\ OneLink' /\ \A u \in Tasks : Fit(u)'
    BY <1>1, <1>2, <1>3, FetchFits DEF Moved
  <1>5. CardsWhole'
    BY <1>1, <1>2, CardsStayWhole
  <1> QED
    BY <1>1, <1>4, <1>5, AddShownTyped DEF Polite

LEMMA StepPolite ==
    ASSUME Polite, NEW t \in Tasks, Step(t)
    PROVE  Polite'
  BY LoadedPolite, HasMigratedPolite, FetchedPolite, FetchSavedPolite, NextPassPolite,
     RefetchedPolite, RefetchDeletedPolite, RefetchSavedPolite, LinkDeletedPolite, LinkSavedPolite,
     CreatedPolite, AddSavedPolite, AddLoadedPolite, AddShownPolite DEF Step

-----------------------------------------------------------------------------
(* What the user begins, politely.                                         *)

LEMMA BeginsPolite ==
    ASSUME Polite, NEW t \in Tasks, Idle(t), NEW l, Becomes(t, l), Typed',
           l.kind \in {"load", "add"} => Quiet,
           l.kind \in {"fetch", "link", "refetch"} => ~Under({"load", "add"}),
           l.kind = "link" => ~Under({"link"}),
           rootPath' = rootPath \/ Quiet,
           UNCHANGED <<store, torn, folders, view, entries, editing, pending>>,
           pipe' = pipe \/ pipe' = Append(pipe, t),
           l.root \in {None, rootPath'}, l.pc \in Commanding => pipe' = Append(pipe, t),
           LinkFits(t)', LoadFresh(t)', AddIsNew(t)', Placed(l),
           l.kind # "none", view = "cards" /\ rootPath' # rootPath => l.kind = "load"
    PROVE  Polite'
  <1>1. /\ Typed /\ task'[t] = l /\ \A u \in Tasks : u # t => task'[u] = task[u]
        /\ task[t] = NoTask
    BY Turned DEF Polite, Idle
  <1>2. \A u \in Tasks : Quiet => task[u] = NoTask
    BY DEF Quiet, Idle
  <1>3. l.kind \in {"load", "fetch", "add", "link", "refetch"}
    BY <1>1 DEF Typed, TypeOK, Task
  <1>4. Lone' /\ OneLink'
    <2>1. Lone'
      <3>1. CASE l.kind \in {"load", "add"}
        BY <1>1, <1>2, <3>1, NoTaskIs DEF Lone
      <3>2. CASE l.kind \notin {"load", "add"}
        BY <1>1, <1>3, <3>2 DEF Lone, Under
      <3> QED
        BY <3>1, <3>2
    <2>2. OneLink'
      BY <1>1, NoTaskIs DEF Polite, OneLink, Under
    <2> QED
      BY <2>1, <2>2
  <1>5. Moved(t) /\ (pipe' = Append(pipe, t) => Commands(t))
    BY DEF Moved, Commands
  <1>6. Fit(t)'
    BY <1>1, <1>5, SentStays DEF Fit
  <1>7. ASSUME NEW u \in Tasks, u # t PROVE Fit(u)'
    <2>1. CASE Quiet
      <3>1. task'[u] = NoTask
        BY <1>1, <1>2, <1>7, <2>1
      <3> QED
        BY <3>1, NoTaskIs DEF Fit, LinkFits, LoadFresh, AddIsNew, Placed, Commanding
    <2>2. CASE ~Quiet
      <3>1. Fit(u) /\ task'[u] = task[u] /\ rootPath' = rootPath
        BY <1>1, <1>7, <2>2 DEF Polite
      <3>2. LinkFits(u)' /\ LoadFresh(u)' /\ AddIsNew(u)'
        BY <3>1 DEF Fit, LinkFits, LoadFresh, AddIsNew
      <3>3. task'[u].pc \in Commanding => Sent(u)'
        BY <1>1, <1>5, <1>7, <3>1, SentStays DEF Fit
      <3> QED
        BY <3>1, <3>2, <3>3 DEF Fit
    <2> QED
      BY <2>1, <2>2
  <1>8. CardsWhole'
    <2>1. CASE l.kind = "load"
      BY <1>1, <2>1 DEF CardsWhole, Under
    <2>2. CASE l.kind # "load"
      <3>1. ~Under({"load"})' => ~Under({"load"})
        BY <1>1, NoTaskIs DEF Under
      <3> QED
        BY <2>2, <3>1 DEF CardsWhole, Polite, Excused, Whole
    <2> QED
      BY <2>1, <2>2
  <1> QED
    BY <1>4, <1>6, <1>7, <1>8 DEF Polite

LEMMA OpensPolite ==
    ASSUME Polite, NEW t \in Tasks, NEW r \in Roots, OpenFolder(t, r), Quiet
    PROVE  Polite'
  <1> DEFINE l == [NoTask EXCEPT !.kind = "load", !.pc = "load", !.root = r]
  <1>1. /\ Idle(t) /\ Becomes(t, l) /\ rootPath' = r /\ pipe' = Append(pipe, t)
        /\ UNCHANGED <<folders, store, torn, view, entries, editing, pending>>
    BY DEF OpenFolder, Sends, dialog, Free
  <1>2. l.kind = "load" /\ l.pc = "load" /\ l.root = r
    BY NoTaskIs DEF Task
  <1> HIDE DEF l
  <1>3. task'[t] = l
    BY <1>1, Turned DEF Polite
  <1>4. LinkFits(t)' /\ LoadFresh(t)' /\ AddIsNew(t)' /\ Placed(l)
    BY <1>2, <1>3 DEF LinkFits, LoadFresh, AddIsNew, Placed
  <1>5. Typed'
    BY OpenFolderTyped DEF Polite
  <1> QED
    BY <1>1, <1>2, <1>4, <1>5, BeginsPolite

LEMMA AddNewPolite ==
    ASSUME Polite, NEW t \in Tasks, NEW n \in Ids \ entries, NEW x \in SUBSET Ids,
           AddNew(t, n, x), Quiet
    PROVE  Polite'
  <1> DEFINE l == [NoTask EXCEPT !.kind = "add", !.pc = "create", !.root = rootPath,
                                 !.entry = n, !.found = x]
  <1>1. /\ Idle(t) /\ Becomes(t, l) /\ pipe' = Append(pipe, t)
        /\ UNCHANGED <<folders, store, torn, rootPath, view, entries, editing, pending>>
    BY DEF AddNew, Sends, disk, shown, dialog, Free
  <1>2. l.kind = "add" /\ l.pc = "create" /\ l.root = rootPath /\ l.entry = n
    BY NoTaskIs DEF Task
  <1> HIDE DEF l
  <1>3. task'[t] = l
    BY <1>1, Turned DEF Polite
  <1>4. LinkFits(t)' /\ LoadFresh(t)' /\ AddIsNew(t)' /\ Placed(l)
    BY <1>1, <1>2, <1>3 DEF LinkFits, LoadFresh, AddIsNew, Placed
  <1>5. Typed'
    BY AddNewTyped DEF Polite
  <1> QED
    BY <1>1, <1>2, <1>4, <1>5, BeginsPolite

LEMMA RefetchPolite ==
    ASSUME Polite, NEW t \in Tasks, NEW e \in Ids, Refetch(t, e), ~Under({"load", "add"})
    PROVE  Polite'
  <1> DEFINE l == [NoTask EXCEPT !.kind = "refetch", !.pc = "search", !.entry = e]
  <1>1. /\ Idle(t) /\ Becomes(t, l)
        /\ UNCHANGED <<folders, store, torn, rootPath, view, entries, editing, pending, pipe>>
    BY DEF Refetch, disk, shown, dialog, Free
  <1>2. l.kind = "refetch" /\ l.pc = "search" /\ l.root = None
    BY NoTaskIs DEF Task
  <1> HIDE DEF l
  <1>3. task'[t] = l
    BY <1>1, Turned DEF Polite
  <1>4. LinkFits(t)' /\ LoadFresh(t)' /\ AddIsNew(t)' /\ Placed(l) /\ l.pc \notin Commanding
    BY <1>2, <1>3 DEF LinkFits, LoadFresh, AddIsNew, Placed, Commanding
  <1>5. Typed'
    BY RefetchTyped DEF Polite
  <1> QED
    BY <1>1, <1>2, <1>4, <1>5, BeginsPolite

LEMMA SaveLinkPolite ==
    ASSUME Polite, NEW t \in Tasks, SaveLink(t), ~Under({"load", "add", "link"})
    PROVE  Polite'
  <1> DEFINE l == [NoTask EXCEPT !.kind = "link", !.pc = "delete"]
  <1>1. /\ Idle(t) /\ Becomes(t, l) /\ pipe' = Append(pipe, t) /\ pending # None /\ editing # None
        /\ UNCHANGED <<folders, store, torn, rootPath, view, entries, editing, pending>>
    BY DEF SaveLink, Sends, disk, shown, dialog, Free
  <1>2. l.kind = "link" /\ l.pc = "delete" /\ l.root = None
    BY NoTaskIs DEF Task
  <1> HIDE DEF l
  <1>3. task'[t] = l
    BY <1>1, Turned DEF Polite
  <1>4. LinkFits(t)' /\ LoadFresh(t)' /\ AddIsNew(t)' /\ Placed(l)
    BY <1>1, <1>2, <1>3 DEF LinkFits, LoadFresh, AddIsNew, Placed
  <1>5. Typed'
    BY SaveLinkTyped DEF Polite
  <1>6. ~Under({"load", "add"}) /\ ~Under({"link"})
    BY DEF Under
  <1> QED
    BY <1>1, <1>2, <1>4, <1>5, <1>6, BeginsPolite

(* The dialog, while no link is being made.                                *)
LEMMA DialogPolite ==
    ASSUME Polite, Dialog, ~Under({"load", "add", "link"})
    PROVE  Polite'
  <1>1. UNCHANGED <<folders, store, torn, rootPath, view, entries, task, pipe>>
    BY DEF Dialog, OpenEdit, OpenAdd, Choose, CloseModal, disk, shown
  <1>2. \A u \in Tasks : task[u].kind \notin {"load", "add", "link"}
    BY DEF Under
  <1>3. ASSUME NEW u \in Tasks PROVE Fit(u)'
    <2>1. Fit(u) /\ task'[u] = task[u]
      BY <1>1 DEF Polite
    <2> QED
      BY <1>1, <1>2, <2>1 DEF Fit, LinkFits, LoadFresh, AddIsNew, Placed, Sent
  <1>4. Lone' /\ OneLink' /\ CardsWhole'
    BY <1>1 DEF Polite, Lone, OneLink, CardsWhole, Under, Excused, Whole
  <1> QED
    BY <1>3, <1>4, DialogTyped DEF Polite

LEMMA MovePolite ==
    ASSUME Polite, NEW r \in Roots, NEW x \in Ids, NEW y \in Ids, Move(r, x, y)
    PROVE  Polite'
  <1>1. UNCHANGED <<store, torn, rootPath, view, entries, editing, pending, task, pipe>> /\ pipe = <<>>
    BY DEF Move, shown, dialog
  <1>2. ASSUME NEW u \in Tasks PROVE Fit(u)'
    <2>1. Fit(u) /\ task'[u] = task[u]
      BY <1>1 DEF Polite
    <2>2. ~Sent(u)
      BY <1>1 DEF Sent
    <2>3. task[u].pc # "migrate"
      BY <2>1, <2>2 DEF Fit, Commanding
    <2> QED
      BY <1>1, <2>1, <2>3 DEF Fit, LinkFits, LoadFresh, AddIsNew, Placed, Sent
  <1>3. Lone' /\ OneLink' /\ CardsWhole'
    BY <1>1 DEF Polite, Lone, OneLink, CardsWhole, Under, Excused, Whole
  <1> QED
    BY <1>2, <1>3, MoveTyped DEF Polite

LEMMA RestartPolite ==
    ASSUME Polite, NEW t \in Tasks, Restart(t)
    PROVE  Polite'
  <1> DEFINE l == [NoTask EXCEPT !.kind = "load", !.pc = "load", !.root = lastPath]
  <1>1. /\ rootPath' = lastPath /\ view' = "welcome"
        /\ \/ task' = [u \in Tasks |-> NoTask]
           \/ task' = [[u \in Tasks |-> NoTask] EXCEPT ![t] = l] /\ pipe' = <<t>>
    BY DEF Restart
  <1>2. l.kind = "load" /\ l.pc = "load" /\ l.root = lastPath
    BY NoTaskIs DEF Task
  <1> HIDE DEF l
  <1>3. \A u \in Tasks : task'[u] = NoTask \/ (task'[u] = l /\ u = t /\ pipe' = <<t>>)
    BY <1>1
  <1>4. ASSUME NEW u \in Tasks PROVE Fit(u)'
    <2>1. CASE task'[u] = NoTask
      BY <2>1, NoTaskIs DEF Fit, LinkFits, LoadFresh, AddIsNew, Placed, Commanding
    <2>2. CASE task'[u] = l /\ u = t /\ pipe' = <<t>>
      <3>1. Sent(u)'
        BY <2>2 DEF Sent
      <3> QED
        BY <1>1, <1>2, <2>2, <3>1 DEF Fit, LinkFits, LoadFresh, AddIsNew, Placed, Commanding
    <2> QED
      BY <1>3, <2>1, <2>2
  <1>5. Lone' /\ OneLink'
    BY <1>2, <1>3, NoTaskIs DEF Lone, OneLink
  <1>6. CardsWhole'
    BY <1>1 DEF CardsWhole
  <1> QED
    BY <1>4, <1>5, <1>6, RestartTyped DEF Polite

LEMMA NextPolite == Polite /\ [PoliteNext]_vars => Polite'
  <1> SUFFICES ASSUME Polite, [PoliteNext]_vars PROVE Polite'
    OBVIOUS
  <1>1. CASE \E t \in Tasks : Step(t)
    BY <1>1, StepPolite
  <1>2. CASE PoliteUser
    <2>1. ASSUME NEW t \in Tasks, Quiet, Opens(t) PROVE Polite'
      BY <2>1, OpensPolite DEF Opens
    <2>2. ASSUME NEW t \in Tasks, Quiet, Adds(t, Ids \ entries) PROVE Polite'
      <3>1. PICK n \in Ids \ entries, x \in {{}} \cup {{e} : e \in Ids} : AddNew(t, n, x)
        BY <2>2 DEF Adds
      <3>2. x \in SUBSET Ids
        BY <3>1
      <3> QED
        BY <2>2, <3>1, <3>2, AddNewPolite
    <2> QED
      BY <1>2, <2>1, <2>2, RefetchPolite, SaveLinkPolite, DialogPolite DEF PoliteUser
  <1>3. CASE Outside
    <2>1. (CHOOSE t \in Tasks : TRUE) \in Tasks
      BY LibraryAssumption
    <2> QED
      BY <1>3, <2>1, MovePolite, RestartPolite DEF Outside
  <1>4. CASE UNCHANGED vars
    <2>1. /\ UNCHANGED <<folders, store, torn, rootPath, view, entries, editing, pending, task, pipe>>
          /\ Typed'
      BY <1>4, NextTyped DEF Polite, vars, disk, shown, dialog
    <2> QED
      BY <2>1 DEF Polite, Lone, OneLink, CardsWhole, Under, Excused, Whole, Fit, LinkFits, LoadFresh,
                  AddIsNew, Placed, Sent
  <1> QED
    BY <1>1, <1>2, <1>3, <1>4 DEF PoliteNext

LEMMA InitPolite == Init => Polite
  <1> SUFFICES ASSUME Init PROVE Polite
    OBVIOUS
  <1>1. \A t \in Tasks : task[t] = NoTask
    BY DEF Init
  <1>2. \A t \in Tasks : Fit(t)
    BY <1>1, NoTaskIs DEF Fit, LinkFits, LoadFresh, AddIsNew, Placed, Commanding
  <1>3. Lone /\ OneLink /\ CardsWhole
    BY <1>1, NoTaskIs DEF Lone, OneLink, CardsWhole, Init
  <1> QED
    BY <1>2, <1>3, InitTyped DEF Polite

(* With a user who waits, loads and additions run alone, every command is  *)
(* about the folder that is open, the link being saved is the one of the   *)
(* dialog, and what was loaded is what the disk holds when it is shown.    *)
THEOREM PoliteOrder == PoliteSpec => []Polite
  BY InitPolite, NextPolite, PTL DEF PoliteSpec

-----------------------------------------------------------------------------
(* The cards and the mapping file.                                         *)

(* What is shown is about to be loaded anew.                               *)
Reloading == Under({"load"}) \/ \E t \in Tasks : task[t].pc = "tick"

(* What a card shows is what the file names, as far as it could be written. *)
ShownHolds ==
    view = "cards" /\ ~Reloading /\ Whole(rootPath) =>
        \A e \in entries : Single(store[rootPath], e) => Told(e)

LEMMA StillShown ==
    ASSUME Typed, NEW t \in Tasks, task[t].kind # "load", task[t].pc # "tick",
           Ends(t) \/ \E l : Becomes(t, l)
    PROVE  ~Reloading' => ~Reloading
  <1>1. \A u \in Tasks : u # t => task'[u] = task[u]
    BY Turned DEF Ends, Typed, TypeOK
  <1> QED
    BY <1>1 DEF Reloading, Under

(* Steps of t, which loads nothing, that change neither cards nor files.   *)
LEMMA ShownStays ==
    ASSUME Typed, ShownHolds, NEW t \in Tasks, task[t].kind # "load", task[t].pc # "tick",
           Ends(t) \/ \E l : Becomes(t, l),
           UNCHANGED <<store, torn, rootPath, entries, mappings, view>>
    PROVE  ShownHolds'
  BY StillShown DEF ShownHolds, Told, Whole

(* A save that fails.                                                      *)
LEMMA ShownInSpite ==
    ASSUME Typed, ShownHolds, NEW t \in Tasks, task[t].kind # "load", task[t].pc # "tick",
           Ends(t) \/ \E l : Becomes(t, l),
           UNCHANGED <<rootPath, entries, mappings, view>>,
           rootPath \in Roots, SaveFails(rootPath)
    PROVE  ShownHolds'
  <1>1. CASE UNCHANGED disk
    BY <1>1, ShownStays DEF disk
  <1>2. CASE NotWritten(rootPath, Broken)
    BY <1>2, Failing DEF ShownHolds, Whole
  <1> QED
    BY <1>1, <1>2 DEF SaveFails

(* A save, of a card that then shows the same link or of no card.          *)
LEMMA ShownBySave ==
    ASSUME Polite, ShownHolds, NEW t \in Tasks, task[t].kind \notin {"none", "load"},
           task[t].pc = "save", Ends(t) \/ \E l : Becomes(t, l),
           UNCHANGED <<rootPath, entries, view>>,
           Writes(task[t].root, Saved(store[task[t].root], task[t].entry, task[t].best)),
           \/ mappings' = Linked(task[t].entry, task[t].best)
           \/ task[t].entry \notin entries /\ UNCHANGED mappings
    PROVE  ShownHolds'
  <1> DEFINE s == store[rootPath]
             e == task[t].entry
             m == task[t].best
  <1>1. /\ Typed /\ rootPath \in Roots /\ e \in Ids /\ m \in Mals /\ UNCHANGED torn
        /\ store'[rootPath] = Saved(s, e, m)
    BY SaveKeeps
  <1>2. ~Reloading' => ~Reloading
    BY <1>1, StillShown
  <1>3. ~Reloading => ~Under({"load"})
    BY DEF Reloading
  <1>4. s = Broken \/ s \in Seq(Record)
    BY <1>1 DEF Typed, TypeOK
  <1>5. entries \in SUBSET Ids /\ mappings \in Links
    BY <1>1 DEF Typed, TypeOK
  <1> HIDE DEF s, e, m
  <1>6. /\ Link(Saved(s, e, m), e) = m
        /\ s # Broken => \A f : f # e => /\ Of(Saved(s, e, m), f) = Of(s, f)
                                         /\ Link(Saved(s, e, m), f) = Link(s, f)
        /\ s = Broken => \A f : f # e => Link(Saved(s, e, m), f) = None
    <2>1. e \in Ids /\ m \in Mals
      BY <1>1
    <2>2. CASE s = Broken
      BY <2>1, <2>2, SavedIs
    <2>3. CASE s \in Seq(Record)
      BY <2>1, <2>3, SavedIs
    <2> QED
      BY <1>4, <2>2, <2>3
  <1>7. ASSUME view = "cards", ~Reloading', NEW f \in entries, Single(Saved(s, e, m), f)
        PROVE  \/ mappings'[f] = Link(Saved(s, e, m), f)
               \/ Link(Saved(s, e, m), f) = None /\ rootPath \in torn
    <2>1. CASE f = e
      <3>1. mappings' = Linked(e, m) /\ f \in Ids
        BY <1>5, <1>7, <2>1 DEF e, m
      <3> QED
        BY <1>5, <1>6, <2>1, <3>1 DEF Linked, Links
    <2>2. CASE f # e /\ s = Broken
      <3>1. rootPath \in torn
        BY <1>2, <1>3, <1>7, <2>2 DEF Polite, CardsWhole, Excused, Whole, s
      <3> QED
        BY <1>6, <2>2, <3>1
    <2>3. CASE f # e /\ s # Broken
      <3>1. Single(s, f) /\ Link(Saved(s, e, m), f) = Link(s, f)
        BY <1>6, <1>7, <2>3 DEF Single
      <3>2. mappings[f] = Link(s, f) \/ (Link(s, f) = None /\ rootPath \in torn)
        BY <1>2, <1>7, <2>3, <3>1 DEF ShownHolds, Told, Whole, s
      <3>3. mappings'[f] = mappings[f]
        BY <1>5, <1>7, <2>3 DEF Linked, Links, e, m
      <3> QED
        BY <3>1, <3>2, <3>3
    <2> QED
      BY <2>1, <2>2, <2>3
  <1> QED
    BY <1>1, <1>7 DEF ShownHolds, Told, s, e, m

(* The library shown with the links of the file as it is.                  *)
LEMMA ShownFresh ==
    ASSUME NEW cur \in SUBSET Ids, NEW raw \in Links, raw = LinksOf(store'[rootPath]),
           NEW t \in Tasks, ShowLibrary(t, cur, Known(raw, cur))
    PROVE  ShownHolds'
  <1>1. entries' = cur /\ mappings' = Known(raw, cur) /\ rootPath' = rootPath
    BY DEF ShowLibrary
  <1>2. \A e \in cur : mappings'[e] = Link(store'[rootPath], e)
    BY <1>1, KnownIs DEF LinksOf
  <1> QED
    BY <1>1, <1>2 DEF ShownHolds, Told

LEMMA LoadedShown ==
    ASSUME Polite, ShownHolds, NEW t \in Tasks, Loaded(t)
    PROVE  ShownHolds'
  <1> DEFINE r == task[t].root
             cur == folders[r]
             raw == LinksOf(store[r])
             k == [task[t] EXCEPT !.pc = "migrate", !.found = cur, !.raw = raw]
  <1>1. /\ Typed /\ task[t] \in Task /\ task[t].kind = "load" /\ r \in Roots /\ r = rootPath
        /\ UNCHANGED store
    BY TaskOf, LibraryAssumption DEF Loaded, Reads, At, Args, Fit, disk
  <1>2. CASE view' = "welcome"
    BY <1>2 DEF ShownHolds
  <1>3. CASE Becomes(t, k)
    <2>1. k.kind = "load"
      BY <1>1 DEF Task
    <2> HIDE DEF k
    <2>2. task'[t] = k
      BY <1>1, <1>3, Turned
    <2> QED
      BY <2>1, <2>2 DEF ShownHolds, Reloading, Under
  <1>4. CASE store[r] # Broken /\ ShowLibrary(t, cur, Known(raw, cur))
    <2>1. cur \in SUBSET Ids /\ raw \in Links /\ raw = LinksOf(store'[rootPath])
      BY <1>1, <1>4, FileIs
    <2> HIDE DEF cur, raw
    <2> QED
      BY <1>4, <2>1, ShownFresh
  <1> QED
    BY <1>2, <1>3, <1>4 DEF Loaded

LEMMA HasMigratedShown ==
    ASSUME Polite, OneRecord, NEW t \in Tasks, HasMigrated(t)
    PROVE  ShownHolds'
  <1> DEFINE l == task[t]
             s == store[rootPath]
  <1>1. /\ Typed /\ l \in Task /\ rootPath \in Roots /\ l.root = rootPath /\ s # Broken
        /\ l.raw = LinksOf(s)
    BY TaskOf, LibraryAssumption DEF HasMigrated, At, Args, Fit, LoadFresh
  <1>2. s \in Seq(Record) /\ l.found \in SUBSET Ids /\ l.raw \in Links
    BY <1>1, FileIs DEF Task
  <1>3. CASE /\ Writes(rootPath, Migrated(s, l.found))
             /\ ShowLibrary(t, l.found, Replayed(l.raw, s, l.found))
    <2>1. store'[rootPath] = Migrated(s, l.found)
      BY <1>1, <1>3 DEF Writes, Typed, TypeOK
    <2>2. entries' = l.found /\ mappings' = Replayed(LinksOf(s), s, l.found) /\ rootPath' = rootPath
      BY <1>1, <1>3 DEF ShowLibrary
    <2>3. \A f \in Ids : Single(s, f)
      BY <1>1 DEF OneRecord, Whole
    <2> DEFINE cur == l.found
    <2>4. cur \in SUBSET Ids
      BY <1>2
    <2> HIDE DEF s, cur
    <2>5. ASSUME NEW e \in cur, Single(Migrated(s, cur), e)
          PROVE  Replayed(LinksOf(s), s, cur)[e] = Link(Migrated(s, cur), e)
      BY <1>2, <2>3, <2>4, <2>5, ReplayedFits
    <2> QED
      BY <2>1, <2>2, <2>5 DEF ShownHolds, Told, cur
  <1>4. CASE ShowLibrary(t, l.found, Known(l.raw, l.found)) /\ UNCHANGED disk
    <2>1. l.raw = LinksOf(store'[rootPath])
      BY <1>1, <1>4 DEF disk
    <2> QED
      BY <1>2, <1>4, <2>1, ShownFresh
  <1>5. ASSUME NEW left, left = s \/ left = Broken, NotWritten(rootPath, left),
               ShowLibrary(t, l.found, Replayed(l.raw, s, l.found))
        PROVE  ShownHolds'
    <2>1. store'[rootPath] = left /\ rootPath \in torn'
      BY <1>1, <1>5, Failing
    <2>2. entries' = l.found /\ mappings' = Replayed(l.raw, s, l.found) /\ rootPath' = rootPath
      BY <1>5 DEF ShowLibrary
    <2>3. \A e \in l.found : Replayed(l.raw, s, l.found)[e] = Link(s, e) \/ Link(s, e) = None
      <3>1. SUFFICES ASSUME NEW e \in l.found, Link(s, e) # None
                     PROVE  Replayed(l.raw, s, l.found)[e] = Link(s, e)
        OBVIOUS
      <3>2. e \in Ids /\ l.raw[e] = Link(s, e)
        BY <1>1, <1>2 DEF LinksOf
      <3>3. Known(l.raw, l.found)[e] = Link(s, e)
        BY <1>2, <3>2, KnownIs
      <3> QED
        BY <3>1, <3>2, <3>3 DEF Replayed
    <2> QED
      BY <1>5, <2>1, <2>2, <2>3 DEF ShownHolds, Told, Whole
  <1> QED
    BY <1>1, <1>3, <1>4, <1>5 DEF HasMigrated

LEMMA AddShownShown ==
    ASSUME Polite, NEW t \in Tasks, AddShown(t)
    PROVE  ShownHolds'
  <1>1. /\ task[t] \in Task /\ task[t].pc = "tick" /\ Fit(t) /\ UNCHANGED store
        /\ ShowLibrary(t, task[t].found, Known(task[t].raw, task[t].found))
    BY TaskOf DEF AddShown, At, disk
  <1>2. /\ task[t].raw = LinksOf(store'[rootPath])
        /\ task[t].found \in SUBSET Ids /\ task[t].raw \in Links
    BY <1>1 DEF Fit, LoadFresh, Task
  <1> QED
    BY <1>1, <1>2, ShownFresh

LEMMA FetchSavedShown ==
    ASSUME Polite, ShownHolds, NEW t \in Tasks, FetchSaved(t)
    PROVE  ShownHolds'
  <1>1. /\ Typed /\ task[t].root = rootPath /\ rootPath \in Roots
        /\ task[t].kind = "fetch" /\ task[t].pc = "save" /\ \E l : Becomes(t, l)
    BY SaveKeeps DEF FetchSaved, At, Polite
  <1>2. CASE /\ Writes(task[t].root, Saved(store[task[t].root], task[t].entry, task[t].best))
             /\ MemoryLinked(task[t].entry, task[t].best)
    BY <1>1, <1>2, ShownBySave DEF MemoryLinked
  <1>3. CASE SaveFails(task[t].root) /\ UNCHANGED shown
    BY <1>1, <1>3, ShownInSpite DEF shown
  <1> QED
    BY <1>2, <1>3 DEF FetchSaved

LEMMA RefetchSavedShown ==
    ASSUME Polite, ShownHolds, NEW t \in Tasks, RefetchSaved(t)
    PROVE  ShownHolds'
  <1>1. /\ Typed /\ task[t].root = rootPath /\ rootPath \in Roots
        /\ task[t].kind = "refetch" /\ task[t].pc = "save" /\ Ends(t)
    BY SaveKeeps DEF RefetchSaved, At, Polite
  <1>2. CASE /\ Writes(task[t].root, Saved(store[task[t].root], task[t].entry, task[t].best))
             /\ MemoryLinked(task[t].entry, task[t].best)
    BY <1>1, <1>2, ShownBySave DEF MemoryLinked
  <1>3. CASE SaveFails(task[t].root) /\ UNCHANGED shown
    BY <1>1, <1>3, ShownInSpite DEF shown
  <1> QED
    BY <1>2, <1>3 DEF RefetchSaved

(* The dialog still holds the link that was saved.                         *)
LEMMA LinkSavedShown ==
    ASSUME Polite, ShownHolds, NEW t \in Tasks, LinkSaved(t)
    PROVE  ShownHolds'
  <1>1. /\ Typed /\ task[t].root = rootPath /\ rootPath \in Roots
        /\ task[t].kind = "link" /\ task[t].pc = "save" /\ Ends(t) /\ Fit(t)
    BY SaveKeeps DEF LinkSaved, At, Polite
  <1>2. /\ editing # None /\ pending # None /\ task[t].entry = editing /\ task[t].best = pending
    BY <1>1 DEF Fit, LinkFits
  <1>3. CASE /\ Writes(task[t].root, Saved(store[task[t].root], task[t].entry, task[t].best))
             /\ MemoryLinked(task[t].entry, task[t].best)
    BY <1>1, <1>3, ShownBySave DEF MemoryLinked
  <1>4. CASE SaveFails(task[t].root) /\ UNCHANGED shown
    BY <1>1, <1>4, ShownInSpite DEF shown
  <1> QED
    BY <1>2, <1>3, <1>4 DEF LinkSaved

LEMMA AddSavedShown ==
    ASSUME Polite, ShownHolds, NEW t \in Tasks, AddSaved(t)
    PROVE  ShownHolds'
  <1>1. /\ Typed /\ task[t].root = rootPath /\ rootPath \in Roots
        /\ task[t].kind = "add" /\ task[t].pc = "save" /\ UNCHANGED shown
        /\ Ends(t) \/ \E l : Becomes(t, l)
    BY SaveKeeps DEF AddSaved, At, Polite
  <1>2. task[t].entry \notin entries
    BY <1>1 DEF Polite, Fit, AddIsNew
  <1>3. CASE Writes(task[t].root, Saved(store[task[t].root], task[t].entry, task[t].best))
    BY <1>1, <1>2, <1>3, ShownBySave DEF shown
  <1>4. CASE SaveFails(task[t].root)
    BY <1>1, <1>4, ShownInSpite DEF shown
  <1> QED
    BY <1>3, <1>4 DEF AddSaved

LEMMA StepShown ==
    ASSUME Polite, ShownHolds, OneRecord, NEW t \in Tasks, Step(t)
    PROVE  ShownHolds'
  <1>1. Typed
    BY DEF Polite
  <1>2. ASSUME NEW e \in Ids, NEW m \in Matches(e), Fetched(t, e, m) PROVE ShownHolds'
    <2>1. /\ task[t].kind = "fetch" /\ task[t].pc # "tick"
          /\ UNCHANGED <<store, torn, rootPath, entries, mappings, view>>
      BY <1>2 DEF Fetched, At, disk, shown
    <2>2. \E l : Becomes(t, l)
      BY <1>2 DEF Fetched
    <2> QED
      BY <1>1, <2>1, <2>2, ShownStays
  <1>3. CASE NextPassBegins(t)
    <2>1. /\ task[t].kind = "fetch" /\ task[t].pc # "tick"
          /\ UNCHANGED <<store, torn, rootPath, entries, mappings, view>>
          /\ Ends(t) \/ \E l : Becomes(t, l)
      BY <1>3 DEF NextPassBegins, At, disk, shown
    <2> QED
      BY <1>1, <2>1, ShownStays
  <1>4. ASSUME NEW m \in Mals \cup {None}, Refetched(t, m) PROVE ShownHolds'
    <2>1. /\ task[t].kind = "refetch" /\ task[t].pc # "tick"
          /\ UNCHANGED <<store, torn, rootPath, entries, mappings, view>>
          /\ Ends(t) \/ \E l : Becomes(t, l)
      BY <1>4 DEF Refetched, At, disk, shown
    <2> QED
      BY <1>1, <2>1, ShownStays
  <1>5. CASE RefetchDeleted(t)
    <2>1. /\ task[t].kind = "refetch" /\ task[t].pc # "tick"
          /\ UNCHANGED <<store, torn, rootPath, entries, mappings, view>>
          /\ \E l : Becomes(t, l)
      BY <1>5 DEF RefetchDeleted, At, disk, shown
    <2> QED
      BY <1>1, <2>1, ShownStays
  <1>6. CASE LinkDeleted(t)
    <2>1. /\ task[t].kind = "link" /\ task[t].pc # "tick"
          /\ UNCHANGED <<store, torn, rootPath, entries, mappings, view>>
          /\ Ends(t) \/ \E l : Becomes(t, l)
      BY <1>6 DEF LinkDeleted, At, disk, shown
    <2> QED
      BY <1>1, <2>1, ShownStays
  <1>7. CASE Created(t)
    <2>1. /\ task[t].kind = "add" /\ task[t].pc # "tick"
          /\ UNCHANGED <<store, torn, rootPath, entries, mappings, view>>
          /\ Ends(t) \/ \E l : Becomes(t, l)
      BY <1>7 DEF Created, At, shown
    <2> QED
      BY <1>1, <2>1, ShownStays
  <1>8. CASE AddLoaded(t)
    <2> DEFINE r == task[t].root
               l == [NoTask EXCEPT !.kind = "add", !.pc = "tick",
                                   !.found = folders[r], !.raw = LinksOf(store[r])]
    <2>1. CASE Ends(t) /\ UNCHANGED <<disk, shown>>
      <3>1. /\ task[t].kind = "add" /\ task[t].pc # "tick"
            /\ UNCHANGED <<store, torn, rootPath, entries, mappings, view>>
        BY <1>8, <2>1 DEF AddLoaded, At, disk, shown
      <3> QED
        BY <1>1, <2>1, <3>1, ShownStays
    <2>2. CASE Becomes(t, l)
      <3>1. l.pc = "tick"
        BY NoTaskIs DEF Task
      <3> HIDE DEF l
      <3>2. task'[t] = l
        BY <1>1, <2>2, Turned
      <3> QED
        BY <3>1, <3>2 DEF ShownHolds, Reloading
    <2> QED
      BY <1>8, <2>1, <2>2 DEF AddLoaded
  <1> QED
    BY <1>2, <1>3, <1>4, <1>5, <1>6, <1>7, <1>8, LoadedShown, HasMigratedShown, AddShownShown,
       FetchSavedShown, RefetchSavedShown, LinkSavedShown, AddSavedShown DEF Step

LEMMA NextShown == Polite /\ ShownHolds /\ OneRecord /\ [PoliteNext]_vars => ShownHolds'
  <1> SUFFICES ASSUME Polite, ShownHolds, OneRecord, [PoliteNext]_vars PROVE ShownHolds'
    OBVIOUS
  <1>1. CASE \E t \in Tasks : Step(t)
    BY <1>1, StepShown
  <1>2. CASE PoliteUser
    <2>1. ASSUME NEW t \in Tasks, Opens(t) PROVE ShownHolds'
      <3>1. PICK r \in Roots : OpenFolder(t, r)
        BY <2>1 DEF Opens
      <3> DEFINE l == [NoTask EXCEPT !.kind = "load", !.pc = "load", !.root = r]
      <3>2. Becomes(t, l)
        BY <3>1 DEF OpenFolder
      <3>3. l.kind = "load"
        BY NoTaskIs DEF Task
      <3> HIDE DEF l
      <3>4. task'[t] = l
        BY <3>2, Turned DEF Polite
      <3> QED
        BY <3>3, <3>4 DEF ShownHolds, Reloading, Under, Told, Whole
    <2>2. ASSUME NEW t \in Tasks, NEW l, Idle(t), Becomes(t, l),
                 UNCHANGED <<store, torn, rootPath, entries, mappings, view>>
          PROVE  ShownHolds'
      <3>1. task[t].kind # "load" /\ task[t].pc # "tick"
        BY <2>2, NoTaskIs DEF Idle
      <3> QED
        BY <2>2, <3>1, ShownStays DEF Polite
    <2>3. ASSUME NEW t \in Tasks, Adds(t, Ids \ entries) PROVE ShownHolds'
      <3>1. PICK n \in Ids, x \in {{}} \cup {{e} : e \in Ids} : AddNew(t, n, x)
        BY <2>3 DEF Adds
      <3>2. /\ Idle(t) /\ UNCHANGED <<store, torn, rootPath, entries, mappings, view>>
            /\ \E l : Becomes(t, l)
        BY <3>1 DEF AddNew, Free, disk, shown
      <3> QED
        BY <2>2, <3>2
    <2>4. ASSUME NEW t \in Tasks, NEW e \in Ids, Refetch(t, e) PROVE ShownHolds'
      <3>1. /\ Idle(t) /\ UNCHANGED <<store, torn, rootPath, entries, mappings, view>>
            /\ \E l : Becomes(t, l)
        BY <2>4 DEF Refetch, Free, disk, shown
      <3> QED
        BY <2>2, <3>1
    <2>5. ASSUME NEW t \in Tasks, SaveLink(t) PROVE ShownHolds'
      <3>1. /\ Idle(t) /\ UNCHANGED <<store, torn, rootPath, entries, mappings, view>>
            /\ \E l : Becomes(t, l)
        BY <2>5 DEF SaveLink, Free, disk, shown
      <3> QED
        BY <2>2, <3>1
    <2>6. CASE Dialog
      <3>1. UNCHANGED <<store, torn, rootPath, entries, mappings, view, task>>
        BY <2>6 DEF Dialog, OpenEdit, OpenAdd, Choose, CloseModal, disk, shown
      <3> QED
        BY <3>1 DEF ShownHolds, Reloading, Under, Told, Whole
    <2> QED
      BY <1>2, <2>1, <2>3, <2>4, <2>5, <2>6 DEF PoliteUser
  <1>3. CASE Outside
    <2>1. CASE \E r \in Roots, x, y \in Ids : Move(r, x, y)
      <3>1. UNCHANGED <<store, torn, rootPath, entries, mappings, view, task>>
        BY <2>1 DEF Move, shown
      <3> QED
        BY <3>1 DEF ShownHolds, Reloading, Under, Told, Whole
    <2>2. ASSUME NEW t \in Tasks, Restart(t) PROVE ShownHolds'
      <3>1. view' = "welcome"
        BY <2>2 DEF Restart
      <3> QED
        BY <3>1 DEF ShownHolds
    <2>3. (CHOOSE t \in Tasks : TRUE) \in Tasks
      BY LibraryAssumption
    <2> QED
      BY <1>3, <2>1, <2>2, <2>3 DEF Outside
  <1>4. CASE UNCHANGED vars
    <2>1. UNCHANGED <<store, torn, rootPath, entries, mappings, view, task>>
      BY <1>4 DEF vars, disk, shown
    <2> QED
      BY <2>1 DEF ShownHolds, Reloading, Under, Told, Whole
  <1> QED
    BY <1>1, <1>2, <1>3, <1>4 DEF PoliteNext

(* As long as no entry has two records in its file, every card shows the   *)
(* link that the file names, so that the next start shows it too: whatever *)
(* links, fetches and refetches run at once, whichever commands fail and   *)
(* whenever folders are moved or the program dies.  Once a write of the    *)
(* file has failed, which may have emptied it, a card may show a link the  *)
(* file no longer names at all; it never shows another than it names.      *)
THEOREM CardsAlwaysTrue == PoliteSpec /\ []OneRecord => []CardsAreTrue
  <1>1. Init => ShownHolds
    BY DEF Init, ShownHolds
  <1>2. Polite /\ ShownHolds => CardsAreTrue
    <2> SUFFICES ASSUME Polite, ShownHolds PROVE CardsAreTrue
      OBVIOUS
    <2>1. \A t \in Tasks : task[t].pc = "tick" => task[t].kind = "add"
      BY DEF Polite, Fit, Placed
    <2>2. ~Under({"load", "add"}) => ~Reloading
      BY <2>1 DEF Reloading, Under
    <2> QED
      BY <2>2 DEF Polite, Typed, CardsAreTrue, ShownIsSaved, ShownHolds
  <1> QED
    BY <1>1, <1>2, InitPolite, NextPolite, NextShown, PTL DEF PoliteSpec

-----------------------------------------------------------------------------
(* Links on disk.                                                          *)

(* A migration keeps the link of an entry that was found, if it leaves the *)
(* entry with one record.                                                  *)
LEMMA MigratedKeeps ==
    ASSUME NEW s \in Seq(Record), NEW cur \in SUBSET Ids, NEW e \in cur, Link(s, e) # None,
           Single(Migrated(s, cur), e)
    PROVE  Link(Migrated(s, cur), e) = Link(s, e)
  <1> DEFINE M == Migrated(s, cur)
  <1>1. /\ M \in Seq(Record) /\ DOMAIN M = DOMAIN s
        /\ \A k \in DOMAIN s : /\ s[k].id \in cur => M[k].id = s[k].id
                               /\ M[k].mal = s[k].mal
    BY MigratedIs
  <1>2. Of(s, e) \subseteq Of(M, e) /\ Of(s, e) # {}
    BY <1>1, LinkIs DEF Of
  <1>3. Single(s, e)
    BY <1>2 DEF Single
  <1>4. PICK k \in Of(s, e) : TRUE
    BY <1>2
  <1> HIDE DEF M
  <1>5. Link(s, e) = s[k].mal
    BY <1>3, <1>4, LinkIs
  <1>6. Link(M, e) = M[k].mal
    BY <1>1, <1>2, <1>4, LinkIs DEF M
  <1> QED
    BY <1>1, <1>4, <1>5, <1>6 DEF Of, M

(* LinksKept, of one step.                                                 *)
Kept ==
    \A r \in Roots, e \in Ids :
        /\ Whole(r) /\ Whole(r)' /\ e \in folders[r]
        /\ Link(store[r], e) # None /\ Single(store'[r], e)
        /\ ~SavingTo(r, e)
        => Link(store'[r], e) = Link(store[r], e)

LEMMA SaveKeepsLinks ==
    ASSUME Polite, NEW t \in Tasks, task[t].kind # "none", task[t].pc = "save", Answers(t),
           Writes(task[t].root, Saved(store[task[t].root], task[t].entry, task[t].best))
    PROVE  Kept
  <1> DEFINE q == rootPath
             f == task[t].entry
             m == task[t].best
  <1>1. /\ Typed /\ q \in Roots /\ task[t].root = q /\ f \in Ids /\ m \in Mals
    BY SaveKeeps
  <1>2. /\ \A r \in Roots : r # q => store'[r] = store[r]
        /\ store'[q] = Saved(store[q], f, m)
    BY <1>1, Saving
  <1>3. SavingTo(q, f)
    BY <1>1 DEF SavingTo
  <1> HIDE DEF q, f, m
  <1>4. ASSUME Whole(q), NEW e \in Ids, e # f PROVE Link(store'[q], e) = Link(store[q], e)
    <2>1. store[q] \in Seq(Record) /\ store[q] # Broken
      BY <1>1, <1>4, FileIs DEF Whole
    <2> QED
      BY <1>1, <1>2, <1>4, <2>1, SavedIs
  <1>5. ASSUME NEW r \in Roots, NEW e \in Ids, Whole(r), ~SavingTo(r, e)
        PROVE  Link(store'[r], e) = Link(store[r], e)
    <2>1. CASE r # q
      BY <1>2, <2>1
    <2>2. CASE r = q
      BY <1>3, <1>4, <1>5, <2>2
    <2> QED
      BY <2>1, <2>2
  <1> QED
    BY <1>5 DEF Kept

(* A write that fails keeps the links, or leaves no file that has any.     *)
LEMMA FailingKeeps ==
    ASSUME Typed, NEW q \in Roots, NEW left, left = store[q] \/ left = Broken,
           store' = [store EXCEPT ![q] = left]
    PROVE  Kept
  <1>1. \A r \in Roots : store'[r] = IF r = q THEN left ELSE store[r]
    BY DEF Typed, TypeOK
  <1>2. \A r \in Roots : store'[r] = store[r] \/ ~Whole(r)'
    BY <1>1 DEF Whole
  <1> QED
    BY <1>2 DEF Kept

LEMMA HasMigratedKeeps ==
    ASSUME Polite, NEW t \in Tasks, HasMigrated(t)
    PROVE  Kept
  <1> DEFINE q == rootPath
             cur == task[t].found
  <1>1. /\ Typed /\ task[t] \in Task /\ q \in Roots /\ task[t].root = q /\ store[q] # Broken
        /\ cur = folders[q]
    BY TaskOf, LibraryAssumption DEF HasMigrated, At, Args, Fit, LoadFresh
  <1>2. store[q] \in Seq(Record) /\ cur \in SUBSET Ids
    BY <1>1, FileIs
  <1>3. CASE UNCHANGED disk
    BY <1>3 DEF Kept, disk
  <1>4. CASE Writes(q, Migrated(store[q], cur))
    <2>1. /\ \A r \in Roots : r # q => store'[r] = store[r]
          /\ store'[q] = Migrated(store[q], cur)
      BY <1>1, <1>4 DEF Writes, Typed, TypeOK
    <2> HIDE DEF q, cur
    <2>2. ASSUME NEW e \in cur, Link(store[q], e) # None, Single(store'[q], e)
          PROVE  Link(store'[q], e) = Link(store[q], e)
      BY <1>2, <2>1, <2>2, MigratedKeeps
    <2> QED
      BY <1>1, <2>1, <2>2 DEF Kept
  <1>5. CASE \E left \in {store[q], Broken} : NotWritten(q, left)
    BY <1>1, <1>5, FailingKeeps DEF NotWritten
  <1> QED
    BY <1>1, <1>3, <1>4, <1>5 DEF HasMigrated

LEMMA StepKeeps ==
    ASSUME Polite, NEW t \in Tasks, Step(t)
    PROVE  Kept
  <1>1. CASE UNCHANGED store
    BY <1>1 DEF Kept
  <1>2. ASSUME FetchSaved(t) \/ RefetchSaved(t) \/ LinkSaved(t) \/ AddSaved(t) PROVE Kept
    <2>1. task[t].kind # "none" /\ task[t].pc = "save" /\ Answers(t)
      BY <1>2 DEF FetchSaved, RefetchSaved, LinkSaved, AddSaved, At
    <2>2. \/ SaveFails(task[t].root)
          \/ Writes(task[t].root, Saved(store[task[t].root], task[t].entry, task[t].best))
      BY <1>2 DEF FetchSaved, RefetchSaved, LinkSaved, AddSaved
    <2>3. SaveFails(task[t].root) => Kept
      BY <1>1, <2>1, SaveKeeps, FailingKeeps DEF SaveFails, NotWritten, disk
    <2> QED
      BY <2>1, <2>2, <2>3, SaveKeepsLinks
  <1> QED
    BY <1>1, <1>2, HasMigratedKeeps
    DEF Step, Loaded, Reads, Fetched, NextPassBegins, Refetched, RefetchDeleted, LinkDeleted, Created,
        AddLoaded, AddShown, disk

LEMMA NextKeeps == Polite /\ [PoliteNext]_vars => Kept
  <1> SUFFICES ASSUME Polite, [PoliteNext]_vars PROVE Kept
    OBVIOUS
  <1>1. CASE UNCHANGED store
    BY <1>1 DEF Kept
  <1>2. CASE \E t \in Tasks : Step(t)
    BY <1>2, StepKeeps
  <1>3. CASE PoliteUser
    <2>1. UNCHANGED store
      BY <1>3 DEF PoliteUser, Opens, OpenFolder, Adds, AddNew, Refetch, SaveLink, Dialog, OpenEdit,
                  OpenAdd, Choose, CloseModal, disk
    <2> QED
      BY <1>1, <2>1
  <1>4. CASE Outside
    <2>1. CASE \E r \in Roots, x, y \in Ids : Move(r, x, y)
      BY <1>1, <2>1 DEF Move
    <2>2. ASSUME NEW t \in Tasks, Restart(t) PROVE Kept
      <3>1. ASSUME NEW q \in Roots, store' = [store EXCEPT ![q] = Broken] PROVE Kept
        BY <3>1, FailingKeeps DEF Polite
      <3> QED
        BY <1>1, <2>2, <3>1 DEF Restart, Writing
    <2>3. (CHOOSE t \in Tasks : TRUE) \in Tasks
      BY LibraryAssumption
    <2> QED
      BY <1>4, <2>1, <2>2, <2>3 DEF Outside
  <1>5. CASE UNCHANGED vars
    BY <1>1, <1>5 DEF vars, disk
  <1> QED
    BY <1>2, <1>3, <1>4, <1>5 DEF PoliteNext

(* A link of an entry that exists is lost or changed by a save for that    *)
(* entry only, not by saves of others, by a migration, a failed command or *)
(* a restart that leaves the file whole.                                   *)
THEOREM LinksAlwaysKept == PoliteSpec => LinksKept
  <1>1. Polite /\ [PoliteNext]_vars => [Kept]_vars
    BY NextKeeps
  <1> QED
    BY <1>1, InitPolite, NextPolite, PTL DEF PoliteSpec, LinksKept, Kept
=============================================================================

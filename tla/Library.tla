------------------------------ MODULE Library ------------------------------
(***************************************************************************)
(* The library shown by src/app.js and the mapping files that main.rs      *)
(* keeps of it, one per root folder.  Opening a folder, adding an anime,   *)
(* linking one by hand, fetching one again and the automatic fetch are     *)
(* asynchronous functions: a task runs from one await to the next without  *)
(* interruption, and other tasks and the user come in between.             *)
(*                                                                         *)
(* The commands used here are synchronous in the back end.  It runs them   *)
(* one at a time in the order they were sent and answers in that order;    *)
(* nothing else reads or writes a mapping file, so the run of a command    *)
(* and what the caller does with the answer are one step.  The commands    *)
(* sent are the queue pipe, with the arguments they were sent with.        *)
(*                                                                         *)
(* An entry is named by its path below the root, of which its id is the    *)
(* hash (make_entry_id).  A link is the MAL entry a mapping names.  Left   *)
(* out: posters (cached by commands that touch no mapping), the sort order *)
(* and the texts shown.  A command may fail, and has then done nothing but *)
(* for the writes of a mapping file: fs::write empties the file before it  *)
(* fails, and leaves one that does not parse.  Left out are folders        *)
(* converted by half.                                                      *)
(***************************************************************************)
EXTENDS Integers, Sequences, FiniteSets

CONSTANTS
    Roots,      \* folders that may be opened as a library
    Ids,        \* entries, each a path below a root
    Mals,       \* entries of MyAnimeList
    Stem,       \* entry -> last component of its path
    Inside,     \* entry -> the entries whose folders are in its folder
    Title,      \* MAL entry -> its title
    Finds,      \* entry -> the MAL entries its search may settle on
    Tasks,      \* calls of asynchronous functions that may run at once
    None,       \* no link, no root, nothing chosen
    Broken,     \* a mapping file that does not parse
    Passes,     \* passes of the automatic fetch (3 in the code)
    MaxEdits,   \* bound: folders added or moved by the user
    MaxCrashes  \* bound: crashes of the program

ASSUME LibraryAssumption ==
    /\ DOMAIN Stem = Ids /\ DOMAIN Title = Mals
    /\ Inside \in [Ids -> SUBSET Ids] /\ Finds \in [Ids -> SUBSET Mals]
    /\ None \notin Ids \cup Mals \cup Roots
    /\ Broken \notin Seq([id : Ids, mal : Mals])
    /\ Tasks # {} /\ Passes \in Nat \ {0} /\ MaxEdits \in Nat /\ MaxCrashes \in Nat

VARIABLES
    folders,    \* root -> the entry folders on disk
    store,      \* root -> its mapping file: a sequence of records, or Broken
    lastPath,   \* last_path.txt
    torn,       \* history: the roots a write of whose file has failed since
                \* it was last loaded
    rootPath, entries, mappings, abort, \* state.rootPath, .entries, .mappings,
                                        \* .autoFetchAbort
    view,       \* the cards of the library, or the welcome screen
    modal, editing, pending,            \* which dialog is open,
                                        \* state.editingEntryId, pendingMalResult
    task,       \* task -> its local variables, see Task
    pipe,       \* the tasks whose command is on its way, in the order sent
    edits, crashes

disk   == <<folders, store, lastPath, torn>>
shown  == <<rootPath, entries, mappings, abort, view>>
dialog == <<modal, editing, pending>>
env    == <<edits, crashes>>
vars   == <<disk, shown, dialog, task, pipe, env>>

Record == [id : Ids, mal : Mals]
Links  == [Ids -> Mals \cup {None}]
NoLink == [e \in Ids |-> None]

(* pc names what the task waits for.  root, entry, best: the arguments of  *)
(* its command or of its search.  found, raw: entries and mappings as      *)
(* loaded.  todo, next, pass: pending, nextPending and the pass of         *)
(* autoFetchPosters.                                                       *)
Task == [kind : {"none", "load", "fetch", "add", "link", "refetch"},
         pc : {"idle", "load", "migrate", "search", "pause", "create",
               "delete", "save", "tick"},
         root : Roots \cup {None}, entry : Ids \cup {None},
         best : Mals \cup {None}, found : SUBSET Ids, raw : Links,
         todo : SUBSET Ids, next : SUBSET Ids, pass : 0 .. Passes]

NoTask == [kind |-> "none", pc |-> "idle", root |-> None, entry |-> None,
           best |-> None, found |-> {}, raw |-> NoLink, todo |-> {},
           next |-> {}, pass |-> 0]

-----------------------------------------------------------------------------
(* A mapping file.  Of records with one id, load and save take the first.  *)
Of(s, e)  == {k \in DOMAIN s : s[k].id = e}
First(s, e) == CHOOSE k \in Of(s, e) : \A j \in Of(s, e) : k <= j
Link(s, e) == IF Of(s, e) = {} THEN None ELSE s[First(s, e)].mal

(* load_mappings, of a file that parses.                                   *)
LinksOf(s) == [e \in Ids |-> Link(s, e)]

(* What save_mapping takes the file for; fault: every file for a new one.  *)
AlwaysNew(s) == <<>>
Existing(s) == IF s = Broken THEN <<>> ELSE s

(* save_mapping.                                                           *)
Saved(s, e, m) ==
    LET t == Existing(s) r == [id |-> e, mal |-> m] IN
    IF Of(t, e) = {} THEN Append(t, r) ELSE [t EXCEPT ![First(t, e)] = r]

(* migrate_mappings: the entry that an orphaned record is given to.        *)
Candidates(cur, r) == {e \in cur : Stem[e] = Title[r.mal]}
NewId(cur, r) == IF r.id \in cur \/ Candidates(cur, r) = {} THEN r.id
                 ELSE CHOOSE e \in Candidates(cur, r) : TRUE
Migrated(s, cur) ==
    [k \in DOMAIN s |-> [s[k] EXCEPT !.id = NewId(cur, s[k])]]

(* The links loadLibrary then shows: those of the entries found, and for   *)
(* an entry without one that of the first orphan that moved to it.         *)
Known(raw, cur) == [e \in Ids |-> IF e \in cur THEN raw[e] ELSE None]
Replayed(raw, s, cur) ==
    [e \in Ids |->
        LET moved == {k \in DOMAIN s : /\ s[k].id \notin cur
                                       /\ NewId(cur, s[k]) = e
                                       /\ raw[s[k].id] # None}
        IN  IF Known(raw, cur)[e] # None \/ e \notin cur \/ moved = {}
            THEN Known(raw, cur)[e]
            ELSE raw[s[CHOOSE k \in moved : \A j \in moved : k <= j].id]]

-----------------------------------------------------------------------------
(* scan_anime_folder: a folder with folders in it is not an entry.         *)
Fits(S) == \A e \in S : Inside[e] \cap S = {}

Init ==
    /\ folders \in [Roots -> {S \in SUBSET Ids : Fits(S)}]
    /\ store = [r \in Roots |-> <<>>]
    /\ lastPath = None /\ torn = {}
    /\ rootPath = None /\ entries = {} /\ mappings = NoLink /\ abort = FALSE
    /\ view = "welcome"
    /\ modal = "none" /\ editing = None /\ pending = None
    /\ task = [t \in Tasks |-> NoTask]
    /\ pipe = <<>>
    /\ edits = 0 /\ crashes = 0

At(t, kind, pc) == task[t].kind = kind /\ task[t].pc = pc
Idle(t)      == task[t] = NoTask
(* A call takes any place that is free.                                    *)
Free(t)      == Idle(t) /\ t = CHOOSE u \in Tasks : Idle(u)
Quiet        == \A t \in Tasks : Idle(t)
Answers(t)   == pipe # <<>> /\ Head(pipe) = t
Ends(t)      == task' = [task EXCEPT ![t] = NoTask]
Becomes(t, l) == task' = [task EXCEPT ![t] = l]

(* A command sent by t from outside the answer of another one.             *)
Sends(t)     == pipe' = Append(pipe, t)
(* The next command of the task that was answered, and none.               *)
SendsNext(t) == pipe' = Append(Tail(pipe), t)
NoMore       == pipe' = Tail(pipe)

(* A link in state.mappings.  Fault: existingIdx > 0 where it is there.    *)
LinkedIfNew(e, m) ==
    IF mappings[e] = None THEN [mappings EXCEPT ![e] = m] ELSE mappings
Linked(e, m) == [mappings EXCEPT ![e] = m]
Writes(r, s) ==
    store' = [store EXCEPT ![r] = s] /\ UNCHANGED <<folders, lastPath, torn>>

(* fs::write fails.  The file is as it was, which it could not open, or it *)
(* has been emptied.                                                       *)
NotWritten(r, left) ==
    /\ store' = [store EXCEPT ![r] = left]
    /\ torn' = torn \cup {r}
    /\ UNCHANGED <<folders, lastPath>>

(* save_mapping fails and has written nothing, or has emptied the file.    *)
SaveFails(r) == UNCHANGED disk \/ NotWritten(r, Broken)
MemoryLinked(e, m) ==
    mappings' = Linked(e, m) /\ UNCHANGED <<rootPath, entries, abort, view>>

-----------------------------------------------------------------------------
(* autoFetchPosters for the entries and links just shown.                  *)
Unlinked(cur, links) == {e \in cur : links[e] = None}
FetchTask(cur, links) ==
    IF Unlinked(cur, links) = {} THEN NoTask
    ELSE [NoTask EXCEPT !.kind = "fetch", !.pc = "search", !.pass = 1,
                        !.todo = Unlinked(cur, links)]

(* After an entry: the next one, or the end of the pass, which the abort   *)
(* flag brings forward, with those that failed so far for the next.        *)
(* Faults: one pass too many; passes not counted.                          *)
PassesPlusOne(l, failed) ==
    IF failed # {} /\ l.pass <= Passes
    THEN [NoTask EXCEPT !.kind = "fetch", !.pc = "pause", !.pass = l.pass,
                        !.todo = failed]
    ELSE NoTask
PassesUncounted(l, failed) ==
    IF failed # {}
    THEN [NoTask EXCEPT !.kind = "fetch", !.pc = "pause", !.todo = failed]
    ELSE NoTask
NextPass(l, failed) ==
    IF failed # {} /\ l.pass < Passes
    THEN [NoTask EXCEPT !.kind = "fetch", !.pc = "pause", !.pass = l.pass,
                        !.todo = failed]
    ELSE NoTask
Advanced(l, left, failed) ==
    IF abort \/ left = {} THEN NextPass(l, failed)
    ELSE [l EXCEPT !.pc = "search", !.root = None, !.entry = None,
                   !.best = None, !.todo = left, !.next = failed]

(* loadLibrary has all it needs: entries cur with these links.             *)
ShowLibrary(t, cur, links) ==
    /\ entries' = cur
    /\ mappings' = links
    /\ abort' = FALSE
    /\ Becomes(t, FetchTask(cur, links))
    /\ UNCHANGED rootPath

(* openFolder, once the user has chosen r.                                 *)
OpenFolder(t, r) ==
    /\ Free(t)
    /\ rootPath' = r
    /\ lastPath' = r
    /\ Becomes(t, [NoTask EXCEPT !.kind = "load", !.pc = "load", !.root = r])
    /\ Sends(t)
    /\ UNCHANGED <<folders, store, torn, entries, mappings, abort, view, dialog, env>>

(* scan_anime_folder and load_mappings have answered, or one has failed,   *)
(* as load_mappings does where the file does not parse.                    *)
Reads(r) == torn' = torn \ {r} /\ UNCHANGED <<folders, store, lastPath>>

Loaded(t) ==
    LET r == task[t].root cur == folders[r] raw == LinksOf(store[r]) IN
    /\ Answers(t) /\ At(t, "load", "load")
    /\ \/ /\ Ends(t) /\ NoMore
          /\ view' = "welcome"
          /\ UNCHANGED <<disk, rootPath, entries, mappings, abort>>
       \/ /\ store[r] # Broken
          /\ Unlinked(cur, raw) # {} /\ store[r] # <<>>
          /\ Becomes(t, [task[t] EXCEPT !.pc = "migrate", !.found = cur, !.raw = raw])
          /\ SendsNext(t)
          /\ Reads(r)
          /\ UNCHANGED shown
       \/ /\ store[r] # Broken
          /\ Unlinked(cur, raw) = {} \/ store[r] = <<>>
          /\ ShowLibrary(t, cur, Known(raw, cur))
          /\ view' = "cards"
          /\ Reads(r)
          /\ NoMore
    /\ UNCHANGED <<dialog, env>>

(* migrate_mappings has answered; if it failed the links are shown as they *)
(* were loaded.  That its write failed it does not tell.                   *)
HasMigrated(t) ==
    LET l == task[t] s == store[l.root] IN
    /\ Answers(t) /\ At(t, "load", "migrate")
    /\ \/ /\ s # Broken
          /\ \/ Writes(l.root, Migrated(s, l.found))
             \/ /\ Migrated(s, l.found) # s
                /\ \E left \in {s, Broken} : NotWritten(l.root, left)
          /\ ShowLibrary(t, l.found, Replayed(l.raw, s, l.found))
       \/ /\ ShowLibrary(t, l.found, Known(l.raw, l.found))
          /\ UNCHANGED disk
    /\ view' = "cards"
    /\ NoMore
    /\ UNCHANGED <<dialog, env>>

-----------------------------------------------------------------------------
(* fetchSingleEntry: a match good enough, or none, also when it fails.     *)
Matches(e) == Finds[e] \cup {None}

(* autoFetchPosters: the search for entry e, after its delay.              *)
Fetched(t, e, m) ==
    /\ At(t, "fetch", "search") /\ e \in task[t].todo
    /\ \/ /\ m = None
          /\ Becomes(t, Advanced(task[t], task[t].todo \ {e}, task[t].next \cup {e}))
          /\ UNCHANGED pipe
       \/ /\ m # None
          /\ Becomes(t, [task[t] EXCEPT !.pc = "save", !.root = rootPath,
                                        !.entry = e, !.best = m])
          /\ Sends(t)
    /\ UNCHANGED <<disk, shown, dialog, env>>

FetchSaved(t) ==
    LET l == task[t] IN
    /\ Answers(t) /\ At(t, "fetch", "save")
    /\ \/ /\ Writes(l.root, Saved(store[l.root], l.entry, l.best))
          /\ MemoryLinked(l.entry, l.best)
          /\ Becomes(t, Advanced(l, l.todo \ {l.entry}, l.next))
       \/ /\ SaveFails(l.root)
          /\ Becomes(t, Advanced(l, l.todo \ {l.entry}, l.next \cup {l.entry}))
          /\ UNCHANGED shown
    /\ NoMore
    /\ UNCHANGED <<dialog, env>>

(* The delay between two passes is over.                                   *)
NextPassBegins(t) ==
    /\ At(t, "fetch", "pause")
    /\ \/ abort /\ Ends(t)
       \/ ~abort /\ Becomes(t, [task[t] EXCEPT !.pc = "search", !.pass = @ + 1])
    /\ UNCHANGED <<disk, shown, dialog, pipe, env>>

-----------------------------------------------------------------------------
(* refetchSingle, from the context menu of a card.                         *)
Refetch(t, e) ==
    /\ Free(t) /\ view = "cards" /\ e \in entries
    /\ Becomes(t, [NoTask EXCEPT !.kind = "refetch", !.pc = "search", !.entry = e])
    /\ UNCHANGED <<disk, shown, dialog, pipe, env>>

Refetched(t, m) ==
    /\ At(t, "refetch", "search") /\ m \in Matches(task[t].entry)
    /\ \/ m = None /\ Ends(t) /\ UNCHANGED pipe
       \/ /\ m # None
          /\ Becomes(t, [task[t] EXCEPT !.pc = "delete", !.best = m])
          /\ Sends(t)
    /\ UNCHANGED <<disk, shown, dialog, env>>

RefetchDeleted(t) ==
    /\ Answers(t) /\ At(t, "refetch", "delete")
    /\ Becomes(t, [task[t] EXCEPT !.pc = "save", !.root = rootPath])
    /\ SendsNext(t)
    /\ UNCHANGED <<disk, shown, dialog, env>>

RefetchSaved(t) ==
    LET l == task[t] IN
    /\ Answers(t) /\ At(t, "refetch", "save")
    /\ \/ /\ Writes(l.root, Saved(store[l.root], l.entry, l.best))
          /\ MemoryLinked(l.entry, l.best)
       \/ /\ SaveFails(l.root)
          /\ UNCHANGED shown
    /\ Ends(t) /\ NoMore
    /\ UNCHANGED <<dialog, env>>

-----------------------------------------------------------------------------
(* The dialog: openEditModal, openAddModal, a result clicked, closed.      *)
(* Hidden, the dialog keeps its globals, which only calls under way among  *)
(* ts still read: the next opening resets them, and so does the model when *)
(* there is no such call.                                                  *)
ModalHidden(ts) ==
    /\ modal' = "none"
    /\ IF \E t \in ts : task[t].kind \in {"link", "add"}
       THEN UNCHANGED <<editing, pending>>
       ELSE editing' = None /\ pending' = None

OpenEdit(e) ==
    /\ view = "cards" /\ e \in entries
    /\ modal' = "edit" /\ editing' = e /\ pending' = None
    /\ UNCHANGED <<disk, shown, task, pipe, env>>

OpenAdd ==
    /\ rootPath # None
    /\ modal' = "add" /\ editing' = None /\ pending' = None
    /\ UNCHANGED <<disk, shown, task, pipe, env>>

Choose(m) ==
    /\ modal # "none"
    /\ pending' = m
    /\ UNCHANGED <<disk, shown, modal, editing, task, pipe, env>>

CloseModal ==
    /\ modal # "none"
    /\ ModalHidden(Tasks)
    /\ UNCHANGED <<disk, shown, task, pipe, env>>

(* saveMalMapping.  It reads the dialog's globals anew after each await.   *)
SaveLink(t) ==
    /\ Free(t) /\ modal = "edit"
    /\ pending # None /\ editing # None
    /\ Becomes(t, [NoTask EXCEPT !.kind = "link", !.pc = "delete"])
    /\ Sends(t)
    /\ UNCHANGED <<disk, shown, dialog, env>>

(* The poster is deleted; without a result or an entry now, it throws.     *)
LinkDeleted(t) ==
    /\ Answers(t) /\ At(t, "link", "delete")
    /\ \/ /\ pending # None /\ editing # None
          /\ Becomes(t, [task[t] EXCEPT !.pc = "save", !.root = rootPath,
                                        !.entry = editing, !.best = pending])
          /\ SendsNext(t)
       \/ /\ pending = None \/ editing = None
          /\ Ends(t) /\ NoMore
    /\ UNCHANGED <<disk, shown, dialog, env>>

LinkSaved(t) ==
    LET l == task[t] IN
    /\ Answers(t) /\ At(t, "link", "save")
    /\ \/ /\ Writes(l.root, Saved(store[l.root], l.entry, l.best))
          /\ \/ /\ pending # None /\ editing # None
                /\ MemoryLinked(editing, pending)
             \/ /\ pending = None \/ editing = None
                /\ UNCHANGED shown
          /\ IF pending = None THEN UNCHANGED dialog ELSE ModalHidden(Tasks \ {t})
       \/ /\ SaveFails(l.root)
          /\ UNCHANGED <<shown, dialog>>
    /\ Ends(t) /\ NoMore
    /\ UNCHANGED env

-----------------------------------------------------------------------------
(* addNewAnime: a new entry n.  x is the set of the standalone entry that  *)
(* becomes a franchise with the season n, or empty.                        *)
AddNew(t, n, x) ==
    /\ edits < MaxEdits
    /\ Free(t) /\ modal = "add" /\ rootPath # None
    /\ x \subseteq entries /\ \A e \in x : n \in Inside[e]
    /\ edits' = edits + 1
    /\ Becomes(t, [NoTask EXCEPT !.kind = "add", !.pc = "create", !.root = rootPath,
                                 !.entry = n, !.found = x])
    /\ Sends(t)
    /\ UNCHANGED <<disk, shown, dialog, crashes>>

(* A folder that gets a folder in it is no entry any more.                 *)
Exists(n, have) == n \in have \/ Inside[n] \cap have # {}
WithFolder(have, n) == {e \in have : n \notin Inside[e]} \cup {n}

(* create_anime_folder or convert_standalone_to_franchise has answered.    *)
Created(t) ==
    LET l == task[t] have == folders[l.root] IN
    /\ Answers(t) /\ At(t, "add", "create")
    /\ \/ /\ Ends(t) /\ NoMore
          /\ UNCHANGED folders
       \/ /\ ~Exists(l.entry, have) /\ l.found \subseteq have
          /\ folders' = [folders EXCEPT ![l.root] = WithFolder(@, l.entry)]
          /\ Becomes(t, [l EXCEPT !.pc = IF pending = None THEN "load" ELSE "save",
                                  !.root = rootPath, !.best = pending, !.found = {}])
          /\ SendsNext(t)
    /\ UNCHANGED <<store, lastPath, torn, shown, dialog, env>>

AddSaved(t) ==
    LET l == task[t] IN
    /\ Answers(t) /\ At(t, "add", "save")
    /\ \/ /\ Writes(l.root, Saved(store[l.root], l.entry, l.best))
          /\ Becomes(t, [l EXCEPT !.pc = "load", !.root = rootPath])
          /\ SendsNext(t)
       \/ /\ SaveFails(l.root)
          /\ Ends(t) /\ NoMore
    /\ UNCHANGED <<shown, dialog, env>>

AddLoaded(t) ==
    LET r == task[t].root IN
    /\ Answers(t) /\ At(t, "add", "load")
    /\ \/ /\ Ends(t)
          /\ UNCHANGED <<disk, shown>>
       \/ /\ store[r] # Broken
          /\ abort' = TRUE
          /\ Becomes(t, [NoTask EXCEPT !.kind = "add", !.pc = "tick",
                              !.found = folders[r], !.raw = LinksOf(store[r])])
          /\ Reads(r)
          /\ UNCHANGED <<rootPath, entries, mappings, view>>
    /\ NoMore
    /\ UNCHANGED <<dialog, env>>

(* The tick after which the flag is taken back.                            *)
AddShown(t) ==
    /\ At(t, "add", "tick")
    /\ ShowLibrary(t, task[t].found, Known(task[t].raw, task[t].found))
    /\ ModalHidden(Tasks \ {t})
    /\ UNCHANGED <<disk, view, pipe, env>>

-----------------------------------------------------------------------------
(* The user moves or renames a folder, between commands.                   *)
Move(r, x, y) ==
    /\ edits < MaxEdits /\ pipe = <<>>
    /\ \A t \in Tasks : task[t].pc # "tick"
    /\ x \in folders[r] /\ y \notin folders[r]
    /\ Fits((folders[r] \ {x}) \cup {y})
    /\ folders' = [folders EXCEPT ![r] = (@ \ {x}) \cup {y}]
    /\ edits' = edits + 1
    /\ UNCHANGED <<store, lastPath, torn, shown, dialog, task, pipe, crashes>>

(* The files that a command on its way may be writing now.                 *)
Writing == {r \in Roots : \E t \in Tasks :
              /\ Answers(t) /\ task[t].root = r
              /\ \/ task[t].pc = "save"
                 \/ /\ task[t].pc = "migrate" /\ store[r] # Broken
                    /\ Migrated(store[r], task[t].found) # store[r]}

(* The program dies, perhaps in the middle of fs::write, and is started    *)
(* again with the folder opened last (autoLoadLastPath).                   *)
Restart(t) ==
    /\ crashes < MaxCrashes
    /\ crashes' = crashes + 1
    /\ \/ UNCHANGED store
       \/ \E r \in Writing : store' = [store EXCEPT ![r] = Broken]
    /\ rootPath' = lastPath /\ entries' = {} /\ mappings' = NoLink /\ abort' = FALSE
    /\ view' = "welcome"
    /\ modal' = "none" /\ editing' = None /\ pending' = None
    /\ \/ /\ lastPath = None
          /\ task' = [u \in Tasks |-> NoTask]
          /\ pipe' = <<>>
       \/ /\ lastPath # None
          /\ task' = [[u \in Tasks |-> NoTask] EXCEPT
                          ![t] = [NoTask EXCEPT !.kind = "load", !.pc = "load",
                                                !.root = lastPath]]
          /\ pipe' = <<t>>
    /\ UNCHANGED <<folders, lastPath, torn, edits>>

-----------------------------------------------------------------------------
(* The steps of task t that are not the user's.                            *)
Step(t) ==
    \/ Loaded(t)
    \/ HasMigrated(t)
    \/ \E e \in Ids : \E m \in Matches(e) : Fetched(t, e, m)
    \/ FetchSaved(t)
    \/ NextPassBegins(t)
    \/ \E m \in Mals \cup {None} : Refetched(t, m)
    \/ RefetchDeleted(t)
    \/ RefetchSaved(t)
    \/ LinkDeleted(t)
    \/ LinkSaved(t)
    \/ Created(t)
    \/ AddSaved(t)
    \/ AddLoaded(t)
    \/ AddShown(t)

Dialog ==
    \/ \E e \in Ids : OpenEdit(e)
    \/ OpenAdd
    \/ \E m \in Mals : Choose(m)
    \/ CloseModal

Opens(t) == \E r \in Roots : OpenFolder(t, r)
Adds(t, new) == \E n \in new, x \in {{}} \cup {{e} : e \in Ids} : AddNew(t, n, x)

(* Outside the program: folders are moved, the program dies.               *)
Outside ==
    \/ \E r \in Roots, x, y \in Ids : Move(r, x, y)
    \/ Restart(CHOOSE t \in Tasks : TRUE)

(* A user who does not wait for anything.                                  *)
Next ==
    \/ \E t \in Tasks : Step(t) \/ Opens(t) \/ Adds(t, Ids) \/ SaveLink(t)
                           \/ \E e \in Ids : Refetch(t, e)
    \/ Dialog
    \/ Outside

(* A user who lets the automatic fetch end before she opens another folder *)
(* or adds an anime, and lets those and a link end before she goes on.  The *)
(* folder of an anime she adds is not one the library still shows.         *)
Under(kinds) == \E t \in Tasks : task[t].kind \in kinds
PoliteUser ==
    \/ Quiet /\ \E t \in Tasks : Opens(t) \/ Adds(t, Ids \ entries)
    \/ ~Under({"load", "add"}) /\ \E t \in Tasks, e \in Ids : Refetch(t, e)
    \/ ~Under({"load", "add", "link"}) /\ (Dialog \/ \E t \in Tasks : SaveLink(t))
PoliteNext ==
    \/ \E t \in Tasks : Step(t)
    \/ PoliteUser
    \/ Outside

(* Commands are answered, searches too, and delays end: weak fairness of   *)
(* Step(t), which changes task[t], with its guard written out.             *)
Ready(t) == ~Idle(t) /\ (Answers(t) \/ task[t].pc \in {"search", "pause", "tick"})
Fairness == \A t \in Tasks :
    <>[]Ready(t) => []<><<task[t]' # task[t] /\ Step(t)>>_vars

Spec       == Init /\ [][Next]_vars /\ Fairness
PoliteSpec == Init /\ [][PoliteNext]_vars /\ Fairness

-----------------------------------------------------------------------------
TypeOK ==
    /\ folders \in [Roots -> SUBSET Ids]
    /\ store \in [Roots -> {Broken} \cup Seq(Record)]
    /\ torn \subseteq Roots
    /\ lastPath \in Roots \cup {None} /\ rootPath \in Roots \cup {None}
    /\ entries \subseteq Ids /\ mappings \in Links /\ abort \in BOOLEAN
    /\ view \in {"welcome", "cards"}
    /\ modal \in {"none", "edit", "add"}
    /\ editing \in Ids \cup {None} /\ pending \in Mals \cup {None}
    /\ task \in [Tasks -> Task]
    /\ pipe \in Seq(Tasks)
    /\ edits \in 0 .. MaxEdits /\ crashes \in 0 .. MaxCrashes

Whole(r)  == store[r] # Broken
Single(s, e) == \A j, k \in Of(s, e) : j = k

(* The link a card shows is the one its mapping file names, so that the    *)
(* next start shows it too: link, fetch and refetch change file and        *)
(* state.mappings alike, whatever their order, and loadLibrary repeats     *)
(* what migrate_mappings did.  Once a write of the file has failed it may  *)
(* have lost the links of others, or not got those that were migrated;     *)
(* what it still names the cards show.  This holds where no entry has had  *)
(* two records of late, see OneRecord: of the records of one id            *)
(* migrate_mappings may move the second, and loadLibrary shows the link of *)
(* the first.                                                              *)
Told(e) ==
    LET saved == Link(store[rootPath], e) IN
    \/ mappings[e] = saved
    \/ saved = None /\ rootPath \in torn

ShownIsSaved ==
    view = "cards" /\ ~Under({"load", "add"}) /\ Whole(rootPath) =>
        \A e \in entries : Single(store[rootPath], e) => Told(e)

(* The cards shown are those of the library that is kept on disk, as far   *)
(* as it could be written.                                                 *)
CardsAreTrue == TypeOK /\ ShownIsSaved

(* No link of an existing entry is lost or changed but by a save for that  *)
(* very entry: not by saves of others, by a migration or by a restart that *)
(* leaves the file whole (the comment on mapping_lock, main.rs 92).        *)
SavingTo(r, e) ==
    \E t \in Tasks : Answers(t) /\ task[t].pc = "save"
                        /\ task[t].root = r /\ task[t].entry = e
LinksKept ==
    [][\A r \in Roots, e \in Ids :
          /\ Whole(r) /\ Whole(r)' /\ e \in folders[r]
          /\ Link(store[r], e) # None /\ Single(store'[r], e)
          /\ ~SavingTo(r, e)
          => Link(store'[r], e) = Link(store[r], e)]_vars

(* Every task ends: the automatic fetch after its passes, and what waits   *)
(* for commands in the order they are answered.                            *)
TasksEnd == \A t \in Tasks : ~Idle(t) ~> Idle(t)

(* An entry has one record: an orphan moves to an entry "that is not yet   *)
(* covered by any mapping" (main.rs 1285).                                 *)
OneRecord == \A r \in Roots : Whole(r) => \A e \in Ids : Single(store[r], e)

(* The automatic fetch only fills gaps (it collects the "entries [that]    *)
(* still need a poster", app.js 2311): it overwrites no link made since.   *)
FetchFillsGaps ==
    [][\A t \in Tasks : FetchSaved(t) => mappings[task[t].entry] = None]_vars

(* One automatic fetch at a time: addNewAnime aborts "any in-progress      *)
(* autoFetchPosters loop" (app.js 1765).                                   *)
OneLoop == \A t, u \in Tasks :
              task[t].kind = "fetch" /\ task[u].kind = "fetch" => t = u

=============================================================================

----------------------------- MODULE SmbHandles -----------------------------
(***************************************************************************)
(* The Android SMB server of smb2_server_jni.c: the handle table, the      *)
(* transfer history shown by the app, and the command handlers that        *)
(* libsmb2 calls on the server thread, interleaved with the application    *)
(* threads' start, stop and clear calls.                                   *)
(*                                                                         *)
(* libsmb2 runs one command handler at a time, on the server thread, so a  *)
(* handler is one action.  nativeClearTransfers may run on another thread  *)
(* between a handler's critical sections; every such order leaves the      *)
(* state of the order "handler, then clear", so no action is split.        *)
(*                                                                         *)
(* A handler that returns an error has undone what it did (alloc_handle    *)
(* followed by free_handle gives back the table it found), so the error    *)
(* paths of create_cmd are its guard, Refused, and change nothing.         *)
(***************************************************************************)
EXTENDS Integers, Sequences, FiniteSets

CONSTANTS
    MaxHandles,     \* MAX_HANDLES
    MaxTransfers,   \* MAX_TRANSFERS
    Clients,        \* SMB connections
    Paths,          \* the paths under the shared folder that clients name
    Names,          \* their last components
    NameOf,         \* path -> last component
    ParentOf,       \* path -> containing directory, or Root
    Root,           \* the shared folder itself
    NoPath,         \* the empty path of an unused handle
    Chunks,         \* sizes of one write
    MaxBytes,       \* bound: bytes written since the server was started
    MaxConnects     \* bound: connections accepted since the server was started

ASSUME SizesAssumption ==
    /\ MaxHandles \in Nat \ {0} /\ MaxTransfers \in Nat
    /\ MaxBytes \in Nat /\ MaxConnects \in Nat
    /\ Chunks \subseteq Nat

ASSUME PathsAssumption ==
    /\ Root \notin Paths /\ NoPath \notin Paths
    /\ NameOf \in [Paths -> Names]
    /\ ParentOf \in [Paths -> Paths \cup {Root}]

VARIABLES
    fs,             \* what the phone's storage holds at each path
    handles,        \* handle_table.handles
    openCount,      \* handle_table.count
    history,        \* transfer_history: entries[0 .. count-1]
    running,        \* server_running, between a completed start and stop
    held,           \* connected client -> file ids its creates returned
    bytesWritten,   \* bytes_written
    connectionCount \* connection_count

table == <<handles, openCount>>
stats == <<bytesWritten, connectionCount>>
vars  == <<fs, handles, openCount, history, running, held,
           bytesWritten, connectionCount>>

-----------------------------------------------------------------------------
(* File ids are the handle's index.  A CLOSE that is compounded with its   *)
(* CREATE carries an all-ones id, which file_id_to_idx turns into -1.      *)
Ids       == 0 .. MaxHandles - 1
RelatedId == -1

(* transfer_slot is -1 for a handle that is not tracked; here slot 0 is    *)
(* untracked and slot s is the code's slot s - 1, an index of history.     *)
Untracked == 0

Dispositions ==
    {"SUPERSEDE", "OPEN", "CREATE", "OPEN_IF", "OVERWRITE", "OVERWRITE_IF"}

Kind == {"dir", "file"}
Node == Kind \cup {"none"}

Status == {"active", "completed", "cancelled"}

(* A handle has a descriptor (fd >= 0) exactly when it is of a file.       *)
(* delete_on_close is left out: create_cmd acts on it at once, and the     *)
(* value set_info_cmd stores in it is never read (close_cmd ignores it).   *)
Unused == [used |-> FALSE, kind |-> "none", slot |-> Untracked, bytes |-> 0,
           path |-> NoPath]

Handle == [used : {TRUE}, kind : Kind, slot : 0 .. MaxTransfers,
           bytes : Nat, path : Paths] \cup {Unused}

Entry == [name : Names, bytes : Nat, status : Status]

UsedIds   == {i \in Ids : handles[i].used}
FreeIds   == Ids \ UsedIds
Connected == DOMAIN held

-----------------------------------------------------------------------------
(* JNI_OnLoad zeroes both tables.                                          *)
Init ==
    /\ fs \in [Paths -> {"none"}]
    /\ handles = [i \in Ids |-> Unused]
    /\ openCount = 0
    /\ history = <<>>
    /\ running = FALSE
    /\ held = [c \in {} |-> {}]
    /\ bytesWritten = 0
    /\ connectionCount = 0

(* nativeStart, up to the server thread serving the port.                  *)
Start ==
    /\ ~running
    /\ running' = TRUE
    /\ connectionCount' = 0
    /\ bytesWritten' = 0
    /\ UNCHANGED <<fs, table, history, held>>

(* nativeStop: the server loop ends and drops its clients, then every      *)
(* handle is closed.  The transfer history is left as it is.               *)
Stop ==
    /\ running' = FALSE
    /\ held' = [c \in {} |-> {}]
    /\ handles' = [i \in Ids |-> Unused]
    /\ openCount' = 0
    /\ UNCHANGED <<fs, history, stats>>

(* nativeClearTransfers: only the count is reset.                          *)
ClearTransfers ==
    /\ history' = <<>>
    /\ UNCHANGED <<fs, table, running, held, stats>>

(* The application process dies and is started again; files survive.       *)
ProcessRestart ==
    /\ running' = FALSE
    /\ held' = [c \in {} |-> {}]
    /\ handles' = [i \in Ids |-> Unused]
    /\ openCount' = 0
    /\ history' = <<>>
    /\ bytesWritten' = 0
    /\ connectionCount' = 0
    /\ UNCHANGED fs

(* The serve loop ends by itself (select or accept fails): the thread       *)
(* drops the clients and clears server_running, nobody frees the handles.  *)
ServerDies ==
    /\ running
    /\ running' = FALSE
    /\ held' = [c \in {} |-> {}]
    /\ UNCHANGED <<fs, table, history, stats>>

(* on_new_client.  Neither it nor the end of a connection touches handles. *)
Connect(c) ==
    /\ running
    /\ c \notin Connected
    /\ connectionCount < MaxConnects
    /\ connectionCount' = connectionCount + 1
    /\ held' = [d \in Connected \cup {c} |-> IF d = c THEN {} ELSE held[d]]
    /\ UNCHANGED <<fs, table, history, running, bytesWritten>>

(* The client vanishes, or logs off: logoff_cmd and tree_disconnect_cmd do *)
(* nothing and no destruction handler is installed, so its handles stay.   *)
Disconnect(c) ==
    /\ c \in Connected
    /\ held' = [d \in Connected \ {c} |-> held[d]]
    /\ UNCHANGED <<fs, table, history, running, stats>>

-----------------------------------------------------------------------------
(* The early returns of create_cmd; ENOMEM first.  kind is "dir" when the  *)
(* create options ask for a directory.                                     *)
Refused(p, kind, disp) ==
    \/ FreeIds = {}
    \/ /\ kind = "dir"
       /\ \/ fs[p] = "none" /\ disp = "OPEN"
          \/ fs[p] = "file"
    \/ /\ kind = "file"
       /\ \/ fs[p] = "none" /\ disp \in {"OPEN", "OVERWRITE"}
          \/ fs[p] = "dir"
          \/ fs[p] = "file" /\ disp = "CREATE"

(* alloc_handle takes the lowest free slot.  The mutant skips the used test.*)
IsLowestAny(i) == i \in Ids /\ \A j \in FreeIds : i <= j

IsLowestFree(i) == i \in FreeIds /\ \A j \in FreeIds : i <= j

(* mkdir and open with O_CREAT need the containing directory.              *)
Creatable(p) ==
    fs[p] = "none" => ParentOf[p] \in {Root} \cup {q \in Paths : fs[q] = "dir"}

IsEmptyDir(p) == \A q \in Paths : ParentOf[q] = p => fs[q] = "none"

(* create_cmd acts on DELETE_ON_CLOSE at once: unlink, or rmdir, which     *)
(* fails on a directory that is not empty.  Either may fail besides (a      *)
(* read-only card, the phone's storage rules), and create_cmd goes on as   *)
(* if it had not.                                                          *)
NodesAfterCreate(p, kind, doc) ==
    {kind} \cup IF doc /\ (kind = "dir" => IsEmptyDir(p)) THEN {"none"} ELSE {}

(* mark_transfer_cancelled: the newest completed entry with the file's     *)
(* name becomes cancelled, whether the file is gone or not.  The mutant    *)
(* drops one half of the test.                                             *)
CompletedAnyState(name) == {k \in DOMAIN history : history[k].name = name}

Completed(name) == {k \in DOMAIN history :
                        history[k].status = "completed" /\ history[k].name = name}

HistoryAfterDelete(name) ==
    [k \in DOMAIN history |->
        IF k \in Completed(name) /\ \A j \in Completed(name) : j <= k
        THEN [history[k] EXCEPT !.status = "cancelled"]
        ELSE history[k]]

(* The handle alloc_handle fills in, with what create_cmd adds to it.  The *)
(* mutant leaves transfer_slot at the 0 of the memset.                     *)
OpenedSlotZero(p, kind) == [used |-> TRUE, kind |-> kind, slot |-> 1,
                            bytes |-> 0, path |-> p]

Opened(p, kind) == [used |-> TRUE, kind |-> kind, slot |-> Untracked,
                    bytes |-> 0, path |-> p]

(* create_cmd.  mkdir and open may also fail for reasons of the phone's    *)
(* own; that leaves everything as it was.                                  *)
Create(c, p, kind, disp, doc) ==
    /\ c \in Connected
    /\ ~Refused(p, kind, disp)
    /\ Creatable(p)
    /\ \E i \in Ids :
        /\ IsLowestFree(i)
        /\ handles' = [handles EXCEPT ![i] = Opened(p, kind)]
        /\ held' = [held EXCEPT ![c] = @ \cup {i}]
    /\ openCount' = openCount + 1
    /\ \E node \in NodesAfterCreate(p, kind, doc) : fs' = [fs EXCEPT ![p] = node]
    /\ history' = IF doc THEN HistoryAfterDelete(NameOf[p]) ELSE history
    /\ UNCHANGED <<running, stats>>

(* The log has an entry left; the handle's count after a write of n bytes. *)
(* The mutants are off by one and forget to accumulate.                    *)
HasRoomOffByOne == Len(history) <= MaxTransfers
HasRoom         == Len(history) < MaxTransfers

TotalOfLast(i, n) == n
Total(i, n)       == handles[i].bytes + n

(* write_cmd.  The first write of a handle takes the next history entry,   *)
(* if there is one left; later writes update the entry of its slot.        *)
Write(c, i, n) ==
    /\ c \in Connected
    /\ i \in held[c]
    /\ handles[i].used /\ handles[i].kind = "file"
    /\ bytesWritten + n <= MaxBytes
    /\ LET takes == handles[i].slot = Untracked /\ HasRoom
           fresh == [name |-> NameOf[handles[i].path], bytes |-> 0,
                     status |-> "active"]
           hist  == IF takes THEN Append(history, fresh) ELSE history
           slot  == IF takes THEN Len(history) + 1 ELSE handles[i].slot
           total == Total(i, n)
       IN  /\ handles' = [handles EXCEPT ![i].slot = slot, ![i].bytes = total]
           /\ history' = [k \in DOMAIN hist |->
                              IF k = slot THEN [hist[k] EXCEPT !.bytes = total]
                              ELSE hist[k]]
    /\ bytesWritten' = bytesWritten + n
    /\ UNCHANGED <<fs, openCount, running, held, connectionCount>>

(* free_handle, as close_cmd reaches it.  The mutants forget the count and *)
(* the entry's status.                                                     *)
FreeHandleKeepsCount(i) ==
    /\ handles' = [handles EXCEPT ![i] = Unused]
    /\ history' = [k \in DOMAIN history |->
                      IF k = handles[i].slot
                      THEN [history[k] EXCEPT !.status = "completed"]
                      ELSE history[k]]
    /\ UNCHANGED openCount

FreeHandleKeepsEntry(i) ==
    /\ handles' = [handles EXCEPT ![i] = Unused]
    /\ openCount' = openCount - 1
    /\ UNCHANGED history

FreeHandle(i) ==
    /\ handles' = [handles EXCEPT ![i] = Unused]
    /\ openCount' = openCount - 1
    /\ history' = [k \in DOMAIN history |->
                      IF k = handles[i].slot
                      THEN [history[k] EXCEPT !.status = "completed"]
                      ELSE history[k]]

(* close_cmd.  It answers success whatever the id, and an id that names no *)
(* used handle, such as RelatedId, frees nothing; either way the client    *)
(* holds the id no longer.                                                 *)
Close(c, i, id) ==
    /\ c \in Connected
    /\ i \in held[c]
    /\ id \in {i, RelatedId}
    /\ held' = [held EXCEPT ![c] = @ \ {i}]
    /\ IF id \in Ids /\ id \in UsedIds
       THEN FreeHandle(id)
       ELSE UNCHANGED <<table, history>>
    /\ UNCHANGED <<fs, running, stats>>

-----------------------------------------------------------------------------
(* The handlers libsmb2 calls for connected clients.                       *)
Serve ==
    \E c \in Clients :
        \/ Connect(c)
        \/ Disconnect(c)
        \/ \E p \in Paths, kind \in Kind, disp \in Dispositions, doc \in BOOLEAN :
              Create(c, p, kind, disp, doc)
        \/ \E i \in Ids :
              \/ \E n \in Chunks : Write(c, i, n)
              \/ \E id \in {i, RelatedId} : Close(c, i, id)

(* One uninterrupted run of the server.                                    *)
ServeNext == Start \/ Serve

(* The server stops, dies and is restarted, but the log is never cleared.  *)
RestartNext == Start \/ Stop \/ ServerDies \/ Serve

Next == RestartNext \/ ClearTransfers \/ ProcessRestart

ServeSpec   == Init /\ [][ServeNext]_vars
RestartSpec == Init /\ [][RestartNext]_vars
Spec        == Init /\ [][Next]_vars

-----------------------------------------------------------------------------
TypeOK ==
    /\ fs \in [Paths -> Node]
    /\ handles \in [Ids -> Handle]
    /\ openCount \in Nat
    /\ history \in Seq(Entry)
    /\ Len(history) <= MaxTransfers
    /\ running \in BOOLEAN
    /\ Connected \subseteq Clients
    /\ held \in [Connected -> SUBSET Ids]
    /\ bytesWritten \in Nat
    /\ connectionCount \in Nat

(* handle_table.count agrees with the used flags, through every alloc,     *)
(* free, double free, stop and restart.                                    *)
CountMatchesUsed == openCount = Cardinality(UsedIds)

(* A file id belongs to one client from the create that returned it to the *)
(* close that ends it: while a connected client holds it the handle is in  *)
(* use, and no other client was given the same slot.                       *)
HeldIdsExclusive ==
    \A c \in Connected : \A i \in held[c] :
        /\ handles[i].used
        /\ \A d \in Connected \ {c} : i \notin held[d]

(* What every start, stop, clear, crash, connection and command keeps: the *)
(* types, the open count, and the clients' exclusive ids.                  *)
TableInv == TypeOK /\ CountMatchesUsed /\ HeldIdsExclusive

(* "Per-handle transfer tracking" (write_cmd): an entry of the log counts  *)
(* one open handle, and a tracked handle's entry exists.                   *)
TrackedOnce ==
    \A i \in UsedIds : handles[i].slot # Untracked =>
        /\ handles[i].slot \in DOMAIN history
        /\ \A j \in UsedIds \ {i} : handles[j].slot # handles[i].slot

(* "0=active, 1=completed" (struct transfer_entry): an entry that is no    *)
(* longer active has no open handle still writing to it.                   *)
FinishedIsClosed ==
    \A i \in UsedIds : handles[i].slot \in DOMAIN history =>
        history[handles[i].slot].status = "active"

(* While the log is never cleared, each entry is written by at most one    *)
(* open handle, and only as long as it is active.                          *)
LogInv == TrackedOnce /\ FinishedIsClosed

(* The other direction: an active entry is being written by an open handle *)
(* of the same file, with the byte count the handle has.                   *)
ActiveIsOpen ==
    \A k \in DOMAIN history : history[k].status = "active" =>
        \E i \in UsedIds :
            /\ handles[i].slot = k
            /\ NameOf[handles[i].path] = history[k].name
            /\ handles[i].bytes = history[k].bytes

(* Every byte written through the server is counted by the entry of the    *)
(* handle that wrote it, or by a handle the full log could not track: in   *)
(* one run of the server, with the log never cleared, no byte is lost and  *)
(* none is counted twice.                                                  *)
BytesOf(log) == LET sum[k \in 0 .. Len(log)] ==
                        IF k = 0 THEN 0 ELSE sum[k - 1] + log[k].bytes
                IN  sum
LoggedBytes  == BytesOf(history)[Len(history)]
BytesCounted == Len(history) < MaxTransfers => LoggedBytes = bytesWritten

(* The log shown on the phone is true of one run of the server: an active  *)
(* entry is an open upload with its bytes, and all bytes are in the log.   *)
LogTellsTrue == ActiveIsOpen /\ BytesCounted

(* The log is append-only and an entry only moves forward: active to       *)
(* completed to cancelled; the file it names never changes and, once       *)
(* finished, neither does its size.                                        *)
Forward == {<<"active", "completed">>, <<"completed", "cancelled">>}

LogMovesForward ==
    [][ /\ Len(history') >= Len(history)
        /\ \A k \in DOMAIN history :
            LET old == history[k]  new == history'[k] IN
            /\ new.name = old.name
            /\ new.status = old.status \/ <<old.status, new.status>> \in Forward
            /\ old.status # "active" => new.bytes = old.bytes
      ]_history

(* What a reader of the log takes "cancelled" for: an entry becomes so when *)
(* the file it names goes.  mark_transfer_cancelled knows neither whether  *)
(* the file went nor in which directory it was.                            *)
CancelledIsGone ==
    [][ \A k \in DOMAIN history \cap DOMAIN history' :
            history[k].status # "cancelled" /\ history'[k].status = "cancelled" =>
                \A p \in Paths : NameOf[p] = history[k].name => fs'[p] # "file"
      ]_history

(* The label "N connected" (AniShelfScreens.kt) shows connection_count: it *)
(* never exceeds the number of clients connected.                          *)
ConnectedLabel == running => connectionCount <= Cardinality(Connected)
=============================================================================

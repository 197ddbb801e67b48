# AniShelf: TLA+ models, model checks and proofs

AniShelf is a desktop library for anime folders: a Tauri application whose user
interface is `src/app.js` and whose back end is `src-tauri/src/main.rs`. It copies
folders to a phone over SMB. The phone runs the companion application under
`android/`: a Kotlin service and screen around an SMB2 server written in C
(`android/app/src/main/jni/smb2_server_jni.c`) on top of a vendored libsmb2.

Paths below are relative to the repository's root.

## 1. Inventory

| Part | State it keeps | Operations | Talks to |
|---|---|---|---|
| SMB command handlers (`smb2_server_jni.c` 20-703) | `handle_table` (256 handles), `transfer_history` (128 entries), byte and connection counters, files of the shared folder | create, close, read, write, flush, query_directory, query_info, set_info, connect, logoff | called by libsmb2 on the server thread; read and cleared by Kotlin threads |
| Server lifecycle (`smb2_server_jni.c` 713-825, `libsmb2.c` 4057-4276) | `server_running`, `server.fd`, `server_thread` | nativeStart, nativeStop, the server thread, the serve loop | called by the Kotlin service |
| Kotlin service (`SmbServerService.kt`) | `_isRunning`, counters, the "all transfers complete" debounce | startServer, stopServer, pollStats, onDestroy | JNI; bound by the view model |
| Kotlin view model (`AniShelfViewModel.kt`) | status shown, logs shown, folder | toggleServer, waitForRunning, startStatsPolling, clearLogs, setSelectedFolder | the service, JNI |
| libsmb2: PDU queues and socket (`pdu.c`, `socket.c`, `init.c`) | `outqueue`, `waitqueue`, `recv_state`, credits, message ids | queueing and compounding, writing and reading in parts, time-outs, destruction of the context | both sides of the library; the network |
| libsmb2: wire format (`smb2-cmd-*.c`, `smb2-data-*.c`) | none | encode and decode each command's request and reply | PDU queues |
| libsmb2: server (`libsmb2.c` 3003-4276) | `server`, one context per client, `next_pdu`, tree ids | serve loop, accept, negotiate, session setup, dispatch of requests | the JNI handlers |
| libsmb2: client calls (`libsmb2.c` 370-2900, `sync.c`, `errors.c`) | `smb2fh`, `smb2dir`, the data of each call | the file calls, as chains of PDUs, and their synchronous forms | PDU queues; the caller |
| libsmb2: connecting and authentication (`libsmb2.c`, `ntlmssp.c`, `spnego-wrapper.c`, `smb2-signing.c`, `smb3-seal.c`) | `connect_data`, keys, the hash of the conversation | smb2_connect_share_async and its callbacks, the server's half of them | both sides |
| Transfer back end (`main.rs` 866-1246) | `CANCEL_TRANSFER`, `TRANSFER_RUNNING`, byte counters | discover_smb_phone, verify_smb_ip, list_files, transfer_folder_to_phone, copy_dir_to_smb, cancel_transfer | the phone over SMB; the user interface by commands and events |
| Transfer user interface (`app.js` 2430-2941) | `transferQueue`, `transferInProgress`, selection, phone address | openTransferModal, startTransfer, processNextInQueue, cancel, retry, close | the transfer back end |
| Mapping files (`main.rs` 100-124, 375-456, 540-578, 1255-1327) | one JSON file per library, `mapping_lock` | save_mapping, load_mappings, convert_standalone_to_franchise, migrate_mappings | the user interface |
| Poster and list caches (`main.rs` 458-526, 605-840) | files under the application's data directory | cache_poster, get/delete_cached_poster, user list cache, settings | the user interface, MyAnimeList |
| Library user interface (`app.js` 1-1135) | `library`, `autoFetchAbort`, `_posterCaching` | loadLibrary, render, openFolder, poster cache | back end commands |
| Matching and fetching (`app.js` 812-898, 2191-2424) | mappings of entries | scoreMatch, pickBestMatch, autoFetchPosters, saveMalMapping, refetchSingle | back end commands |
| MAL list and sync (`app.js` 481-622, 1651-1970) | user name, list, sync state | startup sync, syncWithMal, signOut, addNewAnime | back end commands |

### What is hard in it

* **The handle table.** libsmb2 calls the handlers from one thread, but nothing
  tells them that a client has left, a CLOSE compounded with its CREATE names no
  handle, and a log entry is tied to a handle by an index that two other
  operations (stop, clear) reset or ignore.
* **Starting and stopping.** `server_running` is set by the thread that is
  started, not by the call that starts it, and `server.fd` is written by the serve
  loop and used by nativeStop without a lock. The user interface learns of the
  outcome through two polled flags.
* **Transfers.** A cancellation is one global flag that the next transfer resets;
  a file that exists on the phone is skipped whatever its length; the user
  interface starts the next transfer of its queue from a timer.
* **Mapping files.** They are rewritten whole, in place, from what was read: a
  crash in the middle of a write loses them all, a file that does not parse is an
  error to one command and an empty library to another, and a migration guesses by
  name which folder an old record belongs to.
* **Callbacks of callbacks** (libsmb2). A login is six callbacks in a row and a file
  call up to three; each may be the one that fails, times out or is destroyed with the
  context, and each has to free what the former ones allocated and to tell the caller
  once.
* **One stream, many requests** (libsmb2). Replies come out of order, in chains, twice
  (interim) or too late; the reader keeps its place in the stream by counting bytes;
  requests wait for credits that only replies bring.
* **Two sides that must agree** (libsmb2). Every command is encoded by one function
  and decoded by another; dialect, signing and keys are decided on both sides from
  different inputs.
* **Long-running loops in the user interface** (automatic fetching, poster
  downloads, list synchronisation) keep running across awaits while the user
  opens another folder, adds an entry or signs out.

### What makes each part correct

* Handlers: the count agrees with the table; a file id belongs to one client;
  an entry of the log counts one open handle, is active exactly while that
  handle is open, and only moves forward; no written byte is lost or counted
  twice.
* Lifecycle: one server at a time; a stop returns and leaves no thread and no
  socket; what the screen says is what the server does.
* Transfers: one transfer at a time and in the order of the queue; a transfer
  that reports success has left complete files; a cancelled one leaves no partial
  file; every started transfer ends in an event.
* libsmb2's queues: a callback runs once, with the reply to its own request, and in
  the order of its chain; every call that was sent ends.
* libsmb2's wire format: what one side encodes the other reads whole and at its place,
  and then stands at the beginning of the next command.
* libsmb2's server: each request is answered once, as itself, on its tree, and only
  after the login.
* libsmb2's client calls: a success means that every PDU succeeded; nothing stays open
  on the server, nothing allocated stays behind, nothing is used after it is freed.
* libsmb2's login: both sides come to one dialect, one answer about signing and one
  key; nobody is let in who has not proved a password, unless the server wants none.
* Mapping files: an entry once saved is there until it is replaced; a migrated
  entry keeps its data; no crash loses more than the write it interrupts.
* Library: what is shown belongs to the folder that was opened last; a poster is
  downloaded by one call at a time; a loop that was told to stop stops.

## 2. The modules

| Module | Models | Role |
|---|---|---|
| `SmbHandles` | the command handlers, the handle table and the transfer log | component |
| `SmbHandlesProofs` | | theorems about `SmbHandles` |
| `ServerLifecycle` | starting, stopping and leaving: view model, service, JNI calls, server thread, serve loop | component |
| `ServerSwitch` | what the switch on the screen promises | abstract specification, implemented by `ServerLifecycle` |
| `ServerLifecycleProofs` | | theorems about `ServerLifecycle` |
| `Smb2Transport` | libsmb2's client end of a connection: queues, credits, socket, time-outs | component |
| `Smb2TransportProofs` | | theorems about `Smb2Transport` |
| `Smb2Wire` | bytes, offsets, padding: putting and getting | operators |
| `Smb2FileCommands`, `Smb2QueryCommands`, `Smb2SessionCommands` | encoders and decoders of each command | operators |
| `Smb2Data` | file information, directory entries, security descriptors | operators |
| `Smb2Exchange` | a packet from the encoders to the reader's phases | component, composes the five above |
| `Smb2Server` | libsmb2's serve loop, request callbacks, trees, waitqueue | component |
| `Smb2ServerProofs` | | theorems about `Smb2Server` |
| `Smb2Errors` | `errors.c`: statuses to errno | operators |
| `Smb2Calls` | the client's file calls and their synchronous forms | component, uses `Smb2Errors` |
| `Smb2Spnego`, `Smb2Ntlmssp` | the envelopes and the messages of the authentication | operators |
| `Smb2Login` | connecting, on both sides | component, uses the two above |
| `Smb2ClientProofs` | | theorems about `Smb2Calls` and about `Smb2Login` |
| `CopyJob` | `transfer_folder_to_phone`, `copy_dir_to_smb`, `cancel_transfer` | component |
| `CopyJobProofs` | | theorems about `CopyJob` |
| `TransferQueue` | the transfer window of `app.js` | component |
| `TransferLine` | one entry after the other, in order, none forgotten | abstract specification, implemented by `TransferQueue` |
| `TransferQueueProofs` | | theorems about `TransferQueue` |
| `Library` | the library of `app.js` and the mapping files of `main.rs` | component |
| `LibraryProofs` | | theorems about `Library` |
| `MCSmbHandles`, `MCServerLifecycle`, `MCSmb2Transport`, `MCSmb2Exchange`, `MCSmb2Server`, `MCSmb2Calls`, `MCSmb2Login`, `MCCopyJob`, `MCTransferQueue`, `MCLibrary` | | instances for TLC |

libsmb2 is one library used from both sides, and its modules cut it by what can go
wrong. `Smb2Exchange` is about the bytes of one packet and takes the order of packets
as given; `Smb2Transport`, `Smb2Server` and `Smb2Calls` are about orders and take a PDU
for one thing. `Smb2Calls` assumes of the connection what `Smb2Transport` checks
(`AnsweredOnce`, `ChainInOrder`, `SentIsTold`); `Smb2Server` calls handlers that return
-1, 0 or 1, which `SmbHandles` is the inside of; `Smb2Login` stands for the first four
messages of a dialogue that `Smb2Server` takes for two.

The modules meet at small interfaces. `ServerLifecycle` ends a stop with a step
whose effect on the handles is `SmbHandles!Stop`, and `SmbHandles` takes a start or
a stop for one step. `TransferQueue` has, for each transfer it sends, the three
states of `CopyJob` that it can tell apart (sent, running, ended), and relies on
`CopyJob!JobEnds`; `CopyJob` in turn has one job at a time while `MaxOverlaps` is not
used, because `TransferQueue!OneTransfer` holds, and overlapping jobs because it does
not hold for a user who does not wait.

### 2.1 `SmbHandles`

libsmb2 reads a request, calls the handler and sends the answer on one thread, so
a handler is one action. The two critical sections inside a handler (handles, log)
can be separated by `nativeClearTransfers`, which a Kotlin thread calls; every such
order ends in the state of "handler, then clear", so handlers are not split.

| Code | Model |
|---|---|
| `handle_table.handles[i]`, `.count` | `handles[i]`, `openCount` |
| `fd >= 0` | `kind = "file"` |
| `transfer_slot`, -1 if untracked | `slot`, 0 if untracked and otherwise one more than the code's index |
| `transfer_history.entries[0..count-1]` | the sequence `history` |
| file ids sent to a client | `held[c]`, what each connected client knows |
| `alloc_handle`, lowest free index | `IsLowestFree` |
| `create_cmd` with its early returns | `Create`, `Refused` |
| `write_cmd` | `Write` |
| `close_cmd`, `free_handle` | `Close`, `FreeHandle` |
| `mark_transfer_cancelled` | `Completed`, `HistoryAfterDelete` |
| `nativeStart`, `nativeStop`, `nativeClearTransfers`, `JNI_OnLoad` | `Start`, `Stop`, `ClearTransfers`, `ProcessRestart` |

`create_cmd` acts on DELETE_ON_CLOSE at once and nothing reads the flag that
`set_info_cmd` stores, so the flag is left out. It looks at the result of neither
`unlink` nor `rmdir`: in the model either may fail (`NodesAfterCreate`), and the entry
of the log becomes cancelled all the same. A handler that fails has given back
what it took; its failure changes nothing and is a guard. A client that closes
inside a compound request names the handle by an all-ones id, which
`file_id_to_idx` turns into -1: `Close` has both forms. Reading, listing and
querying change none of this state. File contents are left out: the properties are
about identities and counts.

### 2.2 `ServerLifecycle` and `ServerSwitch`

Four kinds of actors: the main thread (view model, and `nativeStop` with its
`pthread_join`), one coroutine per `startServer`, one server thread per successful
`nativeStart`, the user. They share `server_running` and the struct `server` without
a lock, so each access is a step. `server.fd` is 0 after the `memset`, -1 while
nothing is bound, and otherwise names the thread whose socket it is. The end of the
serve loop and the end of `server_thread_func` both close and reset it; they are
`LoopCloses` and `ThreadExits`.

The code relies on delays: the screen allows a stop only 250 ms or more after the
start was seen, and `waitForRunning` gives up after 5 s. There is no clock in the
model; instead there are three next-state relations.

* `Next`: any order of anything.
* `DelayedNext`: the delays are long enough (`Settled` guards `GivesUp` and
  `ToggleStop`) and the system lets the service go to the foreground.
* `TimelyNext`: in addition the user does not leave the application during a start.

`ServerSwitch` has two pieces of state, what the screen shows and whether a server
thread exists, and three promises: a server comes up only while the screen shows
STARTING, that is after a press; the screen shows STOPPED only when no server is up;
and a press is answered, the screen does not stay at STARTING. `SwitchSpec` is its
specification under the mapping given at the end of `ServerLifecycle`, its fairness
included.

### 2.3 `CopyJob`

A job is a program counter with one label per `await` of `copy_dir_to_smb`. The
recursion over folders is flattened to the list of items it visits (`Walk`, given per
entry, in the order of the recursion); what the folder structure contributes, the
look at the cancel flag before every item and the directories created before their
contents, is kept. A file is a set of written chunks, each marked with the entry it
came from: this tells apart whole, partial, mixed and foreign files. The folder on
the phone is named after the last component of the local path, so two entries may
share `Files`.

The crate `smb2` is external. Assumed of it, from the calls in `main.rs`:
`write_file_with_progress` creates or empties the file, calls back after each chunk
and stops when the callback says so; `stat`, `create_directory` and `delete_file` are
one exchange each; a file that is deleted while
another job writes it is unlinked and the writer goes on without a name (`Unnamed`).
Percentages, speeds and events are left out.

Each of these calls can fail in two ways: always over a connection that has broken, and,
over one that holds, when the phone refuses it (`Refuse`, bounded by `MaxRefusals`), as it
does with no handle left (`smb2_server_jni.c` 180) or with a full disk. The code treats the
two alike, and so does the model: any failed `stat` means that nothing is there
(`StatRefused`; `main.rs` 1007, 1048), and a failed deletion is ignored (`DeleteFails`,
`PurgeFails`; 1021, 1125). So a partial file stays when its deletion is refused, and a whole
one is written over, and deleted if that fails, when its `stat` is. Two pieces of history say
which files these are: `leftover`, the files whose deletion failed or never came, and
`misled` of a job, that the phone has the file it takes for missing.

The code does not keep jobs from overlapping; only the user interface does, and
`overlaps` counts how often it did not. Then two jobs share `CANCEL_TRANSFER` and
`CURRENT_REMOTE_FILE`, and the loop of one may delete the file that the other has
finished (`LoopCancelled`, `Purge`): `WholeFilesStay`, `NoPartialLeft` and `OkIsWhole` are
promised for jobs that do not overlap, `JobEnds`, `CountIsTotal` and `RemoteIsWritten` for all.

### 2.4 `TransferQueue` and `TransferLine`

JavaScript runs a handler to its next `await` without interruption, so each such
stretch is a step, and the answers of commands (`calls`) are steps of their own that
come in any order. The document object model is reduced to what decides something:
which form of the window is visible (`view`), which of its six parts (`screen`),
whether the confirmation is open, and whether the start button, as it was rendered
last, is enabled (`canStart`). `MaxQueue`, `MaxTimers` and `MaxCalls` bound the
entries waiting, the timers set and the answers awaited. Lists of files are reduced to the entry they belong to and the
selection to none, some or all; an entry is taken to have no files (`listed` is false) or
two and more.

`dialog = "stale"` says that the transfer the confirmation was opened for has ended.
`PatientSpec` is the specification for a user who waits for searches, lists and the
300 ms between two transfers; transfers themselves she does not wait for.

### 2.5 `Library`

A task is a call of one of the asynchronous functions of `app.js`; its record holds
the local variables that outlive an `await`, and `pc` names the `await` it is at.
Everything between two awaits is one step.

| Code | Model |
|---|---|
| `loadLibrary`, from `openFolder` or at the start | `OpenFolder`, `Loaded`, `HasMigrated` |
| `autoFetchPosters` | `FetchTask`, `Fetched`, `FetchSaved`, `NextPass`, `NextPassBegins` |
| `addNewAnime` | `AddNew`, `Created`, `AddSaved`, `AddLoaded`, `AddShown` |
| `saveMalMapping` | `SaveLink`, `LinkDeleted`, `LinkSaved` |
| `refetchSingle` | `Refetch`, `Refetched`, `RefetchDeleted`, `RefetchSaved` |
| `pendingMalResult`, `state.editingEntryId` | `pending`, `editing` |
| `load_mappings`, `save_mapping`, `migrate_mappings` | `LinksOf`, `Saved`, `Migrated` |
| a mapping file | `store[r]`: a sequence of records, in the order of the file, or `Broken` |

The commands these functions call are declared without `async` and so run on the
main thread, one at a time, in the order they were sent: `pipe` is that order. The
searches on MyAnimeList are asynchronous, so a search answers at any time, with a
match or with nothing. Since nothing but these commands touches a mapping file, the
run of a command and the continuation of its caller are one step, at which the
command may also fail. `fs::write` (`main.rs` 451) empties the file before it writes: a
crash in the middle of it leaves a `Broken` file, and so does a write that fails, unless it
could not open the file (`NotWritten`). `save_mapping` then reports the failure and
`migrate_mappings` ignores it (1321-1323), while the cards go on to show what they showed.
Loading a broken file fails, and the next save replaces it by one record (`unwrap_or` at
421). `torn` is history: the libraries a write of whose file has failed since they were last
loaded, whose cards may show links that the file no longer names.
`Move` is the user who renames or moves a folder while the program runs or between
two runs. An entry is its path below the root, from which the code hashes its id.

`pending` and `editing` survive the dialog that set them; the model forgets them
when the dialog closes and no call that reads them is under way, which merges states
that nothing can tell apart. `Spec` is a user who waits for nothing, `PoliteSpec` one
who lets loads, additions and the automatic fetch end before she opens another
folder or adds an anime, and a link before she opens the dialog again, and who adds no
folder that is shown. What she does
while the automatic fetch runs, linking and fetching again, is free in both.

### 2.6 `Smb2Transport`

One connection of a client: `smb2_queue_pdu`, `smb2_write_to_socket`,
`smb2_read_data`, `smb2_timeout_pdus`, `smb2_destroy_context` and the server that
answers. A call is a chain of compounded PDUs; a PDU is its header. The outqueue is a
sequence, in the order of its linked list; the waitqueue is a set, since a PDU is only ever
found in it by its message id and no two of those in flight meet (`IdsAreDistinct`). Writing is split at the one place where the
kernel may take less than was offered (`num_done`), reading at the three where the reader
returns to the event loop with a PDU in its hands (`recv_state`): header read, fixed part
read, padding left. Between any of them the connection may fail, a time-out may take PDUs
off either queue, or the application may destroy the context; late, interim and unrequested
replies arrive as the server makes them. Signing and sealing change the bytes only.

### 2.7 The wire format: `Smb2Wire`, `Smb2Data`, the commands, `Smb2Exchange`

A command is a header, the list of fields put into its fixed part, each at its offset and
width, and the buffers behind it. Only numbers that steer decoding (offsets, lengths,
counts) have a value; other fields are told apart by name, so that a field read at an
offset where something else was written shows. Every encoder and decoder of
`smb2-cmd-*.c` has its operator, with its early returns, and so do the information
classes, security descriptors, reparse points and lists of `smb2-data-*.c`. `Smb2Exchange`
puts a chain of commands into a packet as `pdu.c` does and takes it apart in the phases of
`smb2_read_data`, which knows where it is only by counting.

The two sides do not agree on everything. `Smb2Exchange` names each disagreement
(`MayBeRefused`, `Misread`, `WrongLength`, `WrongOffset`, `WithoutSecurity`), and the
properties hold but for these:

* a SESSION_SETUP request has its previous session id written at 16 and read at 18; a
  lease break's acknowledgment has two fields written at one place, its notification five;
* a READ request with channel information, a SET_INFO to a server that does not pass
  through, and a control information of a file system are always refused;
* an IOCTL reply with no output announces 48 bytes that it does not have, one with input
  has its padding added twice, and an error reply announces data that is never put;
* a CHANGE_NOTIFY reply says its buffer is at 96, where it is at 72; a WRITE request
  always says 112; a NEGOTIATE reply keeps 64 bytes for its security buffer whatever that
  is, and leaves its length unset without one;
* entries of directories and streams have offsets from the beginning of the list, which a
  reader takes for offsets from the entry: a third entry is not found, so `ListsAreWhole`
  promises of such a list its first two entries only. It promises all of a list of changes
  (CHANGE_NOTIFY), which a server only passes through and whose offsets are from each entry;
* an empty list is read as one entry without a name, and `ListsAreWhole` says nothing of it:
  the servers answer STATUS_NO_MORE_FILES.

### 2.8 `Smb2Server`

The server is one thread: `Select`, then each connection found readable or writable, then
an accept or a cull (`loop`). A context holds the PDU the next request is read into, whose
callback is the stage of the dialogue, the trees with the current one, the waitqueue and
the outqueue. `GeneralRequest` is the dispatch to the request callbacks, each an operator
of its own name; a handler returns -1 (failed), 0 (done, or none) or 1 (will reply by
itself, `ReplyLater`). `Returns` says what each may return; `HandlersAssumption` is what this
application's handlers leave out, a log-off that is refused and a tree connected later
(`smb2_server_jni.c` 145-160). Clients are well behaved and pipeline up to `Window` requests.

### 2.9 `Smb2Calls` and `Smb2Errors`

A call of the application is a record with the state of its memory (`data`, `cb_data`,
`pdu`), what was returned and what the callback was told; a chain is a sequence of PDUs
with the callback of each. `Reply` runs that callback on the server's answer, `TimeOut...`,
`Break` and `smb2_destroy_context` run the same callbacks with their statuses, and `Wait`
is `wait_for_reply`, which a synchronous call leaves when its callback says so, when the
connection has failed, or never. `Failures` says which allocation fails. Calls built alike
share a kind. `Smb2Errors` is the table of `errors.c`, by classes of statuses.

`PlansAssumption` says what an application can write: a known call, with flags, a count and
the credits it has. That the second of two reads begins where the first ended is said
(`ReadsFollow`) of an application that waits for every call before it makes the next, since
`smb2fh.offset` is moved by the callback and two calls under way both start from the old one.

### 2.10 `Smb2Login`, `Smb2Ntlmssp`, `Smb2Spnego`

Both sides of a connection and two sequences of messages between them. A context has the
fields of `struct smb2_context` that the login reads or writes. Hashes, message
authentication codes and derived keys are terms, so two are equal when they were made of
the same things; the hash of the conversation is the list of what was said, which shows a
message that one side left out. Tokens are wrapped and unwrapped byte by byte, as
`asn1-ber.c` does, since lengths that do not fit are what goes wrong there. A mishap
(`faults`) is an allocation that fails, a time-out, a connection that is lost or never
made, or the end of the context. `AniShelf` in `MCSmb2Login` is this repository's own
server: no signing, everybody may come (`smb2_server_jni.c` 133, 780).

Left out: what the server does when it has no memory; Kerberos, which is not built; the
file of users and passwords, which the server does not set. A reply is written and freed at
once, so that what the server adds to its hash of the conversation is what `libsmb2.c`
finds in memory afterwards. Names have one length.

The definitions of this module have names that `Smb2Calls` does not use (`LoginInit`,
`LoginSpec`, `ServerReplies`), so that one module of proofs can extend both.

`PartiesAssumption` says what the two sides can be set to: a known version, flags, and a
password that is missing, given as itself or given as its hash. `EnvelopesAssumption` is no
assumption on a constant. It has none: it says of the 22 tokens that there can be (three
types, the lengths each can have, with an envelope and without) that
`ntlmssp_get_message_type` finds the type each was made with, bytes and all. TLC computes it
before it starts the run `login`, and that settles it; the provers cannot, since it is a
computation of some thousand steps on concrete bytes, so it stands as an `ASSUME` between
the two. It fails if `asn1-ber.c` gets a length wrong.

## 3. The runs

| Run | Specification, bounds | Result |
|---|---|---|
| `handles_serve` | `ServeSpec`: 2 clients, 3 paths (a folder, two files of one name), 2 handles, 2 log entries, 3 bytes, 2 connections | passes |
| `lifecycle_timely` | `TimelySpec`: 3 starts, 2 services | passes, liveness and refinement included |
| `transport_calls` | 3 calls: a negotiation, a write of 2 credits, a chain of 2; 3 credits at most; time-outs, loss, destruction, interim replies, an oplock break | passes, liveness included |
| `wire_exchange` | each command with everything its encoder tells apart, as request and reply, chains of 2 and 3, plain and sealed, passing through or not | passes |
| `server_dialogue` | 2 clients: one makes 6 requests, 2 at a time, the other connects, leaves or cannot be accepted | passes, liveness included |
| `calls_chains` | each call alone, on a file, and pairs of calls; `open` with all flags, reads of 5 sizes with 3 amounts of credits; one mishap of each kind | passes, liveness included |
| `calls_opendir` | the same | `OpendirReturns` fails |
| `login` | 912 pairs of settings, one mishap | passes, liveness included |
| `queue_patient` | `PatientSpec`: 3 entries, 2 queued, room for 2 transfers, 2 timers, 2 answers awaited | passes, liveness and refinement included |
| `copy_one` | 2 jobs, one after the other or at a time, 2 entries with a path in common, 2 chunks; two of: a loss, a crash, an overlap, two refusals | passes, liveness included |
| `copy_truncated` | 1 job, 1 entry with nested folders, 1 loss, no refusal | `OkIsComplete` fails |
| `library_polite` | `PoliteSpec`: 1 root, 2 folders of one name, 2 MAL entries, 2 tasks, 2 passes, 1 edit, 1 crash, any writes that fail | passes, liveness included |

A run checks few properties, each the conjunction of what belongs together; the conjuncts
are defined and commented one by one above it:

| Property | Conjuncts |
|---|---|
| `SmbHandles!TableInv` | `TypeOK`, `CountMatchesUsed`, `HeldIdsExclusive` |
| `SmbHandles!LogInv` | `TrackedOnce`, `FinishedIsClosed` |
| `SmbHandles!LogTellsTrue` | `ActiveIsOpen`, `BytesCounted` |
| `ServerLifecycle!OneServerOrNone` | `TypeOK`, `StoppedIsDown`, `OneServer` |
| `Smb2Transport!CallbacksAreTrue` | `TypeOK`, `AnsweredOnce`, `RepliesAreTrue`, `ChainInOrder`, `IdsAreDistinct` |
| `Smb2Exchange!StreamInStep` | `TypeOK`, `NeverBeyondThePacket`, `InStep` |
| `Smb2Exchange!ReadAsPut` | `Accepted`, `FieldsSurvive` |
| `Smb2Exchange!AllIsFound` | `BuffersFound`, `OffsetsAreTrue`, `ListsAreWhole` |
| `Smb2Server!EachHasItsReply` | `TypeOK`, `RepliesAreTheirs`, `OneReplyEach` |
| `Smb2Server!InItsTurn` | `HandledAsItself`, `ServedAfterLogin`, `TreesKept` |
| `Smb2Calls!ToldTheTruth` | `TypeOK`, `ToldOnce`, `OkIsDone`, `DirectoryIsWhole` |
| `Smb2Calls!MemoryIsKept` | `DataIsFreed`, `CbDataIsThere` |
| `Smb2Calls!AsAsked` | `OpensAsAsked`, `ReadsFit`, `ReadsFollow` |
| `Smb2Login!CallerIsTold` | `ConnectToldOnce`, `FailedIsClosed` |
| `Smb2Login!SidesAgree` | `LoginTypeOK`, `HighestCommon`, `RequiredIsKept`, `KeysAgree`, `TokensArrive` |
| `TransferQueue!QueueInv` | `Types`, `OneTransfer`, `BusyIsAlone`, `AwaitedIsShown`, `QueueIsServed`, `SelectionFits` |
| `CopyJob!FilesAreWhole` | `TypeOK`, `NoPartialLeft`, `OkIsWhole`, `CountIsTotal`, `RemoteIsWritten` |
| `Library!CardsAreTrue` | `TypeOK`, `ShownIsSaved` |

Each conjunct has a mutant in `PROJECT.json` that breaks it (`BusyIsAlone` and
`AwaitedIsShown` are there for the proof).

*Bounds.* Two handles and two log entries make the table and the log fill up, an
index be reused after a close and a leak hurt; a third adds only permutations. One
client holding an id while another opens the same path needs two clients. Three
starts let a start meet the remains of the one before the last. Three credits against a
write of two and a chain of two make calls wait for credits, behind each other, in both
orders. In `server_dialogue` six requests are the three of a login and three more, two of them
on their way at once: two trees and a command, a tree and two commands, or a log-off and a
login half done. A command after a TREE_DISCONNECT that leaves another tree takes two requests more and is
not reached, so in this run only a TREE_CONNECT moves the selection; `AlwaysOnItsTree` proves
it for any number of requests and trees. The buffers of `wire_exchange` have lengths around
the multiples of eight that padding rounds to. Two pages and a byte are the shortest read
that needs more credits than it may have. A login is four requests, each with its failures:
one mishap at any of them; a second one after it finds a connection already closed. Two
chunks are the fewest that make a partial file; two refusals let a job overlook a file and
then keep what it made of it, an overlap and a loss or a refusal let a job fail to delete
another's file. Three entries are one being transferred, one
waiting and one that comes in between. `Slots` has room for a second transfer so
that `OneTransfer` is not true by construction. Two tasks are the automatic fetch
and one call that interferes with it; two passes are one that fails and the one that
must notice; an edit and a crash in either order make an orphan, a folder that was
never linked and a broken file. How often a write fails has no bound. With one root a task cannot be late for another
folder: `PoliteSpec` excludes that anyway.

*Deadlock* is not checked where the model may stop: `handles_serve` when its bounds
on bytes and connections are reached with no handle left to close, the lifecycle when
its starts and services are used up, the runs of libsmb2 when their calls are made
and answered, and the window because a bounded queue of calls can refuse the user's next
click. Where it matters, that something goes on is stated as a liveness property instead.

*Symmetry* is used for clients in `handles_serve`, which checks no liveness property.

### Fairness

* `ServerLifecycle`: threads and coroutines are scheduled, and `select` returns when
  its socket is shut down. Nothing is assumed of the user, nor that an accept fails.
* `Smb2Transport`: the application runs its event loop, the server answers what it
  received, and a context whose service failed is destroyed, as the comment of
  `smb2_service` demands. No time-out, loss or interim reply is assumed.
* `Smb2Server`: the server thread runs, a handler that promised a reply queues it, and
  clients read. No client has to ask or to leave.
* `Smb2Calls`: what is queued is sent and answered and `wait_for_reply` loops; a server
  that does not answer is `NoReply`, after which only a time-out or the end helps.
* `Smb2Login`: a connect has an outcome, both sides read what they can read, and a caller
  gives up a context whose `smb2_service` failed. It is weak fairness of four actions with
  their guards written out, which spares TLC the evaluation of `ENABLED`.
* `CopyJob`: every `await` of a job returns in the end, with an answer or an error.
  That anything fails is never needed for progress (`Trouble` is outside). Here too, and
  in `Library`, the guard is written out in place of `ENABLED`.
* `TransferQueue`: timers fire, and a transfer ends, which is `CopyJob!JobEnds`.
* `Library`: commands and searches are answered and delays end; nothing is assumed of
  the user, and no answer is assumed to be a good one.

## 4. What the checks show

Holds:

* Under every operation the number of open handles is right and a file id belongs
  to one client. Until the log is cleared an entry counts one open handle, is
  finished only when that handle is closed, and no byte is lost or counted twice.
* As long as the delays suffice, starting and stopping keep one server and always
  come to an end, and what the screen calls stopped is stopped.
* A callback of libsmb2 runs at most once, and with "success" only for the answer to its
  own request, after those before it in its chain; credits are never overdrawn; a call
  ends unless no credit will ever come or the context is destroyed.
* But for the disagreements named in 2.7, what one side encodes the other takes, with
  every field and buffer at its place, and both stay in step through chains and seals.
* The server answers every request once, with its id, command and tree, handles none before
  the login, and is not stopped in answering one client by another that vanishes.
* A file call that reports success was done by the server; what it allocated is freed after
  its last callback; nothing stays open behind it but for the exceptions each property
  names (`opendir` whose listing fails, an open answered after its time-out).
* A login ends, tells its caller once and frees its data; both sides come to the highest
  common dialect, and to one signing key when both sign; a wrong password lets nobody in.
* A job ends whatever fails, and the file deleted on a cancellation is always one that is
  being written. While one job comes after the other, the only partial files are those whose
  deletion the phone refused or was never asked for (a lost connection, a crash), and a whole
  file is changed only by a job to which the phone refused to show it.
* A patient user gets one transfer at a time, in order, with the right files.
* While links are made by hand, by the automatic fetch and by fetching again, in any
  order and with any failures, a card shows the link the mapping file has for it, no link is
  lost except with a file broken by a crash or by a write that failed, and every task ends.
  After a failed write a card may also show a link that the file has lost; the next save
  makes a file of one record, and the others are gone when the library is loaded again.

Fails, in a run, with the text of the project it contradicts (`PROJECT.json`,
"findings"):

* `calls_opendir`: `smb2_opendir` never returns when the server refuses with a status that
  becomes EPERM, which its callback takes for the end of the context.
* `copy_truncated`: after a lost connection the truncated file is skipped by the
  retry, which reports success.

Fails, without a run of its own; each of these is defined in its module, and checking
it under the specification named finds the behaviour described:

| Property | Under | What happens |
|---|---|---|
| `FinishedIsClosed` | `SmbHandles!Spec` | clearing the log during an upload makes two uploads share an entry |
| `ActiveIsOpen` | `SmbHandles!RestartSpec` | stopping during an upload leaves its entry active for ever |
| `CancelledIsGone` | `SmbHandles!ServeSpec` | an upload is marked cancelled and its file stays: `unlink` failed, or the entry is that of a file of the same name in another directory (`smb2_server_jni.c` 237, 268, 285) |
| `ConnectedLabel` | `SmbHandles!ServeSpec` | "N connected" counts every connection ever made |
| `StopEnds` | `ServerLifecycle!DelayedSpec` | leaving the application during a start blocks its main thread in `pthread_join` |
| `StoppedNotServing` | `ServerLifecycle!DelayedSpec` | a stop before the thread has set `server_running` is lost: the server serves behind a screen that says it is stopped |
| `RunningIsUp` | `ServerLifecycle!TimelySpec` | a port that cannot be bound is shown as a running server |
| `NoAccumulation` | `Smb2Transport!Spec` | credits of interim and late replies pass the most a client may hold (`pdu.c` 606-613) |
| `AllAreTold` | `Smb2Transport!Spec` | the later PDUs of a chain that times out unsent are freed, their callbacks never run (`libsmb2.h` 265-273) |
| `AuthenticatedAgain` | `Smb2Server!Spec` | a second SESSION_SETUP in a session is read into a PDU of another command and ends the connection |
| `DeadAreAlwaysCulled` | `Smb2Server!Spec` | contexts are culled one per iteration, and only after a select that found something (`libsmb2.c` 4138-4250): when nobody else is active afterwards, the second of two dead ones stays |
| `NotToldOfErrors` | `Smb2Calls!Spec` | stat, truncate and rename run the callback and return an error too |
| `DisconnectIsDone` | `Smb2Calls!Spec` | a disconnect "succeeds" whatever the server said |
| `OpenFreesCbData` | `Smb2Calls!Spec` | a synchronous open that gives up loses its data |
| `PdusFreedOnce` | `Smb2Calls!Spec` | a PDU that times out unsent is freed by the queue and again by the synchronous caller |
| `ReadsNeverExceed` | `Smb2Calls!Spec` | a read of nothing asks for as many bytes as all the credits held are worth (`(count - 1) / 65536 + 1` in unsigned 32 bits) |
| `SeeksKeep` | `Smb2Calls!Spec` | a seek to before the beginning fails after it has moved |
| `SignIsRequired` | `Smb2Login!LoginSpec` | a client that asked for signing goes on with a server that does not sign (`libsmb2.h` 358-360) |
| `SignaturesMatch` | `Smb2Login!LoginSpec` | the server hashes its reply after it has been written and freed, so client and server derive different keys and the next reply looks forged |
| `GuestsAreUnknown` | `Smb2Login!LoginSpec` | the guest flag comes from the server's own context (anonymous allowed, no password kept): a user who proved a password is called a guest (`libsmb2.c` 3791) |
| `SealedIsServed` | `Smb2Login!LoginSpec` | a client that seals talks to a server whose keys are other or missing, and is hung up on |
| `MechanismsAreRead` | `Smb2Spnego`, a constant | the server's list of mechanisms cannot be read by the library's own reader |
| `OkIsComplete` | `CopyJob!Spec`, two entries with equal paths | folders of one name share their files on the phone, the second is skipped |
| `SelectionFits` | `TransferQueue!Spec` | a late answer of the search lists one entry's files under another |
| `QueueIsServed` | `TransferQueue!Spec` | an entry opened in the 300 ms between two transfers takes the phone's address away, and the queue waits for ever |
| `DialogIsCurrent` | `TransferQueue!PatientSpec` | a confirmation answered late cancels the next transfer |
| `ShownIsSaved` | `Library!PoliteSpec`, 3 folders, 2 moves | when an entry had two records (`OneRecord`) and its folder moves, the migration may give the new entry the second and the card shows the first (`app.js` 1101, `rawMappings.find`), until the next load |
| `ShownIsSaved` | `Library!PoliteSpec` where she may add what is shown, 3 folders | a folder moved away is added again under its old path while its card is still shown: if the load then fails, the card shows the old link |
| `OneRecord` | `Library!PoliteSpec`, 3 folders | the migration gives an orphaned record to an entry that has one |
| `OneLoop` | `Library!Spec` | two automatic fetches run at once |
| `FetchFillsGaps` | `Library!PoliteSpec` | the automatic fetch overwrites a link made by hand during its search |

Met while modelling and kept as behaviour of the models: an accept that fails ends the
serve loop for everybody (`libsmb2.c` 4229); a log-off leaves the trees; a CANCEL that is
refused is answered with the id it cancels; the server picks the last common dialect the
client lists (3862); mkdir and unlink ignore the status of their CREATE; a directory is
listed backwards; two calls under way on one file share its callback (`fh->cb`). Two more
that this application's handlers, which return 0, never cause (`HandlersAssumption`): a
log-off that its handler refuses still makes the connection expect a new SESSION_SETUP
(`libsmb2.c` 3537-3541), and a tree whose handler answers later is not among the trees of the
context when its reply is queued.

## 5. What is proved

Everything here is proved for every value of the constants, from the named assumptions of
the component's module alone. A component's proofs are in a module of their own, named after
it; those of `Smb2Calls` and `Smb2Login` share one, `Smb2ClientProofs`.

`SmbHandlesProofs`, for any number of handles, log entries, clients, paths and
chunk sizes, under `SizesAssumption` and `PathsAssumption`:

| Theorem | Says |
|---|---|
| `TableInvariant` | `Spec => []TableInv` |
| `CountIsUsed` | `Spec => []CountMatchesUsed` |
| `IdsExclusive` | `Spec => []HeldIdsExclusive` |
| `LogInvariant` | `RestartSpec => []LogInv` |
| `LogForwardAlways` | `RestartSpec => LogMovesForward` |
| `LogTellsTrueAlways` | `ServeSpec => []LogTellsTrue`: an active entry counts an open handle, and the bytes of the log with those of open handles are the bytes written |

*The argument.* `openCount \in Nat` is not inductive by itself, since a close
subtracts one: that a handle about to be closed was counted is
`CountMatchesUsed`, and that the id a client closes names a used handle, and not one
another client was given after a double close, is `HeldIdsExclusive`. So
`TableInv == TypeOK /\ CountMatchesUsed /\ HeldIdsExclusive` is proved as one
invariant, an action at a time, over the cardinality lemmas of the library. For the
log, `TrackedOnce` keeps a close from touching an entry that counts another handle,
and `FinishedIsClosed` keeps a write from reviving a finished entry; neither is
inductive without the other, and both need `TableInv`. `LogInvariant` is about
`RestartSpec` because clearing the log breaks it (see 4); it says more than
`handles_serve`, which neither stops the server nor lets it die.
`LogMovesForward` follows from the two invariants, for each action.
`LogTellsTrue` adds two things that a start leaves and no request takes away: a handle with no
entry has written nothing as long as the log has room (`UntrackedAreEmpty`: `handle_write`
enters it at its first byte), and before the first start there is no log and nobody is
connected (`LogStartsEmpty`). The bytes of the log are a sum over a sequence of any length:
that one entry more, or one entry grown by `n`, adds `n` to it is the lemma `BytesGrow`, an
induction over the prefixes of the log. The installed provers cannot instantiate the library's
induction rule, so it is put as a least counterexample: the set of prefixes for which the sum
is wrong has, if it is not empty, a least member (`LeastNumber`, from the well-foundedness of
`<`), and the one before it makes it right.

`ServerLifecycleProofs`, for any number of starts and services, under
`BoundsAssumption`:

| Theorem | Says |
|---|---|
| `LifecycleTypes` | `Spec => []TypeOK` |
| `FlagHasThread` | `Spec => []FlagIsThread`: in every order, and when startForeground throws |
| `TimelyFlagHasThread` | the same of `TimelySpec` |
| `OneServerAlways` | `TimelySpec => []OneServerOrNone`: one server or none, and `Server Stopped` only when nothing is left of it |
| `SwitchIsTrue` | the steps of `TimelySpec` are steps of `ServerSwitch` or stutter |

*The argument.* `IInv == TypeOK /\ Fresh /\ Counted /\ Joinable /\ FlagIsThread`. That
`running` has its thread is kept by a start only if the thread it creates is new: `Fresh`
says that a coroutine that has not come to `pthread_create` has no thread, so no step of
its turns a living thread into a created one. That a stop joins a thread needs `Joinable`:
`server_thread` names one as soon as any exists, and is never taken back. `Counted` keeps
delayed starts and leaving within the bounds, for `TypeOK`.
`OneServer` is not inductive either. `TInv` adds to it what `TimelySpec`'s order buys:
`OneWait` and `FlightIsAwaited`, that the one coroutine under way is the one the flag of the
view model waits for; `ThreadHasFlag`, `FdIsServing` and `OnlyThisService`, that a living
thread is the last created, serves the socket `server.fd` names and belongs to the service
that stands; `StopMeetsWhole`, that a stop meets such a thread or none; `DownWhenTold` and
`OnlyJoined`, that what the user is told is stopped was joined. The steps of the switch follow
from `TInv`, action by action; that it answers at all is a liveness property and stays with TLC.

`Smb2ClientProofs` has two parts. The first is about `Smb2Calls`, for any calls an application
plans (`PlansAssumption`), synchronous or not, any sizes, any number of replies to a listing,
and any failed allocation, time-out, lost connection or end of the context:

| Theorem | Says |
|---|---|
| `CallsAreAsTheirPdus` | `Spec => []CallsInvariant` |
| `CallsTellTheTruth` | `Spec => []ToldTheTruth`: told once, of success only when the server has done every part, and a directory with all of its entries |
| `CallsCloseWhatTheyOpen` | `Spec => []NothingLeftOpen` |
| `CallsKeepTheirMemory` | `Spec => []MemoryIsKept` |
| `CallsAskForWhatTheyAreAsked` | `Spec => []AsAsked`, for `MaxRead`, `MaxWrite` and `MaxCredits` above zero |

*The argument.* A call is as far as the callbacks that its queued PDUs still have to run. `Left`
names, for each kind, the sets of callbacks that can be left, and `Fine` says of the record of a
call, given what is left of it: as long as something is (`Going`), nothing has been told, its
data and its `cb_data` are there, and the status kept from PDU to PDU speaks for every part that
has been answered (`ChainKept`); when nothing is (`Over`), the data is freed or the call is
one of those that do not free it; and what the server has done and holds open agrees with both
(`OnServer`). None of the four properties is inductive: that `rename_cb_3` reports a success
only for a file renamed needs the status that `rename_cb_1` and `rename_cb_2` left. Each
callback is a lemma: from `Ready`, a call whose PDU has been answered, to `Fine` with
that PDU gone and those it queued added. `Queued` ties the calls to the queue, and that a callback
takes out PDUs behind its own (a chain given up, a time-out, the end of the context) is shown by
induction over the places of the queue, a least counterexample as in `SmbHandlesProofs`.
`AsAsked` needs besides what a call keeps of its arguments, and that one offset is handed from each
call to the next (`InTurn`). Its hypotheses are not facts about the client: `max_read_size` and
`max_write_size` are what the server said in NEGOTIATE, and a server that says 0 makes the client
ask for 0 bytes.

The second part is about `Smb2Login`, for any set of settings and any number of mishaps:

| Theorem | Says |
|---|---|
| `CallerIsAlwaysTold` | `LoginSpec => []CallerIsTold` |
| `SidesAlwaysAgree` | `LoginSpec => []SidesAgree`: types, the dialect, signing, the key, the tokens |
| `OnlyTheKnownAlways` | `LoginSpec => []OnlyTheKnown` |

*The argument.* For `CallerIsAlwaysTold`: each callback of the client either waits, with the caller's data held and
one command awaited, or ends, with the data freed, nothing awaited and one more word to the
caller (`Goes == Waits \/ Ends`). `OneEnd` says where the connection then is: nothing told
and data held, or told once and data freed; and closed, unless the end was a success or one of
the two failures that leave it open. The lemmas say of each callback that it `Goes`, whatever
the operators of NTLMSSP and SPNEGO return: those are never expanded, so nothing rests on them.

The other two are about both sides at once and need to know what is between them.
`LoginInvariant` adds to `OneEnd` a relation `Agrees` of the settings, the two contexts and
the two sequences of messages. `UnderWay` says that at most one message is, and what it is: a
request that the client waits to have answered (`Asked`), or the reply to it (`Replied`).
`Spoken` says that the server's dialect, once it has one, is the highest of both, and that
the client's, once it has one, is the server's. `Stage` says how far the client is and what it
may count on from there. Each step is a lemma on `Agrees`, and each callback one on what it
returns. Three things carry the proof.

* *The key.* That a client told of success has the server's key is not a matter of both deriving it in the
  same way, for they do not (`SignaturesMatch` in 4): a server that signs has signed its last
  reply with its key (`Signed`), and the client takes the reply only if the signature is one it
  would have made, which is a term with the key in it. That the key is not empty is the client's own test.
* *Who is told of success.* `Proves` says what the last token can hold: nothing, if the client
  has no password, or an HMAC under a key made of the password. `ntlmssp_authenticate_blob`
  compares with one made of the password the server has for the user. Equal terms have equal
  parts (`SameProof`, `SameHash`), so the two passwords are the same or one is the hash of the
  other (`AsGood`). The server must not know a password when it begins
  (`server.password = Zero`), or one left by an earlier use of the context would be compared.
* *The tokens.* Which branch a side takes hangs on the type it finds in a security buffer, so
  every token is shown to be one of `EnvelopesAssumption`: of a length that can be
  (`LastLengths`), in the envelope that belongs to its type (`WrappedHolds`).

`TransferQueueProofs`, for any entries, any number of places for transfers and
any bounds:

| Theorem | Says |
|---|---|
| `PatientQueue` | `PatientSpec => []QueueInv` |
| `OneTransferAlways`, `QueueAlwaysServed`, `SelectionAlwaysFits` | `OneTransfer`, `QueueIsServed` and `SelectionFits` for `PatientSpec` |
| `LineSafety` | the steps of `PatientSpec` are steps of `TransferLine` or stutter |
| `KnownAlways` | `Spec => []KnownWhileBusy`: a transfer under way has its entry and its address, whatever the user does |
| `TypesAlways` | `[]TypeOK` for `Spec` and for `PatientSpec` |

*The argument.* `QueueInv` is the conjunction of the types it needs, `OneTransfer`,
`QueueIsServed`, `SelectionFits` and two parts that tie them together.
`BusyIsAlone`: during a transfer its progress is shown and no timer is set, and
during a transfer or before the timer no answer is awaited and the address of the
phone is known, hence the next transfer really starts. `AwaitedIsShown`: an answer
the window waits for is about the entry it shows, hence the list it brings fits.
Without these a timer could start a second transfer beside the first, and a late list
could stand for another entry's, which is what happens to a user who does not wait.
`LineSafety` follows step by step from `QueueInv`. For the types of `Spec` it takes `Shown`:
a window that is shown, or an answer that is awaited, has an entry, since what a click or an
answer then does is done to `entry`.

`CopyJobProofs`, for any jobs, entries, folders, chunks, and any number of losses, crashes,
refusals and overlaps:

| Theorem | Says |
|---|---|
| `CopyInvariant` | `Spec => []IInv` |
| `FilesAreWholeAlways` | `Spec => []FilesAreWhole`: between jobs that do not overlap a file on the phone is whole or one whose deletion failed or never came |
| `WholeFilesStayAlways` | `Spec => WholeFilesStay`: such a job changes a whole file only if the phone refused to show it |

*The argument.* `OnItsWay` says what a job knows of itself, in every order of jobs: it is within
the walk of its entry, busy only with a file it is to copy, and `copied` is the number of files
it was to copy and has visited. So the number in the message of success is that of all of them
when the walk is at its end: this rests on `WalkAssumption`, that a walk names every path once.
While jobs do not overlap (`Alone`), `OneAtATime` leaves one of them active, and `Undisturbed`
says that what it found missing is still missing when it creates it, and that the file it writes
holds what it has written; what it found missing is missing, or it is `misled`.
`PartialIsInWork` says that a file there in
part is one being written, one about to be deleted or a `leftover`, and `Thorough` that what has
been visited is there, whole but for a `leftover`; with the job's end these are `NoPartialLeft`
and `OkIsWhole`. No number of losses or refusals is excluded.
`WalkAssumption` includes that a walk begins with the folder itself, as `copy_dir_to_smb` calls
`mkdir` for it before it reads it.

`Smb2TransportProofs`, for any calls (`CallsAssumption`: told apart), chains of any length and
any credit charge (`ChargesAssumption`: none is empty, and the first call is the negotiation,
one PDU), any `MAX_CREDITS`, and any loss, time-out, oplock break and destruction:

| Theorem | Says |
|---|---|
| `TransportInvariant` | `Spec => []IInv` |
| `CallbacksAreAlwaysTrue` | `Spec => []CallbacksAreTrue`: one callback for each PDU at most, with its own answer, in the order of its chain |
| `NeverOverdrawnAlways` | `Spec => []NeverOverdrawn` |
| `SentIsToldAlways` | `Spec => []SentIsTold` |
| `LateAreFirst` | under `IInv`, the calls queued before any moment are the first of the outqueue |

*The argument.* That a reply runs the callback of its own request rests on ids, and ids on
arithmetic: a chain of PDUs takes as many ids as the credits it is charged, so that the ranges
of two PDUs never meet (`FlightApart`) follows from sums over chains of any length (`SumsAre`,
`SumsGrow`, by a least counterexample, as above). `InOrder` says what is where: the outqueue
holds the last calls, whole and in order, and everything beyond it, in the waitqueue, in the
reader's hands or at the server, belongs to earlier ones. `RepliesKnown`: a reply on its way
is of an id given out, and a real one of an id whose request the server has answered, so that
the PDU it finds has been answered (`ReadIsTrue`). `Silent` says that nothing queued, waiting
or being read has been told anything, which makes the one callback the first; `Preceded`,
that the one before it in its chain has been told, or waits, or is being read, which is what
`ChainInOrder` needs when replies come in order of ids; and `Tracked`, that whoever is owed an
end has had it or would be told it now, from which `SentIsTold` follows once nothing is left.
`LateAreFirst` is about the model: `TimeoutPdus` takes the calls queued before some moment, and
the theorem shows that there is such a prefix of the outqueue for every moment, hence that the
action leaves no time-out out.

`Smb2ServerProofs`, for any finite set of clients, any commands (`CommandsAssumption`: those the dispatch
knows), anything the handlers may return under `ReturnsAssumption` and `HandlersAssumption`, any
window, any number of messages, and any client that leaves or cancels:

| Theorem | Says |
|---|---|
| `ServerInvariant` | `Spec => []Invariant` |
| `RepliesReachTheirs` | `Spec => []EachHasItsReply`: a reply has the id, the command and the tree of a request its client waits for, and a request has one reply besides interim ones |
| `AllInTurn` | `Spec => []InItsTurn`: a request is read into the PDU of its own command, after the login, and a client's trees are its context's |
| `AlwaysOnItsTree` | `Spec => OnItsTree`: a handler runs on the tree of its request |

*The argument.* A context keeps one PDU, chosen before it is known which request comes next,
so that everything rests on what client and server agree on while messages are under way in both
directions. `Invariant` says it for each connection (`OneClient`), and of two connections only
that they know different trees; what is said of trees holds until more have been connected than
may be nested (`MaxTrees`), since `pdu.c` 268-278 does not keep the next one. Of a connection that lives,
`Kept` says: a request is in one place, in the socket, in the waitqueue or answered
(`InOnePlace`, `Once`); what is in the socket is for the PDU the context has, and a message that
turns the dialogue is the last of it (`InStage`); each message and reply is of something the
client asked, at the stage it asked it (`IsAsked`); the PDU is that of the stage the client will
be in once it has read all its replies (`ToBeIn`); and the trees it holds or uses are connected
and nothing on its way gives them back (`OnKeptTrees`). None of these is inductive without the
others: that a LOGOFF finds the general PDU needs that its client had read the reply to its
SESSION_SETUP, and that no request follows it needs that the client waits. `Steps` is a relation
between a connection before and after, `OneMoves` that such a step of one client leaves the
others as they were, and each stage of the serve loop, each request callback and each message of
a client is a lemma of its own. `AlwaysOnItsTree` then needs that the tree taken for a request is
the one it names, and that no reply queued meanwhile changes it (`QueueKeepsTree`).
Without `HandlersAssumption` `InItsTurn` would not hold: see 4.

`LibraryProofs`, for any roots, entries, titles and searches, any number of tasks and passes,
any edits and crashes, under `LibraryAssumption`:

| Theorem | Says |
|---|---|
| `LibraryTypes` | `[]TypeOK` for `Spec` and for `PoliteSpec` |
| `PoliteOrder` | `PoliteSpec => []Polite` |
| `CardsAlwaysTrue` | `PoliteSpec /\ []OneRecord => []CardsAreTrue`: a card shows the link that its file names, or one that a failed write has lost |
| `LinksAlwaysKept` | `PoliteSpec => LinksKept`: a link is lost or changed by a save for its own entry only |

*The argument.* The types need `Args`, what a task knows where it waits: that a save has an
entry and a link, that a command names a root. `Polite` is the order that a user who waits leaves: loads and
additions run alone (`Lone`), one link is made at a time (`OneLink`), every command on its way
is about the folder that is open, and while a task waits its `Fit` holds: the link being saved
is the one the dialog still shows, though `saveMalMapping` reads it anew after each `await`;
what a load or an addition has read is still what the disk holds; an anime being added is not
shown; and a library that is shown has a file that parses or is `torn` (`CardsWhole`). With it every save does to the cards what it does to the file, and a save that fails
leaves the file as it is or empties it, in both cases with its root in `torn`, so that
`ShownHolds` is inductive. What `loadLibrary` replays of a migration is the file migrated (`ReplayedFits`) if
every entry had one record before. That is the hypothesis `[]OneRecord`, and it cannot be
spared: see 4. TLC finds no violation of `CardsAreTrue` with three folders and two moves in the
states where `OneRecord` has held throughout, and in the run, whose two folders make too few
moves for two records, it always holds. `LinksAlwaysKept` needs no such hypothesis. That the
first record of an entry exists is again a least number (`FirstIs`).

*Only model-checked.* The three invariants of `Smb2Exchange`: the wire format is forty
commands, each with its own list of fields to look up and buffers to add up, and no one
argument covers them together, so a proof would be the forty evaluations TLC does. Of
`Library`, what a user who does not wait may see. Of `Smb2Login`, the bytes of the envelopes
(`EnvelopesAssumption`, which TLC evaluates on the run's envelopes). Liveness under fairness
(`CallsEnd`, `TasksEnd` and the others) and `ENABLED`, and with them the fairness part of
`LineSpec`, are out of the prover's reach and stay with TLC.

## 6. What is not modelled

`PROJECT.json` lists every part with the reason. In short:

* of libsmb2: DCERPC and the listing of shares (not called by the application or its
  server), connecting to several addresses of a host (`socket.c` 942-1407), Kerberos (not
  built), the ciphers and hashes themselves, change notification in a nested event loop,
  lease requests;
* the poster and list caches, matching and MAL synchronisation;
* screens, themes and builds, which have no protocol.

Known to be hard, and covered by no property:

| Where | What |
|---|---|
| `app.js` 2882, 2885 | the answer to a confirmation about a transfer that may have ended; a hidden window whose transfer goes on |
| `app.js` 2345, 2337 | the automatic fetch saves under the folder that is open when its search is answered, and over a link made meanwhile |
| `app.js` 1769, 1081 | an abort flag set for one tick only; two folders that load at once |
| `app.js` 1959, 2202 | signing out during a synchronisation; a guard taken away from a download in flight |
| `main.rs` 474, 1287 | a poster deleted while it is downloaded; two records of one entry (`OneRecord`) |
| `SmbServerService.kt` 96, `Smb2Server.kt` 53 | answers of polls in another order; the log read by one call per field |

`DialogIsCurrent`, `FetchFillsGaps`, `OneLoop` and `OneRecord` state some of these; they
are violated (see 4).

## 7. Plan

What this project would take up next, in this order.

1. `PosterCache`: the guard of `app.js` 35-54 with cache_poster, delete_cached_poster
   and the link dialog. Properties: one download of a poster at a time, and the
   poster kept is the one of the title linked.
2. `MalSync`: start-up sync, manual sync and sign-out.
3. `TransferPoll`: the Kotlin reads of the log, composed with `SmbHandles`, and the
   announcement that all transfers are complete.
4. Connecting to several addresses at a time (`socket.c`).
5. `TitleMatch`: scoreMatch and pickBestMatch as operators, against a definition
   by sets of words.
6. `Library` with two roots under `Spec`: which folder a late save or load belongs to.

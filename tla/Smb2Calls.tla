------------------------------ MODULE Smb2Calls ------------------------------
(***************************************************************************)
(* The file calls of libsmb2's client (lib/libsmb2.c) and their            *)
(* synchronous forms (lib/sync.c).  A call is a chain of PDUs, each with a *)
(* callback; a synchronous call is the asynchronous one, a callback that   *)
(* fills in a cb_data, and a loop that serves the connection until then.   *)
(*                                                                         *)
(* The connection is a sequence of PDUs, answered in any order that keeps  *)
(* each chain's own; Smb2Transport has the queues behind it.  Kinds stand  *)
(* for the calls built alike: stat for statvfs, unlink for rmdir, read and *)
(* write for pread and pwrite.                                             *)
(***************************************************************************)
EXTENDS Integers, Sequences, SequencesExt, FiniteSets, Functions, Smb2Errors

CONSTANTS Plans,         \* what the application calls: sequences of [kind, sync, flags,
                         \* count, credits], the last three for open and read
          MaxRead, MaxWrite,   \* max_read_size and max_write_size: the server's
          MaxCredits,    \* MAX_CREDITS less the 16 kept back
          Multi,         \* the dialect has reads of several credits
          FileSize,      \* of the server's file
          Replies,       \* how many replies list a directory
          Mishaps        \* subset of {"memory", "timeout", "break", "destroy"}

ASSUME SizesAssumption == {MaxRead, MaxWrite, MaxCredits, FileSize, Replies} \subseteq Nat

VARIABLES plan, ops, pdus, fd, handles, fh, connect

vars == <<plan, ops, pdus, fd, handles, fh, connect>>

(***************************************************************************)
(* The chains the calls send at once, with the callback of each PDU.       *)
(***************************************************************************)
Pdu(cmd, cb) == [cmd |-> cmd, cb |-> cb]

_smb2_opendir_async == <<Pdu("create", "opendir_cb")>>
_smb2_open_async_with_oplock_or_lease == <<Pdu("create", "open_cb")>>
smb2_close_async == <<Pdu("close", "close_cb")>>
smb2_fsync_async == <<Pdu("flush", "fsync_cb")>>
smb2_fstat_async == <<Pdu("query_info", "fstat_cb_1")>>
smb2_ftruncate_async == <<Pdu("set_info", "ftrunc_cb_1")>>
smb2_echo_async == <<Pdu("echo", "echo_cb")>>
smb2_unlink_internal == <<Pdu("create", "create_cb_1"), Pdu("close", "create_cb_2")>>
smb2_mkdir_async == <<Pdu("create", "create_cb_1"), Pdu("close", "create_cb_2")>>
smb2_getinfo_async ==
  <<Pdu("create", "getinfo_cb_1"), Pdu("query_info", "getinfo_cb_2"), Pdu("close", "getinfo_cb_3")>>
smb2_truncate_async ==
  <<Pdu("create", "trunc_cb_1"), Pdu("set_info", "trunc_cb_2"), Pdu("close", "trunc_cb_3")>>
smb2_rename_async ==
  <<Pdu("create", "rename_cb_1"), Pdu("set_info", "rename_cb_2"), Pdu("close", "rename_cb_3")>>
smb2_readlink_async ==
  <<Pdu("create", "readlink_cb_1"), Pdu("ioctl", "readlink_cb_2"), Pdu("close", "readlink_cb_3")>>
smb2_disconnect_share_async == <<Pdu("tree_disconnect", "disconnect_cb_1")>>

Chain ==
  [opendir |-> _smb2_opendir_async, open |-> _smb2_open_async_with_oplock_or_lease,
   close |-> smb2_close_async, fsync |-> smb2_fsync_async, fstat |-> smb2_fstat_async,
   read |-> <<Pdu("read", "read_cb")>>, write |-> <<Pdu("write", "write_cb")>>,
   ftruncate |-> smb2_ftruncate_async, echo |-> smb2_echo_async,
   unlink |-> smb2_unlink_internal, mkdir |-> smb2_mkdir_async, stat |-> smb2_getinfo_async,
   truncate |-> smb2_truncate_async, rename |-> smb2_rename_async,
   readlink |-> smb2_readlink_async, disconnect |-> smb2_disconnect_share_async]

\* What an application calls, with what it gives the call.
Kinds == DOMAIN Chain \cup {"lseek"}
ASSUME PlansAssumption ==
  Plans \subseteq Seq([kind : Kinds, sync : BOOLEAN, flags : SUBSET {"O_RDONLY", "O_WRONLY", "O_RDWR",
                      "O_CREAT", "O_EXCL", "O_TRUNC"}, count : Nat, credits : Nat])

OnHandle == {"close", "fsync", "read", "write", "fstat", "ftruncate"}   \* called with an smb2fh
CallerFreesPdu == {"open", "opendir"}                           \* when synchronous
HasNoData == {"close", "fsync"}                                 \* the smb2fh serves

NoOp == [kind |-> "none", sync |-> FALSE, ret |-> "0", told |-> <<>>, status |-> "SUCCESS",
         data |-> "none", cb_data |-> "none", wait |-> "none", finished |-> FALSE,
         pdu |-> "none", done |-> {}, entries |-> <<>>, listed |-> 0, torn |-> FALSE,
         flags |-> {}, exists |-> TRUE, offset |-> 0, count |-> 0, credits |-> 1,
         length |-> 0, got |-> 0]

Init ==
  /\ plan \in Plans
  /\ ops = <<>> /\ pdus = <<>> /\ fd = "open" /\ handles = {}
  /\ fh = [open |-> FALSE, cb |-> 0, offset |-> 0, end_of_file |-> 0]
  /\ connect \in [finished : BOOLEAN, cancelled : {FALSE}]

Pending(i) == \E k \in DOMAIN pdus : pdus[k].op = i
Waiting(i) == ops[i].wait = "waiting"
Opener == CHOOSE i \in DOMAIN ops : ops[i].kind = "open"

(***************************************************************************)
(* What a callback of the application does: a synchronous call's is one of *)
(* sync.c.  cb_data->status is CANCELLED after a wait that failed.         *)
(***************************************************************************)
Cancelled(o) == o.wait = "abandoned"
Finish(o) == [o EXCEPT !.finished = TRUE]
FreeCbData(o) == [o EXCEPT !.cb_data = "freed"]

sync_open_cb(o) == Finish(o)
sync_opendir_cb(o, errno) == IF IsShutdown(errno) THEN o ELSE Finish(o)
sync_close_cb(o, errno) ==
  IF IsShutdown(errno) THEN o ELSE IF Cancelled(o) THEN FreeCbData(o) ELSE Finish(o)
sync_generic_status_cb(o) == IF Cancelled(o) THEN FreeCbData(o) ELSE Finish(o)

Tell(o, errno) ==
  LET t == [o EXCEPT !.told = Append(@, errno)]
  IN CASE ~o.sync -> t
       [] o.sync /\ o.kind = "open" -> sync_open_cb(t)
       [] o.sync /\ o.kind = "opendir" -> sync_opendir_cb(t, errno)
       [] o.sync /\ o.kind = "close" -> sync_close_cb(t, errno)
       [] o.sync /\ o.kind = "disconnect" -> t      \* finishes the context's own cb_data
       [] OTHER -> sync_generic_status_cb(t)

Free(o) == [o EXCEPT !.data = "freed"]
TellOnly(o, errno) == Tell(o, errno)
TellAndFree(o, errno) == Free(Tell(o, errno))

(***************************************************************************)
(* The callbacks.  Each is given the call's record, the smb2fh, the status *)
(* and whether what it must allocate or decode can be; it gives both back  *)
(* with the PDU it queues next.                                            *)
(***************************************************************************)
Then(o, f, next) == [op |-> o, fh |-> f, next |-> next]
End(o, f) == Then(o, f, <<>>)

open_cb(o, f, status) ==
  IF status # "SUCCESS" THEN End(TellAndFree(o, nterror_to_errno(status)), f)
  ELSE End(Tell(o, "0"), [f EXCEPT !.open = TRUE, !.offset = 0, !.end_of_file = FileSize])

close_cb(o, f, status) ==
  End(Tell(o, nterror_to_errno(status)), [f EXCEPT !.open = FALSE])

write_cb(o, f, status) ==
  End(TellAndFree(o, nterror_to_errno(status)),
      IF status = "SUCCESS" THEN [f EXCEPT !.offset = o.offset + o.got] ELSE f)

fsync_cb(o, f, status) == End(Tell(o, nterror_to_errno(status)), f)

read_cb_ahead(o, f, status) ==
  End(TellAndFree(o, nterror_to_errno(status)),
      IF status = "SUCCESS" THEN [f EXCEPT !.offset = o.offset + o.length] ELSE f)
read_cb(o, f, status) ==
  End(TellAndFree(o, nterror_to_errno(status)),
      IF status = "SUCCESS" THEN [f EXCEPT !.offset = o.offset + o.got] ELSE f)

\* fstat_cb_1, ftrunc_cb_1, echo_cb, create_cb_2
last_cb(o, f, status) == End(TellAndFree(o, nterror_to_errno(status)), f)

create_cb_1(o, f, status) == End(o, f)

\* getinfo_cb_1, getinfo_cb_2; the first two of trunc, rename and readlink
KeepLatest(o, status) == [o EXCEPT !.status = status]
KeepFirst(o, status) == IF o.status = "SUCCESS" THEN [o EXCEPT !.status = status] ELSE o
tell_at_once_cb(o, f, status) ==
  End(IF status # "SUCCESS" THEN Tell(o, nterror_to_errno(status)) ELSE o, f)
middle_cb(o, f, status) == End(KeepFirst(o, status), f)

\* getinfo_cb_3, trunc_cb_3, rename_cb_3
chain_cb_3(o, f, status) ==
  LET k == KeepFirst(o, status) IN End(TellAndFree(k, nterror_to_errno(k.status)), f)

\* The status of the CLOSE is not looked at.
readlink_cb_3(o, f, status) == End(TellAndFree(o, nterror_to_errno(o.status)), f)

QueryDirectory == <<Pdu("query_directory", "query_cb")>>

opendir_cb(o, f, status, fits) ==
  CASE status # "SUCCESS" -> End(TellAndFree(o, nterror_to_errno(status)), f)
    [] status = "SUCCESS" /\ ~fits -> End(TellAndFree(o, "ENOMEM"), f)
    [] OTHER -> Then(o, f, QueryDirectory)

\* decode_dirents puts each entry at the head of the list.
decode_latest(o) == [o EXCEPT !.entries = <<o.listed>>]
decode_dirents(o) == [o EXCEPT !.entries = <<o.listed>> \o @]

query_only_cb(o, f, status, fits) ==
  IF status = "SUCCESS" THEN Then(decode_dirents(o), f, QueryDirectory)
  ELSE End([Tell(o, "0") EXCEPT !.data = "given"], f)
query_cb(o, f, status, fits) ==
  CASE status \notin {"SUCCESS", "NO_MORE_FILES"} ->
         End(TellAndFree(o, nterror_to_errno(status)), f)
    [] status \in {"SUCCESS", "NO_MORE_FILES"} /\ ~fits -> End(TellAndFree(o, "ENOMEM"), f)
    [] status = "SUCCESS" /\ fits -> Then(decode_dirents(o), f, QueryDirectory)
    [] OTHER -> Then(o, f, <<Pdu("close", "od_close_cb")>>)

\* The smb2dir is the application's until smb2_closedir.
od_close_cb(o, f, status) ==
  IF status # "SUCCESS" THEN End(TellAndFree(o, nterror_to_errno(status)), f)
  ELSE End([Tell(o, "0") EXCEPT !.data = "given"], f)

disconnect_cb_1(o, f, status, fits) ==
  IF status # "SUCCESS" \/ ~fits THEN End(TellAndFree(o, "ENOMEM"), f)
  ELSE Then(o, f, <<Pdu("logoff", "disconnect_cb_2")>>)

disconnect_cb_2(o, f, status) == End(TellAndFree(o, "0"), f)

Callback(p, o, f, status, fits) ==
  CASE p.cb = "open_cb" -> open_cb(o, f, status)
    [] p.cb = "close_cb" -> close_cb(o, f, status)
    [] p.cb = "fsync_cb" -> fsync_cb(o, f, status)
    [] p.cb = "read_cb" -> read_cb(o, f, status)
    [] p.cb = "write_cb" -> write_cb(o, f, status)
    [] p.cb \in {"fstat_cb_1", "ftrunc_cb_1", "echo_cb", "create_cb_2"} -> last_cb(o, f, status)
    [] p.cb = "create_cb_1" -> create_cb_1(o, f, status)
    [] p.cb \in {"getinfo_cb_1", "getinfo_cb_2", "trunc_cb_1", "trunc_cb_2",
                 "rename_cb_1", "rename_cb_2", "readlink_cb_1", "readlink_cb_2"} -> middle_cb(o, f, status)
    [] p.cb \in {"getinfo_cb_3", "trunc_cb_3", "rename_cb_3"} -> chain_cb_3(o, f, status)
    [] p.cb = "readlink_cb_3" -> readlink_cb_3(o, f, status)
    [] p.cb = "opendir_cb" -> opendir_cb(o, f, status, fits)
    [] p.cb = "query_cb" -> query_cb(o, f, status, fits)
    [] p.cb = "od_close_cb" -> od_close_cb(o, f, status)
    [] p.cb = "disconnect_cb_1" -> disconnect_cb_1(o, f, status, fits)
    [] p.cb = "disconnect_cb_2" -> disconnect_cb_2(o, f, status)

\* The call a callback tells: of the two that use fh->cb, the one put there last.
TargetOf(p, f) == IF p.cb \in {"close_cb", "fsync_cb"} THEN f.cb ELSE p.op

\* sync_connect_cb: the cb_data of a disconnection is the context's.
connect_ok_cb(before, after, c) ==
  IF after.kind = "disconnect" /\ after.sync /\ after.told = <<"0">> /\ ~c.cancelled
  THEN [c EXCEPT !.finished = TRUE] ELSE c
sync_connect_cb(before, after, c) ==
  IF after.kind = "disconnect" /\ after.sync /\ before.told # after.told /\ ~c.cancelled
  THEN [c EXCEPT !.finished = TRUE] ELSE c

\* socket.c frees an answered PDU unless the caller will; giving one up always does.
FreePdu(o) == [o EXCEPT !.pdu = IF @ = "live" THEN "freed" ELSE "twice"]
FreeIfOurs(p, o) ==
  IF o.sync /\ o.kind \in CallerFreesPdu /\ p.cb \in {"open_cb", "opendir_cb"}
  THEN FreePdu(o) ELSE o

(***************************************************************************)
(* What the calls ask for.                                                 *)
(***************************************************************************)
CreateOrOpen(flags) ==
  IF "O_TRUNC" \in flags THEN "FILE_OVERWRITE_IF"
  ELSE IF "O_CREAT" \in flags THEN "FILE_OPEN_IF" ELSE "FILE_OPEN"
Disposition(flags) ==
  CASE {"O_CREAT", "O_EXCL"} \subseteq flags -> "FILE_CREATE"
    [] "O_CREAT" \in flags /\ "O_EXCL" \notin flags ->
         IF "O_TRUNC" \in flags THEN "FILE_OVERWRITE_IF" ELSE "FILE_OPEN_IF"
    [] OTHER -> IF "O_TRUNC" \in flags THEN "FILE_OVERWRITE" ELSE "FILE_OPEN"

DesiredAccess(flags) ==
  (IF flags \cap {"O_RDWR", "O_WRONLY"} # {} THEN {"write"} ELSE {})
    \cup (IF "O_WRONLY" \notin flags THEN {"read"} ELSE {})

\* (count - 1) / 65536 + 1 in 32 bits without a sign: of no bytes, 65536 pages.
Pages(count) == IF count = 0 THEN 65536 ELSE (count - 1) \div 65536 + 1
AtMost(a, b) == IF a > b THEN b ELSE a

LengthAskedFor(count, max, credits) == AtMost(count, max)
IoLength(count, max, credits) ==
  LET most == AtMost(count, max)
      kept == IF Pages(most) > MaxCredits THEN MaxCredits * 65536 ELSE most
  IN CASE ~Multi -> AtMost(most, 65536)
       [] Multi /\ Pages(kept) > credits -> credits * 65536
       [] OTHER -> kept

smb2_pread_async(count, credits) == IoLength(count, MaxRead, credits)
smb2_pwrite_async(count, credits) == IoLength(count, MaxWrite, credits)

(***************************************************************************)
(* Starting a call.  "fails" is the allocation that fails: 0 is that of    *)
(* the call's data, then those of its PDUs.                                *)
(***************************************************************************)
AllFits(kind) == Len(Chain[kind]) + 1
Failures(kind) ==
  IF "memory" \in Mishaps
  THEN (IF kind \in HasNoData THEN 1 ELSE 0)..AllFits(kind) ELSE {AllFits(kind)}

\* unlink, mkdir, pread, pwrite and ftruncate keep their data when the first PDU
\* cannot be made.
Keeps(kind, fails) == fails = 1 /\ kind \in {"mkdir", "unlink", "read", "write", "ftruncate"}
\* stat, truncate and rename both tell the application and return an error when the
\* last cannot.
TellsToo(kind, fails) == fails = 3 /\ kind \in {"stat", "truncate", "rename"}

Refused(o, fails) ==
  [o EXCEPT !.ret = "error",
            !.data = IF Keeps(o.kind, fails) THEN "live" ELSE "freed",
            !.told = IF TellsToo(o.kind, fails) THEN <<"ENOMEM">> ELSE <<>>,
            !.cb_data = IF o.sync THEN "freed" ELSE "none"]

Started(o) ==
  [o EXCEPT !.data = IF o.kind \in HasNoData THEN "none" ELSE "live",
            !.cb_data = IF o.sync /\ o.kind # "disconnect" THEN "live" ELSE "none",
            !.wait = IF o.sync THEN "waiting" ELSE "none",
            !.pdu = "live"]

\* fh->cb has one place: the application closes or flushes a file nothing else uses.
FhQuiet == \A k \in DOMAIN pdus : ops[pdus[k].op].kind \notin OnHandle
MayCall(kind) ==
  /\ kind \in OnHandle \cup {"lseek"} => fh.open
  /\ kind \in {"close", "fsync"} => FhQuiet
  /\ kind = "disconnect" => fd \in {"open", "failed"}

NextCall == plan[Len(ops) + 1]
MayAct == fd \notin {"destroyed", "crashed"} /\ \A i \in DOMAIN ops : ~Waiting(i)

Sent(i, chain) == [k \in DOMAIN chain |->
                     [op |-> i, cmd |-> chain[k].cmd, cb |-> chain[k].cb, sent |-> FALSE]]

Start(o, fails) ==
  LET i == Len(ops) + 1
      starts == fails = AllFits(o.kind)
  IN /\ ops' = Append(ops, IF starts THEN Started(o) ELSE Refused(o, fails))
     /\ pdus' = IF starts THEN pdus \o Sent(i, Chain[o.kind]) ELSE pdus
     /\ fh' = IF o.kind \in {"close", "fsync"} THEN [fh EXCEPT !.cb = i] ELSE fh
     /\ UNCHANGED <<plan, fd, handles, connect>>

Named(call) == [NoOp EXCEPT !.kind = call.kind, !.sync = call.sync]

Call ==
  /\ Len(ops) < Len(plan) /\ MayAct
  /\ MayCall(NextCall.kind) /\ NextCall.kind \notin {"open", "read", "write", "lseek"}
  /\ \E fails \in Failures(NextCall.kind) : Start(Named(NextCall), fails)

OpenFile ==
  /\ Len(ops) < Len(plan) /\ MayAct /\ NextCall.kind = "open"
  /\ \E fails \in Failures("open"), exists \in BOOLEAN :
       Start([Named(NextCall) EXCEPT !.flags = NextCall.flags, !.exists = exists], fails)

\* read and write go on where the last one ended.
ReadOrWrite ==
  /\ Len(ops) < Len(plan) /\ MayAct /\ NextCall.kind \in {"read", "write"} /\ MayCall(NextCall.kind)
  /\ \E fails \in Failures(NextCall.kind) :
       LET count == NextCall.count
           credits == NextCall.credits      \* what smb2->credits is then
       IN Start([Named(NextCall) EXCEPT !.offset = fh.offset, !.count = count, !.credits = credits,
                   !.length = IF NextCall.kind = "read" THEN smb2_pread_async(count, credits)
                              ELSE smb2_pwrite_async(count, credits)], fails)

From(whence) ==
  CASE whence = "SEEK_SET" -> 0
    [] whence = "SEEK_CUR" -> fh.offset
    [] OTHER -> fh.end_of_file

\* Where a seek leaves the offset.
Anywhere(whence, to) == to
SeekTo(whence, to) ==
  CASE to >= 0 -> to
    [] to < 0 /\ whence = "SEEK_END" -> fh.end_of_file
    [] OTHER -> fh.offset

Seeks == {-131072, 0, 65536}

\* SEEK_END moves to the end before it finds that the target is negative.
smb2_lseek ==
  /\ Len(ops) < Len(plan) /\ MayAct /\ NextCall.kind = "lseek" /\ MayCall("lseek")
  /\ \E whence \in {"SEEK_SET", "SEEK_CUR", "SEEK_END"}, offset \in Seeks :
       LET to == From(whence) + offset
       IN /\ fh' = [fh EXCEPT !.offset = SeekTo(whence, to)]
          /\ ops' = Append(ops, [NoOp EXCEPT !.kind = "lseek", !.offset = fh.offset,
                                             !.ret = IF to < 0 THEN "error" ELSE "0"])
  /\ UNCHANGED <<plan, pdus, fd, handles, connect>>

(***************************************************************************)
(* The server.                                                             *)
(***************************************************************************)
Outcome(disposition, exists) ==
  CASE disposition = "FILE_CREATE" -> IF exists THEN "fails" ELSE "created"
    [] disposition = "FILE_OPEN" -> IF exists THEN "opened" ELSE "fails"
    [] disposition = "FILE_OPEN_IF" -> IF exists THEN "opened" ELSE "created"
    [] disposition = "FILE_OVERWRITE" -> IF exists THEN "truncated" ELSE "fails"
    [] disposition = "FILE_OVERWRITE_IF" -> IF exists THEN "truncated" ELSE "created"

HandleOf(i) == IF ops[i].kind \in OnHandle THEN Opener ELSE i

\* A chain's commands fail as its CREATE did; a deletion fails when the handle closes.
Statuses(p) ==
  LET o == ops[p.op]
  IN CASE p.cmd = "create" ->
            IF o.kind = "open" /\ Outcome(Disposition(o.flags), o.exists) = "fails"
            THEN {"OBJECT_NAME_NOT_FOUND"}
            ELSE {"SUCCESS", "ACCESS_DENIED", "PRIVILEGE_NOT_HELD"}
       [] p.cmd \in {"echo", "tree_disconnect", "logoff"} -> {"SUCCESS", "ACCESS_DENIED"}
       [] p.cmd \notin {"create", "echo", "tree_disconnect", "logoff"}
          /\ HandleOf(p.op) \notin handles -> {"FILE_CLOSED"}
       [] p.cmd = "query_directory" /\ HandleOf(p.op) \in handles ->
            {IF o.listed < Replies THEN "SUCCESS" ELSE "NO_MORE_FILES", "ACCESS_DENIED"}
       [] p.cmd = "close" /\ HandleOf(p.op) \in handles -> {"SUCCESS", "CANNOT_DELETE"}
       [] p.cmd = "read" /\ HandleOf(p.op) \in handles ->
            {IF o.offset < FileSize \/ o.length = 0 THEN "SUCCESS" ELSE "END_OF_FILE",
             "ACCESS_DENIED"}
       [] OTHER -> {"SUCCESS", "ACCESS_DENIED"}

HandlesAfter(p, status) ==
  CASE p.cmd = "create" /\ status = "SUCCESS" -> handles \cup {p.op}
    [] p.cmd = "close" -> handles \ {HandleOf(p.op)}
    [] OTHER -> handles

\* A read or write may be answered with less than it asked for, but not with nothing.
GotOf(p, status) ==
  LET o == ops[p.op]
      left == IF o.offset < FileSize THEN FileSize - o.offset ELSE 0
      all == IF p.cmd = "read" THEN AtMost(o.length, left) ELSE o.length
  IN IF p.cmd \in {"read", "write"} /\ status = "SUCCESS" THEN {all, AtMost(all, 1)} ELSE {0}

Served(o, p, status, got) ==
  [o EXCEPT !.done = IF status = "SUCCESS" THEN @ \cup {p.cmd} ELSE @,
            !.listed = IF p.cmd = "query_directory" /\ status = "SUCCESS" THEN @ + 1 ELSE @,
            !.got = got]

(***************************************************************************)
(* A PDU is answered, or is given up before its answer comes.  Only        *)
(* callbacks that allocate or decode can fail.                             *)
(***************************************************************************)
IsNext(k) == \A j \in 1..(k - 1) : pdus[j].op # pdus[k].op
Fits(p) ==
  IF "memory" \in Mishaps /\ p.cb \in {"opendir_cb", "query_cb", "disconnect_cb_1"}
  THEN BOOLEAN ELSE {TRUE}

Answered(k, status, told, got, fits) ==
  LET p == pdus[k]
      served == [ops EXCEPT ![p.op] = Served(@, p, status, got)]
      t == TargetOf(p, fh)
      r == Callback(p, served[t], fh, told, fits)
  IN /\ ops' = [served EXCEPT ![t] = IF told = status THEN r.op ELSE FreeIfOurs(p, r.op)]
     /\ fh' = r.fh
     /\ pdus' = RemoveAt(pdus, k) \o Sent(p.op, r.next)
     /\ handles' = HandlesAfter(p, status)
     /\ connect' = sync_connect_cb(served[t], r.op, connect)
     /\ fd' = IF p.cb = "disconnect_cb_2" THEN "closed" ELSE fd
     /\ UNCHANGED plan

Send ==
  /\ fd = "open"
  /\ \E k \in DOMAIN pdus : ~pdus[k].sent
  /\ pdus' = [k \in DOMAIN pdus |-> [pdus[k] EXCEPT !.sent = TRUE]]
  /\ UNCHANGED <<plan, ops, fd, handles, fh, connect>>

Reply ==
  /\ fd = "open"
  /\ \E k \in DOMAIN pdus :
       /\ pdus[k].sent /\ IsNext(k)
       /\ \E status \in Statuses(pdus[k]) : \E got \in GotOf(pdus[k], status), fits \in Fits(pdus[k]) :
            Answered(k, status, status, got, fits)

\* smb2_timeout_pdus.  What was sent the server has done, or will.
TimeOutSent ==
  /\ "timeout" \in Mishaps /\ fd = "open"
  /\ \E k \in DOMAIN pdus :
       /\ pdus[k].sent /\ IsNext(k)
       /\ \E status \in Statuses(pdus[k]) : \E got \in GotOf(pdus[k], status) :
            Answered(k, status, "IO_TIMEOUT", got, TRUE)

\* What gives up a chain before it is sent, or with the context, tells its first
\* callback and frees the rest with it.
Dropped(s, k, status) ==
  LET p == pdus[k]
      t == TargetOf(p, s.fh)
      r == Callback(p, s.ops[t], s.fh, status, TRUE)
  IN IF p.sent \/ IsNext(k)
     THEN [ops |-> [s.ops EXCEPT ![t] = FreeIfOurs(p, r.op)], fh |-> r.fh,
           connect |-> sync_connect_cb(s.ops[t], r.op, s.connect)]
     ELSE [s EXCEPT !.ops[t].torn = TRUE]

\* Those of a set of places in the queue, in order.
InOrder(places) ==
  LET upTo[n \in 0..Len(pdus)] ==
        IF n = 0 THEN <<>> ELSE IF n \in places THEN Append(upTo[n - 1], n) ELSE upTo[n - 1]
  IN upTo[Len(pdus)]
Kept(places) == [n \in DOMAIN InOrder(places) |-> pdus[InOrder(places)[n]]]

Drop(places, status) ==
  LET after[n \in 0..Len(pdus)] ==
        IF n = 0 THEN [ops |-> ops, fh |-> fh, connect |-> connect]
        ELSE IF n \in places THEN Dropped(after[n - 1], n, status) ELSE after[n - 1]
      s == after[Len(pdus)]
  IN ops' = s.ops /\ fh' = s.fh /\ connect' = s.connect

Of(i) == {k \in DOMAIN pdus : pdus[k].op = i}

TimeOutUnsent ==
  /\ "timeout" \in Mishaps /\ fd \in {"open", "failed", "closed"}
  /\ \E k \in DOMAIN pdus :
       /\ ~pdus[k].sent /\ IsNext(k)
       /\ Drop(Of(pdus[k].op), "IO_TIMEOUT")
       /\ pdus' = Kept(DOMAIN pdus \ Of(pdus[k].op))
  /\ UNCHANGED <<plan, fd, handles>>

\* The connection fails; the server closes what was open on it.
Break ==
  /\ "break" \in Mishaps /\ fd = "open"
  /\ fd' = "failed" /\ handles' = {}
  /\ UNCHANGED <<plan, ops, pdus, fh, connect>>

smb2_destroy_context ==
  /\ "destroy" \in Mishaps /\ MayAct
  /\ Drop(DOMAIN pdus, "SHUTDOWN")
  /\ pdus' = <<>> /\ fd' = "destroyed" /\ handles' = {}
  /\ UNCHANGED plan

\* fstat_cb_1 reads the reply before it looks at the status: of a PDU that is given
\* up there is none.  A build may do that read or leave it out.
NoReply ==
  /\ \/ "timeout" \in Mishaps /\ fd = "open"
     \/ "destroy" \in Mishaps /\ MayAct
  /\ \E k \in DOMAIN pdus : pdus[k].cb = "fstat_cb_1"
  /\ fd' = "crashed"
  /\ UNCHANGED <<plan, ops, pdus, handles, fh, connect>>

(***************************************************************************)
(* wait_for_reply, and what each synchronous call does after it.           *)
(***************************************************************************)
IsFinished(i) == IF ops[i].kind = "disconnect" THEN connect.finished ELSE ops[i].finished

\* What each does with its cb_data: after a reply, and after a wait that failed.
After(reply, failure) == [reply |-> reply, failure |-> failure]
smb2_disconnect_share == After("none", "none")     \* the context's own
smb2_opendir == After("given", "freed")            \* to the directory, if there is one
smb2_open == After("lost", "lost")                 \* nobody keeps it
smb2_close == After("freed", "freed")
smb2_fsync == After("freed", "kept")
smb2_pread == After("freed", "kept")
smb2_pwrite == After("freed", "kept")
smb2_unlink == After("freed", "kept")
smb2_mkdir == After("freed", "kept")
smb2_fstat == After("freed", "kept")
smb2_stat == After("freed", "kept")
smb2_rename == After("freed", "kept")
smb2_truncate == After("freed", "kept")
smb2_ftruncate == After("freed", "kept")
smb2_readlink == After("freed", "kept")
smb2_echo == After("freed", "kept")

CbDataOf ==
  [disconnect |-> smb2_disconnect_share, opendir |-> smb2_opendir, open |-> smb2_open,
   close |-> smb2_close, fsync |-> smb2_fsync, read |-> smb2_pread, write |-> smb2_pwrite,
   unlink |-> smb2_unlink, mkdir |-> smb2_mkdir, fstat |-> smb2_fstat, stat |-> smb2_stat,
   rename |-> smb2_rename, truncate |-> smb2_truncate, ftruncate |-> smb2_ftruncate,
   readlink |-> smb2_readlink, echo |-> smb2_echo]

CbDataAfter(o) ==
  IF o.kind = "opendir" /\ o.data # "given" THEN "freed" ELSE CbDataOf[o.kind].reply

FreedAnyhow(o) == CbDataOf[o.kind].reply
CbDataAbandoned(o) ==
  IF CbDataOf[o.kind].failure = "kept" THEN o.cb_data ELSE CbDataOf[o.kind].failure

Return(i) ==
  /\ Waiting(i) /\ IsFinished(i) /\ fd # "crashed"
  /\ LET o == [ops[i] EXCEPT !.wait = "returned", !.cb_data = CbDataAfter(ops[i])]
     IN ops' = [ops EXCEPT ![i] = IF o.kind \in CallerFreesPdu THEN FreePdu(o) ELSE o]
  /\ UNCHANGED <<plan, pdus, fd, handles, fh, connect>>

\* The wait fails: the connection does, and the answer is still to come.  Where the
\* call keeps its PDU it takes it from the queue.
Abandon(i) ==
  /\ Waiting(i) /\ ~IsFinished(i) /\ fd \in {"failed", "closed"}
  /\ LET o == [ops[i] EXCEPT !.wait = "abandoned",
                   !.cb_data = CbDataAbandoned(ops[i])]
     IN ops' = [ops EXCEPT ![i] = IF o.kind \in CallerFreesPdu THEN FreePdu(o) ELSE o]
  /\ pdus' = Kept({k \in DOMAIN pdus : ~(pdus[k].op = i /\ pdus[k].cb \in {"open_cb", "opendir_cb"})})
  /\ connect' = IF ops[i].kind = "disconnect" THEN [connect EXCEPT !.cancelled = TRUE] ELSE connect
  /\ UNCHANGED <<plan, fd, handles, fh>>

Wait == \E i \in DOMAIN ops : Return(i) \/ Abandon(i)

Next == Call \/ OpenFile \/ ReadOrWrite \/ smb2_lseek \/ Send \/ Reply \/ TimeOutSent
        \/ TimeOutUnsent \/ Break \/ smb2_destroy_context \/ NoReply \/ Wait

\* The event loop writes, reads and looks at is_finished; the server answers.
Fairness == WF_vars(Send) /\ WF_vars(Reply) /\ WF_vars(Wait)

Spec == Init /\ [][Next]_vars /\ Fairness

-----------------------------------------------------------------------------
(***************************************************************************)
(* Properties.                                                             *)
(***************************************************************************)
Memory == {"none", "live", "freed", "given", "lost"}

\* The shape of the state.
TypeOK ==
  /\ Len(ops) <= Len(plan)
  /\ \A i \in DOMAIN ops :
       /\ ops[i].ret \in {"0", "error"} /\ ops[i].data \in Memory /\ ops[i].cb_data \in Memory
       /\ ops[i].wait \in {"none", "waiting", "returned", "abandoned"}
       /\ ops[i].pdu \in {"none", "live", "freed", "twice"}
  /\ \A k \in DOMAIN pdus : pdus[k].op \in DOMAIN ops /\ pdus[k].sent \in BOOLEAN
  /\ fd \in {"open", "failed", "closed", "destroyed", "crashed"}
  /\ handles \subseteq DOMAIN ops
  /\ fh.open \in BOOLEAN /\ fh.offset \in Nat

\* A call that was begun tells the application once at most, and one that returned
\* an error not at all -- but for stat, truncate and rename when their CLOSE cannot
\* be made.
ToldOnce ==
  \A i \in DOMAIN ops :
    /\ Len(ops[i].told) <= 1
    /\ ops[i].ret = "error" /\ ops[i].told # <<>> =>
         ops[i].kind \in {"stat", "truncate", "rename"} /\ ops[i].told = <<"ENOMEM">>

\* A call the application is told has succeeded was done by the server, whatever
\* part of its chain failed or was given up: mkdir, unlink and opendir too, which do
\* not keep the status of their CREATE.
Needed ==
  [open |-> {"create"}, opendir |-> {"create", "close"}, close |-> {"close"},
   fsync |-> {"flush"}, read |-> {}, write |-> {"write"}, fstat |-> {"query_info"}, ftruncate |-> {"set_info"},
   echo |-> {"echo"}, mkdir |-> {"create"}, unlink |-> {"create", "close"},
   stat |-> {"create", "query_info"}, truncate |-> {"create", "set_info"},
   rename |-> {"create", "set_info"},
   readlink |-> {"create", "ioctl"}, disconnect |-> {"tree_disconnect"}]

OkIsDone ==
  \A i \in DOMAIN ops :
    ops[i].told = <<"0">> => Needed[ops[i].kind] \subseteq ops[i].done

\* When nothing of a call is under way the server holds no file open for it that the
\* application was not given -- but for opendir, which gives up without a CLOSE when
\* listing fails, and an open whose answer came too late.
NothingLeftOpen ==
  \A i \in handles :
    \/ Pending(i)
    \/ ops[i].kind = "open" /\ ops[i].told = <<"0">>
    \/ ops[i].kind = "opendir" /\ ops[i].told # <<>> /\ ops[i].told # <<"0">>
    \/ ops[i].kind = "open" /\ ops[i].told = <<"ETIMEDOUT">>

\* A directory the application is given lists what each of the server's replies
\* held, once; the latest is first.
DirectoryIsWhole ==
  \A i \in DOMAIN ops :
    ops[i].kind = "opendir" /\ ops[i].told = <<"0">> =>
      ops[i].entries = [k \in 1..Replies |-> Replies + 1 - k]

\* What the application is told is true: once, of success only when the server has
\* done what was asked, and with the whole directory.
ToldTheTruth == TypeOK /\ ToldOnce /\ OkIsDone /\ DirectoryIsWhole

\* A call's own data is freed when nothing of it is under way -- but for the five
\* that keep it when their first PDU cannot be made, and a chain of which only the
\* head is told.
DataIsFreed ==
  \A i \in DOMAIN ops :
    ops[i].data = "live" /\ ~Pending(i) =>
      \/ ops[i].ret = "error" /\ ops[i].kind \in {"mkdir", "unlink", "read", "write", "ftruncate"}
      \/ ops[i].torn
      \/ ops[i].kind = "open" /\ fh.open
      \/ ops[i].kind \in CallerFreesPdu /\ ops[i].wait = "abandoned"
      \/ ops[i].kind = "open" /\ \E j \in DOMAIN ops : ops[j].kind = "close"

\* While a callback may still come, the cb_data of a synchronous call is there, also
\* after its wait has failed -- but for close and opendir, which free it.
CbDataIsThere ==
  \A i \in DOMAIN ops :
    ops[i].sync /\ Pending(i) /\ ops[i].kind # "disconnect" /\ ops[i].cb_data # "live" =>
      ops[i].wait = "abandoned" /\ ops[i].kind \in {"close", "opendir"}

\* What a call allocated is freed in the end, and not before its last callback.
MemoryIsKept == DataIsFreed /\ CbDataIsThere

\* A read or write asks for no more than the caller's buffer, the server and the
\* credits allow, and for something -- with a credit, and a buffer to fill or send.
ReadsFit ==
  \A i \in DOMAIN ops :
    LET o == ops[i]
    IN o.kind \in {"read", "write"} /\ o.count > 0 /\ o.credits > 0 =>
         /\ o.length \in 1..AtMost(o.count, IF o.kind = "read" THEN MaxRead ELSE MaxWrite)
         /\ Pages(o.length) <= o.credits

\* Reads and writes one after the other go through the file in order: each begins
\* where the bytes of the one before end, also after one that failed or did less than
\* it was asked -- when every earlier call was waited for and has returned, or did
\* not start.
IsIo(o) == o.kind \in {"read", "write"}
Moved(o) == IF o.told = <<"0">> THEN o.got ELSE 0
OneByOne(j) ==
  \A k \in 1..(j - 1) : ops[k].kind = "lseek" \/ ops[k].ret = "error" \/ ops[k].wait = "returned"
ReadsFollow ==
  \A j \in DOMAIN ops :
    j > 1 /\ IsIo(ops[j - 1]) /\ IsIo(ops[j]) /\ OneByOne(j) =>
      ops[j].offset = ops[j - 1].offset + Moved(ops[j - 1])

\* A file is opened, created or truncated as open(2) says of the flags.
Posix(flags, exists) ==
  CASE exists /\ {"O_CREAT", "O_EXCL"} \subseteq flags -> "fails"
    [] ~exists /\ "O_CREAT" \notin flags -> "fails"
    [] ~exists /\ "O_CREAT" \in flags -> "created"
    [] OTHER -> IF "O_TRUNC" \in flags THEN "truncated" ELSE "opened"

OpensAsAsked ==
  \A i \in DOMAIN ops :
    LET o == ops[i]
    IN o.kind = "open" /\ o.done # {} =>
         /\ Outcome(Disposition(o.flags), o.exists) = Posix(o.flags, o.exists)
         /\ ("read" \in DesiredAccess(o.flags)) = ("O_WRONLY" \notin o.flags)

\* The server is asked for what the application asked for: the file opened or created
\* by the flags, and the bytes at the offset, as many as fit.
AsAsked == OpensAsAsked /\ ReadsFit /\ ReadsFollow

\* A synchronous call returns, also when the connection fails -- but when a callback
\* takes an EPERM for the end of the context, when the chain is given up before it is
\* sent, and when fstat's callback reads a reply that is not there.
Swallowed(o) == o.kind \in {"opendir", "close"} /\ o.told = <<"EPERM">>
Excused(o) == Swallowed(o) \/ o.torn \/ fd = "crashed"
Busy(i) == i \in DOMAIN ops /\ Waiting(i)
SyncEnds == \A i \in 1..4 : Busy(i) ~> (~Busy(i) \/ Excused(ops[i]))

(***************************************************************************)
(* What does not hold: see the README.                                     *)
(***************************************************************************)
\* libsmb2.h:690-692, "Sync opendir() Returns NULL on failure."
OpendirReturns == \A i \in 1..2 : (Busy(i) /\ ops[i].kind = "opendir") ~> ~Busy(i)

\* libsmb2.h:540, of an error: "The callback function will not be invoked."
NotToldOfErrors == \A i \in DOMAIN ops : ops[i].ret = "error" => ops[i].told = <<>>

\* libsmb2.h:555, "Disconnected from the share successfully."
DisconnectIsDone ==
  \A i \in DOMAIN ops :
    ops[i].kind = "disconnect" /\ ops[i].wait = "returned" => "tree_disconnect" \in ops[i].done

\* sync.c:251, "pdu takes ownership of cb_data and will free it".
OpenFreesCbData == \A i \in DOMAIN ops : ops[i].cb_data # "lost"

\* A PDU the caller frees is freed once.
PdusFreedOnce == \A i \in DOMAIN ops : ops[i].pdu # "twice"

\* No read asks for more than the buffer holds, none that has no bytes to read included.
ReadsNeverExceed == \A i \in DOMAIN ops : ops[i].length <= ops[i].count

\* A failed seek leaves the offset alone.
SeeksKeep == [][\A i \in DOMAIN ops' : i \notin DOMAIN ops /\ ops'[i].kind = "lseek"
                  /\ ops'[i].ret = "error" => fh'.offset = fh.offset]_vars
=============================================================================

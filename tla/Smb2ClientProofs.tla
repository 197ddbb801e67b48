-------------------------- MODULE Smb2ClientProofs --------------------------
(***************************************************************************)
(* Theorems of libsmb2's client: of Smb2Calls, for any calls an            *)
(* application plans, any sizes and any mishaps, and then of Smb2Login,    *)
(* whatever the two sides are set to and however many faults there are.    *)
(* The two modules have no name in common.                                 *)
(***************************************************************************)
EXTENDS Smb2Calls, Smb2Login, SequenceTheorems, FiniteSetTheorems, WellFoundedInduction, TLAPS

(* What a callback can be told, what the application then is, and what the *)
(* server can have done.                                                   *)
CallTold == {"SUCCESS", "OBJECT_NAME_NOT_FOUND", "ACCESS_DENIED", "PRIVILEGE_NOT_HELD", "FILE_CLOSED",
         "NO_MORE_FILES", "CANNOT_DELETE", "END_OF_FILE", "IO_TIMEOUT", "SHUTDOWN"}
Errnos == {"0", "ENOENT", "EACCES", "EPERM", "ENETRESET", "ENODATA", "ETIMEDOUT", "ENOMEM"}
CallCommands == {"create", "query_directory", "close", "flush", "query_info", "read", "write", "set_info",
             "echo", "ioctl", "tree_disconnect", "logoff"}
Flags == {"O_RDONLY", "O_WRONLY", "O_RDWR", "O_CREAT", "O_EXCL", "O_TRUNC"}

(* What the record of a call may hold.                                     *)
Op == [kind : Kinds, sync : BOOLEAN, ret : {"0", "error"}, told : Seq(Errnos), status : CallTold,
       data : Memory, cb_data : Memory, wait : {"none", "waiting", "returned", "abandoned"},
       finished : BOOLEAN, pdu : {"none", "live", "freed", "twice"}, done : SUBSET CallCommands,
       entries : Seq(Int), listed : Nat, torn : BOOLEAN, flags : SUBSET Flags, exists : BOOLEAN,
       offset : Nat, count : Nat, credits : Nat, length : Nat, got : Nat]

(* The command whose answer a callback is given.                           *)
Callbacks ==
  {"opendir_cb", "query_cb", "od_close_cb", "open_cb", "close_cb", "fsync_cb", "fstat_cb_1",
   "read_cb", "write_cb", "ftrunc_cb_1", "echo_cb", "create_cb_1", "create_cb_2",
   "getinfo_cb_1", "getinfo_cb_2", "getinfo_cb_3", "trunc_cb_1", "trunc_cb_2", "trunc_cb_3",
   "rename_cb_1", "rename_cb_2", "rename_cb_3", "readlink_cb_1", "readlink_cb_2", "readlink_cb_3",
   "disconnect_cb_1", "disconnect_cb_2"}

CmdOf(cb) ==
  CASE cb \in {"opendir_cb", "open_cb", "create_cb_1", "getinfo_cb_1", "trunc_cb_1", "rename_cb_1",
               "readlink_cb_1"} -> "create"
    [] cb = "query_cb" -> "query_directory"
    [] cb \in {"od_close_cb", "close_cb", "create_cb_2", "getinfo_cb_3", "trunc_cb_3", "rename_cb_3",
               "readlink_cb_3"} -> "close"
    [] cb = "fsync_cb" -> "flush"
    [] cb \in {"fstat_cb_1", "getinfo_cb_2"} -> "query_info"
    [] cb = "read_cb" -> "read"
    [] cb = "write_cb" -> "write"
    [] cb \in {"ftrunc_cb_1", "trunc_cb_2", "rename_cb_2"} -> "set_info"
    [] cb = "echo_cb" -> "echo"
    [] cb = "readlink_cb_2" -> "ioctl"
    [] cb = "disconnect_cb_1" -> "tree_disconnect"
    [] OTHER -> "logoff"

(* What may be left of a call: the callbacks still to come.                *)
OfThree(one, two, three) == {{}, {three}, {two, three}, {one, two, three}}
Left(kind) ==
  CASE kind = "opendir" -> {{}, {"opendir_cb"}, {"query_cb"}, {"od_close_cb"}}
    [] kind = "open" -> {{}, {"open_cb"}}
    [] kind = "close" -> {{}, {"close_cb"}}
    [] kind = "fsync" -> {{}, {"fsync_cb"}}
    [] kind = "fstat" -> {{}, {"fstat_cb_1"}}
    [] kind = "read" -> {{}, {"read_cb"}}
    [] kind = "write" -> {{}, {"write_cb"}}
    [] kind = "ftruncate" -> {{}, {"ftrunc_cb_1"}}
    [] kind = "echo" -> {{}, {"echo_cb"}}
    [] kind \in {"mkdir", "unlink"} -> {{}, {"create_cb_2"}, {"create_cb_1", "create_cb_2"}}
    [] kind = "stat" -> OfThree("getinfo_cb_1", "getinfo_cb_2", "getinfo_cb_3")
    [] kind = "truncate" -> OfThree("trunc_cb_1", "trunc_cb_2", "trunc_cb_3")
    [] kind = "rename" -> OfThree("rename_cb_1", "rename_cb_2", "rename_cb_3")
    [] kind = "readlink" -> OfThree("readlink_cb_1", "readlink_cb_2", "readlink_cb_3")
    [] kind = "disconnect" -> {{}, {"disconnect_cb_1"}, {"disconnect_cb_2"}}
    [] OTHER -> {{}}

(* The callbacks of one chain, in its order.                               *)
Before(cb, next) ==
  \/ cb = "create_cb_1" /\ next = "create_cb_2"
  \/ cb = "getinfo_cb_1" /\ next \in {"getinfo_cb_2", "getinfo_cb_3"}
  \/ cb = "getinfo_cb_2" /\ next = "getinfo_cb_3"
  \/ cb = "trunc_cb_1" /\ next \in {"trunc_cb_2", "trunc_cb_3"}
  \/ cb = "trunc_cb_2" /\ next = "trunc_cb_3"
  \/ cb = "rename_cb_1" /\ next \in {"rename_cb_2", "rename_cb_3"}
  \/ cb = "rename_cb_2" /\ next = "rename_cb_3"
  \/ cb = "readlink_cb_1" /\ next \in {"readlink_cb_2", "readlink_cb_3"}
  \/ cb = "readlink_cb_2" /\ next = "readlink_cb_3"
IsFirst(cb, left) == cb \in left /\ \A other \in left : ~Before(other, cb)

Firsts == {"opendir_cb", "open_cb", "create_cb_1", "getinfo_cb_1", "trunc_cb_1", "rename_cb_1",
           "readlink_cb_1"}
Chained == {"stat", "truncate", "rename", "readlink"}
Creating == Chained \cup {"opendir", "open", "mkdir", "unlink"}
StopsEarly == {"mkdir", "unlink", "read", "write", "ftruncate"}
Listing(n) == [k \in 1..n |-> n + 1 - k]

(* A call has told its application once at most, and of success only when  *)
(* the server has done it.                                                 *)
AnswersWell(o) ==
  /\ Len(o.told) <= 1
  /\ o.told = <<"0">> => o.kind # "lseek" /\ Needed[o.kind] \subseteq o.done
  /\ o.told = <<"0">> /\ o.kind = "opendir" => o.entries = Listing(Replies)

(* A call that is under way has not told it, and what it needs is there.   *)
(* The answers of its chain are kept in its status.                        *)
ChainKept(o, left) ==
  o.kind \in Chained /\ o.status = "SUCCESS" =>
    \A cb \in Callbacks : (\E next \in left : Before(cb, next)) /\ cb \notin left => CmdOf(cb) \in o.done
Going(o, left) ==
  /\ o.told = <<>> /\ ~o.finished /\ o.ret = "0"
  /\ o.data = IF o.kind \in HasNoData THEN "none" ELSE "live"
  /\ o.sync /\ o.kind # "disconnect" /\ o.cb_data # "live" =>
       o.wait = "abandoned" /\ o.kind \in {"close", "opendir"}
  /\ o.status # "END_OF_FILE"
  /\ ChainKept(o, left)
  /\ "disconnect_cb_2" \in left => "tree_disconnect" \in o.done
  /\ o.wait = "returned" => o.kind = "disconnect"

(* One that is not has freed its data, or is one of those that do not.     *)
Over(o) ==
  /\ o.data = "live" =>
       \/ o.ret = "error" /\ o.kind \in StopsEarly
       \/ o.torn
       \/ o.kind = "open" /\ o.told = <<"0">>
       \/ o.kind \in CallerFreesPdu /\ o.wait = "abandoned"
  /\ o.ret = "error" /\ o.told # <<>> =>
       o.kind \in {"stat", "truncate", "rename"} /\ o.told = <<"ENOMEM">>

(* What the server has done of a call, and whether it holds a file open    *)
(* for it.                                                                 *)
Listed(o) == "create" \in o.done /\ o.listed <= Replies /\ o.entries = Listing(o.listed)
OnServer(o, left, i, held) ==
  /\ left \cap Firsts # {} => o.done = {} /\ o.listed = 0 /\ o.entries = <<>>
  /\ {"query_cb", "od_close_cb"} \cap left # {} => Listed(o)
  /\ "od_close_cb" \in left => o.listed = Replies
  /\ i \in held => "create" \in o.done /\ o.kind \in Creating
  /\ i \in held /\ left = {} =>
       \/ o.kind = "open" /\ o.told \in {<<"0">>, <<"ETIMEDOUT">>}
       \/ o.kind = "opendir" /\ o.told # <<>> /\ o.told # <<"0">>

IsCall(o, left) == o \in Op /\ left \in Left(o.kind)
Fine(o, left, i, held) ==
  /\ IsCall(o, left)
  /\ AnswersWell(o)
  /\ IF left = {} THEN Over(o) ELSE Going(o, left)
  /\ OnServer(o, left, i, held)

(* A call whose callback cb is about to be told of a status: the server    *)
(* has done what it says.                                                  *)
Ready(o, left, cb, i, held, told) ==
  /\ IsCall(o, left) /\ IsFirst(cb, left)
  /\ Going(o, left)
  /\ told = "SUCCESS" => CmdOf(cb) \in o.done
  /\ told = "SUCCESS" /\ cb = "create_cb_2" => "create" \in o.done
  /\ told = "END_OF_FILE" => cb = "read_cb" /\ o.got = 0
  /\ cb = "opendir_cb" => o.listed = 0 /\ o.entries = <<>>
  /\ cb \in {"query_cb", "od_close_cb"} => "create" \in o.done
  /\ cb = "query_cb" /\ told = "SUCCESS" =>
       o.listed \in 1..Replies /\ o.entries = Listing(o.listed - 1)
  /\ cb = "query_cb" /\ told = "NO_MORE_FILES" => Listed(o) /\ o.listed = Replies
  /\ cb = "od_close_cb" => Listed(o) /\ o.listed = Replies
  /\ i \in held => "create" \in o.done /\ o.kind \in Creating
  /\ i \in held /\ left = {cb} =>
       \/ cb = "open_cb" /\ told \in {"SUCCESS", "IO_TIMEOUT"}
       \/ cb \in {"opendir_cb", "query_cb"}
       \/ cb = "od_close_cb" /\ told = "IO_TIMEOUT"

-----------------------------------------------------------------------------
(***************************************************************************)
(* The callbacks.                                                          *)
(***************************************************************************)

LEMMA ErrnoOf ==
  ASSUME NEW status \in CallTold
  PROVE  /\ nterror_to_errno(status) \in Errnos
         /\ nterror_to_errno(status) = "0" => status \in {"SUCCESS", "END_OF_FILE"}
         /\ status = "IO_TIMEOUT" => nterror_to_errno(status) = "ETIMEDOUT"
         /\ status = "SUCCESS" => nterror_to_errno(status) = "0"
  BY ZenonT(30) DEF nterror_to_errno, CallTold, Errnos

(* Telling the application changes what the wait looks at, and no more.    *)
SameCall(t, o) ==
  /\ t.kind = o.kind /\ t.sync = o.sync /\ t.ret = o.ret /\ t.wait = o.wait
  /\ t.done = o.done /\ t.listed = o.listed /\ t.torn = o.torn /\ t.flags = o.flags
  /\ t.exists = o.exists /\ t.offset = o.offset /\ t.count = o.count /\ t.credits = o.credits
  /\ t.length = o.length /\ t.got = o.got /\ t.pdu = o.pdu

LEMMA TellIs ==
  ASSUME NEW o \in Op, NEW errno \in Errnos
  PROVE  LET t == Tell(o, errno)
         IN t \in Op /\ SameCall(t, o) /\ t.told = Append(o.told, errno) /\ t.data = o.data
            /\ t.status = o.status /\ t.entries = o.entries
<1> DEFINE a == [o EXCEPT !.told = Append(@, errno)]
<1>1. a \in Op /\ SameCall(a, o) /\ a.told = Append(o.told, errno) /\ a.data = o.data
      /\ a.status = o.status /\ a.entries = o.entries
  <2>1. Append(o.told, errno) \in Seq(Errnos)
    BY DEF Op
  <2> QED BY <2>1 DEF Op, SameCall
<1>2. Finish(a) \in Op /\ SameCall(Finish(a), a) /\ Finish(a).told = a.told /\ Finish(a).data = a.data
      /\ Finish(a).status = a.status /\ Finish(a).entries = a.entries
  BY <1>1 DEF Op, SameCall, Finish
<1>3. FreeCbData(a) \in Op /\ SameCall(FreeCbData(a), a) /\ FreeCbData(a).told = a.told /\ FreeCbData(a).data = a.data
      /\ FreeCbData(a).status = a.status /\ FreeCbData(a).entries = a.entries
  BY <1>1 DEF Op, SameCall, FreeCbData, Memory
<1>4. Tell(o, errno) \in {a, Finish(a), FreeCbData(a)}
  BY <1>1 DEF Tell, Op, sync_open_cb, sync_opendir_cb, sync_close_cb, sync_generic_status_cb
<1> HIDE DEF a
<1> QED BY <1>1, <1>2, <1>3, <1>4 DEF SameCall

(* The last callback of a call.                                           *)
Only(cb) == {cb}
Less(left, cb) == left \ {cb}

LEMMA EndIs ==
  ASSUME NEW o, NEW left, NEW cb, NEW i, NEW held, NEW told \in CallTold, Ready(o, left, cb, i, held, told),
         left = Only(cb), NEW errno \in Errnos, NEW t \in Op, SameCall(t, o), t.told = <<errno>>,
         t.data = "live" => o.kind = "open" /\ errno = "0",
         errno = "0" => /\ Needed[o.kind] \subseteq o.done
                        /\ o.kind = "opendir" => t.entries = Listing(Replies),
         i \in held => o.kind \in {"open", "opendir"},
         i \in held /\ o.kind = "open" => errno = "0" \/ errno = "ETIMEDOUT",
         i \in held /\ o.kind = "opendir" => errno # "0"
  PROVE  Fine(t, Less(left, cb), i, held)
<1>1. Less(left, cb) = {} /\ {} \in Left(t.kind)
  BY DEF Less, Only, Left, OfThree
<1>2. o.kind # "lseek"
  BY DEF Ready, IsCall, IsFirst, Left, Only
<1>3. AnswersWell(t)
  BY <1>2 DEF AnswersWell, SameCall
<1>4. Over(t)
  BY DEF Over, SameCall, Ready, Going
<1>5. OnServer(t, {}, i, held)
  BY DEF OnServer, SameCall, Ready, Only
<1> QED BY <1>1, <1>3, <1>4, <1>5 DEF Fine, IsCall

LEMMA TellAndFreeIs ==
  ASSUME NEW o, NEW left, NEW cb, NEW i, NEW held, NEW told \in CallTold, Ready(o, left, cb, i, held, told),
         left = Only(cb), NEW errno \in Errnos, NEW k \in Op, SameCall(k, o), k.told = <<>>,
         errno = "0" => Needed[o.kind] \subseteq o.done /\ o.kind # "opendir",
         i \in held => o.kind \in {"open", "opendir"},
         i \in held /\ o.kind = "open" => errno = "0" \/ errno = "ETIMEDOUT",
         i \in held /\ o.kind = "opendir" => errno # "0"
  PROVE  LET t == TellAndFree(k, errno)
         IN Fine(t, Less(left, cb), i, held) /\ SameCall(t, o) /\ t.told = <<errno>> /\ t.status = k.status
<1> DEFINE u == Tell(k, errno)
           t == TellAndFree(k, errno)
<1>1. u \in Op /\ SameCall(u, o) /\ u.told = <<errno>> /\ u.status = k.status
  BY TellIs DEF SameCall
<1>2. t = [u EXCEPT !.data = "freed"]
  BY DEF TellAndFree, Free
<1> HIDE DEF u, t
<1>3. t \in Op /\ SameCall(t, o) /\ t.told = <<errno>> /\ t.status = k.status /\ t.data = "freed"
  BY <1>1, <1>2 DEF Op, SameCall, Memory
<1>4. Fine(t, Less(left, cb), i, held)
  BY <1>3, EndIs
<1> QED BY <1>3, <1>4 DEF t

(* What a callback leaves of the smb2fh, and what it sends next.           *)
Fh == [open : BOOLEAN, cb : Nat, offset : Nat, end_of_file : Nat]
NextOf(r) == {r.next[k].cb : k \in DOMAIN r.next}
SendsOne(next) ==
  next \in {<<>>, QueryDirectory, <<Pdu("close", "od_close_cb")>>, <<Pdu("logoff", "disconnect_cb_2")>>}
Leaves(o, f, cb, status, r) ==
  /\ SameCall(r.op, o)
  /\ r.fh \in Fh /\ r.fh.cb = f.cb
  /\ f.open /\ ~r.fh.open => cb = "close_cb"
  /\ cb = "open_cb" /\ r.op.told = <<"0">> => r.fh.open
  /\ cb \notin {"open_cb", "read_cb", "write_cb"} => r.fh.offset = f.offset
  /\ IsIo(o) /\ f.offset = o.offset => r.fh.offset = o.offset + Moved(r.op)
  /\ o.kind \in Chained /\ status # "SUCCESS" /\ cb \in Firsts => r.op.status # "SUCCESS"
  /\ SendsOne(r.next) /\ (status \notin {"SUCCESS", "NO_MORE_FILES"} => r.next = <<>>)

(* The kind of call that has a callback, and what else of it is to come.   *)
LEMMA CallOf ==
  ASSUME NEW o, NEW left, NEW cb, IsCall(o, left), IsFirst(cb, left)
  PROVE  /\ cb = "open_cb" => o.kind = "open" /\ left = Only(cb)
         /\ cb = "close_cb" => o.kind = "close" /\ left = Only(cb)
         /\ cb = "fsync_cb" => o.kind = "fsync" /\ left = Only(cb)
         /\ cb = "read_cb" => o.kind = "read" /\ left = Only(cb)
         /\ cb = "write_cb" => o.kind = "write" /\ left = Only(cb)
         /\ cb = "fstat_cb_1" => o.kind = "fstat" /\ left = Only(cb)
         /\ cb = "ftrunc_cb_1" => o.kind = "ftruncate" /\ left = Only(cb)
         /\ cb = "echo_cb" => o.kind = "echo" /\ left = Only(cb)
         /\ cb = "create_cb_1" => o.kind \in {"mkdir", "unlink"} /\ left = {cb, "create_cb_2"}
         /\ cb = "create_cb_2" => o.kind \in {"mkdir", "unlink"} /\ left = Only(cb)
         /\ cb \in {"opendir_cb", "query_cb", "od_close_cb"} => o.kind = "opendir" /\ left = Only(cb)
         /\ cb \in {"disconnect_cb_1", "disconnect_cb_2"} => o.kind = "disconnect" /\ left = Only(cb)
         /\ cb = "getinfo_cb_3" => o.kind = "stat" /\ left = Only(cb)
         /\ cb = "trunc_cb_3" => o.kind = "truncate" /\ left = Only(cb)
         /\ cb = "rename_cb_3" => o.kind = "rename" /\ left = Only(cb)
         /\ cb = "readlink_cb_3" => o.kind = "readlink" /\ left = Only(cb)
         /\ cb = "getinfo_cb_2" => o.kind = "stat" /\ left = {cb, "getinfo_cb_3"}
         /\ cb = "trunc_cb_2" => o.kind = "truncate" /\ left = {cb, "trunc_cb_3"}
         /\ cb = "rename_cb_2" => o.kind = "rename" /\ left = {cb, "rename_cb_3"}
         /\ cb = "readlink_cb_2" => o.kind = "readlink" /\ left = {cb, "readlink_cb_3"}
         /\ cb = "getinfo_cb_1" => o.kind = "stat" /\ left = {cb, "getinfo_cb_2", "getinfo_cb_3"}
         /\ cb = "trunc_cb_1" => o.kind = "truncate" /\ left = {cb, "trunc_cb_2", "trunc_cb_3"}
         /\ cb = "rename_cb_1" => o.kind = "rename" /\ left = {cb, "rename_cb_2", "rename_cb_3"}
         /\ cb = "readlink_cb_1" => o.kind = "readlink" /\ left = {cb, "readlink_cb_2", "readlink_cb_3"}
         /\ cb \in Callbacks
<1>1. left \in Left(o.kind) /\ cb \in left /\ \A other \in left : ~Before(other, cb)
  BY DEF IsCall, IsFirst
<1> QED BY <1>1 DEF Only, Left, OfThree, Before, Callbacks

(* What each callback does: the call goes on or has ended as it should.    *)
Rest(left, cb, r) == Less(left, cb) \cup NextOf(r)
Calls(r, o, left, cb, i, held, status, f) ==
  Fine(r.op, Rest(left, cb, r), i, held) /\ Leaves(o, f, cb, status, r)

LEMMA EndCalls ==
  ASSUME NEW r, NEW o, NEW left, NEW cb, NEW i, NEW held, NEW status, NEW f, NEW t, NEW g, r = End(t, g),
         Fine(t, Less(left, cb), i, held), SameCall(t, o), g \in Fh, g.cb = f.cb,
         f.open /\ ~g.open => cb = "close_cb",
         cb = "open_cb" /\ t.told = <<"0">> => g.open,
         cb \notin {"open_cb", "read_cb", "write_cb"} => g.offset = f.offset,
         IsIo(o) /\ f.offset = o.offset => g.offset = o.offset + Moved(t),
         o.kind \in Chained /\ status # "SUCCESS" /\ cb \in Firsts => t.status # "SUCCESS"
  PROVE  Calls(r, o, left, cb, i, held, status, f)
<1>1. r.op = t /\ r.fh = g /\ r.next = <<>>
  BY DEF End, Then
<1>2. NextOf(r) = {}
  BY <1>1 DEF NextOf
<1>3. Rest(left, cb, r) = Less(left, cb)
  BY <1>2 DEF Rest
<1>4. SendsOne(r.next)
  BY <1>1 DEF SendsOne
<1> QED BY <1>1, <1>3, <1>4 DEF Calls, Leaves

LEMMA SameItself ==
  ASSUME NEW o
  PROVE  SameCall(o, o)
  BY DEF SameCall

LEMMA OpenCb ==
  ASSUME NEW o, NEW left, NEW cb, cb = "open_cb", NEW i, NEW held, NEW status \in CallTold, NEW f \in Fh,
         Ready(o, left, cb, i, held, status)
  PROVE  Calls(open_cb(o, f, status), o, left, cb, i, held, status, f)
<1> DEFINE e == nterror_to_errno(status)
<1>1. o.kind = "open" /\ left = Only(cb) /\ cb = "open_cb" /\ o \in Op /\ o.told = <<>>
  BY CallOf DEF Ready, IsCall, Going
<1>2. i \in held => status \in {"SUCCESS", "IO_TIMEOUT"}
  BY <1>1 DEF Ready, Only
<1>3. status = "SUCCESS" => "create" \in o.done
  BY <1>1 DEF Ready, CmdOf
<1>4. Needed["open"] = {"create"}
  BY DEF Needed
<1>5. CASE status # "SUCCESS"
  <2>1. status # "END_OF_FILE"
    BY <1>1 DEF Ready
  <2>2. e \in Errnos /\ e # "0" /\ (status = "IO_TIMEOUT" => e = "ETIMEDOUT")
    BY <2>1, <1>5, ErrnoOf
  <2>3. Fine(TellAndFree(o, e), Less(left, cb), i, held) /\ SameCall(TellAndFree(o, e), o)
        /\ TellAndFree(o, e).told = <<e>>
    BY <1>1, <1>2, <1>5, <2>2, TellAndFreeIs, SameItself
  <2>4. open_cb(o, f, status) = End(TellAndFree(o, e), f)
    BY <1>5 DEF open_cb
  <2> HIDE DEF e
  <2> QED BY <2>2, <2>3, <2>4, <1>1, <1>5, EndCalls DEF IsIo, Chained
<1>6. CASE status = "SUCCESS"
  <2> DEFINE t == Tell(o, "0")
             g == [f EXCEPT !.open = TRUE, !.offset = 0, !.end_of_file = FileSize]
  <2>1. t \in Op /\ SameCall(t, o) /\ t.told = <<"0">>
    BY <1>1, TellIs DEF Errnos
  <2>2. g \in Fh /\ g.cb = f.cb /\ g.open
    BY SizesAssumption DEF Fh
  <2>3. open_cb(o, f, status) = End(t, g)
    BY <1>6 DEF open_cb
  <2> HIDE DEF t, g
  <2>4. Fine(t, Less(left, cb), i, held)
    <3>1. Needed[o.kind] \subseteq o.done /\ o.kind # "opendir"
      BY <1>1, <1>3, <1>4, <1>6
    <3>2. "0" \in Errnos
      BY DEF Errnos
    <3> HIDE DEF e
    <3> QED BY <3>1, <3>2, <2>1, <1>1, EndIs
  <2> QED BY <2>1, <2>2, <2>3, <2>4, <1>1, <1>6, EndCalls DEF IsIo, Chained
<1> QED BY <1>5, <1>6

LEMMA CloseCb ==
  ASSUME NEW o, NEW left, NEW cb, cb = "close_cb", NEW i, NEW held, NEW status \in CallTold, NEW f \in Fh,
         Ready(o, left, cb, i, held, status)
  PROVE  Calls(close_cb(o, f, status), o, left, cb, i, held, status, f)
<1> DEFINE e == nterror_to_errno(status)
           t == Tell(o, e)
           g == [f EXCEPT !.open = FALSE]
<1>1. o.kind = "close" /\ left = Only(cb) /\ cb = "close_cb" /\ o \in Op /\ o.told = <<>> /\ o.data = "none"
  BY CallOf DEF Ready, IsCall, Going, HasNoData
<1>2. i \notin held
  BY <1>1 DEF Ready, Creating, Chained, Only
<1>3. e \in Errnos /\ (e = "0" => status = "SUCCESS")
  BY <1>1, ErrnoOf DEF Ready
<1>4. t \in Op /\ SameCall(t, o) /\ t.told = <<e>> /\ t.data = "none"
  BY <1>1, <1>3, TellIs
<1>5. e = "0" => Needed[o.kind] \subseteq o.done
  BY <1>1, <1>3 DEF Ready, CmdOf, Needed
<1>6. g \in Fh /\ g.cb = f.cb /\ g.offset = f.offset
  BY DEF Fh
<1>7. close_cb(o, f, status) = End(t, g)
  BY DEF close_cb
<1> HIDE DEF e, t, g
<1>8. Fine(t, Less(left, cb), i, held)
  BY <1>1, <1>2, <1>3, <1>4, <1>5, EndIs
<1> QED BY <1>1, <1>4, <1>6, <1>7, <1>8, EndCalls DEF IsIo, Chained

LEMMA FsyncCb ==
  ASSUME NEW o, NEW left, NEW cb, cb = "fsync_cb", NEW i, NEW held, NEW status \in CallTold, NEW f \in Fh,
         Ready(o, left, cb, i, held, status)
  PROVE  Calls(fsync_cb(o, f, status), o, left, cb, i, held, status, f)
<1> DEFINE e == nterror_to_errno(status)
           t == Tell(o, e)
<1>1. o.kind = "fsync" /\ left = Only(cb) /\ cb = "fsync_cb" /\ o \in Op /\ o.told = <<>> /\ o.data = "none"
  BY CallOf DEF Ready, IsCall, Going, HasNoData
<1>2. i \notin held
  BY <1>1 DEF Ready, Creating, Chained, Only
<1>3. e \in Errnos /\ (e = "0" => status = "SUCCESS")
  BY <1>1, ErrnoOf DEF Ready
<1>4. t \in Op /\ SameCall(t, o) /\ t.told = <<e>> /\ t.data = "none"
  BY <1>1, <1>3, TellIs
<1>5. e = "0" => Needed[o.kind] \subseteq o.done
  BY <1>1, <1>3 DEF Ready, CmdOf, Needed
<1>7. fsync_cb(o, f, status) = End(t, f)
  BY DEF fsync_cb
<1> HIDE DEF e, t
<1>8. Fine(t, Less(left, cb), i, held)
  BY <1>1, <1>2, <1>3, <1>4, <1>5, EndIs
<1> QED BY <1>1, <1>4, <1>7, <1>8, EndCalls DEF IsIo, Chained

LEMMA IoCb ==
  ASSUME NEW o, NEW left, NEW cb \in {"read_cb", "write_cb"}, NEW i, NEW held, NEW status \in CallTold, NEW f \in Fh,
         Ready(o, left, cb, i, held, status)
  PROVE  Calls(read_cb(o, f, status), o, left, cb, i, held, status, f)
<1> DEFINE e == nterror_to_errno(status)
           t == TellAndFree(o, e)
           g == IF status = "SUCCESS" THEN [f EXCEPT !.offset = o.offset + o.got] ELSE f
<1>1. (cb = "read_cb" => o.kind = "read") /\ (cb = "write_cb" => o.kind = "write") /\ left = Only(cb)
      /\ o \in Op /\ o.told = <<>>
  BY CallOf DEF Ready, IsCall, Going
<1>2. i \notin held
  BY <1>1 DEF Ready, Creating, Chained, Only
<1>3. e \in Errnos /\ (e = "0" => status = "SUCCESS" \/ (status = "END_OF_FILE" /\ cb = "read_cb" /\ o.got = 0))
      /\ (status = "SUCCESS" => e = "0")
  BY <1>1, ErrnoOf DEF Ready
<1>5. e = "0" => Needed[o.kind] \subseteq o.done
  BY <1>1, <1>3 DEF Ready, CmdOf, Needed
<1>6. g \in Fh /\ g.cb = f.cb /\ g.open = f.open /\ (status = "SUCCESS" => g.offset = o.offset + o.got)
      /\ (status # "SUCCESS" => g = f)
  <2>1. o.offset + o.got \in Nat
    BY <1>1 DEF Op
  <2> QED BY <2>1 DEF Fh
<1>7. read_cb(o, f, status) = End(t, g)
  BY DEF read_cb
<1> HIDE DEF e, t, g
<1>8. Fine(t, Less(left, cb), i, held) /\ SameCall(t, o) /\ t.told = <<e>>
  BY <1>1, <1>2, <1>3, <1>5, SameItself, TellAndFreeIs DEF t
<1>9. f.offset = o.offset => g.offset = o.offset + Moved(t)
  <2>1. Moved(t) = IF e = "0" THEN o.got ELSE 0
    BY <1>8 DEF Moved, SameCall
  <2> QED BY <2>1, <1>1, <1>3, <1>6 DEF Fh, Op
<1> QED BY <1>1, <1>6, <1>7, <1>8, <1>9, EndCalls DEF Chained

LEMMA LastCb ==
  ASSUME NEW o, NEW left, NEW cb \in {"fstat_cb_1", "ftrunc_cb_1", "echo_cb", "create_cb_2"}, NEW i, NEW held, NEW status \in CallTold, NEW f \in Fh,
         Ready(o, left, cb, i, held, status)
  PROVE  Calls(last_cb(o, f, status), o, left, cb, i, held, status, f)
<1> DEFINE e == nterror_to_errno(status)
           t == TellAndFree(o, e)
<1>1. /\ o.kind \in {"fstat", "ftruncate", "echo", "mkdir", "unlink"} /\ left = Only(cb) /\ o \in Op /\ o.told = <<>>
      /\ cb = "fstat_cb_1" => o.kind = "fstat"
      /\ cb = "ftrunc_cb_1" => o.kind = "ftruncate"
      /\ cb = "echo_cb" => o.kind = "echo"
      /\ cb = "create_cb_2" => o.kind \in {"mkdir", "unlink"}
  BY CallOf DEF Ready, IsCall, Going
<1>2. i \notin held
  BY <1>1 DEF Ready, Creating, Chained, Only
<1>3. e \in Errnos /\ (e = "0" => status = "SUCCESS")
  BY <1>1, ErrnoOf DEF Ready
<1>5. e = "0" => Needed[o.kind] \subseteq o.done
  BY <1>1, <1>3 DEF Ready, CmdOf, Needed
<1>7. last_cb(o, f, status) = End(t, f)
  BY DEF last_cb
<1> HIDE DEF e, t
<1>8. Fine(t, Less(left, cb), i, held) /\ SameCall(t, o) /\ t.told = <<e>>
  BY <1>1, <1>2, <1>3, <1>5, SameItself, TellAndFreeIs DEF t
<1> QED BY <1>1, <1>7, <1>8, EndCalls DEF IsIo, Chained

LEMMA CreateCb1 ==
  ASSUME NEW o, NEW left, NEW cb, cb = "create_cb_1", NEW i, NEW held, NEW status \in CallTold, NEW f \in Fh,
         Ready(o, left, cb, i, held, status)
  PROVE  Calls(create_cb_1(o, f, status), o, left, cb, i, held, status, f)
<1>1. o.kind \in {"mkdir", "unlink"} /\ left = {cb, "create_cb_2"} /\ IsCall(o, left) /\ Going(o, left)
  BY CallOf DEF Ready
<1>2. Less(left, cb) = {"create_cb_2"}
  BY <1>1 DEF Less
<1>3. create_cb_1(o, f, status) = End(o, f)
  BY DEF create_cb_1
<1>4. Fine(o, Less(left, cb), i, held)
  <2>1. IsCall(o, {"create_cb_2"})
    BY <1>1 DEF IsCall, Left
  <2>2. AnswersWell(o)
    BY <1>1 DEF Going, AnswersWell
  <2>3. Going(o, {"create_cb_2"})
    BY <1>1 DEF Going, ChainKept, Chained
  <2>4. OnServer(o, {"create_cb_2"}, i, held)
    BY <1>1 DEF OnServer, Ready, Firsts
  <2> QED BY <1>2, <2>1, <2>2, <2>3, <2>4 DEF Fine
<1> QED BY <1>1, <1>3, <1>4, EndCalls, SameItself DEF Chained, IsIo

LEMMA KeepFirstIs ==
  ASSUME NEW o \in Op, NEW status \in CallTold
  PROVE  LET k == KeepFirst(o, status)
         IN k \in Op /\ SameCall(k, o) /\ k.told = o.told /\ k.finished = o.finished /\ k.data = o.data
            /\ k.cb_data = o.cb_data /\ k.entries = o.entries
            /\ k.status \in {o.status, status} /\ (k.status = "SUCCESS" => o.status = "SUCCESS" /\ status = "SUCCESS")
<1> DEFINE e == [o EXCEPT !.status = status]
<1>1. /\ e \in Op /\ e.told = o.told /\ e.finished = o.finished /\ e.data = o.data
      /\ e.cb_data = o.cb_data /\ e.entries = o.entries /\ e.status = status
  BY DEF Op
<1>2. SameCall(e, o) /\ SameCall(o, o)
  BY DEF Op, SameCall
<1> HIDE DEF e
<1>3. KeepFirst(o, status) = IF o.status = "SUCCESS" THEN e ELSE o
  BY DEF KeepFirst, e
<1> QED BY <1>1, <1>2, <1>3

LEMMA MiddleCb ==
  ASSUME NEW o, NEW left, NEW cb \in {"getinfo_cb_1", "getinfo_cb_2", "trunc_cb_1", "trunc_cb_2",
                                        "rename_cb_1", "rename_cb_2", "readlink_cb_1", "readlink_cb_2"}, NEW i, NEW held, NEW status \in CallTold, NEW f \in Fh,
         Ready(o, left, cb, i, held, status)
  PROVE  Calls(middle_cb(o, f, status), o, left, cb, i, held, status, f)
<1> DEFINE k == KeepFirst(o, status)
<1>1. o.kind \in Chained /\ IsCall(o, left) /\ Going(o, left) /\ o \in Op
  BY CallOf DEF Ready, Chained, IsCall
<1>2. k \in Op /\ SameCall(k, o) /\ k.told = o.told /\ k.finished = o.finished /\ k.data = o.data
      /\ k.cb_data = o.cb_data
      /\ k.status \in {o.status, status} /\ (k.status = "SUCCESS" => o.status = "SUCCESS" /\ status = "SUCCESS")
  BY <1>1, KeepFirstIs
<1>3. middle_cb(o, f, status) = End(k, f)
  BY DEF middle_cb
<1> HIDE DEF k
<1>4. /\ Less(left, cb) \in Left(o.kind) /\ Less(left, cb) # {} /\ Less(left, cb) \cap Firsts = {}
      /\ {"query_cb", "od_close_cb", "disconnect_cb_2"} \cap Less(left, cb) = {}
  <2>1. IsCall(o, left) /\ IsFirst(cb, left)
    BY DEF Ready
  <2>2. CASE cb \in {"getinfo_cb_2", "trunc_cb_2", "rename_cb_2", "readlink_cb_2"}
    BY <2>1, <2>2, CallOf DEF Less, Left, OfThree, Firsts
  <2>3. CASE cb \in {"getinfo_cb_1", "trunc_cb_1", "rename_cb_1", "readlink_cb_1"}
    <3>1. Less(left, cb) \in Left(o.kind)
      BY <2>1, <2>3, CallOf DEF Less, Left, OfThree
    <3>2. Less(left, cb) # {} /\ Less(left, cb) \cap Firsts = {}
      BY <2>1, <2>3, CallOf DEF Less, Firsts
    <3>3. {"query_cb", "od_close_cb", "disconnect_cb_2"} \cap Less(left, cb) = {}
      BY <2>1, <2>3, CallOf DEF Less
    <3> QED BY <3>1, <3>2, <3>3
  <2> QED BY <2>2, <2>3
<1>5. status # "END_OF_FILE"
  BY DEF Ready
<1>6. ChainKept(k, Less(left, cb))
  <2> SUFFICES ASSUME k.status = "SUCCESS", NEW c \in Callbacks, NEW next \in Less(left, cb),
                      Before(c, next), c \notin Less(left, cb)
               PROVE  CmdOf(c) \in o.done
    BY <1>2 DEF ChainKept, SameCall
  <2>1. CASE c = cb
    BY <2>1, <1>2 DEF Ready
  <2>2. CASE c # cb
    BY <2>2, <1>1, <1>2 DEF Going, ChainKept, Less
  <2> QED BY <2>1, <2>2
<1>7. Fine(k, Less(left, cb), i, held)
  <2>1. IsCall(k, Less(left, cb))
    BY <1>2, <1>4 DEF IsCall, SameCall
  <2>2. AnswersWell(k)
    BY <1>1, <1>2 DEF Going, AnswersWell
  <2>3. Going(k, Less(left, cb))
    BY <1>1, <1>2, <1>4, <1>5, <1>6 DEF Going, SameCall
  <2>4. OnServer(k, Less(left, cb), i, held)
    BY <1>1, <1>2, <1>4 DEF OnServer, Ready, SameCall
  <2> QED BY <1>4, <2>1, <2>2, <2>3, <2>4 DEF Fine
<1>8. status # "SUCCESS" => k.status # "SUCCESS"
  BY <1>2
<1> QED BY <1>1, <1>2, <1>3, <1>7, <1>8, EndCalls DEF Chained, IsIo

LEMMA ChainDone ==
  ASSUME NEW o, NEW left, NEW cb \in {"getinfo_cb_3", "trunc_cb_3", "rename_cb_3", "readlink_cb_3"},
         IsCall(o, left), IsFirst(cb, left), Going(o, left), o.status = "SUCCESS"
  PROVE  Needed[o.kind] \subseteq o.done
<1>1. left = Only(cb)
  BY CallOf
<1>2. ASSUME NEW c \in Callbacks, Before(c, cb) PROVE CmdOf(c) \in o.done
  <2>1. o.kind \in Chained
    BY CallOf DEF Chained
  <2>2. c \notin left /\ cb \in left
    BY <1>1, <1>2 DEF Only, Before
  <2> QED BY <2>1, <2>2, <1>2 DEF Going, ChainKept
<1>3. /\ cb = "getinfo_cb_3" => {"create", "query_info"} \subseteq o.done /\ o.kind = "stat"
      /\ cb = "trunc_cb_3" => {"create", "set_info"} \subseteq o.done /\ o.kind = "truncate"
      /\ cb = "rename_cb_3" => {"create", "set_info"} \subseteq o.done /\ o.kind = "rename"
      /\ cb = "readlink_cb_3" => {"create", "ioctl"} \subseteq o.done /\ o.kind = "readlink"
  <2>1. cb = "getinfo_cb_3" => CmdOf("getinfo_cb_1") \in o.done /\ CmdOf("getinfo_cb_2") \in o.done
    BY <1>2 DEF Callbacks, Before
  <2>2. cb = "trunc_cb_3" => CmdOf("trunc_cb_1") \in o.done /\ CmdOf("trunc_cb_2") \in o.done
    BY <1>2 DEF Callbacks, Before
  <2>3. cb = "rename_cb_3" => CmdOf("rename_cb_1") \in o.done /\ CmdOf("rename_cb_2") \in o.done
    BY <1>2 DEF Callbacks, Before
  <2>4. cb = "readlink_cb_3" => CmdOf("readlink_cb_1") \in o.done /\ CmdOf("readlink_cb_2") \in o.done
    BY <1>2 DEF Callbacks, Before
  <2>5. /\ CmdOf("getinfo_cb_1") = "create" /\ CmdOf("getinfo_cb_2") = "query_info"
        /\ CmdOf("trunc_cb_1") = "create" /\ CmdOf("trunc_cb_2") = "set_info"
        /\ CmdOf("rename_cb_1") = "create" /\ CmdOf("rename_cb_2") = "set_info"
        /\ CmdOf("readlink_cb_1") = "create" /\ CmdOf("readlink_cb_2") = "ioctl"
    BY DEF CmdOf
  <2> QED BY <2>1, <2>2, <2>3, <2>4, <2>5, CallOf
<1> QED BY <1>3 DEF Needed

LEMMA ChainCb3 ==
  ASSUME NEW o, NEW left, NEW cb \in {"getinfo_cb_3", "trunc_cb_3", "rename_cb_3"}, NEW i, NEW held, NEW status \in CallTold, NEW f \in Fh,
         Ready(o, left, cb, i, held, status)
  PROVE  Calls(chain_cb_3(o, f, status), o, left, cb, i, held, status, f)
<1> DEFINE k == KeepFirst(o, status)
           e == nterror_to_errno(k.status)
           t == TellAndFree(k, e)
<1>1. o.kind \in Chained /\ left = Only(cb) /\ o \in Op /\ o.told = <<>> /\ IsCall(o, left) /\ IsFirst(cb, left)
      /\ Going(o, left)
  BY CallOf DEF Ready, IsCall, Going, Chained
<1>2. k \in Op /\ SameCall(k, o) /\ k.told = o.told
      /\ k.status \in {o.status, status} /\ (k.status = "SUCCESS" => o.status = "SUCCESS" /\ status = "SUCCESS")
  BY <1>1, KeepFirstIs
<1>3. i \notin held
  BY <1>1, CallOf DEF Ready, Only
<1>4. k.status \in CallTold /\ k.status # "END_OF_FILE"
  BY <1>1, <1>2 DEF Ready, Going, Op
<1> HIDE DEF k
<1>5. e \in Errnos /\ (e = "0" => Needed[o.kind] \subseteq o.done /\ o.kind # "opendir")
  BY <1>1, <1>2, <1>4, ErrnoOf, ChainDone, CallOf DEF Chained
<1>6. chain_cb_3(o, f, status) = End(t, f)
  BY DEF chain_cb_3, k
<1> HIDE DEF e, t
<1>7. Fine(t, Less(left, cb), i, held) /\ SameCall(t, o) /\ t.told = <<e>> /\ t.status = k.status
  BY <1>1, <1>2, <1>3, <1>5, TellAndFreeIs DEF t
<1>8. cb \notin Firsts
  BY DEF Firsts
<1> QED BY <1>1, <1>6, <1>7, <1>8, EndCalls DEF Chained, IsIo

LEMMA ReadlinkCb3 ==
  ASSUME NEW o, NEW left, NEW cb, cb = "readlink_cb_3", NEW i, NEW held, NEW status \in CallTold, NEW f \in Fh,
         Ready(o, left, cb, i, held, status)
  PROVE  Calls(readlink_cb_3(o, f, status), o, left, cb, i, held, status, f)
<1> DEFINE e == nterror_to_errno(o.status)
           t == TellAndFree(o, e)
<1>1. o.kind \in Chained /\ left = Only(cb) /\ o \in Op /\ o.told = <<>> /\ IsCall(o, left) /\ IsFirst(cb, left)
      /\ Going(o, left)
  BY CallOf DEF Ready, IsCall, Going, Chained
<1>3. i \notin held
  BY <1>1, CallOf DEF Ready, Only
<1>4. o.status \in CallTold /\ o.status # "END_OF_FILE"
  BY <1>1 DEF Going, Op
<1>5. e \in Errnos /\ (e = "0" => Needed[o.kind] \subseteq o.done /\ o.kind # "opendir")
  BY <1>1, <1>4, ErrnoOf, ChainDone, CallOf DEF Chained
<1>6. readlink_cb_3(o, f, status) = End(t, f)
  BY DEF readlink_cb_3
<1> HIDE DEF e, t
<1>7. Fine(t, Less(left, cb), i, held) /\ SameCall(t, o) /\ t.told = <<e>>
  BY <1>1, <1>3, <1>5, TellAndFreeIs, SameItself DEF t
<1>8. cb \notin Firsts
  BY DEF Firsts
<1> QED BY <1>1, <1>6, <1>7, <1>8, EndCalls DEF Chained, IsIo

(* A callback that sends the next PDU itself.                              *)
LEMMA ThenCalls ==
  ASSUME NEW r, NEW o, NEW left, NEW cb, NEW i, NEW held, NEW status, NEW f \in Fh, NEW t, NEW pdu, NEW next,
         r = Then(t, f, <<pdu>>), SendsOne(<<pdu>>), pdu.cb = next, left = Only(cb),
         Fine(t, Only(next), i, held), SameCall(t, o), t.told = <<>>, status \in {"SUCCESS", "NO_MORE_FILES"},
         o.kind \in {"opendir", "disconnect"}, cb \notin {"open_cb", "read_cb", "write_cb"}
  PROVE  Calls(r, o, left, cb, i, held, status, f)
<1>1. r.op = t /\ r.fh = f /\ r.next = <<pdu>>
  BY DEF Then
<1>2. NextOf(r) = {next}
  BY <1>1 DEF NextOf
<1>3. Rest(left, cb, r) = Only(next)
  BY <1>2 DEF Rest, Less, Only
<1> QED BY <1>1, <1>3 DEF Calls, Leaves, IsIo, Chained

LEMMA DirEntries ==
  ASSUME NEW n \in Nat, n >= 1, NEW old, old = Listing(n - 1)
  PROVE  <<n>> \o old = Listing(n) /\ <<n>> \o old \in Seq(Int)
<1>1. Len(old) = n - 1 /\ old \in Seq(Int)
  BY DEF Listing
<1>2. \A k \in 1..n : (<<n>> \o old)[k] = Listing(n)[k]
  BY <1>1 DEF Listing
<1>3. <<n>> \o old \in Seq(Int) /\ Len(<<n>> \o old) = n
  BY <1>1
<1> QED BY <1>2, <1>3 DEF Listing

LEMMA OpendirCb ==
  ASSUME NEW o, NEW left, NEW cb, cb = "opendir_cb", NEW i, NEW held, NEW status \in CallTold, NEW f \in Fh, NEW fits,
         Ready(o, left, cb, i, held, status)
  PROVE  Calls(opendir_cb(o, f, status, fits), o, left, cb, i, held, status, f)
<1> DEFINE e == IF status # "SUCCESS" THEN nterror_to_errno(status) ELSE "ENOMEM"
           t == TellAndFree(o, e)
<1>1. o.kind = "opendir" /\ left = Only(cb) /\ o \in Op /\ o.told = <<>> /\ Going(o, left) /\ IsCall(o, left)
  BY CallOf DEF Ready, IsCall, Going
<1>2. CASE status # "SUCCESS" \/ ~fits
  <2>1. e \in Errnos /\ e # "0"
    BY ErrnoOf DEF Ready, Errnos
  <2>2. opendir_cb(o, f, status, fits) = End(t, f)
    BY <1>2 DEF opendir_cb
  <2> HIDE DEF e, t
  <2>3. Fine(t, Less(left, cb), i, held) /\ SameCall(t, o) /\ t.told = <<e>>
    BY <1>1, <2>1, TellAndFreeIs, SameItself DEF t
  <2> QED BY <1>1, <2>2, <2>3, EndCalls DEF Chained, IsIo
<1>3. CASE status = "SUCCESS" /\ fits
  <2>1. opendir_cb(o, f, status, fits) = Then(o, f, <<Pdu("query_directory", "query_cb")>>)
    BY <1>3 DEF opendir_cb, QueryDirectory
  <2>2. SendsOne(<<Pdu("query_directory", "query_cb")>>) /\ Pdu("query_directory", "query_cb").cb = "query_cb"
    BY DEF SendsOne, QueryDirectory, Pdu
  <2>3. Fine(o, Only("query_cb"), i, held)
    <3>1. IsCall(o, Only("query_cb")) /\ Only("query_cb") # {}
      BY <1>1 DEF IsCall, Left, Only
    <3>2. AnswersWell(o)
      BY <1>1 DEF AnswersWell
    <3>3. Going(o, Only("query_cb"))
      BY <1>1 DEF Going, ChainKept, Chained, Only
    <3>4. OnServer(o, Only("query_cb"), i, held)
      <4>1. Listed(o)
        BY <1>3, SizesAssumption DEF Ready, Listed, Listing, CmdOf
      <4> QED BY <4>1, <1>1 DEF OnServer, Only, Firsts, Ready
    <3> QED BY <3>1, <3>2, <3>3, <3>4 DEF Fine
  <2> DEFINE pdu == Pdu("query_directory", "query_cb")
             next == "query_cb"
  <2>4. opendir_cb(o, f, status, fits) = Then(o, f, <<pdu>>) /\ SendsOne(<<pdu>>) /\ pdu.cb = next
        /\ Fine(o, Only(next), i, held)
    BY <2>1, <2>2, <2>3
  <2> HIDE DEF pdu, next, e, t
  <2> QED BY <1>1, <1>3, <2>4, ThenCalls, SameItself
<1> QED BY <1>2, <1>3

LEMMA OdCloseCb ==
  ASSUME NEW o, NEW left, NEW cb, cb = "od_close_cb", NEW i, NEW held, NEW status \in CallTold, NEW f \in Fh,
         Ready(o, left, cb, i, held, status)
  PROVE  Calls(od_close_cb(o, f, status), o, left, cb, i, held, status, f)
<1> DEFINE e == nterror_to_errno(status)
           t == TellAndFree(o, e)
           u == Tell(o, "0")
           g == [u EXCEPT !.data = "given"]
<1>1. o.kind = "opendir" /\ left = Only(cb) /\ o \in Op /\ o.told = <<>> /\ Going(o, left) /\ IsCall(o, left)
  BY CallOf DEF Ready, IsCall, Going
<1>2. CASE status # "SUCCESS"
  <2>1. e \in Errnos /\ e # "0"
    BY <1>2, ErrnoOf DEF Ready
  <2>2. od_close_cb(o, f, status) = End(t, f)
    BY <1>2 DEF od_close_cb
  <2> HIDE DEF e, t
  <2>3. Fine(t, Less(left, cb), i, held) /\ SameCall(t, o) /\ t.told = <<e>>
    BY <1>1, <2>1, TellAndFreeIs, SameItself DEF t
  <2> QED BY <1>1, <2>2, <2>3, EndCalls DEF Chained, IsIo
<1>3. CASE status = "SUCCESS"
  <2>1. od_close_cb(o, f, status) = End(g, f)
    BY <1>3 DEF od_close_cb
  <2>2. "0" \in Errnos
    BY DEF Errnos
  <2>3. u \in Op /\ SameCall(u, o) /\ u.told = <<"0">> /\ u.entries = o.entries
    BY <1>1, <2>2, TellIs
  <2> HIDE DEF u
  <2>4. g \in Op /\ SameCall(g, o) /\ g.told = <<"0">> /\ g.entries = o.entries /\ g.data = "given"
    BY <2>3 DEF Op, SameCall, Memory
  <2>5. i \notin held
    BY <1>1, <1>3 DEF Ready, Only
  <2>6. Needed[o.kind] \subseteq o.done
    BY <1>1, <1>3 DEF Needed, Ready, CmdOf
  <2>7. g.entries = Listing(Replies)
    BY <2>4 DEF Ready, Listed
  <2> HIDE DEF g, e
  <2>8. Fine(g, Less(left, cb), i, held)
    BY <1>1, <2>2, <2>4, <2>5, <2>6, <2>7, EndIs
  <2> QED BY <1>1, <2>1, <2>4, <2>8, EndCalls DEF Chained, IsIo
<1> QED BY <1>2, <1>3

LEMMA QueryCb ==
  ASSUME NEW o, NEW left, NEW cb, cb = "query_cb", NEW i, NEW held, NEW status \in CallTold, NEW f \in Fh, NEW fits,
         Ready(o, left, cb, i, held, status)
  PROVE  Calls(query_cb(o, f, status, fits), o, left, cb, i, held, status, f)
<1> DEFINE e == IF status \notin {"SUCCESS", "NO_MORE_FILES"} THEN nterror_to_errno(status) ELSE "ENOMEM"
           t == TellAndFree(o, e)
<1>1. o.kind = "opendir" /\ left = Only(cb) /\ o \in Op /\ o.told = <<>> /\ Going(o, left) /\ IsCall(o, left)
      /\ "create" \in o.done
  BY CallOf DEF Ready, IsCall, Going
<1>2. CASE status \notin {"SUCCESS", "NO_MORE_FILES"} \/ ~fits
  <2>1. e \in Errnos /\ e # "0"
    BY ErrnoOf DEF Ready, Errnos
  <2>2. query_cb(o, f, status, fits) = End(t, f)
    BY <1>2 DEF query_cb
  <2> HIDE DEF e, t
  <2>3. Fine(t, Less(left, cb), i, held) /\ SameCall(t, o) /\ t.told = <<e>>
    BY <1>1, <2>1, TellAndFreeIs, SameItself DEF t
  <2> QED BY <1>1, <2>2, <2>3, EndCalls DEF Chained, IsIo
<1>3. CASE status = "SUCCESS" /\ fits
  <2> DEFINE d == decode_dirents(o)
             pdu == Pdu("query_directory", "query_cb")
             next == "query_cb"
  <2>1. query_cb(o, f, status, fits) = Then(d, f, <<pdu>>)
    BY <1>3 DEF query_cb, QueryDirectory
  <2>2. SendsOne(<<pdu>>) /\ pdu.cb = next
    BY DEF SendsOne, QueryDirectory, Pdu
  <2>3. o.listed \in 1..Replies /\ o.listed \in Nat /\ o.entries = Listing(o.listed - 1)
    BY <1>1, <1>3, SizesAssumption DEF Ready, Op
  <2>4. <<o.listed>> \o o.entries = Listing(o.listed) /\ <<o.listed>> \o o.entries \in Seq(Int)
    <3>1. o.listed >= 1
      BY <2>3, SizesAssumption
    <3> QED BY <3>1, <2>3, DirEntries
  <2>5. d \in Op /\ SameCall(d, o) /\ d.told = o.told /\ d.finished = o.finished /\ d.data = o.data
        /\ d.cb_data = o.cb_data /\ d.status = o.status /\ d.entries = Listing(o.listed)
    BY <1>1, <2>4 DEF decode_dirents, Op, SameCall
  <2> HIDE DEF d, pdu, next, e, t
  <2>6. Fine(d, Only(next), i, held)
    <3>1. IsCall(d, Only("query_cb")) /\ Only("query_cb") # {}
      BY <1>1, <2>5 DEF IsCall, Left, Only, SameCall
    <3>2. AnswersWell(d)
      BY <1>1, <2>5 DEF AnswersWell
    <3>3. Going(d, Only("query_cb"))
      BY <1>1, <2>5 DEF Going, ChainKept, Chained, Only, SameCall
    <3>4. OnServer(d, Only("query_cb"), i, held)
      <4>1. Listed(d)
        BY <1>1, <2>3, <2>5, SizesAssumption DEF Listed, SameCall
      <4> QED BY <4>1, <1>1, <2>5 DEF OnServer, Only, Firsts, Ready, SameCall
    <3> QED BY <3>1, <3>2, <3>3, <3>4 DEF Fine, next
  <2> QED BY <1>1, <1>3, <2>1, <2>2, <2>5, <2>6, ThenCalls
<1>4. CASE status = "NO_MORE_FILES" /\ fits
  <2> DEFINE pdu == Pdu("close", "od_close_cb")
             next == "od_close_cb"
  <2>1. query_cb(o, f, status, fits) = Then(o, f, <<pdu>>)
    BY <1>4 DEF query_cb
  <2>2. SendsOne(<<pdu>>) /\ pdu.cb = next
    BY DEF SendsOne, Pdu
  <2> HIDE DEF pdu, next, e, t
  <2>6. Fine(o, Only(next), i, held)
    <3>1. IsCall(o, Only("od_close_cb")) /\ Only("od_close_cb") # {}
      BY <1>1 DEF IsCall, Left, Only
    <3>2. AnswersWell(o)
      BY <1>1 DEF AnswersWell
    <3>3. Going(o, Only("od_close_cb"))
      BY <1>1 DEF Going, ChainKept, Chained, Only
    <3>4. OnServer(o, Only("od_close_cb"), i, held)
      BY <1>1, <1>4 DEF OnServer, Only, Firsts, Ready
    <3> QED BY <3>1, <3>2, <3>3, <3>4 DEF Fine, next
  <2> QED BY <1>1, <1>4, <2>1, <2>2, <2>6, ThenCalls, SameItself
<1> QED BY <1>2, <1>3, <1>4

LEMMA DisconnectCb1 ==
  ASSUME NEW o, NEW left, NEW cb, cb = "disconnect_cb_1", NEW i, NEW held, NEW status \in CallTold, NEW f \in Fh, NEW fits,
         Ready(o, left, cb, i, held, status)
  PROVE  Calls(disconnect_cb_1(o, f, status, fits), o, left, cb, i, held, status, f)
<1> DEFINE e == "ENOMEM"
           t == TellAndFree(o, e)
<1>1. o.kind = "disconnect" /\ left = Only(cb) /\ o \in Op /\ o.told = <<>> /\ Going(o, left) /\ IsCall(o, left)
      /\ i \notin held
  BY CallOf DEF Ready, IsCall, Going, Creating, Chained
<1>2. CASE status # "SUCCESS" \/ ~fits
  <2>1. e \in Errnos /\ e # "0"
    BY DEF Errnos
  <2>2. disconnect_cb_1(o, f, status, fits) = End(t, f)
    BY <1>2 DEF disconnect_cb_1
  <2> HIDE DEF e, t
  <2>3. Fine(t, Less(left, cb), i, held) /\ SameCall(t, o) /\ t.told = <<e>>
    BY <1>1, <2>1, TellAndFreeIs, SameItself DEF t
  <2> QED BY <1>1, <2>2, <2>3, EndCalls DEF Chained, IsIo
<1>3. CASE status = "SUCCESS" /\ fits
  <2> DEFINE pdu == Pdu("logoff", "disconnect_cb_2")
             next == "disconnect_cb_2"
  <2>1. disconnect_cb_1(o, f, status, fits) = Then(o, f, <<pdu>>)
    BY <1>3 DEF disconnect_cb_1
  <2>2. SendsOne(<<pdu>>) /\ pdu.cb = next
    BY DEF SendsOne, Pdu
  <2>3. "tree_disconnect" \in o.done
    BY <1>3 DEF Ready, CmdOf
  <2> HIDE DEF pdu, next, e, t
  <2>6. Fine(o, Only(next), i, held)
    <3>1. IsCall(o, Only("disconnect_cb_2")) /\ Only("disconnect_cb_2") # {}
      BY <1>1 DEF IsCall, Left, Only
    <3>2. AnswersWell(o)
      BY <1>1 DEF AnswersWell
    <3>3. Going(o, Only("disconnect_cb_2"))
      BY <1>1, <2>3 DEF Going, ChainKept, Chained, Only
    <3>4. OnServer(o, Only("disconnect_cb_2"), i, held)
      BY <1>1 DEF OnServer, Only, Firsts
    <3> QED BY <3>1, <3>2, <3>3, <3>4 DEF Fine, next
  <2> QED BY <1>1, <1>3, <2>1, <2>2, <2>6, ThenCalls, SameItself
<1> QED BY <1>2, <1>3

LEMMA DisconnectCb2 ==
  ASSUME NEW o, NEW left, NEW cb, cb = "disconnect_cb_2", NEW i, NEW held, NEW status \in CallTold, NEW f \in Fh,
         Ready(o, left, cb, i, held, status)
  PROVE  Calls(disconnect_cb_2(o, f, status), o, left, cb, i, held, status, f)
<1> DEFINE e == "0"
           t == TellAndFree(o, e)
<1>1. o.kind = "disconnect" /\ left = Only(cb) /\ o \in Op /\ o.told = <<>> /\ i \notin held /\ cb \in left
      /\ "tree_disconnect" \in o.done
  <2>1. o.kind = "disconnect" /\ left = Only(cb)
    BY CallOf DEF Ready
  <2>2. i \notin held
    BY <2>1 DEF Ready, Creating, Chained
  <2>3. o \in Op /\ o.told = <<>> /\ cb \in left /\ ("disconnect_cb_2" \in left => "tree_disconnect" \in o.done)
    BY DEF Ready, IsCall, Going, IsFirst
  <2> QED BY <2>1, <2>2, <2>3
<1>2. e \in Errnos /\ Needed[o.kind] \subseteq o.done
  BY <1>1 DEF Errnos, Needed
<1>3. disconnect_cb_2(o, f, status) = End(t, f)
  BY DEF disconnect_cb_2
<1> HIDE DEF e, t
<1>4. Fine(t, Less(left, cb), i, held) /\ SameCall(t, o) /\ t.told = <<e>>
  BY <1>1, <1>2, TellAndFreeIs, SameItself DEF t
<1> QED BY <1>1, <1>3, <1>4, EndCalls DEF Chained, IsIo

(* Any of them.                                                            *)
LEMMA CallbackCalls ==
  ASSUME NEW o, NEW left, NEW p, NEW i, NEW held, NEW status \in CallTold, NEW f \in Fh, NEW fits,
         Ready(o, left, p.cb, i, held, status)
  PROVE  Calls(Callback(p, o, f, status, fits), o, left, p.cb, i, held, status, f)
<1> DEFINE r == Callback(p, o, f, status, fits)
<1>1. p.cb \in Callbacks
  BY CallOf DEF Ready
<1>2. CASE p.cb = "open_cb"
  <2>1. r = open_cb(o, f, status)
    BY <1>2 DEF Callback
  <2> QED BY <2>1, <1>2, OpenCb
<1>3. CASE p.cb = "close_cb"
  <2>1. r = close_cb(o, f, status)
    BY <1>3 DEF Callback
  <2> QED BY <2>1, <1>3, CloseCb
<1>4. CASE p.cb = "fsync_cb"
  <2>1. r = fsync_cb(o, f, status)
    BY <1>4 DEF Callback
  <2> QED BY <2>1, <1>4, FsyncCb
<1>5. CASE p.cb \in {"read_cb", "write_cb"}
  <2>1. r = read_cb(o, f, status)
    BY <1>5 DEF Callback, read_cb, write_cb
  <2> QED BY <2>1, <1>5, IoCb
<1>6. CASE p.cb \in {"fstat_cb_1", "ftrunc_cb_1", "echo_cb", "create_cb_2"}
  <2>1. r = last_cb(o, f, status)
    BY <1>6 DEF Callback
  <2> QED BY <2>1, <1>6, LastCb
<1>7. CASE p.cb = "create_cb_1"
  <2>1. r = create_cb_1(o, f, status)
    BY <1>7 DEF Callback
  <2> QED BY <2>1, <1>7, CreateCb1
<1>8. CASE p.cb \in {"getinfo_cb_1", "getinfo_cb_2", "trunc_cb_1", "trunc_cb_2",
                    "rename_cb_1", "rename_cb_2", "readlink_cb_1", "readlink_cb_2"}
  <2>1. r = middle_cb(o, f, status)
    BY <1>8 DEF Callback
  <2> QED BY <2>1, <1>8, MiddleCb
<1>9. CASE p.cb \in {"getinfo_cb_3", "trunc_cb_3", "rename_cb_3"}
  <2>1. r = chain_cb_3(o, f, status)
    BY <1>9 DEF Callback
  <2> QED BY <2>1, <1>9, ChainCb3
<1>10. CASE p.cb = "readlink_cb_3"
  <2>1. r = readlink_cb_3(o, f, status)
    BY <1>10 DEF Callback
  <2> QED BY <2>1, <1>10, ReadlinkCb3
<1>11. CASE p.cb = "opendir_cb"
  <2>1. r = opendir_cb(o, f, status, fits)
    BY <1>11 DEF Callback
  <2> QED BY <2>1, <1>11, OpendirCb
<1>12. CASE p.cb = "query_cb"
  <2>1. r = query_cb(o, f, status, fits)
    BY <1>12 DEF Callback
  <2> QED BY <2>1, <1>12, QueryCb
<1>13. CASE p.cb = "od_close_cb"
  <2>1. r = od_close_cb(o, f, status)
    BY <1>13 DEF Callback
  <2> QED BY <2>1, <1>13, OdCloseCb
<1>14. CASE p.cb = "disconnect_cb_1"
  <2>1. r = disconnect_cb_1(o, f, status, fits)
    BY <1>14 DEF Callback
  <2> QED BY <2>1, <1>14, DisconnectCb1
<1>15. CASE p.cb = "disconnect_cb_2"
  <2>1. r = disconnect_cb_2(o, f, status)
    BY <1>15 DEF Callback
  <2> QED BY <2>1, <1>15, DisconnectCb2
<1> QED BY <1>1, <1>2, <1>3, <1>4, <1>5, <1>6, <1>7, <1>8, <1>9, <1>10, <1>11, <1>12, <1>13, <1>14, <1>15
        DEF Callbacks

-----------------------------------------------------------------------------
(***************************************************************************)
(* The queue.                                                              *)
(***************************************************************************)
PduType == [op : Nat, cmd : CallCommands, cb : Callbacks, sent : BOOLEAN]
Places(q, i) == {k \in DOMAIN q : q[k].op = i}
Cbs(q, i) == {q[k].cb : k \in Places(q, i)}

(* Each PDU is some call's, asks for what its callback is told of, and fh  *)
(* has the callback of a close or an fsync.                                *)
Owned(q, os, c) ==
  \A k \in DOMAIN q :
    /\ q[k].op \in DOMAIN os /\ q[k].cmd = CmdOf(q[k].cb)
    /\ q[k].cb \in {"close_cb", "fsync_cb"} => c = q[k].op

(* A chain that creates a file and is not sent yet is whole.               *)
Whole(q, os) ==
  \A k \in DOMAIN q :
    ~q[k].sent /\ os[q[k].op].kind \in Creating \ {"opendir"} =>
      \E j \in DOMAIN q : q[j].op = q[k].op /\ q[j].cb \in Firsts

(* The PDUs of one call are sent at once, differ, and are in their order.  *)
Ordered(q) ==
  \A j, k \in DOMAIN q : q[j].op = q[k].op =>
    /\ q[j].sent = q[k].sent
    /\ j # k => q[j].cb # q[k].cb
    /\ Before(q[j].cb, q[k].cb) => j < k

Queued(q, os, c) == q \in Seq(PduType) /\ Owned(q, os, c) /\ Whole(q, os) /\ Ordered(q)

(* What is left of a queue when some are taken from it.                    *)
Takes(q2, q, at) ==
  /\ q2 \in Seq(PduType)
  /\ \A n \in DOMAIN q2 : at[n] \in DOMAIN q /\ q2[n] = q[at[n]]
  /\ \A m, n \in DOMAIN q2 : m < n => at[m] < at[n]
KeepsChains(q2, q, os, at) ==
  \A n \in DOMAIN q2, k \in DOMAIN q :
    ~q2[n].sent /\ q[k].op = q2[n].op /\ os[q[k].op].kind # "opendir" => \E m \in DOMAIN q2 : at[m] = k

LEMMA TakesQueued ==
  ASSUME NEW q, NEW q2, NEW os, NEW c, NEW at, Queued(q, os, c), Takes(q2, q, at), KeepsChains(q2, q, os, at)
  PROVE  Queued(q2, os, c)
<1>1. q2 \in Seq(PduType) /\ q \in Seq(PduType)
  BY DEF Takes, Queued
<1>2. Owned(q2, os, c)
  BY DEF Takes, Queued, Owned
<1>3. Whole(q2, os)
  <2> SUFFICES ASSUME NEW n \in DOMAIN q2, ~q2[n].sent, os[q2[n].op].kind \in Creating \ {"opendir"}
               PROVE  \E m \in DOMAIN q2 : q2[m].op = q2[n].op /\ q2[m].cb \in Firsts
    BY DEF Whole
  <2>1. at[n] \in DOMAIN q /\ q2[n] = q[at[n]]
    BY DEF Takes
  <2>2. PICK j \in DOMAIN q : q[j].op = q2[n].op /\ q[j].cb \in Firsts
    BY <2>1 DEF Queued, Whole
  <2>3. PICK m \in DOMAIN q2 : at[m] = j
    BY <2>2 DEF KeepsChains
  <2> QED BY <2>2, <2>3 DEF Takes
<1>4. Ordered(q2)
  <2> SUFFICES ASSUME NEW m \in DOMAIN q2, NEW n \in DOMAIN q2, q2[m].op = q2[n].op
               PROVE  /\ q2[m].sent = q2[n].sent
                      /\ m # n => q2[m].cb # q2[n].cb
                      /\ Before(q2[m].cb, q2[n].cb) => m < n
    BY DEF Ordered
  <2>1. DOMAIN q2 = 1..Len(q2) /\ Len(q2) \in Nat /\ m \in Nat /\ n \in Nat /\ DOMAIN q = 1..Len(q) /\ Len(q) \in Nat
    BY <1>1
  <2>2. at[m] \in DOMAIN q /\ at[n] \in DOMAIN q /\ q2[m] = q[at[m]] /\ q2[n] = q[at[n]]
    BY DEF Takes
  <2>3. at[m] \in Nat /\ at[n] \in Nat
    BY <2>1, <2>2
  <2>4. m < n => at[m] < at[n]
    BY DEF Takes
  <2>5. n < m => at[n] < at[m]
    BY DEF Takes
  <2>6. /\ q[at[m]].sent = q[at[n]].sent
        /\ at[m] # at[n] => q[at[m]].cb # q[at[n]].cb
        /\ Before(q[at[m]].cb, q[at[n]].cb) => at[m] < at[n]
    BY <2>2 DEF Queued, Ordered
  <2>7. m # n => at[m] # at[n]
    BY <2>1, <2>3, <2>4, <2>5
  <2>8. at[m] < at[n] => m < n
    BY <2>1, <2>3, <2>5
  <2> QED BY <2>2, <2>6, <2>7, <2>8
<1> QED BY <1>1, <1>2, <1>3, <1>4 DEF Queued

(* The callbacks that are left of a call.                                  *)
LEMMA TakesCbs ==
  ASSUME NEW q, NEW q2, NEW at, Takes(q2, q, at), NEW i, NEW cb
  PROVE  cb \in Cbs(q2, i) <=> \E n \in DOMAIN q2 : q[at[n]].op = i /\ q[at[n]].cb = cb
  BY DEF Takes, Cbs, Places

(* The record of a call may change, and others be added.                   *)
LEMMA QueuedOps ==
  ASSUME NEW q, NEW os, NEW c, NEW os2, NEW c2, Queued(q, os, c),
         \A i \in DOMAIN os : i \in DOMAIN os2 /\ os2[i].kind = os[i].kind,
         c2 = c \/ \A k \in DOMAIN q : q[k].cb \notin {"close_cb", "fsync_cb"}
  PROVE  Queued(q, os2, c2)
<1>1. Owned(q, os2, c2)
  BY DEF Queued, Owned
<1>2. Whole(q, os2)
  BY DEF Queued, Whole, Owned
<1> QED BY <1>1, <1>2 DEF Queued

(* A chain is added for a call that has nothing in the queue.              *)
GoodChain(chain, kind) ==
  /\ chain \in Seq([cmd : CallCommands, cb : Callbacks])
  /\ \A k \in DOMAIN chain : chain[k].cmd = CmdOf(chain[k].cb)
  /\ \A j, k \in DOMAIN chain : j # k => chain[j].cb # chain[k].cb
  /\ \A j, k \in DOMAIN chain : Before(chain[j].cb, chain[k].cb) => j < k
  /\ kind \in Creating \ {"opendir"} => \E k \in DOMAIN chain : chain[k].cb \in Firsts

LEMMA SentIs ==
  ASSUME NEW chain \in Seq([cmd : CallCommands, cb : Callbacks]), NEW i \in Nat, NEW q \in Seq(PduType)
  PROVE  /\ Sent(i, chain) \in Seq(PduType) /\ q \o Sent(i, chain) \in Seq(PduType)
         /\ DOMAIN (q \o Sent(i, chain)) = 1..(Len(q) + Len(chain))
         /\ Len(q) \in Nat /\ Len(chain) \in Nat /\ DOMAIN q = 1..Len(q) /\ DOMAIN chain = 1..Len(chain)
         /\ \A k \in DOMAIN q : (q \o Sent(i, chain))[k] = q[k]
         /\ \A k \in DOMAIN chain :
              (q \o Sent(i, chain))[Len(q) + k] = [op |-> i, cmd |-> chain[k].cmd, cb |-> chain[k].cb, sent |-> FALSE]
<1> DEFINE s == Sent(i, chain)
<1>1. Len(chain) \in Nat /\ DOMAIN chain = 1..Len(chain) /\ Len(q) \in Nat /\ DOMAIN q = 1..Len(q)
  OBVIOUS
<1>2. \A k \in 1..Len(chain) : chain[k].cmd \in CallCommands /\ chain[k].cb \in Callbacks
  <2>1. \A k \in 1..Len(chain) : chain[k] \in [cmd : CallCommands, cb : Callbacks]
    BY ElementOfSeq
  <2> QED BY <2>1
<1>3. \A k \in 1..Len(chain) :
         [op |-> i, cmd |-> chain[k].cmd, cb |-> chain[k].cb, sent |-> FALSE] \in PduType
  BY <1>2 DEF PduType
<1>4. s = [k \in 1..Len(chain) |-> [op |-> i, cmd |-> chain[k].cmd, cb |-> chain[k].cb, sent |-> FALSE]]
  BY <1>1 DEF Sent
<1>5. s \in Seq(PduType) /\ Len(s) = Len(chain)
  BY <1>1, <1>3, <1>4
<1>6. \A k \in DOMAIN chain : s[k] = [op |-> i, cmd |-> chain[k].cmd, cb |-> chain[k].cb, sent |-> FALSE]
  BY <1>1, <1>4
<1> HIDE DEF s
<1>7. q \o s \in Seq(PduType) /\ Len(q \o s) = Len(q) + Len(s)
  BY <1>5, ConcatProperties
<1>8. \A k \in DOMAIN q : (q \o s)[k] = q[k]
  BY <1>1, <1>5
<1>9. \A k \in DOMAIN chain : (q \o s)[Len(q) + k] = s[k]
  BY <1>1, <1>5
<1>10. DOMAIN (q \o s) = 1..(Len(q) + Len(chain))
  BY <1>5, <1>7
<1>11. \A k \in DOMAIN chain :
         (q \o s)[Len(q) + k] = [op |-> i, cmd |-> chain[k].cmd, cb |-> chain[k].cb, sent |-> FALSE]
  BY <1>6, <1>9
<1> QED BY <1>1, <1>5, <1>7, <1>8, <1>10, <1>11 DEF s

LEMMA AddsQueued ==
  ASSUME NEW q, NEW os, NEW c, Queued(q, os, c), NEW i \in Nat, NEW chain, i \in DOMAIN os,
         GoodChain(chain, os[i].kind), Places(q, i) = {},
         \A k \in DOMAIN chain : chain[k].cb \in {"close_cb", "fsync_cb"} => c = i
  PROVE  /\ Queued(q \o Sent(i, chain), os, c)
         /\ Cbs(q \o Sent(i, chain), i) = {chain[k].cb : k \in DOMAIN chain}
         /\ \A j : j # i => Cbs(q \o Sent(i, chain), j) = Cbs(q, j)
<1> DEFINE r == q \o Sent(i, chain)
<1>0. /\ r \in Seq(PduType) /\ DOMAIN r = 1..(Len(q) + Len(chain))
      /\ Len(q) \in Nat /\ Len(chain) \in Nat /\ DOMAIN q = 1..Len(q) /\ DOMAIN chain = 1..Len(chain)
      /\ \A k \in DOMAIN q : r[k] = q[k]
      /\ \A k \in DOMAIN chain :
           r[Len(q) + k] = [op |-> i, cmd |-> chain[k].cmd, cb |-> chain[k].cb, sent |-> FALSE]
  <2>1. q \in Seq(PduType) /\ chain \in Seq([cmd : CallCommands, cb : Callbacks])
    BY DEF Queued, GoodChain
  <2> QED BY <2>1, SentIs
<1>1. /\ r \in Seq(PduType) /\ DOMAIN r = 1..(Len(q) + Len(chain))
      /\ Len(q) \in Nat /\ Len(chain) \in Nat /\ DOMAIN q = 1..Len(q) /\ DOMAIN chain = 1..Len(chain)
      /\ \A k \in DOMAIN q : r[k] = q[k]
      /\ \A k \in DOMAIN chain :
           /\ r[Len(q) + k].op = i /\ r[Len(q) + k].cmd = chain[k].cmd
           /\ r[Len(q) + k].cb = chain[k].cb /\ r[Len(q) + k].sent = FALSE
  <2> HIDE DEF r
  <2> SUFFICES ASSUME NEW k \in DOMAIN chain
               PROVE  /\ r[Len(q) + k].op = i /\ r[Len(q) + k].cmd = chain[k].cmd
                      /\ r[Len(q) + k].cb = chain[k].cb /\ r[Len(q) + k].sent = FALSE
    BY <1>0
  <2>1. r[Len(q) + k] = [op |-> i, cmd |-> chain[k].cmd, cb |-> chain[k].cb, sent |-> FALSE]
    BY <1>0
  <2> QED BY <2>1
<1> HIDE DEF r
<1>2. \A k \in DOMAIN r : k \in DOMAIN q \/ \E m \in DOMAIN chain : k = Len(q) + m
  <2> SUFFICES ASSUME NEW k \in DOMAIN r, k \notin DOMAIN q
               PROVE  \E m \in DOMAIN chain : k = Len(q) + m
    OBVIOUS
  <2>1. k - Len(q) \in DOMAIN chain /\ k = Len(q) + (k - Len(q))
    BY <1>1
  <2> QED BY <2>1
<1>3. \A k \in DOMAIN q : k \in DOMAIN r /\ q[k].op # i
  BY <1>1 DEF Places
<1>4. \A m \in DOMAIN chain : Len(q) + m \in DOMAIN r
  BY <1>1
<1>5. Owned(r, os, c)
  <2> SUFFICES ASSUME NEW k \in DOMAIN r
               PROVE  /\ r[k].op \in DOMAIN os /\ r[k].cmd = CmdOf(r[k].cb)
                      /\ r[k].cb \in {"close_cb", "fsync_cb"} => c = r[k].op
    BY DEF Owned
  <2>1. CASE k \in DOMAIN q
    BY <2>1, <1>1 DEF Queued, Owned
  <2>2. ASSUME NEW m \in DOMAIN chain, k = Len(q) + m
        PROVE  r[k].op = i /\ r[k].cmd = chain[m].cmd /\ r[k].cb = chain[m].cb
    BY <2>2, <1>1
  <2> QED BY <2>1, <2>2, <1>2 DEF GoodChain
<1>6. Whole(r, os)
  <2> SUFFICES ASSUME NEW k \in DOMAIN r, ~r[k].sent, os[r[k].op].kind \in Creating \ {"opendir"}
               PROVE  \E j \in DOMAIN r : r[j].op = r[k].op /\ r[j].cb \in Firsts
    BY DEF Whole
  <2>1. CASE k \in DOMAIN q
    <3>1. PICK j \in DOMAIN q : q[j].op = q[k].op /\ q[j].cb \in Firsts
      BY <2>1, <1>1 DEF Queued, Whole
    <3> QED BY <3>1, <2>1, <1>1, <1>3
  <2>2. ASSUME NEW m \in DOMAIN chain, k = Len(q) + m
        PROVE  \E j \in DOMAIN r : r[j].op = r[k].op /\ r[j].cb \in Firsts
    <3>1. r[k].op = i
      BY <2>2, <1>1
    <3>2. PICK n \in DOMAIN chain : chain[n].cb \in Firsts
      BY <3>1 DEF GoodChain
    <3>3. Len(q) + n \in DOMAIN r /\ r[Len(q) + n].op = i /\ r[Len(q) + n].cb \in Firsts
      BY <3>2, <1>1, <1>4
    <3> QED BY <3>1, <3>3
  <2> QED BY <2>1, <2>2, <1>2
<1>7. Ordered(r)
  <2> SUFFICES ASSUME NEW j \in DOMAIN r, NEW k \in DOMAIN r, r[j].op = r[k].op
               PROVE  /\ r[j].sent = r[k].sent
                      /\ j # k => r[j].cb # r[k].cb
                      /\ Before(r[j].cb, r[k].cb) => j < k
    BY DEF Ordered
  <2>1. CASE j \in DOMAIN q
    <3>1. k \in DOMAIN q
      BY <2>1, <1>1, <1>2, <1>3
    <3> QED BY <2>1, <3>1, <1>1 DEF Queued, Ordered
  <2>2. CASE j \notin DOMAIN q
    <3>1. PICK m \in DOMAIN chain : j = Len(q) + m
      BY <2>2, <1>2
    <3>2. r[j].op = i /\ k \notin DOMAIN q
      BY <3>1, <1>1, <1>3
    <3>3. PICK n \in DOMAIN chain : k = Len(q) + n
      BY <3>2, <1>2
    <3>4. r[j].sent = r[k].sent /\ r[j].cb = chain[m].cb /\ r[k].cb = chain[n].cb
      BY <3>1, <3>3, <1>1
    <3>5. /\ m # n => chain[m].cb # chain[n].cb
          /\ Before(chain[m].cb, chain[n].cb) => m < n
      BY DEF GoodChain
    <3>6. (j # k => m # n) /\ (m < n => j < k)
      BY <3>1, <3>3, <1>1
    <3> QED BY <3>4, <3>5, <3>6
  <2> QED BY <2>1, <2>2
<1>8. Cbs(r, i) = {chain[k].cb : k \in DOMAIN chain}
  <2>1. ASSUME NEW cb \in Cbs(r, i) PROVE cb \in {chain[k].cb : k \in DOMAIN chain}
    <3>1. PICK k \in DOMAIN r : r[k].op = i /\ r[k].cb = cb
      BY DEF Cbs, Places
    <3>2. PICK m \in DOMAIN chain : k = Len(q) + m
      BY <3>1, <1>1, <1>2, <1>3
    <3> QED BY <3>1, <3>2, <1>1
  <2>2. ASSUME NEW m \in DOMAIN chain PROVE chain[m].cb \in Cbs(r, i)
    <3>1. Len(q) + m \in DOMAIN r /\ r[Len(q) + m].op = i /\ r[Len(q) + m].cb = chain[m].cb
      BY <1>1, <1>4
    <3> QED BY <3>1 DEF Cbs, Places
  <2> QED BY <2>1, <2>2
<1>9. ASSUME NEW j, j # i PROVE Cbs(r, j) = Cbs(q, j)
  <2>1. \A k \in DOMAIN r : r[k].op = j <=> k \in DOMAIN q /\ q[k].op = j
    <3> SUFFICES ASSUME NEW k \in DOMAIN r PROVE r[k].op = j <=> k \in DOMAIN q /\ q[k].op = j
      OBVIOUS
    <3>1. CASE k \in DOMAIN q
      BY <3>1, <1>1
    <3>2. ASSUME NEW m \in DOMAIN chain, k = Len(q) + m
          PROVE  r[k].op # j /\ k \notin DOMAIN q
      BY <3>2, <1>1, <1>9
    <3> QED BY <3>1, <3>2, <1>2
  <2>2. Places(r, j) = Places(q, j)
    BY <2>1, <1>3 DEF Places
  <2>3. \A k \in Places(q, j) : r[k].cb = q[k].cb
    BY <1>1 DEF Places
  <2> QED BY <2>2, <2>3 DEF Cbs
<1> QED BY <1>1, <1>5, <1>6, <1>7, <1>8, <1>9 DEF Queued, r

-----------------------------------------------------------------------------
(***************************************************************************)
(* A PDU is answered, or given up.                                         *)
(***************************************************************************)

(* The PDU of a call that is first in the queue is first in its chain.     *)
LEMMA LeadsIsFirst ==
  ASSUME NEW q, q \in Seq(PduType), Ordered(q), NEW k \in DOMAIN q,
         \A j \in 1..(k - 1) : q[j].op # q[k].op
  PROVE  IsFirst(q[k].cb, Cbs(q, q[k].op))
<1>1. q[k].cb \in Cbs(q, q[k].op)
  BY DEF Cbs, Places
<1>2. ASSUME NEW other \in Cbs(q, q[k].op), Before(other, q[k].cb) PROVE FALSE
  <2>1. PICK j \in DOMAIN q : q[j].op = q[k].op /\ q[j].cb = other
    BY DEF Cbs, Places
  <2>2. j < k
    BY <1>2, <2>1 DEF Ordered
  <2>3. j \in 1..(k - 1)
    BY <2>2
  <2> QED BY <2>1, <2>3
<1> QED BY <1>1, <1>2 DEF IsFirst

(* The server may close what it holds.                                     *)
LEMMA FineHeld ==
  ASSUME NEW o, NEW left, NEW i, NEW held, NEW held2, Fine(o, left, i, held), i \in held2 => i \in held
  PROVE  Fine(o, left, i, held2)
  BY DEF Fine, OnServer

LEMMA GivenUpReady ==
  ASSUME NEW o, NEW left, NEW cb, NEW i, NEW held, Fine(o, left, i, held), IsFirst(cb, left),
         NEW told \in {"IO_TIMEOUT", "SHUTDOWN"},
         i \in held => told = "IO_TIMEOUT" /\ o.kind = "opendir"
  PROVE  Ready(o, left, cb, i, held, told)
<1>1. cb \in left /\ IsCall(o, left)
  BY DEF IsFirst, Fine
<1>2. Going(o, left) /\ OnServer(o, left, i, held)
  BY <1>1 DEF Fine
<1>3. cb = "opendir_cb" => o.listed = 0 /\ o.entries = <<>>
  BY <1>1, <1>2 DEF OnServer, Firsts
<1>4. cb \in {"query_cb", "od_close_cb"} => Listed(o)
  BY <1>1, <1>2 DEF OnServer
<1>5. cb = "od_close_cb" => o.listed = Replies
  BY <1>1, <1>2 DEF OnServer
<1>6. i \in held => "create" \in o.done /\ o.kind \in Creating
  BY <1>2 DEF OnServer
<1>7. o.kind = "opendir" => cb \in {"opendir_cb", "query_cb", "od_close_cb"}
  BY <1>1 DEF IsCall, Left
<1> QED BY <1>1, <1>2, <1>3, <1>4, <1>5, <1>6, <1>7 DEF Ready, Listed

LEMMA CmdOfIs ==
  ASSUME NEW cb \in Callbacks
  PROVE  /\ CmdOf(cb) = "create" => cb \in Firsts
         /\ CmdOf(cb) = "read" => cb = "read_cb"
         /\ cb \in Firsts => CmdOf(cb) = "create"
         /\ cb \in {"od_close_cb", "create_cb_2", "getinfo_cb_3", "trunc_cb_3", "rename_cb_3", "readlink_cb_3"} =>
              CmdOf(cb) = "close"
         /\ cb = "query_cb" <=> CmdOf(cb) = "query_directory"
  BY DEF CmdOf, Callbacks, Firsts

(* What the server answers.                                                *)
LEMMA StatusesAre ==
  ASSUME NEW p, NEW status \in Statuses(p), p.cb \in Callbacks, p.cmd = CmdOf(p.cb), ops[p.op] \in Op
  PROVE  /\ status \in CallTold \ {"IO_TIMEOUT", "SHUTDOWN"}
         /\ status = "END_OF_FILE" => p.cb = "read_cb"
         /\ p.cmd = "close" /\ status = "SUCCESS" => HandleOf(p.op) \in handles
         /\ p.cb = "query_cb" /\ status = "SUCCESS" => ops[p.op].listed < Replies
         /\ p.cb = "query_cb" /\ status = "NO_MORE_FILES" => ~(ops[p.op].listed < Replies)
<1> DEFINE o == ops[p.op]
           there == HandleOf(p.op) \in handles
<1>1. p.cmd \in CallCommands
  BY DEF CmdOf, Callbacks, CallCommands
<1>2. /\ p.cmd = "create" => status \in {"OBJECT_NAME_NOT_FOUND", "SUCCESS", "ACCESS_DENIED", "PRIVILEGE_NOT_HELD"}
      /\ p.cmd \in {"echo", "tree_disconnect", "logoff"} => status \in {"SUCCESS", "ACCESS_DENIED"}
      /\ p.cmd \notin {"create", "echo", "tree_disconnect", "logoff"} /\ ~there => status = "FILE_CLOSED"
      /\ p.cmd = "query_directory" /\ there =>
           status \in {IF o.listed < Replies THEN "SUCCESS" ELSE "NO_MORE_FILES", "ACCESS_DENIED"}
      /\ p.cmd = "close" /\ there => status \in {"SUCCESS", "CANNOT_DELETE"}
      /\ p.cmd = "read" /\ there => status \in {"SUCCESS", "END_OF_FILE", "ACCESS_DENIED"}
      /\ p.cmd \in {"flush", "query_info", "write", "set_info", "ioctl"} /\ there =>
           status \in {"SUCCESS", "ACCESS_DENIED"}
  <2> HIDE DEF there
  <2>1. CASE p.cmd = "create"
    BY <2>1 DEF Statuses
  <2>2. CASE p.cmd \in {"echo", "tree_disconnect", "logoff"}
    BY <2>2 DEF Statuses
  <2>3. CASE p.cmd \notin {"create", "echo", "tree_disconnect", "logoff"} /\ ~there
    BY <2>3 DEF Statuses, there
  <2>4. CASE p.cmd = "query_directory" /\ there
    BY <2>4 DEF Statuses, there
  <2>5. CASE p.cmd = "close" /\ there
    BY <2>5 DEF Statuses, there
  <2>6. CASE p.cmd = "read" /\ there
    BY <2>6 DEF Statuses, there
  <2>7. CASE p.cmd \in {"flush", "query_info", "write", "set_info", "ioctl"} /\ there
    BY <2>7 DEF Statuses, there
  <2> QED BY <1>1, <2>1, <2>2, <2>3, <2>4, <2>5, <2>6, <2>7 DEF CallCommands
<1>3. (p.cmd = "read" => p.cb = "read_cb") /\ (p.cb = "query_cb" <=> p.cmd = "query_directory")
  BY CmdOfIs
<1> HIDE DEF there
<1>4. status \in CallTold \ {"IO_TIMEOUT", "SHUTDOWN"} /\ (status = "END_OF_FILE" => p.cmd = "read")
  BY <1>1, <1>2 DEF CallTold, CallCommands
<1> QED BY <1>2, <1>3, <1>4 DEF there

LEMMA GotIs ==
  ASSUME NEW p, NEW status, NEW got \in GotOf(p, status), ops[p.op] \in Op
  PROVE  got \in Nat /\ (status # "SUCCESS" => got = 0)
<1>1. FileSize \in Nat /\ ops[p.op].offset \in Nat /\ ops[p.op].length \in Nat
  BY SizesAssumption DEF Op
<1>2. \A a, b \in Nat : AtMost(a, b) \in Nat
  BY DEF AtMost
<1> DEFINE o == ops[p.op]
           left == IF o.offset < FileSize THEN FileSize - o.offset ELSE 0
           all == IF p.cmd = "read" THEN AtMost(o.length, left) ELSE o.length
<1>3. left \in Nat
  BY <1>1
<1>4. all \in Nat
  <2> HIDE DEF left
  <2> QED BY <1>1, <1>2, <1>3
<1>5. AtMost(all, 1) \in Nat
  BY <1>2, <1>4
<1>6. got \in IF p.cmd \in {"read", "write"} /\ status = "SUCCESS" THEN {all, AtMost(all, 1)} ELSE {0}
  BY DEF GotOf
<1> HIDE DEF all
<1> QED BY <1>4, <1>5, <1>6

LEMMA ServedReady ==
  ASSUME NEW p, NEW left, NEW o, o = ops[p.op], Fine(o, left, p.op, handles), IsFirst(p.cb, left),
         p.cmd = CmdOf(p.cb), NEW status \in Statuses(p), NEW got \in GotOf(p, status),
         NEW told \in {status, "IO_TIMEOUT"}
  PROVE  Ready(Served(o, p, status, got), left, p.cb, p.op, HandlesAfter(p, status), told)
<1> DEFINE i == p.op
           cb == p.cb
           held == HandlesAfter(p, status)
           s == Served(o, p, status, got)
<1>1. cb \in left /\ IsCall(o, left) /\ Going(o, left) /\ OnServer(o, left, i, handles) /\ cb \in Callbacks
      /\ o \in Op
  <2>1. cb \in left /\ IsCall(o, left)
    BY DEF IsFirst, Fine
  <2>2. cb \in Callbacks
    BY <2>1, CallOf
  <2> QED BY <2>1, <2>2 DEF Fine, IsCall
<1>2. /\ status \in CallTold \ {"IO_TIMEOUT", "SHUTDOWN"} /\ (status = "END_OF_FILE" => cb = "read_cb")
      /\ p.cmd = "close" /\ status = "SUCCESS" => HandleOf(i) \in handles
      /\ cb = "query_cb" /\ status = "SUCCESS" => o.listed < Replies
      /\ cb = "query_cb" /\ status = "NO_MORE_FILES" => ~(o.listed < Replies)
  BY <1>1, StatusesAre
<1>3. got \in Nat /\ (status # "SUCCESS" => got = 0)
  BY <1>1, GotIs
<1>4. p.cmd \in CallCommands
  BY <1>1 DEF CmdOf, Callbacks, CallCommands
<1>5. /\ s \in Op /\ s.kind = o.kind /\ s.sync = o.sync /\ s.ret = o.ret /\ s.wait = o.wait
      /\ s.told = o.told /\ s.finished = o.finished /\ s.data = o.data /\ s.cb_data = o.cb_data
      /\ s.status = o.status /\ s.entries = o.entries /\ s.got = got
      /\ s.done = IF status = "SUCCESS" THEN o.done \cup {p.cmd} ELSE o.done
      /\ s.listed = IF p.cmd = "query_directory" /\ status = "SUCCESS" THEN o.listed + 1 ELSE o.listed
  <2> DEFINE d == IF status = "SUCCESS" THEN o.done \cup {p.cmd} ELSE o.done
             l == IF p.cmd = "query_directory" /\ status = "SUCCESS" THEN o.listed + 1 ELSE o.listed
  <2>1. s = [o EXCEPT !.done = d, !.listed = l, !.got = got]
    BY <1>1 DEF Served, Op
  <2>2. d \in SUBSET CallCommands /\ l \in Nat
    BY <1>1, <1>4 DEF Op
  <2> HIDE DEF d, l, s
  <2>3. s \in Op /\ s.done = d /\ s.listed = l /\ s.got = got
    BY <1>1, <1>3, <2>1, <2>2, ZenonT(30) DEF Op
  <2>4. /\ s.kind = o.kind /\ s.sync = o.sync /\ s.ret = o.ret /\ s.wait = o.wait
        /\ s.told = o.told /\ s.finished = o.finished /\ s.data = o.data /\ s.cb_data = o.cb_data
        /\ s.status = o.status /\ s.entries = o.entries
    BY <1>1, <2>1 DEF Op
  <2> QED BY <2>3, <2>4 DEF d, l
<1>6. /\ i \in held /\ i \notin handles => p.cmd = "create" /\ status = "SUCCESS"
      /\ p.cmd = "close" /\ HandleOf(i) = i => i \notin held
  BY DEF HandlesAfter
<1>7. o.kind \notin OnHandle => HandleOf(i) = i
  BY DEF HandleOf
<1>8. /\ cb = "query_cb" <=> p.cmd = "query_directory"
      /\ p.cmd = "create" <=> cb \in Firsts
      /\ cb \in {"od_close_cb", "create_cb_2", "getinfo_cb_3", "trunc_cb_3", "rename_cb_3", "readlink_cb_3"} =>
           p.cmd = "close"
  BY <1>1, CmdOfIs
<1>9. /\ i \in handles => "create" \in o.done /\ o.kind \in Creating
      /\ cb \in Firsts => o.done = {} /\ o.listed = 0 /\ o.entries = <<>>
      /\ cb \in {"query_cb", "od_close_cb"} => Listed(o)
      /\ cb = "od_close_cb" => o.listed = Replies
  BY <1>1 DEF OnServer
<1> HIDE DEF s, held
<1>10. Going(s, left)
  <2>1. ChainKept(s, left)
    BY <1>1, <1>5 DEF Going, ChainKept
  <2> QED BY <1>1, <1>5, <2>1 DEF Going
<1>11. told = "SUCCESS" => CmdOf(cb) \in s.done
  BY <1>5
<1>12. told = "SUCCESS" /\ cb = "create_cb_2" => "create" \in s.done
  <2> SUFFICES ASSUME told = "SUCCESS", cb = "create_cb_2" PROVE "create" \in s.done
    OBVIOUS
  <2>1. o.kind \in {"mkdir", "unlink"}
    BY <1>1, CallOf
  <2>2. i \in handles
    BY <1>2, <1>7, <1>8, <2>1 DEF OnHandle
  <2> QED BY <1>5, <1>9, <2>2
<1>13. told = "END_OF_FILE" => cb = "read_cb" /\ s.got = 0
  BY <1>2, <1>3, <1>5
<1>14. cb = "opendir_cb" => s.listed = 0 /\ s.entries = <<>>
  BY <1>5, <1>8, <1>9 DEF Firsts
<1>15. cb \in {"query_cb", "od_close_cb"} => "create" \in s.done
  BY <1>5, <1>9 DEF Listed
<1>16. cb = "query_cb" /\ told = "SUCCESS" =>
         s.listed \in 1..Replies /\ s.entries = Listing(s.listed - 1)
  <2> SUFFICES ASSUME cb = "query_cb", told = "SUCCESS"
               PROVE  s.listed \in 1..Replies /\ s.entries = Listing(s.listed - 1)
    OBVIOUS
  <2>1. status = "SUCCESS" /\ o.listed < Replies /\ s.listed = o.listed + 1 /\ o.listed \in Nat /\ Replies \in Nat
    BY <1>1, <1>2, <1>5, <1>8, SizesAssumption DEF Op
  <2>2. s.listed - 1 = o.listed /\ s.listed \in 1..Replies
    BY <2>1
  <2> QED BY <1>5, <1>9, <2>2 DEF Listed
<1>17. cb = "query_cb" /\ told = "NO_MORE_FILES" => Listed(s) /\ s.listed = Replies
  <2> SUFFICES ASSUME cb = "query_cb", told = "NO_MORE_FILES" PROVE Listed(s) /\ s.listed = Replies
    OBVIOUS
  <2>1. s.listed = o.listed /\ o.listed \in Nat /\ Replies \in Nat /\ ~(o.listed < Replies) /\ o.listed <= Replies
    BY <1>1, <1>2, <1>5, <1>9, SizesAssumption DEF Op, Listed
  <2> QED BY <1>5, <1>9, <2>1 DEF Listed
<1>18. cb = "od_close_cb" => Listed(s) /\ s.listed = Replies
  BY <1>5, <1>8, <1>9 DEF Listed
<1>19. i \in held => "create" \in s.done /\ o.kind \in Creating
  <2>1. cb \in Firsts => o.kind \in Creating
    BY <1>1, CallOf DEF Firsts, Creating, Chained, IsCall, Left, OfThree
  <2> QED BY <1>5, <1>6, <1>8, <1>9, <2>1
<1>20. i \in held /\ left = {cb} =>
         \/ cb = "open_cb" /\ told \in {"SUCCESS", "IO_TIMEOUT"}
         \/ cb \in {"opendir_cb", "query_cb"}
         \/ cb = "od_close_cb" /\ told = "IO_TIMEOUT"
  <2> SUFFICES ASSUME i \in held, left = {cb}
               PROVE  \/ cb = "open_cb" /\ told \in {"SUCCESS", "IO_TIMEOUT"}
                      \/ cb \in {"opendir_cb", "query_cb"}
    OBVIOUS
  <2>1. o.kind \in Creating
    BY <1>19
  <2>2. cb \in {"opendir_cb", "query_cb", "od_close_cb", "open_cb", "create_cb_2", "getinfo_cb_3", "trunc_cb_3",
                "rename_cb_3", "readlink_cb_3"}
    BY <1>1, <2>1 DEF IsCall, Left, OfThree, Creating, Chained
  <2>3. HandleOf(i) = i
    BY <1>7, <2>1 DEF OnHandle, Creating, Chained
  <2>4. p.cmd # "close"
    BY <1>6, <2>3
  <2>5. CASE cb = "open_cb"
    <3>1. i \notin handles
      BY <1>9, <2>5 DEF Firsts
    <3> QED BY <1>6, <2>5, <3>1
  <2> QED BY <1>8, <2>2, <2>4, <2>5
<1> QED BY <1>1, <1>5, <1>10, <1>11, <1>12, <1>13, <1>14, <1>15, <1>16, <1>17, <1>18, <1>19, <1>20
        DEF Ready, IsCall, s, held

-----------------------------------------------------------------------------
(***************************************************************************)
(* What the calls have in common: the smb2fh, and the order of the reads.  *)
(***************************************************************************)

(* A file the application was told of is open until it is closed.          *)
Opens(os, f) ==
  \A i \in DOMAIN os :
    os[i].kind = "open" /\ os[i].told = <<"0">> => f.open \/ \E j \in DOMAIN os : os[j].kind = "close"

(* Each read or write begins where the one before it ended, and the next   *)
(* will.                                                                   *)
Ended(os, j) ==
  \A k \in 1..(j - 1) : os[k].kind = "lseek" \/ os[k].ret = "error" \/ os[k].wait = "returned"
InTurn(os) ==
  \A j \in DOMAIN os :
    j > 1 /\ IsIo(os[j - 1]) /\ IsIo(os[j]) /\ Ended(os, j) => os[j].offset = os[j - 1].offset + Moved(os[j - 1])
AtEnd(os, f) ==
  \A n \in DOMAIN os :
    n = Len(os) /\ IsIo(os[n]) /\ Ended(os, n) => f.offset = os[n].offset + Moved(os[n])

(* What a read or write asks for.                                          *)
Asks(os) ==
  \A i \in DOMAIN os :
    /\ os[i].kind = "read" => os[i].length = smb2_pread_async(os[i].count, os[i].credits)
    /\ os[i].kind = "write" => os[i].length = smb2_pwrite_async(os[i].count, os[i].credits)

CallCommon(os, f) == Opens(os, f) /\ InTurn(os) /\ AtEnd(os, f) /\ Asks(os)

(* What a callback leaves alone.                                           *)
Same(o2, o) ==
  /\ o2.kind = o.kind /\ o2.sync = o.sync /\ o2.ret = o.ret /\ o2.wait = o.wait
  /\ o2.flags = o.flags /\ o2.exists = o.exists /\ o2.offset = o.offset /\ o2.count = o.count
  /\ o2.credits = o.credits /\ o2.length = o.length

LEMMA ExceptIs ==
  ASSUME NEW os \in Seq(Op), NEW i \in DOMAIN os, NEW o2 \in Op
  PROVE  LET os2 == [os EXCEPT ![i] = o2]
         IN /\ os2 \in Seq(Op) /\ Len(os2) = Len(os) /\ DOMAIN os2 = DOMAIN os
            /\ os2[i] = o2 /\ \A j \in DOMAIN os : j # i => os2[j] = os[j]
  OBVIOUS

(* The record of a call changes, but not what it asked for nor was told.   *)
LEMMA LikeKeeps ==
  ASSUME NEW os, NEW i, NEW o2, NEW f, NEW g, os \in Seq(Op), i \in DOMAIN os, o2 \in Op, CallCommon(os, f),
         o2.kind = os[i].kind, o2.ret = os[i].ret, o2.wait = os[i].wait \/ i = Len(os),
         o2.offset = os[i].offset, o2.count = os[i].count, o2.credits = os[i].credits,
         o2.length = os[i].length, o2.told = os[i].told, o2.got = os[i].got,
         g.open = f.open, g.offset = f.offset
  PROVE  CallCommon([os EXCEPT ![i] = o2], g)
<1> DEFINE os2 == [os EXCEPT ![i] = o2]
<1>1. /\ os2 \in Seq(Op) /\ Len(os2) = Len(os) /\ DOMAIN os2 = DOMAIN os
      /\ os2[i] = o2 /\ \A j \in DOMAIN os : j # i => os2[j] = os[j]
  BY ExceptIs
<1>2. DOMAIN os = 1..Len(os) /\ Len(os) \in Nat
  OBVIOUS
<1> HIDE DEF os2
<1>3. \A j \in DOMAIN os : /\ os2[j].kind = os[j].kind /\ os2[j].ret = os[j].ret /\ os2[j].told = os[j].told
                           /\ os2[j].offset = os[j].offset /\ Moved(os2[j]) = Moved(os[j])
                           /\ IsIo(os2[j]) = IsIo(os[j])
                           /\ os2[j].count = os[j].count /\ os2[j].credits = os[j].credits
                           /\ os2[j].length = os[j].length
  BY <1>1 DEF Moved, IsIo
<1>4. \A j \in DOMAIN os : j < Len(os) => os2[j].wait = os[j].wait
  BY <1>1, <1>2
<1>5. \A j \in DOMAIN os : Ended(os2, j) => Ended(os, j)
  BY <1>2, <1>3, <1>4 DEF Ended
<1>6. Opens(os2, g)
  BY <1>1, <1>3 DEF CallCommon, Opens
<1>7. InTurn(os2)
  <2> SUFFICES ASSUME NEW j \in DOMAIN os, j > 1, IsIo(os2[j - 1]), IsIo(os2[j]), Ended(os2, j)
               PROVE  os2[j].offset = os2[j - 1].offset + Moved(os2[j - 1])
    BY <1>1 DEF InTurn
  <2>1. j - 1 \in DOMAIN os
    BY <1>2
  <2> QED BY <1>3, <1>5, <2>1 DEF CallCommon, InTurn
<1>8. AtEnd(os2, g)
  BY <1>1, <1>3, <1>5 DEF CallCommon, AtEnd
<1>9. Asks(os2)
  BY <1>1, <1>3 DEF CallCommon, Asks
<1> QED BY <1>6, <1>7, <1>8, <1>9 DEF CallCommon, os2

(* A callback is called.                                                   *)
LEMMA CalledKeeps ==
  ASSUME NEW os, NEW i, NEW o2, NEW f, os \in Seq(Op), i \in DOMAIN os, o2 \in Op, CallCommon(os, f),
         NEW left, NEW cb, IsCall(os[i], left), IsFirst(cb, left), Going(os[i], left),
         NEW s, NEW status, NEW r, Leaves(s, f, cb, status, r), Same(s, os[i]), s.told = <<>>,
         Same(o2, s), o2.told = r.op.told, o2.got = r.op.got
  PROVE  CallCommon([os EXCEPT ![i] = o2], r.fh)
<1> DEFINE os2 == [os EXCEPT ![i] = o2]
<1>1. /\ os2 \in Seq(Op) /\ Len(os2) = Len(os) /\ DOMAIN os2 = DOMAIN os
      /\ os2[i] = o2 /\ \A j \in DOMAIN os : j # i => os2[j] = os[j]
  BY ExceptIs
<1>2. DOMAIN os = 1..Len(os) /\ Len(os) \in Nat
  OBVIOUS
<1> HIDE DEF os2
<1>3. \A j \in DOMAIN os : /\ os2[j].kind = os[j].kind /\ os2[j].ret = os[j].ret /\ os2[j].wait = os[j].wait
                           /\ os2[j].offset = os[j].offset /\ IsIo(os2[j]) = IsIo(os[j])
                           /\ os2[j].count = os[j].count /\ os2[j].credits = os[j].credits
                           /\ os2[j].length = os[j].length
  BY <1>1 DEF IsIo, Same
<1>4. \A j \in DOMAIN os : Ended(os2, j) = Ended(os, j)
  BY <1>2, <1>3 DEF Ended
<1>5. Opens(os2, r.fh)
  <2> SUFFICES ASSUME NEW j \in DOMAIN os, os2[j].kind = "open", os2[j].told = <<"0">>, ~r.fh.open
               PROVE  \E k \in DOMAIN os : os2[k].kind = "close"
    BY <1>1 DEF Opens
  <2>1. CASE j = i
    <3>1. os[i].kind = "open"
      BY <1>3, <2>1
    <3>2. cb = "open_cb"
      BY <3>1 DEF IsCall, IsFirst, Left
    <3> QED BY <1>1, <2>1, <3>2 DEF Leaves
  <2>2. CASE j # i /\ f.open
    <3>1. cb = "close_cb"
      BY <2>2 DEF Leaves
    <3>2. os[i].kind = "close"
      BY <3>1, CallOf
    <3> QED BY <1>3, <3>2
  <2>3. CASE j # i /\ ~f.open
    <3>1. os[j].kind = "open" /\ os[j].told = <<"0">>
      BY <1>1, <2>3
    <3>2. PICK k \in DOMAIN os : os[k].kind = "close"
      BY <2>3, <3>1 DEF CallCommon, Opens
    <3> QED BY <1>3, <3>2
  <2> QED BY <2>1, <2>2, <2>3
<1>6. \A j \in DOMAIN os : i < j /\ Ended(os, j) => os[i].kind = "disconnect"
  <2> SUFFICES ASSUME NEW j \in DOMAIN os, i < j, Ended(os, j)
               PROVE  os[i].kind = "disconnect"
    OBVIOUS
  <2>1. os[i].kind = "lseek" \/ os[i].ret = "error" \/ os[i].wait = "returned"
    BY <1>2 DEF Ended
  <2>2. os[i].kind # "lseek"
    BY DEF IsCall, IsFirst, Left
  <2> QED BY <2>1, <2>2 DEF Going
<1>7. InTurn(os2)
  <2> SUFFICES ASSUME NEW j \in DOMAIN os, j > 1, IsIo(os2[j - 1]), IsIo(os2[j]), Ended(os2, j)
               PROVE  os2[j].offset = os2[j - 1].offset + Moved(os2[j - 1])
    BY <1>1 DEF InTurn
  <2>1. j - 1 \in DOMAIN os
    BY <1>2
  <2>2. IsIo(os[j - 1]) /\ IsIo(os[j]) /\ Ended(os, j)
    BY <1>3, <1>4, <2>1
  <2>3. j - 1 # i
    <3> SUFFICES ASSUME j - 1 = i PROVE FALSE
      OBVIOUS
    <3>1. i < j
      BY <1>2
    <3>2. os[i].kind = "disconnect"
      BY <1>6, <2>2, <3>1
    <3> QED BY <2>2, <3>2 DEF IsIo
  <2>4. os2[j - 1] = os[j - 1] /\ os2[j].offset = os[j].offset
    BY <1>1, <1>3, <2>1, <2>3
  <2> QED BY <2>2, <2>4 DEF CallCommon, InTurn
<1>8. AtEnd(os2, r.fh)
  <2> SUFFICES ASSUME NEW n \in DOMAIN os, n = Len(os), IsIo(os2[n]), Ended(os2, n)
               PROVE  r.fh.offset = os2[n].offset + Moved(os2[n])
    BY <1>1 DEF AtEnd
  <2>1. IsIo(os[n]) /\ Ended(os, n)
    BY <1>3, <1>4
  <2>2. f.offset = os[n].offset + Moved(os[n])
    BY <2>1 DEF CallCommon, AtEnd
  <2>3. CASE n = i
    <3>1. Moved(os[n]) = 0 /\ os[n].offset \in Nat
      <4>1. os[n].told = <<>> /\ os[n] \in Op
        BY <2>3 DEF Going
      <4>2. os[n].told # <<"0">>
        BY <4>1
      <4> QED BY <4>1, <4>2 DEF Moved, Op
    <3>2. f.offset = s.offset /\ IsIo(s)
      BY <2>1, <2>2, <2>3, <3>1 DEF Same, IsIo
    <3>3. r.fh.offset = s.offset + Moved(r.op)
      BY <3>2 DEF Leaves
    <3>4. Moved(o2) = Moved(r.op) /\ o2.offset = s.offset
      BY DEF Moved, Same
    <3> QED BY <1>1, <2>3, <3>3, <3>4
  <2>4. CASE n # i
    <3>1. i < n
      BY <1>2, <2>4
    <3>2. os[i].kind = "disconnect"
      BY <1>6, <2>1, <3>1
    <3>3. cb \notin {"open_cb", "read_cb", "write_cb"}
      BY <3>2 DEF IsCall, IsFirst, Left
    <3>4. r.fh.offset = f.offset
      BY <3>3 DEF Leaves
    <3> QED BY <1>1, <2>2, <2>4, <3>4
  <2> QED BY <2>3, <2>4
<1>9. Asks(os2)
  BY <1>1, <1>3 DEF CallCommon, Asks
<1> QED BY <1>5, <1>7, <1>8, <1>9 DEF CallCommon, os2

-----------------------------------------------------------------------------
(***************************************************************************)
(* What is left of the queue.                                              *)
(***************************************************************************)
Without(q, gone, i) == {q[k].cb : k \in Places(q, i) \ gone}
Taken(q2, q, gone) ==
  \E at : Takes(q2, q, at) /\ \A j \in DOMAIN q : (\E n \in DOMAIN q2 : at[n] = j) <=> j \notin gone
TakesWhole(q, os, gone) ==
  \A k, n \in DOMAIN q :
    k \in gone /\ n \notin gone /\ ~q[n].sent /\ q[n].op = q[k].op => os[q[k].op].kind = "opendir"

LEMMA TakenQueued ==
  ASSUME NEW q, NEW q2, NEW os, NEW c, NEW gone, Queued(q, os, c), Taken(q2, q, gone), TakesWhole(q, os, gone)
  PROVE  Queued(q2, os, c) /\ \A i : Cbs(q2, i) = Without(q, gone, i)
<1>1. PICK at : Takes(q2, q, at) /\ \A j \in DOMAIN q : (\E n \in DOMAIN q2 : at[n] = j) <=> j \notin gone
  BY DEF Taken
<1>2. \A n \in DOMAIN q2 : at[n] \in DOMAIN q /\ q2[n] = q[at[n]] /\ at[n] \notin gone
  BY <1>1 DEF Takes
<1>3. KeepsChains(q2, q, os, at)
  <2> SUFFICES ASSUME NEW n \in DOMAIN q2, NEW k \in DOMAIN q, ~q2[n].sent, q[k].op = q2[n].op,
                      os[q[k].op].kind # "opendir"
               PROVE  k \notin gone
    BY <1>1 DEF KeepsChains
  <2> QED BY <1>2 DEF TakesWhole
<1>4. Queued(q2, os, c)
  BY <1>1, <1>3, TakesQueued
<1>5. ASSUME NEW i PROVE Cbs(q2, i) = Without(q, gone, i)
  <2>1. ASSUME NEW cb \in Cbs(q2, i) PROVE cb \in Without(q, gone, i)
    <3>1. PICK n \in DOMAIN q2 : q2[n].op = i /\ q2[n].cb = cb
      BY DEF Cbs, Places
    <3> QED BY <1>2, <3>1 DEF Without, Places
  <2>2. ASSUME NEW cb \in Without(q, gone, i) PROVE cb \in Cbs(q2, i)
    <3>1. PICK k \in DOMAIN q : q[k].op = i /\ k \notin gone /\ q[k].cb = cb
      BY DEF Without, Places
    <3>2. PICK n \in DOMAIN q2 : at[n] = k
      BY <1>1, <3>1
    <3> QED BY <1>2, <3>1, <3>2 DEF Cbs, Places
  <2> QED BY <2>1, <2>2
<1> QED BY <1>4, <1>5

LEMMA RemoveAtIs ==
  ASSUME NEW q \in Seq(PduType), NEW k \in DOMAIN q
  PROVE  Taken(RemoveAt(q, k), q, {k})
<1> DEFINE r == RemoveAt(q, k)
           at == [n \in 1..Len(q) |-> IF n < k THEN n ELSE n + 1]
<1>1. DOMAIN q = 1..Len(q) /\ Len(q) \in Nat /\ k \in 1..Len(q)
  OBVIOUS
<1>2. /\ r \in Seq(PduType) /\ Len(r) = Len(q) - 1
      /\ \A n \in 1..(Len(q) - 1) : r[n] = IF n < k THEN q[n] ELSE q[n + 1]
  <2>1. SubSeq(q, 1, k - 1) \in Seq(PduType) /\ Len(SubSeq(q, 1, k - 1)) = k - 1
        /\ \A n \in 1..(k - 1) : SubSeq(q, 1, k - 1)[n] = q[n]
    BY <1>1
  <2>2. SubSeq(q, k + 1, Len(q)) \in Seq(PduType) /\ Len(SubSeq(q, k + 1, Len(q))) = Len(q) - k
        /\ \A n \in 1..(Len(q) - k) : SubSeq(q, k + 1, Len(q))[n] = q[k + n]
    BY <1>1
  <2> DEFINE a == SubSeq(q, 1, k - 1)
             b == SubSeq(q, k + 1, Len(q))
  <2>3. r = a \o b
    BY DEF RemoveAt
  <2> HIDE DEF a, b, r
  <2>4. a \in Seq(PduType) /\ b \in Seq(PduType) /\ Len(a) = k - 1 /\ Len(b) = Len(q) - k
    BY <2>1, <2>2 DEF a, b
  <2>5. r \in Seq(PduType) /\ Len(r) = Len(a) + Len(b)
    BY <2>3, <2>4, ConcatProperties
  <2>6. \A n \in 1..(Len(q) - 1) : r[n] = IF n <= k - 1 THEN a[n] ELSE b[n - (k - 1)]
    BY <1>1, <2>3, <2>4, ConcatProperties
  <2>7. ASSUME NEW n \in 1..(Len(q) - 1) PROVE r[n] = IF n < k THEN q[n] ELSE q[n + 1]
    <3>1. CASE n < k
      <4>1. n \in 1..(k - 1)
        BY <1>1, <3>1
      <4>2. a[n] = q[n]
        BY <2>1, <4>1 DEF a
      <4>3. n <= k - 1
        BY <4>1, <1>1
      <4> QED BY <2>6, <3>1, <4>2, <4>3
    <3>2. CASE ~(n < k)
      <4>1. n - (k - 1) \in 1..(Len(q) - k) /\ k + (n - (k - 1)) = n + 1 /\ ~(n <= k - 1)
        BY <1>1, <3>2
      <4>2. b[n - (k - 1)] = q[k + (n - (k - 1))]
        BY <2>2, <4>1 DEF b
      <4> QED BY <2>6, <3>2, <4>1, <4>2
    <3> QED BY <3>1, <3>2
  <2> QED BY <1>1, <2>4, <2>5, <2>7
<1> HIDE DEF r
<1>3. DOMAIN r = 1..(Len(q) - 1)
  BY <1>2
<1>4. Takes(r, q, at)
  <2>1. \A n \in DOMAIN r : at[n] \in DOMAIN q /\ r[n] = q[at[n]]
    BY <1>1, <1>2, <1>3
  <2>2. \A m, n \in DOMAIN r : m < n => at[m] < at[n]
    BY <1>1, <1>3
  <2> QED BY <1>2, <2>1, <2>2 DEF Takes
<1>5. ASSUME NEW j \in DOMAIN q PROVE (\E n \in DOMAIN r : at[n] = j) <=> j \notin {k}
  <2>1. ASSUME NEW n \in DOMAIN r PROVE at[n] # k
    BY <1>1, <1>3
  <2>2. CASE j < k
    <3>1. j \in DOMAIN r /\ at[j] = j
      BY <1>1, <1>3, <2>2
    <3> QED BY <2>2, <3>1, <1>1
  <2>3. CASE j > k
    <3>1. j - 1 \in DOMAIN r /\ at[j - 1] = j
      BY <1>1, <1>3, <2>3
    <3> QED BY <2>3, <3>1, <1>1
  <2>4. CASE j = k
    BY <2>1, <2>4
  <2> QED BY <1>1, <2>2, <2>3, <2>4
<1> HIDE DEF at
<1> QED BY <1>4, <1>5 DEF Taken, r

(* What one PDU less leaves of its call and of the others.                 *)
LEMMA WithoutOne ==
  ASSUME NEW q \in Seq(PduType), Ordered(q), NEW k \in DOMAIN q
  PROVE  /\ Without(q, {k}, q[k].op) = Less(Cbs(q, q[k].op), q[k].cb)
         /\ \A i : i # q[k].op => Without(q, {k}, i) = Cbs(q, i)
<1>1. \A j \in Places(q, q[k].op) : j # k => q[j].cb # q[k].cb
  BY DEF Ordered, Places
<1>2. Without(q, {k}, q[k].op) = Less(Cbs(q, q[k].op), q[k].cb)
  BY <1>1 DEF Without, Less, Cbs, Places
<1>3. ASSUME NEW i, i # q[k].op PROVE Without(q, {k}, i) = Cbs(q, i)
  BY <1>3 DEF Without, Cbs, Places
<1> QED BY <1>2, <1>3

-----------------------------------------------------------------------------
(***************************************************************************)
(* The inductive invariant.                                                *)
(***************************************************************************)
AllFine(os, q, held) == \A i \in DOMAIN os : Fine(os[i], Cbs(q, i), i, held)

(* Only the last call is waited for, and never a seek.                     *)
Waits(os) ==
  \A k \in DOMAIN os :
    /\ k < Len(os) => os[k].wait # "waiting"
    /\ os[k].kind = "lseek" => os[k].wait # "waiting"

State(os, q, f, held) ==
  /\ os \in Seq(Op) /\ f \in Fh /\ held \subseteq DOMAIN os
  /\ Queued(q, os, f.cb) /\ AllFine(os, q, held) /\ Waits(os) /\ CallCommon(os, f)

CallsInvariant ==
  /\ plan \in Plans /\ Len(ops) <= Len(plan)
  /\ fd \in {"open", "failed", "closed", "destroyed", "crashed"}
  /\ State(ops, pdus, fh, handles)

LEMMA SameWaits ==
  ASSUME NEW os \in Seq(Op), NEW i \in DOMAIN os, NEW o2 \in Op, Waits(os), o2.kind = os[i].kind,
         o2.wait = os[i].wait \/ o2.wait # "waiting"
  PROVE  Waits([os EXCEPT ![i] = o2])
<1> DEFINE os2 == [os EXCEPT ![i] = o2]
<1>1. /\ Len(os2) = Len(os) /\ DOMAIN os2 = DOMAIN os /\ os2[i] = o2
      /\ \A j \in DOMAIN os : j # i => os2[j] = os[j]
  BY ExceptIs
<1> HIDE DEF os2
<1>2. Waits(os2)
  BY <1>1 DEF Waits
<1> QED BY <1>2 DEF os2

LEMMA SameKinds ==
  ASSUME NEW os \in Seq(Op), NEW i \in DOMAIN os, NEW o2 \in Op, o2.kind = os[i].kind, NEW q, NEW c, Queued(q, os, c)
  PROVE  Queued(q, [os EXCEPT ![i] = o2], c)
<1> DEFINE os2 == [os EXCEPT ![i] = o2]
<1>1. \A j \in DOMAIN os : j \in DOMAIN os2 /\ os2[j].kind = os[j].kind
  BY ExceptIs
<1> HIDE DEF os2
<1>2. Queued(q, os2, c)
  BY <1>1, QueuedOps
<1> QED BY <1>2 DEF os2

(* Freeing its PDU changes nothing else of a call.                         *)
ButPdu(o2, o) ==
  /\ Same(o2, o) /\ o2.told = o.told /\ o2.status = o.status /\ o2.data = o.data
  /\ o2.cb_data = o.cb_data /\ o2.finished = o.finished /\ o2.done = o.done /\ o2.entries = o.entries
  /\ o2.listed = o.listed /\ o2.torn = o.torn /\ o2.got = o.got

LEMMA FreePduIs ==
  ASSUME NEW o \in Op
  PROVE  FreePdu(o) \in Op /\ ButPdu(FreePdu(o), o)
<1> DEFINE d == IF o.pdu = "live" THEN "freed" ELSE "twice"
<1>1. FreePdu(o) = [o EXCEPT !.pdu = d] /\ d \in {"none", "live", "freed", "twice"}
  BY DEF FreePdu, Op
<1> HIDE DEF d
<1> QED BY <1>1, SMTT(30) DEF Op, ButPdu, Same

LEMMA FreeIfOursIs ==
  ASSUME NEW p, NEW o \in Op
  PROVE  FreeIfOurs(p, o) \in Op /\ ButPdu(FreeIfOurs(p, o), o)
<1>1. ButPdu(o, o)
  BY DEF ButPdu, Same
<1>2. FreeIfOurs(p, o) \in {o, FreePdu(o)}
  BY DEF FreeIfOurs
<1> QED BY <1>1, <1>2, FreePduIs

LEMMA ButPduFine ==
  ASSUME NEW o, NEW o2 \in Op, ButPdu(o2, o), NEW left, NEW i, NEW held, Fine(o, left, i, held)
  PROVE  Fine(o2, left, i, held)
<1>1. IsCall(o2, left) /\ AnswersWell(o2)
  BY DEF Fine, IsCall, AnswersWell, ButPdu, Same
<1>2. OnServer(o2, left, i, held)
  BY DEF Fine, OnServer, Listed, ButPdu, Same
<1>3. CASE left = {}
  <2>1. Over(o2)
    BY <1>3 DEF Fine, Over, ButPdu, Same
  <2> QED BY <1>1, <1>2, <1>3, <2>1 DEF Fine
<1>4. CASE left # {}
  <2>1. Going(o, left)
    BY <1>4 DEF Fine
  <2>2. ChainKept(o2, left)
    BY <2>1 DEF Going, ChainKept, ButPdu, Same
  <2>3. Going(o2, left)
    BY <2>1, <2>2 DEF Going, ButPdu, Same
  <2> QED BY <1>1, <1>2, <1>4, <2>3 DEF Fine
<1> QED BY <1>3, <1>4

(* An answer, or a timeout that forestalls it.                             *)
LEMMA AnsweredKeeps ==
  ASSUME State(ops, pdus, fh, handles), NEW k \in DOMAIN pdus, pdus[k].sent, IsNext(k),
         NEW status \in Statuses(pdus[k]), NEW got \in GotOf(pdus[k], status), NEW fits,
         NEW told \in {status, "IO_TIMEOUT"}, Answered(k, status, told, got, fits)
  PROVE  State(ops', pdus', fh', handles')
<1> DEFINE p == pdus[k]
           i == p.op
           left == Cbs(pdus, i)
           held == HandlesAfter(p, status)
           o == ops[i]
           s == Served(o, p, status, got)
           r == Callback(p, s, fh, told, fits)
           o2 == IF told = status THEN r.op ELSE FreeIfOurs(p, r.op)
<1>1. /\ ops \in Seq(Op) /\ pdus \in Seq(PduType) /\ fh \in Fh /\ handles \subseteq DOMAIN ops
      /\ Queued(pdus, ops, fh.cb) /\ Ordered(pdus) /\ Waits(ops) /\ CallCommon(ops, fh)
  BY DEF State, Queued
<1>2. /\ i \in DOMAIN ops /\ p.cmd = CmdOf(p.cb) /\ p.sent
      /\ p.cb \in {"close_cb", "fsync_cb"} => fh.cb = i
  BY <1>1 DEF Queued, Owned
<1>3. Fine(o, left, i, handles)
  BY <1>2 DEF State, AllFine
<1>4. IsFirst(p.cb, left)
  BY <1>1, LeadsIsFirst DEF IsNext
<1>5. Ready(s, left, p.cb, i, held, told)
  BY <1>2, <1>3, <1>4, ServedReady
<1>6. told \in CallTold
  <2>1. p.cb \in Callbacks /\ o \in Op
    BY <1>3, <1>4, CallOf DEF Fine, IsCall
  <2>2. status \in CallTold
    BY <1>2, <2>1, StatusesAre
  <2> QED BY <2>2 DEF CallTold
<1>7. TargetOf(p, fh) = i
  BY <1>2 DEF TargetOf
<1>8. /\ ops' = [ops EXCEPT ![i] = o2] /\ fh' = r.fh /\ handles' = held
      /\ pdus' = RemoveAt(pdus, k) \o Sent(i, r.next)
  <2> HIDE DEF i
  <2> DEFINE served == [ops EXCEPT ![i] = Served(@, p, status, got)]
  <2>1. served[i] = s
    BY <1>2
  <2>2. TargetOf(p, fh) = i /\ p.op = i
    BY <1>7 DEF i
  <2>3. /\ ops' = [served EXCEPT ![i] = IF told = status THEN Callback(p, served[i], fh, told, fits).op
                                        ELSE FreeIfOurs(p, Callback(p, served[i], fh, told, fits).op)]
        /\ fh' = Callback(p, served[i], fh, told, fits).fh
        /\ handles' = held
        /\ pdus' = RemoveAt(pdus, k) \o Sent(i, Callback(p, served[i], fh, told, fits).next)
    BY <2>2 DEF Answered
  <2>4. ops' = [served EXCEPT ![i] = o2]
    BY <2>1, <2>3
  <2>5. [served EXCEPT ![i] = o2] = [ops EXCEPT ![i] = o2]
    <3> HIDE DEF o2
    <3> QED BY <1>2
  <2> QED BY <2>1, <2>3, <2>4, <2>5
<1>9. Calls(r, s, left, p.cb, i, held, told, fh)
  BY <1>1, <1>5, <1>6, CallbackCalls
<1> HIDE DEF s, r, held
<1>10. Fine(r.op, Rest(left, p.cb, r), i, held) /\ Leaves(s, fh, p.cb, told, r) /\ r.op \in Op
  BY <1>9 DEF Calls, Fine, IsCall
<1>11. o2 \in Op /\ ButPdu(o2, r.op)
  <2>1. ButPdu(r.op, r.op)
    BY DEF ButPdu, Same
  <2> QED BY <1>10, <2>1, FreeIfOursIs
<1> HIDE DEF o2
<1>12. Fine(o2, Rest(left, p.cb, r), i, held)
  BY <1>10, <1>11, ButPduFine
<1>13. Same(s, o) /\ s.told = o.told /\ o \in Op /\ IsCall(o, left) /\ Going(o, left)
  <2>1. o \in Op /\ IsCall(o, left) /\ p.cb \in left
    BY <1>3, <1>4 DEF Fine, IsCall, IsFirst
  <2>2. Going(o, left)
    BY <1>3, <2>1 DEF Fine
  <2> QED BY <2>1, <2>2 DEF s, Served, Same, Op
<1>14. Same(o2, s)
  BY <1>10, <1>11 DEF Leaves, SameCall, ButPdu, Same
<1>15. CallCommon(ops', fh')
  <2>1. s.told = <<>>
    BY <1>13 DEF Going
  <2>2. o2.told = r.op.told /\ o2.got = r.op.got
    BY <1>11 DEF ButPdu
  <2> HIDE DEF left
  <2> QED BY <1>1, <1>2, <1>4, <1>8, <1>10, <1>11, <1>13, <1>14, <2>1, <2>2, CalledKeeps
<1>16. o2.kind = o.kind /\ o2.wait = o.wait
  BY <1>13, <1>14 DEF Same
<1>17. ops' \in Seq(Op) /\ DOMAIN ops' = DOMAIN ops /\ ops'[i] = o2 /\ \A j \in DOMAIN ops : j # i => ops'[j] = ops[j]
  BY <1>1, <1>2, <1>8, <1>11, ExceptIs
<1>18. Waits(ops')
  BY <1>1, <1>2, <1>8, <1>11, <1>16, SameWaits
<1>19. Queued(pdus, ops', fh.cb)
  BY <1>1, <1>2, <1>8, <1>11, <1>16, SameKinds
<1>20. held \subseteq DOMAIN ops /\ \A j \in DOMAIN ops : j # i /\ j \in held => j \in handles
  BY <1>1, <1>2 DEF held, HandlesAfter
<1> DEFINE q == RemoveAt(pdus, k)
<1>21. Queued(q, ops', fh.cb) /\ Cbs(q, i) = Less(left, p.cb) /\ \A j : j # i => Cbs(q, j) = Cbs(pdus, j)
  <2>1. Taken(q, pdus, {k})
    BY <1>1, RemoveAtIs
  <2>2. TakesWhole(pdus, ops', {k})
    BY <1>1, <1>2 DEF TakesWhole, Ordered
  <2> HIDE DEF q
  <2>3. Queued(q, ops', fh.cb) /\ \A j : Cbs(q, j) = Without(pdus, {k}, j)
    BY <1>19, <2>1, <2>2, TakenQueued
  <2> QED BY <1>1, <2>3, WithoutOne
<1> HIDE DEF q
<1>22. r.fh \in Fh /\ r.fh.cb = fh.cb /\ SendsOne(r.next)
  BY <1>10 DEF Leaves
<1>23. Queued(pdus', ops', fh.cb) /\ Cbs(pdus', i) = Rest(left, p.cb, r) /\ \A j : j # i => Cbs(pdus', j) = Cbs(pdus, j)
  <2>1. CASE r.next = <<>>
    <3>1. Sent(i, r.next) = <<>> /\ NextOf(r) = {}
      BY <2>1 DEF Sent, NextOf
    <3>2. pdus' = q
      <4>1. q \in Seq(PduType)
        BY <1>21 DEF Queued
      <4> QED BY <1>8, <3>1, <4>1, ConcatEmptySeq DEF q
    <3> QED BY <1>21, <3>1, <3>2 DEF Rest
  <2>2. CASE r.next # <<>>
    <3>1. r.next \in {<<Pdu("query_directory", "query_cb")>>, <<Pdu("close", "od_close_cb")>>, <<Pdu("logoff", "disconnect_cb_2")>>}
      BY <1>22, <2>2 DEF SendsOne, QueryDirectory
    <3>2. PICK next \in {"query_cb", "od_close_cb", "disconnect_cb_2"} : r.next = <<Pdu(CmdOf(next), next)>>
      BY <3>1 DEF CmdOf
    <3>3. NextOf(r) = {next}
      BY <3>2 DEF NextOf, Pdu
    <3>4. Rest(left, p.cb, r) \in Left(o.kind) /\ next \in Rest(left, p.cb, r)
      BY <1>12, <1>16, <3>3 DEF Fine, IsCall, Rest
    <3>5. o.kind \in {"opendir", "disconnect"}
      <4> HIDE DEF left
      <4> QED BY <3>2, <3>4 DEF Left, OfThree
    <3>6. Less(left, p.cb) = {}
      <4>1. left \in Left(o.kind) /\ p.cb \in left
        BY <1>4, <1>13 DEF IsCall, IsFirst
      <4> HIDE DEF left
      <4>2. CASE o.kind = "opendir"
        BY <4>1, <4>2 DEF Left, Less
      <4>3. CASE o.kind = "disconnect"
        BY <4>1, <4>3 DEF Left, Less
      <4> QED BY <3>5, <4>2, <4>3
    <3>7. Places(q, i) = {}
      <4> HIDE DEF i, left
      <4>1. Cbs(q, i) = {}
        BY <1>21, <3>6
      <4>2. \A j \in Places(q, i) : q[j].cb \in Cbs(q, i)
        BY DEF Cbs
      <4> QED BY <4>1, <4>2
    <3>8. GoodChain(r.next, ops'[i].kind)
      <4>1. r.next \in Seq([cmd : CallCommands, cb : Callbacks])
        BY <3>2 DEF Pdu, CmdOf, CallCommands, Callbacks
      <4>2. DOMAIN r.next = {1} /\ r.next[1].cmd = CmdOf(next) /\ r.next[1].cb = next
        BY <3>2 DEF Pdu
      <4>3. ~Before(next, next)
        BY DEF Before
      <4>4. ops'[i].kind \notin Creating \ {"opendir"}
        BY <1>16, <1>17, <3>5 DEF Creating, Chained
      <4> QED BY <4>1, <4>2, <4>3, <4>4 DEF GoodChain
    <3>9. \A j \in DOMAIN r.next : r.next[j].cb \notin {"close_cb", "fsync_cb"}
      BY <3>2 DEF Pdu
    <3>10. i \in Nat /\ i \in DOMAIN ops'
      BY <1>1, <1>2, <1>17
    <3> HIDE DEF i
    <3>11. /\ Queued(q \o Sent(i, r.next), ops', fh.cb)
           /\ Cbs(q \o Sent(i, r.next), i) = {r.next[m].cb : m \in DOMAIN r.next}
           /\ \A j : j # i => Cbs(q \o Sent(i, r.next), j) = Cbs(q, j)
      BY <1>21, <3>7, <3>8, <3>9, <3>10, AddsQueued
    <3> QED BY <1>8, <1>21, <3>6, <3>11 DEF Rest, NextOf, q
  <2> QED BY <2>1, <2>2
<1>24. AllFine(ops', pdus', held)
  <2> SUFFICES ASSUME NEW j \in DOMAIN ops PROVE Fine(ops'[j], Cbs(pdus', j), j, held)
    BY <1>17 DEF AllFine
  <2>1. CASE j = i
    BY <1>12, <1>17, <1>23, <2>1
  <2>2. CASE j # i
    <3>1. Fine(ops[j], Cbs(pdus, j), j, handles)
      BY DEF State, AllFine
    <3>2. j \in held => j \in handles
      BY <1>20, <2>2
    <3> QED BY <1>17, <1>23, <2>2, <3>1, <3>2, FineHeld
  <2> QED BY <2>1, <2>2
<1>25. ops' \in Seq(Op) /\ fh' \in Fh /\ fh'.cb = fh.cb /\ handles' = held /\ held \subseteq DOMAIN ops'
  BY <1>8, <1>17, <1>20, <1>22
<1> QED BY <1>15, <1>18, <1>23, <1>24, <1>25 DEF State

-----------------------------------------------------------------------------
(***************************************************************************)
(* Some places of the queue, in order.                                     *)
(***************************************************************************)
UpTo(f, places, m) ==
  f = [n \in 0..m |-> IF n = 0 THEN <<>> ELSE IF n \in places THEN Append(f[n - 1], n) ELSE f[n - 1]]

LEMMA LeastNumber ==
  ASSUME NEW T \in SUBSET Nat, T # {}
  PROVE  \E n \in T : \A m \in T : n <= m
<1> DEFINE R == OpToRel(<, Nat)
<1>1. IsWellFoundedOn(R, Nat)
  BY NatLessThanWellFounded
<1> HIDE DEF R
<1>2. PICK n \in T : \A m \in T : ~(<<m, n>> \in R)
  BY <1>1, WFMin
<1>3. \A m \in Nat : m < n => <<m, n>> \in R
  BY DEF R, OpToRel
<1>4. \A m \in T : m \in Nat /\ n \in Nat /\ ~(m < n)
  BY <1>2, <1>3
<1> QED BY <1>4

(* The recursive function of InOrder exists, hence satisfies its equation. *)
LEMMA UpToExists ==
  ASSUME NEW places, NEW m \in Nat
  PROVE  \E f : UpTo(f, places, m)
<1> DEFINE T == {n \in 0..m : ~\E f : UpTo(f, places, n)}
<1>1. T = {}
  <2> SUFFICES ASSUME T # {} PROVE FALSE
    OBVIOUS
  <2>1. T \in SUBSET Nat
    OBVIOUS
  <2> HIDE DEF T
  <2>2. PICK n \in T : \A l \in T : n <= l
    BY <2>1, LeastNumber
  <2>3. n \in 0..m /\ ~\E f : UpTo(f, places, n)
    BY DEF T
  <2>4. CASE n = 0
    <3>1. UpTo([k \in 0..0 |-> <<>>], places, 0)
      BY DEF UpTo
    <3> QED BY <2>3, <2>4, <3>1
  <2>5. CASE n # 0
    <3>1. n - 1 \in 0..m /\ n - 1 \notin T /\ n \in Nat
      BY <2>2, <2>3, <2>5
    <3>2. PICK f : UpTo(f, places, n - 1)
      BY <3>1 DEF T
    <3> DEFINE g == [k \in 0..n |-> IF k = n THEN (IF n \in places THEN Append(f[n - 1], n) ELSE f[n - 1]) ELSE f[k]]
    <3>3. UpTo(g, places, n)
      <4>1. \A k \in 0..(n - 1) : g[k] = f[k] /\ k # n
        BY <3>1, <2>5
      <4>2. \A k \in 0..n : k # n => k \in 0..(n - 1)
        BY <3>1
      <4>3. \A k \in 0..n : k # 0 => k - 1 \in 0..(n - 1)
        BY <3>1
      <4>4. g[n] = IF n \in places THEN Append(g[n - 1], n) ELSE g[n - 1]
        BY <2>5, <3>1, <4>1, <4>3
      <4>5. \A k \in 0..(n - 1) :
              f[k] = IF k = 0 THEN <<>> ELSE IF k \in places THEN Append(f[k - 1], k) ELSE f[k - 1]
        BY <3>2 DEF UpTo
      <4>6. \A k \in 0..n :
              g[k] = IF k = 0 THEN <<>> ELSE IF k \in places THEN Append(g[k - 1], k) ELSE g[k - 1]
        <5> HIDE DEF g
        <5> QED BY <2>5, <4>1, <4>2, <4>3, <4>4, <4>5
      <4>7. g = [k \in 0..n |-> g[k]]
        OBVIOUS
      <4> HIDE DEF g
      <4> QED BY <4>6, <4>7 DEF UpTo
    <3> QED BY <2>3, <3>3
  <2> QED BY <2>4, <2>5
<1> QED BY <1>1

IsInOrder(s, places, m) ==
  /\ s \in Seq(Nat)
  /\ \A k \in DOMAIN s : s[k] \in places /\ s[k] \in 1..m
  /\ \A j, k \in DOMAIN s : j < k => s[j] < s[k]
  /\ \A n \in 1..m : n \in places => \E k \in DOMAIN s : s[k] = n

LEMMA InOrderIs ==
  ASSUME NEW places, Len(pdus) \in Nat
  PROVE  IsInOrder(InOrder(places), places, Len(pdus))
<1> DEFINE N == Len(pdus)
           f == CHOOSE f : UpTo(f, places, N)
           T == {n \in 0..N : ~IsInOrder(f[n], places, n)}
<1>1. UpTo(f, places, N)
  BY UpToExists
<1>2. InOrder(places) = f[N]
  BY DEF InOrder, UpTo
<1> HIDE DEF f, N
<1>3. N \in Nat
  BY DEF N
<1>4. f[0] = <<>> /\ \A n \in 1..N : f[n] = IF n \in places THEN Append(f[n - 1], n) ELSE f[n - 1]
  <2>1. \A n \in 0..N : f[n] = IF n = 0 THEN <<>> ELSE IF n \in places THEN Append(f[n - 1], n) ELSE f[n - 1]
    BY <1>1 DEF UpTo
  <2> QED BY <1>3, <2>1
<1>5. T = {}
  <2> SUFFICES ASSUME T # {} PROVE FALSE
    OBVIOUS
  <2>1. T \in SUBSET Nat
    OBVIOUS
  <2> HIDE DEF T
  <2>2. PICK n \in T : \A l \in T : n <= l
    BY <2>1, LeastNumber
  <2>3. n \in 0..N /\ ~IsInOrder(f[n], places, n)
    BY DEF T
  <2>4. CASE n = 0
    <3>1. IsInOrder(<<>>, places, 0)
      BY DEF IsInOrder
    <3> QED BY <1>4, <2>3, <2>4, <3>1
  <2>5. CASE n # 0
    <3>1. n - 1 \in 0..N /\ n - 1 \notin T /\ n \in 1..N /\ n \in Nat
      BY <1>3, <2>2, <2>3, <2>5
    <3>2. IsInOrder(f[n - 1], places, n - 1)
      BY <3>1 DEF T
    <3> DEFINE s == f[n - 1]
    <3> HIDE DEF s
    <3>3. /\ s \in Seq(Nat) /\ Len(s) \in Nat /\ DOMAIN s = 1..Len(s)
          /\ \A k \in DOMAIN s : s[k] \in places /\ s[k] \in 1..(n - 1)
          /\ \A j, k \in DOMAIN s : j < k => s[j] < s[k]
          /\ \A l \in 1..(n - 1) : l \in places => \E k \in DOMAIN s : s[k] = l
      BY <3>2 DEF IsInOrder, s
    <3>4. CASE n \in places
      <4> DEFINE t == Append(s, n)
      <4>1. /\ t \in Seq(Nat) /\ Len(t) = Len(s) + 1 /\ t[Len(s) + 1] = n
            /\ \A k \in DOMAIN s : t[k] = s[k]
        BY <3>1, <3>3
      <4>2. f[n] = t
        BY <1>4, <3>1, <3>4 DEF s
      <4> HIDE DEF t
      <4>3. DOMAIN t = 1..(Len(s) + 1) /\ \A k \in DOMAIN t : k \in DOMAIN s \/ k = Len(s) + 1
        BY <3>3, <4>1
      <4>4. \A k \in DOMAIN t : t[k] \in places /\ t[k] \in 1..n
        BY <3>1, <3>3, <3>4, <4>1, <4>3
      <4>5. \A j, k \in DOMAIN t : j < k => t[j] < t[k]
        <5> SUFFICES ASSUME NEW j \in DOMAIN t, NEW k \in DOMAIN t, j < k PROVE t[j] < t[k]
          OBVIOUS
        <5>1. j \in DOMAIN s
          BY <3>3, <4>3
        <5>2. CASE k \in DOMAIN s
          BY <3>3, <4>1, <5>1, <5>2
        <5>3. CASE k = Len(s) + 1
          BY <3>1, <3>3, <4>1, <5>1, <5>3
        <5> QED BY <4>3, <5>2, <5>3
      <4>6. \A l \in 1..n : l \in places => \E k \in DOMAIN t : t[k] = l
        <5> SUFFICES ASSUME NEW l \in 1..n, l \in places PROVE \E k \in DOMAIN t : t[k] = l
          OBVIOUS
        <5>1. CASE l = n
          BY <3>3, <4>1, <4>3, <5>1
        <5>2. CASE l # n
          <6>1. l \in 1..(n - 1)
            BY <3>1, <5>2
          <6>2. PICK k \in DOMAIN s : s[k] = l
            BY <3>3, <6>1
          <6>3. k \in DOMAIN t
            BY <3>3, <4>3
          <6> QED BY <4>1, <6>2, <6>3
        <5> QED BY <5>1, <5>2
      <4>7. IsInOrder(t, places, n)
        BY <4>1, <4>4, <4>5, <4>6 DEF IsInOrder
      <4> QED BY <2>3, <4>2, <4>7
    <3>5. CASE n \notin places
      <4>1. f[n] = s
        BY <1>4, <3>1, <3>5 DEF s
      <4>2. \A k \in DOMAIN s : s[k] \in 1..n
        BY <3>1, <3>3
      <4>3. \A l \in 1..n : l \in places => l \in 1..(n - 1)
        BY <3>1, <3>5
      <4>4. IsInOrder(s, places, n)
        BY <3>3, <4>2, <4>3 DEF IsInOrder
      <4> QED BY <2>3, <4>1, <4>4
    <3> QED BY <3>4, <3>5
  <2> QED BY <2>4, <2>5
<1>6. IsInOrder(f[N], places, N)
  BY <1>3, <1>5
<1> QED BY <1>2, <1>6 DEF N

LEMMA KeptIs ==
  ASSUME NEW places \in SUBSET DOMAIN pdus, pdus \in Seq(PduType)
  PROVE  Taken(Kept(places), pdus, DOMAIN pdus \ places)
<1> DEFINE s == InOrder(places)
           q == Kept(places)
<1>1. Len(pdus) \in Nat /\ DOMAIN pdus = 1..Len(pdus)
  OBVIOUS
<1>2. IsInOrder(s, places, Len(pdus))
  BY <1>1, InOrderIs
<1>3. q = [n \in DOMAIN s |-> pdus[s[n]]]
  BY DEF Kept
<1> HIDE DEF s, q
<1>4. s \in Seq(Nat) /\ DOMAIN s = 1..Len(s) /\ Len(s) \in Nat
  BY <1>2 DEF IsInOrder
<1>5. \A n \in DOMAIN s : s[n] \in DOMAIN pdus /\ pdus[s[n]] \in PduType /\ s[n] \in places
  BY <1>1, <1>2 DEF IsInOrder
<1>6. q \in Seq(PduType) /\ DOMAIN q = DOMAIN s /\ \A n \in DOMAIN q : q[n] = pdus[s[n]]
  BY <1>3, <1>4, <1>5
<1>7. Takes(q, pdus, s)
  BY <1>2, <1>5, <1>6 DEF Takes, IsInOrder
<1>8. \A j \in DOMAIN pdus : (\E n \in DOMAIN q : s[n] = j) <=> j \notin DOMAIN pdus \ places
  BY <1>1, <1>2, <1>5, <1>6 DEF IsInOrder
<1> QED BY <1>7, <1>8 DEF Taken, q

-----------------------------------------------------------------------------
(***************************************************************************)
(* PDUs that are given up unanswered.                                      *)
(***************************************************************************)
DropsTo(f, places, status, m) ==
  f = [n \in 0..m |-> IF n = 0 THEN [ops |-> ops, fh |-> fh, connect |-> connect]
                      ELSE IF n \in places THEN Dropped(f[n - 1], n, status) ELSE f[n - 1]]

(* The recursive function of Drop exists, hence satisfies its equation.    *)
LEMMA DropsToExists ==
  ASSUME NEW places, NEW status, NEW m \in Nat
  PROVE  \E f : DropsTo(f, places, status, m)
<1> DEFINE T == {n \in 0..m : ~\E f : DropsTo(f, places, status, n)}
           s0 == [ops |-> ops, fh |-> fh, connect |-> connect]
<1> HIDE DEF s0
<1>1. T = {}
  <2> SUFFICES ASSUME T # {} PROVE FALSE
    OBVIOUS
  <2>1. T \in SUBSET Nat
    OBVIOUS
  <2> HIDE DEF T
  <2>2. PICK n \in T : \A l \in T : n <= l
    BY <2>1, LeastNumber
  <2>3. n \in 0..m /\ ~\E f : DropsTo(f, places, status, n)
    BY DEF T
  <2>4. CASE n = 0
    <3>1. DropsTo([k \in 0..0 |-> s0], places, status, 0)
      BY DEF DropsTo, s0
    <3> QED BY <2>3, <2>4, <3>1
  <2>5. CASE n # 0
    <3>1. n - 1 \in 0..m /\ n - 1 \notin T /\ n \in Nat
      BY <2>2, <2>3, <2>5
    <3>2. PICK f : DropsTo(f, places, status, n - 1)
      BY <3>1 DEF T
    <3> DEFINE g == [k \in 0..n |-> IF k = n THEN (IF n \in places THEN Dropped(f[n - 1], n, status) ELSE f[n - 1])
                                    ELSE f[k]]
    <3>3. DropsTo(g, places, status, n)
      <4>1. \A k \in 0..(n - 1) : g[k] = f[k] /\ k # n
        BY <3>1, <2>5
      <4>2. \A k \in 0..n : k # n => k \in 0..(n - 1)
        BY <3>1
      <4>3. \A k \in 0..n : k # 0 => k - 1 \in 0..(n - 1)
        BY <3>1
      <4>4. g[n] = IF n \in places THEN Dropped(g[n - 1], n, status) ELSE g[n - 1]
        BY <2>5, <3>1, <4>1, <4>3
      <4>5. \A k \in 0..(n - 1) :
              f[k] = IF k = 0 THEN s0 ELSE IF k \in places THEN Dropped(f[k - 1], k, status) ELSE f[k - 1]
        BY <3>2 DEF DropsTo, s0
      <4>6. \A k \in 0..n :
              g[k] = IF k = 0 THEN s0 ELSE IF k \in places THEN Dropped(g[k - 1], k, status) ELSE g[k - 1]
        <5> HIDE DEF g
        <5> QED BY <2>5, <4>1, <4>2, <4>3, <4>4, <4>5
      <4>7. g = [k \in 0..n |-> g[k]]
        OBVIOUS
      <4> HIDE DEF g
      <4> QED BY <4>6, <4>7 DEF DropsTo, s0
    <3> QED BY <2>3, <3>3
  <2> QED BY <2>4, <2>5
<1> QED BY <1>1

LEMMA FirstOfChain ==
  ASSUME NEW o, NEW left, NEW cb, IsCall(o, left), IsFirst(cb, left)
  PROVE  /\ Less(left, cb) \in Left(o.kind)
         /\ o.kind \in Chained /\ left \cap Firsts # {} => cb \in Firsts
         /\ o.kind = "opendir" => left = Only(cb)
<1>1. left \in Left(o.kind) /\ cb \in left /\ \A other \in left : ~Before(other, cb)
  BY DEF IsCall, IsFirst
<1>2. Less(left, cb) \in Left(o.kind)
  BY <1>1 DEF Less, Left, OfThree, Before
<1>3. o.kind \in Chained /\ left \cap Firsts # {} => cb \in Firsts
  BY <1>1 DEF Firsts, Left, OfThree, Before, Chained
<1>4. o.kind = "opendir" => left = Only(cb)
  BY <1>1 DEF Left, Only
<1> QED BY <1>2, <1>3, <1>4

(* The rest of a chain goes with its head, and nobody is told.             *)
LEMMA TornFine ==
  ASSUME NEW o, NEW left, NEW cb, NEW i, NEW held, Fine(o, left, i, held), IsFirst(cb, left), i \notin held,
         o.kind \in Chained => o.status # "SUCCESS"
  PROVE  LET t == [o EXCEPT !.torn = TRUE]
         IN t \in Op /\ Fine(t, Less(left, cb), i, held) /\ Same(t, o) /\ t.told = o.told /\ t.got = o.got
            /\ t.status = o.status
<1> DEFINE t == [o EXCEPT !.torn = TRUE]
<1>1. IsCall(o, left) /\ o \in Op /\ cb \in left /\ Going(o, left) /\ OnServer(o, left, i, held) /\ AnswersWell(o)
  <2>1. IsCall(o, left) /\ cb \in left
    BY DEF Fine, IsFirst
  <2> QED BY <2>1 DEF Fine, IsCall
<1>2. /\ t \in Op /\ Same(t, o) /\ t.told = o.told /\ t.got = o.got /\ t.status = o.status /\ t.torn
      /\ t.data = o.data /\ t.cb_data = o.cb_data /\ t.finished = o.finished /\ t.done = o.done
      /\ t.entries = o.entries /\ t.listed = o.listed
  BY <1>1 DEF Op, Same
<1> HIDE DEF t
<1>3. IsCall(t, Less(left, cb))
  BY <1>1, <1>2, FirstOfChain DEF IsCall, Same
<1>4. AnswersWell(t)
  BY <1>1, <1>2 DEF AnswersWell, Same
<1>5. OnServer(t, Less(left, cb), i, held)
  BY <1>1, <1>2 DEF OnServer, Same, Less, Listed
<1>6. Over(t)
  BY <1>1, <1>2 DEF Over, Going, Same
<1>7. Going(t, Less(left, cb))
  <2>1. ChainKept(t, Less(left, cb))
    BY <1>2 DEF ChainKept, Same
  <2> QED BY <1>1, <1>2, <2>1 DEF Going, Same, Less
<1> QED BY <1>2, <1>3, <1>4, <1>5, <1>6, <1>7 DEF Fine, t

(* What may be given up together: whole chains, and of a call the server   *)
(* holds a file open for only an opendir, to a timeout.                    *)
GivesUp(places, status, held) ==
  /\ places \subseteq DOMAIN pdus /\ status \in {"IO_TIMEOUT", "SHUTDOWN"} /\ held \subseteq handles
  /\ \A j, k \in DOMAIN pdus : k \in places /\ pdus[j].op = pdus[k].op => j \in places
  /\ \A k \in places : pdus[k].op \in held => status = "IO_TIMEOUT" /\ ops[pdus[k].op].kind = "opendir"

(* Some are given up so far.                                               *)
SoFar(places, n) == places \cap 1..n
Dropping(s, places, n, held) ==
  /\ s = [ops |-> s.ops, fh |-> s.fh, connect |-> s.connect]
  /\ s.ops \in Seq(Op) /\ Len(s.ops) = Len(ops) /\ \A i \in DOMAIN ops : s.ops[i].kind = ops[i].kind
  /\ s.fh \in Fh /\ s.fh.cb = fh.cb
  /\ Waits(s.ops) /\ CallCommon(s.ops, s.fh)
  /\ \A i \in DOMAIN ops : Fine(s.ops[i], Without(pdus, SoFar(places, n), i), i, held)
  /\ \A k \in SoFar(places, n) :
       ~pdus[k].sent /\ ops[pdus[k].op].kind \in Chained => s.ops[pdus[k].op].status # "SUCCESS"

LEMMA DropStep ==
  ASSUME State(ops, pdus, fh, handles), NEW places, NEW status, NEW held, GivesUp(places, status, held),
         NEW n \in Nat, n + 1 \in places, NEW s, Dropping(s, places, n, held)
  PROVE  Dropping(Dropped(s, n + 1, status), places, n + 1, held)
<1> DEFINE k == n + 1
           p == pdus[k]
           i == p.op
           o == s.ops[i]
           left == Without(pdus, SoFar(places, n), i)
           r == Callback(p, o, s.fh, status, TRUE)
           s2 == Dropped(s, k, status)
<1>1. /\ ops \in Seq(Op) /\ pdus \in Seq(PduType) /\ Ordered(pdus) /\ Owned(pdus, ops, fh.cb) /\ Whole(pdus, ops)
  BY DEF State, Queued
<1>2. k \in DOMAIN pdus /\ k \in places /\ DOMAIN pdus = 1..Len(pdus) /\ Len(pdus) \in Nat
  BY <1>1 DEF GivesUp
<1> HIDE DEF k
<1>3. /\ i \in DOMAIN ops /\ p.cmd = CmdOf(p.cb)
      /\ p.cb \in {"close_cb", "fsync_cb"} => fh.cb = i
  BY <1>1, <1>2 DEF Owned
<1>4. TargetOf(p, s.fh) = i
  BY <1>3 DEF TargetOf, Dropping
<1>5. \A j \in DOMAIN pdus : pdus[j].op = i => j \in places
  BY <1>2 DEF GivesUp
<1>6. \A j \in Places(pdus, i) : j \notin SoFar(places, n) <=> ~(j < k)
  <2> SUFFICES ASSUME NEW j \in Places(pdus, i) PROVE j \notin SoFar(places, n) <=> ~(j < k)
    OBVIOUS
  <2>1. j \in places /\ j \in Nat /\ 1 <= j
    BY <1>2, <1>5 DEF Places
  <2> QED BY <2>1 DEF SoFar, k
<1>7. IsFirst(p.cb, left)
  <2>1. p.cb \in left
    <3>1. k \in Places(pdus, i) \ SoFar(places, n)
      BY <1>2, <1>6 DEF Places
    <3> QED BY <3>1 DEF Without
  <2>2. ASSUME NEW other \in left, Before(other, p.cb) PROVE FALSE
    <3>1. PICK j \in Places(pdus, i) : j \notin SoFar(places, n) /\ pdus[j].cb = other
      BY DEF Without
    <3>2. ~(j < k)
      BY <1>6, <3>1
    <3>3. j < k
      BY <1>1, <1>2, <2>2, <3>1 DEF Ordered, Places
    <3> QED BY <3>2, <3>3
  <2> QED BY <2>1, <2>2 DEF IsFirst
<1>8. SoFar(places, k) = SoFar(places, n) \cup {k}
  BY <1>2 DEF SoFar, k
<1>9. Without(pdus, SoFar(places, k), i) = Less(left, p.cb)
  <2>1. \A j \in Places(pdus, i) : j # k => pdus[j].cb # p.cb
    BY <1>1, <1>2 DEF Ordered, Places
  <2> QED BY <1>8, <2>1 DEF Without, Less
<1>10. \A j : j # i => Without(pdus, SoFar(places, k), j) = Without(pdus, SoFar(places, n), j)
  BY <1>8 DEF Without, Places
<1>11. /\ s.ops \in Seq(Op) /\ DOMAIN s.ops = DOMAIN ops /\ i \in DOMAIN s.ops /\ o \in Op
       /\ s.fh \in Fh /\ Waits(s.ops) /\ CallCommon(s.ops, s.fh) /\ o.kind = ops[i].kind
       /\ s = [ops |-> s.ops, fh |-> s.fh, connect |-> s.connect]
  <2>1. s.ops \in Seq(Op) /\ DOMAIN s.ops = DOMAIN ops
    BY <1>1 DEF Dropping
  <2> QED BY <1>3, <2>1 DEF Dropping
<1>12. Fine(o, left, i, held)
  BY <1>3 DEF Dropping
<1>13. i \in held => status = "IO_TIMEOUT" /\ o.kind = "opendir"
  BY <1>2, <1>11 DEF GivesUp
<1>14. status \in {"IO_TIMEOUT", "SHUTDOWN"} /\ status \in CallTold
  BY DEF GivesUp, CallTold
<1>15. IsCall(o, left) /\ Going(o, left) /\ o.told = <<>>
  BY <1>7, <1>12 DEF Fine, IsFirst, Going
(* It suffices that the record of the call is as it should be.             *)
<1>16. ASSUME NEW o2 \in Op, NEW g \in Fh, NEW c, s2 = [ops |-> [s.ops EXCEPT ![i] = o2], fh |-> g, connect |-> c],
              g.cb = s.fh.cb, CallCommon([s.ops EXCEPT ![i] = o2], g), o2.kind = o.kind, o2.wait = o.wait,
              Fine(o2, Less(left, p.cb), i, held),
              ~p.sent /\ o.kind \in Chained => o2.status # "SUCCESS"
       PROVE  Dropping(s2, places, k, held)
  <2> DEFINE os2 == [s.ops EXCEPT ![i] = o2]
  <2>1. /\ os2 \in Seq(Op) /\ Len(os2) = Len(s.ops) /\ DOMAIN os2 = DOMAIN s.ops /\ os2[i] = o2
        /\ \A j \in DOMAIN s.ops : j # i => os2[j] = s.ops[j]
    BY <1>11, ExceptIs
  <2>2. Waits(os2)
    BY <1>11, <1>16, SameWaits
  <2>3. s2.ops = os2 /\ s2.fh = g /\ s2.connect = c /\ CallCommon(os2, g)
    BY <1>16
  <2> HIDE DEF os2, s2, o, left, i
  <2>4. s2 = [ops |-> s2.ops, fh |-> s2.fh, connect |-> s2.connect]
    BY <1>16, <2>3 DEF os2
  <2>5. Len(s2.ops) = Len(ops) /\ \A j \in DOMAIN ops : s2.ops[j].kind = ops[j].kind
    BY <1>11, <1>16, <2>1, <2>3 DEF Dropping, o
  <2>6. \A j \in DOMAIN ops : Fine(s2.ops[j], Without(pdus, SoFar(places, k), j), j, held)
    <3> SUFFICES ASSUME NEW j \in DOMAIN ops PROVE Fine(s2.ops[j], Without(pdus, SoFar(places, k), j), j, held)
      OBVIOUS
    <3>1. CASE j = i
      BY <1>9, <1>16, <2>1, <2>3, <3>1
    <3>2. CASE j # i
      BY <1>10, <1>11, <2>1, <2>3, <3>2 DEF Dropping
    <3> QED BY <3>1, <3>2
  <2>7. \A m \in SoFar(places, k) :
          ~pdus[m].sent /\ ops[pdus[m].op].kind \in Chained => s2.ops[pdus[m].op].status # "SUCCESS"
    <3> SUFFICES ASSUME NEW m \in SoFar(places, k), ~pdus[m].sent, ops[pdus[m].op].kind \in Chained
                 PROVE  s2.ops[pdus[m].op].status # "SUCCESS"
      OBVIOUS
    <3>1. m \in DOMAIN pdus
      BY DEF SoFar, GivesUp
    <3>2. pdus[m].op \in DOMAIN ops
      BY <1>1, <3>1 DEF Owned
    <3>3. CASE pdus[m].op = i
      <4>1. ~p.sent
        BY <1>1, <1>2, <3>1, <3>3 DEF Ordered, i
      <4> QED BY <1>11, <1>16, <2>1, <2>3, <3>3, <4>1
    <3>4. CASE pdus[m].op # i
      <4>1. m # k
        BY <3>4 DEF i
      <4>2. m \in SoFar(places, n)
        BY <1>8, <4>1
      <4> QED BY <1>11, <2>1, <2>3, <3>2, <3>4, <4>2 DEF Dropping
    <3> QED BY <3>3, <3>4
  <2> QED BY <1>16, <2>1, <2>2, <2>3, <2>4, <2>5, <2>6, <2>7 DEF Dropping
<1>17. CASE p.sent \/ IsNext(k)
  <2> DEFINE o2 == FreeIfOurs(p, r.op)
  <2>1. s2 = [ops |-> [s.ops EXCEPT ![i] = o2], fh |-> r.fh, connect |-> sync_connect_cb(o, r.op, s.connect)]
    <3> HIDE DEF i
    <3> QED BY <1>4, <1>17 DEF Dropped
  <2>2. Ready(o, left, p.cb, i, held, status)
    <3> HIDE DEF left, o, i
    <3> QED BY <1>7, <1>12, <1>13, <1>14, GivenUpReady
  <2>3. Calls(r, o, left, p.cb, i, held, status, s.fh)
    <3> HIDE DEF left, o, i
    <3> QED BY <1>11, <1>14, <2>2, CallbackCalls
  <2> HIDE DEF r, o2
  <2>4. Fine(r.op, Rest(left, p.cb, r), i, held) /\ Leaves(o, s.fh, p.cb, status, r) /\ r.op \in Op
    BY <2>3 DEF Calls, Fine, IsCall
  <2>5. Rest(left, p.cb, r) = Less(left, p.cb)
    <3>1. r.next = <<>>
      BY <1>14, <2>4 DEF Leaves
    <3>2. NextOf(r) = {}
      BY <3>1 DEF NextOf
    <3> QED BY <3>2 DEF Rest
  <2>6. o2 \in Op /\ ButPdu(o2, r.op)
    BY <2>4, FreeIfOursIs DEF o2
  <2>7. Fine(o2, Less(left, p.cb), i, held)
    BY <2>4, <2>5, <2>6, ButPduFine
  <2>8. Same(o2, o) /\ o2.told = r.op.told /\ o2.got = r.op.got /\ o2.status = r.op.status
    BY <2>4, <2>6 DEF Leaves, SameCall, ButPdu, Same
  <2>9. r.fh \in Fh /\ r.fh.cb = s.fh.cb
    BY <2>4 DEF Leaves
  <2> DEFINE os2 == [s.ops EXCEPT ![i] = o2]
  <2>10. CallCommon(os2, r.fh)
    <3>1. Same(o, o)
      BY DEF Same
    <3> HIDE DEF left, i
    <3> QED BY <1>7, <1>11, <1>15, <2>4, <2>6, <2>8, <3>1, CalledKeeps
  <2>11. ~p.sent /\ o.kind \in Chained => o2.status # "SUCCESS"
    <3> SUFFICES ASSUME ~p.sent, o.kind \in Chained PROVE o2.status # "SUCCESS"
      OBVIOUS
    <3>1. IsFirst(p.cb, Cbs(pdus, i))
      BY <1>1, <1>2, <1>17, LeadsIsFirst DEF IsNext
    <3>2. IsCall(ops[i], Cbs(pdus, i))
      BY <1>3 DEF State, AllFine, Fine
    <3>3. PICK j \in DOMAIN pdus : pdus[j].op = i /\ pdus[j].cb \in Firsts
      BY <1>1, <1>2, <1>11 DEF Whole, Creating, Chained
    <3>4. pdus[j].cb \in Cbs(pdus, i)
      BY <3>3 DEF Cbs, Places
    <3>5. p.cb \in Firsts
      BY <1>11, <3>1, <3>2, <3>3, <3>4, FirstOfChain
    <3> QED BY <1>14, <2>4, <2>8, <3>5 DEF Leaves
  <2>12. o2.kind = o.kind /\ o2.wait = o.wait
    BY <2>8 DEF Same
  <2> HIDE DEF o, left, s2
  <2>13. Dropping(s2, places, k, held)
    BY <1>16, <2>1, <2>6, <2>7, <2>9, <2>10, <2>11, <2>12
  <2> QED BY <2>13 DEF s2, k
<1>18. CASE ~p.sent /\ ~IsNext(k)
  <2> DEFINE o2 == [o EXCEPT !.torn = TRUE]
  <2>1. s2 = [ops |-> [s.ops EXCEPT ![i] = o2], fh |-> s.fh, connect |-> s.connect]
    <3>1. s2 = [s EXCEPT !.ops[i].torn = TRUE]
      <4> HIDE DEF i
      <4> QED BY <1>4, <1>18 DEF Dropped
    <3> HIDE DEF i, s2
    <3> QED BY <1>11, <3>1
  <2>2. PICK j \in 1..(k - 1) : pdus[j].op = i
    BY <1>18 DEF IsNext
  <2>3. j \in DOMAIN pdus /\ j < k /\ j \in SoFar(places, n)
    <3>1. j \in DOMAIN pdus /\ j < k /\ j \in 1..n
      BY <1>2, <2>2 DEF k
    <3> QED BY <1>5, <2>2, <3>1 DEF SoFar
  <2>4. ~pdus[j].sent
    BY <1>1, <1>2, <1>18, <2>2, <2>3 DEF Ordered
  <2>5. o.kind \in Chained => o.status # "SUCCESS"
    BY <1>11, <2>2, <2>3, <2>4 DEF Dropping
  <2>6. i \notin held
    <3> SUFFICES ASSUME i \in held PROVE FALSE
      OBVIOUS
    <3>1. o.kind = "opendir"
      BY <1>13
    <3>2. IsCall(ops[i], Cbs(pdus, i))
      BY <1>3 DEF State, AllFine, Fine
    <3>3. p.cb \in Cbs(pdus, i) /\ pdus[j].cb \in Cbs(pdus, i) /\ p.cb # pdus[j].cb
      BY <1>1, <1>2, <2>2, <2>3 DEF Cbs, Places, Ordered
    <3>4. ops[i].kind = "opendir" /\ Cbs(pdus, i) \in Left("opendir")
      BY <1>11, <3>1, <3>2 DEF IsCall
    <3> DEFINE all == Cbs(pdus, i)
    <3> HIDE DEF all
    <3>5. all \in Left("opendir") /\ p.cb \in all /\ pdus[j].cb \in all
      BY <3>3, <3>4 DEF all
    <3> QED BY <3>3, <3>5 DEF Left
  <2>7. /\ o2 \in Op /\ Fine(o2, Less(left, p.cb), i, held) /\ Same(o2, o) /\ o2.told = o.told /\ o2.got = o.got
        /\ o2.status = o.status
    <3> HIDE DEF left, o, i
    <3> QED BY <1>7, <1>12, <2>5, <2>6, TornFine
  <2> HIDE DEF o2
  <2>8. CallCommon([s.ops EXCEPT ![i] = o2], s.fh)
    <3> HIDE DEF i
    <3> QED BY <1>11, <2>7, LikeKeeps DEF Same
  <2>9. o2.kind = o.kind /\ o2.wait = o.wait
    BY <2>7 DEF Same
  <2> HIDE DEF o, left, s2
  <2>10. Dropping(s2, places, k, held)
    BY <1>11, <1>16, <2>1, <2>5, <2>7, <2>8, <2>9
  <2> QED BY <2>10 DEF s2, k
<1> QED BY <1>17, <1>18 DEF k

LEMMA DropKeeps ==
  ASSUME State(ops, pdus, fh, handles), NEW places, NEW status, NEW held, GivesUp(places, status, held),
         Drop(places, status)
  PROVE  /\ ops' \in Seq(Op) /\ Len(ops') = Len(ops) /\ \A i \in DOMAIN ops : ops'[i].kind = ops[i].kind
         /\ fh' \in Fh /\ fh'.cb = fh.cb /\ Waits(ops') /\ CallCommon(ops', fh')
         /\ \A i \in DOMAIN ops : Fine(ops'[i], Without(pdus, places, i), i, held)
<1> DEFINE N == Len(pdus)
           f == CHOOSE f : DropsTo(f, places, status, N)
           T == {n \in 0..N : ~Dropping(f[n], places, n, held)}
<1>1. N \in Nat /\ DOMAIN pdus = 1..N
  BY DEF State, Queued
<1>2. DropsTo(f, places, status, N)
  BY <1>1, DropsToExists
<1>3. ops' = f[N].ops /\ fh' = f[N].fh
  BY DEF Drop, DropsTo
<1> HIDE DEF f
<1> DEFINE s0 == [ops |-> ops, fh |-> fh, connect |-> connect]
<1>4. f[0] = s0 /\ \A n \in 1..N : f[n] = IF n \in places THEN Dropped(f[n - 1], n, status) ELSE f[n - 1]
  <2>1. \A n \in 0..N : f[n] = IF n = 0 THEN s0 ELSE IF n \in places THEN Dropped(f[n - 1], n, status) ELSE f[n - 1]
    BY <1>2 DEF DropsTo
  <2> HIDE DEF s0
  <2> QED BY <1>1, <2>1
<1>5. Dropping(s0, places, 0, held)
  <2>1. SoFar(places, 0) = {}
    BY DEF SoFar
  <2>2. \A i : Without(pdus, {}, i) = Cbs(pdus, i)
    BY DEF Without, Cbs
  <2>3. ASSUME NEW i \in DOMAIN ops PROVE Fine(ops[i], Without(pdus, SoFar(places, 0), i), i, held)
    <3>1. Fine(ops[i], Cbs(pdus, i), i, handles)
      BY DEF State, AllFine
    <3>2. i \in held => i \in handles
      BY DEF GivesUp
    <3> QED BY <2>1, <2>2, <3>1, <3>2, FineHeld
  <2>4. s0.ops = ops /\ s0.fh = fh /\ s0.connect = connect
    OBVIOUS
  <2>5. s0 = [ops |-> s0.ops, fh |-> s0.fh, connect |-> s0.connect]
    OBVIOUS
  <2> HIDE DEF s0
  <2> QED BY <2>1, <2>3, <2>4, <2>5 DEF Dropping, State
<1> HIDE DEF s0, N
<1>6. T = {}
  <2> SUFFICES ASSUME T # {} PROVE FALSE
    OBVIOUS
  <2>1. T \in SUBSET Nat
    OBVIOUS
  <2> HIDE DEF T
  <2>2. PICK n \in T : \A l \in T : n <= l
    BY <2>1, LeastNumber
  <2>3. n \in 0..N /\ ~Dropping(f[n], places, n, held)
    BY DEF T
  <2>4. CASE n = 0
    BY <1>4, <1>5, <2>3, <2>4
  <2>5. CASE n # 0
    <3>1. n - 1 \in 0..N /\ n - 1 \notin T /\ n \in 1..N /\ n \in Nat /\ n - 1 \in Nat /\ (n - 1) + 1 = n
      BY <1>1, <2>2, <2>3, <2>5
    <3>2. Dropping(f[n - 1], places, n - 1, held)
      BY <3>1 DEF T
    <3>3. CASE n \in places
      <4>1. f[n] = Dropped(f[n - 1], n, status)
        BY <1>4, <3>1, <3>3
      <4>2. Dropping(Dropped(f[n - 1], (n - 1) + 1, status), places, (n - 1) + 1, held)
        BY <3>1, <3>2, <3>3, DropStep
      <4> QED BY <2>3, <3>1, <4>1, <4>2
    <3>4. CASE n \notin places
      <4>1. f[n] = f[n - 1]
        BY <1>4, <3>1, <3>4
      <4>2. SoFar(places, n) = SoFar(places, n - 1)
        BY <3>1, <3>4 DEF SoFar
      <4>3. Dropping(f[n - 1], places, n, held)
        BY <3>2, <4>2 DEF Dropping
      <4> QED BY <2>3, <4>1, <4>3
    <3> QED BY <3>3, <3>4
  <2> QED BY <2>4, <2>5
<1>7. Dropping(f[N], places, N, held)
  BY <1>1, <1>6
<1>8. SoFar(places, N) = places
  BY <1>1 DEF SoFar, GivesUp
<1> QED BY <1>3, <1>7, <1>8 DEF Dropping

-----------------------------------------------------------------------------
(***************************************************************************)
(* Calls are made.                                                         *)
(***************************************************************************)
LEMMA AppendIs ==
  ASSUME NEW os \in Seq(Op), NEW o \in Op
  PROVE  LET os2 == Append(os, o)
         IN /\ os2 \in Seq(Op) /\ Len(os2) = Len(os) + 1 /\ DOMAIN os2 = 1..(Len(os) + 1)
            /\ Len(os) \in Nat /\ DOMAIN os = 1..Len(os)
            /\ os2[Len(os) + 1] = o /\ \A j \in DOMAIN os : os2[j] = os[j]
  OBVIOUS

(* A read or a write starts where the smb2fh is.                           *)
Begins(o, f) ==
  /\ o.told # <<"0">>
  /\ o.kind = "read" => o.length = smb2_pread_async(o.count, o.credits)
  /\ o.kind = "write" => o.length = smb2_pwrite_async(o.count, o.credits)
  /\ IsIo(o) => o.offset = f.offset

LEMMA AppendCommon ==
  ASSUME NEW os \in Seq(Op), NEW o \in Op, NEW f \in Fh, NEW g, CallCommon(os, f), Begins(o, f),
         g.open = f.open, IsIo(o) => g.offset = f.offset
  PROVE  CallCommon(Append(os, o), g)
<1> DEFINE os2 == Append(os, o)
<1>1. /\ os2 \in Seq(Op) /\ Len(os2) = Len(os) + 1 /\ DOMAIN os2 = 1..(Len(os) + 1)
      /\ Len(os) \in Nat /\ DOMAIN os = 1..Len(os)
      /\ os2[Len(os) + 1] = o /\ \A j \in DOMAIN os : os2[j] = os[j]
  BY AppendIs
<1> HIDE DEF os2
<1>2. \A j \in DOMAIN os2 : j \in DOMAIN os \/ j = Len(os) + 1
  BY <1>1
<1>3. \A j \in DOMAIN os : j \in DOMAIN os2
  BY <1>1
<1>4. \A j \in DOMAIN os : Ended(os2, j) => Ended(os, j)
  <2> SUFFICES ASSUME NEW j \in DOMAIN os, Ended(os2, j), NEW k \in 1..(j - 1)
               PROVE  os[k].kind = "lseek" \/ os[k].ret = "error" \/ os[k].wait = "returned"
    BY DEF Ended
  <2>1. k \in DOMAIN os
    BY <1>1
  <2> QED BY <1>1, <2>1 DEF Ended
<1>5. Ended(os2, Len(os) + 1) /\ Len(os) > 0 => Ended(os, Len(os))
  <2> SUFFICES ASSUME Ended(os2, Len(os) + 1), NEW k \in 1..(Len(os) - 1)
               PROVE  os[k].kind = "lseek" \/ os[k].ret = "error" \/ os[k].wait = "returned"
    BY DEF Ended
  <2>1. k \in DOMAIN os /\ k \in 1..((Len(os) + 1) - 1)
    BY <1>1
  <2> QED BY <1>1, <2>1 DEF Ended
<1>6. Moved(o) = 0 /\ o.offset \in Nat
  BY DEF Begins, Moved, Op
<1>7. Opens(os2, g)
  <2> SUFFICES ASSUME NEW j \in DOMAIN os2, os2[j].kind = "open", os2[j].told = <<"0">>, ~g.open
               PROVE  \E k \in DOMAIN os2 : os2[k].kind = "close"
    BY DEF Opens
  <2>1. j \in DOMAIN os
    BY <1>1, <1>2 DEF Begins
  <2>2. PICK k \in DOMAIN os : os[k].kind = "close"
    BY <1>1, <2>1 DEF CallCommon, Opens
  <2> QED BY <1>1, <1>3, <2>2
<1>8. InTurn(os2)
  <2> SUFFICES ASSUME NEW j \in DOMAIN os2, j > 1, IsIo(os2[j - 1]), IsIo(os2[j]), Ended(os2, j)
               PROVE  os2[j].offset = os2[j - 1].offset + Moved(os2[j - 1])
    BY DEF InTurn
  <2>1. CASE j \in DOMAIN os
    <3>1. j - 1 \in DOMAIN os
      BY <1>1, <2>1
    <3>2. os2[j] = os[j] /\ os2[j - 1] = os[j - 1]
      BY <1>1, <2>1, <3>1
    <3> QED BY <1>4, <2>1, <3>2 DEF CallCommon, InTurn
  <2>2. CASE j = Len(os) + 1
    <3>1. j - 1 = Len(os) /\ Len(os) \in DOMAIN os /\ Len(os) > 0
      BY <1>1, <2>2
    <3>2. os2[j - 1] = os[Len(os)] /\ os2[j] = o
      BY <1>1, <2>2, <3>1
    <3>3. f.offset = os[Len(os)].offset + Moved(os[Len(os)])
      BY <1>5, <2>2, <3>1, <3>2 DEF CallCommon, AtEnd
    <3> QED BY <3>2, <3>3 DEF Begins
  <2> QED BY <1>2, <2>1, <2>2
<1>9. AtEnd(os2, g)
  <2> SUFFICES ASSUME IsIo(os2[Len(os) + 1])
               PROVE  g.offset = os2[Len(os) + 1].offset + Moved(os2[Len(os) + 1])
    BY <1>1 DEF AtEnd
  <2>1. o.offset + Moved(o) = o.offset
    BY <1>6
  <2> QED BY <1>1, <2>1 DEF Begins
<1>10. Asks(os2)
  BY <1>1, <1>2 DEF Asks, CallCommon, Begins
<1> QED BY <1>7, <1>8, <1>9, <1>10 DEF CallCommon, os2

LEMMA AppendState ==
  ASSUME State(ops, pdus, fh, handles), NEW o \in Op, NEW q, NEW g \in Fh,
         \A j \in DOMAIN ops : ~Waiting(j), o.kind # "lseek" \/ o.wait = "none",
         Queued(q, Append(ops, o), g.cb), Fine(o, Cbs(q, Len(ops) + 1), Len(ops) + 1, handles),
         \A j : j # Len(ops) + 1 => Cbs(q, j) = Cbs(pdus, j),
         Begins(o, fh), g.open = fh.open, IsIo(o) => g.offset = fh.offset
  PROVE  State(Append(ops, o), q, g, handles)
<1> DEFINE os2 == Append(ops, o)
<1>1. ops \in Seq(Op) /\ handles \subseteq DOMAIN ops /\ fh \in Fh /\ CallCommon(ops, fh)
  BY DEF State
<1>2. /\ os2 \in Seq(Op) /\ Len(os2) = Len(ops) + 1 /\ DOMAIN os2 = 1..(Len(ops) + 1)
      /\ Len(ops) \in Nat /\ DOMAIN ops = 1..Len(ops)
      /\ os2[Len(ops) + 1] = o /\ \A j \in DOMAIN ops : os2[j] = ops[j]
  BY <1>1, AppendIs
<1>3. CallCommon(os2, g)
  BY <1>1, AppendCommon
<1> HIDE DEF os2
<1>4. \A j \in DOMAIN os2 : (j \in DOMAIN ops /\ j # Len(ops) + 1) \/ j = Len(ops) + 1
  BY <1>2
<1>5. AllFine(os2, q, handles)
  <2> SUFFICES ASSUME NEW j \in DOMAIN os2 PROVE Fine(os2[j], Cbs(q, j), j, handles)
    BY DEF AllFine
  <2>1. CASE j \in DOMAIN ops /\ j # Len(ops) + 1
    BY <1>2, <2>1 DEF State, AllFine
  <2>2. CASE j = Len(ops) + 1
    BY <1>2, <2>2
  <2> QED BY <1>4, <2>1, <2>2
<1>6. Waits(os2)
  <2> SUFFICES ASSUME NEW j \in DOMAIN os2, j # Len(ops) + 1 PROVE os2[j].wait # "waiting"
    BY <1>2 DEF Waits
  <2>1. j \in DOMAIN ops
    BY <1>2
  <2> QED BY <1>2, <2>1 DEF Waiting
<1>7. handles \subseteq DOMAIN os2
  BY <1>1, <1>2
<1> QED BY <1>2, <1>3, <1>5, <1>6, <1>7 DEF State, os2

(* The PDUs of a call.                                                     *)
CbsOf(chain) == {chain[k].cb : k \in DOMAIN chain}

LEMMA OnePdu ==
  ASSUME NEW a \in Callbacks, NEW kind, kind \in Creating \ {"opendir"} => a \in Firsts
  PROVE  LET chain == <<Pdu(CmdOf(a), a)>> IN GoodChain(chain, kind) /\ CbsOf(chain) = {a}
<1> DEFINE chain == <<Pdu(CmdOf(a), a)>>
<1>1. CmdOf(a) \in CallCommands
  BY DEF CmdOf, Callbacks, CallCommands
<1>2. /\ chain \in Seq([cmd : CallCommands, cb : Callbacks]) /\ DOMAIN chain = {1}
      /\ chain[1].cmd = CmdOf(a) /\ chain[1].cb = a
  BY <1>1 DEF Pdu
<1>3. ~Before(a, a)
  BY DEF Before
<1> HIDE DEF chain
<1> QED BY <1>2, <1>3 DEF GoodChain, CbsOf, chain

LEMMA TwoPdus ==
  ASSUME NEW a \in Callbacks, NEW b \in Callbacks, NEW kind, kind \in Creating \ {"opendir"} => a \in Firsts,
         a # b, ~Before(b, a)
  PROVE  LET chain == <<Pdu(CmdOf(a), a), Pdu(CmdOf(b), b)>> IN GoodChain(chain, kind) /\ CbsOf(chain) = {a, b}
<1> DEFINE chain == <<Pdu(CmdOf(a), a), Pdu(CmdOf(b), b)>>
<1>1. CmdOf(a) \in CallCommands /\ CmdOf(b) \in CallCommands
  BY DEF CmdOf, Callbacks, CallCommands
<1>2. /\ chain \in Seq([cmd : CallCommands, cb : Callbacks]) /\ DOMAIN chain = {1, 2}
      /\ chain[1].cmd = CmdOf(a) /\ chain[1].cb = a /\ chain[2].cmd = CmdOf(b) /\ chain[2].cb = b
  BY <1>1 DEF Pdu
<1>3. ~Before(a, a) /\ ~Before(b, b)
  BY DEF Before
<1> HIDE DEF chain
<1> QED BY <1>2, <1>3 DEF GoodChain, CbsOf, chain

LEMMA ThreePdus ==
  ASSUME NEW a \in Callbacks, NEW b \in Callbacks, NEW c \in Callbacks, NEW kind,
         kind \in Creating \ {"opendir"} => a \in Firsts,
         a # b, a # c, b # c, ~Before(b, a), ~Before(c, a), ~Before(c, b)
  PROVE  LET chain == <<Pdu(CmdOf(a), a), Pdu(CmdOf(b), b), Pdu(CmdOf(c), c)>>
         IN GoodChain(chain, kind) /\ CbsOf(chain) = {a, b, c}
<1> DEFINE chain == <<Pdu(CmdOf(a), a), Pdu(CmdOf(b), b), Pdu(CmdOf(c), c)>>
<1>1. CmdOf(a) \in CallCommands /\ CmdOf(b) \in CallCommands /\ CmdOf(c) \in CallCommands
  BY DEF CmdOf, Callbacks, CallCommands
<1>2. /\ chain \in Seq([cmd : CallCommands, cb : Callbacks]) /\ DOMAIN chain = {1, 2, 3}
      /\ chain[1].cmd = CmdOf(a) /\ chain[1].cb = a /\ chain[2].cmd = CmdOf(b) /\ chain[2].cb = b
      /\ chain[3].cmd = CmdOf(c) /\ chain[3].cb = c
  BY <1>1 DEF Pdu
<1>3. ~Before(a, a) /\ ~Before(b, b) /\ ~Before(c, c)
  BY DEF Before
<1> HIDE DEF chain
<1>4. \A k \in DOMAIN chain : chain[k].cmd = CmdOf(chain[k].cb)
  BY <1>2
<1>5. \A j, k \in DOMAIN chain : j # k => chain[j].cb # chain[k].cb
  BY <1>2
<1>6. \A j, k \in DOMAIN chain : Before(chain[j].cb, chain[k].cb) => j < k
  BY <1>2, <1>3
<1>7. CbsOf(chain) = {a, b, c}
  BY <1>2 DEF CbsOf
<1> QED BY <1>2, <1>4, <1>5, <1>6, <1>7 DEF GoodChain, chain

LEMMA ChainIs ==
  ASSUME NEW kind \in DOMAIN Chain
  PROVE  /\ GoodChain(Chain[kind], kind)
         /\ LET cbs == CbsOf(Chain[kind])
            IN /\ cbs \in Left(kind) /\ cbs # {}
               /\ \A cb, next \in Callbacks : next \in cbs /\ Before(cb, next) => cb \in cbs
               /\ "disconnect_cb_2" \notin cbs /\ {"query_cb", "od_close_cb"} \cap cbs = {}
               /\ {"close_cb", "fsync_cb"} \cap cbs # {} => kind \in {"close", "fsync"}
<1> DEFINE cbs == CbsOf(Chain[kind])
           Good == /\ cbs \in Left(kind) /\ cbs # {}
                   /\ \A cb, next \in Callbacks : next \in cbs /\ Before(cb, next) => cb \in cbs
                   /\ "disconnect_cb_2" \notin cbs /\ {"query_cb", "od_close_cb"} \cap cbs = {}
                   /\ {"close_cb", "fsync_cb"} \cap cbs # {} => kind \in {"close", "fsync"}
<1>1. kind \in {"opendir", "open", "close", "fsync", "fstat", "read", "write", "ftruncate", "echo", "unlink", "mkdir", "stat", "truncate", "rename", "readlink", "disconnect"}
  BY DEF Chain
<1> HIDE DEF cbs
<1>2. CASE kind = "opendir"
  <2>1. Chain[kind] = <<Pdu(CmdOf("opendir_cb"), "opendir_cb")>>
    BY <1>2 DEF Chain, Pdu, CmdOf, _smb2_opendir_async
  <2>2. GoodChain(Chain[kind], kind) /\ cbs = {"opendir_cb"}
    <3>1. "opendir_cb" \in Callbacks /\ (kind \in Creating \ {"opendir"} => "opendir_cb" \in Firsts)
      BY <1>2 DEF Callbacks, Firsts, Creating, Chained
    <3> QED BY <3>1, <2>1, OnePdu DEF cbs
  <2>3. Good
    BY <1>2, <2>2 DEF Left, OfThree, Before
  <2> QED BY <2>2, <2>3 DEF cbs
<1>3. CASE kind = "open"
  <2>1. Chain[kind] = <<Pdu(CmdOf("open_cb"), "open_cb")>>
    BY <1>3 DEF Chain, Pdu, CmdOf, _smb2_open_async_with_oplock_or_lease
  <2>2. GoodChain(Chain[kind], kind) /\ cbs = {"open_cb"}
    <3>1. "open_cb" \in Callbacks /\ (kind \in Creating \ {"opendir"} => "open_cb" \in Firsts)
      BY <1>3 DEF Callbacks, Firsts, Creating, Chained
    <3> QED BY <3>1, <2>1, OnePdu DEF cbs
  <2>3. Good
    BY <1>3, <2>2 DEF Left, OfThree, Before
  <2> QED BY <2>2, <2>3 DEF cbs
<1>4. CASE kind = "close"
  <2>1. Chain[kind] = <<Pdu(CmdOf("close_cb"), "close_cb")>>
    BY <1>4 DEF Chain, Pdu, CmdOf, smb2_close_async
  <2>2. GoodChain(Chain[kind], kind) /\ cbs = {"close_cb"}
    <3>1. "close_cb" \in Callbacks /\ (kind \in Creating \ {"opendir"} => "close_cb" \in Firsts)
      BY <1>4 DEF Callbacks, Firsts, Creating, Chained
    <3> QED BY <3>1, <2>1, OnePdu DEF cbs
  <2>3. Good
    BY <1>4, <2>2 DEF Left, OfThree, Before
  <2> QED BY <2>2, <2>3 DEF cbs
<1>5. CASE kind = "fsync"
  <2>1. Chain[kind] = <<Pdu(CmdOf("fsync_cb"), "fsync_cb")>>
    BY <1>5 DEF Chain, Pdu, CmdOf, smb2_fsync_async
  <2>2. GoodChain(Chain[kind], kind) /\ cbs = {"fsync_cb"}
    <3>1. "fsync_cb" \in Callbacks /\ (kind \in Creating \ {"opendir"} => "fsync_cb" \in Firsts)
      BY <1>5 DEF Callbacks, Firsts, Creating, Chained
    <3> QED BY <3>1, <2>1, OnePdu DEF cbs
  <2>3. Good
    BY <1>5, <2>2 DEF Left, OfThree, Before
  <2> QED BY <2>2, <2>3 DEF cbs
<1>6. CASE kind = "fstat"
  <2>1. Chain[kind] = <<Pdu(CmdOf("fstat_cb_1"), "fstat_cb_1")>>
    BY <1>6 DEF Chain, Pdu, CmdOf, smb2_fstat_async
  <2>2. GoodChain(Chain[kind], kind) /\ cbs = {"fstat_cb_1"}
    <3>1. "fstat_cb_1" \in Callbacks /\ (kind \in Creating \ {"opendir"} => "fstat_cb_1" \in Firsts)
      BY <1>6 DEF Callbacks, Firsts, Creating, Chained
    <3> QED BY <3>1, <2>1, OnePdu DEF cbs
  <2>3. Good
    BY <1>6, <2>2 DEF Left, OfThree, Before
  <2> QED BY <2>2, <2>3 DEF cbs
<1>7. CASE kind = "read"
  <2>1. Chain[kind] = <<Pdu(CmdOf("read_cb"), "read_cb")>>
    BY <1>7 DEF Chain, Pdu, CmdOf
  <2>2. GoodChain(Chain[kind], kind) /\ cbs = {"read_cb"}
    <3>1. "read_cb" \in Callbacks /\ (kind \in Creating \ {"opendir"} => "read_cb" \in Firsts)
      BY <1>7 DEF Callbacks, Firsts, Creating, Chained
    <3> QED BY <3>1, <2>1, OnePdu DEF cbs
  <2>3. Good
    BY <1>7, <2>2 DEF Left, OfThree, Before
  <2> QED BY <2>2, <2>3 DEF cbs
<1>8. CASE kind = "write"
  <2>1. Chain[kind] = <<Pdu(CmdOf("write_cb"), "write_cb")>>
    BY <1>8 DEF Chain, Pdu, CmdOf
  <2>2. GoodChain(Chain[kind], kind) /\ cbs = {"write_cb"}
    <3>1. "write_cb" \in Callbacks /\ (kind \in Creating \ {"opendir"} => "write_cb" \in Firsts)
      BY <1>8 DEF Callbacks, Firsts, Creating, Chained
    <3> QED BY <3>1, <2>1, OnePdu DEF cbs
  <2>3. Good
    BY <1>8, <2>2 DEF Left, OfThree, Before
  <2> QED BY <2>2, <2>3 DEF cbs
<1>9. CASE kind = "ftruncate"
  <2>1. Chain[kind] = <<Pdu(CmdOf("ftrunc_cb_1"), "ftrunc_cb_1")>>
    BY <1>9 DEF Chain, Pdu, CmdOf, smb2_ftruncate_async
  <2>2. GoodChain(Chain[kind], kind) /\ cbs = {"ftrunc_cb_1"}
    <3>1. "ftrunc_cb_1" \in Callbacks /\ (kind \in Creating \ {"opendir"} => "ftrunc_cb_1" \in Firsts)
      BY <1>9 DEF Callbacks, Firsts, Creating, Chained
    <3> QED BY <3>1, <2>1, OnePdu DEF cbs
  <2>3. Good
    BY <1>9, <2>2 DEF Left, OfThree, Before
  <2> QED BY <2>2, <2>3 DEF cbs
<1>10. CASE kind = "echo"
  <2>1. Chain[kind] = <<Pdu(CmdOf("echo_cb"), "echo_cb")>>
    BY <1>10 DEF Chain, Pdu, CmdOf, smb2_echo_async
  <2>2. GoodChain(Chain[kind], kind) /\ cbs = {"echo_cb"}
    <3>1. "echo_cb" \in Callbacks /\ (kind \in Creating \ {"opendir"} => "echo_cb" \in Firsts)
      BY <1>10 DEF Callbacks, Firsts, Creating, Chained
    <3> QED BY <3>1, <2>1, OnePdu DEF cbs
  <2>3. Good
    BY <1>10, <2>2 DEF Left, OfThree, Before
  <2> QED BY <2>2, <2>3 DEF cbs
<1>11. CASE kind = "unlink"
  <2>1. Chain[kind] = <<Pdu(CmdOf("create_cb_1"), "create_cb_1"), Pdu(CmdOf("create_cb_2"), "create_cb_2")>>
    BY <1>11 DEF Chain, Pdu, CmdOf, smb2_unlink_internal
  <2>2. GoodChain(Chain[kind], kind) /\ cbs = {"create_cb_1", "create_cb_2"}
    <3>1. "create_cb_1" \in Callbacks /\ "create_cb_2" \in Callbacks /\ (kind \in Creating \ {"opendir"} => "create_cb_1" \in Firsts)
      BY <1>11 DEF Callbacks, Firsts, Creating, Chained
    <3>2. ~Before("create_cb_2", "create_cb_1")
      BY DEF Before
    <3> QED BY <3>1, <3>2, <2>1, TwoPdus DEF cbs
  <2>3. Good
    BY <1>11, <2>2 DEF Left, OfThree, Before
  <2> QED BY <2>2, <2>3 DEF cbs
<1>12. CASE kind = "mkdir"
  <2>1. Chain[kind] = <<Pdu(CmdOf("create_cb_1"), "create_cb_1"), Pdu(CmdOf("create_cb_2"), "create_cb_2")>>
    BY <1>12 DEF Chain, Pdu, CmdOf, smb2_mkdir_async
  <2>2. GoodChain(Chain[kind], kind) /\ cbs = {"create_cb_1", "create_cb_2"}
    <3>1. "create_cb_1" \in Callbacks /\ "create_cb_2" \in Callbacks /\ (kind \in Creating \ {"opendir"} => "create_cb_1" \in Firsts)
      BY <1>12 DEF Callbacks, Firsts, Creating, Chained
    <3>2. ~Before("create_cb_2", "create_cb_1")
      BY DEF Before
    <3> QED BY <3>1, <3>2, <2>1, TwoPdus DEF cbs
  <2>3. Good
    BY <1>12, <2>2 DEF Left, OfThree, Before
  <2> QED BY <2>2, <2>3 DEF cbs
<1>13. CASE kind = "stat"
  <2>1. Chain[kind] = <<Pdu(CmdOf("getinfo_cb_1"), "getinfo_cb_1"), Pdu(CmdOf("getinfo_cb_2"), "getinfo_cb_2"), Pdu(CmdOf("getinfo_cb_3"), "getinfo_cb_3")>>
    BY <1>13 DEF Chain, Pdu, CmdOf, smb2_getinfo_async
  <2>2. GoodChain(Chain[kind], kind) /\ cbs = {"getinfo_cb_1", "getinfo_cb_2", "getinfo_cb_3"}
    <3>1. "getinfo_cb_1" \in Callbacks /\ "getinfo_cb_2" \in Callbacks /\ "getinfo_cb_3" \in Callbacks /\ (kind \in Creating \ {"opendir"} => "getinfo_cb_1" \in Firsts)
      BY <1>13 DEF Callbacks, Firsts, Creating, Chained
    <3>2. ~Before("getinfo_cb_2", "getinfo_cb_1") /\ ~Before("getinfo_cb_3", "getinfo_cb_1") /\ ~Before("getinfo_cb_3", "getinfo_cb_2")
      BY DEF Before
    <3> QED BY <3>1, <3>2, <2>1, ThreePdus DEF cbs
  <2>3. Good
    BY <1>13, <2>2 DEF Left, OfThree, Before
  <2> QED BY <2>2, <2>3 DEF cbs
<1>14. CASE kind = "truncate"
  <2>1. Chain[kind] = <<Pdu(CmdOf("trunc_cb_1"), "trunc_cb_1"), Pdu(CmdOf("trunc_cb_2"), "trunc_cb_2"), Pdu(CmdOf("trunc_cb_3"), "trunc_cb_3")>>
    BY <1>14 DEF Chain, Pdu, CmdOf, smb2_truncate_async
  <2>2. GoodChain(Chain[kind], kind) /\ cbs = {"trunc_cb_1", "trunc_cb_2", "trunc_cb_3"}
    <3>1. "trunc_cb_1" \in Callbacks /\ "trunc_cb_2" \in Callbacks /\ "trunc_cb_3" \in Callbacks /\ (kind \in Creating \ {"opendir"} => "trunc_cb_1" \in Firsts)
      BY <1>14 DEF Callbacks, Firsts, Creating, Chained
    <3>2. ~Before("trunc_cb_2", "trunc_cb_1") /\ ~Before("trunc_cb_3", "trunc_cb_1") /\ ~Before("trunc_cb_3", "trunc_cb_2")
      BY DEF Before
    <3> QED BY <3>1, <3>2, <2>1, ThreePdus DEF cbs
  <2>3. Good
    BY <1>14, <2>2 DEF Left, OfThree, Before
  <2> QED BY <2>2, <2>3 DEF cbs
<1>15. CASE kind = "rename"
  <2>1. Chain[kind] = <<Pdu(CmdOf("rename_cb_1"), "rename_cb_1"), Pdu(CmdOf("rename_cb_2"), "rename_cb_2"), Pdu(CmdOf("rename_cb_3"), "rename_cb_3")>>
    BY <1>15 DEF Chain, Pdu, CmdOf, smb2_rename_async
  <2>2. GoodChain(Chain[kind], kind) /\ cbs = {"rename_cb_1", "rename_cb_2", "rename_cb_3"}
    <3>1. "rename_cb_1" \in Callbacks /\ "rename_cb_2" \in Callbacks /\ "rename_cb_3" \in Callbacks /\ (kind \in Creating \ {"opendir"} => "rename_cb_1" \in Firsts)
      BY <1>15 DEF Callbacks, Firsts, Creating, Chained
    <3>2. ~Before("rename_cb_2", "rename_cb_1") /\ ~Before("rename_cb_3", "rename_cb_1") /\ ~Before("rename_cb_3", "rename_cb_2")
      BY DEF Before
    <3> QED BY <3>1, <3>2, <2>1, ThreePdus DEF cbs
  <2>3. Good
    BY <1>15, <2>2 DEF Left, OfThree, Before
  <2> QED BY <2>2, <2>3 DEF cbs
<1>16. CASE kind = "readlink"
  <2>1. Chain[kind] = <<Pdu(CmdOf("readlink_cb_1"), "readlink_cb_1"), Pdu(CmdOf("readlink_cb_2"), "readlink_cb_2"), Pdu(CmdOf("readlink_cb_3"), "readlink_cb_3")>>
    BY <1>16 DEF Chain, Pdu, CmdOf, smb2_readlink_async
  <2>2. GoodChain(Chain[kind], kind) /\ cbs = {"readlink_cb_1", "readlink_cb_2", "readlink_cb_3"}
    <3>1. "readlink_cb_1" \in Callbacks /\ "readlink_cb_2" \in Callbacks /\ "readlink_cb_3" \in Callbacks /\ (kind \in Creating \ {"opendir"} => "readlink_cb_1" \in Firsts)
      BY <1>16 DEF Callbacks, Firsts, Creating, Chained
    <3>2. ~Before("readlink_cb_2", "readlink_cb_1") /\ ~Before("readlink_cb_3", "readlink_cb_1") /\ ~Before("readlink_cb_3", "readlink_cb_2")
      BY DEF Before
    <3> QED BY <3>1, <3>2, <2>1, ThreePdus DEF cbs
  <2>3. Good
    BY <1>16, <2>2 DEF Left, OfThree, Before
  <2> QED BY <2>2, <2>3 DEF cbs
<1>17. CASE kind = "disconnect"
  <2>1. Chain[kind] = <<Pdu(CmdOf("disconnect_cb_1"), "disconnect_cb_1")>>
    BY <1>17 DEF Chain, Pdu, CmdOf, smb2_disconnect_share_async
  <2>2. GoodChain(Chain[kind], kind) /\ cbs = {"disconnect_cb_1"}
    <3>1. "disconnect_cb_1" \in Callbacks /\ (kind \in Creating \ {"opendir"} => "disconnect_cb_1" \in Firsts)
      BY <1>17 DEF Callbacks, Firsts, Creating, Chained
    <3> QED BY <3>1, <2>1, OnePdu DEF cbs
  <2>3. Good
    BY <1>17, <2>2 DEF Left, OfThree, Before
  <2> QED BY <2>2, <2>3 DEF cbs
<1> QED BY <1>1, <1>2, <1>3, <1>4, <1>5, <1>6, <1>7, <1>8, <1>9, <1>10, <1>11, <1>12, <1>13, <1>14, <1>15, <1>16, <1>17

LEMMA CbsAre ==
  ASSUME NEW chain \in Seq([cmd : CallCommands, cb : Callbacks])
  PROVE  CbsOf(chain) \subseteq Callbacks
<1>1. DOMAIN chain = 1..Len(chain)
  OBVIOUS
<1>2. \A k \in 1..Len(chain) : chain[k] \in [cmd : CallCommands, cb : Callbacks]
  BY ElementOfSeq
<1> QED BY <1>1, <1>2 DEF CbsOf

(* The record of a call that is made.                                      *)
Blank(o) ==
  /\ o \in Op /\ o.kind \in DOMAIN Chain /\ o.ret = "0" /\ o.told = <<>> /\ o.status = "SUCCESS"
  /\ o.wait = "none" /\ ~o.finished /\ o.done = {} /\ o.entries = <<>> /\ o.listed = 0
CallAsked(o2, o) ==
  /\ o2.kind = o.kind /\ o2.offset = o.offset /\ o2.count = o.count /\ o2.credits = o.credits
  /\ o2.length = o.length

LEMMA StartedFine ==
  ASSUME NEW o, Blank(o), NEW i, NEW held, i \notin held
  PROVE  /\ Started(o) \in Op /\ CallAsked(Started(o), o) /\ Started(o).told = <<>>
         /\ Fine(Started(o), CbsOf(Chain[o.kind]), i, held)
<1> DEFINE d == IF o.kind \in HasNoData THEN "none" ELSE "live"
           c == IF o.sync /\ o.kind # "disconnect" THEN "live" ELSE "none"
           w == IF o.sync THEN "waiting" ELSE "none"
           left == CbsOf(Chain[o.kind])
           s == Started(o)
<1>1. o \in Op /\ s = [o EXCEPT !.data = d, !.cb_data = c, !.wait = w, !.pdu = "live"]
  BY DEF Blank, Started
<1>2. d \in Memory /\ c \in Memory /\ w \in {"none", "waiting"}
  BY DEF Memory
<1> HIDE DEF d, c, w, s
<1>3. s \in Op /\ s.data = d /\ s.cb_data = c /\ s.wait = w
  BY <1>1, <1>2 DEF Op
<1>4. /\ s.kind = o.kind /\ s.sync = o.sync /\ s.ret = "0" /\ s.told = <<>> /\ s.status = "SUCCESS"
      /\ ~s.finished /\ s.done = {} /\ s.entries = <<>> /\ s.listed = 0 /\ CallAsked(s, o)
  BY <1>1 DEF Op, Blank, CallAsked
<1>5. /\ left \in Left(o.kind) /\ left # {}
      /\ \A cb, next \in Callbacks : next \in left /\ Before(cb, next) => cb \in left
      /\ "disconnect_cb_2" \notin left /\ {"query_cb", "od_close_cb"} \cap left = {}
      /\ GoodChain(Chain[o.kind], o.kind)
  BY ChainIs DEF Blank
<1>6. left \subseteq Callbacks
  <2>1. Chain[o.kind] \in Seq([cmd : CallCommands, cb : Callbacks])
    BY <1>5 DEF GoodChain
  <2> QED BY <2>1, CbsAre DEF left
<1> HIDE DEF left
<1>7. AnswersWell(s)
  BY <1>4 DEF AnswersWell
<1>8. Going(s, left)
  <2>1. ChainKept(s, left)
    BY <1>5, <1>6 DEF ChainKept
  <2>2. s.wait \notin {"returned", "abandoned"}
    BY <1>2, <1>3
  <2>3. s.sync /\ s.kind # "disconnect" => s.cb_data = "live"
    BY <1>3, <1>4 DEF c
  <2>4. s.data = IF s.kind \in HasNoData THEN "none" ELSE "live"
    BY <1>3, <1>4 DEF d
  <2> QED BY <1>4, <1>5, <2>1, <2>2, <2>3, <2>4 DEF Going
<1>9. OnServer(s, left, i, held)
  BY <1>4, <1>5 DEF OnServer
<1> QED BY <1>3, <1>4, <1>5, <1>7, <1>8, <1>9 DEF Fine, IsCall, left, s

LEMMA RefusedFine ==
  ASSUME NEW o, Blank(o), NEW i, NEW held, i \notin held, NEW fails
  PROVE  /\ Refused(o, fails) \in Op /\ CallAsked(Refused(o, fails), o) /\ Refused(o, fails).told # <<"0">>
         /\ Fine(Refused(o, fails), {}, i, held)
<1> DEFINE d == IF Keeps(o.kind, fails) THEN "live" ELSE "freed"
           t == IF TellsToo(o.kind, fails) THEN <<"ENOMEM">> ELSE <<>>
           c == IF o.sync THEN "freed" ELSE "none"
           s == Refused(o, fails)
<1>1. o \in Op /\ s = [o EXCEPT !.ret = "error", !.data = d, !.told = t, !.cb_data = c]
  BY DEF Blank, Refused
<1>2. d \in Memory /\ c \in Memory /\ t \in Seq(Errnos) /\ t # <<"0">> /\ Len(t) <= 1
  <2>1. <<"ENOMEM">> # <<"0">>
    <3>1. <<"ENOMEM">>[1] # <<"0">>[1]
      OBVIOUS
    <3> QED BY <3>1
  <2>2. <<"ENOMEM">> \in Seq(Errnos)
    BY DEF Errnos
  <2> QED BY <2>1, <2>2 DEF Memory
<1>3. (d = "live" => o.kind \in StopsEarly) /\ (t # <<>> => t = <<"ENOMEM">> /\ o.kind \in {"stat", "truncate", "rename"})
  BY DEF Keeps, TellsToo, StopsEarly
<1> HIDE DEF d, t, c, s
<1>4. s \in Op /\ s.data = d /\ s.cb_data = c /\ s.told = t /\ s.ret = "error"
  BY <1>1, <1>2 DEF Op
<1>5. s.kind = o.kind /\ s.done = {} /\ s.entries = <<>> /\ s.listed = 0 /\ CallAsked(s, o)
  BY <1>1 DEF Op, Blank, CallAsked
<1>6. {} \in Left(o.kind)
  BY DEF Left, OfThree
<1>7. AnswersWell(s)
  BY <1>2, <1>4 DEF AnswersWell
<1>8. Over(s)
  BY <1>3, <1>4, <1>5 DEF Over
<1>9. OnServer(s, {}, i, held)
  BY <1>4, <1>5 DEF OnServer
<1> QED BY <1>2, <1>4, <1>5, <1>6, <1>7, <1>8, <1>9 DEF Fine, IsCall, s

(* A call begins: it is queued whole, or refused.                          *)
LEMMA StartKeeps ==
  ASSUME State(ops, pdus, fh, handles), \A j \in DOMAIN ops : ~Waiting(j),
         NEW o, Blank(o), Begins(o, fh), MayCall(o.kind), NEW fails, Start(o, fails)
  PROVE  State(ops', pdus', fh', handles')
<1> DEFINE n == Len(ops) + 1
           g == IF o.kind \in {"close", "fsync"} THEN [fh EXCEPT !.cb = n] ELSE fh
           chain == Chain[o.kind]
           starts == fails = AllFits(o.kind)
           o2 == IF starts THEN Started(o) ELSE Refused(o, fails)
           q == IF starts THEN pdus \o Sent(n, chain) ELSE pdus
<1>1. ops \in Seq(Op) /\ fh \in Fh /\ handles \subseteq DOMAIN ops /\ Queued(pdus, ops, fh.cb)
  BY DEF State
<1>2. Len(ops) \in Nat /\ DOMAIN ops = 1..Len(ops) /\ n \in Nat /\ n \notin handles /\ n \notin DOMAIN ops
  BY <1>1
<1>3. ops' = Append(ops, o2) /\ pdus' = q /\ fh' = g /\ handles' = handles
  BY DEF Start
<1>4. g \in Fh /\ g.open = fh.open /\ g.offset = fh.offset
  BY <1>1, <1>2 DEF Fh
<1>5. Places(pdus, n) = {} /\ Cbs(pdus, n) = {}
  BY <1>1, <1>2 DEF Queued, Owned, Places, Cbs
<1>6. /\ Started(o) \in Op /\ CallAsked(Started(o), o) /\ Started(o).told = <<>>
      /\ Fine(Started(o), CbsOf(chain), n, handles)
  BY <1>2, StartedFine
<1>7. /\ Refused(o, fails) \in Op /\ CallAsked(Refused(o, fails), o) /\ Refused(o, fails).told # <<"0">>
      /\ Fine(Refused(o, fails), {}, n, handles)
  BY <1>2, RefusedFine
<1>8. <<>> # <<"0">>
  OBVIOUS
<1>9. o2 \in Op /\ CallAsked(o2, o) /\ o2.told # <<"0">> /\ o2.kind # "lseek"
  <2>1. o.kind # "lseek"
    BY DEF Blank, Chain
  <2>2. o2 \in Op /\ CallAsked(o2, o) /\ o2.told # <<"0">>
    BY <1>6, <1>7, <1>8
  <2> QED BY <2>1, <2>2 DEF CallAsked
<1>10. Begins(o2, fh)
  BY <1>9 DEF Begins, CallAsked, IsIo
<1>11. Queued(pdus, Append(ops, o2), g.cb)
  <2>1. \A i \in DOMAIN ops : i \in DOMAIN Append(ops, o2) /\ Append(ops, o2)[i].kind = ops[i].kind
    BY <1>1, <1>9, AppendIs
  <2>2. g.cb = fh.cb \/ \A k \in DOMAIN pdus : pdus[k].cb \notin {"close_cb", "fsync_cb"}
    <3>1. CASE o.kind \notin {"close", "fsync"}
      BY <3>1
    <3>2. CASE o.kind \in {"close", "fsync"}
      <4> SUFFICES ASSUME NEW k \in DOMAIN pdus, pdus[k].cb \in {"close_cb", "fsync_cb"} PROVE FALSE
        OBVIOUS
      <4>1. ops[pdus[k].op].kind \notin OnHandle
        BY <3>2 DEF MayCall, FhQuiet
      <4>2. pdus[k].op \in DOMAIN ops
        BY <1>1 DEF Queued, Owned
      <4>3. pdus[k].cb \in Cbs(pdus, pdus[k].op)
        BY DEF Cbs, Places
      <4>4. Cbs(pdus, pdus[k].op) \in Left(ops[pdus[k].op].kind)
        BY <4>2 DEF State, AllFine, Fine, IsCall
      <4> HIDE DEF g, chain, starts, o2, q
      <4>5. ops[pdus[k].op].kind \in {"close", "fsync"}
        <5>1. IsFirst(pdus[k].cb, Cbs(pdus, pdus[k].op))
          BY <4>3 DEF IsFirst, Before
        <5>2. IsCall(ops[pdus[k].op], Cbs(pdus, pdus[k].op))
          BY <4>2 DEF State, AllFine, Fine
        <5> QED BY <5>1, <5>2, CallOf
      <4> QED BY <4>1, <4>5 DEF OnHandle
    <3> QED BY <3>1, <3>2
  <2> HIDE DEF g, chain, starts, o2, q
  <2> QED BY <1>1, <2>1, <2>2, QueuedOps
<1>12. CASE starts
  <2>1. GoodChain(chain, o.kind) /\ ({"close_cb", "fsync_cb"} \cap CbsOf(chain) # {} => o.kind \in {"close", "fsync"})
    BY ChainIs DEF Blank
  <2>2. \A k \in DOMAIN chain : chain[k].cb \in {"close_cb", "fsync_cb"} => g.cb = n
    <3> SUFFICES ASSUME NEW k \in DOMAIN chain, chain[k].cb \in {"close_cb", "fsync_cb"} PROVE g.cb = n
      OBVIOUS
    <3>1. chain[k].cb \in CbsOf(chain)
      BY DEF CbsOf
    <3>2. o.kind \in {"close", "fsync"}
      BY <2>1, <3>1
    <3> QED BY <1>1, <3>2 DEF Fh
  <2>3. q = pdus \o Sent(n, chain) /\ o2 = Started(o)
    BY <1>12
  <2>4. n \in DOMAIN Append(ops, o2) /\ Append(ops, o2)[n].kind = o.kind
    BY <1>1, <1>2, <1>9, AppendIs DEF CallAsked
  <2> HIDE DEF g, chain, starts, o2, q, n
  <2>5. Queued(q, Append(ops, o2), g.cb) /\ Cbs(q, n) = CbsOf(chain) /\ \A j : j # n => Cbs(q, j) = Cbs(pdus, j)
    <3>1. GoodChain(chain, Append(ops, o2)[n].kind)
      BY <2>1, <2>4
    <3>2. CbsOf(chain) = {chain[k].cb : k \in DOMAIN chain}
      BY DEF CbsOf
    <3> DEFINE os2 == Append(ops, o2)
               c == g.cb
    <3>3. Queued(pdus, os2, c) /\ n \in DOMAIN os2 /\ GoodChain(chain, os2[n].kind) /\ n \in Nat
      BY <1>2, <1>11, <2>4, <3>1
    <3>4. \A k \in DOMAIN chain : chain[k].cb \in {"close_cb", "fsync_cb"} => c = n
      BY <2>2
    <3> HIDE DEF os2, c
    <3>5. /\ Queued(pdus \o Sent(n, chain), os2, c)
          /\ Cbs(pdus \o Sent(n, chain), n) = {chain[k].cb : k \in DOMAIN chain}
          /\ \A j : j # n => Cbs(pdus \o Sent(n, chain), j) = Cbs(pdus, j)
      BY <1>5, <3>3, <3>4, AddsQueued
    <3> QED BY <2>3, <3>2, <3>5 DEF os2, c
  <2>6. Fine(o2, Cbs(q, n), n, handles)
    BY <1>6, <2>3, <2>5
  <2> QED BY <1>3, <1>4, <1>9, <1>10, <2>5, <2>6, AppendState DEF n
<1>13. CASE ~starts
  <2>1. q = pdus /\ o2 = Refused(o, fails)
    BY <1>13
  <2> HIDE DEF g, chain, starts, o2, q, n
  <2>2. Fine(o2, Cbs(q, n), n, handles)
    BY <1>5, <1>7, <2>1
  <2> QED BY <1>3, <1>4, <1>9, <1>10, <1>11, <2>1, <2>2, AppendState DEF n
<1> QED BY <1>12, <1>13

LEMMA NextCallIs ==
  ASSUME CallsInvariant, Len(ops) < Len(plan)
  PROVE  /\ NextCall.kind \in Kinds /\ NextCall.sync \in BOOLEAN /\ NextCall.flags \in SUBSET Flags
         /\ NextCall.count \in Nat /\ NextCall.credits \in Nat
<1> DEFINE R == [kind : Kinds, sync : BOOLEAN, flags : SUBSET Flags, count : Nat, credits : Nat]
<1>1. plan \in Seq(R)
  BY PlansAssumption DEF CallsInvariant, Flags
<1>2. Len(ops) + 1 \in 1..Len(plan)
  <2>1. ops \in Seq(Op)
    BY DEF CallsInvariant, State
  <2>2. Len(ops) \in Nat /\ Len(plan) \in Nat
    BY <1>1, <2>1
  <2> QED BY <2>2
<1> HIDE DEF R
<1>3. NextCall \in R
  BY <1>1, <1>2, ElementOfSeq DEF NextCall
<1> QED BY <1>3 DEF R

(* What a record that asks for nothing yet is.                             *)
LEMMA FreshOp ==
  ASSUME NEW kind \in Kinds, NEW sync \in BOOLEAN, NEW told \in Seq(Errnos), NEW entries \in Seq(Int),
         NEW done \in SUBSET CallCommands, NEW flags \in SUBSET Flags, NEW memory \in Memory, NEW status \in CallTold
  PROVE  [[kind |-> "none", sync |-> FALSE, ret |-> "0", told |-> told, status |-> status,
           data |-> memory, cb_data |-> memory, wait |-> "none", finished |-> FALSE,
           pdu |-> "none", done |-> done, entries |-> entries, listed |-> 0, torn |-> FALSE,
           flags |-> flags, exists |-> TRUE, offset |-> 0, count |-> 0, credits |-> 1,
           length |-> 0, got |-> 0] EXCEPT !.kind = kind, !.sync = sync] \in Op
  BY DEF Op

LEMMA FreshSeek ==
  ASSUME NEW kind \in Kinds, NEW offset \in Nat, NEW ret \in {"0", "error"}, NEW told \in Seq(Errnos),
         NEW entries \in Seq(Int), NEW done \in SUBSET CallCommands, NEW flags \in SUBSET Flags,
         NEW memory \in Memory, NEW status \in CallTold
  PROVE  [[kind |-> "none", sync |-> FALSE, ret |-> "0", told |-> told, status |-> status,
           data |-> memory, cb_data |-> memory, wait |-> "none", finished |-> FALSE,
           pdu |-> "none", done |-> done, entries |-> entries, listed |-> 0, torn |-> FALSE,
           flags |-> flags, exists |-> TRUE, offset |-> 0, count |-> 0, credits |-> 1,
           length |-> 0, got |-> 0] EXCEPT !.kind = kind, !.offset = offset, !.ret = ret] \in Op
  BY DEF Op

LEMMA NoOpIs ==
  ASSUME NEW kind \in Kinds, NEW sync \in BOOLEAN
  PROVE  LET o == [NoOp EXCEPT !.kind = kind, !.sync = sync]
         IN /\ o \in Op /\ o.kind = kind /\ o.sync = sync /\ o.ret = "0" /\ o.told = <<>>
            /\ o.status = "SUCCESS" /\ o.data = "none" /\ o.wait = "none" /\ ~o.finished /\ o.done = {}
            /\ o.entries = <<>> /\ o.listed = 0
<1>1. "none" \in Memory /\ "SUCCESS" \in CallTold
  BY DEF Memory, CallTold
<1>2. <<>> \in Seq(Errnos) /\ <<>> \in Seq(Int) /\ {} \in SUBSET CallCommands /\ {} \in SUBSET Flags
  OBVIOUS
<1>3. [NoOp EXCEPT !.kind = kind, !.sync = sync] \in Op
  BY <1>1, <1>2, FreshOp, ZenonT(30) DEF NoOp
<1> QED BY <1>3 DEF NoOp

LEMMA NamedIs ==
  ASSUME CallsInvariant, Len(ops) < Len(plan)
  PROVE  LET o == Named(NextCall)
         IN /\ o \in Op /\ o.kind = NextCall.kind /\ o.sync = NextCall.sync /\ o.ret = "0" /\ o.told = <<>>
            /\ o.status = "SUCCESS" /\ o.data = "none" /\ o.wait = "none" /\ ~o.finished /\ o.done = {}
            /\ o.entries = <<>> /\ o.listed = 0
<1>1. NextCall.kind \in Kinds /\ NextCall.sync \in BOOLEAN
  BY NextCallIs
<1> QED BY <1>1, NoOpIs, ZenonT(30) DEF Named

LEMMA OneMore ==
  ASSUME CallsInvariant, Len(ops) < Len(plan), NEW o, ops' = Append(ops, o), plan' = plan, fd' = fd,
         State(ops', pdus', fh', handles')
  PROVE  CallsInvariant'
<1>1. ops \in Seq(Op) /\ ops' \in Seq(Op)
  BY DEF CallsInvariant, State
<1>2. plan \in Seq([kind : Kinds, sync : BOOLEAN, flags : SUBSET Flags, count : Nat, credits : Nat])
  BY PlansAssumption DEF CallsInvariant, Flags
<1>3. Len(ops') = Len(ops) + 1 /\ Len(ops) \in Nat /\ Len(plan) \in Nat
  BY <1>1, <1>2
<1>4. Len(ops') <= Len(plan')
  BY <1>3
<1> QED BY <1>4 DEF CallsInvariant

LEMMA CallKeeps ==
  ASSUME CallsInvariant, Call
  PROVE  CallsInvariant'
<1> DEFINE o == Named(NextCall)
<1>1. PICK fails : Start(o, fails)
  BY DEF Call
<1>2. /\ \A j \in DOMAIN ops : ~Waiting(j)
      /\ MayCall(NextCall.kind) /\ NextCall.kind \notin {"open", "read", "write", "lseek"} /\ Len(ops) < Len(plan)
  BY DEF Call, MayAct
<1> HIDE DEF o
<1>3. Blank(o) /\ o.kind = NextCall.kind
  BY <1>2, NamedIs, NextCallIs DEF Blank, Kinds, o
<1>4. Begins(o, fh)
  <2>1. <<>> # <<"0">>
    OBVIOUS
  <2> QED BY <1>2, <1>3, <2>1 DEF Begins, Blank, IsIo
<1>5. State(ops', pdus', fh', handles')
  BY <1>1, <1>2, <1>3, <1>4, StartKeeps DEF CallsInvariant
<1> QED BY <1>1, <1>2, <1>5, OneMore DEF Start

LEMMA OpenFileKeeps ==
  ASSUME CallsInvariant, OpenFile
  PROVE  CallsInvariant'
<1>1. PICK fails \in Failures("open"), exists \in BOOLEAN :
        Start([Named(NextCall) EXCEPT !.flags = NextCall.flags, !.exists = exists], fails)
  BY DEF OpenFile
<1>2. /\ \A j \in DOMAIN ops : ~Waiting(j)
      /\ NextCall.kind = "open" /\ Len(ops) < Len(plan)
  BY DEF OpenFile, MayAct
<1> DEFINE m == Named(NextCall)
           o == [m EXCEPT !.flags = NextCall.flags, !.exists = exists]
<1>3. /\ m \in Op /\ m.kind = "open" /\ m.sync = NextCall.sync /\ m.ret = "0" /\ m.told = <<>>
      /\ m.status = "SUCCESS" /\ m.data = "none" /\ m.wait = "none" /\ ~m.finished /\ m.done = {}
      /\ m.entries = <<>> /\ m.listed = 0 /\ NextCall.flags \in SUBSET Flags
  BY <1>2, NamedIs, NextCallIs
<1> HIDE DEF m
<1>4. o \in Op /\ Blank(o) /\ o.kind = "open"
  <2>1. "open" \in DOMAIN Chain
    BY DEF Chain
  <2> QED BY <1>3, <2>1 DEF Blank, Op
<1> HIDE DEF o
<1>5. Begins(o, fh)
  <2>1. <<>> # <<"0">>
    OBVIOUS
  <2> QED BY <1>4, <2>1 DEF Begins, Blank, IsIo
<1>6. MayCall(o.kind)
  BY <1>4 DEF MayCall, OnHandle
<1>7. Start(o, fails)
  BY <1>1 DEF o, m
<1>8. State(ops', pdus', fh', handles')
  BY <1>2, <1>4, <1>5, <1>6, <1>7, StartKeeps DEF CallsInvariant
<1> QED BY <1>2, <1>7, <1>8, OneMore DEF Start

LEMMA AsksNat ==
  ASSUME NEW count \in Nat, NEW credits \in Nat
  PROVE  smb2_pread_async(count, credits) \in Nat /\ smb2_pwrite_async(count, credits) \in Nat
<1>1. ASSUME NEW max \in Nat PROVE IoLength(count, max, credits) \in Nat
  <2>1. AtMost(count, max) \in Nat
    BY DEF AtMost
  <2>2. MaxCredits \in Nat
    BY SizesAssumption
  <2>3. \A a \in Nat : AtMost(a, 65536) \in Nat
    BY DEF AtMost
  <2> QED BY <2>1, <2>2, <2>3 DEF IoLength
<1> QED BY <1>1, SizesAssumption DEF smb2_pread_async, smb2_pwrite_async

LEMMA ReadOrWriteKeeps ==
  ASSUME CallsInvariant, ReadOrWrite
  PROVE  CallsInvariant'
<1> DEFINE count == NextCall.count
           credits == NextCall.credits
           length == IF NextCall.kind = "read" THEN smb2_pread_async(count, credits)
                     ELSE smb2_pwrite_async(count, credits)
           m == Named(NextCall)
           o == [m EXCEPT !.offset = fh.offset, !.count = count, !.credits = credits, !.length = length]
<1>1. PICK fails : Start(o, fails)
  BY DEF ReadOrWrite
<1>2. /\ \A j \in DOMAIN ops : ~Waiting(j)
      /\ NextCall.kind \in {"read", "write"} /\ MayCall(NextCall.kind) /\ Len(ops) < Len(plan)
  BY DEF ReadOrWrite, MayAct
<1>3. /\ m \in Op /\ m.kind = NextCall.kind /\ m.ret = "0" /\ m.told = <<>>
      /\ m.status = "SUCCESS" /\ m.data = "none" /\ m.wait = "none" /\ ~m.finished /\ m.done = {}
      /\ m.entries = <<>> /\ m.listed = 0 /\ count \in Nat /\ credits \in Nat
  BY <1>2, NamedIs, NextCallIs
<1>4. fh.offset \in Nat
  BY DEF CallsInvariant, State, Fh
<1>5. length \in Nat
  BY <1>3, AsksNat
<1>6. /\ NextCall.kind = "read" => length = smb2_pread_async(count, credits)
      /\ NextCall.kind = "write" => length = smb2_pwrite_async(count, credits)
  OBVIOUS
<1> HIDE DEF m, length, count, credits
<1>7. /\ o \in Op /\ o.kind = NextCall.kind /\ o.offset = fh.offset /\ o.count = count
      /\ o.credits = credits /\ o.length = length
  BY <1>3, <1>4, <1>5 DEF Op
<1>8. Blank(o)
  <2>1. NextCall.kind \in DOMAIN Chain
    BY <1>2 DEF Chain
  <2> QED BY <1>3, <1>7, <2>1 DEF Blank, Op
<1> HIDE DEF o
<1>9. Begins(o, fh)
  <2>1. <<>> # <<"0">>
    OBVIOUS
  <2> QED BY <1>6, <1>7, <1>8, <2>1 DEF Begins, Blank
<1>10. State(ops', pdus', fh', handles')
  BY <1>1, <1>2, <1>7, <1>8, <1>9, StartKeeps DEF CallsInvariant
<1> QED BY <1>1, <1>2, <1>10, OneMore DEF Start

LEMMA SeekKeeps ==
  ASSUME CallsInvariant, smb2_lseek
  PROVE  CallsInvariant'
<1>1. PICK whence \in {"SEEK_SET", "SEEK_CUR", "SEEK_END"}, offset \in Seeks :
        LET to == From(whence) + offset
        IN /\ fh' = [fh EXCEPT !.offset = SeekTo(whence, to)]
           /\ ops' = Append(ops, [NoOp EXCEPT !.kind = "lseek", !.offset = fh.offset,
                                              !.ret = IF to < 0 THEN "error" ELSE "0"])
  BY DEF smb2_lseek
<1> DEFINE to == From(whence) + offset
           ret == IF to < 0 THEN "error" ELSE "0"
           o == [NoOp EXCEPT !.kind = "lseek", !.offset = fh.offset, !.ret = ret]
           n == Len(ops) + 1
<1>2. /\ \A j \in DOMAIN ops : ~Waiting(j)
      /\ Len(ops) < Len(plan) /\ UNCHANGED <<plan, pdus, fd, handles>>
  BY DEF smb2_lseek, MayAct
<1>3. fh \in Fh /\ ops \in Seq(Op) /\ handles \subseteq DOMAIN ops /\ Queued(pdus, ops, fh.cb)
  BY DEF CallsInvariant, State
<1>4. From(whence) \in Nat /\ to \in Int /\ SeekTo(whence, to) \in Nat
  <2>1. From(whence) \in Nat
    BY <1>3 DEF From, Fh
  <2>2. offset \in Int
    BY DEF Seeks
  <2>3. to \in Int
    BY <2>1, <2>2
  <2> QED BY <1>3, <2>1, <2>3 DEF SeekTo, Fh
<1>5. ret \in {"0", "error"}
  OBVIOUS
<1>6. ops' = Append(ops, o) /\ fh' = [fh EXCEPT !.offset = SeekTo(whence, to)]
  BY <1>1
<1> HIDE DEF to, ret
<1>7. fh' \in Fh /\ fh'.open = fh.open /\ fh'.cb = fh.cb
  BY <1>3, <1>4, <1>6 DEF Fh
<1>8. /\ o \in Op /\ o.kind = "lseek" /\ o.told = <<>> /\ o.data = "none" /\ o.done = {}
      /\ o.wait = "none" /\ ~o.finished
  <2>1. "lseek" \in Kinds
    BY DEF Kinds
  <2>2. "none" \in Memory /\ "SUCCESS" \in CallTold
    BY DEF Memory, CallTold
  <2>3. <<>> \in Seq(Errnos) /\ <<>> \in Seq(Int) /\ {} \in SUBSET CallCommands /\ {} \in SUBSET Flags
    OBVIOUS
  <2>4. fh.offset \in Nat
    BY <1>3 DEF Fh
  <2>5. o \in Op
    BY <1>5, <2>1, <2>2, <2>3, <2>4, FreshSeek, ZenonT(30) DEF NoOp
  <2> QED BY <2>5 DEF NoOp
<1> HIDE DEF o
<1>9. Begins(o, fh) /\ ~IsIo(o)
  <2>1. <<>> # <<"0">>
    OBVIOUS
  <2> QED BY <1>8, <2>1 DEF Begins, IsIo
<1>10. Len(ops) \in Nat /\ n \notin DOMAIN ops
  BY <1>3
<1>11. Cbs(pdus, n) = {}
  BY <1>3, <1>10 DEF Queued, Owned, Places, Cbs
<1>12. Fine(o, {}, n, handles)
  <2>1. <<>> # <<"0">> /\ Len(o.told) <= 1
    BY <1>8
  <2>2. AnswersWell(o) /\ Over(o)
    BY <1>8, <2>1 DEF AnswersWell, Over
  <2>3. {} \in Left(o.kind)
    BY <1>8 DEF Left
  <2>4. OnServer(o, {}, n, handles)
    BY <1>3, <1>10 DEF OnServer
  <2> QED BY <1>8, <2>2, <2>3, <2>4 DEF Fine, IsCall
<1>13. Queued(pdus, Append(ops, o), fh'.cb)
  <2>1. \A i \in DOMAIN ops : i \in DOMAIN Append(ops, o) /\ Append(ops, o)[i].kind = ops[i].kind
    BY <1>3, <1>8, AppendIs
  <2> QED BY <1>3, <1>7, <2>1, QueuedOps
<1>14. State(ops', pdus', fh', handles')
  <2>1. State(Append(ops, o), pdus, fh', handles)
    BY <1>2, <1>7, <1>8, <1>9, <1>11, <1>12, <1>13, AppendState DEF CallsInvariant, n
  <2> QED BY <1>2, <1>6, <2>1
<1> QED BY <1>2, <1>6, <1>14, OneMore

LEMMA SendKeeps ==
  ASSUME CallsInvariant, Send
  PROVE  CallsInvariant'
<1>1. /\ ops \in Seq(Op) /\ Queued(pdus, ops, fh.cb) /\ State(ops, pdus, fh, handles)
      /\ UNCHANGED <<plan, ops, fd, handles, fh, connect>>
      /\ pdus' = [k \in DOMAIN pdus |-> [pdus[k] EXCEPT !.sent = TRUE]]
  BY DEF CallsInvariant, State, Send
<1>2. pdus \in Seq(PduType) /\ DOMAIN pdus = 1..Len(pdus) /\ Len(pdus) \in Nat
  BY <1>1 DEF Queued
<1>3. \A k \in 1..Len(pdus) : pdus[k] \in PduType
  BY <1>2, ElementOfSeq
<1>4. /\ DOMAIN pdus' = DOMAIN pdus
      /\ \A k \in DOMAIN pdus : /\ pdus'[k] \in PduType /\ pdus'[k].op = pdus[k].op
                                /\ pdus'[k].cmd = pdus[k].cmd /\ pdus'[k].cb = pdus[k].cb /\ pdus'[k].sent = TRUE
  BY <1>1, <1>2, <1>3 DEF PduType
<1>5. pdus' \in Seq(PduType)
  <2> DEFINE sent(k) == [pdus[k] EXCEPT !.sent = TRUE]
  <2>1. \A k \in 1..Len(pdus) : sent(k) \in PduType
    BY <1>3 DEF PduType
  <2>2. pdus' = [k \in 1..Len(pdus) |-> sent(k)]
    BY <1>1, <1>2
  <2> HIDE DEF sent
  <2> QED BY <1>2, <2>1, <2>2
<1>6. Queued(pdus', ops, fh.cb)
  <2>1. Owned(pdus', ops, fh.cb)
    BY <1>1, <1>4 DEF Queued, Owned
  <2>2. Whole(pdus', ops)
    BY <1>4 DEF Whole
  <2>3. Ordered(pdus')
    <3>1. ASSUME NEW j \in DOMAIN pdus, NEW k \in DOMAIN pdus, pdus'[j].op = pdus'[k].op
          PROVE  /\ pdus'[j].sent = pdus'[k].sent
                 /\ j # k => pdus'[j].cb # pdus'[k].cb
                 /\ Before(pdus'[j].cb, pdus'[k].cb) => j < k
      <4>1. pdus'[j].sent = TRUE /\ pdus'[k].sent = TRUE
        BY <1>4
      <4>2. pdus[j].op = pdus[k].op /\ pdus'[j].cb = pdus[j].cb /\ pdus'[k].cb = pdus[k].cb
        BY <1>4, <3>1
      <4>3. (j # k => pdus[j].cb # pdus[k].cb) /\ (Before(pdus[j].cb, pdus[k].cb) => j < k)
        BY <1>1, <4>2 DEF Queued, Ordered
      <4> QED BY <4>1, <4>2, <4>3
    <3> QED BY <1>4, <3>1 DEF Ordered
  <2> QED BY <1>5, <2>1, <2>2, <2>3 DEF Queued
<1>7. \A i : Cbs(pdus', i) = Cbs(pdus, i)
  BY <1>4 DEF Cbs, Places
<1>8. AllFine(ops, pdus', handles)
  BY <1>1, <1>7 DEF State, AllFine
<1>9. State(ops', pdus', fh', handles')
  BY <1>1, <1>6, <1>8 DEF State
<1> QED BY <1>1, <1>9 DEF CallsInvariant

LEMMA SameLength ==
  ASSUME CallsInvariant, plan' = plan, Len(ops') = Len(ops), State(ops', pdus', fh', handles'),
         fd' \in {"open", "failed", "closed", "destroyed", "crashed"}
  PROVE  CallsInvariant'
  BY DEF CallsInvariant

LEMMA AnswerKeeps ==
  ASSUME CallsInvariant, Reply \/ TimeOutSent
  PROVE  CallsInvariant'
<1> SUFFICES ASSUME NEW k \in DOMAIN pdus, pdus[k].sent, IsNext(k), fd = "open", NEW status \in Statuses(pdus[k]),
                    NEW got \in GotOf(pdus[k], status), NEW fits, NEW told \in {status, "IO_TIMEOUT"},
                    Answered(k, status, told, got, fits)
             PROVE  CallsInvariant'
  <2>1. CASE Reply
    <3>1. PICK k \in DOMAIN pdus :
            /\ pdus[k].sent /\ IsNext(k) /\ fd = "open"
            /\ \E status \in Statuses(pdus[k]) : \E got \in GotOf(pdus[k], status), fits \in Fits(pdus[k]) :
                 Answered(k, status, status, got, fits)
      BY <2>1 DEF Reply
    <3>2. PICK status \in Statuses(pdus[k]) : \E got \in GotOf(pdus[k], status), fits \in Fits(pdus[k]) :
            Answered(k, status, status, got, fits)
      BY <3>1
    <3>3. PICK got \in GotOf(pdus[k], status), fits \in Fits(pdus[k]) : Answered(k, status, status, got, fits)
      BY <3>2
    <3> QED BY <3>1, <3>3
  <2>2. CASE TimeOutSent
    <3>1. PICK k \in DOMAIN pdus :
            /\ pdus[k].sent /\ IsNext(k) /\ fd = "open"
            /\ \E status \in Statuses(pdus[k]) : \E got \in GotOf(pdus[k], status) :
                 Answered(k, status, "IO_TIMEOUT", got, TRUE)
      BY <2>2 DEF TimeOutSent
    <3>2. PICK status \in Statuses(pdus[k]) : \E got \in GotOf(pdus[k], status) :
            Answered(k, status, "IO_TIMEOUT", got, TRUE)
      BY <3>1
    <3>3. PICK got \in GotOf(pdus[k], status) : Answered(k, status, "IO_TIMEOUT", got, TRUE)
      BY <3>2
    <3> QED BY <3>1, <3>3
  <2> QED BY <2>1, <2>2
<1>1. State(ops', pdus', fh', handles')
  BY AnsweredKeeps DEF CallsInvariant
<1>2. plan' = plan /\ fd' \in {"open", "closed"}
  BY DEF Answered
<1>3. Len(ops') = Len(ops)
  BY DEF Answered, CallsInvariant, State
<1> QED BY <1>1, <1>2, <1>3, SameLength

(* A call the server holds a file open for is told, or is an opendir.      *)
LEMMA UnsentNotHeld ==
  ASSUME State(ops, pdus, fh, handles), NEW k \in DOMAIN pdus, ~pdus[k].sent, pdus[k].op \in handles
  PROVE  ops[pdus[k].op].kind = "opendir"
<1> DEFINE i == pdus[k].op
<1>1. i \in DOMAIN ops /\ Whole(pdus, ops) /\ Fine(ops[i], Cbs(pdus, i), i, handles)
  BY DEF State, AllFine, Queued, Owned
<1>2. "create" \in ops[i].done /\ ops[i].kind \in Creating
  BY <1>1 DEF Fine, OnServer
<1> SUFFICES ASSUME ops[i].kind # "opendir" PROVE FALSE
  OBVIOUS
<1>3. PICK j \in DOMAIN pdus : pdus[j].op = i /\ pdus[j].cb \in Firsts
  BY <1>1, <1>2 DEF Whole
<1>4. Cbs(pdus, i) \cap Firsts # {}
  BY <1>3 DEF Cbs, Places
<1> QED BY <1>1, <1>2, <1>4 DEF Fine, OnServer

LEMMA TimeOutUnsentKeeps ==
  ASSUME CallsInvariant, TimeOutUnsent
  PROVE  CallsInvariant'
<1>1. PICK k \in DOMAIN pdus : /\ ~pdus[k].sent /\ Drop(Of(pdus[k].op), "IO_TIMEOUT")
                               /\ pdus' = Kept(DOMAIN pdus \ Of(pdus[k].op))
  BY DEF TimeOutUnsent
<1> DEFINE places == Of(pdus[k].op)
<1>2. State(ops, pdus, fh, handles) /\ UNCHANGED <<plan, fd, handles>>
      /\ fd \in {"open", "failed", "closed", "destroyed", "crashed"}
  BY DEF CallsInvariant, TimeOutUnsent
<1>3. pdus \in Seq(PduType) /\ Queued(pdus, ops, fh.cb) /\ Ordered(pdus) /\ ops \in Seq(Op) /\ handles \subseteq DOMAIN ops
  BY <1>2 DEF State, Queued
<1>4. places \subseteq DOMAIN pdus /\ \A n \in DOMAIN pdus : n \in places <=> pdus[n].op = pdus[k].op
  BY DEF Of
<1>5. Drop(places, "IO_TIMEOUT") /\ pdus' = Kept(DOMAIN pdus \ places)
  BY <1>1
<1> HIDE DEF places
<1>6. GivesUp(places, "IO_TIMEOUT", handles)
  <2>1. \A n \in places : pdus[n].op \in handles => ops[pdus[n].op].kind = "opendir"
    BY <1>1, <1>2, <1>4, UnsentNotHeld
  <2> QED BY <1>4, <2>1 DEF GivesUp
<1>7. /\ ops' \in Seq(Op) /\ Len(ops') = Len(ops) /\ \A i \in DOMAIN ops : ops'[i].kind = ops[i].kind
      /\ fh' \in Fh /\ fh'.cb = fh.cb /\ Waits(ops') /\ CallCommon(ops', fh')
      /\ \A i \in DOMAIN ops : Fine(ops'[i], Without(pdus, places, i), i, handles)
  BY <1>2, <1>5, <1>6, DropKeeps
<1>8. Taken(pdus', pdus, places)
  <2>1. DOMAIN pdus \ (DOMAIN pdus \ places) = places
    BY <1>4
  <2>2. DOMAIN pdus \ places \in SUBSET DOMAIN pdus
    OBVIOUS
  <2> QED BY <1>3, <1>5, <2>1, <2>2, KeptIs
<1>9. Queued(pdus', ops, fh.cb) /\ \A i : Cbs(pdus', i) = Without(pdus, places, i)
  <2>1. TakesWhole(pdus, ops, places)
    BY <1>4 DEF TakesWhole
  <2> QED BY <1>3, <1>8, <2>1, TakenQueued
<1>10. DOMAIN ops' = DOMAIN ops
  BY <1>3, <1>7
<1>11. Queued(pdus', ops', fh'.cb)
  BY <1>7, <1>9, <1>10, QueuedOps
<1>12. AllFine(ops', pdus', handles)
  BY <1>7, <1>9, <1>10 DEF AllFine
<1>13. State(ops', pdus', fh', handles')
  BY <1>2, <1>3, <1>7, <1>10, <1>11, <1>12 DEF State
<1> QED BY <1>2, <1>7, <1>13, SameLength

LEMMA BreakKeeps ==
  ASSUME CallsInvariant, Break
  PROVE  CallsInvariant'
<1>1. /\ State(ops, pdus, fh, handles) /\ UNCHANGED <<plan, ops, pdus, fh, connect>>
      /\ fd' = "failed" /\ handles' = {}
  BY DEF CallsInvariant, Break
<1>2. AllFine(ops, pdus, {})
  BY <1>1, FineHeld DEF State, AllFine
<1>3. State(ops', pdus', fh', handles')
  BY <1>1, <1>2 DEF State
<1> QED BY <1>1, <1>3, SameLength

LEMMA DestroyKeeps ==
  ASSUME CallsInvariant, smb2_destroy_context
  PROVE  CallsInvariant'
<1> DEFINE places == DOMAIN pdus
           none == {}
<1>1. /\ State(ops, pdus, fh, handles) /\ plan' = plan /\ fd' = "destroyed" /\ handles' = none
      /\ Drop(places, "SHUTDOWN") /\ pdus' = <<>>
  BY DEF CallsInvariant, smb2_destroy_context
<1>2. ops \in Seq(Op)
  BY <1>1 DEF State
<1>3. GivesUp(places, "SHUTDOWN", none)
  BY DEF GivesUp
<1>4. /\ ops' \in Seq(Op) /\ Len(ops') = Len(ops) /\ \A i \in DOMAIN ops : ops'[i].kind = ops[i].kind
      /\ fh' \in Fh /\ fh'.cb = fh.cb /\ Waits(ops') /\ CallCommon(ops', fh')
      /\ \A i \in DOMAIN ops : Fine(ops'[i], Without(pdus, places, i), i, none)
  BY <1>1, <1>3, DropKeeps
<1>5. DOMAIN ops' = DOMAIN ops
  BY <1>2, <1>4
<1>6. Queued(pdus', ops', fh'.cb)
  <2>1. pdus' \in Seq(PduType) /\ DOMAIN pdus' = {}
    BY <1>1
  <2> QED BY <2>1 DEF Queued, Owned, Whole, Ordered
<1>7. \A i : Cbs(pdus', i) = {} /\ Without(pdus, places, i) = {}
  BY <1>1 DEF Cbs, Places, Without
<1>8. AllFine(ops', pdus', handles')
  BY <1>1, <1>4, <1>5, <1>7 DEF AllFine
<1>9. State(ops', pdus', fh', handles')
  BY <1>1, <1>4, <1>6, <1>8 DEF State
<1> QED BY <1>1, <1>4, <1>9, SameLength

LEMMA NoReplyKeeps ==
  ASSUME CallsInvariant, NoReply
  PROVE  CallsInvariant'
<1>1. State(ops', pdus', fh', handles') /\ plan' = plan /\ ops' = ops /\ fd' = "crashed"
  BY DEF CallsInvariant, NoReply
<1> QED BY <1>1, SameLength

(* A wait that ends changes the record of the call that waited, no other.  *)
Waited(o2, o) ==
  /\ o2 \in Op /\ o2.kind = o.kind /\ o2.sync = o.sync /\ o2.ret = o.ret /\ o2.told = o.told
  /\ o2.status = o.status /\ o2.data = o.data /\ o2.finished = o.finished /\ o2.done = o.done
  /\ o2.entries = o.entries /\ o2.listed = o.listed /\ o2.torn = o.torn /\ o2.got = o.got
  /\ o2.offset = o.offset /\ o2.count = o.count /\ o2.credits = o.credits /\ o2.length = o.length

LEMMA WaitedIs ==
  ASSUME NEW o \in Op, NEW wait \in {"returned", "abandoned"}, NEW memory \in Memory
  PROVE  LET w == [o EXCEPT !.wait = wait, !.cb_data = memory]
             o2 == IF w.kind \in CallerFreesPdu THEN FreePdu(w) ELSE w
         IN Waited(o2, o) /\ o2.wait = wait /\ o2.cb_data = memory
<1> DEFINE w == [o EXCEPT !.wait = wait, !.cb_data = memory]
           o2 == IF w.kind \in CallerFreesPdu THEN FreePdu(w) ELSE w
<1>1. w \in Op /\ w.wait = wait /\ w.cb_data = memory
  BY DEF Op
<1>2. Waited(w, o)
  BY <1>1 DEF Op, Waited
<1> HIDE DEF w
<1>3. FreePdu(w) \in Op /\ ButPdu(FreePdu(w), w)
  BY <1>1, FreePduIs
<1>4. Waited(FreePdu(w), o) /\ FreePdu(w).wait = wait /\ FreePdu(w).cb_data = memory
  BY <1>1, <1>2, <1>3 DEF Waited, ButPdu, Same
<1>5. Waited(o2, o) /\ o2.wait = wait /\ o2.cb_data = memory
  BY <1>1, <1>2, <1>4
<1> QED BY <1>5 DEF w

LEMMA CbDataIs ==
  ASSUME NEW o \in Op, o.kind # "lseek"
  PROVE  /\ CbDataAfter(o) \in Memory /\ CbDataAbandoned(o) \in Memory
         /\ o.kind \notin {"opendir", "open", "close", "disconnect"} => CbDataAbandoned(o) = o.cb_data
<1>1. o.kind \in DOMAIN Chain /\ o.cb_data \in Memory
  BY DEF Op, Kinds
<1>2. CbDataOf[o.kind].reply \in Memory /\ CbDataOf[o.kind].failure \in Memory \cup {"kept"}
  BY <1>1 DEF Chain, CbDataOf, After, Memory, smb2_disconnect_share, smb2_opendir, smb2_open, smb2_close, smb2_fsync,
     smb2_pread, smb2_pwrite, smb2_unlink, smb2_mkdir, smb2_fstat, smb2_stat, smb2_rename, smb2_truncate,
     smb2_ftruncate, smb2_readlink, smb2_echo
<1>3. o.kind \notin {"opendir", "open", "close", "disconnect"} => CbDataOf[o.kind].failure = "kept"
  BY <1>1 DEF Chain, CbDataOf, After, smb2_disconnect_share, smb2_opendir, smb2_open, smb2_close, smb2_fsync,
     smb2_pread, smb2_pwrite, smb2_unlink, smb2_mkdir, smb2_fstat, smb2_stat, smb2_rename, smb2_truncate,
     smb2_ftruncate, smb2_readlink, smb2_echo
<1> QED BY <1>1, <1>2, <1>3 DEF CbDataAfter, CbDataAbandoned, Memory

(* The record alone changes, and the queue.                                *)
LEMMA WaitKeeps ==
  ASSUME CallsInvariant, NEW i \in DOMAIN ops, Waiting(i), NEW o2, Waited(o2, ops[i]), o2.wait # "waiting",
         ops' = [ops EXCEPT ![i] = o2], UNCHANGED <<plan, fd, handles, fh>>,
         Queued(pdus', ops, fh.cb), Fine(o2, Cbs(pdus', i), i, handles),
         \A j : j # i => Cbs(pdus', j) = Cbs(pdus, j)
  PROVE  CallsInvariant'
<1>1. /\ ops \in Seq(Op) /\ fh \in Fh /\ handles \subseteq DOMAIN ops /\ AllFine(ops, pdus, handles)
      /\ Waits(ops) /\ CallCommon(ops, fh) /\ fd \in {"open", "failed", "closed", "destroyed", "crashed"}
  BY DEF CallsInvariant, State
<1>2. o2 \in Op /\ o2.kind = ops[i].kind
  BY DEF Waited
<1>3. /\ ops' \in Seq(Op) /\ Len(ops') = Len(ops) /\ DOMAIN ops' = DOMAIN ops /\ ops'[i] = o2
      /\ \A j \in DOMAIN ops : j # i => ops'[j] = ops[j]
  BY <1>1, <1>2, ExceptIs
<1>4. i = Len(ops)
  <2>1. i \in 1..Len(ops) /\ Len(ops) \in Nat
    BY <1>1
  <2>2. ~(i < Len(ops))
    BY <1>1 DEF Waits, Waiting
  <2> QED BY <2>1, <2>2
<1>5. Waits(ops')
  BY <1>1, <1>2, SameWaits
<1>6. CallCommon(ops', fh)
  BY <1>1, <1>2, <1>4, LikeKeeps DEF Waited
<1>7. Queued(pdus', ops', fh.cb)
  BY <1>1, <1>2, SameKinds
<1>8. AllFine(ops', pdus', handles)
  <2> SUFFICES ASSUME NEW j \in DOMAIN ops PROVE Fine(ops'[j], Cbs(pdus', j), j, handles)
    BY <1>3 DEF AllFine
  <2>1. CASE j = i
    BY <1>3, <2>1
  <2>2. CASE j # i
    BY <1>1, <1>3, <2>2 DEF AllFine
  <2> QED BY <2>1, <2>2
<1>9. State(ops', pdus', fh', handles')
  BY <1>1, <1>3, <1>5, <1>6, <1>7, <1>8 DEF State
<1> QED BY <1>1, <1>3, <1>9, SameLength

LEMMA ReturnKeeps ==
  ASSUME CallsInvariant, NEW i \in DOMAIN ops, Return(i)
  PROVE  CallsInvariant'
<1> DEFINE w == [ops[i] EXCEPT !.wait = "returned", !.cb_data = CbDataAfter(ops[i])]
           o2 == IF w.kind \in CallerFreesPdu THEN FreePdu(w) ELSE w
           left == Cbs(pdus, i)
<1>1. /\ ops \in Seq(Op) /\ Queued(pdus, ops, fh.cb) /\ Waits(ops) /\ Fine(ops[i], left, i, handles)
  BY DEF CallsInvariant, State, AllFine
<1>2. Waiting(i) /\ IsFinished(i) /\ ops' = [ops EXCEPT ![i] = o2] /\ UNCHANGED <<plan, pdus, fd, handles, fh>>
  BY DEF Return
<1>3. ops[i] \in Op /\ ops[i].kind # "lseek" /\ ops[i].wait = "waiting"
  <2>1. ops[i] \in Op
    BY <1>1 DEF Fine, IsCall
  <2> QED BY <1>1, <1>2, <2>1 DEF Waits, Waiting
<1>4. Waited(o2, ops[i]) /\ o2.wait = "returned" /\ o2.cb_data = CbDataAfter(ops[i])
  BY <1>3, CbDataIs, WaitedIs
<1>5. ops[i].kind # "disconnect" => left = {}
  BY <1>1, <1>2 DEF IsFinished, Fine, Going
<1> HIDE DEF o2, w, left
<1>6. Fine(o2, left, i, handles)
  <2>1. IsCall(o2, left) /\ AnswersWell(o2) /\ OnServer(o2, left, i, handles)
    BY <1>1, <1>4 DEF Fine, IsCall, AnswersWell, OnServer, Listed, Waited
  <2>2. CASE left = {}
    <3>1. Over(ops[i])
      BY <1>1, <2>2 DEF Fine
    <3>2. Over(o2)
      BY <1>3, <1>4, <3>1 DEF Over, Waited
    <3> QED BY <2>1, <2>2, <3>2 DEF Fine
  <2>3. CASE left # {}
    <3>1. Going(ops[i], left) /\ ops[i].kind = "disconnect"
      BY <1>1, <1>5, <2>3 DEF Fine
    <3>2. Going(o2, left)
      BY <1>4, <3>1 DEF Going, Waited, ChainKept
    <3> QED BY <2>1, <2>3, <3>2 DEF Fine
  <2> QED BY <2>2, <2>3
<1>7. Queued(pdus', ops, fh.cb) /\ Fine(o2, Cbs(pdus', i), i, handles) /\ \A j : Cbs(pdus', j) = Cbs(pdus, j)
  BY <1>1, <1>2, <1>6 DEF left
<1> QED BY <1>2, <1>4, <1>7, WaitKeeps

LEMMA AbandonKeeps ==
  ASSUME CallsInvariant, NEW i \in DOMAIN ops, Abandon(i)
  PROVE  CallsInvariant'
<1> DEFINE w == [ops[i] EXCEPT !.wait = "abandoned", !.cb_data = CbDataAbandoned(ops[i])]
           o2 == IF w.kind \in CallerFreesPdu THEN FreePdu(w) ELSE w
           left == Cbs(pdus, i)
           places == {k \in DOMAIN pdus : ~(pdus[k].op = i /\ pdus[k].cb \in {"open_cb", "opendir_cb"})}
           gone == {k \in DOMAIN pdus : pdus[k].op = i /\ pdus[k].cb \in {"open_cb", "opendir_cb"}}
           rest == {cb \in left : cb \notin {"open_cb", "opendir_cb"}}
<1>1. /\ ops \in Seq(Op) /\ Queued(pdus, ops, fh.cb) /\ Waits(ops) /\ Fine(ops[i], left, i, handles)
      /\ pdus \in Seq(PduType)
  BY DEF CallsInvariant, State, AllFine, Queued
<1>2. /\ Waiting(i) /\ ~IsFinished(i) /\ ops' = [ops EXCEPT ![i] = o2] /\ UNCHANGED <<plan, fd, handles, fh>>
      /\ pdus' = Kept(places)
  BY DEF Abandon
<1>3. ops[i] \in Op /\ ops[i].kind # "lseek" /\ ops[i].wait = "waiting"
  <2>1. ops[i] \in Op
    BY <1>1 DEF Fine, IsCall
  <2> QED BY <1>1, <1>2, <2>1 DEF Waits, Waiting
<1>4. Waited(o2, ops[i]) /\ o2.wait = "abandoned" /\ o2.cb_data = CbDataAbandoned(ops[i])
  BY <1>3, CbDataIs, WaitedIs
<1>5. /\ Without(pdus, gone, i) = rest
      /\ \A j : j # i => Without(pdus, gone, j) = Cbs(pdus, j)
  BY DEF Without, Places, Cbs
<1>6. {"open_cb", "opendir_cb"} \cap left # {} =>
        rest = {} /\ ops[i].kind \in CallerFreesPdu /\ i \notin handles
  <2> SUFFICES ASSUME NEW cb \in {"open_cb", "opendir_cb"}, cb \in left
               PROVE  rest = {} /\ ops[i].kind \in CallerFreesPdu /\ i \notin handles
    OBVIOUS
  <2>1. IsFirst(cb, left)
    BY DEF IsFirst, Before
  <2>2. left = Only(cb) /\ ops[i].kind \in {"open", "opendir"}
    BY <1>1, <2>1, CallOf DEF Fine
  <2>3. left \cap Firsts # {}
    BY DEF Firsts
  <2>4. i \notin handles
    BY <1>1, <2>3 DEF Fine, OnServer
  <2> QED BY <2>2, <2>4 DEF Only, CallerFreesPdu
<1>7. {"open_cb", "opendir_cb"} \cap left = {} => rest = left
  OBVIOUS
<1>8. Taken(pdus', pdus, gone)
  <2>1. DOMAIN pdus \ places = gone /\ places \in SUBSET DOMAIN pdus
    OBVIOUS
  <2> HIDE DEF places, gone
  <2> QED BY <1>1, <1>2, <2>1, KeptIs
<1>9. TakesWhole(pdus, ops, gone)
  <2> SUFFICES ASSUME NEW k \in DOMAIN pdus, NEW n \in DOMAIN pdus, k \in gone, n \notin gone, pdus[n].op = pdus[k].op
               PROVE  FALSE
    BY DEF TakesWhole
  <2>1. pdus[k].cb \in left /\ pdus[k].cb \in {"open_cb", "opendir_cb"} /\ pdus[n].cb \in left
        /\ pdus[n].cb \notin {"open_cb", "opendir_cb"}
    BY DEF Cbs, Places
  <2> QED BY <1>6, <2>1
<1> HIDE DEF o2, w, places, gone
<1>10. Queued(pdus', ops, fh.cb) /\ \A j : Cbs(pdus', j) = Without(pdus, gone, j)
  BY <1>1, <1>8, <1>9, TakenQueued
<1>11. Fine(o2, rest, i, handles)
  <2>1. AnswersWell(o2) /\ o2 \in Op
    BY <1>1, <1>4 DEF Fine, AnswersWell, Waited
  <2>2. CASE left = {}
    <3>1. rest = {} /\ left \in Left(ops[i].kind) /\ Over(ops[i]) /\ OnServer(ops[i], left, i, handles)
      BY <1>1, <2>2 DEF Fine, IsCall
    <3> HIDE DEF rest, left
    <3>2. Over(o2)
      BY <1>3, <1>4, <3>1 DEF Over, Waited
    <3>3. OnServer(o2, rest, i, handles)
      BY <1>4, <2>2, <3>1 DEF OnServer, Listed, Waited
    <3> QED BY <1>4, <2>1, <2>2, <3>1, <3>2, <3>3 DEF Fine, IsCall, Waited
  <2>3. CASE left # {} /\ {"open_cb", "opendir_cb"} \cap left # {}
    <3>1. rest = {} /\ ops[i].kind \in CallerFreesPdu /\ i \notin handles /\ Going(ops[i], left)
      BY <1>1, <1>6, <2>3 DEF Fine
    <3> HIDE DEF rest, left
    <3>2. Over(o2)
      BY <1>4, <3>1 DEF Over, Waited, Going
    <3>3. OnServer(o2, rest, i, handles)
      BY <3>1 DEF OnServer
    <3>4. rest \in Left(o2.kind)
      BY <3>1 DEF Left, OfThree
    <3> QED BY <2>1, <3>1, <3>2, <3>3, <3>4 DEF Fine, IsCall
  <2>4. CASE left # {} /\ {"open_cb", "opendir_cb"} \cap left = {}
    <3>1. rest = left /\ Going(ops[i], left) /\ left \in Left(ops[i].kind) /\ OnServer(ops[i], left, i, handles)
      BY <1>1, <1>7, <2>4 DEF Fine, IsCall
    <3>2. ops[i].kind # "open"
      BY <2>4, <3>1 DEF Left
    <3> HIDE DEF rest, left
    <3>3. o2.sync /\ o2.kind # "disconnect" /\ o2.cb_data # "live" => o2.kind \in {"close", "opendir"}
      BY <1>3, <1>4, <3>1, <3>2, CbDataIs DEF Going, Waited
    <3>4. Going(o2, left)
      BY <1>4, <3>1, <3>3 DEF Going, Waited, ChainKept
    <3>5. OnServer(o2, left, i, handles)
      BY <1>4, <3>1 DEF OnServer, Listed, Waited
    <3> QED BY <1>4, <2>1, <2>4, <3>1, <3>4, <3>5 DEF Fine, IsCall, Waited
  <2> QED BY <2>2, <2>3, <2>4
<1> HIDE DEF rest
<1>12. Fine(o2, Cbs(pdus', i), i, handles) /\ \A j : j # i => Cbs(pdus', j) = Cbs(pdus, j)
  BY <1>5, <1>10, <1>11
<1> QED BY <1>2, <1>4, <1>10, <1>12, WaitKeeps

LEMMA InitHolds ==
  ASSUME Init
  PROVE  CallsInvariant
<1>1. plan \in Plans /\ ops = <<>> /\ pdus = <<>> /\ fd = "open" /\ handles = {}
  BY DEF Init
<1>2. fh \in Fh
  BY DEF Init, Fh
<1>3. ops \in Seq(Op) /\ DOMAIN ops = {} /\ Len(ops) = 0
  BY <1>1
<1>4. Len(ops) <= Len(plan)
  <2>1. plan \in Seq([kind : Kinds, sync : BOOLEAN, flags : SUBSET Flags, count : Nat, credits : Nat])
    BY <1>1, PlansAssumption DEF Flags
  <2>2. Len(plan) \in Nat
    BY <2>1
  <2> QED BY <1>3, <2>2
<1>5. Queued(pdus, ops, fh.cb)
  <2>1. pdus \in Seq(PduType) /\ DOMAIN pdus = {}
    BY <1>1
  <2> QED BY <2>1 DEF Queued, Owned, Whole, Ordered
<1>6. AllFine(ops, pdus, handles) /\ Waits(ops) /\ CallCommon(ops, fh)
  BY <1>3 DEF AllFine, Waits, CallCommon, Opens, InTurn, AtEnd, Asks
<1> QED BY <1>1, <1>2, <1>3, <1>4, <1>5, <1>6 DEF CallsInvariant, State

LEMMA NextKeeps ==
  ASSUME CallsInvariant, [Next]_vars
  PROVE  CallsInvariant'
<1>1. CASE Call
  BY <1>1, CallKeeps
<1>2. CASE OpenFile
  BY <1>2, OpenFileKeeps
<1>3. CASE ReadOrWrite
  BY <1>3, ReadOrWriteKeeps
<1>4. CASE smb2_lseek
  BY <1>4, SeekKeeps
<1>5. CASE Send
  BY <1>5, SendKeeps
<1>6. CASE Reply \/ TimeOutSent
  BY <1>6, AnswerKeeps
<1>7. CASE TimeOutUnsent
  BY <1>7, TimeOutUnsentKeeps
<1>8. CASE Break
  BY <1>8, BreakKeeps
<1>9. CASE smb2_destroy_context
  BY <1>9, DestroyKeeps
<1>10. CASE NoReply
  BY <1>10, NoReplyKeeps
<1>11. CASE Wait
  BY <1>11, ReturnKeeps, AbandonKeeps DEF Wait
<1>12. CASE UNCHANGED vars
  BY <1>12 DEF vars, CallsInvariant
<1> QED BY <1>1, <1>2, <1>3, <1>4, <1>5, <1>6, <1>7, <1>8, <1>9, <1>10, <1>11, <1>12 DEF Next

(***************************************************************************)
(* What the invariant says of one call.                                    *)
(***************************************************************************)
LEMMA CallIs ==
  ASSUME CallsInvariant, NEW i \in DOMAIN ops
  PROVE  /\ ops[i] \in Op /\ AnswersWell(ops[i]) /\ OnServer(ops[i], Cbs(pdus, i), i, handles)
         /\ Pending(i) => Going(ops[i], Cbs(pdus, i))
         /\ ~Pending(i) => Over(ops[i]) /\ Cbs(pdus, i) = {}
<1>1. Fine(ops[i], Cbs(pdus, i), i, handles)
  BY DEF CallsInvariant, State, AllFine
<1>2. Pending(i) <=> Cbs(pdus, i) # {}
  BY DEF Pending, Cbs, Places
<1> QED BY <1>1, <1>2 DEF Fine, IsCall

LEMMA TypeHolds ==
  ASSUME CallsInvariant
  PROVE  TypeOK
<1>1. ASSUME NEW i \in DOMAIN ops
      PROVE  /\ ops[i].ret \in {"0", "error"} /\ ops[i].data \in Memory /\ ops[i].cb_data \in Memory
             /\ ops[i].wait \in {"none", "waiting", "returned", "abandoned"}
             /\ ops[i].pdu \in {"none", "live", "freed", "twice"}
  BY <1>1, CallIs DEF Op
<1>2. ASSUME NEW k \in DOMAIN pdus
      PROVE  pdus[k].op \in DOMAIN ops /\ pdus[k].sent \in BOOLEAN
  <2>1. pdus \in Seq(PduType) /\ pdus[k].op \in DOMAIN ops
    BY DEF CallsInvariant, State, Queued, Owned
  <2>2. pdus[k] \in PduType
    BY <2>1
  <2> QED BY <2>1, <2>2 DEF PduType
<1>3. fh.open \in BOOLEAN /\ fh.offset \in Nat /\ handles \subseteq DOMAIN ops
  BY DEF CallsInvariant, State, Fh
<1> QED BY <1>1, <1>2, <1>3 DEF CallsInvariant, TypeOK

LEMMA TruthHolds ==
  ASSUME CallsInvariant
  PROVE  ToldTheTruth
<1>1. ToldOnce
  <2> SUFFICES ASSUME NEW i \in DOMAIN ops
               PROVE  /\ Len(ops[i].told) <= 1
                      /\ ops[i].ret = "error" /\ ops[i].told # <<>> =>
                           ops[i].kind \in {"stat", "truncate", "rename"} /\ ops[i].told = <<"ENOMEM">>
    BY DEF ToldOnce
  <2> QED BY CallIs DEF AnswersWell, Over, Going
<1>2. OkIsDone
  BY CallIs DEF OkIsDone, AnswersWell
<1>3. DirectoryIsWhole
  BY CallIs DEF DirectoryIsWhole, AnswersWell, Listing
<1> QED BY <1>1, <1>2, <1>3, TypeHolds DEF ToldTheTruth

LEMMA ClosedHolds ==
  ASSUME CallsInvariant
  PROVE  NothingLeftOpen
<1> SUFFICES ASSUME NEW i \in handles, ~Pending(i)
             PROVE  \/ ops[i].kind = "open" /\ ops[i].told = <<"0">>
                    \/ ops[i].kind = "opendir" /\ ops[i].told # <<>> /\ ops[i].told # <<"0">>
                    \/ ops[i].kind = "open" /\ ops[i].told = <<"ETIMEDOUT">>
  BY DEF NothingLeftOpen
<1>1. i \in DOMAIN ops
  BY DEF CallsInvariant, State
<1> QED BY <1>1, CallIs DEF OnServer

LEMMA MemoryHolds ==
  ASSUME CallsInvariant
  PROVE  MemoryIsKept
<1>1. DataIsFreed
  <2> SUFFICES ASSUME NEW i \in DOMAIN ops, ops[i].data = "live", ~Pending(i)
               PROVE  \/ ops[i].ret = "error" /\ ops[i].kind \in {"mkdir", "unlink", "read", "write", "ftruncate"}
                      \/ ops[i].torn
                      \/ ops[i].kind = "open" /\ fh.open
                      \/ ops[i].kind \in CallerFreesPdu /\ ops[i].wait = "abandoned"
                      \/ ops[i].kind = "open" /\ \E j \in DOMAIN ops : ops[j].kind = "close"
    BY DEF DataIsFreed
  <2>1. Over(ops[i]) /\ Opens(ops, fh)
    BY CallIs DEF CallsInvariant, State, CallCommon
  <2> QED BY <2>1 DEF Over, Opens, StopsEarly
<1>2. CbDataIsThere
  BY CallIs DEF CbDataIsThere, Going
<1> QED BY <1>1, <1>2 DEF MemoryIsKept

(***************************************************************************)
(* How much a read or write asks for.                                      *)
(***************************************************************************)
LEMMA FitsIn ==
  ASSUME NEW count \in Nat \ {0}, NEW credits \in Nat \ {0}, NEW max \in Nat \ {0}, MaxCredits > 0
  PROVE  IoLength(count, max, credits) \in 1..AtMost(count, max) /\ Pages(IoLength(count, max, credits)) <= credits
<1> DEFINE most == AtMost(count, max)
           kept == IF Pages(most) > MaxCredits THEN MaxCredits * 65536 ELSE most
           length == IoLength(count, max, credits)
<1>1. most \in Nat \ {0} /\ MaxCredits \in Nat
  BY SizesAssumption DEF AtMost
<1>2. CASE ~Multi
  <2>1. length = AtMost(most, 65536)
    BY <1>2 DEF IoLength
  <2> HIDE DEF most, length
  <2>2. length \in 1..most /\ length <= 65536
    BY <1>1, <2>1 DEF AtMost
  <2>3. Pages(length) <= 1
    BY <2>2 DEF Pages
  <2>4. Pages(length) <= credits
    BY <1>1, <2>2, <2>3 DEF Pages
  <2> QED BY <2>2, <2>4 DEF most, length
<1>3. CASE Multi
  <2>1. kept \in 1..most
    <3> HIDE DEF most
    <3> QED BY <1>1 DEF Pages
  <2>2. length = IF Pages(kept) > credits THEN credits * 65536 ELSE kept
    BY <1>3 DEF IoLength
  <2> HIDE DEF most, kept, length
  <2>3. length \in 1..most /\ Pages(length) <= credits
    BY <1>1, <2>1, <2>2 DEF Pages
  <2> QED BY <2>3 DEF most, length
<1> QED BY <1>2, <1>3

LEMMA AskedHolds ==
  ASSUME CallsInvariant, MaxRead > 0, MaxWrite > 0, MaxCredits > 0
  PROVE  AsAsked
<1>1. OpensAsAsked
  <2> SUFFICES ASSUME NEW i \in DOMAIN ops
               PROVE  LET o == ops[i]
                      IN /\ Outcome(Disposition(o.flags), o.exists) = Posix(o.flags, o.exists)
                         /\ ("read" \in DesiredAccess(o.flags)) = ("O_WRONLY" \notin o.flags)
    BY DEF OpensAsAsked
  <2> DEFINE flags == ops[i].flags
             exists == ops[i].exists
  <2>1. exists \in BOOLEAN
    BY CallIs DEF Op
  <2> HIDE DEF flags, exists
  <2>2. Outcome(Disposition(flags), exists) = Posix(flags, exists)
    <3>1. CASE "O_CREAT" \in flags /\ "O_EXCL" \in flags
      BY <2>1, <3>1 DEF Outcome, Disposition, Posix
    <3>2. CASE "O_CREAT" \in flags /\ "O_EXCL" \notin flags
      BY <2>1, <3>2 DEF Outcome, Disposition, Posix
    <3>3. CASE "O_CREAT" \notin flags
      BY <2>1, <3>3 DEF Outcome, Disposition, Posix
    <3> QED BY <3>1, <3>2, <3>3
  <2>3. ("read" \in DesiredAccess(flags)) = ("O_WRONLY" \notin flags)
    BY DEF DesiredAccess
  <2> QED BY <2>2, <2>3 DEF flags, exists
<1>2. ReadsFit
  <2> SUFFICES ASSUME NEW i \in DOMAIN ops, ops[i].kind \in {"read", "write"}, ops[i].count > 0, ops[i].credits > 0
               PROVE  /\ ops[i].length \in 1..AtMost(ops[i].count, IF ops[i].kind = "read" THEN MaxRead ELSE MaxWrite)
                      /\ Pages(ops[i].length) <= ops[i].credits
    BY DEF ReadsFit
  <2> DEFINE max == IF ops[i].kind = "read" THEN MaxRead ELSE MaxWrite
  <2>1. ops[i].length = IoLength(ops[i].count, max, ops[i].credits)
    BY DEF CallsInvariant, State, CallCommon, Asks, smb2_pread_async, smb2_pwrite_async
  <2>2. ops[i].count \in Nat \ {0} /\ ops[i].credits \in Nat \ {0}
    BY CallIs DEF Op
  <2>3. max \in Nat \ {0}
    BY SizesAssumption
  <2> HIDE DEF max
  <2>4. /\ ops[i].length \in 1..AtMost(ops[i].count, max)
        /\ Pages(ops[i].length) <= ops[i].credits
    BY <2>1, <2>2, <2>3, FitsIn
  <2> QED BY <2>4 DEF max
<1>3. ReadsFollow
  <2>1. InTurn(ops)
    BY DEF CallsInvariant, State, CallCommon
  <2>2. \A j : OneByOne(j) <=> Ended(ops, j)
    BY DEF OneByOne, Ended
  <2> QED BY <2>1, <2>2 DEF ReadsFollow, InTurn
<1> QED BY <1>1, <1>2, <1>3 DEF AsAsked

-----------------------------------------------------------------------------
(* Each call is as far as its PDUs are.                                    *)
THEOREM CallsAreAsTheirPdus == Spec => []CallsInvariant
<1>1. Init => CallsInvariant
  BY InitHolds
<1>2. CallsInvariant /\ [Next]_vars => CallsInvariant'
  BY NextKeeps
<1> QED BY <1>1, <1>2, PTL DEF Spec

(* What the application is told is true: a call is told once, of success   *)
(* only when the server has done what was asked, and a directory is whole. *)
THEOREM CallsTellTheTruth == Spec => []ToldTheTruth
<1>1. CallsInvariant => ToldTheTruth
  BY TruthHolds
<1> QED BY <1>1, CallsAreAsTheirPdus, PTL

(* No file is left open on the server for a call that is over, but for the *)
(* listing that fails and the open that is answered too late.              *)
THEOREM CallsCloseWhatTheyOpen == Spec => []NothingLeftOpen
<1>1. CallsInvariant => NothingLeftOpen
  BY ClosedHolds
<1> QED BY <1>1, CallsAreAsTheirPdus, PTL

(* What a call allocates is there until its last callback and freed after. *)
THEOREM CallsKeepTheirMemory == Spec => []MemoryIsKept
<1>1. CallsInvariant => MemoryIsKept
  BY MemoryHolds
<1> QED BY <1>1, CallsAreAsTheirPdus, PTL

(* A file is opened as its flags say, and a read or write asks for what    *)
(* fits, at the end of the one before: of a server that negotiates sizes   *)
(* above zero.                                                             *)
THEOREM CallsAskForWhatTheyAreAsked ==
  ASSUME MaxRead > 0, MaxWrite > 0, MaxCredits > 0
  PROVE  Spec => []AsAsked
<1>1. CallsInvariant => AsAsked
  BY AskedHolds
<1> QED BY <1>1, CallsAreAsTheirPdus, PTL

-----------------------------------------------------------------------------
(***************************************************************************)
(* Connecting: the theorems of Smb2Login.                                  *)
(***************************************************************************)
Fields == {"open", "version", "seal", "sign", "dialect", "hash", "user", "password", "domain", "server",
           "session_id", "session_key", "signing_key", "serverin_key", "serverout_key", "auth", "next",
           "told", "c_data", "broken"}
IsContext(smb2) == DOMAIN smb2 = Fields

(* A context as far as the caller's connection is concerned.               *)
LoginSame(s2, smb2) == IsContext(s2) /\ s2.told = smb2.told /\ s2.c_data = smb2.c_data

(* What a callback of the client leaves of the connection: it waits for    *)
(* the answer to what it sent, or it has told the caller and freed all.    *)
LoginWaits(s2, smb2) == LoginSame(s2, smb2) /\ s2.next \in Commands
MayStayOpen(s2, status) ==
  status \in {"success", "wrong signature"} \/ (status = "no memory" /\ s2.hash = <<>>)
Ends(s2, smb2) ==
  /\ IsContext(s2) /\ s2.c_data = "freed" /\ s2.next = "none"
  /\ \E status : s2.told = Append(smb2.told, status) /\ (s2.open => MayStayOpen(s2, status))
Goes(d, smb2) == LoginWaits(d.smb2, smb2) \/ Ends(d.smb2, smb2)

LEMMA ToldGoes ==
  ASSUME NEW smb2, NEW s2, NEW status, LoginSame(s2, smb2), s2.open => MayStayOpen(s2, status)
  PROVE  Goes(Told(s2, status), smb2)
  BY DEF Goes, LoginSame, IsContext, Fields, Ends, Told, Does, free_c_data, MayStayOpen

LEMMA FailsGoes ==
  ASSUME NEW smb2, NEW s2, NEW status, LoginSame(s2, smb2)
  PROVE  Goes(Fails(s2, status), smb2)
<1>1. LoginSame(smb2_close_context(s2), smb2) /\ ~smb2_close_context(s2).open
  BY DEF LoginSame, IsContext, Fields, smb2_close_context
<1> QED BY <1>1, ToldGoes DEF Fails

LEMMA SendsWaits ==
  ASSUME NEW smb2, NEW s2, NEW m, NEW waits \in Commands, LoginSame(s2, smb2)
  PROVE  LoginWaits(Sends(s2, m, waits).smb2, smb2) /\ Sends(s2, m, waits) = [smb2 |-> Sends(s2, m, waits).smb2, sends |-> Sends(s2, m, waits).sends]
  BY DEF LoginWaits, LoginSame, IsContext, Fields, Sends, Does

LEMMA HashedWaits ==
  ASSUME NEW smb2, NEW s2, NEW said, LoginWaits(s2, smb2)
  PROVE  LoginWaits(smb3_update_preauth_hash(s2, said), smb2)
  BY DEF LoginWaits, LoginSame, IsContext, Fields, smb3_update_preauth_hash

LEMMA HashedSame ==
  ASSUME NEW smb2, NEW s2, NEW said, LoginSame(s2, smb2)
  PROVE  LoginSame(smb3_update_preauth_hash(s2, said), smb2)
  BY DEF LoginSame, IsContext, Fields, smb3_update_preauth_hash

LEMMA KeyedSame ==
  ASSUME NEW smb2, NEW s2, NEW key, LoginSame(s2, smb2)
  PROVE  LoginSame(smb2_create_signing_key([s2 EXCEPT !.session_key = key]), smb2)
<1> DEFINE k == [s2 EXCEPT !.session_key = key]
<1>1. LoginSame(k, smb2)
  BY DEF LoginSame, IsContext, Fields
<1> HIDE DEF k
<1>2. LoginSame(smb2_create_signing_key(k), smb2)
  <2>1. ASSUME NEW a, NEW b, NEW c PROVE LoginSame([k EXCEPT !.signing_key = a, !.serverin_key = b, !.serverout_key = c], smb2)
    BY <1>1 DEF LoginSame, IsContext, Fields
  <2>2. ASSUME NEW a PROVE LoginSame([k EXCEPT !.signing_key = a], smb2)
    BY <1>1 DEF LoginSame, IsContext, Fields
  <2> QED BY <2>1, <2>2 DEF smb2_create_signing_key
<1> QED BY <1>2 DEF k

LEMMA SetupGoes ==
  ASSUME NEW smb2, NEW s2, NEW blob, NEW oom, LoginSame(s2, smb2)
  PROVE  Goes(send_session_setup_request(s2, blob, oom), smb2)
<1> DEFINE made == ntlmssp_generate_blob(<<>>, s2, s2.auth[1], blob, FALSE)
           with == [s2 EXCEPT !.auth = <<made.auth>>, !.domain = made.smb2.domain]
           m == Message("session_setup", "success", [blob |-> made.blob])
           said == IF blob = NoBlob THEN "setup 1" ELSE "setup 2"
           sent == Sends(with, m, "session_setup")
<1>1. LoginSame(with, smb2)
  <2> HIDE DEF made
  <2> QED BY DEF LoginSame, IsContext, Fields
<1> HIDE DEF with, m, said
<1>2. LoginWaits(sent.smb2, smb2) /\ sent = [smb2 |-> sent.smb2, sends |-> sent.sends]
  BY <1>1, SendsWaits DEF Commands
<1>3. Goes([sent EXCEPT !.smb2 = smb3_update_preauth_hash(@, said)], smb2)
  <2>1. LoginWaits(smb3_update_preauth_hash(sent.smb2, said), smb2)
    BY <1>2, HashedWaits
  <2>2. [sent EXCEPT !.smb2 = smb3_update_preauth_hash(@, said)].smb2 = smb3_update_preauth_hash(sent.smb2, said)
    BY <1>2
  <2> QED BY <2>1, <2>2 DEF Goes
<1>4. Goes(Fails(with, "refused"), smb2) /\ Goes(Fails(with, "no memory"), smb2)
  BY <1>1, FailsGoes
<1>5. send_session_setup_request(s2, blob, oom)
        = IF ~made.ok THEN Fails(with, "refused")
          ELSE IF oom THEN Fails(with, "no memory")
          ELSE [sent EXCEPT !.smb2 = smb3_update_preauth_hash(@, said)]
  BY DEF send_session_setup_request, SetupMade, with, m, said
<1> HIDE DEF sent, made
<1> QED BY <1>3, <1>4, <1>5

LEMMA TreeGoes ==
  ASSUME NEW smb2, IsContext(smb2), NEW status
  PROVE  Goes(tree_connect_cb(smb2, status), smb2)
<1>1. LoginSame(smb2, smb2)
  BY DEF LoginSame
<1> QED BY <1>1, FailsGoes, ToldGoes DEF tree_connect_cb, MayStayOpen

LEMMA SessionGoes ==
  ASSUME NEW smb2, IsContext(smb2), NEW m, NEW oom
  PROVE  Goes(session_setup_cb(smb2, m, oom), smb2)
<1> DEFINE key == ntlmssp_get_session_key(smb2.auth[1])
           keyed == smb2.sign \/ smb2.seal \/ smb2.dialect = SMB2_VERSION_0311
           keys == smb2_create_signing_key([smb2 EXCEPT !.session_key = <<key>>])
           ready == IF keyed THEN keys ELSE smb2
           heard == smb3_update_preauth_hash(smb2, "setup 1 answered")
           tree == Message("tree_connect", "success", [blob |-> NoBlob])
<1>1. LoginSame(smb2, smb2) /\ LoginSame(heard, smb2)
  BY HashedSame DEF LoginSame
<1>2. LoginSame(keys, smb2) /\ LoginSame(ready, smb2)
  BY <1>1, KeyedSame
<1>3. session_setup_cb(smb2, m, oom)
        = IF m.status = "more_processing" THEN send_session_setup_request(heard, m.body.blob, oom)
          ELSE IF m.status # "success" THEN Fails(smb2, m.status)
          ELSE IF keyed /\ smb2.sign /\ key = Zero THEN Fails(smb2, "no key")
          ELSE IF keyed /\ WrongSignature(keys, m) THEN Told(keys, "wrong signature")
          ELSE IF conf.client.passthrough THEN Told(ready, "success")
          ELSE IF oom THEN Fails(ready, "no memory")
          ELSE Sends(ready, tree, "tree_connect")
  BY DEF session_setup_cb
<1> HIDE DEF key, keyed, keys, ready, heard, tree
<1>4. Goes(send_session_setup_request(heard, m.body.blob, oom), smb2)
  BY <1>1, SetupGoes
<1>5. Goes(Fails(smb2, m.status), smb2) /\ Goes(Fails(smb2, "no key"), smb2) /\ Goes(Fails(ready, "no memory"), smb2)
  BY <1>1, <1>2, FailsGoes
<1>6. Goes(Told(keys, "wrong signature"), smb2) /\ Goes(Told(ready, "success"), smb2)
  BY <1>2, ToldGoes DEF MayStayOpen
<1>7. Goes(Sends(ready, tree, "tree_connect"), smb2)
  BY <1>2, SendsWaits DEF Goes, Commands
<1> QED BY <1>3, <1>4, <1>5, <1>6, <1>7

LEMMA NegotiateGoes ==
  ASSUME NEW smb2, IsContext(smb2), NEW m, NEW oom
  PROVE  Goes(negotiate_cb(smb2, m, oom), smb2)
<1> DEFINE heard == smb3_update_preauth_hash(smb2, "negotiate answered")
           spoken == [heard EXCEPT !.dialect = m.body.dialect]
           agreed == [spoken EXCEPT !.sign = (@ \/ "required" \in m.body.mode) /\ ~smb2.seal]
           auth == ntlmssp_init_context(smb2.user, smb2.password, smb2.domain, "workstation")
           begun == [agreed EXCEPT !.auth = <<[auth EXCEPT !.wrap = conf.client.wraps]>>]
<1>1. negotiate_cb(smb2, m, oom)
        = IF m.status # "success" THEN Fails(heard, m.status)
          ELSE IF smb2.seal /\ m.body.dialect \in {SMB2_VERSION_0300, SMB2_VERSION_0302} /\ ~m.body.encrypts
          THEN Fails(spoken, "no encryption")
          ELSE IF smb2.sign /\ "enabled" \notin m.body.mode THEN Fails(spoken, "no signing")
          ELSE send_session_setup_request(begun, NoBlob, oom)
  BY DEF negotiate_cb
<1>2. LoginSame(heard, smb2)
  BY HashedSame DEF LoginSame
<1> HIDE DEF heard, auth
<1>3. LoginSame(spoken, smb2)
  BY <1>2 DEF LoginSame, IsContext, Fields
<1> HIDE DEF spoken
<1>4. LoginSame(agreed, smb2)
  BY <1>3 DEF LoginSame, IsContext, Fields
<1> HIDE DEF agreed
<1>5. LoginSame(begun, smb2)
  BY <1>4 DEF LoginSame, IsContext, Fields
<1> HIDE DEF begun
<1> QED BY <1>1, <1>2, <1>3, <1>5, FailsGoes, SetupGoes

LEMMA ConnectGoes ==
  ASSUME NEW smb2, IsContext(smb2), NEW connected, NEW oom, ~connected => ~smb2.open
  PROVE  Goes(connect_cb(smb2, connected, oom), smb2)
<1> DEFINE begun == smb3_init_preauth_hash(smb2)
           m == Message("negotiate", "success",
                  [dialects |-> Dialects(smb2.version), encrypts |-> Encrypts(smb2.version),
                   mode |-> conf.client.mode])
           sent == Sends(begun, m, "negotiate")
<1>1. connect_cb(smb2, connected, oom)
        = IF ~connected THEN Told(smb2, "not connected")
          ELSE IF oom THEN Told(begun, "no memory")
          ELSE [sent EXCEPT !.smb2 = smb3_update_preauth_hash(@, "negotiate")]
  BY DEF connect_cb
<1>2. LoginSame(smb2, smb2) /\ LoginSame(begun, smb2) /\ begun.hash = <<>>
  BY DEF LoginSame, IsContext, Fields, smb3_init_preauth_hash
<1> HIDE DEF begun, m
<1>3. LoginWaits(sent.smb2, smb2) /\ sent = [smb2 |-> sent.smb2, sends |-> sent.sends]
  BY <1>2, SendsWaits DEF Commands
<1> HIDE DEF sent
<1>4. Goes([sent EXCEPT !.smb2 = smb3_update_preauth_hash(@, "negotiate")], smb2)
  <2>1. LoginWaits(smb3_update_preauth_hash(sent.smb2, "negotiate"), smb2)
    BY <1>3, HashedWaits
  <2>2. [sent EXCEPT !.smb2 = smb3_update_preauth_hash(@, "negotiate")].smb2 = smb3_update_preauth_hash(sent.smb2, "negotiate")
    BY <1>3
  <2> QED BY <2>1, <2>2 DEF Goes
<1>5. ~connected => Goes(Told(smb2, "not connected"), smb2)
  BY <1>2, ToldGoes
<1>6. Goes(Told(begun, "no memory"), smb2)
  BY <1>2, ToldGoes DEF MayStayOpen
<1> QED BY <1>1, <1>4, <1>5, <1>6

-----------------------------------------------------------------------------
(* The caller's connection.  Before the socket is connected the context is *)
(* closed; after the caller was told, nothing waits.                       *)
OneEnd ==
  /\ IsContext(client)
  /\ client.next \in Commands \cup {"none", "connect"}
  /\ client.c_data = "held" <=> client.next # "none"
  /\ client.next = "connect" => ~client.open
  /\ client.c_data = "none" => ~client.open
  /\ IF client.c_data = "freed"
     THEN \E status : client.told = <<status>> /\ (client.open => MayStayOpen(client, status))
     ELSE client.told = <<>>

(* A callback that is run for a connection that waits keeps OneEnd.        *)
LEMMA GoesKeeps ==
  ASSUME OneEnd, client.next # "none", NEW d, Goes(d, client), client' = d.smb2
  PROVE  OneEnd'
<1>1. client.told = <<>> /\ client.c_data = "held"
  BY DEF OneEnd
<1>2. CASE LoginWaits(d.smb2, client)
  BY <1>1, <1>2 DEF OneEnd, LoginWaits, LoginSame, IsContext, Commands
<1>3. CASE Ends(d.smb2, client)
  <2>1. \A x : Append(<<>>, x) = <<x>>
    OBVIOUS
  <2> QED BY <1>1, <1>3, <2>1 DEF OneEnd, Ends, IsContext, MayStayOpen
<1> QED BY <1>2, <1>3 DEF Goes

LEMMA InitOneEnd == LoginInit => OneEnd
  BY ZenonT(30) DEF LoginInit, OneEnd, IsContext, Fields, smb2_init_context, Commands

LEMMA DropGoes ==
  ASSUME OneEnd, NEW status, GivenUp(status), client.next # "none"
  PROVE  OneEnd'
<1> DEFINE over == Message("none", status, [dialect |-> 0])
           d == CASE client.next = "connect" -> connect_cb(client, FALSE, FALSE)
                  [] client.next = "negotiate" -> negotiate_cb(client, over, FALSE)
                  [] client.next = "session_setup" -> session_setup_cb(client, over, FALSE)
                  [] client.next = "tree_connect" -> tree_connect_cb(client, status)
<1>1. client' = d.smb2
  BY DEF GivenUp, ClientDid
<1> HIDE DEF over
<1>2. client.next \in {"connect", "negotiate", "session_setup", "tree_connect"} /\ IsContext(client)
  BY DEF OneEnd, Commands
<1>3. Goes(d, client)
  BY <1>2, ConnectGoes, NegotiateGoes, SessionGoes, TreeGoes DEF OneEnd
<1> HIDE DEF d
<1> QED BY <1>1, <1>3, GoesKeeps

(* The steps of the client that run no callback, and then the others.      *)
LEMMA AskedOneEnd == OneEnd /\ smb2_connect_share_async => OneEnd'
<1> SUFFICES ASSUME OneEnd, smb2_connect_share_async PROVE OneEnd'
  OBVIOUS
<1>1. client.c_data = "none" /\ client.next = "none" /\ client.told = <<>> /\ IsContext(client) /\ ~client.open
  BY DEF smb2_connect_share_async, OneEnd
<1>2. ASSUME NEW kept \in {"lost", "refused"}, client' = [client EXCEPT !.c_data = kept] PROVE OneEnd'
  BY <1>1, <1>2 DEF OneEnd, IsContext, Fields
<1>3. ASSUME client' = [client EXCEPT !.c_data = "held", !.next = "connect"] PROVE OneEnd'
  BY <1>1, <1>3 DEF OneEnd, IsContext, Fields
<1> QED BY <1>2, <1>3 DEF smb2_connect_share_async

LEMMA ConnectedOneEnd == OneEnd /\ Connected => OneEnd'
<1> SUFFICES ASSUME OneEnd, Connected PROVE OneEnd'
  OBVIOUS
<1>1. PICK ok \in BOOLEAN, oom \in BOOLEAN :
        client' = connect_cb([client EXCEPT !.open = ok], ok, ok /\ oom).smb2
  BY DEF Connected
<1> DEFINE began == [client EXCEPT !.open = ok]
           d == connect_cb(began, ok, ok /\ oom)
<1>2. IsContext(began) /\ (~ok => ~began.open) /\ began.told = client.told /\ began.c_data = client.c_data
  BY DEF OneEnd, IsContext, Fields
<1>3. client' = d.smb2
  BY <1>1
<1> HIDE DEF began
<1>4. Goes(d, began)
  BY <1>2, ConnectGoes
<1> HIDE DEF d
<1>5. Goes(d, client)
  BY <1>2, <1>4 DEF Goes, LoginWaits, Ends, LoginSame
<1> QED BY <1>3, <1>5, GoesKeeps DEF Connected

LEMMA ReadsOneEnd == OneEnd /\ ClientReads => OneEnd'
<1> SUFFICES ASSUME OneEnd, ClientReads PROVE OneEnd'
  OBVIOUS
<1>1. IsContext(client) /\ client.open /\ client.next \in Commands /\ client.c_data = "held" /\ client.told = <<>>
  BY DEF OneEnd, ClientReads, ClientCanRead
<1> DEFINE m == Head(s2c)
           d(oom) == CASE client.next = "negotiate" -> negotiate_cb(client, m, oom)
                       [] client.next = "session_setup" -> session_setup_cb(client, m, oom)
                       [] client.next = "tree_connect" -> tree_connect_cb(client, m.status)
<1>2. CASE client' = [client EXCEPT !.broken = TRUE]
  BY <1>1, <1>2 DEF OneEnd, IsContext, Fields, Commands
<1>3. ASSUME NEW oom \in BOOLEAN, client' = d(oom).smb2 PROVE OneEnd'
  <2> HIDE DEF m
  <2>1. Goes(d(oom), client)
    BY <1>1, NegotiateGoes, SessionGoes, TreeGoes DEF Commands
  <2>2. client.next # "none"
    BY <1>1 DEF Commands
  <2> HIDE DEF d
  <2> QED BY <1>3, <2>1, <2>2, GoesKeeps
<1>4. \/ client' = [client EXCEPT !.broken = TRUE]
      \/ \E oom \in BOOLEAN : client' = d(oom).smb2
  <2>1. Does([client EXCEPT !.broken = TRUE], <<>>).smb2 = [client EXCEPT !.broken = TRUE]
    BY DEF Does
  <2> QED BY <2>1 DEF ClientReads, ClientDid
<1> QED BY <1>2, <1>3, <1>4

LEMMA StepOneEnd == OneEnd /\ [LoginNext]_loginVars => OneEnd'
<1> SUFFICES ASSUME OneEnd, [LoginNext]_loginVars PROVE OneEnd'
  OBVIOUS
<1>1. CASE smb2_connect_share_async
  BY <1>1, AskedOneEnd
<1>2. CASE Connected
  BY <1>2, ConnectedOneEnd
<1>3. CASE ClientReads
  BY <1>3, ReadsOneEnd
<1>4. CASE ServiceFails
  BY <1>4, DropGoes DEF ServiceFails, ServiceMustFail
<1>5. CASE smb2_destroy_context_connecting
  BY <1>5, DropGoes DEF smb2_destroy_context_connecting
<1>6. CASE smb2_timeout_pdus
  BY <1>6, DropGoes DEF smb2_timeout_pdus
<1>7. CASE client' = client
  BY <1>7 DEF OneEnd, IsContext, MayStayOpen
<1>8. ServerNext \/ UNCHANGED loginVars => client' = client
  BY DEF ServerNext, ServerReads, ServerDid, ServerSeesEnd, loginVars
<1> QED BY <1>1, <1>2, <1>3, <1>4, <1>5, <1>6, <1>7, <1>8 DEF LoginNext, ClientNext

LEMMA OneEndImplies == OneEnd => ConnectToldOnce /\ FailedIsClosed
<1> SUFFICES ASSUME OneEnd PROVE ConnectToldOnce /\ FailedIsClosed
  OBVIOUS
<1>1. CASE client.c_data = "freed"
  <2>1. PICK status : client.told = <<status>> /\ (client.open => MayStayOpen(client, status))
    BY <1>1 DEF OneEnd
  <2>2. Len(client.told) = 1
    BY <2>1
  <2>3. \A x : Is(x) <=> x = status
    BY <2>1 DEF Is
  <2>4. ConnectToldOnce
    BY <1>1, <2>2 DEF OneEnd, ConnectToldOnce
  <2>5. FailedIsClosed
    BY <2>1, <2>3 DEF FailedIsClosed, LeavesItOpen, MayStayOpen
  <2> QED BY <2>4, <2>5
<1>2. CASE client.c_data # "freed"
  <2>1. client.told = <<>> /\ Len(client.told) = 0
    BY <1>2 DEF OneEnd
  <2> QED BY <1>2, <2>1 DEF OneEnd, ConnectToldOnce, FailedIsClosed
<1> QED BY <1>1, <1>2

-----------------------------------------------------------------------------
(* The caller of smb2_connect_share_async is told once and its data is     *)
(* freed then, whichever callback, failure, timeout or shutdown ends it    *)
(* (connect_cb to tree_connect_cb, smb2_timeout_pdus,                      *)
(* smb2_destroy_context); and one that is told of a failure has a closed   *)
(* context, but for a wrong signature and for the first message that could *)
(* not be made.                                                            *)
THEOREM CallerIsAlwaysTold == LoginSpec => []CallerIsTold
<1>1. LoginInit => OneEnd
  BY InitOneEnd
<1>2. OneEnd /\ [LoginNext]_loginVars => OneEnd'
  BY StepOneEnd
<1>3. OneEnd => CallerIsTold
  BY OneEndImplies DEF CallerIsTold
<1> QED BY <1>1, <1>2, <1>3, PTL DEF LoginSpec

-----------------------------------------------------------------------------
(* What a token's bytes are taken for, in an envelope or without: what     *)
(* they were made for.                                                     *)
Holds(type, blob) == \E len \in LengthsOf(type), wraps \in BOOLEAN : blob.bytes = BytesOf(type, len, wraps)

LEMMA HeldArrives ==
  ASSUME NEW type \in 1 .. 3, NEW blob, Holds(type, blob)
  PROVE  ntlmssp_get_message_type(blob).type = type
<1>1. PICK len \in LengthsOf(type), wraps \in BOOLEAN : blob.bytes = BytesOf(type, len, wraps)
  BY DEF Holds
<1> DEFINE b == [bytes |-> BytesOf(type, len, wraps)]
<1>2. ntlmssp_get_message_type(b).type = type
  BY EnvelopesAssumption
<1>3. b.bytes = blob.bytes
  BY <1>1
<1> HIDE DEF b
<1>4. ntlmssp_get_message_type(blob) = ntlmssp_get_message_type(b)
  BY <1>3 DEF ntlmssp_get_message_type
<1> QED BY <1>2, <1>4

(* The dialects of a version, from the oldest on.                          *)
Rises(q) ==
  /\ q \in Seq(Nat \ {0}) /\ Len(q) <= 5
  /\ \A i, j \in 1 .. Len(q) : i < j => q[i] < q[j]
  /\ \A i \in 1 .. Len(q) : q[i] \in {514, 528, 768, 770, 785}
LEMMA DialectsRise ==
  ASSUME NEW v \in Versions
  PROVE  Rises(Dialects(v))
<1> USE DEF SMB2_VERSION_0202, SMB2_VERSION_0210, SMB2_VERSION_0300, SMB2_VERSION_0302, SMB2_VERSION_0311
<1>1. Rises(<<514, 528, 768, 770, 785>>) /\ Rises(<<514, 528>>) /\ Rises(<<768, 770, 785>>)
  BY DEF Rises
<1>2. \A d \in {514, 528, 768, 770, 785} : Rises(<<d>>)
  BY DEF Rises
<1>3. \/ Dialects(v) \in {<<514, 528, 768, 770, 785>>, <<514, 528>>, <<768, 770, 785>>}
      \/ \E d \in {514, 528, 768, 770, 785} : Dialects(v) = <<d>>
  BY DEF Versions, Dialects
<1> QED BY <1>1, <1>2, <1>3

LEMMA AnyIs ==
  ASSUME NEW d
  PROVE  Contains(Dialects("any"), d) <=> d \in {514, 528, 768, 770, 785}
<1>1. Dialects("any") = <<514, 528, 768, 770, 785>>
  BY DEF Dialects, SMB2_VERSION_0202, SMB2_VERSION_0210, SMB2_VERSION_0300, SMB2_VERSION_0302, SMB2_VERSION_0311
<1> DEFINE q == <<514, 528, 768, 770, 785>>
<1>2. Len(q) = 5 /\ q[1] = 514 /\ q[2] = 528 /\ q[3] = 768 /\ q[4] = 770 /\ q[5] = 785
  OBVIOUS
<1>3. (\E i \in 1 .. Len(q) : q[i] = d) <=> d \in {514, 528, 768, 770, 785}
  <2> HIDE DEF q
  <2> QED BY <1>2
<1> HIDE DEF q
<1>4. Contains(Dialects("any"), d) <=> \E i \in 1 .. Len(q) : q[i] = d
  BY <1>1 DEF Contains, q
<1> QED BY <1>3, <1>4

(* The dialect that the server takes is the highest that both speak.       *)
LEMMA CommonIs ==
  ASSUME NEW v \in Versions, NEW smb2, smb2.version \in Versions
  PROVE  LET d == Common(smb2, Dialects(v))
             Both == ToSet(Dialects(v)) \cap ToSet(Dialects(smb2.version))
         IN \/ d = 0
            \/ d # 0 /\ d \in Both /\ \A e \in Both : e <= d
<1> DEFINE q == Dialects(v)
           r == Dialects(smb2.version)
           K == {i \in DOMAIN q : Contains(r, q[i])}
<1>1. Rises(q) /\ Rises(r)
  BY DialectsRise
<1>2. Common(smb2, q) = IF K = {} THEN 0 ELSE q[Max(K)]
  BY DEF Common
<1> HIDE DEF q, r
<1>3. DOMAIN q = 1 .. Len(q) /\ Len(q) \in 0 .. 5
  <2>1. q \in Seq(Nat \ {0}) /\ Len(q) <= 5
    BY <1>1 DEF Rises
  <2>2. Len(q) \in Nat /\ DOMAIN q = 1 .. Len(q)
    BY <2>1, LenProperties
  <2>3. \A n \in Nat : n <= 5 => n \in 0 .. 5
    OBVIOUS
  <2> QED BY <2>1, <2>2, <2>3, Zenon
<1>4. ASSUME K # {} PROVE q[Max(K)] # 0 /\ q[Max(K)] \in ToSet(q) \cap ToSet(r) /\ \A e \in ToSet(q) \cap ToSet(r) : e <= q[Max(K)]
  <2>1. K \subseteq 1 .. 5
    BY <1>3
  <2>2. \A e : e \in ToSet(q) \cap ToSet(r) => \E i \in K : q[i] = e
    BY <1>1, <1>3 DEF ToSet, Rises, Contains
  <2>3. \A i \in K : q[i] \in ToSet(q) \cap ToSet(r)
    BY <1>1, <1>3 DEF ToSet, Rises, Contains
  <2>4. \A i \in K : i \in 1 .. Len(q)
    BY <1>3
  <2> HIDE DEF K
  <2>5. \E x \in K : \A y \in K : x >= y
    <3>1. CASE 5 \in K
      BY <2>1, <3>1
    <3>2. CASE 5 \notin K /\ 4 \in K
      BY <2>1, <3>2
    <3>3. CASE 5 \notin K /\ 4 \notin K /\ 3 \in K
      BY <2>1, <3>3
    <3>4. CASE 5 \notin K /\ 4 \notin K /\ 3 \notin K /\ 2 \in K
      BY <2>1, <3>4
    <3>5. CASE K \subseteq {1}
      <4>1. 1 \in K /\ \A y \in K : y = 1
        BY <1>4, <3>5
      <4> QED BY <4>1
    <3> QED BY <2>1, <3>1, <3>2, <3>3, <3>4, <3>5
  <2>6. Max(K) \in K /\ \A y \in K : Max(K) >= y
    BY <2>5 DEF Max
  <2> DEFINE m == Max(K)
  <2> HIDE DEF m
  <2>7. m \in 1 .. Len(q) /\ \A y \in K : y \in 1 .. Len(q) /\ m >= y
    BY <2>4, <2>6 DEF m
  <2>8. q[m] # 0 /\ \A y \in K : q[y] <= q[m]
    BY <1>1, <1>3, <2>7 DEF Rises
  <2> QED BY <2>2, <2>3, <2>6, <2>8 DEF m
<1> QED BY <1>2, <1>4 DEF q, r

(* What nothing in a conversation changes, and what neither the hash nor   *)
(* the keys do.                                                            *)
Alike(t, s) ==
  /\ IsContext(t) /\ t.version = s.version /\ t.seal = s.seal /\ t.user = s.user
  /\ t.password = s.password /\ t.broken = s.broken
Steady(t, s) ==
  /\ Alike(t, s) /\ t.open = s.open /\ t.sign = s.sign /\ t.dialect = s.dialect
  /\ t.told = s.told /\ t.c_data = s.c_data /\ t.next = s.next /\ t.session_id = s.session_id

LEMMA SteadySteps ==
  ASSUME NEW r, NEW s, NEW t, Steady(t, s), Steady(s, r)
  PROVE  Steady(t, r)
  BY DEF Steady, Alike

LEMMA HashSteady ==
  ASSUME NEW s, IsContext(s), NEW said
  PROVE  LET t == smb3_update_preauth_hash(s, said)
         IN /\ Steady(t, s) /\ t.session_key = s.session_key /\ t.signing_key = s.signing_key
            /\ t.auth = s.auth /\ t.domain = s.domain
  BY DEF Steady, Alike, IsContext, Fields, smb3_update_preauth_hash

LEMMA InitHashSteady ==
  ASSUME NEW s, IsContext(s)
  PROVE  LET t == smb3_init_preauth_hash(s)
         IN /\ Steady(t, s) /\ t.session_key = s.session_key /\ t.signing_key = s.signing_key
            /\ t.auth = s.auth /\ t.domain = s.domain
  BY DEF Steady, Alike, IsContext, Fields, smb3_init_preauth_hash

LEMMA SessionKeySteady ==
  ASSUME NEW s, IsContext(s), NEW key
  PROVE  LET t == [s EXCEPT !.session_key = key]
         IN /\ Steady(t, s) /\ t.session_key = key /\ t.signing_key = s.signing_key
            /\ t.auth = s.auth /\ t.domain = s.domain
  BY DEF Steady, Alike, IsContext, Fields

LEMMA KeySteady ==
  ASSUME NEW s, IsContext(s)
  PROVE  LET t == smb2_create_signing_key(s)
         IN /\ Steady(t, s) /\ t.session_key = s.session_key /\ t.auth = s.auth /\ t.domain = s.domain
            /\ \A key : s.session_key = <<key>> /\ key # Zero => t.signing_key # Zero
<1> DEFINE R(t) == Steady(t, s) /\ t.session_key = s.session_key /\ t.auth = s.auth /\ t.domain = s.domain
<1>2. ASSUME NEW a PROVE LET t == [s EXCEPT !.signing_key = a] IN R(t) /\ t.signing_key = a
  BY DEF Steady, Alike, IsContext, Fields
<1>3. \A label, context : smb2_derive_key(s.session_key, label, context) # Zero
  <2>1. ASSUME NEW a, NEW b, NEW c PROVE [derived |-> a, label |-> b, context |-> c] # [zero |-> TRUE]
    <3>1. DOMAIN [derived |-> a, label |-> b, context |-> c] # DOMAIN [zero |-> TRUE]
      OBVIOUS
    <3> QED BY <3>1
  <2> QED BY <2>1 DEF smb2_derive_key, Zero
<1>4. s.signing_key = s.signing_key /\ R([s EXCEPT !.signing_key = s.signing_key])
  BY <1>2
<1> DEFINE t == smb2_create_signing_key(s)
           Old == s.dialect \in {SMB2_VERSION_0202, SMB2_VERSION_0210}
<1>5. CASE Old
  <2>1. t = [s EXCEPT !.signing_key = IF s.session_key = <<>> THEN s.signing_key ELSE s.session_key[1]]
    BY <1>5 DEF smb2_create_signing_key
  <2>2. R(t) /\ t.signing_key = IF s.session_key = <<>> THEN s.signing_key ELSE s.session_key[1]
    BY <2>1, <1>2
  <2>3. \A key : <<key>> # <<>> /\ <<key>>[1] = key
    OBVIOUS
  <2>4. \A key : s.session_key = <<key>> => t.signing_key = key
    BY <2>2, <2>3
  <2> HIDE DEF R
  <2> QED BY <2>2, <2>4 DEF R
<1>6. CASE ~Old
  <2> DEFINE K(label, context) == smb2_derive_key(s.session_key, label, context)
  <2>1. \A label, context : K(label, context) # Zero
    BY <1>3
  <2>2. \E x, y, z : x # Zero /\ t = [s EXCEPT !.signing_key = x, !.serverin_key = y, !.serverout_key = z]
    <3>1. CASE s.dialect <= SMB2_VERSION_0302
      <4> WITNESS K("SMB2AESCMAC", <<"SmbSign">>), K("SMB2AESCCM", <<"ServerIn ">>), K("SMB2AESCCM", <<"ServerOut">>)
      <4> QED BY <1>6, <2>1, <3>1 DEF smb2_create_signing_key
    <3>2. CASE ~(s.dialect <= SMB2_VERSION_0302)
      <4> WITNESS K("SMBSigningKey", s.hash), K("SMBC2SCipherKey", s.hash), K("SMBS2CCipherKey", s.hash)
      <4> QED BY <1>6, <2>1, <3>2 DEF smb2_create_signing_key
    <3> QED BY <3>1, <3>2
  <2>3. PICK x, y, z : x # Zero /\ t = [s EXCEPT !.signing_key = x, !.serverin_key = y, !.serverout_key = z]
    BY <2>2
  <2> DEFINE u == [s EXCEPT !.signing_key = x, !.serverin_key = y, !.serverout_key = z]
  <2>4. R(u) /\ u.signing_key = x
    BY DEF Steady, Alike, IsContext, Fields
  <2>5. t = u
    BY <2>3
  <2> HIDE DEF u
  <2> QED BY <2>3, <2>4, <2>5
<1> QED BY <1>5, <1>6

LEMMA CloseIs ==
  ASSUME NEW s, IsContext(s)
  PROVE  LET t == smb2_close_context(s)
         IN /\ Alike(t, s) /\ ~t.open /\ t.open \in BOOLEAN /\ t.sign = s.sign /\ t.dialect = s.dialect
            /\ t.told = s.told /\ t.c_data = s.c_data /\ t.next = s.next /\ t.auth = s.auth
            /\ t.session_key = <<>>
  BY DEF Alike, IsContext, Fields, smb2_close_context

LEMMA ToldIs ==
  ASSUME NEW s, IsContext(s), s.told = <<>>, NEW status
  PROVE  LET d == Told(s, status)
             t == d.smb2
         IN /\ d.sends = <<>> /\ Alike(t, s) /\ t.open = s.open /\ t.sign = s.sign /\ t.dialect = s.dialect
            /\ t.told = <<status>> /\ t.c_data = "freed" /\ t.next = "none" /\ t.auth = <<>>
            /\ t.session_key = s.session_key /\ t.signing_key = s.signing_key
<1>1. Append(<<>>, status) = <<status>>
  OBVIOUS
<1>2. Append(s.told, status) = <<status>>
  BY <1>1
<1> DEFINE u == [s EXCEPT !.told = <<status>>, !.next = "none"]
<1>3. Told(s, status) = Does(free_c_data(u), <<>>)
  BY <1>2 DEF Told
<1>4. /\ Alike(u, s) /\ u.open = s.open /\ u.sign = s.sign /\ u.dialect = s.dialect /\ u.told = <<status>>
      /\ u.next = "none" /\ u.session_key = s.session_key /\ u.signing_key = s.signing_key
  BY DEF Alike, IsContext, Fields
<1> HIDE DEF u
<1>5. LET t == free_c_data(u)
      IN /\ Alike(t, u) /\ t.open = u.open /\ t.sign = u.sign /\ t.dialect = u.dialect /\ t.told = u.told
         /\ t.c_data = "freed" /\ t.next = u.next /\ t.auth = <<>>
         /\ t.session_key = u.session_key /\ t.signing_key = u.signing_key
  BY <1>4 DEF Alike, IsContext, Fields, free_c_data
<1> QED BY <1>3, <1>4, <1>5 DEF Does, Alike

LEMMA FailsIs ==
  ASSUME NEW s, IsContext(s), s.told = <<>>, NEW status
  PROVE  LET d == Fails(s, status)
             t == d.smb2
         IN /\ d.sends = <<>> /\ Alike(t, s) /\ ~t.open /\ t.open \in BOOLEAN /\ t.sign = s.sign /\ t.dialect = s.dialect
            /\ t.told = <<status>> /\ t.c_data = "freed" /\ t.next = "none" /\ t.auth = <<>>
            /\ t.session_key = <<>>
  BY CloseIs, ToldIs DEF Fails, Alike

(* A message as smb2_queue_pdu leaves it.                                  *)
LEMMA QueuedIs ==
  ASSUME NEW s, NEW command, NEW status, NEW body, NEW reply \in BOOLEAN
  PROVE  LET q == smb2_queue_pdu(s, Message(command, status, body), reply)
         IN /\ q.command = command /\ q.status = status /\ q.body = body
            /\ Len(q.signature) <= 1 /\ Len(q.sealed) <= 1
            /\ command = "session_setup" /\ status = "success" /\ reply /\ s.sign
               /\ s.session_id # 0 /\ s.session_key # <<>> => q.signature = <<smb2_calc_signature(s)>>
<1> DEFINE m == Message(command, status, body)
           a == smb2_pdu_add_signature(s, m, reply)
           IsM(x) == DOMAIN x = {"command", "status", "body", "signature", "sealed"}
                     /\ x.command = command /\ x.status = status /\ x.body = body
<1>1. IsM(m) /\ m.signature = <<>> /\ m.sealed = <<>>
  BY DEF Message
<1>2. \A x : Len(<<x>>) <= 1 /\ Len(<<>>) <= 1
  OBVIOUS
<1> DEFINE sg == smb2_calc_signature(s)
           Unsigned2 == \/ ~(s.sign \/ (m.command = "tree_connect" /\ s.dialect = SMB2_VERSION_0311 /\ ~s.seal))
                        \/ m.command = "session_setup" /\ (~reply \/ m.status # "success")
                        \/ s.session_id = 0 \/ s.session_key = <<>>
<1>3. a = IF Unsigned2 THEN m ELSE [m EXCEPT !.signature = <<sg>>]
  BY DEF smb2_pdu_add_signature
<1>4. command = "session_setup" /\ status = "success" /\ reply /\ s.sign
      /\ s.session_id # 0 /\ s.session_key # <<>> => ~Unsigned2
  BY <1>1
<1> HIDE DEF m, sg, Unsigned2
<1>5. IsM(a) /\ a.sealed = <<>> /\ a.signature = IF Unsigned2 THEN <<>> ELSE <<sg>>
  BY <1>1, <1>3
<1> HIDE DEF a
<1> DEFINE q == smb3_encrypt_pdu(s, a)
<1>6. q = a \/ q = [a EXCEPT !.sealed = <<s.serverin_key>>]
  BY DEF smb3_encrypt_pdu
<1>7. IsM(q) /\ q.signature = a.signature /\ (q.sealed = <<>> \/ q.sealed = <<s.serverin_key>>)
  BY <1>5, <1>6
<1>8. smb2_queue_pdu(s, Message(command, status, body), reply) = q
  BY DEF smb2_queue_pdu, q, a, m
<1> HIDE DEF q
<1>9. Len(q.signature) <= 1 /\ Len(q.sealed) <= 1
  BY <1>2, <1>5, <1>7
<1> QED BY <1>4, <1>5, <1>7, <1>8, <1>9 DEF sg

LEMMA QueuedAs ==
  ASSUME NEW s, NEW command, NEW status, NEW body, NEW reply \in BOOLEAN, NEW q,
         q = smb2_queue_pdu(s, Message(command, status, body), reply)
  PROVE  /\ q.command = command /\ q.status = status /\ q.body = body
         /\ Len(q.signature) <= 1 /\ Len(q.sealed) <= 1
  BY QueuedIs

(* What a callback of the client does: it fails, or sends what is next.    *)
FailedFrom(d, s) ==
  /\ d.sends = <<>> /\ Alike(d.smb2, s) /\ ~d.smb2.open /\ d.smb2.open \in BOOLEAN
  /\ d.smb2.sign = s.sign /\ d.smb2.dialect = s.dialect /\ d.smb2.c_data = "freed"
  /\ d.smb2.next = "none" /\ d.smb2.auth = <<>> /\ d.smb2.session_key = <<>>
  /\ \E status \in LoginStatuses \ {"success"} : d.smb2.told = <<status>>
SentFrom(d, s, command) ==
  /\ Alike(d.smb2, s) /\ d.smb2.open = s.open /\ d.smb2.sign = s.sign /\ d.smb2.dialect = s.dialect
  /\ d.smb2.told = s.told /\ d.smb2.c_data = s.c_data /\ d.smb2.next = command
  /\ d.smb2.session_key = s.session_key /\ d.smb2.signing_key = s.signing_key
  /\ d.sends = <<d.sends[1]>> /\ d.sends[1].command = command /\ d.sends[1].status = "success"
  /\ Len(d.sends[1].signature) <= 1 /\ Len(d.sends[1].sealed) <= 1

LEMMA FailsFrom ==
  ASSUME NEW s, IsContext(s), s.told = <<>>, NEW status \in LoginStatuses \ {"success"}
  PROVE  FailedFrom(Fails(s, status), s)
<1> DEFINE d == Fails(s, status)
<1>1. /\ d.sends = <<>> /\ Alike(d.smb2, s) /\ ~d.smb2.open /\ d.smb2.open \in BOOLEAN /\ d.smb2.sign = s.sign
      /\ d.smb2.dialect = s.dialect /\ d.smb2.told = <<status>> /\ d.smb2.c_data = "freed"
      /\ d.smb2.next = "none" /\ d.smb2.auth = <<>> /\ d.smb2.session_key = <<>>
  BY FailsIs
<1> HIDE DEF d
<1> QED BY <1>1 DEF FailedFrom, d

LEMMA SendsFrom ==
  ASSUME NEW s, IsContext(s), NEW command, NEW body
  PROVE  LET d == Sends(s, Message(command, "success", body), command)
         IN /\ SentFrom(d, s, command) /\ d.smb2.auth = s.auth /\ d.sends[1].body = body
            /\ DOMAIN d = {"smb2", "sends"} /\ d.smb2.hash = s.hash
<1> DEFINE q == smb2_queue_pdu(s, Message(command, "success", body), FALSE)
           t == [s EXCEPT !.next = command]
           d == Sends(s, Message(command, "success", body), command)
<1>1. d = [smb2 |-> t, sends |-> <<q>>]
  BY DEF Sends, Does
<1>2. /\ Alike(t, s) /\ t.open = s.open /\ t.sign = s.sign /\ t.dialect = s.dialect /\ t.told = s.told
      /\ t.c_data = s.c_data /\ t.next = command /\ t.session_key = s.session_key
      /\ t.signing_key = s.signing_key /\ t.auth = s.auth /\ t.hash = s.hash
  BY DEF Alike, IsContext, Fields
<1>3. /\ q.command = command /\ q.status = "success" /\ q.body = body
      /\ Len(q.signature) <= 1 /\ Len(q.sealed) <= 1
  <2>1. PICK reply \in BOOLEAN : q = smb2_queue_pdu(s, Message(command, "success", body), reply)
    OBVIOUS
  <2> HIDE DEF q
  <2> QED BY <2>1, QueuedAs
<1> HIDE DEF t, q
<1>4. d.smb2 = t /\ d.sends = <<q>> /\ d.sends[1] = q /\ DOMAIN d = {"smb2", "sends"}
  BY <1>1
<1> HIDE DEF d
<1> QED BY <1>2, <1>3, <1>4 DEF SentFrom, d

(***************************************************************************)
(* What the two sides know of each other.  k is what they are set to, cl   *)
(* and sv their contexts, q and r what is under way from the one and from  *)
(* the other.                                                              *)
(***************************************************************************)
Ours(k) == ToSet(Dialects(k.client.version)) \cap ToSet(Dialects(k.server.version))
MustSign(k) == k.client.mode = "required" /\ ~k.client.seal /\ ~k.server.seal

ClientOf(k, cl) ==
  /\ IsContext(cl) /\ ContextOk(cl) /\ cl.version = k.client.version /\ cl.seal = k.client.seal
  /\ cl.user = k.client.user /\ cl.password = k.client.password
ServerOf(k, sv) ==
  IsContext(sv) /\ ContextOk(sv) /\ sv.version = k.server.version /\ sv.seal = k.server.seal

(* The dialect of the server is the highest of both, and the client's.     *)
Spoken(k, cl, sv) ==
  /\ sv.dialect # 0 => sv.dialect \in Ours(k) /\ \A d \in Ours(k) : d <= sv.dialect
  /\ cl.dialect # 0 => cl.dialect = sv.dialect

(* The three tokens.                                                       *)
IsAuth(auth) ==
  /\ DOMAIN auth = {"user", "password", "domain", "workstation", "wrap", "ok", "target", "info",
                    "exported_session_key"}
  /\ auth.wrap \in BOOLEAN
FirstBlob(blob) == Holds(NEGOTIATE_MESSAGE, blob) /\ blob.means = [from |-> "client"]
ChallengeBlob(blob) ==
  /\ Holds(CHALLENGE_MESSAGE, blob) /\ DOMAIN blob.means = {"challenge", "target", "info"}
  /\ \E h : blob.means.info = <<"time">> \/ blob.means.info = <<h, h, "dns", h, "time">>
Proves(k, means) ==
  \/ k.client.password = Zero /\ means.user = None /\ means.response = <<>>
  \/ /\ k.client.password # Zero /\ means.user = k.client.user
     /\ \E temp : means.response
                    = <<HMAC(NTOWFv2(k.client.user, k.client.password, means.domain), temp), temp>>
LastBlob(k, blob) ==
  /\ Holds(AUTHENTICATION_MESSAGE, blob)
  /\ DOMAIN blob.means = {"user", "domain", "workstation", "response"} /\ Proves(k, blob.means)

(* The server has begun to authenticate a client it knows no password of.  *)
Challenged(sv) == sv.auth = <<sv.auth[1]>> /\ IsAuth(sv.auth[1]) /\ sv.session_id # 0 /\ sv.password = Zero
Begun(cl) ==
  /\ cl.auth = <<cl.auth[1]>> /\ IsAuth(cl.auth[1])
  /\ cl.auth[1].user = cl.user /\ cl.auth[1].workstation = "workstation"

(* Who may be told of success.                                             *)
IsRight(k) ==
  /\ k.client.password # Zero /\ k.client.user # Empty
  /\ k.server.users = "known" /\ AsGood(k.client.password, k.server.password)
KnownTo(k) ==
  \/ IsRight(k)
  \/ /\ k.server.allow_anonymous /\ k.server.users # "refused"
     /\ k.server.users = "known" =>
          \/ k.client.password = Zero \/ k.client.user = Empty
          \/ k.server.password \in {Zero, [password |-> Empty]}
Agreed(k, cl, sv) == cl.dialect # 0 /\ (MustSign(k) => cl.sign /\ sv.sign)
SameKey(cl, sv) ==
  cl.sign /\ sv.open /\ sv.sign => cl.signing_key = sv.signing_key /\ cl.signing_key # Zero
Signed(m, sv) == sv.open /\ sv.sign => m.signature = <<smb2_calc_signature(sv)>>

(* A request, and a reply, on its way.                                     *)
Asked(k, m, cl, sv) ==
  /\ MessageOk(m) /\ m.status = "success" /\ (cl.open => m.command = cl.next)
  /\ m.command = "negotiate" =>
       /\ m.body.dialects = Dialects(k.client.version) /\ m.body.mode = k.client.mode
       /\ cl.dialect = 0 /\ sv.password = Zero
  /\ m.command = "session_setup" =>
       /\ sv.password = Zero
       /\ FirstBlob(m.body.blob) \/ (LastBlob(k, m.body.blob) /\ Challenged(sv))
Replied(k, m, cl, sv) ==
  /\ MessageOk(m) /\ m.command = cl.next
  /\ m.command = "negotiate" =>
       /\ m.body.dialect = sv.dialect /\ sv.dialect # 0 /\ sv.password = Zero
       /\ MustSign(k) => sv.sign /\ "required" \in m.body.mode
  /\ m.status = "more_processing" =>
       m.command = "session_setup" /\ ChallengeBlob(m.body.blob) /\ Challenged(sv)
  /\ m.command = "session_setup" /\ m.status = "success" => KnownTo(k) /\ Signed(m, sv)
UnderWay(k, cl, sv, q, r) ==
  /\ q = <<>> \/ (q = <<q[1]>> /\ Asked(k, q[1], cl, sv))
  /\ r = <<>> \/ (r = <<r[1]>> /\ q = <<>> /\ cl.open /\ Replied(k, r[1], cl, sv))

(* How far the client is.                                                  *)
Stage(k, cl, sv, q, r) ==
  /\ cl.next \in Commands \/ cl.told = <<"success">> => cl.open
  /\ cl.open /\ cl.next = "none" => q = <<>> /\ r = <<>>
  /\ cl.c_data = "none" \/ cl.next = "connect" => q = <<>> /\ r = <<>> /\ sv.password = Zero
  /\ cl.c_data = "none" \/ cl.next \in {"connect", "negotiate"} => cl.dialect = 0
  /\ cl.next = "session_setup" => Begun(cl)
  /\ cl.next \in {"session_setup", "tree_connect"} \/ cl.told = <<"success">> => Agreed(k, cl, sv)
  /\ cl.next = "tree_connect" \/ cl.told = <<"success">> => KnownTo(k) /\ SameKey(cl, sv)
  /\ cl.next # "none" => cl.user # None

Agrees(k, cl, sv, q, r) ==
  ClientOf(k, cl) /\ ServerOf(k, sv) /\ Spoken(k, cl, sv) /\ UnderWay(k, cl, sv, q, r) /\ Stage(k, cl, sv, q, r)
LoginInvariant ==
  OneEnd /\ conf \in Parties /\ faults \in 0 .. MaxFaults /\ Agrees(conf, client, server, c2s, s2c)

LEMMA WrappedHolds ==
  ASSUME NEW type \in 1 .. 3, NEW len \in LengthsOf(type), NEW means, NEW auth, auth.wrap \in BOOLEAN,
         NEW token, token = Token(type, len, means)
  PROVE  LET b == Wrapped(token, EnvelopeOf(type, token.bytes), auth) IN Holds(type, b) /\ b.means = means
<1> DEFINE plain == BytesOf(type, len, FALSE)
           env == EnvelopeOf(type, token.bytes)
<1>1. token.bytes = plain /\ token.means = means /\ token = [bytes |-> token.bytes, means |-> means]
  BY DEF Token, BytesOf
<1>2. env = BytesOf(type, len, TRUE)
  BY <1>1 DEF BytesOf, Token
<1> HIDE DEF env, plain
<1>3. CASE auth.wrap
  <2> DEFINE b == Wrapped(token, env, auth)
  <2>1. b = [token EXCEPT !.bytes = env]
    BY <1>3 DEF Wrapped
  <2>2. b.bytes = env /\ b.means = means
    BY <1>1, <2>1
  <2> HIDE DEF b
  <2>3. b.bytes = BytesOf(type, len, TRUE)
    BY <1>2, <2>2
  <2>4. Holds(type, b)
    BY <2>3, Zenon DEF Holds
  <2> QED BY <2>2, <2>4 DEF b, env
<1>4. CASE ~auth.wrap
  <2>1. Wrapped(token, env, auth) = token
    BY <1>4 DEF Wrapped
  <2>2. token.bytes = BytesOf(type, len, FALSE)
    BY <1>1 DEF plain
  <2>3. Holds(type, token)
    BY <2>2, Zenon DEF Holds
  <2> QED BY <1>1, <2>1, <2>3 DEF env
<1> QED BY <1>3, <1>4

LEMMA FirstMade ==
  ASSUME NEW s, NEW auth, IsAuth(auth)
  PROVE  \E b : ntlmssp_generate_blob(<<>>, s, auth, NoBlob, FALSE) = Answer(TRUE, s, auth, b) /\ FirstBlob(b)
<1> DEFINE token == encode_ntlm_negotiate_message
           b == Wrapped(token, smb2_spnego_wrap_gssapi(token.bytes), auth)
<1>1. token = Token(NEGOTIATE_MESSAGE, 32, [from |-> "client"])
  BY DEF encode_ntlm_negotiate_message
<1>2. 32 \in LengthsOf(NEGOTIATE_MESSAGE) /\ NEGOTIATE_MESSAGE \in 1 .. 3
  BY DEF LengthsOf, NEGOTIATE_MESSAGE, CHALLENGE_MESSAGE, AUTHENTICATION_MESSAGE
<1>3. \A x : EnvelopeOf(NEGOTIATE_MESSAGE, x) = smb2_spnego_wrap_gssapi(x)
  BY DEF EnvelopeOf, NEGOTIATE_MESSAGE, CHALLENGE_MESSAGE, AUTHENTICATION_MESSAGE
<1>4. auth.wrap \in BOOLEAN
  BY DEF IsAuth
<1>5. ntlmssp_generate_blob(<<>>, s, auth, NoBlob, FALSE) = Answer(TRUE, s, auth, b)
  BY DEF ntlmssp_generate_blob
<1> HIDE DEF token
<1>6. LET c == Wrapped(token, EnvelopeOf(NEGOTIATE_MESSAGE, token.bytes), auth)
      IN Holds(NEGOTIATE_MESSAGE, c) /\ c.means = [from |-> "client"]
  BY <1>1, <1>2, <1>4, WrappedHolds
<1>7. b = Wrapped(token, EnvelopeOf(NEGOTIATE_MESSAGE, token.bytes), auth)
  BY <1>3
<1>8. FirstBlob(b)
  BY <1>6, <1>7 DEF FirstBlob
<1> QED BY <1>5, <1>8

LEMMA LastLengths ==
  ASSUME NEW n \in {0, 16}, NEW u \in {0, 16}, NEW i \in {44, 124}
  PROVE  72 + n + u + 16 + 44 + i \in LengthsOf(AUTHENTICATION_MESSAGE)
<1>1. n + u \in {0, 16, 32} /\ 72 + n + u + 16 + 44 + i = 132 + (n + u) + i
  OBVIOUS
<1>2. LengthsOf(AUTHENTICATION_MESSAGE) = {72} \cup {132 + m + j : m \in {0, 16, 32}, j \in {44, 124}}
  BY DEF LengthsOf, NEGOTIATE_MESSAGE, CHALLENGE_MESSAGE, AUTHENTICATION_MESSAGE
<1>3. \E m \in {0, 16, 32}, j \in {44, 124} : 132 + (n + u) + i = 132 + m + j
  BY <1>1
<1> QED BY <1>1, <1>2, <1>3

(* What the client reads of the challenge.                                 *)
LEMMA DecodedIs ==
  ASSUME NEW auth, IsAuth(auth), NEW name, NEW blob, ChallengeBlob(blob)
  PROVE  LET d == ntlm_decode_challenge_message(auth, name, blob.means)
         IN /\ IsAuth(d) /\ d.user = auth.user /\ d.workstation = auth.workstation /\ d.wrap = auth.wrap
            /\ InfoLen(d.info) \in {44, 124}
<1> DEFINE info == blob.means.info
           d == ntlm_decode_challenge_message(auth, name, blob.means)
<1>1. \A h : /\ <<"time">> # <<>> /\ <<h, h, "dns", h, "time">> # <<>>
             /\ Len(Append(<<"time">>, name)) = 2 /\ Len(Append(<<h, h, "dns", h, "time">>, name)) = 6
  OBVIOUS
<1>2. info # <<>> /\ Len(Append(info, name)) \in {2, 6}
  BY <1>1 DEF ChallengeBlob
<1>3. \E x : d = [auth EXCEPT !.target = x, !.info = IF info = <<>> THEN <<>> ELSE Append(info, name)]
  BY DEF ntlm_decode_challenge_message
<1>4. PICK x : d = [auth EXCEPT !.target = x, !.info = IF info = <<>> THEN <<>> ELSE Append(info, name)]
  BY <1>3
<1>5. d = [auth EXCEPT !.target = x, !.info = Append(info, name)]
  BY <1>2, <1>4
<1> DEFINE u == Append(info, name)
<1>6. Len(u) \in {2, 6}
  BY <1>2
<1> HIDE DEF d, u, info
<1>7. /\ IsAuth(d) /\ d.user = auth.user /\ d.workstation = auth.workstation /\ d.wrap = auth.wrap
      /\ d.info = u
  BY <1>5 DEF IsAuth, u
<1>8. InfoLen(u) \in {44, 124}
  <2>1. InfoLen(u) = (20 * Len(u)) + 4
    BY DEF InfoLen
  <2> DEFINE n == Len(u)
  <2> HIDE DEF n
  <2>2. \A i \in {2, 6} : (20 * i) + 4 \in {44, 124}
    OBVIOUS
  <2>3. n \in {2, 6} => (20 * n) + 4 \in {44, 124}
    BY <2>2
  <2> QED BY <1>6, <2>1, <2>3 DEF n
<1> QED BY <1>7, <1>8 DEF d

(* What it answers: with the proof of its password, or as nobody.          *)
LEMMA AuthMade ==
  ASSUME NEW k, NEW s, s.password = k.client.password, NEW auth, IsAuth(auth), auth.user = k.client.user,
         auth.workstation = "workstation", InfoLen(auth.info) \in {44, 124}, NEW means
  PROVE  LET made == encode_ntlm_auth(s, auth, means)
             b == Wrapped(made.token, smb2_spnego_wrap_ntlmssp_auth(made.token.bytes), made.auth)
         IN /\ IsAuth(made.auth) /\ made.auth.user = auth.user /\ made.auth.workstation = auth.workstation
            /\ LastBlob(k, b)
<1> DEFINE temp == encode_temp(means.challenge, "client", auth.info)
           key == NTOWFv2(auth.user, s.password, s.domain)
           proof == HMAC(key, temp)
           made == encode_ntlm_auth(s, auth, means)
           anonymous == s.password = Zero
           nobody == [user |-> None, domain |-> None, workstation |-> None, response |-> <<>>]
           somebody == [user |-> auth.user, domain |-> s.domain, workstation |-> auth.workstation,
                        response |-> <<proof, temp>>]
           long == 72 + NameLen(s.domain) + NameLen(auth.user) + NameLen(auth.workstation) + 44 + InfoLen(auth.info)
<1>1. /\ made.auth = [auth EXCEPT !.password = s.password, !.domain = s.domain,
                                  !.exported_session_key = IF anonymous THEN @ ELSE HMAC(key, proof)]
      /\ made.token = IF anonymous THEN Token(AUTHENTICATION_MESSAGE, 72, nobody)
                      ELSE Token(AUTHENTICATION_MESSAGE, long, somebody)
  BY DEF encode_ntlm_auth
<1>2. /\ IsAuth(made.auth) /\ made.auth.user = auth.user /\ made.auth.workstation = auth.workstation
  <2> HIDE DEF key, proof, made, anonymous
  <2> QED BY <1>1 DEF IsAuth
<1>3. NameLen(s.domain) \in {0, 16} /\ NameLen(auth.user) \in {0, 16} /\ NameLen(auth.workstation) = 16
  BY DEF NameLen, None, Empty
<1>4. long \in LengthsOf(AUTHENTICATION_MESSAGE)
  <2> DEFINE n == NameLen(s.domain)
             u == NameLen(auth.user)
             i == InfoLen(auth.info)
  <2>1. n \in {0, 16} /\ u \in {0, 16} /\ i \in {44, 124} /\ long = 72 + n + u + 16 + 44 + i
    BY <1>3
  <2> HIDE DEF n, u, i
  <2> QED BY <2>1, LastLengths
<1>5. 72 \in LengthsOf(AUTHENTICATION_MESSAGE) /\ AUTHENTICATION_MESSAGE \in 1 .. 3
  BY DEF LengthsOf, NEGOTIATE_MESSAGE, CHALLENGE_MESSAGE, AUTHENTICATION_MESSAGE
<1>6. DOMAIN nobody = {"user", "domain", "workstation", "response"} /\ DOMAIN somebody = {"user", "domain", "workstation", "response"}
  OBVIOUS
<1>7. anonymous => Proves(k, nobody)
  BY DEF Proves
<1>8. ~anonymous => Proves(k, somebody)
  <2>1. somebody.response = <<HMAC(NTOWFv2(k.client.user, k.client.password, somebody.domain), temp), temp>>
    OBVIOUS
  <2> HIDE DEF temp
  <2> QED BY <2>1 DEF Proves
<1>9. \A x : EnvelopeOf(AUTHENTICATION_MESSAGE, x) = smb2_spnego_wrap_ntlmssp_auth(x)
  BY DEF EnvelopeOf, NEGOTIATE_MESSAGE, CHALLENGE_MESSAGE, AUTHENTICATION_MESSAGE
<1> DEFINE b == Wrapped(made.token, smb2_spnego_wrap_ntlmssp_auth(made.token.bytes), made.auth)
<1>10. b = Wrapped(made.token, EnvelopeOf(AUTHENTICATION_MESSAGE, made.token.bytes), made.auth)
  BY <1>9
<1>11. \E len, m :
         /\ len \in LengthsOf(AUTHENTICATION_MESSAGE)
         /\ made.token = Token(AUTHENTICATION_MESSAGE, len, m)
         /\ DOMAIN m = {"user", "domain", "workstation", "response"} /\ Proves(k, m)
  <2> HIDE DEF long, nobody, somebody, made, anonymous
  <2> QED BY <1>1, <1>4, <1>5, <1>6, <1>7, <1>8
<1>12. PICK len, m :
         /\ len \in LengthsOf(AUTHENTICATION_MESSAGE)
         /\ made.token = Token(AUTHENTICATION_MESSAGE, len, m)
         /\ DOMAIN m = {"user", "domain", "workstation", "response"} /\ Proves(k, m)
  BY <1>11
<1> DEFINE token == made.token
           a == made.auth
<1>13. token = Token(AUTHENTICATION_MESSAGE, len, m) /\ a.wrap \in BOOLEAN
  BY <1>2, <1>12 DEF IsAuth
<1>14. LET c == Wrapped(token, EnvelopeOf(AUTHENTICATION_MESSAGE, token.bytes), a)
       IN Holds(AUTHENTICATION_MESSAGE, c) /\ c.means = m
  <2> HIDE DEF token, a
  <2>1. len \in LengthsOf(AUTHENTICATION_MESSAGE)
    BY <1>12
  <2> QED BY <1>5, <1>13, <2>1, WrappedHolds
<1>15. LastBlob(k, b)
  <2> HIDE DEF made
  <2> QED BY <1>10, <1>12, <1>14 DEF LastBlob
<1> QED BY <1>2, <1>15

LEMMA LastMade ==
  ASSUME NEW k, NEW s, IsContext(s), s.password = k.client.password, s.user = k.client.user,
         Begun(s), NEW blob, ChallengeBlob(blob)
  PROVE  LET made == ntlmssp_generate_blob(<<>>, s, s.auth[1], blob, FALSE)
         IN /\ IsAuth(made.auth) /\ made.auth.user = s.user /\ made.auth.workstation = "workstation"
            /\ made.ok \in BOOLEAN /\ (made.ok => LastBlob(k, made.blob))
<1> DEFINE auth == s.auth[1]
           head == ntlmssp_get_message_type(blob)
           opened == [auth EXCEPT !.wrap = @ \/ head.wrapped]
           decoded == ntlm_decode_challenge_message(opened, s.server, blob.means)
           learns == decoded.domain = None /\ decoded.target # None
           known == IF learns THEN [s EXCEPT !.domain = decoded.target] ELSE s
           made == encode_ntlm_auth(known, decoded, blob.means)
           gen == ntlmssp_generate_blob(<<>>, s, auth, blob, FALSE)
<1>1. head.type = 2
  <2>1. CHALLENGE_MESSAGE \in 1 .. 3 /\ CHALLENGE_MESSAGE = 2
    BY DEF CHALLENGE_MESSAGE
  <2>2. Holds(CHALLENGE_MESSAGE, blob)
    BY DEF ChallengeBlob
  <2> QED BY <2>1, <2>2, HeldArrives
<1>2. blob # NoBlob
  <2>1. DOMAIN NoBlob.means = {"from"} /\ DOMAIN blob.means = {"challenge", "target", "info"}
    BY DEF NoBlob, ChallengeBlob
  <2>2. "from" \notin {"challenge", "target", "info"}
    OBVIOUS
  <2> QED BY <2>1, <2>2
<1>3. IsAuth(auth) /\ auth.user = s.user /\ auth.workstation = "workstation"
  BY DEF Begun
<1>4. gen = Answers(<<>>, s, auth, blob, head, FALSE)
  BY <1>2 DEF ntlmssp_generate_blob
<1>5. Answers(<<>>, s, auth, blob, head, FALSE) = ClientAnswers(s, opened, blob, 2)
  <2> HIDE DEF head, auth
  <2> QED BY <1>1 DEF Answers
<1>6. IsAuth(opened) /\ opened.user = s.user /\ opened.workstation = "workstation"
  <2> HIDE DEF head, auth
  <2> QED BY <1>3 DEF IsAuth
<1> HIDE DEF opened
<1>7. IsAuth(decoded) /\ decoded.user = s.user /\ decoded.workstation = "workstation" /\ InfoLen(decoded.info) \in {44, 124}
  BY <1>6, DecodedIs
<1>8. ClientAnswers(s, opened, blob, 2)
        = IF known.password # Zero /\ opened.user = None THEN Answer(FALSE, known, made.auth, NoBlob)
          ELSE Answer(TRUE, known, made.auth,
                 Wrapped(made.token, smb2_spnego_wrap_ntlmssp_auth(made.token.bytes), made.auth))
  BY DEF ClientAnswers, CHALLENGE_MESSAGE
<1> HIDE DEF decoded
<1>9. known.password = k.client.password
  BY DEF IsContext, Fields
<1> HIDE DEF known
<1> DEFINE b == Wrapped(made.token, smb2_spnego_wrap_ntlmssp_auth(made.token.bytes), made.auth)
<1>10. /\ IsAuth(made.auth) /\ made.auth.user = s.user /\ made.auth.workstation = "workstation"
       /\ LastBlob(k, b)
  <2>1. decoded.user = k.client.user
    BY <1>7
  <2>2. LET md == encode_ntlm_auth(known, decoded, blob.means)
            bb == Wrapped(md.token, smb2_spnego_wrap_ntlmssp_auth(md.token.bytes), md.auth)
        IN /\ IsAuth(md.auth) /\ md.auth.user = decoded.user /\ md.auth.workstation = decoded.workstation
           /\ LastBlob(k, bb)
    BY <1>7, <1>9, <2>1, AuthMade
  <2> QED BY <1>7, <2>2
<1> HIDE DEF made, b, gen
<1>11. gen = Answer(FALSE, known, made.auth, NoBlob) \/ gen = Answer(TRUE, known, made.auth, b)
  BY <1>4, <1>5, <1>8 DEF b
<1>12. gen.auth = made.auth /\ (gen.ok = FALSE \/ (gen.ok = TRUE /\ gen.blob = b))
  BY <1>11 DEF Answer
<1> QED BY <1>10, <1>12 DEF gen, auth

-----------------------------------------------------------------------------
(* The callbacks of the client.                                            *)
EndedFrom(d, s, status) ==
  /\ d.sends = <<>> /\ Alike(d.smb2, s) /\ d.smb2.open = s.open /\ d.smb2.sign = s.sign
  /\ d.smb2.dialect = s.dialect /\ d.smb2.told = <<status>> /\ d.smb2.c_data = "freed"
  /\ d.smb2.next = "none" /\ d.smb2.auth = <<>> /\ d.smb2.session_key = s.session_key
  /\ d.smb2.signing_key = s.signing_key

LEMMA EndsFrom ==
  ASSUME NEW s, IsContext(s), s.told = <<>>, NEW status
  PROVE  EndedFrom(Told(s, status), s, status)
<1> DEFINE d == Told(s, status)
<1>1. /\ d.sends = <<>> /\ Alike(d.smb2, s) /\ d.smb2.open = s.open /\ d.smb2.sign = s.sign
      /\ d.smb2.dialect = s.dialect /\ d.smb2.told = <<status>> /\ d.smb2.c_data = "freed"
      /\ d.smb2.next = "none" /\ d.smb2.auth = <<>> /\ d.smb2.session_key = s.session_key
      /\ d.smb2.signing_key = s.signing_key
  BY ToldIs
<1> HIDE DEF d
<1> QED BY <1>1 DEF EndedFrom, d

(* Failing from a context like another is failing from that.               *)
LEMMA FailedLike ==
  ASSUME NEW s, NEW t, Alike(t, s), t.sign = s.sign, t.dialect = s.dialect, NEW d, FailedFrom(d, t)
  PROVE  FailedFrom(d, s)
  BY DEF FailedFrom, Alike

(* Hashing what was sent changes nothing else.                             *)
LEMMA SentHashed ==
  ASSUME NEW s, NEW command, NEW d, SentFrom(d, s, command), DOMAIN d = {"smb2", "sends"}, NEW said
  PROVE  LET e == [d EXCEPT !.smb2 = smb3_update_preauth_hash(@, said)]
         IN SentFrom(e, s, command) /\ e.smb2.auth = d.smb2.auth /\ e.sends = d.sends
<1> DEFINE h == smb3_update_preauth_hash(d.smb2, said)
           e == [d EXCEPT !.smb2 = smb3_update_preauth_hash(@, said)]
<1>1. e = [d EXCEPT !.smb2 = h]
  OBVIOUS
<1>2. IsContext(d.smb2)
  BY DEF SentFrom, Alike
<1>3. /\ Steady(h, d.smb2) /\ h.session_key = d.smb2.session_key /\ h.signing_key = d.smb2.signing_key
      /\ h.auth = d.smb2.auth
  BY <1>2, HashSteady
<1> HIDE DEF h
<1>4. e.smb2 = h /\ e.sends = d.sends
  BY <1>1
<1> HIDE DEF e
<1>5. SentFrom(e, s, command)
  BY <1>3, <1>4 DEF SentFrom, Steady, Alike
<1> QED BY <1>3, <1>4, <1>5 DEF e

LEMMA SetupIs ==
  ASSUME NEW s, IsContext(s), s.told = <<>>, NEW made, made.ok \in BOOLEAN, NEW blob, NEW oom \in BOOLEAN
  PROVE  LET d == SetupMade(s, made, blob, oom)
         IN \/ FailedFrom(d, s)
            \/ /\ made.ok /\ SentFrom(d, s, "session_setup") /\ d.smb2.auth = <<made.auth>>
               /\ d.sends[1].body = [blob |-> made.blob]
<1> DEFINE with == [s EXCEPT !.auth = <<made.auth>>, !.domain = made.smb2.domain]
           body == [blob |-> made.blob]
           sent == Sends(with, Message("session_setup", "success", body), "session_setup")
           said == IF blob = NoBlob THEN "setup 1" ELSE "setup 2"
           hashed == [sent EXCEPT !.smb2 = smb3_update_preauth_hash(@, said)]
           d == SetupMade(s, made, blob, oom)
<1>1. d = IF ~made.ok THEN Fails(with, "refused") ELSE IF oom THEN Fails(with, "no memory") ELSE hashed
  BY DEF SetupMade
<1>2. /\ IsContext(with) /\ Steady(with, s) /\ with.auth = <<made.auth>> /\ with.session_key = s.session_key
      /\ with.signing_key = s.signing_key
  BY DEF IsContext, Fields, Steady, Alike
<1> HIDE DEF with, said, body
<1>3. FailedFrom(Fails(with, "refused"), s) /\ FailedFrom(Fails(with, "no memory"), s)
  <2>1. with.told = <<>> /\ Alike(with, s) /\ with.sign = s.sign /\ with.dialect = s.dialect
    BY <1>2 DEF Steady
  <2>2. {"refused", "no memory"} \subseteq LoginStatuses \ {"success"}
    BY DEF LoginStatuses
  <2>3. FailedFrom(Fails(with, "refused"), with) /\ FailedFrom(Fails(with, "no memory"), with)
    BY <1>2, <2>1, <2>2, FailsFrom
  <2> QED BY <2>1, <2>3, FailedLike
<1>4. /\ SentFrom(sent, with, "session_setup") /\ sent.smb2.auth = with.auth /\ sent.sends[1].body = body
      /\ DOMAIN sent = {"smb2", "sends"}
  BY <1>2, SendsFrom
<1> HIDE DEF sent
<1>5. SentFrom(hashed, with, "session_setup") /\ hashed.smb2.auth = <<made.auth>> /\ hashed.sends[1].body = body
  BY <1>2, <1>4, SentHashed
<1> HIDE DEF hashed, d
<1>6. SentFrom(hashed, s, "session_setup")
  BY <1>2, <1>5 DEF SentFrom, Steady, Alike
<1> QED BY <1>1, <1>3, <1>5, <1>6 DEF d, body

(* With the answer to its token the client has the key, when it needs one. *)
KeyedAs(t, s, m) ==
  /\ Steady(t, s) /\ t.auth = s.auth /\ Len(t.session_key) <= 1
  /\ s.sign => t.signing_key # Zero /\ m.signature \in {<<>>, <<smb2_calc_signature(t)>>}
SessionIs(d, s, m) ==
  \/ FailedFrom(d, s)
  \/ /\ m.status = "more_processing" /\ SentFrom(d, s, "session_setup") /\ Begun(d.smb2)
     /\ LastBlob(conf, d.sends[1].body.blob)
  \/ /\ m.status = "success"
     /\ \E t : /\ Steady(t, s) /\ t.auth = s.auth /\ Len(t.session_key) <= 1
               /\ \/ EndedFrom(d, t, "wrong signature")
                  \/ /\ KeyedAs(t, s, m)
                     /\ EndedFrom(d, t, "success") \/ (SentFrom(d, t, "tree_connect") /\ d.smb2.auth = s.auth)

LEMMA SessionCallback ==
  ASSUME NEW s, ClientOf(conf, s), s.told = <<>>, s.sign \in BOOLEAN, s.seal \in BOOLEAN, Begun(s), NEW m,
         m.status \in LoginStatuses, m.status = "more_processing" => ChallengeBlob(m.body.blob),
         NEW oom \in BOOLEAN
  PROVE  SessionIs(session_setup_cb(s, m, oom), s, m)
<1> DEFINE key == ntlmssp_get_session_key(s.auth[1])
           keyed == s.sign \/ s.seal \/ s.dialect = SMB2_VERSION_0311
           given == [s EXCEPT !.session_key = <<key>>]
           keys == smb2_create_signing_key(given)
           ready == IF keyed THEN keys ELSE s
           heard == smb3_update_preauth_hash(s, "setup 1 answered")
           tree == Message("tree_connect", "success", [blob |-> NoBlob])
           d == session_setup_cb(s, m, oom)
<1>1. d = IF m.status = "more_processing" THEN send_session_setup_request(heard, m.body.blob, oom)
          ELSE IF m.status # "success" THEN Fails(s, m.status)
          ELSE IF keyed /\ s.sign /\ key = Zero THEN Fails(s, "no key")
          ELSE IF keyed /\ WrongSignature(keys, m) THEN Told(keys, "wrong signature")
          ELSE IF conf.client.passthrough THEN Told(ready, "success")
          ELSE IF oom THEN Fails(ready, "no memory")
          ELSE Sends(ready, tree, "tree_connect")
  BY DEF session_setup_cb
<1>2. IsContext(s) /\ Len(s.session_key) <= 1
  BY DEF ClientOf, ContextOk
<1> HIDE DEF key
<1>3. Steady(s, s)
  BY <1>2 DEF Steady, Alike
<1>4. /\ Steady(keys, s) /\ keys.auth = s.auth /\ Len(keys.session_key) <= 1
      /\ key # Zero => keys.signing_key # Zero
  <2>1. Steady(given, s) /\ given.session_key = <<key>> /\ given.auth = s.auth
    BY <1>2, SessionKeySteady
  <2> HIDE DEF given
  <2>2. IsContext(given)
    BY <2>1 DEF Steady, Alike
  <2>3. /\ Steady(keys, given) /\ keys.session_key = given.session_key /\ keys.auth = given.auth
        /\ \A x : given.session_key = <<x>> /\ x # Zero => keys.signing_key # Zero
    BY <2>2, KeySteady
  <2>4. Len(<<key>>) = 1
    OBVIOUS
  <2>5. Steady(keys, s)
    BY <2>1, <2>3, SteadySteps
  <2> HIDE DEF keys
  <2> QED BY <2>1, <2>3, <2>4, <2>5
<1> HIDE DEF keys, given
<1>5. Steady(ready, s) /\ ready.auth = s.auth /\ Len(ready.session_key) <= 1
  BY <1>2, <1>3, <1>4
<1>6. (s.sign => key # Zero /\ ~WrongSignature(keys, m)) => KeyedAs(ready, s, m)
  BY <1>4, <1>5 DEF KeyedAs, WrongSignature
<1>7. s.sign => keyed
  OBVIOUS
<1> HIDE DEF ready, keyed, tree
<1>8. IsContext(ready) /\ ready.told = <<>> /\ IsContext(keys) /\ keys.told = <<>>
  BY <1>4, <1>5 DEF Steady, Alike
<1>9. CASE m.status = "more_processing"
  <2>1. Steady(heard, s) /\ heard.auth = s.auth
    BY <1>2, HashSteady
  <2> DEFINE blob == m.body.blob
             made == ntlmssp_generate_blob(<<>>, heard, heard.auth[1], blob, FALSE)
  <2>2. d = SetupMade(heard, made, blob, oom)
    BY <1>1, <1>9 DEF send_session_setup_request
  <2> HIDE DEF heard
  <2>3. IsContext(heard) /\ heard.told = <<>> /\ heard.password = conf.client.password /\ heard.user = conf.client.user
        /\ Begun(heard) /\ ChallengeBlob(blob) /\ heard.user = s.user
    BY <1>9, <2>1 DEF Steady, Alike, ClientOf, Begun
  <2> HIDE DEF blob
  <2>4. /\ IsAuth(made.auth) /\ made.auth.user = heard.user /\ made.auth.workstation = "workstation"
        /\ made.ok \in BOOLEAN /\ (made.ok => LastBlob(conf, made.blob))
    BY <2>3, LastMade
  <2> HIDE DEF made
  <2>5. \/ FailedFrom(d, heard)
        \/ /\ made.ok /\ SentFrom(d, heard, "session_setup") /\ d.smb2.auth = <<made.auth>>
           /\ d.sends[1].body = [blob |-> made.blob]
    BY <2>2, <2>3, <2>4, SetupIs
  <2> HIDE DEF d
  <2>6. CASE FailedFrom(d, heard)
    <3>1. FailedFrom(d, s)
      BY <2>1, <2>6, FailedLike DEF Steady
    <3> QED BY <3>1 DEF SessionIs, d
  <2>7. CASE /\ made.ok /\ SentFrom(d, heard, "session_setup") /\ d.smb2.auth = <<made.auth>>
             /\ d.sends[1].body = [blob |-> made.blob]
    <3>1. SentFrom(d, s, "session_setup")
      <4>1. heard.session_key = s.session_key /\ heard.signing_key = s.signing_key
        BY <1>2, HashSteady DEF heard
      <4> QED BY <2>1, <2>7, <4>1 DEF SentFrom, Steady, Alike
    <3>2. d.sends[1].body.blob = made.blob
      BY <2>7
    <3>3. d.smb2.auth[1] = made.auth /\ d.smb2.auth = <<d.smb2.auth[1]>>
      BY <2>7
    <3>4. d.smb2.user = s.user
      BY <3>1 DEF SentFrom, Alike
    <3>5. Begun(d.smb2)
      BY <2>3, <2>4, <3>3, <3>4 DEF Begun
    <3>6. LastBlob(conf, d.sends[1].body.blob)
      BY <2>4, <2>7, <3>2
    <3> QED BY <1>9, <3>1, <3>5, <3>6 DEF SessionIs, d
  <2> QED BY <2>5, <2>6, <2>7
<1> HIDE DEF heard
<1>10. CASE m.status \notin {"more_processing", "success"}
  <2>1. d = Fails(s, m.status) /\ m.status \in LoginStatuses \ {"success"}
    BY <1>1, <1>10
  <2> HIDE DEF d
  <2>2. FailedFrom(d, s)
    BY <1>2, <2>1, FailsFrom
  <2> QED BY <2>2 DEF SessionIs, d
<1>11. CASE m.status = "success"
  <2>1. \/ d = Fails(s, "no key")
        \/ d = Told(keys, "wrong signature")
        \/ d = Fails(ready, "no memory")
        \/ /\ d = Told(ready, "success") \/ d = Sends(ready, tree, "tree_connect")
           /\ s.sign => key # Zero /\ ~WrongSignature(keys, m)
    <3>1. m.status # "more_processing"
      BY <1>11
    <3> HIDE DEF d
    <3> QED BY <1>1, <1>7, <1>11, <3>1
  <2> HIDE DEF d
  <2>2. {"no key", "no memory"} \subseteq LoginStatuses \ {"success"}
    BY DEF LoginStatuses
  <2>3. CASE d = Fails(s, "no key")
    <3>1. FailedFrom(d, s)
      BY <1>2, <2>2, <2>3, FailsFrom
    <3> QED BY <3>1 DEF SessionIs, d
  <2>4. CASE d = Fails(ready, "no memory")
    <3>1. FailedFrom(d, ready)
      BY <1>8, <2>2, <2>4, FailsFrom
    <3>2. FailedFrom(d, s)
      BY <1>5, <3>1, FailedLike DEF Steady
    <3> QED BY <3>2 DEF SessionIs, d
  <2>5. CASE d = Told(keys, "wrong signature")
    <3>1. EndedFrom(d, keys, "wrong signature")
      BY <1>8, <2>5, EndsFrom
    <3> QED BY <1>4, <1>11, <3>1 DEF SessionIs, d
  <2>6. CASE d = Told(ready, "success") /\ KeyedAs(ready, s, m)
    <3>1. EndedFrom(d, ready, "success")
      BY <1>8, <2>6, EndsFrom
    <3> QED BY <1>5, <1>11, <2>6, <3>1 DEF SessionIs, d
  <2>7. CASE d = Sends(ready, tree, "tree_connect") /\ KeyedAs(ready, s, m)
    <3>1. SentFrom(d, ready, "tree_connect") /\ d.smb2.auth = ready.auth
      BY <1>8, <2>7, SendsFrom DEF tree
    <3>2. d.smb2.auth = s.auth
      BY <1>5, <3>1
    <3> QED BY <1>5, <1>11, <2>7, <3>1, <3>2 DEF SessionIs, d
  <2> QED BY <1>6, <2>1, <2>3, <2>4, <2>5, <2>6, <2>7
<1> QED BY <1>9, <1>10, <1>11

(* With the answer to NEGOTIATE it has the dialect, and signs if the       *)
(* server requires it.                                                     *)
SpeaksAs(t, s, m) ==
  /\ Alike(t, s) /\ t.open = s.open /\ t.told = s.told /\ t.c_data = s.c_data /\ t.sign \in BOOLEAN
  /\ t.dialect = m.body.dialect /\ t.session_key = s.session_key
NegotiateIs(d, s, m) ==
  \/ FailedFrom(d, s)
  \/ \E t : m.status = "success" /\ SpeaksAs(t, s, m) /\ FailedFrom(d, t)
  \/ \E t : /\ m.status = "success" /\ SpeaksAs(t, s, m) /\ SentFrom(d, t, "session_setup")
            /\ "required" \in m.body.mode /\ ~s.seal => t.sign
            /\ Begun(d.smb2) /\ FirstBlob(d.sends[1].body.blob)

LEMMA NegotiateCallback ==
  ASSUME NEW s, IsContext(s), s.told = <<>>, s.sign \in BOOLEAN, s.seal \in BOOLEAN, conf.client.wraps \in BOOLEAN,
         NEW m, m.status \in LoginStatuses, NEW oom \in BOOLEAN
  PROVE  NegotiateIs(negotiate_cb(s, m, oom), s, m)
<1> DEFINE heard == smb3_update_preauth_hash(s, "negotiate answered")
           spoken == [heard EXCEPT !.dialect = m.body.dialect]
           required == "required" \in m.body.mode
           agreed == [spoken EXCEPT !.sign = (@ \/ required) /\ ~s.seal]
           auth == ntlmssp_init_context(s.user, s.password, s.domain, "workstation")
           wrapped == [auth EXCEPT !.wrap = conf.client.wraps]
           begun == [agreed EXCEPT !.auth = <<wrapped>>]
           d == negotiate_cb(s, m, oom)
<1>1. d = IF m.status # "success" THEN Fails(heard, m.status)
          ELSE IF s.seal /\ m.body.dialect \in {SMB2_VERSION_0300, SMB2_VERSION_0302} /\ ~m.body.encrypts
          THEN Fails(spoken, "no encryption")
          ELSE IF s.sign /\ "enabled" \notin m.body.mode THEN Fails(spoken, "no signing")
          ELSE send_session_setup_request(begun, NoBlob, oom)
  BY DEF negotiate_cb
<1>2. Steady(heard, s) /\ heard.session_key = s.session_key
  BY HashSteady
<1>3. IsAuth(wrapped) /\ wrapped.user = s.user /\ wrapped.workstation = "workstation"
  <2>1. /\ DOMAIN auth = {"user", "password", "domain", "workstation", "wrap", "ok", "target", "info",
                          "exported_session_key"}
        /\ auth.user = s.user /\ auth.workstation = "workstation"
    BY DEF ntlmssp_init_context
  <2> HIDE DEF auth
  <2> QED BY <2>1 DEF IsAuth
<1> HIDE DEF heard, wrapped, auth
<1>4. SpeaksAs(spoken, s, m) /\ spoken.sign = s.sign
  BY <1>2 DEF SpeaksAs, Steady, Alike, IsContext, Fields
<1> HIDE DEF spoken, required
<1>5. SpeaksAs(agreed, s, m) /\ agreed.sign = ((s.sign \/ required) /\ ~s.seal)
  BY <1>4 DEF SpeaksAs, Alike, IsContext, Fields
<1> HIDE DEF agreed
<1>6. SpeaksAs(begun, s, m) /\ begun.sign = agreed.sign /\ begun.auth = <<wrapped>>
  BY <1>5 DEF SpeaksAs, Alike, IsContext, Fields
<1> HIDE DEF begun
<1>7. CASE d = Fails(heard, m.status) /\ m.status # "success"
  <2>1. IsContext(heard) /\ heard.told = <<>>
    BY <1>2 DEF Steady, Alike
  <2> HIDE DEF d
  <2>2. FailedFrom(d, heard)
    BY <1>7, <2>1, FailsFrom
  <2>3. FailedFrom(d, s)
    BY <1>2, <2>2, FailedLike DEF Steady
  <2> QED BY <2>3 DEF NegotiateIs, d
<1>8. CASE m.status = "success" /\ (d = Fails(spoken, "no encryption") \/ d = Fails(spoken, "no signing"))
  <2>1. IsContext(spoken) /\ spoken.told = <<>>
    BY <1>4 DEF SpeaksAs, Alike
  <2>2. {"no encryption", "no signing"} \subseteq LoginStatuses \ {"success"}
    BY DEF LoginStatuses
  <2> HIDE DEF d
  <2>3. FailedFrom(d, spoken)
    BY <1>8, <2>1, <2>2, FailsFrom
  <2> QED BY <1>4, <1>8, <2>3 DEF NegotiateIs, d
<1>9. CASE m.status = "success" /\ d = send_session_setup_request(begun, NoBlob, oom)
  <2> DEFINE made == ntlmssp_generate_blob(<<>>, begun, begun.auth[1], NoBlob, FALSE)
  <2>1. d = SetupMade(begun, made, NoBlob, oom)
    BY <1>9 DEF send_session_setup_request
  <2>2. begun.auth[1] = wrapped /\ IsContext(begun) /\ begun.told = <<>>
    BY <1>6 DEF SpeaksAs, Alike
  <2> DEFINE w == begun.auth[1]
  <2>3. IsAuth(w)
    BY <1>3, <2>2
  <2>4. PICK b : ntlmssp_generate_blob(<<>>, begun, w, NoBlob, FALSE) = Answer(TRUE, begun, w, b) /\ FirstBlob(b)
    <3> HIDE DEF w
    <3> QED BY <2>3, FirstMade
  <2>5. made.ok = TRUE /\ made.auth = w /\ made.blob = b
    <3>1. made = Answer(TRUE, begun, w, b)
      BY <2>4
    <3> HIDE DEF made, w
    <3> QED BY <3>1 DEF Answer
  <2> HIDE DEF made, d, w
  <2>6. \/ FailedFrom(d, begun)
        \/ /\ made.ok /\ SentFrom(d, begun, "session_setup") /\ d.smb2.auth = <<made.auth>>
           /\ d.sends[1].body = [blob |-> made.blob]
    <3>1. made.ok \in BOOLEAN
      BY <2>5
    <3> QED BY <2>1, <2>2, <3>1, SetupIs
  <2>7. CASE FailedFrom(d, begun)
    BY <1>6, <1>9, <2>7 DEF NegotiateIs, d
  <2>8. CASE /\ SentFrom(d, begun, "session_setup") /\ d.smb2.auth = <<made.auth>>
             /\ d.sends[1].body = [blob |-> made.blob]
    <3>1. d.sends[1].body.blob = b /\ d.smb2.auth[1] = w /\ d.smb2.auth = <<d.smb2.auth[1]>>
      BY <2>5, <2>8
    <3>2. d.smb2.user = s.user
      BY <1>6, <2>8 DEF SentFrom, SpeaksAs, Alike
    <3>3. Begun(d.smb2)
      BY <1>3, <2>2, <2>3, <3>1, <3>2 DEF Begun, w
    <3>4. FirstBlob(d.sends[1].body.blob)
      BY <2>4, <3>1
    <3>5. "required" \in m.body.mode /\ ~s.seal => begun.sign
      BY <1>5, <1>6 DEF required
    <3> QED BY <1>6, <1>9, <2>8, <3>3, <3>4, <3>5 DEF NegotiateIs, d
  <2> QED BY <2>6, <2>7, <2>8
<1> QED BY <1>1, <1>7, <1>8, <1>9

ConnectIs(d, s) ==
  \/ EndedFrom(d, s, "no memory")
  \/ /\ SentFrom(d, s, "negotiate") /\ d.smb2.auth = s.auth
     /\ d.sends[1].body.dialects = Dialects(s.version) /\ d.sends[1].body.mode = conf.client.mode
LEMMA ConnectCallback ==
  ASSUME NEW s, IsContext(s), s.told = <<>>, NEW oom \in BOOLEAN
  PROVE  ConnectIs(connect_cb(s, TRUE, oom), s) /\ EndedFrom(connect_cb(s, FALSE, FALSE), s, "not connected")
<1> DEFINE begun == smb3_init_preauth_hash(s)
           body == [dialects |-> Dialects(s.version), encrypts |-> Encrypts(s.version), mode |-> conf.client.mode]
           sent == Sends(begun, Message("negotiate", "success", body), "negotiate")
           hashed == [sent EXCEPT !.smb2 = smb3_update_preauth_hash(@, "negotiate")]
           d == connect_cb(s, TRUE, oom)
<1>1. connect_cb(s, FALSE, FALSE) = Told(s, "not connected") /\ d = IF oom THEN Told(begun, "no memory") ELSE hashed
  BY DEF connect_cb
<1>2. EndedFrom(Told(s, "not connected"), s, "not connected")
  BY EndsFrom
<1>3. /\ Steady(begun, s) /\ begun.session_key = s.session_key /\ begun.signing_key = s.signing_key
      /\ begun.auth = s.auth
  BY InitHashSteady
<1>4. IsContext(begun) /\ begun.told = <<>>
  BY <1>3 DEF Steady, Alike
<1>5. body.dialects = Dialects(s.version) /\ body.mode = conf.client.mode
  OBVIOUS
<1> HIDE DEF begun, body
<1>6. EndedFrom(Told(begun, "no memory"), begun, "no memory")
  BY <1>4, EndsFrom
<1>7. /\ SentFrom(sent, begun, "negotiate") /\ sent.smb2.auth = begun.auth /\ sent.sends[1].body = body
      /\ DOMAIN sent = {"smb2", "sends"}
  BY <1>4, SendsFrom
<1> HIDE DEF sent
<1>8. SentFrom(hashed, begun, "negotiate") /\ hashed.smb2.auth = sent.smb2.auth /\ hashed.sends = sent.sends
  BY <1>7, SentHashed
<1> HIDE DEF hashed, d
<1>9. CASE d = Told(begun, "no memory")
  <2>1. EndedFrom(d, s, "no memory")
    BY <1>3, <1>6, <1>9 DEF EndedFrom, Steady, Alike
  <2> QED BY <1>1, <1>2, <2>1 DEF ConnectIs, d
<1>10. CASE d = hashed
  <2>1. SentFrom(d, s, "negotiate")
    BY <1>3, <1>8, <1>10 DEF SentFrom, Steady, Alike
  <2>2. /\ d.smb2.auth = s.auth /\ d.sends[1].body.dialects = Dialects(s.version)
        /\ d.sends[1].body.mode = conf.client.mode
    BY <1>3, <1>5, <1>7, <1>8, <1>10
  <2> QED BY <1>1, <1>2, <2>1, <2>2 DEF ConnectIs, d
<1> QED BY <1>1, <1>9, <1>10

LEMMA TreeCallback ==
  ASSUME NEW s, IsContext(s), s.told = <<>>, NEW status \in LoginStatuses
  PROVE  LET d == tree_connect_cb(s, status)
         IN FailedFrom(d, s) \/ (status = "success" /\ EndedFrom(d, s, "success"))
<1>1. tree_connect_cb(s, status) = IF status # "success" THEN Fails(s, status) ELSE Told(s, "success")
  BY DEF tree_connect_cb
<1>2. CASE status # "success"
  <2>1. FailedFrom(Fails(s, status), s)
    BY <1>2, FailsFrom
  <2> QED BY <1>1, <1>2, <2>1
<1>3. CASE status = "success"
  <2>1. EndedFrom(Told(s, "success"), s, "success")
    BY EndsFrom
  <2> QED BY <1>1, <1>3, <2>1
<1> QED BY <1>2, <1>3

-----------------------------------------------------------------------------
(* What a step of the client leaves, as far as it does not depend on where *)
(* it is.                                                                  *)
Tellings == {<<>>} \cup {<<status>> : status \in LoginStatuses}
LEMMA ClientMoves ==
  ASSUME NEW k, NEW cl, NEW sv, ClientOf(k, cl), ServerOf(k, sv), Spoken(k, cl, sv),
         NEW t, Alike(t, cl), t.open \in BOOLEAN, t.sign \in BOOLEAN, t.dialect \in {cl.dialect, sv.dialect},
         t.next \in Commands \cup {"none", "connect"}, t.c_data \in {"none", "held", "freed", "refused", "lost"},
         t.told \in Tellings, Len(t.session_key) <= 1, Len(t.auth) <= 1
  PROVE  ClientOf(k, t) /\ Spoken(k, t, sv)
<1>1. \A i \in DOMAIN t.told : t.told[i] \in LoginStatuses
  <2>1. CASE t.told = <<>>
    BY <2>1
  <2>2. ASSUME NEW status \in LoginStatuses, t.told = <<status>> PROVE \A i \in DOMAIN t.told : t.told[i] \in LoginStatuses
    BY <2>2
  <2> QED BY <2>1, <2>2 DEF Tellings
<1>2. t.dialect = 0 \/ Contains(Dialects("any"), t.dialect)
  BY DEF ClientOf, ServerOf, ContextOk
<1>3. ContextOk(t)
  BY <1>1, <1>2 DEF ContextOk, ClientOf, Alike
<1> QED BY <1>3 DEF ClientOf, Alike, Spoken

LEMMA NothingSent ==
  ASSUME NEW k, NEW cl, NEW sv, NEW q, NEW r, UnderWay(k, cl, sv, q, r)
  PROVE  q \o <<>> = q
<1>1. \A m : <<m>> \o <<>> = <<m>>
  OBVIOUS
<1>2. CASE q = <<>>
  BY <1>2
<1>3. CASE q = <<q[1]>>
  <2>1. PICK m : q = <<m>>
    BY <1>3
  <2> QED BY <1>1, <2>1
<1> QED BY <1>2, <1>3 DEF UnderWay

LEMMA GoneAgrees ==
  ASSUME NEW k, NEW cl, NEW sv, NEW q, NEW r, Agrees(k, cl, sv, q, r),
         NEW s, Alike(s, cl), s.sign \in BOOLEAN, s.dialect = cl.dialect \/ (q = <<>> /\ s.dialect = sv.dialect),
         NEW d, FailedFrom(d, s)
  PROVE  Agrees(k, d.smb2, sv, q \o d.sends, <<>>)
<1> DEFINE t == d.smb2
<1>1. q \o d.sends = q
  BY NothingSent DEF Agrees, FailedFrom
<1>2. PICK status \in LoginStatuses \ {"success"} : t.told = <<status>>
  BY DEF FailedFrom
<1>3. t.told \in Tellings /\ t.told # <<"success">> /\ t.told # <<>>
  <2>1. <<status>> # <<"success">> /\ <<status>> # <<>>
    BY <1>2
  <2> QED BY <1>2, <2>1 DEF Tellings
<1>4. Alike(t, cl) /\ t.open = FALSE /\ t.sign \in BOOLEAN /\ t.dialect = s.dialect /\ t.next = "none"
      /\ t.c_data = "freed" /\ t.session_key = <<>> /\ t.auth = <<>>
  BY DEF FailedFrom, Alike
<1>5. Len(t.session_key) <= 1 /\ Len(t.auth) <= 1
  BY <1>4
<1> HIDE DEF t
<1>6. ClientOf(k, t) /\ Spoken(k, t, sv)
  BY <1>3, <1>4, <1>5, ClientMoves DEF Agrees
<1>7. Stage(k, t, sv, q, <<>>)
  BY <1>3, <1>4 DEF Stage, Commands
<1>8. UnderWay(k, t, sv, q, <<>>)
  <2>1. q # <<>> => q = <<q[1]>> /\ Asked(k, q[1], cl, sv)
    BY DEF Agrees, UnderWay
  <2>2. q # <<>> => Asked(k, q[1], t, sv)
    BY <1>4, <2>1 DEF Asked
  <2> QED BY <2>1, <2>2 DEF UnderWay
<1> QED BY <1>1, <1>6, <1>7, <1>8 DEF Agrees, t

LEMMA EndedAgrees ==
  ASSUME NEW k, NEW cl, NEW sv, NEW q, NEW r, Agrees(k, cl, sv, q, r), q = <<>>,
         NEW s, Alike(s, cl), s.open \in BOOLEAN, s.sign \in BOOLEAN, s.dialect = cl.dialect, Len(s.session_key) <= 1,
         NEW status \in LoginStatuses, NEW d, EndedFrom(d, s, status),
         status = "success" => s.open /\ Agreed(k, s, sv) /\ KnownTo(k) /\ SameKey(s, sv)
  PROVE  Agrees(k, d.smb2, sv, q \o d.sends, <<>>)
<1> DEFINE t == d.smb2
<1>1. q \o d.sends = <<>>
  BY DEF EndedFrom
<1>2. /\ Alike(t, cl) /\ t.open = s.open /\ t.sign = s.sign /\ t.dialect = s.dialect /\ t.next = "none"
      /\ t.c_data = "freed" /\ t.session_key = s.session_key /\ t.auth = <<>> /\ t.told = <<status>>
      /\ t.signing_key = s.signing_key
  BY DEF EndedFrom, Alike
<1>3. t.told \in Tellings /\ t.told # <<>> /\ (t.told = <<"success">> => status = "success")
  BY <1>2 DEF Tellings
<1>4. Len(t.session_key) <= 1 /\ Len(t.auth) <= 1
  BY <1>2
<1> HIDE DEF t
<1>5. ClientOf(k, t) /\ Spoken(k, t, sv)
  BY <1>2, <1>3, <1>4, ClientMoves DEF Agrees
<1>6. status = "success" => Agreed(k, t, sv) /\ SameKey(t, sv)
  BY <1>2 DEF Agreed, SameKey
<1>7. Stage(k, t, sv, <<>>, <<>>)
  BY <1>2, <1>3, <1>6 DEF Stage, Commands
<1>8. UnderWay(k, t, sv, <<>>, <<>>)
  BY DEF UnderWay
<1> QED BY <1>1, <1>5, <1>7, <1>8 DEF Agrees, t

LEMMA SentAgrees ==
  ASSUME NEW k, NEW cl, NEW sv, NEW q, NEW r, Agrees(k, cl, sv, q, r), q = <<>>, cl.told = <<>>, cl.c_data = "held",
         cl.user # None,
         NEW s, Alike(s, cl), s.open, s.sign \in BOOLEAN, s.open \in BOOLEAN, s.dialect \in {cl.dialect, sv.dialect},
         s.told = <<>>, s.c_data = "held", Len(s.session_key) <= 1,
         NEW command \in Commands, NEW d, SentFrom(d, s, command), Len(d.smb2.auth) <= 1,
         command = "negotiate" => s.dialect = 0 /\ sv.password = Zero
                                  /\ d.sends[1].body.dialects = Dialects(k.client.version)
                                  /\ d.sends[1].body.mode = k.client.mode,
         command = "session_setup" => Begun(d.smb2) /\ Agreed(k, s, sv) /\ sv.password = Zero
                                  /\ (FirstBlob(d.sends[1].body.blob)
                                      \/ (LastBlob(k, d.sends[1].body.blob) /\ Challenged(sv))),
         command = "tree_connect" => Agreed(k, s, sv) /\ KnownTo(k) /\ SameKey(s, sv)
  PROVE  Agrees(k, d.smb2, sv, q \o d.sends, <<>>)
<1> DEFINE t == d.smb2
           m == d.sends[1]
<1>1. q \o d.sends = <<m>>
  BY DEF SentFrom
<1>2. /\ Alike(t, cl) /\ t.open = s.open /\ t.sign = s.sign /\ t.dialect = s.dialect /\ t.next = command
      /\ t.c_data = "held" /\ t.session_key = s.session_key /\ t.told = <<>> /\ t.signing_key = s.signing_key
      /\ t.user = cl.user
  BY DEF SentFrom, Alike
<1>3. t.told \in Tellings /\ t.told # <<"success">>
  <2>1. <<"success">> # <<>>
    OBVIOUS
  <2> QED BY <1>2, <2>1 DEF Tellings
<1>4. MessageOk(m) /\ m.status = "success" /\ m.command = command
  BY DEF SentFrom, MessageOk, LoginStatuses
<1>5. <<m>>[1] = m
  OBVIOUS
<1> HIDE DEF t, m
<1>6. ClientOf(k, t) /\ Spoken(k, t, sv)
  BY <1>2, <1>3, ClientMoves DEF Agrees, t
<1>7. command = "session_setup" \/ command = "tree_connect" => Agreed(k, t, sv)
  BY <1>2 DEF Agreed
<1>8. command = "tree_connect" => SameKey(t, sv)
  BY <1>2 DEF SameKey
<1>9. Stage(k, t, sv, <<m>>, <<>>)
  BY <1>2, <1>3, <1>7, <1>8 DEF Stage, Commands, t
<1>10. Asked(k, m, t, sv)
  BY <1>2, <1>4 DEF Asked, t, m
<1>11. UnderWay(k, t, sv, <<m>>, <<>>)
  BY <1>5, <1>10 DEF UnderWay
<1> QED BY <1>1, <1>6, <1>9, <1>11 DEF Agrees, t

LEMMA BrokenAgrees ==
  ASSUME NEW k, NEW cl, NEW sv, NEW r, Agrees(k, cl, sv, <<>>, r)
  PROVE  Agrees(k, [cl EXCEPT !.broken = TRUE], sv, <<>>, <<>>)
<1> DEFINE t == [cl EXCEPT !.broken = TRUE]
<1>1. IsContext(cl)
  BY DEF Agrees, ClientOf
<1>2. /\ IsContext(t) /\ t.open = cl.open /\ t.version = cl.version /\ t.seal = cl.seal /\ t.sign = cl.sign
      /\ t.dialect = cl.dialect /\ t.user = cl.user /\ t.password = cl.password /\ t.session_key = cl.session_key
      /\ t.signing_key = cl.signing_key /\ t.auth = cl.auth /\ t.next = cl.next /\ t.told = cl.told
      /\ t.c_data = cl.c_data /\ t.broken = TRUE
  BY <1>1 DEF IsContext, Fields
<1> HIDE DEF t
<1>3. ClientOf(k, t)
  <2>1. ContextOk(t)
    BY <1>2 DEF Agrees, ClientOf, ContextOk
  <2> QED BY <1>2, <2>1 DEF Agrees, ClientOf
<1>4. Spoken(k, t, sv) /\ ServerOf(k, sv)
  BY <1>2 DEF Agrees, Spoken
<1>5. UnderWay(k, t, sv, <<>>, <<>>)
  BY DEF UnderWay
<1>6. Stage(k, t, sv, <<>>, <<>>)
  BY <1>2 DEF Agrees, Stage, Begun, Agreed, SameKey
<1> QED BY <1>3, <1>4, <1>5, <1>6 DEF Agrees, t

(* What the client's callbacks make of a reply.                            *)
LEMMA SameKeys ==
  ASSUME NEW cl, NEW sv, NEW m, Signed(m, sv), NEW t, KeyedAs(t, cl, m)
  PROVE  SameKey(t, sv)
<1> SUFFICES ASSUME t.sign, sv.open, sv.sign PROVE t.signing_key = sv.signing_key /\ t.signing_key # Zero
  BY DEF SameKey
<1>1. m.signature = <<smb2_calc_signature(sv)>> /\ t.signing_key # Zero
      /\ m.signature \in {<<>>, <<smb2_calc_signature(t)>>}
  BY DEF Signed, KeyedAs, Steady
<1>2. \A x, y : <<x>> # <<>> /\ (<<x>> = <<y>> => x = y)
  OBVIOUS
<1> DEFINE x == smb2_calc_signature(sv)
           y == smb2_calc_signature(t)
<1>3. x = y
  <2> HIDE DEF x, y
  <2>1. <<x>> = <<y>>
    BY <1>1, <1>2 DEF x, y
  <2> QED BY <1>2, <2>1
<1>4. x.key = sv.signing_key /\ y.key = t.signing_key
  BY DEF smb2_calc_signature
<1> HIDE DEF x, y
<1> QED BY <1>1, <1>3, <1>4

LEMMA HearsNegotiate ==
  ASSUME NEW cl, NEW sv, NEW r, Agrees(conf, cl, sv, <<>>, r), cl.told = <<>>, cl.c_data = "held", cl.open,
         cl.next = "negotiate", conf.client.wraps \in BOOLEAN,
         NEW m, Replied(conf, m, cl, sv), NEW oom \in BOOLEAN
  PROVE  LET d == negotiate_cb(cl, m, oom) IN Agrees(conf, d.smb2, sv, <<>> \o d.sends, <<>>)
<1> DEFINE d == negotiate_cb(cl, m, oom)
           none == <<>>
<1>1. /\ IsContext(cl) /\ cl.sign \in BOOLEAN /\ cl.seal \in BOOLEAN /\ cl.open \in BOOLEAN
      /\ Len(cl.session_key) <= 1 /\ cl.seal = conf.client.seal
  BY DEF Agrees, ClientOf, ContextOk
<1>2. /\ m.status \in LoginStatuses /\ m.body.dialect = sv.dialect /\ sv.dialect # 0 /\ sv.password = Zero
      /\ (MustSign(conf) => sv.sign /\ "required" \in m.body.mode)
  BY DEF Replied, MessageOk
<1>3. NegotiateIs(d, cl, m)
  BY <1>1, <1>2, NegotiateCallback
<1>4. Alike(cl, cl) /\ cl.user # None
  BY <1>1 DEF Alike, Agrees, Stage
<1> HIDE DEF d, none
<1>5. Agrees(conf, cl, sv, none, r) /\ none = <<>>
  BY DEF none
<1>6. CASE FailedFrom(d, cl)
  <2>1. Agrees(conf, d.smb2, sv, none \o d.sends, <<>>)
    BY <1>1, <1>4, <1>5, <1>6, GoneAgrees
  <2> QED BY <2>1 DEF d, none
<1>7. ASSUME NEW t, SpeaksAs(t, cl, m), FailedFrom(d, t) PROVE Agrees(conf, d.smb2, sv, none \o d.sends, <<>>)
  <2>1. Alike(t, cl) /\ t.sign \in BOOLEAN /\ t.dialect = sv.dialect
    BY <1>2, <1>7 DEF SpeaksAs
  <2> QED BY <1>5, <1>7, <2>1, GoneAgrees
<1>8. ASSUME NEW t, SpeaksAs(t, cl, m), SentFrom(d, t, "session_setup"), "required" \in m.body.mode /\ ~cl.seal => t.sign,
             Begun(d.smb2), FirstBlob(d.sends[1].body.blob)
      PROVE  Agrees(conf, d.smb2, sv, none \o d.sends, <<>>)
  <2>1. /\ Alike(t, cl) /\ t.sign \in BOOLEAN /\ t.dialect = sv.dialect /\ t.open /\ t.open \in BOOLEAN
        /\ t.told = <<>> /\ t.c_data = "held" /\ Len(t.session_key) <= 1
    BY <1>1, <1>2, <1>8 DEF SpeaksAs
  <2>2. Agreed(conf, t, sv)
    BY <1>1, <1>2, <1>8, <2>1 DEF Agreed, MustSign
  <2>3. Len(d.smb2.auth) <= 1
    <3>1. PICK x : d.smb2.auth = <<x>>
      BY <1>8 DEF Begun
    <3> QED BY <3>1
  <2>4. "session_setup" \in Commands /\ t.dialect \in {cl.dialect, sv.dialect}
    BY <2>1 DEF Commands
  <2> QED BY <1>2, <1>4, <1>5, <1>8, <2>1, <2>2, <2>3, <2>4, SentAgrees
<1>9. Agrees(conf, d.smb2, sv, none \o d.sends, <<>>)
  BY <1>3, <1>6, <1>7, <1>8 DEF NegotiateIs, d, none
<1> QED BY <1>9 DEF d, none

LEMMA HearsSession ==
  ASSUME NEW cl, NEW sv, NEW r, Agrees(conf, cl, sv, <<>>, r), cl.told = <<>>, cl.c_data = "held", cl.open,
         cl.next = "session_setup", NEW m, Replied(conf, m, cl, sv), NEW oom \in BOOLEAN
  PROVE  LET d == session_setup_cb(cl, m, oom) IN Agrees(conf, d.smb2, sv, <<>> \o d.sends, <<>>)
<1> DEFINE d == session_setup_cb(cl, m, oom)
           none == <<>>
<1>1. /\ ClientOf(conf, cl) /\ cl.sign \in BOOLEAN /\ cl.seal \in BOOLEAN /\ cl.open \in BOOLEAN
      /\ Len(cl.session_key) <= 1 /\ IsContext(cl)
  BY DEF Agrees, ClientOf, ContextOk
<1>2. /\ m.command = "session_setup" /\ m.status \in LoginStatuses
      /\ m.status = "more_processing" => ChallengeBlob(m.body.blob) /\ Challenged(sv)
      /\ m.status = "success" => KnownTo(conf) /\ Signed(m, sv)
  BY DEF Replied, MessageOk
<1>3. Begun(cl) /\ Agreed(conf, cl, sv) /\ cl.user # None
  BY DEF Agrees, Stage
<1>4. SessionIs(d, cl, m)
  BY <1>1, <1>2, <1>3, SessionCallback
<1>5. Alike(cl, cl)
  BY <1>1 DEF Alike
<1> HIDE DEF d, none
<1>6. Agrees(conf, cl, sv, none, r) /\ none = <<>>
  BY DEF none
<1>7. CASE FailedFrom(d, cl)
  <2>1. Agrees(conf, d.smb2, sv, none \o d.sends, <<>>)
    BY <1>1, <1>5, <1>6, <1>7, GoneAgrees
  <2> QED BY <2>1 DEF d, none
<1>8. CASE /\ m.status = "more_processing" /\ SentFrom(d, cl, "session_setup") /\ Begun(d.smb2)
           /\ LastBlob(conf, d.sends[1].body.blob)
  <2>1. Len(d.smb2.auth) <= 1
    <3>1. PICK x : d.smb2.auth = <<x>>
      BY <1>8 DEF Begun
    <3> QED BY <3>1
  <2>2. Challenged(sv) /\ sv.password = Zero
    BY <1>2, <1>8 DEF Challenged
  <2>3. "session_setup" \in Commands /\ cl.dialect \in {cl.dialect, sv.dialect}
    BY DEF Commands
  <2>4. Agrees(conf, d.smb2, sv, none \o d.sends, <<>>)
    BY <1>1, <1>3, <1>5, <1>6, <1>8, <2>1, <2>2, <2>3, SentAgrees
  <2> QED BY <2>4 DEF d, none
<1>9. ASSUME m.status = "success", NEW t, Steady(t, cl), t.auth = cl.auth, Len(t.session_key) <= 1,
             \/ EndedFrom(d, t, "wrong signature")
             \/ /\ KeyedAs(t, cl, m)
                /\ EndedFrom(d, t, "success") \/ (SentFrom(d, t, "tree_connect") /\ d.smb2.auth = cl.auth)
      PROVE Agrees(conf, d.smb2, sv, none \o d.sends, <<>>)
  <2>1. /\ Alike(t, cl) /\ t.sign \in BOOLEAN /\ t.dialect = cl.dialect /\ t.open /\ t.open \in BOOLEAN
        /\ t.told = <<>> /\ t.c_data = "held"
    BY <1>1, <1>9 DEF Steady
  <2>2. Agreed(conf, t, sv)
    BY <1>3, <1>9 DEF Agreed, Steady
  <2>3. KnownTo(conf) /\ Signed(m, sv)
    BY <1>2, <1>9
  <2>4. KeyedAs(t, cl, m) => SameKey(t, sv)
    BY <2>3, SameKeys
  <2>5. {"wrong signature", "success"} \subseteq LoginStatuses /\ "tree_connect" \in Commands /\ "wrong signature" # "success"
    BY DEF LoginStatuses, Commands
  <2>6. CASE EndedFrom(d, t, "wrong signature")
    BY <1>6, <1>9, <2>1, <2>5, <2>6, EndedAgrees
  <2>7. CASE KeyedAs(t, cl, m) /\ EndedFrom(d, t, "success")
    BY <1>6, <1>9, <2>1, <2>2, <2>3, <2>4, <2>5, <2>7, EndedAgrees
  <2>8. CASE KeyedAs(t, cl, m) /\ SentFrom(d, t, "tree_connect") /\ d.smb2.auth = cl.auth
    <3>1. Len(d.smb2.auth) <= 1 /\ t.dialect \in {cl.dialect, sv.dialect}
      BY <1>1, <2>1, <2>8 DEF ClientOf, ContextOk
    <3> QED BY <1>3, <1>6, <1>9, <2>1, <2>2, <2>3, <2>4, <2>5, <2>8, <3>1, SentAgrees
  <2> QED BY <1>9, <2>6, <2>7, <2>8
<1>10. Agrees(conf, d.smb2, sv, none \o d.sends, <<>>)
  BY <1>4, <1>7, <1>8, <1>9 DEF SessionIs, d, none
<1> QED BY <1>10 DEF d, none

LEMMA HearsTree ==
  ASSUME NEW cl, NEW sv, NEW r, Agrees(conf, cl, sv, <<>>, r), cl.told = <<>>, cl.open,
         cl.next = "tree_connect", NEW status \in LoginStatuses
  PROVE  LET d == tree_connect_cb(cl, status) IN Agrees(conf, d.smb2, sv, <<>> \o d.sends, <<>>)
<1> DEFINE d == tree_connect_cb(cl, status)
           none == <<>>
<1>1. /\ IsContext(cl) /\ cl.sign \in BOOLEAN /\ cl.open \in BOOLEAN /\ Len(cl.session_key) <= 1
  BY DEF Agrees, ClientOf, ContextOk
<1>2. Agreed(conf, cl, sv) /\ KnownTo(conf) /\ SameKey(cl, sv)
  BY DEF Agrees, Stage
<1>3. FailedFrom(d, cl) \/ (status = "success" /\ EndedFrom(d, cl, "success"))
  BY <1>1, TreeCallback
<1>4. Alike(cl, cl)
  BY <1>1 DEF Alike
<1> HIDE DEF d, none
<1>5. Agrees(conf, cl, sv, none, r) /\ none = <<>>
  BY DEF none
<1>6. Agrees(conf, d.smb2, sv, none \o d.sends, <<>>)
  <2>1. CASE FailedFrom(d, cl)
    BY <1>1, <1>4, <1>5, <2>1, GoneAgrees
  <2>2. CASE status = "success" /\ EndedFrom(d, cl, "success")
    BY <1>1, <1>2, <1>4, <1>5, <2>2, EndedAgrees
  <2> QED BY <1>3, <2>1, <2>2
<1> QED BY <1>6 DEF d, none

-----------------------------------------------------------------------------
(* The steps of the client.                                                *)
Sides == Agrees(conf, client, server, c2s, s2c)
LEMMA SidesAfter ==
  ASSUME NEW k, NEW cl, NEW sv, NEW q, NEW r, Agrees(k, cl, sv, q, r),
         conf' = k, client' = cl, server' = sv, c2s' = q, s2c' = r
  PROVE  Sides'
  BY DEF Sides

LEMMA PartiesAre ==
  ASSUME conf \in Parties
  PROVE  /\ conf.client.version \in Versions /\ conf.server.version \in Versions
         /\ conf.client.seal \in BOOLEAN /\ conf.client.sign \in BOOLEAN /\ conf.client.wraps \in BOOLEAN
         /\ conf.server.seal \in BOOLEAN /\ conf.server.signing_enabled \in BOOLEAN
         /\ conf.server.allow_anonymous \in BOOLEAN
         /\ IsPassword(conf.client.password) /\ IsPassword(conf.server.password)
  BY PartiesAssumption

LEMMA WaitsHeld ==
  ASSUME OneEnd, client.next # "none"
  PROVE  client.told = <<>> /\ client.c_data = "held" /\ IsContext(client)
         /\ client.next \in {"connect", "negotiate", "session_setup", "tree_connect"}
  BY DEF OneEnd, Commands

LEMMA DidAgrees ==
  ASSUME NEW d, NEW rest, ClientDid(d, rest), rest = <<>> \/ ~d.smb2.open,
         Agrees(conf, d.smb2, server, c2s \o d.sends, <<>>)
  PROVE  Sides'
<1>1. client' = d.smb2 /\ c2s' = c2s \o d.sends /\ s2c' = <<>> /\ conf' = conf /\ server' = server
  BY DEF ClientDid
<1> QED BY <1>1, SidesAfter

(* A callback that is run at the end of the connection, or of the patience *)
(* with it.                                                                *)
LEMMA GivenUpAgrees ==
  ASSUME OneEnd, conf \in Parties, Sides, NEW status \in {"shutdown", "timeout"}, client.next # "none", GivenUp(status)
  PROVE  Sides'
<1> DEFINE over == Message("none", status, [dialect |-> 0])
           d == CASE client.next = "connect" -> connect_cb(client, FALSE, FALSE)
                  [] client.next = "negotiate" -> negotiate_cb(client, over, FALSE)
                  [] client.next = "session_setup" -> session_setup_cb(client, over, FALSE)
                  [] client.next = "tree_connect" -> tree_connect_cb(client, status)
<1>1. ClientDid(d, <<>>)
  BY DEF GivenUp
<1>2. over.status = status /\ status \in LoginStatuses /\ status \notin {"success", "more_processing"}
  BY DEF Message, LoginStatuses
<1> HIDE DEF over
<1>3. /\ client.told = <<>> /\ IsContext(client)
      /\ client.next \in {"connect", "negotiate", "session_setup", "tree_connect"}
  BY WaitsHeld
<1>4. /\ ClientOf(conf, client) /\ client.sign \in BOOLEAN /\ client.seal \in BOOLEAN /\ client.open \in BOOLEAN
      /\ Len(client.session_key) <= 1 /\ Agrees(conf, client, server, c2s, s2c) /\ Alike(client, client)
  BY <1>3 DEF Sides, Agrees, ClientOf, ContextOk, Alike
<1>5. CASE client.next = "connect"
  <2>1. d = connect_cb(client, FALSE, FALSE)
    BY <1>5
  <2>2. c2s = <<>>
    BY <1>4, <1>5 DEF Agrees, Stage
  <2> HIDE DEF d
  <2>3. EndedFrom(d, client, "not connected")
    BY <1>3, <2>1, ConnectCallback
  <2>4. "not connected" \in LoginStatuses
    BY DEF LoginStatuses
  <2>5. Agrees(conf, d.smb2, server, c2s \o d.sends, <<>>)
    BY <1>4, <2>2, <2>3, <2>4, EndedAgrees
  <2> QED BY <1>1, <2>5, DidAgrees
<1>6. CASE client.next # "connect"
  <2>1. \/ client.next = "negotiate" /\ d = negotiate_cb(client, over, FALSE)
        \/ client.next = "session_setup" /\ d = session_setup_cb(client, over, FALSE)
        \/ client.next = "tree_connect" /\ d = tree_connect_cb(client, status)
    BY <1>3, <1>6
  <2> HIDE DEF d
  <2>2. FailedFrom(d, client)
    <3>1. PICK no \in BOOLEAN : ~no
      OBVIOUS
    <3>2. CASE client.next = "negotiate" /\ d = negotiate_cb(client, over, FALSE)
      <4>1. conf.client.wraps \in BOOLEAN /\ FALSE \in BOOLEAN
        BY PartiesAre
      <4>2. NegotiateIs(negotiate_cb(client, over, FALSE), client, over)
        BY <1>2, <1>3, <1>4, <4>1, NegotiateCallback
      <4>3. NegotiateIs(d, client, over)
        BY <3>2, <4>2
      <4> QED BY <1>2, <4>3 DEF NegotiateIs
    <3>3. CASE client.next = "session_setup" /\ d = session_setup_cb(client, over, FALSE)
      <4>1. Begun(client)
        BY <1>4, <3>3 DEF Agrees, Stage
      <4>2. SessionIs(session_setup_cb(client, over, FALSE), client, over)
        BY <1>2, <1>3, <1>4, <4>1, SessionCallback
      <4>3. SessionIs(d, client, over)
        BY <3>3, <4>2
      <4> QED BY <1>2, <4>3 DEF SessionIs
    <3>4. CASE client.next = "tree_connect" /\ d = tree_connect_cb(client, status)
      BY <1>2, <1>3, <3>4, TreeCallback
    <3> QED BY <2>1, <3>2, <3>3, <3>4
  <2>3. Agrees(conf, d.smb2, server, c2s \o d.sends, <<>>)
    BY <1>4, <2>2, GoneAgrees
  <2> QED BY <1>1, <2>3, DidAgrees
<1> QED BY <1>5, <1>6

LEMMA ReadsAgrees ==
  ASSUME OneEnd, conf \in Parties, Sides, ClientReads
  PROVE  Sides'
<1>1. client.open /\ s2c # <<>> /\ client.next # "none"
  BY DEF ClientReads, ClientCanRead
<1>2. /\ s2c = <<s2c[1]>> /\ c2s = <<>> /\ Replied(conf, s2c[1], client, server)
      /\ Agrees(conf, client, server, <<>>, s2c)
  BY <1>1 DEF Sides, Agrees, UnderWay
<1>3. Head(s2c) = s2c[1] /\ Tail(s2c) = <<>>
  <2>1. \A x : Head(<<x>>) = x /\ Tail(<<x>>) = <<>>
    OBVIOUS
  <2>2. PICK x : s2c = <<x>>
    BY <1>2
  <2>3. s2c[1] = x
    BY <2>2
  <2> QED BY <2>1, <2>2, <2>3
<1> DEFINE m == s2c[1]
           d(oom) == CASE client.next = "negotiate" -> negotiate_cb(client, m, oom)
                       [] client.next = "session_setup" -> session_setup_cb(client, m, oom)
                       [] client.next = "tree_connect" -> tree_connect_cb(client, m.status)
           broken == Does([client EXCEPT !.broken = TRUE], <<>>)
<1>4. ClientDid(broken, <<>>) \/ \E oom \in BOOLEAN : ClientDid(d(oom), <<>>)
  BY <1>3 DEF ClientReads
<1>5. /\ client.told = <<>> /\ client.c_data = "held" /\ IsContext(client)
      /\ client.next \in {"connect", "negotiate", "session_setup", "tree_connect"}
  BY <1>1, WaitsHeld
<1>6. client.next # "connect" /\ conf.client.wraps \in BOOLEAN
  BY <1>1, PartiesAre DEF OneEnd
<1>7. m.status \in LoginStatuses /\ Replied(conf, m, client, server)
  BY <1>2 DEF Replied, MessageOk
<1> HIDE DEF m
<1>8. CASE ClientDid(broken, <<>>)
  <2>1. broken.smb2 = [client EXCEPT !.broken = TRUE] /\ broken.sends = <<>>
    BY DEF Does
  <2>2. Agrees(conf, broken.smb2, server, <<>>, <<>>)
    BY <1>2, <2>1, BrokenAgrees
  <2>3. c2s \o broken.sends = <<>>
    BY <1>2, <2>1
  <2> HIDE DEF broken
  <2> QED BY <1>8, <2>2, <2>3, DidAgrees
<1>9. ASSUME NEW oom \in BOOLEAN, ClientDid(d(oom), <<>>) PROVE Sides'
  <2> DEFINE e == d(oom)
  <2>1. \/ client.next = "negotiate" /\ e = negotiate_cb(client, m, oom)
        \/ client.next = "session_setup" /\ e = session_setup_cb(client, m, oom)
        \/ client.next = "tree_connect" /\ e = tree_connect_cb(client, m.status)
    BY <1>5, <1>6
  <2>2. ClientDid(e, <<>>)
    BY <1>9
  <2> HIDE DEF d, e
  <2>3. Agrees(conf, e.smb2, server, <<>> \o e.sends, <<>>)
    <3>1. CASE client.next = "negotiate" /\ e = negotiate_cb(client, m, oom)
      BY <1>1, <1>2, <1>5, <1>6, <1>7, <3>1, HearsNegotiate
    <3>2. CASE client.next = "session_setup" /\ e = session_setup_cb(client, m, oom)
      BY <1>1, <1>2, <1>5, <1>7, <3>2, HearsSession
    <3>3. CASE client.next = "tree_connect" /\ e = tree_connect_cb(client, m.status)
      BY <1>1, <1>2, <1>5, <1>7, <3>3, HearsTree
    <3> QED BY <2>1, <3>1, <3>2, <3>3
  <2>4. Agrees(conf, e.smb2, server, c2s \o e.sends, <<>>)
    BY <1>2, <2>3
  <2> QED BY <2>2, <2>4, DidAgrees
<1> QED BY <1>4, <1>8, <1>9

LEMMA AskedAgrees ==
  ASSUME OneEnd, Sides, smb2_connect_share_async
  PROVE  Sides'
<1>1. /\ client.c_data = "none" /\ client.next = "none" /\ client.told = <<>> /\ IsContext(client) /\ ~client.open
      /\ Agrees(conf, client, server, c2s, s2c)
  BY DEF smb2_connect_share_async, OneEnd, Sides
<1>2. /\ c2s = <<>> /\ s2c = <<>> /\ server.password = Zero /\ client.dialect = 0 /\ client.open \in BOOLEAN
      /\ client.sign \in BOOLEAN /\ Len(client.session_key) <= 1 /\ Len(client.auth) <= 1
  BY <1>1 DEF Agrees, Stage, ClientOf, ContextOk
<1>3. ASSUME NEW t, Alike(t, client), t.open = client.open, t.sign = client.sign, t.dialect = client.dialect,
             t.told = <<>>, t.session_key = client.session_key, t.auth = client.auth,
             \/ t.next = "none" /\ t.c_data \in {"lost", "refused"}
             \/ t.next = "connect" /\ t.c_data = "held" /\ client.user # None,
             client' = t
      PROVE  Sides'
  <2>1. t.told \in Tellings /\ t.told # <<"success">>
    <3>1. <<>> # <<"success">>
      OBVIOUS
    <3> QED BY <1>3, <3>1 DEF Tellings
  <2>2. ClientOf(conf, t) /\ Spoken(conf, t, server)
    <3>1. t.open \in BOOLEAN /\ t.sign \in BOOLEAN /\ t.dialect \in {client.dialect, server.dialect}
          /\ Len(t.session_key) <= 1 /\ Len(t.auth) <= 1
      BY <1>2, <1>3
    <3> QED BY <1>1, <1>3, <2>1, <3>1, ClientMoves DEF Agrees
  <2>3. UnderWay(conf, t, server, c2s, s2c)
    BY <1>2 DEF UnderWay
  <2>4. Stage(conf, t, server, c2s, s2c)
    BY <1>1, <1>2, <1>3, <2>1 DEF Stage, Commands, Alike
  <2>5. Agrees(conf, t, server, c2s, s2c)
    BY <1>1, <2>2, <2>3, <2>4 DEF Agrees
  <2> QED BY <1>3, <2>5, SidesAfter DEF smb2_connect_share_async
<1>4. ASSUME NEW kept \in {"lost", "refused"}, client' = [client EXCEPT !.c_data = kept] PROVE Sides'
  <2> DEFINE t == [client EXCEPT !.c_data = kept]
  <2>1. /\ Alike(t, client) /\ t.open = client.open /\ t.sign = client.sign /\ t.dialect = client.dialect
        /\ t.told = <<>> /\ t.session_key = client.session_key /\ t.auth = client.auth
        /\ t.next = "none" /\ t.c_data \in {"lost", "refused"}
    BY <1>1 DEF Alike, IsContext, Fields
  <2>2. client' = t
    BY <1>4
  <2> HIDE DEF t
  <2> QED BY <1>3, <2>1, <2>2
<1>5. ASSUME client.user # None, client' = [client EXCEPT !.c_data = "held", !.next = "connect"] PROVE Sides'
  <2> DEFINE t == [client EXCEPT !.c_data = "held", !.next = "connect"]
  <2>1. /\ Alike(t, client) /\ t.open = client.open /\ t.sign = client.sign /\ t.dialect = client.dialect
        /\ t.told = <<>> /\ t.session_key = client.session_key /\ t.auth = client.auth
        /\ t.next = "connect" /\ t.c_data = "held"
    BY <1>1 DEF Alike, IsContext, Fields
  <2>2. client' = t
    BY <1>5
  <2> HIDE DEF t
  <2> QED BY <1>3, <1>5, <2>1, <2>2
<1> QED BY <1>4, <1>5 DEF smb2_connect_share_async

LEMMA ConnectedAgrees ==
  ASSUME OneEnd, Sides, Connected
  PROVE  Sides'
<1>1. PICK ok \in BOOLEAN, oom \in BOOLEAN :
        LET d == connect_cb([client EXCEPT !.open = ok], ok, ok /\ oom)
        IN /\ client' = d.smb2 /\ c2s' = d.sends
           /\ server' = IF ok THEN [server EXCEPT !.open = TRUE, !.next = "negotiate"] ELSE server
  BY DEF Connected
<1> DEFINE s == [client EXCEPT !.open = ok]
           d == connect_cb(s, ok, ok /\ oom)
           sv == IF ok THEN [server EXCEPT !.open = TRUE, !.next = "negotiate"] ELSE server
<1>2. client.next = "connect" /\ conf' = conf /\ s2c' = s2c /\ client' = d.smb2 /\ c2s' = d.sends /\ server' = sv
  BY <1>1 DEF Connected
<1>3. /\ client.told = <<>> /\ client.c_data = "held" /\ IsContext(client) /\ ~client.open
      /\ Agrees(conf, client, server, c2s, s2c)
  BY <1>2 DEF OneEnd, Sides
<1>4. /\ c2s = <<>> /\ s2c = <<>> /\ server.password = Zero /\ client.dialect = 0 /\ client.user # None
      /\ client.sign \in BOOLEAN /\ Len(client.session_key) <= 1 /\ Len(client.auth) <= 1 /\ IsContext(server)
      /\ client.version = conf.client.version
  BY <1>2, <1>3 DEF Agrees, Stage, ClientOf, ContextOk, ServerOf
<1>5. /\ IsContext(s) /\ Alike(s, client) /\ s.open = ok /\ s.sign = client.sign /\ s.dialect = client.dialect
      /\ s.told = <<>> /\ s.c_data = "held" /\ s.session_key = client.session_key /\ s.auth = client.auth
      /\ s.version = client.version
  BY <1>3 DEF IsContext, Fields, Alike
<1>6. /\ IsContext(sv) /\ sv.open \in BOOLEAN /\ sv.version = server.version /\ sv.seal = server.seal
      /\ sv.sign = server.sign /\ sv.broken = server.broken /\ sv.dialect = server.dialect
      /\ sv.next \in {"negotiate", server.next} /\ sv.c_data = server.c_data /\ sv.told = server.told
      /\ sv.session_key = server.session_key /\ sv.auth = server.auth /\ sv.password = server.password
  <2>1. server.open \in BOOLEAN
    BY <1>3 DEF Agrees, ServerOf, ContextOk
  <2> QED BY <1>4, <2>1 DEF IsContext, Fields
<1> HIDE DEF sv
<1>7. Agrees(conf, client, sv, <<>>, <<>>)
  <2>1. ContextOk(sv)
    BY <1>3, <1>6 DEF Agrees, ServerOf, ContextOk, Commands
  <2>2. ServerOf(conf, sv) /\ Spoken(conf, client, sv)
    BY <1>3, <1>6, <2>1 DEF Agrees, ServerOf, Spoken
  <2>3. UnderWay(conf, client, sv, <<>>, <<>>)
    BY DEF UnderWay
  <2>4. Stage(conf, client, sv, <<>>, <<>>)
    BY <1>2, <1>3, <1>4, <1>6 DEF Agrees, Stage, Commands
  <2> QED BY <1>3, <2>2, <2>3, <2>4 DEF Agrees
<1> HIDE DEF s
<1> DEFINE none == <<>>
<1>8. none = <<>> /\ Agrees(conf, client, sv, none, none)
  BY <1>7
<1> HIDE DEF none
<1>9. Agrees(conf, d.smb2, sv, none \o d.sends, <<>>)
  <2>1. CASE ~ok
    <3>1. d = connect_cb(s, FALSE, FALSE)
      BY <2>1
    <3> HIDE DEF d
    <3>2. EndedFrom(d, s, "not connected")
      BY <1>5, <3>1, ConnectCallback
    <3>3. "not connected" \in LoginStatuses /\ "not connected" # "success" /\ s.open \in BOOLEAN
      BY <1>5 DEF LoginStatuses
    <3> QED BY <1>4, <1>5, <1>8, <3>2, <3>3, EndedAgrees
  <2>2. CASE ok
    <3>1. d = connect_cb(s, TRUE, oom)
      <4>1. ok = TRUE /\ (ok /\ oom) = oom
        BY <2>2
      <4> QED BY <4>1
    <3> HIDE DEF d
    <3>2. ConnectIs(d, s)
      BY <1>5, <3>1, ConnectCallback
    <3>3. /\ "no memory" \in LoginStatuses /\ "no memory" # "success" /\ s.open \in BOOLEAN /\ s.open
          /\ "negotiate" \in Commands
      BY <1>5, <2>2 DEF LoginStatuses, Commands
    <3>4. CASE EndedFrom(d, s, "no memory")
      BY <1>4, <1>5, <1>8, <3>3, <3>4, EndedAgrees
    <3>5. CASE /\ SentFrom(d, s, "negotiate") /\ d.smb2.auth = s.auth
               /\ d.sends[1].body.dialects = Dialects(s.version) /\ d.sends[1].body.mode = conf.client.mode
      <4>1. /\ s.dialect \in {client.dialect, sv.dialect} /\ Len(s.session_key) <= 1 /\ Len(d.smb2.auth) <= 1
            /\ s.dialect = 0 /\ sv.password = Zero /\ d.sends[1].body.dialects = Dialects(conf.client.version)
            /\ d.sends[1].body.mode = conf.client.mode /\ s.sign \in BOOLEAN
        BY <1>4, <1>5, <1>6, <3>5
      <4> QED BY <1>3, <1>4, <1>5, <1>8, <3>3, <3>5, <4>1, SentAgrees
    <3> QED BY <3>2, <3>4, <3>5 DEF ConnectIs
  <2> QED BY <2>1, <2>2
<1>10. none \o d.sends = d.sends
  <2> HIDE DEF d
  <2>1. d.sends = <<>> \/ \E x : d.sends = <<x>>
    <3>1. CASE ~ok
      <4>1. EndedFrom(connect_cb(s, FALSE, FALSE), s, "not connected")
        BY <1>5, ConnectCallback
      <4> QED BY <3>1, <4>1 DEF EndedFrom, d
    <3>2. CASE ok
      <4>1. ok = TRUE /\ (ok /\ oom) = oom
        BY <3>2
      <4>2. d = connect_cb(s, TRUE, oom)
        BY <4>1 DEF d
      <4>3. ConnectIs(d, s)
        BY <1>5, <4>2, ConnectCallback
      <4> QED BY <4>3 DEF ConnectIs, EndedFrom, SentFrom
    <3> QED BY <3>1, <3>2
  <2>2. \A x : <<>> \o <<x>> = <<x>>
    OBVIOUS
  <2> QED BY <1>8, <2>1, <2>2
<1> HIDE DEF d
<1>11. Agrees(conf, d.smb2, sv, d.sends, <<>>)
  BY <1>9, <1>10
<1> QED BY <1>2, <1>4, <1>11, SidesAfter

-----------------------------------------------------------------------------
(* What the server does with a message: it hangs up, or replies.           *)
Serves(t, s) ==
  /\ IsContext(t) /\ t.version = s.version /\ t.seal = s.seal /\ t.sign = s.sign /\ t.dialect = s.dialect
  /\ t.broken = s.broken /\ t.told = s.told /\ t.c_data = s.c_data
HungUp(d, s) ==
  /\ d.sends = <<>> /\ Serves(d.smb2, s) /\ ~d.smb2.open /\ d.smb2.open \in BOOLEAN
  /\ d.smb2.next = "none" /\ d.smb2.session_key = <<>> /\ d.smb2.auth = s.auth
RepliedFrom(d, s, command, status, next) ==
  /\ Serves(d.smb2, s) /\ d.smb2.open = s.open /\ d.smb2.password = s.password /\ d.smb2.next = next
  /\ d.smb2.session_id = s.session_id /\ d.smb2.session_key = s.session_key
  /\ d.smb2.signing_key = s.signing_key /\ d.smb2.auth = s.auth
  /\ d.sends = <<d.sends[1]>> /\ d.sends[1].command = command /\ d.sends[1].status = status
  /\ Len(d.sends[1].signature) <= 1 /\ Len(d.sends[1].sealed) <= 1

LEMMA HangsIs ==
  ASSUME NEW s, IsContext(s)
  PROVE  HungUp(Hangs(s), s)
<1> DEFINE c == smb2_close_context(s)
           t == [c EXCEPT !.next = "none"]
<1>1. IsContext(c) /\ Serves(c, s) /\ c.open = FALSE /\ c.session_key = <<>> /\ c.auth = s.auth
  BY CloseIs DEF Serves, Alike
<1> HIDE DEF c
<1>2. Serves(t, s) /\ t.open = FALSE /\ t.session_key = <<>> /\ t.auth = s.auth /\ t.next = "none"
  BY <1>1 DEF Serves, IsContext, Fields
<1>3. Hangs(s) = Does(t, <<>>)
  BY DEF Hangs, c
<1>4. Hangs(s).smb2 = t /\ Hangs(s).sends = <<>>
  BY <1>3 DEF Does
<1> HIDE DEF t
<1> QED BY <1>2, <1>4 DEF HungUp

(* A reply that grants the session is signed with the server's key.        *)
LEMMA RepliesIs ==
  ASSUME NEW s, IsContext(s), NEW command, NEW status, NEW body, NEW atOnce, NEW said, NEW next
  PROVE  LET d == ServerReplies(s, Message(command, status, body), atOnce, said, next)
         IN /\ RepliedFrom(d, s, command, status, next) /\ d.sends[1].body = body
            /\ command = "session_setup" /\ status = "success" /\ s.session_id # 0 /\ s.session_key # <<>>
                 => Signed(d.sends[1], d.smb2)
<1> DEFINE text == IF atOnce THEN "freed" ELSE said
           h == smb3_update_preauth_hash(s, text)
           t == [h EXCEPT !.next = next]
           q == smb2_queue_pdu(s, Message(command, status, body), TRUE)
           d == ServerReplies(s, Message(command, status, body), atOnce, said, next)
<1>1. d = Does(t, <<q>>)
  BY DEF ServerReplies
<1> HIDE DEF text
<1>2. /\ Steady(h, s) /\ h.session_key = s.session_key /\ h.signing_key = s.signing_key /\ h.auth = s.auth
  BY HashSteady
<1> HIDE DEF h
<1>3. /\ Serves(t, s) /\ t.open = s.open /\ t.password = s.password /\ t.next = next
      /\ t.session_id = s.session_id /\ t.session_key = s.session_key
      /\ t.signing_key = s.signing_key /\ t.auth = s.auth
  BY <1>2 DEF Serves, Steady, Alike, IsContext, Fields
<1>4. PICK yes \in BOOLEAN : yes
  OBVIOUS
<1>5. q = smb2_queue_pdu(s, Message(command, status, body), yes)
  BY <1>4
<1> HIDE DEF q, t
<1>6. /\ q.command = command /\ q.status = status /\ q.body = body
      /\ Len(q.signature) <= 1 /\ Len(q.sealed) <= 1
      /\ command = "session_setup" /\ status = "success" /\ yes /\ s.sign
         /\ s.session_id # 0 /\ s.session_key # <<>> => q.signature = <<smb2_calc_signature(s)>>
  BY <1>5, QueuedIs
<1>7. \A x : <<x>>[1] = x
  OBVIOUS
<1>8. d.smb2 = t /\ d.sends = <<q>> /\ d.sends[1] = q
  BY <1>1, <1>7 DEF Does
<1>9. smb2_calc_signature(t) = smb2_calc_signature(s) /\ t.sign = s.sign
  BY <1>3 DEF smb2_calc_signature, Serves
<1> HIDE DEF d
<1>10. RepliedFrom(d, s, command, status, next)
  BY <1>3, <1>6, <1>8 DEF RepliedFrom
<1>11. command = "session_setup" /\ status = "success" /\ s.session_id # 0 /\ s.session_key # <<>>
         => Signed(d.sends[1], d.smb2)
  BY <1>4, <1>6, <1>8, <1>9 DEF Signed
<1> QED BY <1>6, <1>8, <1>10, <1>11 DEF d

LEMMA RepliesAs ==
  ASSUME NEW s, IsContext(s), NEW command, NEW status, NEW body, NEW atOnce, NEW said, NEW next, NEW d,
         d = ServerReplies(s, Message(command, status, body), atOnce, said, next)
  PROVE  RepliedFrom(d, s, command, status, next) /\ d.sends[1].body = body
  BY RepliesIs

LEMMA SignsGranted ==
  ASSUME NEW s, IsContext(s), NEW body, NEW atOnce, NEW said, NEW next, NEW d,
         d = ServerReplies(s, Message("session_setup", "success", body), atOnce, said, next),
         s.session_id # 0, s.session_key # <<>>
  PROVE  Signed(d.sends[1], d.smb2)
  BY RepliesIs

LEMMA ServesStill ==
  ASSUME NEW k, NEW s, ServerOf(k, s), NEW t, Serves(t, s), t.open \in BOOLEAN,
         t.next \in Commands \cup {"none", "connect", "anything"},
         Len(t.session_key) <= 1, Len(t.auth) <= 1
  PROVE  ServerOf(k, t)
<1>1. ContextOk(t)
  BY DEF ServerOf, ContextOk, Serves
<1> QED BY <1>1 DEF ServerOf, Serves

(* The step of the server, from a request on its way to the answer.        *)
LEMMA ServedAgrees ==
  ASSUME NEW k, NEW cl, NEW sv, NEW m, NEW r, Agrees(k, cl, sv, <<m>>, r), cl.told # <<"success">>,
         NEW t, ServerOf(k, t), Spoken(k, cl, t), m.command # "negotiate" => t.sign = sv.sign,
         m.command = "tree_connect" => ~t.open \/ (t.open = sv.open /\ t.signing_key = sv.signing_key),
         NEW sends, sends = <<>> \/ (sends = <<sends[1]>> /\ (cl.open => Replied(k, sends[1], cl, t)))
  PROVE  Agrees(k, cl, t, <<>>, IF cl.open THEN sends ELSE <<>>)
<1>1. \A x : <<x>> # <<>> /\ <<x>>[1] = x
  OBVIOUS
<1> DEFINE q == <<m>>
           after == IF cl.open THEN sends ELSE <<>>
           none == <<>>
<1>2. q # <<>> /\ q[1] = m /\ Agrees(k, cl, sv, q, r)
  BY <1>1
<1> HIDE DEF q, none, after
<1>3. Asked(k, m, cl, sv) /\ (cl.open => m.command = cl.next) /\ m.command \in Commands
  BY <1>2 DEF Agrees, UnderWay, Asked, MessageOk
<1>4. after = <<>> \/ (after = <<after[1]>> /\ cl.open /\ Replied(k, after[1], cl, t))
  BY DEF after
<1>5. none = <<>>
  BY DEF none
<1>6. UnderWay(k, cl, t, none, after)
  BY <1>4, <1>5 DEF UnderWay
<1>7. cl.open /\ cl.next = "none" => after = <<>>
  BY <1>3 DEF Commands
<1>8. cl.c_data = "none" \/ cl.next = "connect" => FALSE
  BY <1>2 DEF Agrees, Stage
<1>9. cl.next \in {"session_setup", "tree_connect"} => cl.open /\ m.command = cl.next
  BY <1>2, <1>3 DEF Agrees, Stage, Commands
<1>10. cl.next \in {"session_setup", "tree_connect"} => Agreed(k, cl, t)
  BY <1>2, <1>9 DEF Agrees, Stage, Agreed
<1>11. cl.next = "tree_connect" => KnownTo(k) /\ SameKey(cl, t)
  BY <1>2, <1>9 DEF Agrees, Stage, SameKey
<1>12. Stage(k, cl, t, none, after)
  BY <1>2, <1>5, <1>7, <1>8, <1>10, <1>11 DEF Agrees, Stage
<1>13. Agrees(k, cl, t, none, after)
  BY <1>2, <1>6, <1>12 DEF Agrees
<1> QED BY <1>13 DEF none, after

LEMMA AskedOf ==
  ASSUME NEW k, NEW cl, NEW sv, NEW m, NEW r, Agrees(k, cl, sv, <<m>>, r)
  PROVE  Asked(k, m, cl, sv) /\ ServerOf(k, sv) /\ Spoken(k, cl, sv) /\ ClientOf(k, cl)
         /\ (cl.open => cl.user # None)
<1>1. \A x : <<x>> # <<>> /\ <<x>>[1] = x
  OBVIOUS
<1> DEFINE q == <<m>>
<1>2. q # <<>> /\ q[1] = m /\ Agrees(k, cl, sv, q, r)
  BY <1>1
<1> HIDE DEF q
<1>3. Asked(k, m, cl, sv)
  BY <1>2 DEF Agrees, UnderWay
<1>4. cl.open => cl.user # None
  BY <1>2, <1>3 DEF Agrees, Stage, Asked, MessageOk, Commands
<1> QED BY <1>2, <1>3, <1>4 DEF Agrees

(* Hanging up breaks nothing.                                              *)
LEMMA HungUpAgrees ==
  ASSUME NEW k, NEW cl, NEW sv, NEW m, NEW r, Agrees(k, cl, sv, <<m>>, r), cl.told # <<"success">>,
         NEW s, ServerOf(k, s), Spoken(k, cl, s), m.command # "negotiate" => s.sign = sv.sign,
         NEW d, HungUp(d, s)
  PROVE  Agrees(k, cl, d.smb2, <<>>, IF cl.open THEN d.sends ELSE <<>>)
<1> DEFINE t == d.smb2
<1>1. /\ Serves(t, s) /\ ~t.open /\ t.open \in BOOLEAN /\ t.next = "none" /\ t.session_key = <<>> /\ t.auth = s.auth
      /\ d.sends = <<>> /\ t.sign = s.sign /\ t.dialect = s.dialect
  BY DEF HungUp, Serves
<1>2. Len(t.session_key) <= 1 /\ Len(t.auth) <= 1
  BY <1>1 DEF ServerOf, ContextOk
<1> HIDE DEF t
<1>3. ServerOf(k, t) /\ Spoken(k, cl, t)
  BY <1>1, <1>2, ServesStill DEF Spoken
<1>4. m.command # "negotiate" => t.sign = sv.sign
  BY <1>1
<1> DEFINE sends == d.sends
<1>5. sends = <<>>
  BY <1>1
<1> HIDE DEF sends
<1>6. Agrees(k, cl, t, <<>>, IF cl.open THEN sends ELSE <<>>)
  BY <1>1, <1>3, <1>4, <1>5, ServedAgrees
<1> QED BY <1>6 DEF t, sends

LEMMA NegotiateServed ==
  ASSUME conf \in Parties, NEW cl, NEW sv, NEW m, NEW r, Agrees(conf, cl, sv, <<m>>, r), cl.told # <<"success">>,
         m.command = "negotiate", NEW atOnce
  PROVE  LET d == smb2_negotiate_request_cb(sv, m, atOnce)
         IN Agrees(conf, cl, d.smb2, <<>>, IF cl.open THEN d.sends ELSE <<>>)
<1> DEFINE common == Common(sv, m.body.dialects)
           taken == [sv EXCEPT !.dialect = common]
           begun == smb3_init_preauth_hash(taken)
           heard == smb3_update_preauth_hash(begun, "negotiate")
           will == WillSign(heard, m.body.mode)
           agreed == [heard EXCEPT !.sign = ~sv.seal /\ (@ \/ will)]
           modes == {x \in {"enabled"} : conf.server.signing_enabled} \cup {x \in {"required"} : agreed.sign}
           body == [dialect |-> heard.dialect, encrypts |-> Encrypts(sv.version), mode |-> modes]
           reply == ServerReplies(agreed, Message("negotiate", "success", body), atOnce, "negotiate answered", "session_setup")
           d == smb2_negotiate_request_cb(sv, m, atOnce)
<1>1. /\ Asked(conf, m, cl, sv) /\ ServerOf(conf, sv) /\ Spoken(conf, cl, sv) /\ ClientOf(conf, cl)
  BY AskedOf
<1>2. /\ m.body.dialects = Dialects(conf.client.version) /\ m.body.mode = conf.client.mode
      /\ cl.dialect = 0 /\ sv.password = Zero /\ (cl.open => m.command = cl.next)
  BY <1>1 DEF Asked
<1>3. /\ IsContext(sv) /\ ContextOk(sv) /\ sv.version = conf.server.version /\ sv.seal = conf.server.seal
      /\ sv.seal \in BOOLEAN /\ sv.sign \in BOOLEAN /\ sv.open \in BOOLEAN
  BY <1>1 DEF ServerOf, ContextOk
<1>4. conf.client.version \in Versions /\ conf.server.version \in Versions
  BY PartiesAre
<1>5. \/ common = 0
      \/ common # 0 /\ common \in Ours(conf) /\ \A e \in Ours(conf) : e <= common
  BY <1>2, <1>3, <1>4, CommonIs DEF Ours
<1>6. common \in Ours(conf) => Contains(Dialects("any"), common)
  <2> DEFINE x == Dialects(conf.client.version)
  <2>1. Rises(x)
    BY <1>4, DialectsRise
  <2>2. Ours(conf) \subseteq ToSet(x)
    BY DEF Ours
  <2> HIDE DEF x, common
  <2>3. x \in Seq(Nat \ {0})
    BY <2>1 DEF Rises
  <2>4. DOMAIN x = 1 .. Len(x)
    BY <2>3, LenProperties
  <2>5. common \in ToSet(x) => common \in {514, 528, 768, 770, 785}
    BY <2>1, <2>4 DEF ToSet, Rises
  <2> QED BY <2>2, <2>5, AnyIs
<1>7. d = IF heard.dialect = 0 THEN Hangs(sv)
          ELSE IF sv.seal /\ heard.dialect \in {SMB2_VERSION_0300, SMB2_VERSION_0302} /\ ~m.body.encrypts THEN Hangs(heard)
          ELSE IF ~sv.seal /\ will /\ ~conf.server.signing_enabled THEN Hangs(heard)
          ELSE reply
  BY DEF smb2_negotiate_request_cb
<1> HIDE DEF common
<1>8. /\ IsContext(taken) /\ taken.dialect = common
      /\ taken.version = sv.version /\ taken.seal = sv.seal /\ taken.sign = sv.sign /\ taken.broken = sv.broken
      /\ taken.told = sv.told /\ taken.c_data = sv.c_data /\ taken.open = sv.open /\ taken.next = sv.next
      /\ taken.session_key = sv.session_key /\ taken.auth = sv.auth /\ taken.password = sv.password
  BY <1>3 DEF IsContext, Fields
<1> HIDE DEF taken
<1>9. Steady(begun, taken) /\ begun.session_key = taken.session_key /\ begun.auth = taken.auth
  BY <1>8, InitHashSteady
<1> HIDE DEF begun
<1>10. Steady(heard, begun) /\ heard.session_key = begun.session_key /\ heard.auth = begun.auth
  <2>1. IsContext(begun)
    BY <1>9 DEF Steady, Alike
  <2> QED BY <2>1, HashSteady
<1> HIDE DEF heard
<1>11. /\ IsContext(heard) /\ heard.dialect = common
       /\ heard.version = sv.version /\ heard.seal = sv.seal /\ heard.sign = sv.sign /\ heard.broken = sv.broken
       /\ heard.told = sv.told /\ heard.c_data = sv.c_data /\ heard.open = sv.open /\ heard.next = sv.next
       /\ heard.session_key = sv.session_key /\ heard.auth = sv.auth /\ heard.password = Zero
  BY <1>2, <1>8, <1>9, <1>10 DEF Steady, Alike
<1>12. CASE common = 0
  <2>1. d = Hangs(sv)
    BY <1>7, <1>11, <1>12
  <2>2. HungUp(d, sv)
    BY <1>3, <2>1, HangsIs
  <2> HIDE DEF d
  <2>3. Agrees(conf, cl, d.smb2, <<>>, IF cl.open THEN d.sends ELSE <<>>)
    BY <1>1, <2>2, HungUpAgrees
  <2> QED BY <2>3 DEF d
<1>13. CASE common # 0
  <2>1. /\ ServerOf(conf, heard) /\ Spoken(conf, cl, heard)
    <3>1. ContextOk(heard)
      BY <1>3, <1>5, <1>6, <1>11, <1>13 DEF ContextOk
    <3>2. Spoken(conf, cl, heard)
      BY <1>2, <1>5, <1>11, <1>13 DEF Spoken
    <3> QED BY <1>3, <1>11, <3>1, <3>2 DEF ServerOf
  <2>2. CASE d = Hangs(heard)
    <3>1. HungUp(d, heard)
      BY <1>11, <2>2, HangsIs
    <3> HIDE DEF d
    <3>2. Agrees(conf, cl, d.smb2, <<>>, IF cl.open THEN d.sends ELSE <<>>)
      BY <1>1, <2>1, <3>1, HungUpAgrees
    <3> QED BY <3>2 DEF d
  <2>3. CASE d = reply
    <3>1. WillSign(heard, m.body.mode) \in BOOLEAN /\ (MustSign(conf) => will)
      BY <1>2 DEF WillSign, MustSign
    <3> HIDE DEF will
    <3>2. /\ IsContext(agreed) /\ agreed.dialect = common /\ agreed.sign \in BOOLEAN
          /\ agreed.version = sv.version /\ agreed.seal = sv.seal /\ agreed.broken = sv.broken
          /\ agreed.told = sv.told /\ agreed.c_data = sv.c_data /\ agreed.open = sv.open /\ agreed.next = sv.next
          /\ agreed.session_key = sv.session_key /\ agreed.auth = sv.auth /\ agreed.password = Zero
      BY <1>3, <1>11 DEF IsContext, Fields
    <3>3. MustSign(conf) => agreed.sign
      <4>1. MustSign(conf) => will /\ ~sv.seal
        BY <1>3, <3>1 DEF MustSign
      <4> QED BY <1>11, <4>1 DEF IsContext, Fields
    <3>4. agreed.sign => "required" \in modes
      OBVIOUS
    <3> HIDE DEF agreed
    <3>5. ServerOf(conf, agreed)
      <4>1. ContextOk(agreed)
        BY <1>3, <1>5, <1>6, <1>13, <3>2 DEF ContextOk
      <4> QED BY <1>3, <3>2, <4>1 DEF ServerOf
    <3>6. body.dialect = common /\ body.mode = modes
      BY <1>11
    <3> HIDE DEF modes, body
    <3> HIDE DEF d
    <3>7. RepliedFrom(d, agreed, "negotiate", "success", "session_setup") /\ d.sends[1].body = body
      <4>1. d = ServerReplies(agreed, Message("negotiate", "success", body), atOnce, "negotiate answered", "session_setup")
        BY <2>3
      <4>2. IsContext(agreed)
        BY <3>2
      <4> HIDE DEF reply
      <4>3. \E c, ok, said, next : c = "negotiate" /\ ok = "success" /\ said = "negotiate answered" /\ next = "session_setup"
        OBVIOUS
      <4>4. PICK c, ok, said, next : c = "negotiate" /\ ok = "success" /\ said = "negotiate answered" /\ next = "session_setup"
        BY <4>3
      <4>5. d = ServerReplies(agreed, Message(c, ok, body), atOnce, said, next)
        BY <4>1, <4>4
      <4>6. RepliedFrom(d, agreed, c, ok, next) /\ d.sends[1].body = body
        BY <4>2, <4>5, RepliesAs
      <4> QED BY <4>4, <4>6
    <3> DEFINE t == d.smb2
               a == d.sends[1]
               sends == d.sends
    <3>8. /\ Serves(t, agreed) /\ t.open \in BOOLEAN /\ t.next = "session_setup" /\ t.password = Zero
          /\ t.session_key = agreed.session_key /\ t.auth = agreed.auth /\ t.sign = agreed.sign /\ t.dialect = common
      BY <1>3, <3>2, <3>7 DEF RepliedFrom, Serves
    <3>9. a.command = "negotiate" /\ a.status = "success" /\ a.body = body /\ sends = <<a>> /\ sends[1] = a
          /\ Len(a.signature) <= 1 /\ Len(a.sealed) <= 1
      BY <3>7 DEF RepliedFrom
    <3> HIDE DEF t, a, sends
    <3>10. ServerOf(conf, t) /\ Spoken(conf, cl, t)
      <4>1. Len(t.session_key) <= 1 /\ Len(t.auth) <= 1
        BY <3>5, <3>8 DEF ServerOf, ContextOk
      <4>2. ServerOf(conf, t)
        BY <3>5, <3>8, <4>1, ServesStill DEF Commands
      <4>3. Spoken(conf, cl, t)
        BY <1>2, <1>5, <1>13, <3>8 DEF Spoken
      <4> QED BY <4>2, <4>3
    <3>11. cl.open => Replied(conf, a, cl, t)
      <4>1. MessageOk(a)
        BY <3>9 DEF MessageOk, Commands, LoginStatuses
      <4> QED BY <1>2, <1>13, <3>3, <3>4, <3>6, <3>8, <3>9, <4>1 DEF Replied
    <3>12. Agrees(conf, cl, t, <<>>, IF cl.open THEN sends ELSE <<>>)
      BY <3>9, <3>10, <3>11, ServedAgrees
    <3> QED BY <3>12 DEF t, sends, d
  <2>4. d = Hangs(heard) \/ d = reply
    BY <1>7, <1>11, <1>13
  <2> QED BY <2>2, <2>3, <2>4
<1> QED BY <1>12, <1>13

-----------------------------------------------------------------------------
(* What the server answers to the first token, and how it judges the last. *)
LEMMA NotNobody ==
  ASSUME NEW blob, NEW k, FirstBlob(blob) \/ LastBlob(k, blob)
  PROVE  blob # NoBlob
<1>1. NoBlob.means = [from |-> "nobody"]
  BY DEF NoBlob
<1>2. CASE FirstBlob(blob)
  <2>1. [from |-> "client"].from = "client" /\ [from |-> "nobody"].from = "nobody" /\ "client" # "nobody"
    OBVIOUS
  <2>2. blob.means = [from |-> "client"]
    BY <1>2 DEF FirstBlob
  <2> QED BY <1>1, <2>1, <2>2
<1>3. CASE LastBlob(k, blob)
  <2>1. DOMAIN NoBlob.means = {"from"} /\ DOMAIN blob.means = {"user", "domain", "workstation", "response"}
    BY <1>1, <1>3 DEF LastBlob
  <2>2. "from" \notin {"user", "domain", "workstation", "response"}
    OBVIOUS
  <2> QED BY <2>1, <2>2
<1> QED BY <1>2, <1>3

LEMMA ChallengeMade ==
  ASSUME NEW srv, NEW s, NEW auth, IsAuth(auth), NEW blob, FirstBlob(blob)
  PROVE  LET made == ntlmssp_generate_blob(srv, s, auth, blob, TRUE)
         IN made.ok = TRUE /\ made.smb2 = s /\ IsAuth(made.auth) /\ ChallengeBlob(made.blob)
<1> DEFINE head == ntlmssp_get_message_type(blob)
           opened == [auth EXCEPT !.wrap = @ \/ head.wrapped]
           token == encode_ntlm_challenge(opened)
           b == Wrapped(token, smb2_spnego_wrap_ntlmssp_challenge(token.bytes), opened)
           made == ntlmssp_generate_blob(srv, s, auth, blob, TRUE)
           host == opened.workstation
           info == IF host = None THEN <<"time">> ELSE <<host, host, "dns", host, "time">>
           len == 56 + NameLen(host) + InfoLen(info)
           means == [challenge |-> "12345678", target |-> host, info |-> info]
<1>1. head.type = 1
  <2>1. NEGOTIATE_MESSAGE \in 1 .. 3 /\ NEGOTIATE_MESSAGE = 1
    BY DEF NEGOTIATE_MESSAGE
  <2>2. Holds(NEGOTIATE_MESSAGE, blob)
    BY DEF FirstBlob
  <2> QED BY <2>1, <2>2, HeldArrives
<1>2. made = Answers(srv, s, auth, blob, head, TRUE)
  <2>1. blob # NoBlob
    BY NotNobody
  <2> QED BY <2>1 DEF ntlmssp_generate_blob
<1>3. Answers(srv, s, auth, blob, head, TRUE) = ServerAnswers(srv, s, opened, blob, 1)
  <2> HIDE DEF head
  <2> QED BY <1>1 DEF Answers
<1>4. IsAuth(opened)
  <2> HIDE DEF head
  <2> QED BY DEF IsAuth
<1>5. token = Token(CHALLENGE_MESSAGE, len, means)
  BY DEF encode_ntlm_challenge
<1> HIDE DEF opened, made
<1>6. ServerAnswers(srv, s, opened, blob, 1) = Answer(TRUE, s, opened, b)
  <2> HIDE DEF b
  <2> QED BY DEF ServerAnswers, NEGOTIATE_MESSAGE, CHALLENGE_MESSAGE, AUTHENTICATION_MESSAGE, b
<1>7. len \in LengthsOf(CHALLENGE_MESSAGE) /\ CHALLENGE_MESSAGE \in 1 .. 3
  <2>1. \A h : InfoLen(<<"time">>) = 24 /\ InfoLen(<<h, h, "dns", h, "time">>) = 104
    BY DEF InfoLen
  <2>2. NameLen(host) \in {0, 16} /\ (host = None => NameLen(host) = 0)
    <3>1. \A h : NameLen(h) = IF h = None \/ h = Empty THEN 0 ELSE 2 * 8
      BY DEF NameLen
    <3> HIDE DEF host
    <3> QED BY <3>1
  <2>3. InfoLen(info) = IF host = None THEN 24 ELSE 104
    BY <2>1
  <2> HIDE DEF info, host
  <2>4. len \in {56 + 24, 56 + 104, 72 + 104}
    BY <2>2, <2>3
  <2> QED BY <2>4 DEF LengthsOf, NEGOTIATE_MESSAGE, CHALLENGE_MESSAGE, AUTHENTICATION_MESSAGE
<1>8. DOMAIN means = {"challenge", "target", "info"} /\ means.info = info
      /\ \E h : info = <<"time">> \/ info = <<h, h, "dns", h, "time">>
  OBVIOUS
<1> HIDE DEF len, means, token
<1>9. LET c == Wrapped(token, EnvelopeOf(CHALLENGE_MESSAGE, token.bytes), opened)
      IN Holds(CHALLENGE_MESSAGE, c) /\ c.means = means
  <2>1. opened.wrap \in BOOLEAN
    BY <1>4 DEF IsAuth
  <2> QED BY <1>5, <1>7, <2>1, WrappedHolds
<1>10. EnvelopeOf(CHALLENGE_MESSAGE, token.bytes) = smb2_spnego_wrap_ntlmssp_challenge(token.bytes)
  BY DEF EnvelopeOf, NEGOTIATE_MESSAGE, CHALLENGE_MESSAGE, AUTHENTICATION_MESSAGE
<1>11. ChallengeBlob(b)
  <2>1. Holds(CHALLENGE_MESSAGE, b) /\ b.means = means
    BY <1>9, <1>10
  <2> HIDE DEF b, info
  <2> QED BY <1>8, <2>1 DEF ChallengeBlob
<1> HIDE DEF b
<1>12. made = Answer(TRUE, s, opened, b)
  BY <1>2, <1>3, <1>6
<1>13. made.ok = TRUE /\ made.smb2 = s /\ made.auth = opened /\ made.blob = b
  BY <1>12 DEF Answer
<1> QED BY <1>4, <1>11, <1>13 DEF made

(* Two passwords with one hash are as good as each other.                  *)
KeyOf(p) == IF "ntlm" \in DOMAIN p THEN p.ntlm ELSE MD4(p)
LEMMA SameHash ==
  ASSUME NEW p, NEW q, IsPassword(p), IsPassword(q), p # Zero, q # Zero, KeyOf(p) = KeyOf(q)
  PROVE  AsGood(p, q)
<1>1. ASSUME NEW x, NEW y, MD4(x) = MD4(y) PROVE x = y
  <2>1. MD4(x).md4 = x /\ MD4(y).md4 = y
    BY DEF MD4
  <2> QED BY <1>1, <2>1
<1>2. \A z : IsPassword(z) /\ z # Zero => \/ "ntlm" \notin DOMAIN z
                                          \/ "ntlm" \in DOMAIN z /\ z = [ntlm |-> z.ntlm]
  BY DEF IsPassword
<1>3. CASE "ntlm" \notin DOMAIN p /\ "ntlm" \notin DOMAIN q
  <2>1. MD4(p) = MD4(q)
    BY <1>3 DEF KeyOf
  <2> QED BY <1>1, <2>1 DEF AsGood
<1>4. CASE "ntlm" \in DOMAIN p /\ "ntlm" \notin DOMAIN q
  <2>1. p.ntlm = MD4(q) /\ p = [ntlm |-> p.ntlm]
    BY <1>2, <1>4 DEF KeyOf
  <2> QED BY <2>1 DEF AsGood
<1>5. CASE "ntlm" \notin DOMAIN p /\ "ntlm" \in DOMAIN q
  <2>1. q.ntlm = MD4(p) /\ q = [ntlm |-> q.ntlm]
    BY <1>2, <1>5 DEF KeyOf
  <2> QED BY <2>1 DEF AsGood
<1>6. CASE "ntlm" \in DOMAIN p /\ "ntlm" \in DOMAIN q
  <2>1. p.ntlm = q.ntlm /\ p = [ntlm |-> p.ntlm] /\ q = [ntlm |-> q.ntlm]
    BY <1>2, <1>6 DEF KeyOf
  <2> QED BY <2>1 DEF AsGood
<1> QED BY <1>3, <1>4, <1>5, <1>6

LEMMA SameProof ==
  ASSUME NEW u, NEW p, NEW d, NEW v, NEW q, NEW e, NEW x, NEW y,
         HMAC(NTOWFv2(u, p, d), x) = HMAC(NTOWFv2(v, q, e), y)
  PROVE  KeyOf(p) = KeyOf(q)
<1>1. \A a, b : HMAC(a, b).hmac = a
  BY DEF HMAC
<1>2. NTOWFv2(u, p, d) = NTOWFv2(v, q, e)
  <2> DEFINE n == NTOWFv2(u, p, d)
             o == NTOWFv2(v, q, e)
  <2>1. HMAC(n, x) = HMAC(o, y)
    OBVIOUS
  <2> HIDE DEF n, o
  <2>2. n = o
    BY <1>1, <2>1
  <2> QED BY <2>2 DEF n, o
<1>3. NTOWFv2(u, p, d) = HMAC(KeyOf(p), <<[upper |-> u], d>>) /\ NTOWFv2(v, q, e) = HMAC(KeyOf(q), <<[upper |-> v], e>>)
  BY DEF NTOWFv2, KeyOf, ntlm_convert_password_hash, NTOWFv1
<1> DEFINE g == KeyOf(p)
           h == KeyOf(q)
           a == <<[upper |-> u], d>>
           b == <<[upper |-> v], e>>
<1>4. HMAC(g, a) = HMAC(h, b)
  BY <1>2, <1>3
<1> HIDE DEF g, h, a, b
<1>5. g = h
  BY <1>1, <1>4
<1> QED BY <1>5 DEF g, h

(* Who a client says it is changes its name and its password only.         *)
Renamed(t, s) ==
  /\ Serves(t, s) /\ t.open = s.open /\ t.next = s.next /\ t.session_id = s.session_id
  /\ t.session_key = s.session_key /\ t.signing_key = s.signing_key

LEMMA AuthorizedIs ==
  ASSUME NEW srv, NEW s, IsContext(s), NEW user
  PROVE  LET a == authorize_user(srv, s, user)
         IN /\ a.ok \in BOOLEAN /\ Renamed(a.smb2, s)
            /\ a.ok => /\ srv.users # "refused"
                       /\ a.smb2.password = IF srv.users = "known" THEN srv.password ELSE s.password
<1> DEFINE a == authorize_user(srv, s, user)
           t == [s EXCEPT !.password = srv.password]
<1>1. \/ srv.users = "refused" /\ a = [ok |-> FALSE, smb2 |-> s]
      \/ srv.users = "known" /\ a = [ok |-> TRUE, smb2 |-> t]
      \/ srv.users # "refused" /\ srv.users # "known" /\ a = [ok |-> TRUE, smb2 |-> s]
  BY DEF authorize_user
<1>2. Renamed(t, s) /\ Renamed(s, s) /\ t.password = srv.password
  BY DEF Renamed, Serves, IsContext, Fields
<1> HIDE DEF a, t
<1>3. CASE srv.users = "refused" /\ a = [ok |-> FALSE, smb2 |-> s]
  <2>1. a.ok = FALSE /\ a.smb2 = s
    BY <1>3
  <2> QED BY <1>2, <2>1 DEF a
<1>4. CASE srv.users = "known" /\ a = [ok |-> TRUE, smb2 |-> t]
  <2>1. a.ok = TRUE /\ a.smb2 = t
    BY <1>4
  <2> QED BY <1>2, <1>4, <2>1 DEF a
<1>5. CASE srv.users # "refused" /\ srv.users # "known" /\ a = [ok |-> TRUE, smb2 |-> s]
  <2>1. a.ok = TRUE /\ a.smb2 = s
    BY <1>5
  <2> QED BY <1>2, <1>5, <2>1 DEF a
<1> QED BY <1>1, <1>3, <1>4, <1>5

(* The last token is judged: who gets in is known, or nobody need be.      *)
LEMMA JudgedIs ==
  ASSUME NEW k, NEW s, IsContext(s), s.password = Zero, NEW auth, IsAuth(auth), NEW means, Proves(k, means),
         IsPassword(k.client.password), IsPassword(k.server.password), k.server.allow_anonymous \in BOOLEAN
  PROVE  LET j == ntlmssp_authenticate_blob(k.server, s, auth, means)
         IN /\ IsAuth(j.auth) /\ j.auth.ok \in BOOLEAN /\ Renamed(j.smb2, s)
            /\ j.auth.ok /\ k.client.user # None => KnownTo(k)
<1> DEFINE user == ntlmssp_get_utf16_field(means.user)
           domain == ntlmssp_get_utf16_field(means.domain)
           known == [s EXCEPT !.user = user, !.domain = domain]
           asked == authorize_user(k.server, known, user)
           named == [auth EXCEPT !.user = user, !.domain = domain,
                                 !.workstation = ntlmssp_get_utf16_field(means.workstation)]
           password == asked.smb2.password
           key == NTOWFv2(user, password, domain)
           proof == HMAC(key, means.response[2])
           E(ok, t, a) == [smb2 |-> t, auth |-> [a EXCEPT !.ok = ok]]
           wiped == [asked.smb2 EXCEPT !.password = [password |-> Empty]]
           keyed == [named EXCEPT !.exported_session_key = HMAC(key, proof)]
           j == ntlmssp_authenticate_blob(k.server, s, auth, means)
           anyone == k.server.allow_anonymous
           nobody == user = None \/ password \in {Zero, [password |-> Empty]}
<1>1. j = IF ~asked.ok \/ (password = Zero /\ ~anyone) THEN E(FALSE, asked.smb2, named)
          ELSE IF nobody THEN E(anyone, asked.smb2, named)
          ELSE IF means.response = <<>> THEN E(FALSE, asked.smb2, named)
          ELSE IF proof # means.response[1] THEN E(FALSE, wiped, named)
          ELSE E(TRUE, wiped, keyed)
  BY DEF ntlmssp_authenticate_blob
<1>2. IsContext(known) /\ Renamed(known, s) /\ known.password = Zero
  BY DEF Renamed, Serves, IsContext, Fields
<1>3. IsAuth(named)
  BY DEF IsAuth
<1> HIDE DEF known, named
<1>4. /\ asked.ok \in BOOLEAN /\ Renamed(asked.smb2, known)
      /\ asked.ok => /\ k.server.users # "refused"
                     /\ password = IF k.server.users = "known" THEN k.server.password ELSE Zero
  BY <1>2, AuthorizedIs
<1> HIDE DEF asked
<1>5. Renamed(asked.smb2, s) /\ Renamed(wiped, s)
  BY <1>2, <1>4 DEF Renamed, Serves, IsContext, Fields
<1>6. IsAuth(keyed)
  BY <1>3 DEF IsAuth
<1> HIDE DEF wiped, keyed
<1>7. ASSUME NEW ok \in BOOLEAN, NEW t, NEW a, IsAuth(a)
      PROVE  LET e == E(ok, t, a) IN IsAuth(e.auth) /\ e.auth.ok = ok /\ e.smb2 = t
  BY <1>7 DEF IsAuth
<1>8. user = None => means.user \in {None, Empty}
  BY DEF ntlmssp_get_utf16_field
<1>9. user # None => means.user # Empty /\ user = means.user
  BY DEF ntlmssp_get_utf16_field
<1>10. ASSUME asked.ok, nobody, anyone, k.client.user # None PROVE KnownTo(k)
  <2>1. k.server.users # "refused"
    BY <1>4, <1>10
  <2>2. ASSUME k.server.users = "known", k.client.password # Zero, k.server.password \notin {Zero, [password |-> Empty]}
        PROVE  k.client.user = Empty
    <3>1. user = None
      BY <1>4, <1>10, <2>2
    <3>2. means.user = k.client.user
      BY <2>2 DEF Proves
    <3> QED BY <1>8, <1>10, <3>1, <3>2
  <2> QED BY <1>10, <2>1, <2>2 DEF KnownTo
<1>11. ASSUME asked.ok, ~nobody, means.response # <<>>, proof = means.response[1] PROVE KnownTo(k)
  <2>1. k.server.users = "known" /\ password = k.server.password /\ password # Zero
    BY <1>4, <1>11
  <2>2. k.client.password # Zero /\ means.user = k.client.user /\ k.client.user # Empty
    BY <1>9, <1>11 DEF Proves
  <2>3. PICK temp : means.response = <<HMAC(NTOWFv2(k.client.user, k.client.password, means.domain), temp), temp>>
    BY <1>11 DEF Proves
  <2>4. means.response[1] = HMAC(NTOWFv2(k.client.user, k.client.password, means.domain), temp)
    BY <2>3
  <2>5. HMAC(NTOWFv2(user, password, domain), means.response[2])
          = HMAC(NTOWFv2(k.client.user, k.client.password, means.domain), temp)
    BY <1>11, <2>4
  <2>6. KeyOf(password) = KeyOf(k.client.password)
    BY <2>5, SameProof
  <2>7. AsGood(k.client.password, k.server.password)
    <3>1. KeyOf(k.client.password) = KeyOf(k.server.password) /\ k.server.password # Zero
      BY <2>1, <2>6
    <3> QED BY <2>2, <3>1, SameHash
  <2> QED BY <2>1, <2>2, <2>7 DEF KnownTo, IsRight
<1> HIDE DEF user, domain, key, password, proof, nobody, j, E
<1>12. \/ j = E(FALSE, asked.smb2, named) \/ j = E(FALSE, wiped, named)
       \/ j = E(anyone, asked.smb2, named) /\ asked.ok /\ nobody
       \/ j = E(TRUE, wiped, keyed) /\ asked.ok /\ ~nobody /\ means.response # <<>> /\ proof = means.response[1]
  BY <1>1, <1>4
<1>13. PICK no \in BOOLEAN, yes \in BOOLEAN : no = FALSE /\ yes = TRUE
  OBVIOUS
<1>14. CASE j = E(FALSE, asked.smb2, named)
  <2>1. j = E(no, asked.smb2, named)
    BY <1>13, <1>14
  <2> QED BY <1>3, <1>5, <1>7, <1>13, <2>1 DEF j
<1>15. CASE j = E(FALSE, wiped, named)
  <2>1. j = E(no, wiped, named)
    BY <1>13, <1>15
  <2> QED BY <1>3, <1>5, <1>7, <1>13, <2>1 DEF j
<1>16. CASE j = E(anyone, asked.smb2, named) /\ asked.ok /\ nobody
  <2>1. IsAuth(j.auth) /\ j.auth.ok = anyone /\ j.smb2 = asked.smb2
    BY <1>3, <1>7, <1>16
  <2> QED BY <1>5, <1>10, <1>16, <2>1 DEF j
<1>17. CASE j = E(TRUE, wiped, keyed) /\ asked.ok /\ ~nobody /\ means.response # <<>> /\ proof = means.response[1]
  <2>1. j = E(yes, wiped, keyed)
    BY <1>13, <1>17
  <2>2. IsAuth(j.auth) /\ j.auth.ok = yes /\ j.smb2 = wiped
    BY <1>6, <1>7, <2>1
  <2> QED BY <1>5, <1>11, <1>13, <1>17, <2>2 DEF j
<1> QED BY <1>12, <1>14, <1>15, <1>16, <1>17

LEMMA LastJudged ==
  ASSUME NEW k, NEW s, IsContext(s), s.password = Zero, NEW auth, IsAuth(auth), NEW blob, LastBlob(k, blob),
         IsPassword(k.client.password), IsPassword(k.server.password), k.server.allow_anonymous \in BOOLEAN
  PROVE  LET made == ntlmssp_generate_blob(k.server, s, auth, blob, TRUE)
         IN /\ made.ok = TRUE /\ IsAuth(made.auth) /\ made.auth.ok \in BOOLEAN /\ Renamed(made.smb2, s)
            /\ made.auth.ok /\ k.client.user # None => KnownTo(k)
<1> DEFINE head == ntlmssp_get_message_type(blob)
           opened == [auth EXCEPT !.wrap = @ \/ head.wrapped]
           judged == ntlmssp_authenticate_blob(k.server, s, opened, blob.means)
           made == ntlmssp_generate_blob(k.server, s, auth, blob, TRUE)
<1>1. head.type = 3
  <2>1. AUTHENTICATION_MESSAGE \in 1 .. 3 /\ AUTHENTICATION_MESSAGE = 3
    BY DEF AUTHENTICATION_MESSAGE
  <2>2. Holds(AUTHENTICATION_MESSAGE, blob)
    BY DEF LastBlob
  <2> QED BY <2>1, <2>2, HeldArrives
<1>2. made = Answers(k.server, s, auth, blob, head, TRUE)
  <2>1. blob # NoBlob
    BY NotNobody
  <2> QED BY <2>1 DEF ntlmssp_generate_blob
<1>3. Answers(k.server, s, auth, blob, head, TRUE) = ServerAnswers(k.server, s, opened, blob, 3)
  <2> HIDE DEF head
  <2> QED BY <1>1 DEF Answers
<1>4. IsAuth(opened)
  <2> HIDE DEF head
  <2> QED BY DEF IsAuth
<1> HIDE DEF opened, made
<1>5. \E b : ServerAnswers(k.server, s, opened, blob, 3) = Answer(TRUE, judged.smb2, judged.auth, b)
  <2> HIDE DEF judged
  <2> DEFINE b == IF opened.wrap THEN [NoBlob EXCEPT !.bytes = smb2_spnego_wrap_authenticate_result(judged.auth.ok)] ELSE NoBlob
  <2>1. ServerAnswers(k.server, s, opened, blob, 3) = Answer(TRUE, judged.smb2, judged.auth, b)
    BY DEF ServerAnswers, NEGOTIATE_MESSAGE, CHALLENGE_MESSAGE, AUTHENTICATION_MESSAGE, judged
  <2> HIDE DEF b
  <2> QED BY <2>1
<1>6. /\ IsAuth(judged.auth) /\ judged.auth.ok \in BOOLEAN /\ Renamed(judged.smb2, s)
      /\ judged.auth.ok /\ k.client.user # None => KnownTo(k)
  <2>1. Proves(k, blob.means)
    BY DEF LastBlob
  <2> QED BY <1>4, <2>1, JudgedIs
<1> HIDE DEF judged
<1>7. made.ok = TRUE /\ made.smb2 = judged.smb2 /\ made.auth = judged.auth
  <2>1. PICK b : made = Answer(TRUE, judged.smb2, judged.auth, b)
    BY <1>2, <1>3, <1>5
  <2> QED BY <2>1 DEF Answer
<1> QED BY <1>6, <1>7 DEF made

(* The context that replies to a token.                                    *)
Answering(t, s, made) ==
  /\ Serves(t, s) /\ t.open = s.open /\ t.session_id = s.session_id /\ t.auth = <<made.auth>>
  /\ t.password = made.smb2.password

AnsweredFirst(s, made, atOnce) == SetupAnswered(s, made, TRUE, atOnce)
AnsweredLast(s, made, atOnce) == SetupAnswered(s, made, FALSE, atOnce)
ServerMakes(s, m) == ntlmssp_generate_blob(conf.server, s, s.auth[1], m.body.blob, TRUE)
FirstAnswers(d, s, made) ==
  \E t : /\ Answering(t, s, made) /\ t.session_key = s.session_key
        /\ RepliedFrom(d, t, "session_setup", "more_processing", "session_setup")
        /\ d.sends[1].body.blob = made.blob
LastAnswers(d, s, made) ==
  \E t : /\ Answering(t, s, made) /\ Len(t.session_key) <= 1
        /\ \/ HungUp(d, t)
           \/ \E status \in {"logon_failure", "not_implemented", "success"}, next \in {"session_setup", "anything"} :
                /\ RepliedFrom(d, t, "session_setup", status, next)
                /\ status = "success" => made.auth.ok /\ Signed(d.sends[1], d.smb2)

LEMMA FirstAnswered ==
  ASSUME NEW s, IsContext(s), NEW made, made.ok = TRUE, made.smb2 = s, NEW atOnce
  PROVE  FirstAnswers(AnsweredFirst(s, made, atOnce), s, made)
<1> DEFINE with == [made.smb2 EXCEPT !.auth = <<made.auth>>]
           keyed == IF with.sign THEN smb2_create_signing_key(with) ELSE with
           body == [blob |-> made.blob, guest |-> Guest(keyed)]
           d == AnsweredFirst(s, made, atOnce)
<1>1. d = ServerReplies(keyed, Message("session_setup", "more_processing", body), atOnce, "setup 1 answered", "session_setup")
  BY DEF AnsweredFirst, SetupAnswered
<1>2. IsContext(with) /\ Answering(with, s, made) /\ with.session_key = s.session_key
  BY DEF Answering, Serves, IsContext, Fields
<1> HIDE DEF with
<1>3. IsContext(keyed) /\ Answering(keyed, s, made) /\ keyed.session_key = s.session_key
  <2> DEFINE c == smb2_create_signing_key(with)
  <2>1. Steady(c, with) /\ c.session_key = with.session_key /\ c.auth = with.auth
    BY <1>2, KeySteady
  <2> HIDE DEF c
  <2>2. Answering(c, s, made) /\ c.session_key = s.session_key /\ IsContext(c)
    BY <1>2, <2>1 DEF Answering, Serves, Steady, Alike
  <2> QED BY <1>2, <2>2 DEF c
<1> HIDE DEF keyed
<1>4. body.blob = made.blob
  OBVIOUS
<1> HIDE DEF body, d
<1>5. \E c, status, said, next : /\ c = "session_setup" /\ status = "more_processing" /\ said = "setup 1 answered"
                                 /\ next = "session_setup"
  OBVIOUS
<1>6. PICK c, status, said, next : /\ c = "session_setup" /\ status = "more_processing" /\ said = "setup 1 answered"
                                   /\ next = "session_setup"
  BY <1>5
<1>7. d = ServerReplies(keyed, Message(c, status, body), atOnce, said, next)
  BY <1>1, <1>6
<1>8. RepliedFrom(d, keyed, c, status, next) /\ d.sends[1].body = body
  BY <1>3, <1>7, RepliesAs
<1>9. /\ Answering(keyed, s, made) /\ keyed.session_key = s.session_key
      /\ RepliedFrom(d, keyed, "session_setup", "more_processing", "session_setup")
      /\ d.sends[1].body.blob = made.blob
  BY <1>3, <1>4, <1>6, <1>8
<1> QED BY <1>9 DEF d, FirstAnswers

LEMMA LastAnswered ==
  ASSUME NEW s, IsContext(s), s.session_id # 0, NEW made, made.ok = TRUE, Renamed(made.smb2, s),
         made.auth.ok \in BOOLEAN, NEW atOnce
  PROVE  LastAnswers(AnsweredLast(s, made, atOnce), s, made)
<1> DEFINE with == [made.smb2 EXCEPT !.auth = <<made.auth>>]
           key == ntlmssp_get_session_key(made.auth)
           judged == [with EXCEPT !.session_key = <<key>>]
           keyed == IF judged.sign THEN smb2_create_signing_key(judged) ELSE judged
           body == [blob |-> made.blob, guest |-> Guest(keyed)]
           d == AnsweredLast(s, made, atOnce)
           R(status, next) == ServerReplies(keyed, Message("session_setup", status, body), atOnce, "setup 2 answered", next)
<1>1. d = IF ~made.auth.ok THEN R("logon_failure", "session_setup")
          ELSE IF conf.server.session = "failing" THEN Hangs(keyed)
          ELSE IF conf.server.session = "missing" THEN R("not_implemented", "anything")
          ELSE R("success", "anything")
  BY DEF AnsweredLast, SetupAnswered
<1>2. IsContext(with) /\ Answering(with, s, made)
  BY DEF Answering, Renamed, Serves, IsContext, Fields
<1> HIDE DEF with, key
<1>3. Steady(judged, with) /\ judged.session_key = <<key>> /\ judged.auth = with.auth /\ IsContext(judged)
  BY <1>2 DEF Steady, Alike, IsContext, Fields
<1> HIDE DEF judged
<1>4. IsContext(keyed) /\ Answering(keyed, s, made) /\ keyed.session_key = <<key>>
  <2> DEFINE c == smb2_create_signing_key(judged)
  <2>1. Steady(c, judged) /\ c.session_key = judged.session_key /\ c.auth = judged.auth
    BY <1>3, KeySteady
  <2> HIDE DEF c
  <2>2. Answering(c, s, made) /\ c.session_key = <<key>> /\ IsContext(c)
    BY <1>2, <1>3, <2>1 DEF Answering, Serves, Steady, Alike
  <2>3. Answering(judged, s, made)
    BY <1>2, <1>3 DEF Answering, Serves, Steady, Alike
  <2> QED BY <1>3, <2>2, <2>3 DEF c
<1> HIDE DEF keyed, body
<1>5. \A x : Len(<<x>>) <= 1 /\ <<x>> # <<>>
  OBVIOUS
<1>6. Len(keyed.session_key) <= 1 /\ keyed.session_key # <<>> /\ keyed.session_id # 0
  BY <1>4, <1>5 DEF Answering
<1>7. ASSUME NEW status, NEW next, NEW e, e = R(status, next)
      PROVE  RepliedFrom(e, keyed, "session_setup", status, next)
  <2>1. PICK c, said : c = "session_setup" /\ said = "setup 2 answered"
    OBVIOUS
  <2>2. e = ServerReplies(keyed, Message(c, status, body), atOnce, said, next)
    BY <1>7, <2>1
  <2>3. RepliedFrom(e, keyed, c, status, next)
    BY <1>4, <2>2, RepliesAs
  <2> QED BY <2>1, <2>3
<1>8. ASSUME NEW next, NEW e, e = R("success", next) PROVE Signed(e.sends[1], e.smb2)
  <2>1. PICK said : said = "setup 2 answered"
    OBVIOUS
  <2>2. e = ServerReplies(keyed, Message("session_setup", "success", body), atOnce, said, next)
    BY <1>8, <2>1
  <2> QED BY <1>4, <1>6, <2>2, SignsGranted
<1> HIDE DEF d
<1>9. CASE d = Hangs(keyed)
  <2>1. HungUp(d, keyed)
    BY <1>4, <1>9, HangsIs
  <2> QED BY <1>4, <1>6, <2>1 DEF d, LastAnswers
<1>10. ASSUME NEW status \in {"logon_failure", "not_implemented", "success"}, NEW next \in {"session_setup", "anything"},
              d = R(status, next), status = "success" => made.auth.ok
       PROVE  /\ RepliedFrom(d, keyed, "session_setup", status, next)
              /\ status = "success" => made.auth.ok /\ Signed(d.sends[1], d.smb2)
  <2>1. RepliedFrom(d, keyed, "session_setup", status, next)
    BY <1>7, <1>10
  <2>2. ASSUME status = "success" PROVE Signed(d.sends[1], d.smb2)
    <3>1. d = R("success", next)
      BY <1>10, <2>2
    <3> QED BY <1>8, <3>1
  <2> QED BY <1>10, <2>1, <2>2
<1> HIDE DEF R
<1>11. \/ d = Hangs(keyed)
       \/ \E status \in {"logon_failure", "not_implemented", "success"}, next \in {"session_setup", "anything"} :
            d = R(status, next) /\ (status = "success" => made.auth.ok)
  BY <1>1 DEF d
<1> QED BY <1>4, <1>6, <1>9, <1>10, <1>11 DEF d, LastAnswers

LEMMA OneAuth == \A x : <<x>>[1] = x /\ Len(<<x>>) <= 1
  OBVIOUS
LEMMA NoKey == Len(<<>>) <= 1
  OBVIOUS

(* The first type begins an authentication, the last one ends it.          *)
LEMMA FirstType ==
  ASSUME NEW s, IsContext(s), NEW m, NEW atOnce
  PROVE  \E b : /\ SetupOfType(s, m, 1, atOnce) = AnsweredFirst(b, ServerMakes(b, m), atOnce)
               /\ IsContext(b) /\ Serves(b, s) /\ b.open = s.open /\ b.session_id = 4660
               /\ b.session_key = s.session_key /\ IsAuth(b.auth[1]) /\ b.password = s.password
<1> DEFINE auth == ntlmssp_init_context(Empty, [password |-> Empty], Empty, conf.server.hostname)
           f == 1 = NEGOTIATE_MESSAGE
           h == smb3_update_preauth_hash(s, IF f THEN "setup 1" ELSE "setup 2")
           b == IF f THEN [h EXCEPT !.auth = <<auth>>, !.session_id = 4660] ELSE h
           e == SetupAnswered(b, ServerMakes(b, m), f, atOnce)
<1>1. 1 \in {NEGOTIATE_MESSAGE, AUTHENTICATION_MESSAGE} /\ 1 = NEGOTIATE_MESSAGE
  BY DEF NEGOTIATE_MESSAGE
<1>2. SetupOfType(s, m, 1, atOnce) = IF 1 \notin {NEGOTIATE_MESSAGE, AUTHENTICATION_MESSAGE} THEN Hangs(h) ELSE e
  BY DEF SetupOfType, ServerMakes
<1>3. f = TRUE
  BY <1>1
<1>4. Steady(h, s) /\ h.session_key = s.session_key
  BY HashSteady
<1>5. IsAuth(auth)
  BY DEF ntlmssp_init_context, IsAuth
<1> HIDE DEF f, h, auth
<1>6. b = [h EXCEPT !.auth = <<auth>>, !.session_id = 4660]
  BY <1>3
<1> HIDE DEF b
<1>7. /\ IsContext(b) /\ Serves(b, s) /\ b.open = s.open /\ b.session_id = 4660
      /\ b.session_key = s.session_key /\ b.auth = <<auth>> /\ b.password = s.password
  BY <1>4, <1>6 DEF Serves, Steady, Alike, IsContext, Fields
<1>8. b.auth[1] = auth
  BY <1>7, OneAuth
<1>9. e = AnsweredFirst(b, ServerMakes(b, m), atOnce)
  BY <1>3 DEF AnsweredFirst
<1> HIDE DEF e
<1>10. SetupOfType(s, m, 1, atOnce) = AnsweredFirst(b, ServerMakes(b, m), atOnce)
  BY <1>1, <1>2, <1>9
<1> QED BY <1>5, <1>7, <1>8, <1>10

LEMMA LastType ==
  ASSUME NEW s, IsContext(s), NEW m, NEW atOnce
  PROVE  \E b : /\ SetupOfType(s, m, 3, atOnce) = AnsweredLast(b, ServerMakes(b, m), atOnce)
               /\ Steady(b, s) /\ b.session_key = s.session_key /\ b.auth = s.auth
<1> DEFINE f == 3 = NEGOTIATE_MESSAGE
           auth == ntlmssp_init_context(Empty, [password |-> Empty], Empty, conf.server.hostname)
           h == smb3_update_preauth_hash(s, IF f THEN "setup 1" ELSE "setup 2")
           b == IF f THEN [h EXCEPT !.auth = <<auth>>, !.session_id = 4660] ELSE h
           e == SetupAnswered(b, ServerMakes(b, m), f, atOnce)
<1>1. 3 \in {NEGOTIATE_MESSAGE, AUTHENTICATION_MESSAGE} /\ 3 # NEGOTIATE_MESSAGE
  BY DEF NEGOTIATE_MESSAGE, AUTHENTICATION_MESSAGE
<1>2. SetupOfType(s, m, 3, atOnce) = IF 3 \notin {NEGOTIATE_MESSAGE, AUTHENTICATION_MESSAGE} THEN Hangs(h) ELSE e
  BY DEF SetupOfType, ServerMakes
<1>3. f = FALSE
  BY <1>1
<1>4. Steady(h, s) /\ h.session_key = s.session_key /\ h.auth = s.auth
  BY HashSteady
<1> HIDE DEF f, h, auth
<1>5. b = h
  BY <1>3
<1> HIDE DEF b
<1>6. e = AnsweredLast(b, ServerMakes(b, m), atOnce)
  BY <1>3 DEF AnsweredLast
<1> HIDE DEF e
<1>7. SetupOfType(s, m, 3, atOnce) = AnsweredLast(b, ServerMakes(b, m), atOnce)
  BY <1>1, <1>2, <1>6
<1> QED BY <1>4, <1>5, <1>7

LEMMA SessionServed ==
  ASSUME conf \in Parties, NEW cl, NEW sv, NEW m, NEW r, Agrees(conf, cl, sv, <<m>>, r), cl.told # <<"success">>,
         m.command = "session_setup", NEW atOnce
  PROVE  LET d == smb2_session_setup_request_cb(sv, m, atOnce)
         IN Agrees(conf, cl, d.smb2, <<>>, IF cl.open THEN d.sends ELSE <<>>)
<1> DEFINE blob == m.body.blob
           type == ntlmssp_get_message_type(blob).type
           d == smb2_session_setup_request_cb(sv, m, atOnce)
<1>1. /\ Asked(conf, m, cl, sv) /\ ServerOf(conf, sv) /\ Spoken(conf, cl, sv) /\ ClientOf(conf, cl)
      /\ (cl.open => cl.user # None)
  BY AskedOf
<1>2. /\ (cl.open => m.command = cl.next) /\ sv.password = Zero
      /\ FirstBlob(blob) \/ (LastBlob(conf, blob) /\ Challenged(sv))
  BY <1>1 DEF Asked
<1>3. IsContext(sv) /\ sv.open \in BOOLEAN /\ Len(sv.session_key) <= 1 /\ Len(sv.auth) <= 1
  BY <1>1 DEF ServerOf, ContextOk
<1>4. d = SetupOfType(sv, m, type, atOnce)
  BY DEF smb2_session_setup_request_cb
<1>5. cl.open => conf.client.user # None
  BY <1>1 DEF ClientOf
<1> HIDE DEF d
<1>6. CASE FirstBlob(blob)
  <2>1. type = 1
    <3>1. NEGOTIATE_MESSAGE \in 1 .. 3 /\ NEGOTIATE_MESSAGE = 1 /\ Holds(NEGOTIATE_MESSAGE, blob)
      BY <1>6 DEF NEGOTIATE_MESSAGE, FirstBlob
    <3> QED BY <3>1, HeldArrives
  <2>2. d = SetupOfType(sv, m, 1, atOnce)
    <3> HIDE DEF type
    <3> QED BY <1>4, <2>1
  <2>3. PICK begun :
          /\ SetupOfType(sv, m, 1, atOnce) = AnsweredFirst(begun, ServerMakes(begun, m), atOnce)
          /\ IsContext(begun) /\ Serves(begun, sv) /\ begun.open = sv.open /\ begun.session_id = 4660
          /\ begun.session_key = sv.session_key /\ IsAuth(begun.auth[1]) /\ begun.password = sv.password
    BY <1>3, FirstType
  <2> DEFINE made == ServerMakes(begun, m)
  <2>4. d = AnsweredFirst(begun, made, atOnce)
    BY <2>2, <2>3
  <2>5. /\ IsContext(begun) /\ Serves(begun, sv) /\ begun.open = sv.open /\ begun.session_id = 4660
        /\ begun.session_key = sv.session_key /\ begun.password = Zero
    BY <1>2, <2>3
  <2>7. made.ok = TRUE /\ made.smb2 = begun /\ IsAuth(made.auth) /\ ChallengeBlob(made.blob)
    <3>1. IsAuth(begun.auth[1])
      BY <2>3
    <3> QED BY <1>6, <3>1, ChallengeMade DEF ServerMakes
  <2> HIDE DEF made
  <2>8. PICK t0 : /\ Answering(t0, begun, made) /\ t0.session_key = begun.session_key
                  /\ RepliedFrom(d, t0, "session_setup", "more_processing", "session_setup")
                  /\ d.sends[1].body.blob = made.blob
    <3>1. FirstAnswers(AnsweredFirst(begun, made, atOnce), begun, made)
      <4>1. IsContext(begun) /\ made.ok = TRUE /\ made.smb2 = begun
        BY <2>5, <2>7
      <4> QED BY <4>1, FirstAnswered
    <3>2. FirstAnswers(d, begun, made)
      BY <2>4, <3>1
    <3> QED BY <3>2 DEF FirstAnswers
  <2> DEFINE t == d.smb2
             a == d.sends[1]
             sends == d.sends
  <2>9. /\ Serves(t, sv) /\ t.open = sv.open /\ t.next = "session_setup" /\ t.password = Zero
        /\ t.session_id = 4660 /\ t.session_key = sv.session_key /\ t.auth = <<made.auth>>
    BY <2>5, <2>7, <2>8 DEF RepliedFrom, Answering, Serves
  <2>10. /\ a.command = "session_setup" /\ a.status = "more_processing" /\ sends = <<a>> /\ sends[1] = a
         /\ Len(a.signature) <= 1 /\ Len(a.sealed) <= 1 /\ a.body.blob = made.blob
    BY <2>8 DEF RepliedFrom
  <2> HIDE DEF t, a, sends, blob
  <2>11. ServerOf(conf, t) /\ Spoken(conf, cl, t)
    <3>1. Len(t.session_key) <= 1 /\ Len(t.auth) <= 1 /\ t.open \in BOOLEAN
      <4>1. Len(t.auth) <= 1
        BY <2>9, OneAuth
      <4> QED BY <1>3, <2>9, <4>1
    <3>2. ServerOf(conf, t)
      <4>1. t.next \in Commands \cup {"none", "connect", "anything"}
        BY <2>9 DEF Commands
      <4>2. Serves(t, sv)
        BY <2>9
      <4> QED BY <1>1, <3>1, <4>1, <4>2, ServesStill
    <3> QED BY <1>1, <2>9, <3>2 DEF Spoken, Serves
  <2>12. Challenged(t)
    <3>1. t.auth[1] = made.auth /\ t.session_id # 0
      BY <2>9, OneAuth
    <3> QED BY <2>7, <2>9, <3>1 DEF Challenged
  <2>13. cl.open => Replied(conf, a, cl, t)
    <3>1. MessageOk(a)
      BY <2>10 DEF MessageOk, Commands, LoginStatuses
    <3> QED BY <1>2, <2>7, <2>10, <2>12, <3>1 DEF Replied
  <2>14. t.sign = sv.sign
    BY <2>9 DEF Serves
  <2>15. Agrees(conf, cl, t, <<>>, IF cl.open THEN sends ELSE <<>>)
    BY <2>10, <2>11, <2>13, <2>14, ServedAgrees
  <2> QED BY <2>15 DEF t, sends, d
<1>7. CASE LastBlob(conf, blob) /\ Challenged(sv)
  <2>1. type = 3
    <3>1. AUTHENTICATION_MESSAGE \in 1 .. 3 /\ AUTHENTICATION_MESSAGE = 3 /\ Holds(AUTHENTICATION_MESSAGE, blob)
      BY <1>7 DEF AUTHENTICATION_MESSAGE, LastBlob
    <3> QED BY <3>1, HeldArrives
  <2>2. d = SetupOfType(sv, m, 3, atOnce)
    <3> HIDE DEF type
    <3> QED BY <1>4, <2>1
  <2>3. PICK heard : /\ SetupOfType(sv, m, 3, atOnce) = AnsweredLast(heard, ServerMakes(heard, m), atOnce)
                     /\ Steady(heard, sv) /\ heard.session_key = sv.session_key /\ heard.auth = sv.auth
    BY <1>3, LastType
  <2> DEFINE made == ServerMakes(heard, m)
  <2>31. d = AnsweredLast(heard, made, atOnce)
    BY <2>2, <2>3
  <2>4. /\ IsContext(heard) /\ Serves(heard, sv) /\ heard.open = sv.open /\ heard.session_id # 0
        /\ heard.password = Zero /\ IsAuth(heard.auth[1])
    BY <1>2, <1>7, <2>3 DEF Serves, Steady, Alike, Challenged
  <2>5. /\ IsPassword(conf.client.password) /\ IsPassword(conf.server.password)
        /\ conf.server.allow_anonymous \in BOOLEAN
    BY PartiesAre
  <2>6. /\ made.ok = TRUE /\ IsAuth(made.auth) /\ made.auth.ok \in BOOLEAN /\ Renamed(made.smb2, heard)
        /\ made.auth.ok /\ conf.client.user # None => KnownTo(conf)
    BY <1>7, <2>4, <2>5, LastJudged DEF ServerMakes
  <2> HIDE DEF made
  <2>7. PICK t0 : /\ Answering(t0, heard, made) /\ Len(t0.session_key) <= 1
                  /\ \/ HungUp(d, t0)
                     \/ \E status \in {"logon_failure", "not_implemented", "success"}, next \in {"session_setup", "anything"} :
                          /\ RepliedFrom(d, t0, "session_setup", status, next)
                          /\ status = "success" => made.auth.ok /\ Signed(d.sends[1], d.smb2)
    <3>1. LastAnswers(AnsweredLast(heard, made, atOnce), heard, made)
      BY <2>4, <2>6, LastAnswered
    <3>2. LastAnswers(d, heard, made)
      BY <2>31, <3>1
    <3> QED BY <3>2 DEF LastAnswers
  <2>8. /\ Serves(t0, sv) /\ t0.open = sv.open /\ t0.auth = <<made.auth>> /\ IsContext(t0)
    BY <2>4, <2>7 DEF Answering, Serves
  <2>9. CASE HungUp(d, t0)
    <3> DEFINE t == d.smb2
               sends == d.sends
    <3>1. /\ Serves(t, sv) /\ t.open = FALSE /\ t.next = "none" /\ t.session_key = <<>> /\ t.auth = <<made.auth>>
          /\ sends = <<>>
      BY <2>8, <2>9 DEF HungUp, Serves
    <3> HIDE DEF t, sends
    <3>2. ServerOf(conf, t) /\ Spoken(conf, cl, t) /\ t.sign = sv.sign
      <4>1. Len(t.session_key) <= 1 /\ Len(t.auth) <= 1 /\ t.open \in BOOLEAN
        <5>1. Len(t.auth) <= 1
          BY <3>1, OneAuth
        <5>2. Len(t.session_key) <= 1
          BY <3>1, NoKey
        <5> QED BY <3>1, <5>1, <5>2
      <4>2. ServerOf(conf, t)
        BY <1>1, <3>1, <4>1, ServesStill
      <4> QED BY <1>1, <3>1, <4>2 DEF Spoken, Serves
    <3>3. Agrees(conf, cl, t, <<>>, IF cl.open THEN sends ELSE <<>>)
      BY <3>1, <3>2, ServedAgrees
    <3> QED BY <3>3 DEF t, sends, d
  <2>10. ASSUME NEW status \in {"logon_failure", "not_implemented", "success"}, NEW next \in {"session_setup", "anything"},
                RepliedFrom(d, t0, "session_setup", status, next),
                status = "success" => made.auth.ok /\ Signed(d.sends[1], d.smb2)
         PROVE  Agrees(conf, cl, d.smb2, <<>>, IF cl.open THEN d.sends ELSE <<>>)
    <3> DEFINE t == d.smb2
               a == d.sends[1]
               sends == d.sends
    <3>1. /\ Serves(t, sv) /\ t.open = sv.open /\ t.next \in {"session_setup", "anything"}
          /\ t.session_key = t0.session_key /\ t.auth = <<made.auth>>
      BY <2>8, <2>10 DEF RepliedFrom, Serves
    <3>2. /\ a.command = "session_setup" /\ a.status = status /\ sends = <<a>> /\ sends[1] = a
          /\ Len(a.signature) <= 1 /\ Len(a.sealed) <= 1
      BY <2>10 DEF RepliedFrom
    <3>3. status = "success" => made.auth.ok /\ Signed(a, t)
      BY <2>10
    <3> HIDE DEF t, a, sends
    <3>4. ServerOf(conf, t) /\ Spoken(conf, cl, t) /\ t.sign = sv.sign
      <4>1. Len(t.session_key) <= 1 /\ Len(t.auth) <= 1 /\ t.open \in BOOLEAN
        <5>1. Len(t.auth) <= 1
          BY <3>1, OneAuth
        <5> QED BY <1>3, <2>7, <3>1, <5>1
      <4>2. ServerOf(conf, t)
        BY <1>1, <3>1, <4>1, ServesStill DEF Commands
      <4> QED BY <1>1, <3>1, <4>2 DEF Spoken, Serves
    <3>5. cl.open => Replied(conf, a, cl, t)
      <4>1. MessageOk(a)
        BY <3>2 DEF MessageOk, Commands, LoginStatuses
      <4>2. cl.open /\ status = "success" => KnownTo(conf)
        BY <1>5, <2>6, <3>3
      <4> QED BY <1>2, <3>2, <3>3, <4>1, <4>2 DEF Replied
    <3>6. Agrees(conf, cl, t, <<>>, IF cl.open THEN sends ELSE <<>>)
      BY <3>2, <3>4, <3>5, ServedAgrees
    <3> QED BY <3>6 DEF t, sends
  <2> QED BY <2>7, <2>9, <2>10 DEF d
<1> QED BY <1>2, <1>6, <1>7

LEMMA TreeServed ==
  ASSUME NEW cl, NEW sv, NEW m, NEW r, Agrees(conf, cl, sv, <<m>>, r), cl.told # <<"success">>,
         m.command = "tree_connect", NEW share \in {"success", "refused"}
  PROVE  LET d == tree_connect_request(sv, share)
         IN Agrees(conf, cl, d.smb2, <<>>, IF cl.open THEN d.sends ELSE <<>>)
<1> DEFINE body == [blob |-> NoBlob]
           a == smb2_queue_pdu(sv, Message("tree_connect", share, body), TRUE)
           sends == <<a>>
           d == tree_connect_request(sv, share)
<1>1. d.smb2 = sv /\ d.sends = sends
  BY DEF tree_connect_request, Does
<1>2. /\ Asked(conf, m, cl, sv) /\ ServerOf(conf, sv) /\ Spoken(conf, cl, sv)
  BY AskedOf
<1>3. a.command = "tree_connect" /\ a.status = share /\ Len(a.signature) <= 1 /\ Len(a.sealed) <= 1
  <2> HIDE DEF body
  <2>1. PICK yes, c : a = smb2_queue_pdu(sv, Message(c, share, body), yes) /\ c = "tree_connect" /\ yes \in BOOLEAN
    OBVIOUS
  <2> HIDE DEF a
  <2>2. a.command = c /\ a.status = share /\ Len(a.signature) <= 1 /\ Len(a.sealed) <= 1
    BY <2>1, QueuedAs
  <2> QED BY <2>1, <2>2
<1> HIDE DEF a, d
<1>4. sends[1] = a /\ sends = <<sends[1]>>
  BY OneAuth
<1> HIDE DEF sends
<1>5. cl.open => Replied(conf, sends[1], cl, sv)
  <2>1. MessageOk(a)
    BY <1>3 DEF MessageOk, Commands, LoginStatuses
  <2> QED BY <1>2, <1>3, <1>4, <2>1 DEF Replied, Asked
<1>6. Agrees(conf, cl, sv, <<>>, IF cl.open THEN sends ELSE <<>>)
  BY <1>2, <1>4, <1>5, ServedAgrees
<1> QED BY <1>1, <1>6 DEF d

LEMMA ServerReadsAgrees ==
  ASSUME OneEnd, conf \in Parties, Sides, ServerReads
  PROVE  Sides'
<1>1. c2s # <<>>
  BY DEF ServerReads, ServerCanRead
<1>2. c2s = <<c2s[1]>> /\ s2c = <<>> /\ Agrees(conf, client, server, c2s, s2c) /\ Asked(conf, c2s[1], client, server)
  BY <1>1 DEF Sides, Agrees, UnderWay
<1> DEFINE m == c2s[1]
           q == <<m>>
<1>3. Head(c2s) = m /\ Tail(c2s) = <<>>
  <2>1. \A x : Head(<<x>>) = x /\ Tail(<<x>>) = <<>>
    OBVIOUS
  <2> QED BY <1>2, <2>1
<1>4. m.command \in Commands
  BY <1>2 DEF Asked, MessageOk
<1>5. client.told # <<"success">>
  <2>1. SUFFICES ASSUME client.told = <<"success">> PROVE FALSE
    OBVIOUS
  <2>2. client.told # <<>>
    <3>1. <<"success">> # <<>>
      OBVIOUS
    <3> QED BY <2>1, <3>1
  <2>3. client.next = "none"
    BY <2>2 DEF OneEnd
  <2>4. client.open
    BY <1>2, <2>1 DEF Agrees, Stage
  <2> QED BY <1>1, <1>2, <2>3, <2>4 DEF Agrees, Stage
<1> DEFINE d(atOnce, share) ==
             IF ~smb3_decrypt_pdu(server, m) THEN Hangs(server)
             ELSE CASE m.command = "negotiate" -> smb2_negotiate_request_cb(server, m, atOnce)
                    [] m.command = "session_setup" -> smb2_session_setup_request_cb(server, m, atOnce)
                    [] m.command = "tree_connect" -> tree_connect_request(server, share)
<1>6. PICK atOnce \in BOOLEAN, share \in {"success", "refused"} : ServerDid(d(atOnce, share), <<>>)
  BY <1>3 DEF ServerReads
<1> DEFINE e == d(atOnce, share)
<1> HIDE DEF m
<1>7. \/ e = Hangs(server)
      \/ m.command = "negotiate" /\ e = smb2_negotiate_request_cb(server, m, atOnce)
      \/ m.command = "session_setup" /\ e = smb2_session_setup_request_cb(server, m, atOnce)
      \/ m.command = "tree_connect" /\ e = tree_connect_request(server, share)
  BY <1>4 DEF Commands
<1>8. ServerDid(e, <<>>)
  BY <1>6
<1> HIDE DEF d, e
<1>9. Agrees(conf, client, server, <<m>>, s2c)
  BY <1>2 DEF m
<1>10. Agrees(conf, client, e.smb2, <<>>, IF client.open THEN e.sends ELSE <<>>)
  <2>1. CASE e = Hangs(server)
    <3>1. ServerOf(conf, server) /\ Spoken(conf, client, server) /\ IsContext(server)
      BY <1>2 DEF Agrees, ServerOf
    <3>2. HungUp(e, server)
      BY <2>1, <3>1, HangsIs
    <3> QED BY <1>5, <1>9, <3>1, <3>2, HungUpAgrees
  <2>2. CASE m.command = "negotiate" /\ e = smb2_negotiate_request_cb(server, m, atOnce)
    BY <1>5, <1>9, <2>2, NegotiateServed
  <2>3. CASE m.command = "session_setup" /\ e = smb2_session_setup_request_cb(server, m, atOnce)
    BY <1>5, <1>9, <2>3, SessionServed
  <2>4. CASE m.command = "tree_connect" /\ e = tree_connect_request(server, share)
    BY <1>5, <1>9, <2>4, TreeServed
  <2> QED BY <1>7, <2>1, <2>2, <2>3, <2>4
<1> DEFINE after == IF client.open THEN e.sends ELSE <<>>
<1>11. s2c' = after
  <2>1. s2c' = IF client.open THEN s2c \o e.sends ELSE <<>>
    BY <1>8 DEF ServerDid
  <2>2. \A x : <<>> \o <<x>> = <<x>>
    OBVIOUS
  <2>3. after = <<>> \/ after = <<after[1]>>
    BY <1>10 DEF Agrees, UnderWay
  <2>4. client.open => <<>> \o e.sends = e.sends
    <3>1. client.open => e.sends = <<>> \/ \E x : e.sends = <<x>>
      BY <2>3
    <3> QED BY <2>2, <3>1
  <2> QED BY <1>2, <2>1, <2>4
<1>12. Agrees(conf, client, e.smb2, <<>>, after)
  BY <1>10
<1> HIDE DEF after
<1>13. conf' = conf /\ client' = client /\ server' = e.smb2 /\ c2s' = <<>>
  BY <1>8 DEF ServerDid
<1> QED BY <1>11, <1>12, <1>13, SidesAfter

LEMMA SeesEndAgrees ==
  ASSUME Sides, ServerSeesEnd
  PROVE  Sides'
<1> DEFINE c == smb2_close_context(server)
           t == [c EXCEPT !.next = "none"]
<1>1. /\ ~client.open /\ c2s = <<>> /\ server' = t /\ conf' = conf /\ client' = client /\ c2s' = c2s /\ s2c' = s2c
  BY DEF ServerSeesEnd
<1>2. Agrees(conf, client, server, c2s, s2c) /\ ServerOf(conf, server) /\ IsContext(server) /\ s2c = <<>>
  BY <1>1 DEF Sides, Agrees, ServerOf, UnderWay
<1>3. /\ IsContext(c) /\ Serves(c, server) /\ c.open = FALSE /\ c.session_key = <<>> /\ c.auth = server.auth
      /\ c.password = server.password
  BY <1>2, CloseIs DEF Serves, Alike
<1> HIDE DEF c
<1>4. /\ Serves(t, server) /\ t.open = FALSE /\ t.session_key = <<>> /\ t.auth = server.auth /\ t.next = "none"
      /\ t.password = server.password
  BY <1>3 DEF Serves, IsContext, Fields
<1> HIDE DEF t
<1>5. ServerOf(conf, t)
  <2>1. Len(t.session_key) <= 1
    BY <1>4, NoKey
  <2>2. Len(t.auth) <= 1 /\ t.open \in BOOLEAN
    BY <1>2, <1>4 DEF ServerOf, ContextOk
  <2> QED BY <1>2, <1>4, <2>1, <2>2, ServesStill
<1>6. Spoken(conf, client, t) /\ ClientOf(conf, client)
  BY <1>2, <1>4 DEF Agrees, Spoken, Serves
<1>7. UnderWay(conf, client, t, c2s, s2c)
  BY <1>1, <1>2 DEF UnderWay
<1>8. Stage(conf, client, t, c2s, s2c)
  BY <1>1, <1>2, <1>4 DEF Agrees, Stage, Commands
<1>9. Agrees(conf, client, t, c2s, s2c)
  BY <1>5, <1>6, <1>7, <1>8 DEF Agrees
<1> QED BY <1>1, <1>9, SidesAfter

-----------------------------------------------------------------------------
(* Before the caller has asked for a connection nothing was said.          *)
LEMMA ContextBegins ==
  ASSUME NEW version, NEW seal \in BOOLEAN, NEW sign \in BOOLEAN, NEW user, NEW password, NEW domain, NEW name
  PROVE  LET s == [smb2_init_context(version, seal, sign, user, password, domain, name) EXCEPT !.open = FALSE]
         IN /\ IsContext(s) /\ ContextOk(s) /\ s.version = version /\ s.seal = seal /\ s.user = user
            /\ s.password = password /\ s.open = FALSE /\ s.dialect = 0 /\ s.next = "none"
            /\ s.c_data = "none" /\ s.told = <<>>
<1> DEFINE none == <<>>
           s == [smb2_init_context(version, seal, sign, user, password, domain, name) EXCEPT !.open = FALSE]
<1>1. Len(none) <= 1 /\ DOMAIN none = {}
  OBVIOUS
<1> HIDE DEF none
<1>2. /\ IsContext(s) /\ s.version = version /\ s.seal = seal /\ s.user = user /\ s.sign = sign
      /\ s.password = password /\ s.open = FALSE /\ s.dialect = 0 /\ s.next = "none"
      /\ s.c_data = "none" /\ s.told = none /\ s.broken = FALSE /\ s.session_key = none /\ s.auth = none
  BY DEF smb2_init_context, IsContext, Fields, none
<1> HIDE DEF s
<1>3. ContextOk(s)
  <2>1. s.open \in BOOLEAN /\ s.seal \in BOOLEAN /\ s.sign \in BOOLEAN /\ s.broken \in BOOLEAN
    BY <1>2
  <2>2. \A i \in DOMAIN s.told : s.told[i] \in LoginStatuses
    BY <1>1, <1>2
  <2>3. Len(s.session_key) <= 1 /\ Len(s.auth) <= 1
    BY <1>1, <1>2
  <2>4. s.next \in Commands \cup {"none", "connect", "anything"} /\ s.c_data \in {"none", "held", "freed", "refused", "lost"}
    BY <1>2
  <2> QED BY <1>2, <2>1, <2>2, <2>3, <2>4 DEF ContextOk
<1> QED BY <1>2, <1>3 DEF s, none

LEMMA InitAgrees == LoginInit => LoginInvariant
<1> SUFFICES ASSUME LoginInit PROVE LoginInvariant
  OBVIOUS
<1>1. OneEnd /\ conf \in Parties
  <2>1. OneEnd
    BY InitOneEnd
  <2> QED BY <2>1 DEF LoginInit
<1>2. faults \in 0 .. MaxFaults
  <2>1. faults = 0
    BY Zenon DEF LoginInit
  <2> QED BY <2>1, FaultsAssumption
<1>3. conf.client.seal \in BOOLEAN /\ conf.client.sign \in BOOLEAN /\ conf.server.seal \in BOOLEAN
  BY <1>1, PartiesAre
<1>4. /\ IsContext(client) /\ ContextOk(client) /\ client.version = conf.client.version
      /\ client.seal = conf.client.seal /\ client.user = conf.client.user
      /\ client.password = conf.client.password /\ client.open = FALSE /\ client.dialect = 0
      /\ client.next = "none" /\ client.told = <<>>
  <2>1. PICK name : client = [smb2_init_context(conf.client.version, conf.client.seal, conf.client.sign,
                                conf.client.user, conf.client.password, None, name) EXCEPT !.open = FALSE]
    BY Zenon DEF LoginInit
  <2> QED BY <1>3, <2>1, ContextBegins
<1>5. /\ IsContext(server) /\ ContextOk(server) /\ server.version = conf.server.version
      /\ server.seal = conf.server.seal /\ server.password = Zero /\ server.dialect = 0
  <2>1. PICK name : server = [smb2_init_context(conf.server.version, conf.server.seal, FALSE, name, Zero, None, None)
                                EXCEPT !.open = FALSE]
    BY Zenon DEF LoginInit
  <2>2. PICK no \in BOOLEAN : no = FALSE
    OBVIOUS
  <2>3. server = [smb2_init_context(conf.server.version, conf.server.seal, no, name, Zero, None, None)
                    EXCEPT !.open = FALSE]
    BY <2>1, <2>2
  <2> QED BY <1>3, <2>3, ContextBegins
<1>6. client.told # <<"success">>
  <2>1. <<>> # <<"success">>
    OBVIOUS
  <2> QED BY <1>4, <2>1
<1>7. c2s = <<>> /\ s2c = <<>>
  BY DEF LoginInit
<1>8. ClientOf(conf, client) /\ ServerOf(conf, server)
  BY <1>4, <1>5 DEF ClientOf, ServerOf
<1>9. Spoken(conf, client, server) /\ UnderWay(conf, client, server, c2s, s2c)
  BY <1>4, <1>5, <1>7 DEF Spoken, UnderWay
<1>10. Stage(conf, client, server, c2s, s2c)
  BY <1>4, <1>5, <1>6, <1>7 DEF Stage, Commands
<1> QED BY <1>1, <1>2, <1>8, <1>9, <1>10 DEF LoginInvariant, Agrees

LEMMA FaultsCount ==
  ASSUME faults \in 0 .. MaxFaults, [LoginNext]_loginVars
  PROVE  faults' \in 0 .. MaxFaults
<1>1. \A oom : MayFail(oom) => faults' \in 0 .. MaxFaults
  BY FaultsAssumption DEF MayFail
<1>2. \/ faults' = faults
      \/ \E oom : MayFail(oom)
  BY DEF LoginNext, ClientNext, ServerNext, smb2_connect_share_async, Connected, ClientReads, ServiceFails,
         smb2_destroy_context_connecting, smb2_timeout_pdus, GivenUp, ServerReads, ServerDid, ServerSeesEnd, loginVars
<1> QED BY <1>1, <1>2

LEMMA SidesKept ==
  ASSUME OneEnd, conf \in Parties, Sides, [LoginNext]_loginVars
  PROVE  Sides'
<1>1. CASE smb2_connect_share_async
  BY <1>1, AskedAgrees
<1>2. CASE Connected
  BY <1>2, ConnectedAgrees
<1>3. CASE ClientReads
  BY <1>3, ReadsAgrees
<1>4. CASE ServiceFails
  BY <1>4, GivenUpAgrees DEF ServiceFails, ServiceMustFail
<1>5. CASE smb2_destroy_context_connecting
  BY <1>5, GivenUpAgrees DEF smb2_destroy_context_connecting
<1>6. CASE smb2_timeout_pdus
  BY <1>6, GivenUpAgrees DEF smb2_timeout_pdus
<1>7. CASE ServerReads
  BY <1>7, ServerReadsAgrees
<1>8. CASE ServerSeesEnd
  BY <1>8, SeesEndAgrees
<1>9. CASE UNCHANGED loginVars
  BY <1>9, SidesAfter DEF Sides, loginVars
<1> QED BY <1>1, <1>2, <1>3, <1>4, <1>5, <1>6, <1>7, <1>8, <1>9 DEF LoginNext, ClientNext, ServerNext

LEMMA LoginStep == LoginInvariant /\ [LoginNext]_loginVars => LoginInvariant'
<1> SUFFICES ASSUME LoginInvariant, [LoginNext]_loginVars PROVE LoginInvariant'
  OBVIOUS
<1>1. OneEnd /\ conf \in Parties /\ faults \in 0 .. MaxFaults /\ Sides
  BY DEF LoginInvariant, Sides
<1>2. conf' = conf
  BY DEF LoginNext, ClientNext, ServerNext, smb2_connect_share_async, Connected, ClientReads, ServiceFails,
         smb2_destroy_context_connecting, smb2_timeout_pdus, GivenUp, ClientDid, ServerReads, ServerDid,
         ServerSeesEnd, loginVars
<1>3. OneEnd'
  BY <1>1, StepOneEnd
<1>4. faults' \in 0 .. MaxFaults
  BY <1>1, FaultsCount
<1>5. Sides'
  BY <1>1, SidesKept
<1> QED BY <1>1, <1>2, <1>3, <1>4, <1>5 DEF LoginInvariant, Sides

(* What the invariant is for.                                              *)
LEMMA OursAre ==
  ASSUME NEW k, k.client.version \in Versions, NEW top \in Ours(k), \A d \in Ours(k) : d <= top
  PROVE  Max(Ours(k)) = top
<1>1. Rises(Dialects(k.client.version))
  BY DialectsRise
<1>2. Ours(k) \subseteq Nat
  <2>1. \A d \in ToSet(Dialects(k.client.version)) : d \in Nat
    BY <1>1 DEF Rises, ToSet
  <2> QED BY <2>1 DEF Ours
<1> DEFINE S == Ours(k)
<1> HIDE DEF S
<1>3. top \in S /\ S \subseteq Nat /\ \A d \in S : d <= top
  BY <1>2 DEF S
<1>4. Max(S) \in S /\ \A d \in S : Max(S) >= d
  <2>1. \A d \in S : top >= d
    BY <1>3
  <2> QED BY <1>3, <2>1 DEF Max
<1> DEFINE m == Max(S)
<1> HIDE DEF m
<1>5. m \in Nat /\ top \in Nat /\ m >= top /\ m <= top
  <2>1. m \in S /\ \A d \in S : m >= d
    BY <1>4 DEF m
  <2> QED BY <1>3, <2>1
<1>6. m = top
  BY <1>5
<1> QED BY <1>6 DEF m, S

LEMMA AgreesTypes == LoginInvariant => LoginTypeOK
<1> SUFFICES ASSUME LoginInvariant PROVE LoginTypeOK
  OBVIOUS
<1>1. /\ conf \in Parties /\ faults \in 0 .. MaxFaults /\ ContextOk(client) /\ ContextOk(server)
      /\ UnderWay(conf, client, server, c2s, s2c)
  BY DEF LoginInvariant, Agrees, ClientOf, ServerOf
<1>2. \A m : Len(<<m>>) = 1 /\ DOMAIN <<m>> = {1} /\ Len(<<>>) = 0 /\ DOMAIN <<>> = {}
  OBVIOUS
<1>3. Len(c2s) <= 1 /\ \A i \in DOMAIN c2s : MessageOk(c2s[i])
  <2>1. c2s = <<>> \/ (c2s = <<c2s[1]>> /\ MessageOk(c2s[1]))
    BY <1>1 DEF UnderWay, Asked
  <2>2. c2s # <<>> => Len(c2s) = 1 /\ DOMAIN c2s = {1}
    BY <1>2, <2>1
  <2> QED BY <1>2, <2>1, <2>2
<1>4. Len(s2c) <= 1 /\ \A i \in DOMAIN s2c : MessageOk(s2c[i])
  <2>1. s2c = <<>> \/ (s2c = <<s2c[1]>> /\ MessageOk(s2c[1]))
    BY <1>1 DEF UnderWay, Replied
  <2>2. s2c # <<>> => Len(s2c) = 1 /\ DOMAIN s2c = {1}
    BY <1>2, <2>1
  <2> QED BY <1>2, <2>1, <2>2
<1> QED BY <1>1, <1>3, <1>4 DEF LoginTypeOK

LEMMA AgreesSpeaks == LoginInvariant => HighestCommon
<1> SUFFICES ASSUME LoginInvariant PROVE HighestCommon
  OBVIOUS
<1>1. /\ Spoken(conf, client, server) /\ Stage(conf, client, server, c2s, s2c)
      /\ conf.client.version \in Versions
  BY PartiesAre DEF LoginInvariant, Agrees
<1>2. client.dialect # 0 => client.dialect = Max(Ours(conf))
  <2> SUFFICES ASSUME client.dialect # 0 PROVE client.dialect = Max(Ours(conf))
    OBVIOUS
  <2>1. client.dialect \in Ours(conf) /\ \A d \in Ours(conf) : d <= client.dialect
    BY <1>1 DEF Spoken
  <2> QED BY <1>1, <2>1, OursAre
<1>3. Is("success") => server.dialect = client.dialect
  BY <1>1 DEF Is, Stage, Agreed, Spoken
<1> QED BY <1>2, <1>3 DEF HighestCommon, Ours

LEMMA AgreesSigns == LoginInvariant => RequiredIsKept /\ KeysAgree
<1> SUFFICES ASSUME LoginInvariant PROVE RequiredIsKept /\ KeysAgree
  OBVIOUS
<1>1. Stage(conf, client, server, c2s, s2c)
  BY DEF LoginInvariant, Agrees
<1>2. Is("success") => Agreed(conf, client, server) /\ SameKey(client, server)
  BY <1>1 DEF Is, Stage
<1>3. RequiredIsKept
  BY <1>2 DEF RequiredIsKept, Agreed, MustSign
<1>4. KeysAgree
  BY <1>2 DEF KeysAgree, SameKey
<1> QED BY <1>3, <1>4

LEMMA AgreesTokens == LoginInvariant => TokensArrive
<1> SUFFICES ASSUME LoginInvariant PROVE TokensArrive
  OBVIOUS
<1>1. UnderWay(conf, client, server, c2s, s2c)
  BY DEF LoginInvariant, Agrees
<1>2. \A m : DOMAIN <<m>> = {1} /\ DOMAIN <<>> = {}
  OBVIOUS
<1>3. ASSUME NEW blob, FirstBlob(blob) \/ LastBlob(conf, blob)
      PROVE  ntlmssp_get_message_type(blob).type
               = IF "response" \in DOMAIN blob.means THEN AUTHENTICATION_MESSAGE ELSE NEGOTIATE_MESSAGE
  <2>1. CASE FirstBlob(blob)
    <3>1. Holds(NEGOTIATE_MESSAGE, blob) /\ "response" \notin DOMAIN blob.means
      BY <2>1 DEF FirstBlob
    <3>2. NEGOTIATE_MESSAGE \in 1 .. 3
      BY DEF NEGOTIATE_MESSAGE
    <3> QED BY <3>1, <3>2, HeldArrives
  <2>2. CASE LastBlob(conf, blob)
    <3>1. Holds(AUTHENTICATION_MESSAGE, blob) /\ "response" \in DOMAIN blob.means
      BY <2>2 DEF LastBlob
    <3>2. AUTHENTICATION_MESSAGE \in 1 .. 3
      BY DEF AUTHENTICATION_MESSAGE
    <3> QED BY <3>1, <3>2, HeldArrives
  <2> QED BY <1>3, <2>1, <2>2
<1>4. ASSUME NEW blob, ChallengeBlob(blob) PROVE ntlmssp_get_message_type(blob).type = CHALLENGE_MESSAGE
  <2>1. Holds(CHALLENGE_MESSAGE, blob) /\ CHALLENGE_MESSAGE \in 1 .. 3
    BY <1>4 DEF ChallengeBlob, CHALLENGE_MESSAGE
  <2> QED BY <2>1, HeldArrives
<1>5. ASSUME NEW i \in DOMAIN c2s, c2s[i].command = "session_setup"
      PROVE  FirstBlob(c2s[i].body.blob) \/ LastBlob(conf, c2s[i].body.blob)
  <2>1. c2s = <<c2s[1]>> /\ Asked(conf, c2s[1], client, server)
    BY <1>1, <1>2, <1>5 DEF UnderWay
  <2>2. i = 1
    BY <1>2, <2>1
  <2> QED BY <1>5, <2>1, <2>2 DEF Asked
<1>6. ASSUME NEW i \in DOMAIN s2c, s2c[i].status = "more_processing"
      PROVE  ChallengeBlob(s2c[i].body.blob)
  <2>1. s2c = <<s2c[1]>> /\ Replied(conf, s2c[1], client, server)
    BY <1>1, <1>2, <1>6 DEF UnderWay
  <2>2. i = 1
    BY <1>2, <2>1
  <2> QED BY <1>6, <2>1, <2>2 DEF Replied
<1> QED BY <1>3, <1>4, <1>5, <1>6 DEF TokensArrive

LEMMA AgreesKnows == LoginInvariant => OnlyTheKnown
<1> SUFFICES ASSUME LoginInvariant PROVE OnlyTheKnown
  OBVIOUS
<1>1. Is("success") => KnownTo(conf)
  BY DEF LoginInvariant, Agrees, Stage, Is
<1> QED BY <1>1 DEF OnlyTheKnown, RightPassword, KnownTo, IsRight

LEMMA LoginAlwaysInvariant == LoginSpec => []LoginInvariant
<1>1. LoginInit => LoginInvariant
  BY InitAgrees
<1>2. LoginInvariant /\ [LoginNext]_loginVars => LoginInvariant'
  BY LoginStep
<1> QED BY <1>1, <1>2, PTL DEF LoginSpec

-----------------------------------------------------------------------------
(* The two sides of a login agree.  Whatever the two are set to: both go   *)
(* on with the highest dialect that both speak (negotiate_cb,              *)
(* smb2_negotiate_request_cb); a client that requires signing is not told  *)
(* of success by a server that does not sign; where both sign, the client  *)
(* that is told of success has the server's key, which is not the empty    *)
(* one (session_setup_cb checks the signature of the reply); and every     *)
(* token is found in its security buffer, with an envelope or without.     *)
THEOREM SidesAlwaysAgree == LoginSpec => []SidesAgree
<1>1. LoginInvariant => SidesAgree
  BY AgreesTypes, AgreesSpeaks, AgreesSigns, AgreesTokens DEF SidesAgree
<1> QED BY <1>1, LoginAlwaysInvariant, PTL

(* A client is told of success only by a server that it has proved its     *)
(* password to, or that lets anyone in and knows no password for the user  *)
(* (ntlmssp_authenticate_blob, smb2_session_setup_request_cb).             *)
THEOREM OnlyTheKnownAlways == LoginSpec => []OnlyTheKnown
<1>1. LoginInvariant => OnlyTheKnown
  BY AgreesKnows
<1> QED BY <1>1, LoginAlwaysInvariant, PTL
=============================================================================

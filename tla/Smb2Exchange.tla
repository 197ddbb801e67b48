---------------------------- MODULE Smb2Exchange ----------------------------
(***************************************************************************)
(* A packet of one or more chained commands, from the encoders of the one  *)
(* side to the decoders of the other: the tables of commands and the chain *)
(* of lib/pdu.c, and the phases in which smb2_read_data of lib/socket.c    *)
(* takes a packet apart: its length, and for each command the header, the  *)
(* fixed part, the buffers and the padding before the next one.  The       *)
(* reader counts the bytes it has taken; nothing else tells it where a     *)
(* command begins.                                                         *)
(***************************************************************************)
EXTENDS Smb2FileCommands, Smb2QueryCommands, Smb2SessionCommands

CONSTANT Packets    \* what is sent: records [to, sender, reader, sealed, chain]

SMB2_SPL_SIZE == 4
Transform == 52                                 \* the header of a sealed packet

Commands ==
  {"negotiate", "session_setup", "logoff", "tree_connect", "tree_disconnect", "create", "close",
   "flush", "read", "write", "lock", "ioctl", "echo", "query_directory", "change_notify",
   "query_info", "set_info", "oplock_break", "lease_break"}
\* Sent by a server on its own.
Notifications == {"oplock_break_notification", "lease_break_notification"}

(***************************************************************************)
(* The tables of pdu.c, one for each direction.                            *)
(***************************************************************************)
MakeRequest(command, c, r) ==
  CASE command = "negotiate" -> NegotiateRequest(c, r)
    [] command = "session_setup" -> SessionSetupRequest(c, r)
    [] command = "logoff" -> LogoffRequest(c, r)
    [] command = "tree_connect" -> TreeConnectRequest(c, r)
    [] command = "tree_disconnect" -> TreeDisconnectRequest(c, r)
    [] command = "create" -> CreateRequest(c, r)
    [] command = "close" -> CloseRequest(c, r)
    [] command = "flush" -> FlushRequest(c, r)
    [] command = "read" -> ReadRequest(c, r)
    [] command = "write" -> WriteRequest(c, r)
    [] command = "lock" -> LockRequest(c, r)
    [] command = "ioctl" -> IoctlRequest(c, r)
    [] command = "echo" -> EchoRequest(c, r)
    [] command = "query_directory" -> QueryDirectoryRequest(c, r)
    [] command = "change_notify" -> ChangeNotifyRequest(c, r)
    [] command = "query_info" -> QueryInfoRequest(c, r)
    [] command = "set_info" -> SetInfoRequest(c, r)
    [] command = "oplock_break" -> OplockBreak(c, r)
    [] command = "lease_break" -> LeaseBreak(c, r)

MakeReply(command, c, r) ==
  CASE command = "negotiate" -> NegotiateReply(c, r)
    [] command = "session_setup" -> SessionSetupReply(c, r)
    [] command = "logoff" -> LogoffReply(c, r)
    [] command = "tree_connect" -> TreeConnectReply(c, r)
    [] command = "tree_disconnect" -> TreeDisconnectReply(c, r)
    [] command = "create" -> CreateReply(c, r)
    [] command = "close" -> CloseReply(c, r)
    [] command = "flush" -> FlushReply(c, r)
    [] command = "read" -> ReadReply(c, r)
    [] command = "write" -> WriteReply(c, r)
    [] command = "lock" -> LockReply(c, r)
    [] command = "ioctl" -> IoctlReply(c, r)
    [] command = "echo" -> EchoReply(c, r)
    [] command = "query_directory" -> QueryDirectoryReply(c, r)
    [] command = "change_notify" -> ChangeNotifyReply(c, r)
    [] command = "query_info" -> QueryInfoReply(c, r)
    [] command = "set_info" -> SetInfoReply(c, r)
    [] command = "oplock_break" -> OplockBreakReply(c, r)
    [] command = "lease_break" -> LeaseBreakReply(c, r)
    [] command = "oplock_break_notification" -> OplockBreakNotification(c, r)
    [] command = "lease_break_notification" -> LeaseBreakNotification(c, r)

smb2_get_fixed_request_size(command) ==
  CASE command = "negotiate" -> 36
    [] command = "session_setup" -> 25
    [] command \in {"logoff", "tree_disconnect", "echo"} -> 4
    [] command \in {"tree_connect"} -> 9
    [] command = "create" -> 57
    [] command \in {"close", "flush"} -> 24
    [] command \in {"read", "write"} -> 49
    [] command = "lock" -> 48
    [] command = "ioctl" -> 57
    [] command \in {"query_directory", "set_info"} -> 33
    [] command = "change_notify" -> 32
    [] command = "query_info" -> 41
    [] OTHER -> 2                               \* OPLOCK_BREAK: the size tells which

smb2_get_fixed_reply_size(command, failed) ==
  CASE failed -> 9
    [] ~failed /\ command = "negotiate" -> 65
    [] ~failed /\ command \in {"session_setup", "query_directory", "change_notify", "query_info"} -> 9
    [] ~failed /\ command \in {"logoff", "tree_disconnect", "echo", "flush", "lock"} -> 4
    [] ~failed /\ command = "tree_connect" -> 16
    [] ~failed /\ command = "create" -> 89
    [] ~failed /\ command = "close" -> 60
    [] ~failed /\ command \in {"read", "write"} -> 17
    [] ~failed /\ command = "ioctl" -> 49
    [] OTHER -> 2                               \* SET_INFO, and OPLOCK_BREAK as above

smb2_process_request_payload_fixed(command, c, m) ==
  CASE command = "negotiate" -> ProcessNegotiateRequest(c, m)
    [] command = "session_setup" -> ProcessSessionSetupRequest(c, m)
    [] command = "logoff" -> ProcessLogoffRequest(c, m)
    [] command = "tree_connect" -> ProcessTreeConnectRequest(c, m)
    [] command = "tree_disconnect" -> ProcessTreeDisconnectRequest(c, m)
    [] command = "create" -> ProcessCreateRequest(c, m)
    [] command = "close" -> ProcessCloseRequest(c, m)
    [] command = "flush" -> ProcessFlushRequest(c, m)
    [] command = "read" -> ProcessReadRequest(c, m)
    [] command = "write" -> ProcessWriteRequest(c, m)
    [] command = "lock" -> ProcessLockRequest(c, m)
    [] command = "ioctl" -> ProcessIoctlRequest(c, m)
    [] command = "echo" -> ProcessEchoRequest(c, m)
    [] command = "query_directory" -> ProcessQueryDirectoryRequest(c, m)
    [] command = "change_notify" -> ProcessChangeNotifyRequest(c, m)
    [] command = "query_info" -> ProcessQueryInfoRequest(c, m)
    [] command = "set_info" -> ProcessSetInfoRequest(c, m)
    [] OTHER -> ProcessOplockBreakRequest(c, m)

smb2_process_reply_payload_fixed(command, failed, c, m) ==
  CASE failed -> ProcessErrorReply(c, m)
    [] ~failed /\ command = "negotiate" -> ProcessNegotiateReply(c, m)
    [] ~failed /\ command = "session_setup" -> ProcessSessionSetupReply(c, m)
    [] ~failed /\ command = "logoff" -> ProcessLogoffReply(c, m)
    [] ~failed /\ command = "tree_connect" -> ProcessTreeConnectReply(c, m)
    [] ~failed /\ command = "tree_disconnect" -> ProcessTreeDisconnectReply(c, m)
    [] ~failed /\ command = "create" -> ProcessCreateReply(c, m)
    [] ~failed /\ command = "close" -> ProcessCloseReply(c, m)
    [] ~failed /\ command = "flush" -> ProcessFlushReply(c, m)
    [] ~failed /\ command = "read" -> ProcessReadReply(c, m)
    [] ~failed /\ command = "write" -> ProcessWriteReply(c, m)
    [] ~failed /\ command = "lock" -> ProcessLockReply(c, m)
    [] ~failed /\ command = "ioctl" -> ProcessIoctlReply(c, m)
    [] ~failed /\ command = "echo" -> ProcessEchoReply(c, m)
    [] ~failed /\ command = "query_directory" -> ProcessQueryDirectoryReply(c, m)
    [] ~failed /\ command = "change_notify" -> ProcessChangeNotifyReply(c, m)
    [] ~failed /\ command = "query_info" -> ProcessQueryInfoReply(c, m)
    [] ~failed /\ command = "set_info" -> ProcessSetInfoReply(c, m)
    [] OTHER -> ProcessOplockBreakReply(c, m)

\* The variable parts that may be refused.
smb2_process_request_payload_variable(command, c, r, m) ==
  CASE command = "negotiate" -> NegotiateRequestTaken(c, r, m)
    [] command = "set_info" -> SetInfoRequestTaken(c, m)
    [] OTHER -> TRUE
smb2_process_reply_payload_variable(command, failed, c, r, m) ==
  CASE ~failed /\ command = "negotiate" -> NegotiateReplyTaken(c, m)
    [] ~failed /\ command = "query_info" -> InfoTaken(c, r)
    [] ~failed /\ command = "ioctl" -> r.code = "reparse" => DecodeReparseDataBuffer(r.output, r)
    [] OTHER -> TRUE

\* smb2_is_error_response: a refusal that asks for more is none, an overflow is a
\* warning, a link in the way is one too and yet a failure.
Statuses == {"success", "more_processing_required", "buffer_overflow", "stopped_on_symlink", "error"}
smb2_is_error_response(status) == status \in {"error", "stopped_on_symlink"}

(***************************************************************************)
(* The packet.                                                             *)
(***************************************************************************)
VARIABLES packet,   \* the packet, as it was sent
          phase,    \* smb2->recv_state; "done" and "failed" at the end
          pos,      \* smb2->in.num_done
          payload,  \* smb2->payload_offset
          need,     \* the bytes the fixed part asked for
          got       \* what was made of each command, in order
vars == <<packet, phase, pos, payload, need, got>>

\* The message of the i-th command of a chain, and what it takes of the packet.
Sent(p, i) ==
  LET x == p.chain[i]
  IN IF smb2_is_error_response(x.status) THEN ErrorReply(p.sender, x.r)
     ELSE IF p.to = "server" THEN MakeRequest(x.command, p.sender, x.r)
     ELSE MakeReply(x.command, p.sender, x.r)
Length(p, i) == SMB2_HEADER_SIZE + SizeOf(Sent(p, i))
StartOfCommand(p, i) == FoldLeft(LAMBDA n, k : n + Length(p, k), 0, [k \in 1 .. i - 1 |-> k])
Spl(p) == StartOfCommand(p, Len(p.chain) + 1)
\* smb2_add_compound_pdu: the length of all but the last goes into their header.
NextCommand(p, i) == IF i < Len(p.chain) THEN Length(p, i) ELSE 0

\* What the reader knows while it reads the i-th command.
Reader(p, i) ==
  [p.reader EXCEPT !.spl = Spl(p), !.next_command = NextCommand(p, i)]

\* A sealed packet is read and opened as a whole, and then read again from its start.
Begin(p) == IF p.sealed THEN 0 ELSE SMB2_SPL_SIZE
End(p) == Begin(p) + Spl(p)
Current == Len(got) + 1
Message_ == Sent(packet, Current)
Command_ == packet.chain[Current]
Failed_ == smb2_is_error_response(Command_.status)

Init ==
  /\ packet \in Packets
  /\ phase = "SPL" /\ pos = 0 /\ payload = 0 /\ need = 0 /\ got = <<>>

ReadSpl ==
  /\ phase = "SPL"
  /\ phase' = "HEADER" /\ pos' = SMB2_SPL_SIZE
  /\ UNCHANGED <<packet, payload, need, got>>

\* The head of a sealed packet holds the first twelve bytes of what is sealed.
ReadTransform ==
  /\ phase = "HEADER" /\ packet.sealed /\ pos = SMB2_SPL_SIZE /\ got = <<>> /\ payload = 0
  /\ phase' = "TRFM" /\ pos' = pos + Transform
  /\ UNCHANGED <<packet, payload, need, got>>
smb3_decrypt_pdu ==
  /\ phase = "TRFM"
  /\ phase' = "HEADER" /\ pos' = 0 /\ payload' = -1
  /\ UNCHANGED <<packet, need, got>>

\* There is a header only where a command begins.
ReadHeader ==
  /\ phase = "HEADER" /\ (packet.sealed => payload # 0)
  /\ IF Current <= Len(packet.chain) /\ pos = Begin(packet) + StartOfCommand(packet, Current)
     THEN /\ phase' = "FIXED" /\ pos' = pos + SMB2_HEADER_SIZE /\ payload' = pos'
     ELSE phase' = "failed" /\ UNCHANGED <<pos, payload>>
  /\ UNCHANGED <<packet, need, got>>

\* As if a failure had the fixed part of a success.
FixedSizeOfSuccess ==
  Even(IF packet.to = "server" THEN smb2_get_fixed_request_size(Command_.command)
       ELSE smb2_get_fixed_reply_size(Command_.command, FALSE))
FixedSize ==
  Even(IF packet.to = "server" THEN smb2_get_fixed_request_size(Command_.command)
       ELSE smb2_get_fixed_reply_size(Command_.command, Failed_))
ProcessFixed ==
  IF packet.to = "server"
  THEN smb2_process_request_payload_fixed(Command_.command, Reader(packet, Current), Message_)
  ELSE smb2_process_reply_payload_fixed(Command_.command, Failed_, Reader(packet, Current), Message_)
ProcessVariable ==
  IF packet.to = "server"
  THEN smb2_process_request_payload_variable(Command_.command, Reader(packet, Current), Command_.r, Message_)
  ELSE smb2_process_reply_payload_variable(Command_.command, Failed_, Reader(packet, Current), Command_.r, Message_)

\* The padding up to the next command or to the end of the packet.
\* As if the four bytes before the packet were read with a sealed one too.
PaddingOfPlain(at) ==
  IF NextCommand(packet, Current) > 0
  THEN NextCommand(packet, Current) - (SMB2_HEADER_SIZE + at - payload)
  ELSE Spl(packet) + SMB2_SPL_SIZE - at
Padding(at) ==
  IF NextCommand(packet, Current) > 0
  THEN NextCommand(packet, Current) - (SMB2_HEADER_SIZE + at - payload)
  ELSE Spl(packet) + SMB2_SPL_SIZE - at - (IF packet.sealed THEN SMB2_SPL_SIZE ELSE 0)

HeaderReads(async) == Reads(Message(SMB2_HEADER_SIZE, HeaderPuts(async), <<>>), HeaderGets(async))
\* The command is handed over; the next one of the chain begins here.
HandOver ==
  /\ got' = Append(got, [ProcessFixed EXCEPT !.reads = @ \cup HeaderReads(Command_.async)])
  /\ phase' = IF NextCommand(packet, Current) > 0 THEN "HEADER" ELSE "done"

\* Handed over before the padding and behind it.
HandOverTwice(at) ==
  IF Padding(at) > 0 THEN got' = got \o <<ProcessFixed, ProcessFixed>> /\ phase' = "done" ELSE HandOver
AfterPayload(at) ==
  IF Padding(at) < 0 THEN phase' = "failed" /\ UNCHANGED got
  ELSE IF Padding(at) > 0 THEN phase' = "PAD" /\ UNCHANGED got
  ELSE HandOver

ReadFixed ==
  /\ phase = "FIXED"
  /\ pos' = pos + FixedSize /\ need' = ProcessFixed.need
  /\ IF ProcessFixed = Refused THEN phase' = "failed" /\ UNCHANGED got
     ELSE IF ProcessFixed.need > 0 THEN phase' = "VARIABLE" /\ UNCHANGED got
     ELSE AfterPayload(pos')
  /\ UNCHANGED <<packet, payload>>

ReadVariable ==
  /\ phase = "VARIABLE"
  /\ pos' = pos + need
  /\ IF ~ProcessVariable THEN phase' = "failed" /\ UNCHANGED got ELSE AfterPayload(pos')
  /\ UNCHANGED <<packet, payload, need>>

ReadPad ==
  /\ phase = "PAD"
  /\ pos' = pos + Padding(pos)
  /\ HandOver
  /\ UNCHANGED <<packet, payload, need>>

\* A packet follows once this one has been read; a failure closes the connection.
Rest == phase \in {"done", "failed"} /\ UNCHANGED vars

Next ==
  \/ ReadSpl \/ ReadTransform \/ smb3_decrypt_pdu \/ ReadHeader \/ ReadFixed \/ ReadVariable
  \/ ReadPad \/ Rest
Spec == Init /\ [][Next]_vars

(***************************************************************************)
(* Where encoder and decoder of this code disagree.  Each is named, and    *)
(* the properties say that there are no others.                            *)
(***************************************************************************)
\* Without a security buffer the place of the contexts is not computed.
WithoutSecurity(to, x) == to = "client" /\ x.command = "negotiate" /\ x.r.security = 0
\* Fields that do not arrive: what is put and what is read lie apart.
Misread(to, x) ==
  IF to = "server"
  THEN CASE x.command = "session_setup" -> {"previous_session_id"}
         [] x.command = "lease_break" -> {"flags", "lease_state", "lease_duration"}
         [] OTHER -> {}
  ELSE CASE x.command = "lease_break_notification" ->
              {"flags", "current_lease_state", "new_lease_state", "break_reason",
               "access_mask_hint", "share_mask_hint"}
         [] WithoutSecurity(to, x) -> {"negotiate_context_offset"}
         [] OTHER -> {}

\* Messages this side makes and the other side, built from the same code, refuses.
RefusedRequest(c, command, r) ==
  \/ command = "set_info" /\ ~c.passthrough
  \/ command = "read" /\ (r.channel_info > 0 \/ r.length > c.max_read_size)
  \/ command = "lock" /\ r.locks = 0
RefusedReply(c, command, r) ==
  \/ command = "query_info" /\ r.output > 0 /\ r.info = "fs_control"
  \/ command = "query_info" /\ r.output > 0 /\ r.info = "fs_attribute" /\ r.name < 8
  \/ command = "query_info" /\ r.output > 0 /\ r.info \in Encodable /\ Overflows(r)
  \/ command = "query_info" /\ r.output > 0 /\ r.info \notin Decodable /\ ~c.passthrough
  \/ command = "ioctl" /\ r.code = "reparse" /\ r.output < ReparseSize(r)
MayBeRefused(p, i) ==
  LET x == p.chain[i]
  IN ~smb2_is_error_response(x.status)
     /\ IF p.to = "server" THEN RefusedRequest(p.reader, x.command, x.r)
        ELSE RefusedReply(p.reader, x.command, x.r)

\* Offsets that name no place: of the data behind channel information, of the output
\* behind input that is not sent, of the changes, and of the contexts.
WrongOffset(to, x) ==
  \/ to = "server" /\ x.command = "write" /\ x.r.channel_info > 0
  \/ to = "client" /\ x.command = "ioctl" /\ x.r.input > 0
  \/ to = "client" /\ x.command = "change_notify" /\ x.r.output > 0
  \/ WithoutSecurity(to, x) /\ HasContexts(x.r.dialect)
\* Lengths that are told of bytes that are not sent.
WrongLength(to, x) ==
  \/ smb2_is_error_response(x.status) /\ x.r.data > 0
  \/ to = "client" /\ x.command = "ioctl" /\ (x.r.output = 0 \/ x.r.input > 0)
  \/ to = "client" /\ x.command = "query_info" /\ x.r.output > 0 /\ InfoMade(x.r) = 0

TypeOK ==
  /\ packet \in Packets
  /\ phase \in {"SPL", "TRFM", "HEADER", "FIXED", "VARIABLE", "PAD", "done", "failed"}
  /\ pos \in Nat /\ payload \in Nat \cup {-1} /\ need \in Int
  /\ Len(got) <= Len(packet.chain)

\* A reader that asks for more than was sent takes the bytes of the next packet for
\* this one's, or waits for them for ever: it never does, but for a length that is
\* told of bytes that are not there.
NeverBeyondThePacket ==
  pos <= End(packet) \/ (Current <= Len(packet.chain) /\ WrongLength(packet.to, Command_))

\* The reader is in step with the packet: when it looks for a header one begins
\* there, and when it is done the packet is.
InStep ==
  /\ phase = "HEADER" /\ (packet.sealed => payload # 0)
       => pos = Begin(packet) + StartOfCommand(packet, Current)
  /\ phase = "done" => pos = End(packet) /\ Len(got) = Len(packet.chain)

\* What one side of this library makes, the other takes; but for the refusals named.
Accepted ==
  phase = "failed" => MayBeRefused(packet, Current) \/ WrongLength(packet.to, Command_)

\* Each field that is read holds what was put into it, or zero if nothing was.
IsPut(m, field) == \E i \in DOMAIN m.fields : m.fields[i].field = field
FieldsSurvive ==
  \A i \in DOMAIN got : \A read \in got[i].reads :
    \/ read[1] = read[2]
    \/ read[2] = "zero" /\ ~IsPut(Sent(packet, i), read[1])
    \/ read[1] \in Misread(packet.to, packet.chain[i])

\* The buffers a reader uses are those that were sent, at the place where they are.
BuffersFound ==
  \A i \in DOMAIN got :
    \/ got[i].buffers = BuffersOf(Sent(packet, i))
    \/ WrongLength(packet.to, packet.chain[i])
    \/ WithoutSecurity(packet.to, packet.chain[i])

\* Every offset that is told is that of its buffer: other implementations of SMB2,
\* which this side talks to, find it by nothing else.
OffsetsAreTrue ==
  phase = "SPL" => \A i \in DOMAIN packet.chain :
    OffsetsTrue(Sent(packet, i)) \/ WrongOffset(packet.to, packet.chain[i])

\* What a list names is listed, once and in order: of a directory and of the streams of
\* a file the first two entries, of what changed in a directory every one.  The server
\* counts the offset of the next entry of a directory or stream from the beginning of
\* the list (smb2-cmd-query-directory.c, smb2-data-file-info.c) and the client counts it
\* from the entry, which is the same only for the first: nothing is said of a third.
\* Changes are put together by the server that is passed through, and only told here.
Numbered(n) == [i \in 1 .. n |-> i]
BeginsWith(list, n) == Len(list) >= n /\ SubSeq(list, 1, n) = Numbered(n)
ListsAreWhole ==
  \A i \in DOMAIN got :
    LET x == packet.chain[i]  r == x.r  n == Len(r.entries)  Changed == Changes(r.entries)
    IN packet.to = "client" /\ x.status = "success" /\ r.entries # <<>> =>
         /\ ~packet.sender.passthrough /\ x.command = "query_directory" /\ r.class = "full"
              => BeginsWith(DecodeDirents(EncodeEntries(r.class, r.entries)), Min({n, 2}))
         /\ ~packet.sender.passthrough /\ x.command = "query_info" /\ r.info = "stream" /\ ~Overflows(r)
              => BeginsWith(StreamsIn(InfoVector(r)), Min({n, 2}))
         /\ packet.sender.passthrough /\ x.command = "change_notify" /\ r.output = Changed.size
              => DecodeChanges(Changed) = Numbered(n)

\* The stream between the two sides stays whole, whatever follows whatever in it.
StreamInStep == TypeOK /\ NeverBeyondThePacket /\ InStep

\* A packet is read as it was put together: taken, and with the fields it had.
ReadAsPut == Accepted /\ FieldsSurvive

\* What lies behind the fixed part of a command is found, all of it and by its offset.
AllIsFound == BuffersFound /\ OffsetsAreTrue /\ ListsAreWhole
=============================================================================

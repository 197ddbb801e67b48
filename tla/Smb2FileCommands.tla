-------------------------- MODULE Smb2FileCommands --------------------------
(***************************************************************************)
(* The commands on one file: lib/smb2-cmd-create.c, -close.c, -flush.c,    *)
(* -read.c, -write.c, -lock.c, -set-info.c and -oplock-break.c.  For each  *)
(* of them the encoder of the request and of the reply, and what the other *)
(* side reads: first the fixed part, which says how many bytes of buffers  *)
(* follow it, then the buffers.                                            *)
(*                                                                         *)
(* c is the context (passthrough, supports_multi_credit, max_read_size), r *)
(* what the application asks for, m the message received.                  *)
(***************************************************************************)
EXTENDS Smb2Wire

(***************************************************************************)
(* CREATE                                                                  *)
(***************************************************************************)
\* The contexts as if the name needed no padding.
ContextBehindName(r) == IF r.context = 0 THEN 0 ELSE SMB2_HEADER_SIZE + 56 + r.name
CreateContextOffset(r) ==
  IF r.context = 0 THEN 0
  ELSE PAD_TO_64BIT((IF r.name = 0 THEN 4 ELSE r.name) + PAD_TO_32BIT(SMB2_HEADER_SIZE + 56))

EncodeCreateRequest(c, r) ==
  Message(56,
    <<PutNumber(46, 2, "name_length", r.name), PutSize(57), Put(2, 1, "security_flags"),
      Put(3, 1, "oplock_level"), Put(4, 4, "impersonation_level"),
      Put(8, 8, "smb_create_flags"), Put(24, 4, "desired_access"),
      Put(28, 4, "file_attributes"), Put(32, 4, "share_access"),
      Put(36, 4, "create_disposition"), Put(40, 4, "create_options"),
      PutOffset(44, 2, "name_offset", PAD_TO_32BIT(SMB2_HEADER_SIZE + 56), "name"),
      PutOffset(48, 4, "context_offset", CreateContextOffset(r), "context"),
      PutNumber(52, 4, "context_length", r.context)>>,
    (IF r.name = 0 THEN Zeros(8) ELSE PaddedBuffer("name", r.name, PAD_TO_64BIT(r.name)))
    \o PaddedBuffer("context", r.context, PAD_TO_64BIT(r.context)))

CreateRequest(c, r) == smb2_pad_to_64bit(EncodeCreateRequest(c, r))

CreateRequestGets ==
  {Put(2, 1, "security_flags"), Put(3, 1, "oplock_level"), Put(4, 4, "impersonation_level"),
   Put(8, 8, "smb_create_flags"), Put(24, 4, "desired_access"), Put(28, 4, "file_attributes"),
   Put(32, 4, "share_access"), Put(36, 4, "create_disposition"), Put(40, 4, "create_options"),
   Put(44, 2, "name_offset"), Put(46, 2, "name_length"), Put(48, 4, "context_offset"),
   Put(52, 4, "context_length")}

\* The name, the gap up to the create contexts, and these.
GapAfterName(nameOff, nameLen, ctxOff) ==
  IF ctxOff > nameOff THEN PAD_TO_64BIT(ctxOff - nameOff) ELSE nameLen
CreateRequestNeed(nameOff, nameLen, ctxOff, ctxLen) ==
  IF nameLen = 0 /\ ctxLen = 0 THEN 0
  ELSE IF (nameLen > 0 /\ nameOff < 120) \/ (ctxLen > 0 /\ ctxOff < 120) THEN -1
  ELSE nameOff - 120 + GapAfterName(nameOff, nameLen, ctxOff) + ctxLen

\* The name is taken from the start of the buffers, whatever its offset says.
CreateRequestBuffers(m) ==
  BufferAt("name", 57, 0, Number(m, 46, 2))
  \cup BufferAt("context", 57, Number(m, 48, 4) - 120, Number(m, 52, 4))

ProcessCreateRequest(c, m) ==
  LET need == CreateRequestNeed(Number(m, 44, 2), Number(m, 46, 2), Number(m, 48, 4), Number(m, 52, 4))
  IN IF StructSize(m) # 57 \/ need < 0 THEN Refused
     ELSE Decoded(need, Reads(m, CreateRequestGets), CreateRequestBuffers(m))

FileTimes(at) ==
  <<Put(at, 8, "creation_time"), Put(at + 8, 8, "last_access_time"),
    Put(at + 16, 8, "last_write_time"), Put(at + 24, 8, "change_time"),
    Put(at + 32, 8, "allocation_size"), Put(at + 40, 8, "end_of_file"),
    Put(at + 48, 4, "file_attributes")>>

EncodeCreateReply(c, r) ==
  Message(88,
    <<PutSize(89), Put(2, 1, "oplock_level"), Put(3, 1, "flags"), Put(4, 4, "create_action")>>
    \o FileTimes(8)
    \o <<PutId(64),
         PutOffset(80, 4, "context_offset", PAD_TO_64BIT(88 + SMB2_HEADER_SIZE), "context"),
         PutNumber(84, 4, "context_length", r.context)>>,
    PaddedBuffer("context", r.context, PAD_TO_64BIT(r.context)))

CreateReply(c, r) == smb2_pad_to_64bit(EncodeCreateReply(c, r))

CreateReplyGets ==
  {Put(2, 1, "oplock_level"), Put(3, 1, "flags"), Put(4, 4, "create_action"),
   Put(8, 8, "creation_time"), Put(16, 8, "last_access_time"), Put(24, 8, "last_write_time"),
   Put(32, 8, "change_time"), Put(40, 8, "allocation_size"), Put(48, 8, "end_of_file"),
   Put(56, 4, "file_attributes"), PutId(64), Put(80, 4, "context_offset"),
   Put(84, 4, "context_length")}

ProcessCreateReply(c, m) ==
  LET off == Number(m, 80, 4)  len == Number(m, 84, 4)
  IN IF StructSize(m) # 89 \/ (len > 0 /\ off < SMB2_HEADER_SIZE + 88) THEN Refused
     ELSE Decoded(IF len = 0 THEN 0 ELSE off - 152 + len, Reads(m, CreateReplyGets),
                  BufferAt("context", 89, off - 152, len))

(***************************************************************************)
(* CLOSE and FLUSH                                                         *)
(***************************************************************************)
EncodeCloseRequest(c, r) == Message(24, <<PutSize(24), Put(2, 2, "flags"), PutId(8)>>, <<>>)
CloseRequest(c, r) == smb2_pad_to_64bit(EncodeCloseRequest(c, r))
ProcessCloseRequest(c, m) ==
  IF StructSize(m) # 24 THEN Refused
  ELSE Decoded(0, Reads(m, {Put(2, 2, "flags"), PutId(8)}), {})

EncodeCloseReply(c, r) == Message(60, <<PutSize(60), Put(2, 2, "flags")>> \o FileTimes(8), <<>>)
CloseReply(c, r) == smb2_pad_to_64bit(EncodeCloseReply(c, r))
CloseReplyGets ==
  {Put(2, 2, "flags"), Put(8, 8, "creation_time"), Put(16, 8, "last_access_time"),
   Put(24, 8, "last_write_time"), Put(32, 8, "change_time"), Put(40, 8, "allocation_size"),
   Put(48, 8, "end_of_file"), Put(56, 4, "file_attributes")}
ProcessCloseReply(c, m) ==
  IF StructSize(m) # 60 THEN Refused ELSE Decoded(0, Reads(m, CloseReplyGets), {})

EncodeFlushRequest(c, r) == Message(24, <<PutSize(24), PutId(8)>>, <<>>)
FlushRequest(c, r) == smb2_pad_to_64bit(EncodeFlushRequest(c, r))
ProcessFlushRequest(c, m) ==
  IF StructSize(m) # 24 THEN Refused ELSE Decoded(0, Reads(m, {PutId(8)}), {})

EncodeFlushReply(c, r) == Message(4, <<PutSize(4)>>, <<>>)
FlushReply(c, r) == smb2_pad_to_64bit(EncodeFlushReply(c, r))
ProcessFlushReply(c, m) == IF StructSize(m) # 4 THEN Refused ELSE Decoded(0, {}, {})

(***************************************************************************)
(* READ and WRITE.  Without multi-credit support a length is cut to 64 KiB;*)
(* with it the request is charged for.                                     *)
(***************************************************************************)
Limit == 65536
Cut(c, length) == IF ~c.multi /\ length > Limit THEN Limit ELSE length

\* Channel information is passed through and not made.
ChannelInfo(r) == PaddedBuffer("channel_info", r.channel_info, PAD_TO_64BIT(r.channel_info))

ReadRequestPuts(c, r) ==
  <<PutSize(49), Put(3, 1, "flags"), PutNumber(4, 4, "length", Cut(c, r.length)),
    Put(8, 8, "offset"), PutId(16), Put(32, 4, "minimum_count"), Put(36, 4, "channel"),
    Put(40, 4, "remaining_bytes"), PutNumber(46, 2, "channel_info_length", r.channel_info)>>

EncodeReadRequest(c, r) ==
  IF r.channel_info = 0 THEN Message(48, ReadRequestPuts(c, r), Zeros(1))
  ELSE IF c.passthrough
  THEN Message(48, Append(ReadRequestPuts(c, r),
                          PutOffset(44, 2, "channel_info_offset", 112, "channel_info")),
               ChannelInfo(r))
  ELSE NoMessage

ReadRequest(c, r) == smb2_pad_to_64bit(EncodeReadRequest(c, r))

ReadRequestGets ==
  {Put(3, 1, "flags"), Put(4, 4, "length"), Put(8, 8, "offset"), PutId(16),
   Put(32, 4, "minimum_count"), Put(36, 4, "channel"), Put(40, 4, "remaining_bytes"),
   Put(46, 2, "channel_info_length")}

\* The offset of the channel information is read if its length has been; that is
\* read later, and the offset stays zero.
ProcessReadRequest(c, m) ==
  IF \/ StructSize(m) > 49 \/ Number(m, 4, 4) > c.max_read_size
     \/ Number(m, 46, 2) # 0
  THEN Refused
  ELSE Decoded(0, Reads(m, ReadRequestGets), {})

EncodeReadReply(c, r) ==
  Message(16,
    <<PutSize(17), PutOffset(2, 1, "data_offset", IF r.data = 0 THEN 0 ELSE 80, "data"),
      PutNumber(4, 4, "data_length", r.data), Put(8, 4, "data_remaining")>>,
    Buffer("data", r.data))

ReadReply(c, r) == smb2_pad_to_64bit(EncodeReadReply(c, r))

ProcessReadReply(c, m) ==
  LET len == Number(m, 4, 4)
  IN IF StructSize(m) > 17 \/ (len > 0 /\ Number(m, 2, 1) # SMB2_HEADER_SIZE + 16) THEN Refused
     ELSE Decoded(len, Reads(m, {Put(2, 1, "data_offset"), Put(4, 4, "data_length"),
                                 Put(8, 4, "data_remaining")}),
                  BufferAt("data", 17, 0, len))

WriteRequestPuts(c, r) ==
  <<PutSize(49), PutOffset(2, 2, "data_offset", SMB2_HEADER_SIZE + 48, "data"),
    PutNumber(4, 4, "length", Cut(c, r.length)), Put(8, 8, "offset"), PutId(16),
    Put(32, 4, "channel"), Put(36, 4, "remaining_bytes"),
    PutNumber(42, 2, "channel_info_length", r.channel_info), Put(44, 4, "flags")>>

EncodeWriteRequest(c, r) ==
  IF r.channel_info = 0 THEN Message(48, WriteRequestPuts(c, r), <<>>)
  ELSE IF c.passthrough
  THEN Message(48, Append(WriteRequestPuts(c, r),
                          PutOffset(40, 2, "channel_info_offset", 112, "channel_info")),
               ChannelInfo(r))
  ELSE NoMessage

\* The data of a write is not padded.
WriteRequest(c, r) ==
  LET m == smb2_pad_to_64bit(EncodeWriteRequest(c, r))
  IN IF m = NoMessage THEN m
     ELSE [m EXCEPT !.buffers = @ \o Buffer("data", Cut(c, r.length))]

WriteRequestGets ==
  {Put(2, 2, "data_offset"), Put(4, 4, "length"), Put(8, 8, "offset"), PutId(16),
   Put(32, 4, "channel"), Put(36, 4, "remaining_bytes"), Put(40, 2, "channel_info_offset"),
   Put(42, 2, "channel_info_length"), Put(44, 4, "flags")}

ChannelInfoAt(m) == IF Number(m, 42, 2) = 0 THEN 0 ELSE Number(m, 40, 2) - 112
WriteRequestNeed(m) ==
  LET len == Number(m, 4, 4)  info == Number(m, 42, 2)
  IN IF len > 0 THEN ChannelInfoAt(m) + PAD_TO_64BIT(info) + len
     ELSE ChannelInfoAt(m) + info

\* The data is looked for behind the channel information, not at its offset.
WriteRequestBuffers(m) ==
  LET info == Number(m, 42, 2)
  IN BufferAt("channel_info", 49, ChannelInfoAt(m), info)
     \cup BufferAt("data", 49, ChannelInfoAt(m) + PAD_TO_64BIT(info), Number(m, 4, 4))

ProcessWriteRequest(c, m) ==
  IF StructSize(m) > 49 \/ (Number(m, 42, 2) > 0 /\ Number(m, 40, 2) < 112) THEN Refused
  ELSE Decoded(WriteRequestNeed(m), Reads(m, {g \in WriteRequestGets :
                 Number(m, 42, 2) > 0 \/ g.field # "channel_info_offset"}),
               WriteRequestBuffers(m))

EncodeWriteReply(c, r) ==
  Message(17, <<PutSize(17), Put(4, 4, "count"), Put(8, 4, "remaining")>>, <<>>)
WriteReply(c, r) == smb2_pad_to_64bit(EncodeWriteReply(c, r))
ProcessWriteReply(c, m) ==
  IF StructSize(m) # 17 THEN Refused
  ELSE Decoded(0, Reads(m, {Put(4, 4, "count"), Put(8, 4, "remaining")}), {})

(***************************************************************************)
(* LOCK.  The first element is in the fixed part.                          *)
(***************************************************************************)
LockElement(at) ==
  <<Put(at, 8, "lock_offset"), Put(at + 8, 8, "lock_length"), Put(at + 16, 4, "lock_flags")>>

\* Room is made for all elements behind the fixed part, one more than go there.
EncodeLockRequest(c, r) ==
  Message(48,
    <<PutSize(48), PutNumber(2, 2, "lock_count", r.locks), Put(4, 4, "lock_sequence"), PutId(8)>>
    \o (IF r.locks > 0 THEN LockElement(24) ELSE <<>>),
    IF r.locks > 1
    THEN PaddedBuffer("locks", 24 * (r.locks - 1), PAD_TO_64BIT(24 * r.locks)) ELSE <<>>)

LockRequest(c, r) == smb2_pad_to_64bit(EncodeLockRequest(c, r))

LockRequestGets ==
  {Put(4, 4, "lock_sequence"), PutId(8), Put(24, 8, "lock_offset"), Put(32, 8, "lock_length"),
   Put(40, 4, "lock_flags")}

\* A request without a lock is refused.
ProcessLockRequest(c, m) ==
  LET count == Number(m, 2, 2)
  IN IF StructSize(m) # 48 \/ count < 1 THEN Refused
     ELSE Decoded(24 * (count - 1), Reads(m, LockRequestGets),
                  BufferAt("locks", 48, 0, 24 * (count - 1)))

EncodeLockReply(c, r) == Message(4, <<PutSize(4)>>, <<>>)
LockReply(c, r) == smb2_pad_to_64bit(EncodeLockReply(c, r))
ProcessLockReply(c, m) == IF StructSize(m) # 4 THEN Refused ELSE Decoded(0, {}, {})

(***************************************************************************)
(* SET_INFO.  r.info is what is set.                                       *)
(***************************************************************************)
SetInfoLength(r) ==
  CASE r.info = "basic" -> 40
    [] r.info = "end_of_file" -> 8
    [] r.info = "rename" -> 28 + r.name
    [] r.info = "disposition" -> 1
    [] OTHER -> -1

SetInfoPuts(length) ==
  <<PutSize(33), Put(2, 1, "info_type"), Put(3, 1, "file_info_class"),
    PutOffset(8, 2, "buffer_offset", SMB2_HEADER_SIZE + 32, "info"),
    Put(12, 4, "additional_information"), PutId(16), PutNumber(4, 4, "buffer_length", length)>>

\* Passed through, the information is as the application made it, for the offset it says.
EncodeSetInfoRequest(c, r) ==
  IF c.passthrough
  THEN Message(32, Append(SetInfoPuts(r.name), PutOffset(8, 2, "buffer_offset", 96, "info")),
               Buffer("info", r.name))
  ELSE IF SetInfoLength(r) < 0 THEN NoMessage
  ELSE Message(32, SetInfoPuts(SetInfoLength(r)), Buffer("info", SetInfoLength(r)))

SetInfoRequest(c, r) == smb2_pad_to_64bit(EncodeSetInfoRequest(c, r))

SetInfoRequestGets ==
  {Put(2, 1, "info_type"), Put(3, 1, "file_info_class"), Put(4, 4, "buffer_length"),
   Put(8, 2, "buffer_offset"), Put(12, 4, "additional_information"), PutId(16)}

ProcessSetInfoRequest(c, m) ==
  IF StructSize(m) # 33 THEN Refused
  ELSE Decoded(Number(m, 4, 4), Reads(m, SetInfoRequestGets),
               BufferAt("info", 33, 0, Number(m, 4, 4)))

\* Only a server that passes through takes what is to be set.
SetInfoRequestTaken(c, m) == c.passthrough \/ Number(m, 4, 4) = 0

EncodeSetInfoReply(c, r) == Message(2, <<PutSize(2)>>, <<>>)
SetInfoReply(c, r) == smb2_pad_to_64bit(EncodeSetInfoReply(c, r))
ProcessSetInfoReply(c, m) == Decoded(0, {}, {})

(***************************************************************************)
(* OPLOCK_BREAK: oplocks and leases, told apart by the size of the         *)
(* structure, which is all that is read as a fixed part.                   *)
(***************************************************************************)
OplockPuts == <<PutSize(24), Put(2, 1, "oplock_level"), PutId(8)>>
EncodeOplockBreakAcknowledgement(c, r) == Message(24, OplockPuts, <<>>)
OplockBreak(c, r) == smb2_pad_to_64bit(EncodeOplockBreakAcknowledgement(c, r))
EncodeOplockBreakReply(c, r) == Message(24, OplockPuts, <<>>)
OplockBreakReply(c, r) == smb2_pad_to_64bit(EncodeOplockBreakReply(c, r))
EncodeOplockBreakNotification(c, r) == Message(24, OplockPuts, <<>>)
OplockBreakNotification(c, r) == smb2_pad_to_64bit(EncodeOplockBreakNotification(c, r))

\* The state and the duration are put where the flags have been put.
EncodeLeaseBreakAcknowledgement(c, r) ==
  Message(36, <<PutSize(36), Put(4, 4, "flags"), Put(8, 16, "lease_key"),
                Put(4, 4, "lease_state"), Put(4, 4, "lease_duration")>>, <<>>)
LeaseBreak(c, r) == smb2_pad_to_64bit(EncodeLeaseBreakAcknowledgement(c, r))

EncodeLeaseBreakReply(c, r) ==
  Message(36, <<PutSize(36), Put(4, 4, "flags"), Put(8, 16, "lease_key"),
                Put(24, 4, "lease_state"), Put(28, 4, "lease_duration")>>, <<>>)
LeaseBreakReply(c, r) == smb2_pad_to_64bit(EncodeLeaseBreakReply(c, r))

EncodeLeaseBreakNotification(c, r) ==
  Message(44, <<PutSize(44), Put(2, 2, "new_epoch"), Put(4, 4, "flags"),
                Put(8, 16, "lease_key"), Put(4, 4, "current_lease_state"),
                Put(4, 4, "new_lease_state"), Put(4, 4, "break_reason"),
                Put(4, 4, "access_mask_hint"), Put(4, 4, "share_mask_hint")>>, <<>>)
LeaseBreakNotification(c, r) == smb2_pad_to_64bit(EncodeLeaseBreakNotification(c, r))

OplockGets == {Put(2, 1, "oplock_level"), PutId(8)}
LeaseGets ==
  {Put(4, 4, "flags"), Put(8, 16, "lease_key"), Put(24, 4, "lease_state"),
   Put(28, 8, "lease_duration")}
LeaseNotificationGets ==
  {Put(2, 2, "new_epoch"), Put(4, 4, "flags"), Put(8, 16, "lease_key"),
   Put(24, 4, "current_lease_state"), Put(28, 4, "new_lease_state"),
   Put(32, 4, "break_reason"), Put(36, 4, "access_mask_hint"), Put(40, 4, "share_mask_hint")}

\* What remains behind the size; it is read at offsets counted from there.
BreakNeed(m) == IF StructSize(m) \in {24, 36, 44} THEN StructSize(m) - 2 ELSE -1
BreakReplyGets(m) ==
  CASE StructSize(m) = 24 -> OplockGets
    [] StructSize(m) = 36 -> LeaseGets
    [] OTHER -> LeaseNotificationGets
ProcessOplockBreakReply(c, m) ==
  IF BreakNeed(m) < 0 THEN Refused ELSE Decoded(BreakNeed(m), Reads(m, BreakReplyGets(m)), {})

BreakRequestGets(m) == IF StructSize(m) = 24 THEN OplockGets ELSE LeaseGets
ProcessOplockBreakRequest(c, m) ==
  IF StructSize(m) \notin {24, 36} THEN Refused
  ELSE Decoded(BreakNeed(m), Reads(m, BreakRequestGets(m)), {})
=============================================================================

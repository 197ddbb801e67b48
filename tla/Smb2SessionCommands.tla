------------------------ MODULE Smb2SessionCommands ------------------------
(***************************************************************************)
(* The commands that open and close a session: lib/smb2-cmd-negotiate.c,   *)
(* -session-setup.c, -tree-connect.c, -tree-disconnect.c, -logoff.c and    *)
(* -echo.c, with what the other side reads of them.  c is the context, r   *)
(* what is asked for or answered, m the message received.                  *)
(***************************************************************************)
EXTENDS Smb2Wire

SMB2_VERSION_0311 == 785                        \* 0x0311
SMB2_NEGOTIATE_MAX_DIALECTS == 10
\* ANY, ANY3 and 0311: the versions with negotiate contexts behind the buffers.
HasContexts(version) == version \in {0, 3, SMB2_VERSION_0311}

(***************************************************************************)
(* NEGOTIATE.  A context is a type, a length and so many bytes, padded.    *)
(***************************************************************************)
ContextSize(len) == PAD_TO_64BIT(len + 8)
EncodePreauthContext == Buffer("preauth", 8 + PAD_TO_64BIT(38))
EncodeEncryptionContext == Buffer("encryption", PAD_TO_64BIT(8 + PAD_TO_64BIT(4)))
ContextsOf(version) ==
  IF HasContexts(version) THEN EncodePreauthContext \o EncodeEncryptionContext ELSE <<>>
ContextLen(name) == IF name = "preauth" THEN 38 ELSE 8

DialectsLength(c, r) ==
  IF HasContexts(c.version) THEN PAD_TO_64BIT(36 + 2 * Len(r.dialects)) - 36
  ELSE PAD_TO_32BIT(36 + 2 * Len(r.dialects)) - 36

EncodeNegotiateRequest(c, r) ==
  Message(36,
    <<PutSize(36), PutNumber(2, 2, "dialect_count", Len(r.dialects)), Put(4, 2, "security_mode"),
      Put(8, 4, "capabilities"), Put(12, 16, "client_guid"),
      PutOffset(28, 4, "negotiate_context_offset",
                IF HasContexts(c.version) THEN 100 + DialectsLength(c, r) ELSE 0, "preauth"),
      PutNumber(32, 2, "negotiate_context_count", Len(ContextsOf(c.version)))>>,
    PaddedBuffer("dialects", 2 * Len(r.dialects), DialectsLength(c, r)) \o ContextsOf(c.version))

NegotiateRequest(c, r) == smb2_pad_to_64bit(EncodeNegotiateRequest(c, r))

NegotiateRequestGets ==
  {Put(2, 2, "dialect_count"), Put(4, 2, "security_mode"), Put(8, 4, "capabilities"),
   Put(12, 16, "client_guid"), Put(28, 4, "negotiate_context_offset"),
   Put(32, 2, "negotiate_context_count")}

\* With contexts all that remains of the packet is read.
NegotiateRequestNeed(c, m) ==
  IF Number(m, 32, 2) > 0 THEN c.spl - SMB2_HEADER_SIZE - 36 ELSE 2 * Number(m, 2, 2)

\* The contexts are walked from the offset, each to the end of its padding.
WalkContexts(m, offset, count) ==
  LET Next(seen, k) ==
        LET i == {j \in DOMAIN m.buffers : WhereIs(m, j) = seen.at}
        IN IF i = {} THEN [seen EXCEPT !.lost = TRUE]
           ELSE LET b == m.buffers[CHOOSE j \in i : TRUE]
                IN [at |-> seen.at + ContextSize(ContextLen(b.of)), lost |-> seen.lost,
                    found |-> seen.found \cup {<<b.of, seen.at, b.len>>}]
  IN FoldLeft(Next, [at |-> offset, lost |-> FALSE, found |-> {}], [k \in 1 .. count |-> k])
ContextsIn(m, offset, count) == WalkContexts(m, offset, count).found
\* A context of an unknown type, as is found where none begins, ends the connection.
ContextsTaken(m, offset, count) ==
  offset >= SMB2_HEADER_SIZE + Even(m.size) /\ ~WalkContexts(m, offset, count).lost

ProcessNegotiateRequest(c, m) ==
  IF StructSize(m) # 36 THEN Refused
  ELSE Decoded(NegotiateRequestNeed(c, m), Reads(m, NegotiateRequestGets),
               BufferAt("dialects", 36, 0, 2 * Min({Number(m, 2, 2), SMB2_NEGOTIATE_MAX_DIALECTS}))
               \cup ContextsIn(m, Number(m, 28, 4), Number(m, 32, 2)))
NegotiateRequestTaken(c, r, m) ==
  Number(m, 32, 2) = 0 \/ SMB2_VERSION_0311 \notin ToSet(r.dialects)
  \/ ContextsTaken(m, Number(m, 28, 4), Number(m, 32, 2))

\* The room for the security buffer is that of the fixed part; without one it is
\* not known where the contexts are said to begin.
SecurityRoom == PAD_TO_64BIT(PAD_TO_32BIT(64))
EncodeNegotiateReply(c, r) ==
  Message(64,
    <<PutSize(65), Put(2, 2, "security_mode"), PutNumber(4, 2, "dialect_revision", r.dialect),
      PutNumber(6, 2, "negotiate_context_count", Len(ContextsOf(r.dialect))),
      Put(8, 16, "server_guid"), Put(24, 4, "capabilities"), Put(28, 4, "max_transact_size"),
      Put(32, 4, "max_read_size"), Put(36, 4, "max_write_size"), Put(40, 8, "system_time"),
      Put(48, 8, "server_start_time"),
      PutOffset(56, 2, "security_buffer_offset", 64 + SMB2_HEADER_SIZE, "security"),
      PutNumber(58, 2, "security_buffer_length", r.security)>>
    \o (IF r.security = 0 THEN <<Put(60, 4, "unset")>>
        ELSE <<PutOffset(60, 4, "negotiate_context_offset", 128 + SecurityRoom, "preauth")>>),
    PaddedBuffer("security", r.security, IF r.security = 0 THEN 0 ELSE SecurityRoom)
    \o ContextsOf(r.dialect))

NegotiateReply(c, r) == smb2_pad_to_64bit(EncodeNegotiateReply(c, r))

NegotiateReplyGets ==
  {Put(2, 2, "security_mode"), Put(4, 2, "dialect_revision"), Put(8, 16, "server_guid"),
   Put(24, 4, "capabilities"), Put(28, 4, "max_transact_size"), Put(32, 4, "max_read_size"),
   Put(36, 4, "max_write_size"), Put(40, 8, "system_time"), Put(48, 8, "server_start_time"),
   Put(56, 2, "security_buffer_offset"), Put(58, 2, "security_buffer_length"),
   Put(6, 2, "negotiate_context_count"), Put(60, 4, "negotiate_context_offset")}

\* Without a security buffer the contexts are not looked at.
ProcessNegotiateReply(c, m) ==
  LET off == Number(m, 56, 2)  len == Number(m, 58, 2)
      need == IF len = 0 THEN 0
              ELSE IF Number(m, 4, 2) >= SMB2_VERSION_0311 THEN c.spl - 128 ELSE off - 128 + len
  IN IF StructSize(m) # 65 \/ (len > 0 /\ (off + len > c.spl % 65536 \/ off < 128)) THEN Refused
     ELSE Decoded(need, Reads(m, NegotiateReplyGets),
                  BufferAt("security", 65, off - 128, len)
                  \cup (IF len > 0 /\ Number(m, 4, 2) >= SMB2_VERSION_0311
                        THEN ContextsIn(m, Number(m, 60, 4), Number(m, 6, 2)) ELSE {}))
NegotiateReplyTaken(c, m) ==
  Number(m, 4, 2) < SMB2_VERSION_0311 \/ Number(m, 6, 2) = 0
  \/ ContextsTaken(m, Number(m, 60, 4), Number(m, 6, 2))

(***************************************************************************)
(* SESSION_SETUP                                                           *)
(***************************************************************************)
EncodeSessionSetupRequest(c, r) ==
  Message(24,
    <<PutSize(25), Put(2, 1, "flags"), Put(3, 1, "security_mode"), Put(4, 4, "capabilities"),
      Put(8, 4, "channel"), PutOffset(12, 2, "security_buffer_offset", 88, "security"),
      PutNumber(14, 2, "security_buffer_length", r.security), Put(16, 8, "previous_session_id")>>,
    Buffer("security", r.security))
SessionSetupRequest(c, r) == smb2_pad_to_64bit(EncodeSessionSetupRequest(c, r))

\* The identifier of the previous session is read two bytes behind its place.
SessionSetupRequestGets ==
  {Put(2, 1, "flags"), Put(3, 1, "security_mode"), Put(4, 4, "capabilities"), Put(8, 4, "channel"),
   Put(14, 2, "security_buffer_length"), Put(18, 8, "previous_session_id")}
ProcessSessionSetupRequest(c, m) ==
  IF StructSize(m) # 25 THEN Refused
  ELSE Decoded(Number(m, 14, 2), Reads(m, SessionSetupRequestGets),
               BufferAt("security", 25, 0, Number(m, 14, 2)))

EncodeSessionSetupReply(c, r) ==
  Message(8,
    <<PutSize(9), Put(2, 2, "session_flags"),
      PutOffset(4, 2, "security_buffer_offset", 8 + SMB2_HEADER_SIZE, "security"),
      PutNumber(6, 2, "security_buffer_length", r.security)>>,
    PaddedBuffer("security", r.security, PAD_TO_32BIT(r.security)))
SessionSetupReply(c, r) == smb2_pad_to_64bit(EncodeSessionSetupReply(c, r))

SessionSetupReplyGets ==
  {Put(2, 2, "session_flags"), Put(4, 2, "security_buffer_offset"),
   Put(6, 2, "security_buffer_length")}
ProcessSessionSetupReply(c, m) ==
  LET off == Number(m, 4, 2)  len == Number(m, 6, 2)
  IN IF StructSize(m) # 9 \/ (len > 0 /\ (off + len > c.spl % 65536 \/ off < 72)) THEN Refused
     ELSE Decoded(IF len = 0 THEN 0 ELSE off - 72 + len, Reads(m, SessionSetupReplyGets),
                  BufferAt("security", 9, off - 72, len))

(***************************************************************************)
(* TREE_CONNECT and TREE_DISCONNECT                                        *)
(***************************************************************************)
EncodeTreeConnectRequest(c, r) ==
  Message(8, <<PutSize(9), Put(2, 2, "flags"), PutOffset(4, 2, "path_offset", 72, "path"),
               PutNumber(6, 2, "path_length", r.name)>>, Buffer("path", r.name))
TreeConnectRequest(c, r) == smb2_pad_to_64bit(EncodeTreeConnectRequest(c, r))
TreeConnectRequestGets == {Put(2, 2, "flags"), Put(4, 2, "path_offset"), Put(6, 2, "path_length")}
ProcessTreeConnectRequest(c, m) ==
  IF StructSize(m) # 9 THEN Refused
  ELSE Decoded(Number(m, 6, 2), Reads(m, TreeConnectRequestGets),
               BufferAt("path", 9, 0, Number(m, 6, 2)))

EncodeTreeConnectReply(c, r) ==
  Message(16, <<PutSize(16), Put(2, 1, "share_type"), Put(3, 1, "zero"), Put(4, 4, "share_flags"),
                Put(8, 4, "capabilities"), Put(12, 4, "maximal_access")>>, <<>>)
TreeConnectReply(c, r) == smb2_pad_to_64bit(EncodeTreeConnectReply(c, r))
TreeConnectReplyGets ==
  {Put(2, 1, "share_type"), Put(4, 4, "share_flags"), Put(8, 4, "capabilities"),
   Put(12, 4, "maximal_access")}
ProcessTreeConnectReply(c, m) ==
  IF StructSize(m) # 16 THEN Refused ELSE Decoded(0, Reads(m, TreeConnectReplyGets), {})

EncodeTreeDisconnectRequest(c, r) == Message(4, <<PutSize(4)>>, <<>>)
TreeDisconnectRequest(c, r) == smb2_pad_to_64bit(EncodeTreeDisconnectRequest(c, r))
ProcessTreeDisconnectRequest(c, m) == Decoded(0, {}, {})
EncodeTreeDisconnectReply(c, r) == Message(4, <<PutSize(4)>>, <<>>)
TreeDisconnectReply(c, r) == smb2_pad_to_64bit(EncodeTreeDisconnectReply(c, r))
ProcessTreeDisconnectReply(c, m) == Decoded(0, {}, {})

(***************************************************************************)
(* LOGOFF and ECHO                                                         *)
(***************************************************************************)
EncodeLogoffRequest(c, r) == Message(4, <<PutSize(4)>>, <<>>)
LogoffRequest(c, r) == smb2_pad_to_64bit(EncodeLogoffRequest(c, r))
ProcessLogoffRequest(c, m) == IF StructSize(m) # 4 THEN Refused ELSE Decoded(0, {}, {})
EncodeLogoffReply(c, r) == Message(4, <<PutSize(4)>>, <<>>)
LogoffReply(c, r) == smb2_pad_to_64bit(EncodeLogoffReply(c, r))
ProcessLogoffReply(c, m) == Decoded(0, {}, {})

EncodeEchoRequest(c, r) == Message(4, <<PutSize(4)>>, <<>>)
EchoRequest(c, r) == smb2_pad_to_64bit(EncodeEchoRequest(c, r))
ProcessEchoRequest(c, m) == IF StructSize(m) # 4 THEN Refused ELSE Decoded(0, {}, {})
EncodeEchoReply(c, r) == Message(4, <<PutSize(4)>>, <<>>)
EchoReply(c, r) == smb2_pad_to_64bit(EncodeEchoReply(c, r))
ProcessEchoReply(c, m) == IF StructSize(m) # 4 THEN Refused ELSE Decoded(0, {}, {})
=============================================================================

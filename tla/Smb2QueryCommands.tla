------------------------- MODULE Smb2QueryCommands -------------------------
(***************************************************************************)
(* The commands that ask about files: lib/smb2-cmd-query-directory.c,      *)
(* -query-info.c, -ioctl.c, -notify-change.c and the error reply of        *)
(* -error.c, with what the other side reads of them.  c is the context, r  *)
(* what the application asks for or answers, m the message received.       *)
(***************************************************************************)
EXTENDS Smb2Data

\* A fixed part that announces a buffer by a 16-bit offset and a length: what is
\* refused, and how much is read to have all of it.
\* One byte too many is refused.
OverlapsOrTouches(offset, size) == offset <= SMB2_HEADER_SIZE + Even(size)
Overlaps(offset, size) == offset < SMB2_HEADER_SIZE + Even(size)
Behind(offset, size, len) == offset - SMB2_HEADER_SIZE - Even(size) + len

(***************************************************************************)
(* QUERY_DIRECTORY                                                         *)
(***************************************************************************)
EncodeQueryDirectoryRequest(c, r) ==
  Message(32,
    <<PutNumber(26, 2, "file_name_length", r.name), PutSize(33), Put(2, 1, "file_information_class"),
      Put(3, 1, "flags"), Put(4, 4, "file_index"), PutId(8),
      PutOffset(24, 2, "file_name_offset", SMB2_HEADER_SIZE + 32, "name"),
      PutNumber(28, 4, "output_buffer_length", r.room)>>,
    Buffer("name", r.name))

QueryDirectoryRequest(c, r) == smb2_pad_to_64bit(EncodeQueryDirectoryRequest(c, r))
\* What a request for that much is charged, with multi-credit support.
QueryDirectoryCharge(c, r) == IF c.multi THEN (r.room - 1) \div 65536 + 1 ELSE 1

QueryDirectoryRequestGets ==
  {Put(2, 1, "file_information_class"), Put(3, 1, "flags"), Put(4, 4, "file_index"), PutId(8),
   Put(24, 2, "file_name_offset"), Put(26, 2, "file_name_length"),
   Put(28, 4, "output_buffer_length")}

ProcessQueryDirectoryRequest(c, m) ==
  LET off == Number(m, 24, 2)  len == Number(m, 26, 2)
  IN IF StructSize(m) # 33 \/ (len > 0 /\ (off + len > c.spl % 65536 \/ Overlaps(off, 33)))
     THEN Refused
     ELSE Decoded(IF len = 0 THEN 0 ELSE Behind(off, 33, len), Reads(m, QueryDirectoryRequestGets),
                  BufferAt("name", 33, off - 96, len))

\* Passed through, the answer is as the application made it; otherwise it is made
\* of the entries, of the class that was asked for.
DirectoryLength(c, r) == IF c.passthrough THEN r.output ELSE EntriesLength(r.class, r.entries)

EncodeQueryDirectoryReply(c, r) ==
  Message(8,
    <<PutSize(9), PutOffset(2, 2, "output_buffer_offset", 8 + SMB2_HEADER_SIZE, "output"),
      PutNumber(4, 4, "output_buffer_length", DirectoryLength(c, r))>>,
    Buffer("output", DirectoryLength(c, r)))

QueryDirectoryReply(c, r) == smb2_pad_to_64bit(EncodeQueryDirectoryReply(c, r))

OutputGets == {Put(2, 2, "output_buffer_offset"), Put(4, 4, "output_buffer_length")}

ProcessQueryDirectoryReply(c, m) ==
  LET off == Number(m, 2, 2)  len == Number(m, 4, 4)
  IN IF StructSize(m) # 9 \/ (len > 0 /\ (off + len > c.spl \/ Overlaps(off, 9))) THEN Refused
     ELSE Decoded(IF len = 0 THEN 0 ELSE Behind(off, 9, len), Reads(m, OutputGets),
                  BufferAt("output", 9, off - 72, len))

(***************************************************************************)
(* QUERY_INFO.  r.info is the class, r.name the length of a name in it.    *)
(***************************************************************************)
FileClasses ==
  {"all", "basic", "network_open", "normalized_name", "position", "standard", "stream"}
FsClasses ==
  {"fs_attribute", "fs_control", "fs_device", "fs_full_size", "fs_object_id", "fs_sector_size",
   "fs_size", "fs_volume"}
Encodable == FileClasses \cup FsClasses
Decodable == Encodable \cup {"security"}
\* SMB2_0_INFO_FILE and SMB2_0_INFO_FILESYSTEM, by class.
EncodeFileInfo(r) ==
  CASE r.info = "all" -> EncodeFileAllInfo(r)
    [] r.info = "basic" -> EncodeFileBasicInfo(r)
    [] r.info = "network_open" -> EncodeFileNetworkOpenInfo(r)
    [] r.info = "normalized_name" -> EncodeFileNormalizedNameInfo(r)
    [] r.info = "position" -> EncodeFilePositionInfo(r)
    [] r.info = "standard" -> EncodeFileStandardInfo(r)
    [] r.info = "stream" -> EncodeFileStreamInfo(r)
EncodeFsInfo(r) ==
  CASE r.info = "fs_attribute" -> EncodeFileFsAttributeInfo(r)
    [] r.info = "fs_control" -> EncodeFileFsControlInfo(r)
    [] r.info = "fs_device" -> EncodeFileFsDeviceInfo(r)
    [] r.info = "fs_full_size" -> EncodeFileFsFullSizeInfo(r)
    [] r.info = "fs_object_id" -> EncodeFileFsObjectIdInfo(r)
    [] r.info = "fs_sector_size" -> EncodeFileFsSectorSizeInfo(r)
    [] r.info = "fs_size" -> EncodeFileFsSizeInfo(r)
    [] r.info = "fs_volume" -> EncodeFileFsVolumeInfo(r)
EncodeInfo(r) == IF r.info \in FileClasses THEN EncodeFileInfo(r) ELSE EncodeFsInfo(r)
DecodeFileInfo(info, v) ==
  CASE info = "all" -> DecodeFileAllInfo(v)
    [] info = "basic" -> DecodeFileBasicInfo(v)
    [] info = "network_open" -> DecodeFileNetworkOpenInfo(v)
    [] info = "normalized_name" -> DecodeFileNormalizedNameInfo(v)
    [] info = "position" -> DecodeFilePositionInfo(v)
    [] info = "standard" -> DecodeFileStandardInfo(v)
    [] info = "stream" -> DecodeFileStreamInfo(v)
DecodeFsInfo(info, v) ==
  CASE info = "fs_attribute" -> DecodeFileFsAttributeInfo(v)
    [] info = "fs_control" -> DecodeFileFsControlInfo(v)
    [] info = "fs_device" -> DecodeFileFsDeviceInfo(v)
    [] info = "fs_full_size" -> DecodeFileFsFullSizeInfo(v)
    [] info = "fs_object_id" -> DecodeFileFsObjectIdInfo(v)
    [] info = "fs_sector_size" -> DecodeFileFsSectorSizeInfo(v)
    [] info = "fs_size" -> DecodeFileFsSizeInfo(v)
    [] info = "fs_volume" -> DecodeFileFsVolumeInfo(v)
DecodeInfo(info, v) == IF info \in FileClasses THEN DecodeFileInfo(info, v) ELSE DecodeFsInfo(info, v)

EncodeQueryInfoRequest(c, r) ==
  IF r.input > 0 THEN NoMessage
  ELSE Message(40,
         <<PutSize(41), Put(2, 1, "info_type"), Put(3, 1, "file_info_class"),
           PutNumber(4, 4, "output_buffer_length", r.room),
           PutOffset(8, 2, "input_buffer_offset", SMB2_HEADER_SIZE + 40, "input"),
           PutNumber(12, 4, "input_buffer_length", 0), Put(16, 4, "additional_information"),
           Put(20, 4, "flags"), PutId(24)>>, <<>>)

QueryInfoRequest(c, r) == smb2_pad_to_64bit(EncodeQueryInfoRequest(c, r))

QueryInfoRequestGets ==
  {Put(2, 1, "info_type"), Put(3, 1, "file_info_class"), Put(4, 4, "output_buffer_length"),
   Put(8, 2, "input_buffer_offset"), Put(12, 4, "input_buffer_length"),
   Put(16, 4, "additional_information"), Put(20, 4, "flags"), PutId(24)}

ProcessQueryInfoRequest(c, m) ==
  LET off == Number(m, 8, 2)  len == Number(m, 12, 4)
  IN IF StructSize(m) # 41 \/ (len > 0 /\ Overlaps(off, 41)) THEN Refused
     ELSE Decoded(IF len = 0 THEN 0 ELSE Behind(off, 41, len), Reads(m, QueryInfoRequestGets),
                  BufferAt("input", 41, off - 104, len))

\* How much is sent: what the encoder of the class made of it, cut to what the
\* request has room for; of a class without encoder, what was passed through.
InfoMade(r) == IF r.info \in Encodable THEN EncodeInfo(r).size ELSE 0
InfoLengthSent(c, r) ==
  IF r.output = 0 THEN 0
  ELSE IF InfoMade(r) > 0 THEN Min({InfoMade(r), r.room})
  ELSE IF c.passthrough THEN r.output ELSE 0
\* The length told is that of the application where nothing was made.
InfoLengthTold(r) == IF InfoMade(r) > 0 /\ r.output > 0 THEN Min({InfoMade(r), r.room}) ELSE r.output
Overflows(r) == InfoMade(r) > r.room            \* SMB2_STATUS_BUFFER_OVERFLOW

EncodeQueryInfoReply(c, r) ==
  Message(8,
    <<PutSize(9),
      PutOffset(2, 2, "output_buffer_offset", IF r.output = 0 THEN 0 ELSE 72, "output"),
      PutNumber(4, 4, "output_buffer_length", InfoLengthTold(r))>>,
    PaddedBuffer("output", InfoLengthSent(c, r), PAD_TO_64BIT(InfoLengthSent(c, r))))

QueryInfoReply(c, r) == smb2_pad_to_64bit(EncodeQueryInfoReply(c, r))

ProcessQueryInfoReply(c, m) ==
  LET off == Number(m, 2, 2)  len == Number(m, 4, 4)
  IN IF \/ StructSize(m) # 9
        \/ len > 0 /\ \/ off + len > c.spl
                      \/ c.next_command > 0 /\ off + len > c.next_command
                      \/ Overlaps(off, 9)
     THEN Refused
     ELSE Decoded(IF len = 0 THEN 0 ELSE Behind(off, 9, len), Reads(m, OutputGets),
                  BufferAt("output", 9, off - 72, len))

\* The vector the client decodes, cut to the length told.
InfoVector(r) == [EncodeInfo(r) EXCEPT !.size = InfoLengthTold(r)]
\* What was asked for decides how the output is decoded; without a decoder it is
\* handed over as it is, if passed through, and refused otherwise.
InfoTaken(c, r) ==
  IF r.output = 0 THEN TRUE
  ELSE IF r.info \in Encodable THEN DecodeInfo(r.info, InfoVector(r)).taken
  ELSE c.passthrough \/ (r.info = "security" /\ DecodeSecurityDescriptor(r.output, r.descriptor))

(***************************************************************************)
(* IOCTL                                                                   *)
(***************************************************************************)
EncodeIoctlRequest(c, r) ==
  Message(56,
    <<PutSize(57), Put(4, 4, "ctl_code"), PutId(8),
      PutOffset(24, 4, "input_offset", SMB2_HEADER_SIZE + 56, "input"),
      PutNumber(28, 4, "input_count", r.input), Put(32, 4, "max_input_response"),
      Put(44, 4, "max_output_response"), Put(48, 4, "flags")>>,
    Buffer("input", r.input))

IoctlRequest(c, r) == smb2_pad_to_64bit(EncodeIoctlRequest(c, r))

IoctlRequestGets ==
  {Put(4, 4, "ctl_code"), PutId(8), Put(24, 4, "input_offset"), Put(28, 4, "input_count"),
   Put(32, 4, "max_input_response"), Put(36, 4, "output_offset"), Put(40, 4, "output_count"),
   Put(44, 4, "max_output_response"), Put(48, 4, "flags")}

ProcessIoctlRequest(c, m) ==
  LET off == Number(m, 24, 4)  len == Number(m, 28, 4)
  IN IF StructSize(m) # 57 \/ (len > 0 /\ Overlaps(off, 57)) THEN Refused
     ELSE Decoded(IF len = 0 THEN 0 ELSE Behind(off, 57, len), Reads(m, IoctlRequestGets),
                  BufferAt("input", 57, off - 120, len))

ValidateNegotiateSize == 24
ValidateNegotiatePuts ==
  <<Put(0, 4, "capabilities"), Put(4, 16, "guid"), Put(20, 2, "security_mode"), Put(22, 2, "dialect")>>
ValidateNegotiateGets ==
  {Put(0, 4, "capabilities"), Put(4, 16, "guid"), Put(20, 2, "security_mode"), Put(22, 2, "dialect")}

\* Without output the length told is that of the fixed part.
IoctlOutput(c, r) ==
  IF r.output = 0 THEN 0
  ELSE IF r.code = "validate_negotiate" THEN ValidateNegotiateSize
  ELSE IF c.passthrough THEN r.output ELSE -1
EncodeIoctlReply(c, r) ==
  LET len == IoctlOutput(c, r)
  IN IF len < 0 THEN NoMessage
     ELSE Message(48,
            <<PutSize(49), Put(4, 4, "ctl_code"), PutId(8), Put(24, 4, "input_offset"),
              PutNumber(28, 4, "input_count", r.input),
              PutOffset(32, 4, "output_offset", 112 + PAD_TO_64BIT(r.input), "output"),
              PutNumber(36, 4, "output_count", IF len = 0 THEN 48 ELSE len), Put(40, 4, "flags")>>,
            Buffer("output", len))

IoctlReply(c, r) == smb2_pad_to_64bit(EncodeIoctlReply(c, r))

IoctlReplyGets ==
  {Put(4, 4, "ctl_code"), PutId(8), Put(24, 4, "input_offset"), Put(28, 4, "input_count"),
   Put(32, 4, "output_offset"), Put(36, 4, "output_count"), Put(40, 4, "flags")}

ProcessIoctlReply(c, m) ==
  LET off == Number(m, 32, 4)  len == Number(m, 36, 4)
  IN IF StructSize(m) # 49 \/ (len > 0 /\ Overlaps(off, 49)) THEN Refused
     ELSE Decoded(IF len = 0 THEN 0 ELSE Behind(off, 49, len) + PAD_TO_64BIT(Number(m, 28, 4)),
                  Reads(m, IoctlReplyGets), BufferAt("output", 49, off - 112, len))

(***************************************************************************)
(* CHANGE_NOTIFY                                                           *)
(***************************************************************************)
EncodeChangeNotifyRequest(c, r) ==
  Message(32, <<PutSize(32), Put(2, 2, "flags"), PutNumber(4, 4, "output_buffer_length", r.room),
                PutId(8), Put(24, 4, "completion_filter")>>, <<>>)
ChangeNotifyRequest(c, r) == smb2_pad_to_64bit(EncodeChangeNotifyRequest(c, r))

ProcessChangeNotifyRequest(c, m) ==
  IF StructSize(m) # 32 THEN Refused
  ELSE Decoded(0, Reads(m, {Put(2, 2, "flags"), PutId(8), Put(24, 4, "completion_filter")}), {})

\* The offset told is that behind a request.
EncodeChangeNotifyReply(c, r) ==
  IF r.output > 0 /\ ~c.passthrough THEN NoMessage
  ELSE Message(8,
         <<PutSize(9), PutOffset(2, 2, "output_buffer_offset", SMB2_HEADER_SIZE + 32, "output"),
           PutNumber(4, 4, "output_buffer_length", r.output)>>,
         Buffer("output", r.output))
ChangeNotifyReply(c, r) == smb2_pad_to_64bit(EncodeChangeNotifyReply(c, r))

\* The output is taken from the start of the buffers, whatever its offset says.
ProcessChangeNotifyReply(c, m) ==
  IF StructSize(m) # 9 THEN Refused
  ELSE Decoded(Number(m, 4, 4), Reads(m, OutputGets), BufferAt("output", 9, 0, Number(m, 4, 4)))

(***************************************************************************)
(* The reply that tells an error.  Its data is announced and never put.    *)
(***************************************************************************)
EncodeErrorReply(c, r) ==
  Message(9, <<PutSize(9), Put(2, 1, "error_context_count"), PutNumber(4, 4, "byte_count", r.data)>>, <<>>)
ErrorReply(c, r) == smb2_pad_to_64bit(EncodeErrorReply(c, r))
ProcessErrorReply(c, m) ==
  IF StructSize(m) # 9 THEN Refused
  ELSE Decoded(Number(m, 4, 4), Reads(m, {Put(2, 1, "error_context_count"), Put(4, 4, "byte_count")}),
               BufferAt("error_data", 9, 0, Number(m, 4, 4)))
=============================================================================

------------------------------ MODULE Smb2Data ------------------------------
(***************************************************************************)
(* What the replies of QUERY_DIRECTORY, QUERY_INFO, IOCTL and              *)
(* CHANGE_NOTIFY carry: lib/smb2-data-file-info.c, -filesystem-info.c,     *)
(* -security-descriptor.c, -reparse-point.c, and the entries of a          *)
(* directory.  An encoder makes a vector, a message without buffers; names *)
(* are fields too, as wide as they are long.  r.name is the length of a    *)
(* name in UTF-16, r.entries those of the entries of a list.               *)
(***************************************************************************)
EXTENDS Smb2Wire

Vector(length, fields) == Message(length, fields, <<>>)
\* What a decoder makes of a vector of which it wants so many bytes at least.
Taken(v, least, gets) ==
  [taken |-> v.size >= least, reads |-> IF v.size >= least THEN Reads(v, gets) ELSE {}]
NameAt(at, len, name) == IF len > 0 THEN <<Put(at, len, name)>> ELSE <<>>
NameIn(v, at, lengthAt, name) ==
  IF Number(v, lengthAt, 4) > 0 THEN {Put(at, Number(v, lengthAt, 4), name)} ELSE {}

(***************************************************************************)
(* A list: entries one after the other, each with the offset of the next   *)
(* one in its first four bytes.                                            *)
(***************************************************************************)
\* As if an entry began where the one before it does.
StartOfFormer(sizes, i) == FoldLeft(LAMBDA a, b : a + b, 0, SubSeq(sizes, 1, i - 2))
StartOf(sizes, i) == FoldLeft(LAMBDA a, b : a + b, 0, SubSeq(sizes, 1, i - 1))
EndOf(sizes) == StartOf(sizes, Len(sizes) + 1)
ListOf(sizes, entries) ==
  FoldLeft(LAMBDA fields, i : fields \o Shifted(entries[i], StartOf(sizes, i)),
           <<>>, [i \in DOMAIN sizes |-> i])
\* The offsets at which a reader that wants so many bytes of an entry finds one.
Walk(v, least) ==
  LET from[at \in 0 .. v.size] ==
        LET next == Number(v, at, 4)
        IN <<at>> \o (IF next = 0 \/ at + next + least > v.size THEN <<>> ELSE from[at + next])
  IN from[0]

(***************************************************************************)
(* Information about a file.                                               *)
(***************************************************************************)
Times == <<Put(0, 8, "creation_time"), Put(8, 8, "last_access_time"),
           Put(16, 8, "last_write_time"), Put(24, 8, "change_time")>>
TimesGets == {Times[i] : i \in DOMAIN Times}

EncodeFileBasicInfo(r) ==
  Vector(40, Times \o <<Put(32, 4, "file_attributes"), Put(36, 4, "zero")>>)
DecodeFileBasicInfo(v) == Taken(v, 0, TimesGets \cup {Put(32, 4, "file_attributes")})

EncodeFileStandardInfo(r) ==
  Vector(24, <<Put(0, 8, "allocation_size"), Put(8, 8, "end_of_file"), Put(16, 4, "number_of_links"),
               Put(20, 1, "delete_pending"), Put(21, 1, "directory"), Put(22, 2, "zero")>>)
StandardGets ==
  {Put(0, 8, "allocation_size"), Put(8, 8, "end_of_file"), Put(16, 4, "number_of_links"),
   Put(20, 1, "delete_pending"), Put(21, 1, "directory")}
DecodeFileStandardInfo(v) == Taken(v, 0, StandardGets)

EncodeFilePositionInfo(r) == Vector(8, <<Put(0, 8, "current_byte_offset")>>)
DecodeFilePositionInfo(v) == Taken(v, 0, {Put(0, 8, "current_byte_offset")})

AllInfoTail ==
  <<Put(64, 8, "index_number"), Put(72, 4, "ea_size"), Put(76, 4, "access_flags"),
    Put(80, 8, "current_byte_offset"), Put(88, 4, "mode"), Put(92, 4, "alignment_requirement")>>
EncodeFileAllInfo(r) ==
  Vector(100 + r.name,
         EncodeFileBasicInfo(r).fields \o Shifted(EncodeFileStandardInfo(r).fields, 40)
         \o AllInfoTail \o <<PutNumber(96, 4, "name_length", r.name)>> \o NameAt(100, r.name, "name"))
DecodeFileAllInfo(v) ==
  Taken(v, 64, TimesGets \cup {Put(32, 4, "file_attributes")}
               \cup {[g EXCEPT !.at = @ + 40] : g \in StandardGets}
               \cup {AllInfoTail[i] : i \in DOMAIN AllInfoTail} \cup NameIn(v, 100, 96, "name"))

EncodeFileNetworkOpenInfo(r) ==
  Vector(56, Times \o <<Put(32, 8, "allocation_size"), Put(40, 8, "end_of_file"),
                        Put(48, 4, "file_attributes"), Put(52, 4, "zero")>>)
DecodeFileNetworkOpenInfo(v) ==
  Taken(v, 56, TimesGets \cup {Put(32, 8, "allocation_size"), Put(40, 8, "end_of_file"),
                               Put(48, 4, "file_attributes")})

EncodeFileNormalizedNameInfo(r) ==
  Vector(4 + r.name, <<PutNumber(0, 4, "name_length", r.name)>> \o NameAt(4, r.name, "name"))
\* A name that was cut is read as far as it goes.
DecodeFileNormalizedNameInfo(v) ==
  LET len == IF v.size >= 4 THEN Min({Number(v, 0, 4), v.size - 4}) ELSE 0
  IN Taken(v, 4, {Put(0, 4, "name_length")} \cup (IF len > 0 THEN {Put(4, len, "name")} ELSE {}))

\* The streams of a file.  The offset of the next one is counted from the first.
StreamSizes(r) ==
  [i \in DOMAIN r.entries |-> IF i = Len(r.entries) THEN 24 + r.entries[i]
                              ELSE PAD_TO_64BIT(24 + r.entries[i])]
EncodeFileStreamInfo(r) ==
  LET sizes == StreamSizes(r)
      Stream(i, at) ==
        <<Put(8, 8, "stream_size"), PutNumber(4, 4, "stream_name_length", r.entries[i]),
          Put(16, 8, "stream_allocation_size"), PutNumber(24, r.entries[i], "name", i),
          PutNumber(0, 4, "next", IF i = Len(sizes) THEN 0 ELSE at + sizes[i])>>
  IN Vector(EndOf(sizes), ListOf(sizes, [i \in DOMAIN sizes |-> Stream(i, StartOf(sizes, i))]))
StreamsIn(v) ==
  LET found == Walk(v, 24)
  IN [i \in DOMAIN found |-> Get(v, found[i] + 24, Number(v, found[i] + 4, 4)).val]
DecodeFileStreamInfo(v) == Taken(v, 0, {})

(***************************************************************************)
(* Information about a file system.                                        *)
(***************************************************************************)
EncodeFileFsVolumeInfo(r) ==
  Vector(18 + r.name,
         <<Put(0, 8, "creation_time"), Put(8, 4, "volume_serial_number"),
           Put(16, 1, "supports_objects"), Put(17, 1, "reserved"),
           PutNumber(12, 4, "volume_label_length", r.name)>> \o NameAt(18, r.name, "name"))
DecodeFileFsVolumeInfo(v) ==
  Taken(v, 0, {Put(0, 8, "creation_time"), Put(8, 4, "volume_serial_number"),
               Put(12, 4, "volume_label_length"), Put(16, 1, "supports_objects"),
               Put(17, 1, "reserved")} \cup NameIn(v, 18, 12, "name"))

FsSize == <<Put(0, 8, "total_allocation_units"), Put(8, 8, "available_allocation_units"),
            Put(16, 4, "sectors_per_allocation_unit"), Put(20, 4, "bytes_per_sector")>>
EncodeFileFsSizeInfo(r) == Vector(24, FsSize)
DecodeFileFsSizeInfo(v) ==
  Taken(v, 24, {Put(0, 8, "total_allocation_units"), Put(8, 8, "available_allocation_units"),
                Put(16, 4, "sectors_per_allocation_unit"), Put(20, 4, "bytes_per_sector")})

EncodeFileFsDeviceInfo(r) == Vector(8, <<Put(0, 4, "device_type"), Put(4, 4, "characteristics")>>)
DecodeFileFsDeviceInfo(v) == Taken(v, 8, {Put(0, 4, "device_type"), Put(4, 4, "characteristics")})

EncodeFileFsAttributeInfo(r) ==
  Vector(12 + r.name,
         <<Put(0, 4, "filesystem_attributes"), Put(4, 4, "maximum_component_name_length"),
           PutNumber(8, 4, "name_length", r.name)>> \o NameAt(12, r.name, "name"))
\* More is wanted than there is of a file system with a short name.
DecodeFileFsAttributeInfo(v) ==
  Taken(v, 20, {Put(0, 4, "filesystem_attributes"), Put(4, 4, "maximum_component_name_length")}
               \cup NameIn(v, 12, 8, "name"))

EncodeFileFsControlInfo(r) ==
  Vector(44, <<Put(0, 8, "free_space_start_filtering"), Put(8, 8, "free_space_threshold"),
               Put(16, 8, "free_space_stop_filtering"), Put(24, 8, "default_quota_threshold"),
               Put(32, 8, "default_quota_limit"), Put(40, 4, "file_system_control_flags")>>)
\* It returns 44 where the others return 0, which its caller takes for a failure.
DecodeFileFsControlInfo(v) == [taken |-> FALSE, reads |-> {}]

EncodeFileFsFullSizeInfo(r) ==
  Vector(32, <<Put(0, 8, "total_allocation_units"), Put(8, 8, "caller_available_allocation_units"),
               Put(16, 8, "actual_available_allocation_units"),
               Put(24, 4, "sectors_per_allocation_unit"), Put(28, 4, "bytes_per_sector")>>)
DecodeFileFsFullSizeInfo(v) ==
  Taken(v, 32, {Put(0, 8, "total_allocation_units"), Put(8, 8, "caller_available_allocation_units"),
                Put(16, 8, "actual_available_allocation_units"),
                Put(24, 4, "sectors_per_allocation_unit"), Put(28, 4, "bytes_per_sector")})

EncodeFileFsObjectIdInfo(r) == Vector(64, <<Put(0, 16, "object_id"), Put(16, 48, "extended_info")>>)
DecodeFileFsObjectIdInfo(v) == Taken(v, 64, {Put(0, 16, "object_id"), Put(16, 48, "extended_info")})

SectorSize ==
  <<Put(0, 4, "logical"), Put(4, 4, "physical_atomicity"), Put(8, 4, "physical_performance"),
    Put(12, 4, "effective_atomicity"), Put(16, 4, "flags"), Put(20, 4, "sector_alignment"),
    Put(24, 4, "partition_alignment")>>
EncodeFileFsSectorSizeInfo(r) == Vector(28, SectorSize)
DecodeFileFsSectorSizeInfo(v) ==
  Taken(v, 28, {Put(0, 4, "logical"), Put(4, 4, "physical_atomicity"), Put(8, 4, "physical_performance"),
                Put(12, 4, "effective_atomicity"), Put(16, 4, "flags"),
                Put(20, 4, "sector_alignment"), Put(24, 4, "partition_alignment")})

(***************************************************************************)
(* The entries of a directory.  The application hands them over as an      *)
(* array; the offset of the next one is counted from the first.            *)
(***************************************************************************)
EntrySize(class, name) ==
  CASE class = "full" -> PAD_TO_32BIT(80 + name)
    [] class = "both" -> PAD_TO_32BIT(104 + name)
    [] OTHER -> 0
EntrySizes(class, names) == [i \in DOMAIN names |-> EntrySize(class, names[i])]
EntriesLength(class, names) == EndOf(EntrySizes(class, names))

EntryHead(name, next) ==
  <<PutNumber(0, 4, "next", next), Put(4, 4, "file_index")>> \o Shifted(Times, 8)
  \o <<Put(40, 8, "end_of_file"), Put(48, 8, "allocation_size"), Put(56, 4, "file_attributes"),
       PutNumber(60, 4, "name_length", name), Put(64, 4, "ea_size")>>
FullEntry(name, next, i) ==
  EntryHead(name, next)
  \o <<Put(68, 4, "zero"), Put(72, 8, "file_id"), PutNumber(80, name, "name", i)>>
BothEntry(name, next, i) ==
  EntryHead(name, next)
  \o <<Put(68, 1, "short_name_length"), Put(69, 1, "zero"), Put(70, 24, "short_name"),
       Put(94, 2, "zero"), Put(96, 8, "file_id"), PutNumber(104, name, "name", i)>>

EncodeEntries(class, names) ==
  LET sizes == EntrySizes(class, names)
      Next(i, at) == IF i = Len(sizes) THEN 0 ELSE at + sizes[i]
      Full(i, at) == FullEntry(names[i], Next(i, at), i)
      Both(i, at) == BothEntry(names[i], Next(i, at), i)
      Entries == [i \in DOMAIN sizes |-> IF class = "full" THEN Full(i, StartOf(sizes, i))
                                                           ELSE Both(i, StartOf(sizes, i))]
  IN IF class \in {"full", "both"} THEN Vector(EndOf(sizes), ListOf(sizes, Entries))
     ELSE Vector(0, <<>>)

EntryGets ==
  {Put(4, 4, "file_index"), Put(40, 8, "end_of_file"), Put(48, 8, "allocation_size"),
   Put(56, 4, "file_attributes"), Put(64, 4, "ea_size"), Put(72, 8, "file_id")}
  \cup {[g EXCEPT !.at = @ + 8] : g \in TimesGets}
\* smb2_decode_fileidfulldirectoryinformation, of the entry at an offset.
DecodeEntry(v, at) ==
  LET len == Number(v, at + 60, 4)
  IN IF at + 80 + len > v.size THEN [taken |-> FALSE, name |-> Found("unset", 0), reads |-> {}]
     ELSE [taken |-> TRUE, name |-> Get(v, at + 80, len),
           reads |-> {<<g.field, Get(v, at + g.at, g.width).field>> : g \in EntryGets}]
\* decode_dirents: the numbers of the entries that are listed.
DecodeDirents(v) ==
  LET found == Walk(v, 1) IN [i \in DOMAIN found |-> DecodeEntry(v, found[i]).name.val]

(***************************************************************************)
(* What changed in a directory: a list a server passes through, and its    *)
(* reading by the client.  Here the offsets are counted from each entry.   *)
(***************************************************************************)
ChangeSizes(names) == [i \in DOMAIN names |-> PAD_TO_32BIT(12 + names[i])]
Changes(names) ==
  LET sizes == ChangeSizes(names)
      Change(i, at) ==
        <<PutNumber(0, 4, "next", IF i = Len(sizes) THEN 0 ELSE sizes[i]), Put(4, 4, "action"),
          PutNumber(8, 4, "name_length", names[i]), PutNumber(12, names[i], "name", i)>>
  IN Vector(EndOf(sizes), ListOf(sizes, [i \in DOMAIN sizes |-> Change(i, StartOf(sizes, i))]))
\* As if an entry had to have room for a name of eight bytes.
ChangesWithRoom(v) ==
  LET found == Walk(v, 20)
  IN [i \in DOMAIN found |-> Get(v, found[i] + 12, Number(v, found[i] + 8, 4)).val]
\* smb2_decode_filenotifychangeinformation: the numbers of the changes that are told,
\* 0 for one that stays empty because it would begin too near the end.
DecodeChanges(v) ==
  LET found == Walk(v, 12)
      Told == [i \in DOMAIN found |-> Get(v, found[i] + 12, Number(v, found[i] + 8, 4)).val]
  IN IF v.size < 12 THEN <<0>>
     ELSE IF Number(v, Last(found), 4) # 0 THEN Append(Told, 0) ELSE Told

(***************************************************************************)
(* A security descriptor: an owner, a group and a list of entries.         *)
(***************************************************************************)
SidSize(sid) == 8 + 4 * sid.count
SidTaken(len, sid) == len >= 8 /\ sid.revision = 1 /\ len >= SidSize(sid)
AfterSid(len, sid) == IF SidTaken(len, sid) THEN len - SidSize(sid) ELSE len

\* decode_ace: what is left of the list bounds the body of an entry, not its size.
\* An entry whose SID cannot be decoded is taken without it.
AceTaken(len, ace) ==
  /\ len >= 4 /\ ace.size >= 4 /\ len >= ace.size
  /\ ace.kind \in {"simple", "callback"} => len - 4 >= 4
  /\ ace.kind = "object" => len - 4 >= 40
\* How much of the list an entry takes along as its application or raw data.
AceData(len, ace) ==
  CASE ace.kind = "callback" -> AfterSid(len - 8, ace.sid)
    [] ace.kind = "raw" -> len - 4
    [] OTHER -> 0

\* How much of the list is left before the i-th entry.
LeftBefore(acl, i) == acl.size - 8 - StartOf([k \in DOMAIN acl.aces |-> acl.aces[k].size], i)
AclTaken(len, acl) ==
  /\ len >= 8 /\ acl.revision \in {2, 4} /\ len >= acl.size
  /\ \A i \in DOMAIN acl.aces : AceTaken(LeftBefore(acl, i), acl.aces[i])

\* The offsets of the parts that are there, as they are laid out by the peer.
OwnerAt(d) == IF d.owner = <<>> THEN 0 ELSE 20
GroupAt(d) == IF d.group = <<>> THEN 0 ELSE 20 + EndOf([i \in DOMAIN d.owner |-> SidSize(d.owner[i])])
DaclAt(d) ==
  IF d.dacl = <<>> THEN 0
  ELSE 20 + EndOf([i \in DOMAIN (d.owner \o d.group) |-> SidSize((d.owner \o d.group)[i])])
DescriptorSize(d) ==
  20 + EndOf([i \in DOMAIN (d.owner \o d.group) |-> SidSize((d.owner \o d.group)[i])])
     + EndOf([i \in DOMAIN d.dacl |-> d.dacl[i].size])
DecodeSecurityDescriptor(len, d) ==
  /\ len >= 20
  /\ OwnerAt(d) > 0 /\ OwnerAt(d) + 8 < len => SidTaken(len - OwnerAt(d), d.owner[1])
  /\ GroupAt(d) > 0 /\ GroupAt(d) + 8 < len => SidTaken(len - GroupAt(d), d.group[1])
  /\ DaclAt(d) > 0 /\ DaclAt(d) + 8 <= len => AclTaken(len - DaclAt(d), d.dacl[1])

(***************************************************************************)
(* A reparse point that is a symbolic link: two names behind a head of 20. *)
(***************************************************************************)
ReparseSize(r) == 20 + r.sub + r.print
DecodeReparseDataBuffer(len, r) ==
  LET length == 12 + r.sub + r.print
  IN /\ len >= 20 /\ len % 65536 >= length + 8
     /\ 0 + r.sub + 12 <= length
     /\ r.sub + r.print + 12 <= length
=============================================================================

------------------------------ MODULE Smb2Wire ------------------------------
(***************************************************************************)
(* The bytes of an SMB2 command, as libsmb2 lays them out (lib/pdu.c) and  *)
(* reads them back.  A command is a header of 64 bytes, a fixed part and   *)
(* buffers behind it.  A fixed part is the list of the fields put into it, *)
(* each at an offset and of a width; only the numbers that steer decoding  *)
(* (offsets, lengths, counts, sizes) have a value, the others are told     *)
(* apart by their name.  A buffer is a name and a length.                  *)
(***************************************************************************)
EXTENDS Integers, Sequences, SequencesExt, FiniteSets, FiniteSetsExt

SMB2_HEADER_SIZE == 64
SMB2_FD_SIZE == 16
PAD_TO_32BIT(n) == ((n + 3) \div 4) * 4
PAD_TO_64BIT(n) == ((n + 7) \div 8) * 8
Even(size) == 2 * (size \div 2)                 \* size & 0xfffe

(***************************************************************************)
(* Putting: smb2_set_uint8 and its kin, smb2_add_iovector.                 *)
(***************************************************************************)
Put(at, width, field) ==
  [at |-> at, width |-> width, field |-> field, val |-> 0, points |-> "nothing"]
PutNumber(at, width, field, n) ==
  [Put(at, width, field) EXCEPT
     !.val = IF width = 1 THEN n % 256 ELSE IF width = 2 THEN n % 65536 ELSE n]
\* The offset of a buffer.
PutOffset(at, width, field, n, buffer) == [PutNumber(at, width, field, n) EXCEPT !.points = buffer]
PutSize(n) == PutNumber(0, 2, "struct_size", n)
PutId(at) == Put(at, SMB2_FD_SIZE, "file_id")

\* The fields of a structure that lies at an offset of a larger one.
Shifted(fields, by) == [i \in DOMAIN fields |-> [fields[i] EXCEPT !.at = @ + by]]

Zeros(n) == IF n > 0 THEN <<[of |-> "zero", len |-> n]>> ELSE <<>>
Buffer(name, len) == IF len > 0 THEN <<[of |-> name, len |-> len]>> ELSE <<>>
PaddedBuffer(name, len, padded) == Buffer(name, len) \o Zeros(padded - len)

\* What does not fit the iovector is not put.
Message(size, fields, buffers) ==
  [size |-> size, fields |-> SelectSeq(fields, LAMBDA f : f.at + f.width <= size),
   buffers |-> buffers]
NoMessage == Message(-1, <<>>, <<>>)            \* the encoder returns -1

TotalOf(buffers) == FoldLeft(LAMBDA n, b : n + b.len, 0, buffers)
SizeOf(m) == m.size + TotalOf(m.buffers)
\* A command is padded so that a following one is aligned.
smb2_pad_to_64bit(m) ==
  IF m = NoMessage THEN m
  ELSE [m EXCEPT !.buffers = @ \o Zeros(PAD_TO_64BIT(SizeOf(m)) - SizeOf(m))]

\* Where a buffer begins, counted from the header of its command.
WhereIs(m, i) == SMB2_HEADER_SIZE + m.size + TotalOf(SubSeq(m.buffers, 1, i - 1))
BuffersOf(m) == {<<m.buffers[i].of, WhereIs(m, i), m.buffers[i].len>> :
                   i \in {j \in DOMAIN m.buffers : m.buffers[j].of # "zero"}}

(***************************************************************************)
(* Getting: smb2_get_uint8 and its kin.  What is read is the field put     *)
(* last at those bytes, zero where calloc left it, and torn when the bytes *)
(* are those of a field put otherwise.  A read beyond the iovector leaves  *)
(* the variable as malloc made it.                                         *)
(***************************************************************************)
Found(field, val) == [field |-> field, val |-> val]
PutsAt(m, at, width) ==
  {i \in DOMAIN m.fields : at < m.fields[i].at + m.fields[i].width /\ m.fields[i].at < at + width}
Covers(f, g) == f.at <= g.at /\ g.at + g.width <= f.at + f.width
\* Little endian: a number put narrower than it is read keeps its value.
Get(m, at, width) ==
  IF at + width > Even(m.size) THEN Found("unset", 0)
  ELSE IF PutsAt(m, at, width) = {} THEN Found("zero", 0)
  ELSE LET f == m.fields[Max(PutsAt(m, at, width))]
           whole == /\ f.at = at /\ f.width <= width
                    /\ \A i \in PutsAt(m, at, width) : Covers(f, m.fields[i])
       IN IF whole THEN Found(f.field, f.val) ELSE Found("torn", 0)
Number(m, at, width) == Get(m, at, width).val
StructSize(m) == Number(m, 0, 2)

\* An offset that names a buffer names the place where it is.
OffsetsTrue(m) ==
  \A i \in DOMAIN m.fields : \A b \in BuffersOf(m) :
    m.fields[i].points = b[1] => m.fields[i].val = b[2]

\* What the process_..._fixed function of a command makes of a message: how many
\* bytes of buffers it wants, the fields it read and the buffers it will use.
Reads(m, gets) == {<<g.field, Get(m, g.at, g.width).field>> : g \in gets}
Decoded(need, reads, buffers) == [need |-> need, reads |-> reads, buffers |-> buffers]
Refused == Decoded(-1, {}, {})
\* The buffers begin behind a fixed part of this size.
\* As if the odd byte of the size were part of the fixed part.
BufferAtOdd(name, size, offset, len) ==
  IF len > 0 THEN {<<name, SMB2_HEADER_SIZE + size + offset, len>>} ELSE {}
BufferAt(name, size, offset, len) ==
  IF len > 0 THEN {<<name, SMB2_HEADER_SIZE + Even(size) + offset, len>>} ELSE {}

(***************************************************************************)
(* The header.                                                             *)
(***************************************************************************)
\* A header that is always put in its synchronous form.
SyncHeaderPuts(async) ==
  <<Put(0, 4, "protocol_id"), Put(4, 2, "struct_size"), Put(6, 2, "credit_charge"),
    Put(8, 4, "status"), Put(12, 2, "command"), Put(14, 2, "credit_request_response"),
    Put(16, 4, "flags"), Put(20, 4, "next_command"), Put(24, 8, "message_id"),
    Put(32, 4, "process_id"), Put(36, 4, "tree_id"), Put(40, 8, "session_id"), Put(48, 16, "signature")>>
HeaderPuts(async) ==
  <<Put(0, 4, "protocol_id"), Put(4, 2, "struct_size"), Put(6, 2, "credit_charge"),
    Put(8, 4, "status"), Put(12, 2, "command"), Put(14, 2, "credit_request_response"),
    Put(16, 4, "flags"), Put(20, 4, "next_command"), Put(24, 8, "message_id")>>
  \o (IF async THEN <<Put(32, 8, "async_id")>>
      ELSE <<Put(32, 4, "process_id"), Put(36, 4, "tree_id")>>)
  \o <<Put(40, 8, "session_id"), Put(48, 16, "signature")>>
HeaderGets(async) ==
  {Put(4, 2, "struct_size"), Put(6, 2, "credit_charge"), Put(8, 4, "status"),
   Put(12, 2, "command"), Put(14, 2, "credit_request_response"), Put(16, 4, "flags"),
   Put(20, 4, "next_command"), Put(24, 8, "message_id"), Put(40, 8, "session_id"),
   Put(48, 16, "signature")}
  \cup (IF async THEN {Put(32, 8, "async_id")}
        ELSE {Put(32, 4, "process_id"), Put(36, 4, "tree_id")})
=============================================================================

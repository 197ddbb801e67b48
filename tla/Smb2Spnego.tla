----------------------------- MODULE Smb2Spnego -----------------------------
(***************************************************************************)
(* The envelopes of the security tokens: the BER coder of lib/asn1-ber.c   *)
(* and the SPNEGO wrappers of lib/spnego-wrapper.c, byte by byte.          *)
(* An encoder takes what has been written and returns it with its own      *)
(* bytes behind; a length that is not known yet is given room first        *)
(* (reserve) and written back later, when what follows it moves left over  *)
(* the room that was not needed (annotate).  A reader takes the bytes and  *)
(* an offset and returns the next offset and what it read, or Bad.         *)
(***************************************************************************)
EXTENDS Integers, Sequences, SequencesExt, Folds

\* asn1-ber.h: the type codes used here.
asnOCTET_STRING == 4
asnOBJECT_ID == 6
asnENUMERATED == 10
asnSTRUCT == 48
GssApi == 96                                    \* asnCONSTRUCTOR | asnAPPLICATION
ASN1_CONTEXT(n) == 160 + n
BER_MAX_OID_ELEMENTS == 32

(***************************************************************************)
(* Writing.                                                                *)
(***************************************************************************)
\* The base-2^bits digits of n, the most significant first, and at least one of them.
Digits(n, base) ==
  LET Needed == CHOOSE k \in 1 .. 5 : n < base^k /\ (k = 1 \/ n >= base^(k - 1))
  IN [i \in 1 .. Needed |-> (n \div base^(Needed - i)) % base]

asn1ber_ber_from_length(b, n) ==
  IF n < 128 THEN Append(b, n)
  ELSE LET d == Digits(n, 256) IN Append(b, 128 + Len(d)) \o d

asn1ber_ber_reserve_length(b, n) == b \o [i \in 1 .. n |-> 0]

\* With less room than the length needs its bytes run over the contents.
asn1ber_annotate_length(b, pos, reserved) ==
  LET made == Len(b) - pos - reserved
      length == asn1ber_ber_from_length(<<>>, made)
      over == Len(length) - reserved
  IN SubSeq(b, 1, pos) \o length
     \o (IF over <= 0 THEN SubSeq(b, pos + reserved + 1, Len(b))
         ELSE asn1ber_ber_reserve_length(SubSeq(b, pos + Len(length) + 1, Len(b)), over))

\* Seven bits to a byte; all bytes of a number but the last have the top bit set.
asn1ber_ber_from_single_oid(b, n) ==
  LET d == Digits(n, 128)
  IN b \o [i \in DOMAIN d |-> IF i < Len(d) THEN d[i] + 128 ELSE d[i]]

\* The first two elements share a byte.
asn1ber_ber_from_oid(b, oid) ==
  LET room == asn1ber_ber_reserve_length(Append(b, asnOBJECT_ID), 1)
      joined == IF Len(oid) > 1 /\ oid[1] < 40
                THEN <<oid[1] * 40 + oid[2]>> \o SubSeq(oid, 3, Len(oid)) ELSE oid
  IN IF Len(oid) >= BER_MAX_OID_ELEMENTS THEN b
     ELSE asn1ber_annotate_length(FoldLeft(asn1ber_ber_from_single_oid, room, joined), Len(b) + 1, 1)

asn1ber_ber_from_typelen(b, type, n) == asn1ber_ber_from_length(Append(b, type), n)
asn1ber_ber_from_bytes(b, type, val) == asn1ber_ber_from_typelen(b, type, Len(val)) \o val

(***************************************************************************)
(* Reading.                                                                *)
(***************************************************************************)
Bad == [at |-> -1, val |-> 0]
Found(at, val) == [at |-> at, val |-> val]

asn1ber_next_byte(s, at) ==
  IF at < 0 \/ at >= Len(s) THEN Bad ELSE Found(at + 1, s[at + 1])

\* n more bytes, each joined to the value so far.
Joined(s, from, n, base) ==
  FoldLeft(LAMBDA r, i : LET b == asn1ber_next_byte(s, r.at)
                         IN IF b = Bad THEN Bad ELSE Found(b.at, (r.val * base) + b.val),
           from, [i \in 1 .. n |-> i])

asn1ber_length_from_ber(s, at) ==
  LET b == asn1ber_next_byte(s, at)
  IN IF b = Bad \/ b.val < 128 THEN b
     ELSE IF b.val - 128 > 4 THEN Bad ELSE Joined(s, Found(b.at, 0), b.val - 128, 256)

ber_typecode_from_ber(s, at) ==
  LET b == asn1ber_next_byte(s, at)
      c == asn1ber_next_byte(s, b.at)
  IN IF b = Bad \/ b.val % 32 # 31 THEN b
     ELSE IF c # Bad /\ c.val >= 48 THEN Found(c.at, c.val - 48) ELSE c

\* The value is the pair of the type and the length.
TypeLen(t, n) == [at |-> n.at, type |-> t.val, len |-> n.val]
ber_typelen_from_ber(s, at) ==
  LET t == ber_typecode_from_ber(s, at) IN TypeLen(t, asn1ber_length_from_ber(s, t.at))

\* require_typeandlen: the offset behind the head, or -1.
Behind(head, type, minimum) ==
  IF head.at < 0 \/ head.type # type \/ head.len < minimum THEN -1 ELSE head.at
Required(s, at, type, minimum) == Behind(ber_typelen_from_ber(s, at), type, minimum)

Unsigned == {1, 64, 65, 66, 67, 69, 71, asnENUMERATED}
asn1ber_uint32_from_ber(s, at) ==
  LET t == asn1ber_next_byte(s, at)
      n == asn1ber_next_byte(s, t.at)
  IN IF t = Bad \/ n = Bad \/ t.val \notin Unsigned \/ n.val \notin 1 .. 4 THEN Bad
     ELSE Joined(s, Found(n.at, 0), n.val, 256)

\* One element: bytes with the top bit set, and one without, or the end of the object.
Element(s, at, end) ==
  LET Ends == {k \in at .. end - 1 : k < Len(s) /\ s[k + 1] < 128}
      last == IF Ends = {} THEN end - 1 ELSE CHOOSE k \in Ends : \A j \in Ends : k <= j
  IN IF last >= Len(s) THEN Bad
     ELSE Found(last + 1, FoldLeft(LAMBDA v, k : (v * 128) + (s[k] % 128), 0, [i \in 1 .. last + 1 - at |-> at + i]))

\* All of them, from the byte that the first two share to the end.
Elements(s, first, end) ==
  LET More(r, i) == LET e == Element(s, r.at, end)
                    IN IF r.at \notin 0 .. end - 1 THEN r ELSE [at |-> e.at, oid |-> Append(r.oid, e.val)]
  IN FoldLeft(More, [at |-> first.at, oid |-> <<first.val \div 40, first.val % 40>>],
              [i \in 1 .. BER_MAX_OID_ELEMENTS - 2 |-> i])

NoOid == [at |-> -1, oid |-> <<>>]
OidOfLength(s, n) ==
  LET first == asn1ber_next_byte(s, n.at)
      all == Elements(s, first, n.at + n.val)
  IN IF n = Bad \/ first = Bad \/ n.val \notin 1 .. BER_MAX_OID_ELEMENTS \/ all.at # n.at + n.val
     THEN NoOid ELSE all
asn1ber_oid_from_ber(s, at) ==
  LET t == asn1ber_next_byte(s, at)
  IN IF t = Bad \/ t.val # asnOBJECT_ID THEN NoOid ELSE OidOfLength(s, asn1ber_length_from_ber(s, t.at))

(***************************************************************************)
(* The wrappers.                                                           *)
(***************************************************************************)
oid_gss_mech_spnego == <<1, 3, 6, 1, 5, 5, 2>>
oid_spnego_mech_krb5 == <<1, 2, 840, 113554, 1, 2, 2>>
oid_spnego_mech_ms_krb5 == <<1, 2, 840, 48018, 1, 2, 2>>
oid_spnego_mech_ntlmssp == <<1, 3, 6, 1, 4, 1, 311, 2, 2, 10>>

\* A type code, room for the length, the contents, and the length written back.
Enclosed(type, reserved, contents) ==
  asn1ber_annotate_length(asn1ber_ber_reserve_length(<<type>>, reserved) \o contents, 1, reserved)
TokenIn(token) == Enclosed(ASN1_CONTEXT(2), 5, Enclosed(asnOCTET_STRING, 5, token))

smb2_spnego_create_negotiate_reply_blob(allow_ntlmssp) ==
  LET mechs == IF allow_ntlmssp THEN asn1ber_ber_from_oid(<<>>, oid_spnego_mech_ntlmssp) ELSE <<>>
  IN Enclosed(GssApi, 5, asn1ber_ber_from_oid(<<>>, oid_gss_mech_spnego)
       \o Enclosed(ASN1_CONTEXT(0), 5,
            Enclosed(asnSTRUCT, 5, Enclosed(ASN1_CONTEXT(0), 5, Enclosed(asnSTRUCT, 5, mechs)))))

\* Without a token the length of the mechanisms is written back a second time.
smb2_spnego_wrap_gssapi(token) ==
  LET mechs == Enclosed(ASN1_CONTEXT(0), 5,
                 Enclosed(asnSTRUCT, 5, asn1ber_ber_from_oid(<<>>, oid_spnego_mech_ntlmssp)))
      all == IF token = <<>> THEN asn1ber_annotate_length(mechs, 1, 5) ELSE mechs \o TokenIn(token)
  IN Enclosed(GssApi, 5, asn1ber_ber_from_oid(<<>>, oid_gss_mech_spnego)
       \o Enclosed(ASN1_CONTEXT(0), 5, Enclosed(asnSTRUCT, 5, all)))

NegResult(code) == Enclosed(ASN1_CONTEXT(0), 1, asn1ber_ber_from_bytes(<<>>, asnENUMERATED, <<code>>))
smb2_spnego_wrap_ntlmssp_challenge(token) ==
  Enclosed(ASN1_CONTEXT(1), 5, Enclosed(asnSTRUCT, 5,
    NegResult(1) \o Enclosed(ASN1_CONTEXT(1), 1, asn1ber_ber_from_oid(<<>>, oid_spnego_mech_ntlmssp))
    \o TokenIn(token)))

smb2_spnego_wrap_ntlmssp_auth(token) ==
  Enclosed(ASN1_CONTEXT(1), 5, Enclosed(asnSTRUCT, 5, TokenIn(token)))

smb2_spnego_wrap_authenticate_result(authorized_ok) ==
  Enclosed(ASN1_CONTEXT(1), 5, Enclosed(asnSTRUCT, 5, NegResult(IF authorized_ok THEN 0 ELSE 3)))

(***************************************************************************)
(* And what takes them off again: where the token begins and how long it   *)
(* is.  A negative length is a refusal.                                    *)
(***************************************************************************)
MaxParts == 4                                   \* more than any of the wrappers makes
NoToken(len) == [from |-> 0, len |-> len, mechs |-> {}]

\* The parts of a negTokenTarg, one after the other, up to the token: where a
\* part ends, or the token begins, and how long that is.
Part(s, t) ==
  CASE t.at < 0 -> [at |-> -1, len |-> 0]
    [] t.at >= 0 /\ t.type = ASN1_CONTEXT(0) -> [at |-> asn1ber_uint32_from_ber(s, t.at).at, len |-> 0]
    [] t.at >= 0 /\ t.type = ASN1_CONTEXT(1) -> [at |-> asn1ber_oid_from_ber(s, t.at).at, len |-> 0]
    [] t.at >= 0 /\ t.type = ASN1_CONTEXT(2) ->
         [at |-> Required(s, t.at, asnOCTET_STRING, 8), len |-> ber_typelen_from_ber(s, t.at).len]
    [] OTHER -> [at |-> t.at, len |-> 0]
Past(r, part) == [at |-> part.at, len |-> part.len, left |-> r.left - (part.at - r.at)]
smb2_spnego_unwrap_targ(s) ==
  LET outer == Required(s, 0, ASN1_CONTEXT(1), 14)
      Step(r, i) == IF r.at < 0 \/ r.len > 0 \/ r.left <= 2 THEN r
                    ELSE Past(r, Part(s, ber_typelen_from_ber(s, r.at)))
      Token(all) == IF all.at < 0 THEN NoToken(-22) ELSE [from |-> all.at, len |-> all.len, mechs |-> {}]
  IN Token(FoldLeft(Step, [at |-> Required(s, outer, asnSTRUCT, 12), len |-> 0,
                           left |-> ber_typelen_from_ber(s, outer).len], [i \in 1 .. MaxParts |-> i]))

Mechanism(oid) ==
  CASE oid \in {oid_spnego_mech_krb5, oid_spnego_mech_ms_krb5} -> {"krb5"}
    [] oid = oid_spnego_mech_ntlmssp -> {"ntlmssp"}
    [] OTHER -> {}

\* The list of mechanisms ...
Mechanisms(s, list, mechs) ==
  LET end == mechs + ber_typelen_from_ber(s, list).len
      Next(r, m) == [at |-> m.at, mechs |-> r.mechs \cup Mechanism(m.oid)]
      Step(r, i) == IF r.at \notin 0 .. end - 1 THEN r ELSE Next(r, asn1ber_oid_from_ber(s, r.at))
  IN FoldLeft(Step, [at |-> mechs, mechs |-> {}], [i \in 1 .. MaxParts |-> i])

\* ... and behind it the token, if there is one.
TokenBehind(s, all) ==
  LET octets == Required(s, all.at, ASN1_CONTEXT(2), 10)
      token == Required(s, octets, asnOCTET_STRING, 7)
  IN IF all.at < 0 THEN NoToken(-22)
     ELSE IF all.at >= Len(s) \/ s[all.at + 1] # ASN1_CONTEXT(2)
          THEN [from |-> 0, len |-> 0, mechs |-> all.mechs]
     ELSE IF token < 0 THEN NoToken(-22)
     ELSE [from |-> token, len |-> ber_typelen_from_ber(s, octets).len, mechs |-> all.mechs]

InnerToken(s, list) ==
  LET mechs == Required(s, list, asnSTRUCT, 8)
  IN IF mechs < 0 THEN NoToken(-22) ELSE TokenBehind(s, Mechanisms(s, list, mechs))
smb2_spnego_unwrap_gssapi(s) ==
  LET oid == asn1ber_oid_from_ber(s, Required(s, 0, GssApi, 32))
      inner == Required(s, Required(s, oid.at, ASN1_CONTEXT(0), 10), asnSTRUCT, 8)
  IN IF oid.oid # oid_gss_mech_spnego THEN NoToken(-22)
     ELSE InnerToken(s, Required(s, inner, ASN1_CONTEXT(0), 10))

NTLMSSP == <<78, 84, 76, 77, 83, 83, 80, 0>>

\* A token that comes without an envelope is taken as it is.
smb2_spnego_unwrap_blob(s) ==
  IF Len(s) < 7 THEN NoToken(-22)
  ELSE IF Len(s) > 7 /\ SubSeq(s, 1, 8) = NTLMSSP THEN [from |-> 0, len |-> Len(s), mechs |-> {}]
  ELSE IF s[1] = GssApi THEN smb2_spnego_unwrap_gssapi(s)
  ELSE IF s[1] \in {ASN1_CONTEXT(n) : n \in 0 .. 2} THEN smb2_spnego_unwrap_targ(s)
  ELSE NoToken(-22)
=============================================================================

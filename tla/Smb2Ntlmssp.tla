---------------------------- MODULE Smb2Ntlmssp ----------------------------
(***************************************************************************)
(* The authentication of lib/ntlmssp.c: the three messages, on both sides. *)
(* What is hashed is a term: a record that says of what and under which    *)
(* key, so that two results are equal when they were made of the same      *)
(* things.  A token is its bytes, of which only the head and the length    *)
(* matter to the envelope, and what its fields mean.                       *)
(***************************************************************************)
EXTENDS Smb2Spnego

None == "none"                                  \* a string that is NULL
Empty == ""

\* The values of keys and of what goes into them.
Zero == [zero |-> TRUE]                         \* a field that calloc left
MD4(x) == [md4 |-> x]
HMAC(key, x) == [hmac |-> key, over |-> x]

NEGOTIATE_MESSAGE == 1
CHALLENGE_MESSAGE == 2
AUTHENTICATION_MESSAGE == 3
HeadLen == 12                                   \* the name and the type
Token(type, len, means) ==
  [bytes |-> NTLMSSP \o <<type, 0, 0, 0>> \o [i \in 1 .. len - HeadLen |-> 0], means |-> means]

\* struct auth_data, as ntlmssp_init_context makes it.
ntlmssp_init_context(user, password, domain, workstation) ==
  [user |-> user, password |-> password, domain |-> domain, workstation |-> workstation,
   wrap |-> FALSE, ok |-> FALSE, target |-> None, info |-> <<>>, exported_session_key |-> Zero]

\* The length of a name in a message.
NameLen(n) == IF n \in {None, Empty} THEN 0 ELSE 2 * 8
InfoLen(info) == (20 * Len(info)) + 4           \* each attribute, and the end of the list

encode_ntlm_negotiate_message == Token(NEGOTIATE_MESSAGE, 32, [from |-> "client"])

\* The challenge is the same every time; the names are the host's.
encode_ntlm_challenge(auth) ==
  LET host == auth.workstation
      info == IF host = None THEN <<"time">> ELSE <<host, host, "dns", host, "time">>
  IN Token(CHALLENGE_MESSAGE, 56 + NameLen(host) + InfoLen(info),
           [challenge |-> "12345678", target |-> host, info |-> info])

\* The names of the server are taken, and its own name added to the attributes.
ntlm_decode_challenge_message(auth, server, means) ==
  [auth EXCEPT !.target = IF NameLen(means.target) = 0 THEN @ ELSE means.target,
               !.info = IF means.info = <<>> THEN <<>> ELSE Append(means.info, server)]

\* A password that is given as its hash is not hashed again.
NTOWFv1(password) == MD4(password)
ntlm_convert_password_hash(password) == password.ntlm
NTOWFv2(user, password, domain) ==
  HMAC(IF "ntlm" \in DOMAIN password THEN ntlm_convert_password_hash(password) ELSE NTOWFv1(password),
       <<[upper |-> user], domain>>)

encode_temp(challenge, client_challenge, info) == <<challenge, client_challenge, info>>

\* smb2 holds the password and the domain, which may be known since the challenge.
\* Without a password nothing is proved and no key made.
encode_ntlm_auth(smb2, auth, means) ==
  LET temp == encode_temp(means.challenge, "client", auth.info)
      key == NTOWFv2(auth.user, smb2.password, smb2.domain)
      proof == HMAC(key, temp)
      anonymous == smb2.password = Zero
  IN [auth |-> [auth EXCEPT !.password = smb2.password, !.domain = smb2.domain,
                            !.exported_session_key = IF anonymous THEN @ ELSE HMAC(key, proof)],
      token |->
        IF anonymous
        THEN Token(AUTHENTICATION_MESSAGE, 72,
               [user |-> None, domain |-> None, workstation |-> None, response |-> <<>>])
        ELSE Token(AUTHENTICATION_MESSAGE,
               72 + NameLen(smb2.domain) + NameLen(auth.user) + NameLen(auth.workstation) + 44
                  + InfoLen(auth.info),
               [user |-> auth.user, domain |-> smb2.domain, workstation |-> auth.workstation,
                response |-> <<proof, temp>>])]

\* A name of length 0 is none.
ntlmssp_get_utf16_field(name) == IF name = Empty THEN None ELSE name

(***************************************************************************)
(* The server's side of the last message.  The handler is asked for the    *)
(* user and may set a password; the password is wiped once it was used.    *)
(***************************************************************************)
authorize_user(server, smb2, user) ==
  CASE server.users = "refused" -> [ok |-> FALSE, smb2 |-> smb2]
    [] server.users = "known" -> [ok |-> TRUE, smb2 |-> [smb2 EXCEPT !.password = server.password]]
    [] OTHER -> [ok |-> TRUE, smb2 |-> smb2]

ntlmssp_authenticate_blob_unproved(server, smb2, auth, means) ==
  LET asked == authorize_user(server, [smb2 EXCEPT !.user = means.user], means.user)
  IN [smb2 |-> asked.smb2, auth |-> [auth EXCEPT !.ok = asked.ok]]
ntlmssp_authenticate_blob(server, smb2, auth, means) ==
  LET user == ntlmssp_get_utf16_field(means.user)
      domain == ntlmssp_get_utf16_field(means.domain)
      known == [smb2 EXCEPT !.user = user, !.domain = domain]
      asked == authorize_user(server, known, user)
      named == [auth EXCEPT !.user = user, !.domain = domain,
                            !.workstation = ntlmssp_get_utf16_field(means.workstation)]
      key == NTOWFv2(user, asked.smb2.password, domain)
      proof == HMAC(key, means.response[2])
      Ends(ok, s, a) == [smb2 |-> s, auth |-> [a EXCEPT !.ok = ok]]
  IN IF ~asked.ok \/ (asked.smb2.password = Zero /\ ~server.allow_anonymous)
     THEN Ends(FALSE, asked.smb2, named)
     ELSE IF user = None \/ asked.smb2.password \in {Zero, [password |-> Empty]}
     THEN Ends(server.allow_anonymous, asked.smb2, named)
     ELSE IF means.response = <<>> THEN Ends(FALSE, asked.smb2, named)
     ELSE IF proof # means.response[1]
     THEN Ends(FALSE, [asked.smb2 EXCEPT !.password = [password |-> Empty]], named)
     ELSE Ends(TRUE, [asked.smb2 EXCEPT !.password = [password |-> Empty]],
               [named EXCEPT !.exported_session_key = HMAC(key, proof)])

ntlmssp_get_session_key(auth) == auth.exported_session_key

\* Takes the envelope off; a type of 0 is a refusal.
ntlmssp_get_message_type(blob) ==
  LET HeadOf(found, token) ==
        IF found.len < HeadLen \/ SubSeq(token, 1, 7) # SubSeq(NTLMSSP, 1, 7)
        THEN [type |-> 0, wrapped |-> FALSE]
        ELSE [type |-> token[9], wrapped |-> found.from # 0]
      In(found) == HeadOf(found, SubSeq(blob.bytes, found.from + 1, found.from + found.len))
  IN In(smb2_spnego_unwrap_blob(blob.bytes))

\* The tokens there are, by type: how long they can be, and the envelope of each.
LengthsOf(type) ==
  CASE type = NEGOTIATE_MESSAGE -> {32}
    [] type = CHALLENGE_MESSAGE -> {56 + 24, 56 + 104, 72 + 104}
    [] type = AUTHENTICATION_MESSAGE -> {72} \cup {132 + n + i : n \in {0, 16, 32}, i \in {44, 124}}
EnvelopeOf(type, token) ==
  CASE type = NEGOTIATE_MESSAGE -> smb2_spnego_wrap_gssapi(token)
    [] type = CHALLENGE_MESSAGE -> smb2_spnego_wrap_ntlmssp_challenge(token)
    [] type = AUTHENTICATION_MESSAGE -> smb2_spnego_wrap_ntlmssp_auth(token)
BytesOf(type, len, wraps) ==
  LET token == Token(type, len, "").bytes IN IF wraps THEN EnvelopeOf(type, token) ELSE token

\* Every one of them is found, in its envelope or without: a finite set of bytes, and
\* no constant.
ASSUME EnvelopesAssumption ==
  \A type \in 1 .. 3 : \A len \in LengthsOf(type), wraps \in BOOLEAN :
    ntlmssp_get_message_type([bytes |-> BytesOf(type, len, wraps)]).type = type

(***************************************************************************)
(* One step of either side: the answer to a token, in an envelope if the   *)
(* token had one.  blob is NoBlob for the client's first step.             *)
(***************************************************************************)
NoBlob == [bytes |-> <<>>, means |-> [from |-> "nobody"]]
Answer(ok, smb2, auth, blob) == [ok |-> ok, smb2 |-> smb2, auth |-> auth, blob |-> blob]
Wrapped_cut(token, envelope, auth) ==
  IF auth.wrap THEN [token EXCEPT !.bytes = SubSeq(envelope, 1, Len(token.bytes))] ELSE token
Wrapped(token, envelope, auth) ==
  IF auth.wrap THEN [token EXCEPT !.bytes = envelope] ELSE token

ClientAnswers(smb2, auth, blob, type) ==
  LET decoded == ntlm_decode_challenge_message(auth, smb2.server, blob.means)
      learns == decoded.domain = None /\ decoded.target # None
      known == IF learns THEN [smb2 EXCEPT !.domain = decoded.target] ELSE smb2
      made == encode_ntlm_auth(known, decoded, blob.means)
  IN IF type # CHALLENGE_MESSAGE THEN Answer(FALSE, smb2, auth, NoBlob)
     ELSE IF known.password # Zero /\ auth.user = None THEN Answer(FALSE, known, made.auth, NoBlob)
     ELSE Answer(TRUE, known, made.auth,
            Wrapped(made.token, smb2_spnego_wrap_ntlmssp_auth(made.token.bytes), made.auth))

\* Without an envelope the answer to the last message is empty.
ServerAnswers(server, smb2, auth, blob, type) ==
  LET judged == ntlmssp_authenticate_blob(server, smb2, auth, blob.means)
      challenge == encode_ntlm_challenge(auth)
  IN CASE type = NEGOTIATE_MESSAGE ->
            Answer(TRUE, smb2, auth,
              Wrapped(challenge, smb2_spnego_wrap_ntlmssp_challenge(challenge.bytes), auth))
       [] type = AUTHENTICATION_MESSAGE ->
            Answer(TRUE, judged.smb2, judged.auth,
              IF auth.wrap THEN [NoBlob EXCEPT !.bytes = smb2_spnego_wrap_authenticate_result(judged.auth.ok)]
              ELSE NoBlob)
       [] OTHER -> Answer(FALSE, smb2, auth, NoBlob)

Answers(server, smb2, auth, blob, head, is_server) ==
  LET opened == [auth EXCEPT !.wrap = @ \/ head.wrapped]
  IN CASE head.type = 0 -> Answer(FALSE, smb2, auth, NoBlob)
       [] head.type # 0 /\ is_server -> ServerAnswers(server, smb2, opened, blob, head.type)
       [] OTHER -> ClientAnswers(smb2, opened, blob, head.type)
ntlmssp_generate_blob(server, smb2, auth, blob, is_server) ==
  LET first == encode_ntlm_negotiate_message
  IN CASE blob = NoBlob /\ is_server -> Answer(FALSE, smb2, auth, NoBlob)
       [] blob = NoBlob /\ ~is_server ->
            Answer(TRUE, smb2, auth, Wrapped(first, smb2_spnego_wrap_gssapi(first.bytes), auth))
       [] OTHER -> Answers(server, smb2, auth, blob, ntlmssp_get_message_type(blob), is_server)
=============================================================================

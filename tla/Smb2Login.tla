----------------------------- MODULE Smb2Login -----------------------------
(***************************************************************************)
(* A client of lib/libsmb2.c that connects to a share, and the server of   *)
(* the same library: NEGOTIATE, two SESSION_SETUPs and TREE_CONNECT, each  *)
(* the callback of the one before.  The two sides must come to the same    *)
(* dialect, to the same answer about signing and to the same keys, which   *)
(* since 3.1.1 hang on a hash of everything that was said; and whatever    *)
(* fails, the caller must be told once and what was allocated for the      *)
(* connection freed.                                                       *)
(* smb2 is a context, of either side; its fields have the names of the     *)
(* source.  The socket is two sequences; losing it ends both sides.        *)
(***************************************************************************)
EXTENDS Smb2Ntlmssp, FiniteSetsExt

CONSTANTS Parties,    \* what the two sides are set to: records [client, server]
          MaxFaults   \* how often an allocation fails, or a wait times out
ASSUME FaultsAssumption == MaxFaults \in Nat

SMB2_VERSION_0202 == 514
SMB2_VERSION_0210 == 528
SMB2_VERSION_0300 == 768
SMB2_VERSION_0302 == 770
SMB2_VERSION_0311 == 785
Versions == {"any", "any2", "any3", "0202", "0210", "0300", "0302", "0311"}
\* The switch in connect_cb, and the same one in smb2_negotiate_request_cb.
Dialects(version) ==
  CASE version = "any" -> <<SMB2_VERSION_0202, SMB2_VERSION_0210, SMB2_VERSION_0300, SMB2_VERSION_0302, SMB2_VERSION_0311>>
    [] version = "any2" -> <<SMB2_VERSION_0202, SMB2_VERSION_0210>>
    [] version = "any3" -> <<SMB2_VERSION_0300, SMB2_VERSION_0302, SMB2_VERSION_0311>>
    [] version = "0202" -> <<SMB2_VERSION_0202>>
    [] version = "0210" -> <<SMB2_VERSION_0210>>
    [] version = "0300" -> <<SMB2_VERSION_0300>>
    [] version = "0302" -> <<SMB2_VERSION_0302>>
    [] version = "0311" -> <<SMB2_VERSION_0311>>
\* What is given of a password: nothing, itself, or its hash.
IsPassword(p) ==
  \/ p = Zero
  \/ DOMAIN p = {"password"} /\ p = [password |-> p.password]
  \/ DOMAIN p = {"ntlm"} /\ p = [ntlm |-> p.ntlm]
ASSUME PartiesAssumption ==
  \A p \in Parties :
    /\ {p.client.version, p.server.version} \subseteq Versions
    /\ {p.client.seal, p.client.sign, p.client.wraps, p.server.seal} \subseteq BOOLEAN
    /\ {p.server.signing_enabled, p.server.allow_anonymous} \subseteq BOOLEAN
    /\ IsPassword(p.client.password) /\ IsPassword(p.server.password)

Encrypts(version) == version \notin {"any2", "0202", "0210"}

VARIABLES conf,       \* one of Parties
          client,     \* its context, and what it keeps of the connection it makes
          server,     \* the context the server keeps for this client
          c2s, s2c,   \* what is under way
          faults
loginVars == <<conf, client, server, c2s, s2c, faults>>

(***************************************************************************)
(* What both sides share: keys, signatures, the hash of the conversation.  *)
(***************************************************************************)
smb2_init_context(version, seal, sign, user, password, domain, name) ==
  [open |-> TRUE, version |-> version, seal |-> seal, sign |-> sign, dialect |-> 0, hash |-> <<>>,
   user |-> user, password |-> password, domain |-> domain, server |-> name,
   session_id |-> 0, session_key |-> <<>>, signing_key |-> Zero, serverin_key |-> Zero,
   serverout_key |-> Zero, auth |-> <<>>, next |-> "none", told |-> <<>>, c_data |-> "none",
   broken |-> FALSE]

smb2_close_context(smb2) ==
  [smb2 EXCEPT !.open = FALSE, !.session_id = 0, !.signing_key = Zero, !.session_key = <<>>]

\* The key is cut, or filled with zeroes, to its size.
smb2_derive_key(session_key, label, context) ==
  [derived |-> IF session_key = <<>> THEN Zero ELSE session_key[1], label |-> label, context |-> context]

smb2_create_signing_key(smb2) ==
  LET Old == smb2.dialect \in {SMB2_VERSION_0202, SMB2_VERSION_0210}
      K(label, context) == smb2_derive_key(smb2.session_key, label, context)
  IN IF Old
     THEN [smb2 EXCEPT !.signing_key = IF smb2.session_key = <<>> THEN @ ELSE smb2.session_key[1]]
     ELSE IF smb2.dialect <= SMB2_VERSION_0302
     THEN [smb2 EXCEPT !.signing_key = K("SMB2AESCMAC", <<"SmbSign">>),
                       !.serverin_key = K("SMB2AESCCM", <<"ServerIn ">>),
                       !.serverout_key = K("SMB2AESCCM", <<"ServerOut">>)]
     ELSE [smb2 EXCEPT !.signing_key = K("SMBSigningKey", smb2.hash),
                       !.serverin_key = K("SMBC2SCipherKey", smb2.hash),
                       !.serverout_key = K("SMBS2CCipherKey", smb2.hash)]

\* What was said so far, in order, by name.
smb3_init_preauth_hash(smb2) == [smb2 EXCEPT !.hash = <<>>]
smb3_update_preauth_hash(smb2, said) == [smb2 EXCEPT !.hash = Append(@, said)]

smb2_calc_signature(smb2) ==
  [mac |-> IF smb2.dialect > SMB2_VERSION_0210 THEN "cmac" ELSE "hmac", key |-> smb2.signing_key]

\* smb2_queue_pdu signs; before there is a session, and without a key, it does not.
smb2_pdu_add_signature(smb2, m, reply) ==
  IF \/ ~(smb2.sign \/ (m.command = "tree_connect" /\ smb2.dialect = SMB2_VERSION_0311 /\ ~smb2.seal))
     \/ m.command = "session_setup" /\ (~reply \/ m.status # "success")
     \/ smb2.session_id = 0 \/ smb2.session_key = <<>>
  THEN m ELSE [m EXCEPT !.signature = <<smb2_calc_signature(smb2)>>]

\* Both sides encrypt with the one key and decrypt with the other.
smb3_encrypt_pdu(smb2, m) ==
  IF smb2.seal /\ m.command \notin {"negotiate", "session_setup"}
  THEN [m EXCEPT !.sealed = <<smb2.serverin_key>>] ELSE m
smb3_decrypt_pdu(smb2, m) == m.sealed \in {<<>>, <<smb2.serverout_key>>}

Message(command, status, body) ==
  [command |-> command, status |-> status, body |-> body, signature |-> <<>>, sealed |-> <<>>]
smb2_queue_pdu(smb2, m, reply) == smb3_encrypt_pdu(smb2, smb2_pdu_add_signature(smb2, m, reply))

(***************************************************************************)
(* The client's callbacks.  Each takes the context and returns it with the *)
(* message it queues, if any.                                              *)
(***************************************************************************)
Does(smb2, sends) == [smb2 |-> smb2, sends |-> sends]
Sends(smb2, m, waits) == Does([smb2 EXCEPT !.next = waits], <<smb2_queue_pdu(smb2, m, FALSE)>>)

\* The end of every path: the caller's callback, and the data of the connection freed.
free_c_data(smb2) == [smb2 EXCEPT !.c_data = "freed", !.auth = <<>>]
Told_kept(smb2, status) == Does([smb2 EXCEPT !.told = Append(@, status), !.next = "none"], <<>>)
Told(smb2, status) ==
  Does(free_c_data([smb2 EXCEPT !.told = Append(@, status), !.next = "none"]), <<>>)
Fails(smb2, status) == Told(smb2_close_context(smb2), status)

tree_connect_cb_open(smb2, status) == Told(smb2, status)
tree_connect_cb(smb2, status) ==
  IF status # "success" THEN Fails(smb2, status) ELSE Told(smb2, "success")

\* The hash takes the request in only once it is queued.
SetupMade(smb2, made, blob, oom) ==
  LET with == [smb2 EXCEPT !.auth = <<made.auth>>, !.domain = made.smb2.domain]
      sent == Sends(with, Message("session_setup", "success", [blob |-> made.blob]), "session_setup")
  IN IF ~made.ok THEN Fails(with, "refused")
     ELSE IF oom THEN Fails(with, "no memory")
     ELSE [sent EXCEPT !.smb2 = smb3_update_preauth_hash(@, IF blob = NoBlob THEN "setup 1" ELSE "setup 2")]
send_session_setup_request(smb2, blob, oom) ==
  SetupMade(smb2, ntlmssp_generate_blob(<<>>, smb2, smb2.auth[1], blob, FALSE), blob, oom)

\* A reply that is not signed is taken; one that is must be so with the key.
WrongSignature_never(smb2, m) == FALSE
WrongSignature(smb2, m) == m.signature \notin {<<>>, <<smb2_calc_signature(smb2)>>}

session_setup_cb(smb2, m, oom) ==
  LET more == m.status = "more_processing"
      keyed == smb2.sign \/ smb2.seal \/ smb2.dialect = SMB2_VERSION_0311
      key == ntlmssp_get_session_key(smb2.auth[1])
      keys == smb2_create_signing_key([smb2 EXCEPT !.session_key = <<key>>])
      ready == IF keyed THEN keys ELSE smb2
  IN IF more THEN send_session_setup_request(smb3_update_preauth_hash(smb2, "setup 1 answered"), m.body.blob, oom)
     ELSE IF m.status # "success" THEN Fails(smb2, m.status)
     ELSE IF keyed /\ smb2.sign /\ key = Zero THEN Fails(smb2, "no key")
     ELSE IF keyed /\ WrongSignature(keys, m) THEN Told(keys, "wrong signature")
     ELSE IF conf.client.passthrough THEN Told(ready, "success")
     ELSE IF oom THEN Fails(ready, "no memory")
     ELSE Sends(ready, Message("tree_connect", "success", [blob |-> NoBlob]), "tree_connect")

negotiate_cb(smb2, m, oom) ==
  LET heard == smb3_update_preauth_hash(smb2, "negotiate answered")
      spoken == [heard EXCEPT !.dialect = m.body.dialect]
      agreed == [spoken EXCEPT !.sign = (@ \/ "required" \in m.body.mode) /\ ~smb2.seal]
      auth == ntlmssp_init_context(smb2.user, smb2.password, smb2.domain, "workstation")
      begun == [agreed EXCEPT !.auth = <<[auth EXCEPT !.wrap = conf.client.wraps]>>]
  IN IF m.status # "success" THEN Fails(heard, m.status)
     ELSE IF smb2.seal /\ m.body.dialect \in {SMB2_VERSION_0300, SMB2_VERSION_0302} /\ ~m.body.encrypts
     THEN Fails(spoken, "no encryption")
     ELSE IF smb2.sign /\ "enabled" \notin m.body.mode THEN Fails(spoken, "no signing")
     ELSE send_session_setup_request(begun, NoBlob, oom)

connect_cb(smb2, connected, oom) ==
  LET begun == smb3_init_preauth_hash(smb2)
      sent == Sends(begun, Message("negotiate", "success",
                [dialects |-> Dialects(smb2.version), encrypts |-> Encrypts(smb2.version),
                 mode |-> conf.client.mode]), "negotiate")
  IN IF ~connected THEN Told(smb2, "not connected")
     ELSE IF oom THEN Told(begun, "no memory")
     ELSE [sent EXCEPT !.smb2 = smb3_update_preauth_hash(@, "negotiate")]

(***************************************************************************)
(* The server's.  A reply that is written at once is freed before it is    *)
(* hashed: what the hash takes in is then not what was sent.               *)
(***************************************************************************)
ServerReplies_twice(smb2, m, atOnce, said, next) ==
  Does([smb2 EXCEPT !.next = next], <<smb2_queue_pdu(smb2, m, TRUE), smb2_queue_pdu(smb2, m, TRUE)>>)
ServerReplies(smb2, m, atOnce, said, next) ==
  LET sent == smb3_update_preauth_hash(smb2, IF atOnce THEN "freed" ELSE said)
  IN Does([sent EXCEPT !.next = next], <<smb2_queue_pdu(smb2, m, TRUE)>>)
Hangs_not(smb2) == Does(smb2, <<>>)
Hangs(smb2) == Does([smb2_close_context(smb2) EXCEPT !.next = "none"], <<>>)

\* The last of the client's dialects that is one of its own.
Common_first(smb2, dialects) ==
  LET Known == {i \in DOMAIN dialects : Contains(Dialects(smb2.version), dialects[i])}
  IN IF Known = {} THEN 0 ELSE dialects[Min(Known)]
Common(smb2, dialects) ==
  LET Known == {i \in DOMAIN dialects : Contains(Dialects(smb2.version), dialects[i])}
  IN IF Known = {} THEN 0 ELSE dialects[Max(Known)]

\* What the client requires; and from 2.1 and 3.1.1 on, a server that wants a user.
WillSign_ifOld(smb2, mode) ==
  /\ ~conf.server.allow_anonymous \/ smb2.password \notin {Zero, [password |-> Empty]}
  /\ smb2.dialect = SMB2_VERSION_0210 \/ smb2.dialect >= SMB2_VERSION_0311
WillSign(smb2, mode) ==
  \/ mode = "required"
  \/ /\ ~conf.server.allow_anonymous \/ smb2.password \notin {Zero, [password |-> Empty]}
     /\ smb2.dialect = SMB2_VERSION_0210 \/ smb2.dialect >= SMB2_VERSION_0311

smb2_negotiate_request_cb(smb2, m, atOnce) ==
  LET s == conf.server
      heard == smb3_update_preauth_hash(smb3_init_preauth_hash([smb2 EXCEPT !.dialect = Common(smb2, m.body.dialects)]),
                                        "negotiate")
      will_sign == WillSign(heard, m.body.mode)
      agreed == [heard EXCEPT !.sign = ~smb2.seal /\ (@ \/ will_sign)]
  IN IF heard.dialect = 0 THEN Hangs(smb2)
     ELSE IF smb2.seal /\ heard.dialect \in {SMB2_VERSION_0300, SMB2_VERSION_0302} /\ ~m.body.encrypts
     THEN Hangs(heard)
     ELSE IF ~smb2.seal /\ will_sign /\ ~s.signing_enabled THEN Hangs(heard)
     ELSE ServerReplies(agreed,
            Message("negotiate", "success",
              [dialect |-> heard.dialect, encrypts |-> Encrypts(smb2.version),
               mode |-> {x \in {"enabled"} : s.signing_enabled} \cup {x \in {"required"} : agreed.sign}]),
            atOnce, "negotiate answered", "session_setup")

Guest(smb2) ==
  conf.server.allow_anonymous
  /\ (smb2.user \in {None, Empty} \/ smb2.password \in {Zero, [password |-> Empty]})

\* The token was answered, with an authentication that is over or goes on.
SetupAnswered(smb2, made, first, atOnce) ==
  LET s == conf.server
      with == [made.smb2 EXCEPT !.auth = <<made.auth>>]
      judged == IF first THEN with ELSE [with EXCEPT !.session_key = <<ntlmssp_get_session_key(made.auth)>>]
      keyed == IF judged.sign THEN smb2_create_signing_key(judged) ELSE judged
      M(status) == Message("session_setup", status, [blob |-> made.blob, guest |-> Guest(keyed)])
  IN IF ~made.ok THEN Hangs(smb2)
     ELSE IF first THEN ServerReplies(keyed, M("more_processing"), atOnce, "setup 1 answered", "session_setup")
     ELSE IF ~made.auth.ok THEN ServerReplies(keyed, M("logon_failure"), atOnce, "setup 2 answered", "session_setup")
     ELSE IF s.session = "failing" THEN Hangs(keyed)
     ELSE IF s.session = "missing"
     THEN ServerReplies(keyed, M("not_implemented"), atOnce, "setup 2 answered", "anything")
     ELSE ServerReplies(keyed, M("success"), atOnce, "setup 2 answered", "anything")

SetupOfType(smb2, m, type, atOnce) ==
  LET s == conf.server
      first == type = NEGOTIATE_MESSAGE
      heard == smb3_update_preauth_hash(smb2, IF first THEN "setup 1" ELSE "setup 2")
      begun == IF first
               THEN [heard EXCEPT !.auth = <<ntlmssp_init_context(Empty, [password |-> Empty], Empty, s.hostname)>>,
                                  !.session_id = 4660]
               ELSE heard
  IN IF type \notin {NEGOTIATE_MESSAGE, AUTHENTICATION_MESSAGE} THEN Hangs(heard)
     ELSE SetupAnswered(begun, ntlmssp_generate_blob(s, begun, begun.auth[1], m.body.blob, TRUE), first, atOnce)
smb2_session_setup_request_cb(smb2, m, atOnce) ==
  SetupOfType(smb2, m, ntlmssp_get_message_type(m.body.blob).type, atOnce)

tree_connect_request(smb2, share) ==
  Does(smb2, <<smb2_queue_pdu(smb2, Message("tree_connect", share, [blob |-> NoBlob]), TRUE)>>)

(***************************************************************************)
(* The steps.                                                              *)
(***************************************************************************)
LoginInit ==
  /\ conf \in Parties
  /\ client = [smb2_init_context(conf.client.version, conf.client.seal, conf.client.sign, conf.client.user,
                                 conf.client.password, None, "AniShelf") EXCEPT !.open = FALSE]
  /\ server = [smb2_init_context(conf.server.version, conf.server.seal, FALSE, "login name", Zero, None, None)
                 EXCEPT !.open = FALSE]
  /\ c2s = <<>> /\ s2c = <<>> /\ faults = 0

\* What a callback of the client did: a closed client takes nothing more from the socket.
ClientDid(d, rest) ==
  /\ client' = d.smb2
  /\ c2s' = c2s \o d.sends
  /\ s2c' = IF d.smb2.open THEN rest ELSE <<>>
  /\ UNCHANGED <<conf, server>>
MayFail(oom) == IF oom THEN faults < MaxFaults /\ faults' = faults + 1 ELSE UNCHANGED faults

\* A user that is not set leaves the data of the connection behind.
smb2_connect_share_async ==
  /\ client.c_data = "none"
  /\ \E oom \in BOOLEAN :
       /\ MayFail(oom)
       /\ client' = IF client.user = None THEN [client EXCEPT !.c_data = "lost"]
                    ELSE IF oom THEN [client EXCEPT !.c_data = "refused"]
                    ELSE [client EXCEPT !.c_data = "held", !.next = "connect"]
  /\ UNCHANGED <<conf, server, c2s, s2c>>

Connected ==
  /\ client.next = "connect"
  /\ \E ok, oom \in BOOLEAN :
       LET d == connect_cb([client EXCEPT !.open = ok], ok, ok /\ oom)
       IN /\ MayFail(ok /\ oom)
          /\ client' = d.smb2 /\ c2s' = d.sends
          /\ server' = IF ok THEN [server EXCEPT !.open = TRUE, !.next = "negotiate"] ELSE server
  /\ UNCHANGED <<conf, s2c>>

ClientCanRead == client.open /\ ~client.broken /\ s2c # <<>> /\ client.next # "none"
ClientReads ==
  /\ ClientCanRead
  /\ \E oom \in BOOLEAN :
       LET m == Head(s2c)
       IN IF ~smb3_decrypt_pdu(client, m)
          THEN ~oom /\ UNCHANGED faults /\ ClientDid(Does([client EXCEPT !.broken = TRUE], <<>>), Tail(s2c))
          ELSE /\ MayFail(oom)
               /\ ClientDid(CASE client.next = "negotiate" -> negotiate_cb(client, m, oom)
                              [] client.next = "session_setup" -> session_setup_cb(client, m, oom)
                              [] client.next = "tree_connect" -> tree_connect_cb(client, m.status),
                            Tail(s2c))

\* The connection is lost, or the callback never comes: what waits is told so.
GivenUp(status) ==
  LET over == Message("none", status, [dialect |-> 0])
  IN /\ ClientDid(CASE client.next = "connect" -> connect_cb(client, FALSE, FALSE)
                    [] client.next = "negotiate" -> negotiate_cb(client, over, FALSE)
                    [] client.next = "session_setup" -> session_setup_cb(client, over, FALSE)
                    [] client.next = "tree_connect" -> tree_connect_cb(client, status),
                  <<>>)
     /\ UNCHANGED faults
smb2_destroy_context_connecting == client.next # "none" /\ GivenUp("shutdown")
smb2_timeout_pdus == client.next \notin {"none", "connect"} /\ GivenUp("timeout")
\* smb2_service fails, and the caller destroys the context.
ServiceMustFail == client.next # "none" /\ (client.broken \/ (client.open /\ ~server.open /\ s2c = <<>>))
ServiceFails ==
  /\ ServiceMustFail
  /\ GivenUp("shutdown")

ServerDid(d, rest) ==
  /\ server' = d.smb2
  /\ s2c' = IF client.open THEN s2c \o d.sends ELSE <<>>
  /\ c2s' = rest
  /\ UNCHANGED <<conf, client, faults>>

ServerCanRead == server.open /\ c2s # <<>>
ServerReads ==
  /\ ServerCanRead
  /\ \E atOnce \in BOOLEAN, share \in {"success", "refused"} :
       LET m == Head(c2s)
       IN /\ m.command = "tree_connect" => atOnce
          /\ m.command # "tree_connect" => share = "success"
          /\ ServerDid(IF ~smb3_decrypt_pdu(server, m) THEN Hangs(server)
                       ELSE CASE m.command = "negotiate" -> smb2_negotiate_request_cb(server, m, atOnce)
                              [] m.command = "session_setup" -> smb2_session_setup_request_cb(server, m, atOnce)
                              [] m.command = "tree_connect" -> tree_connect_request(server, share),
                       Tail(c2s))

ServerSeesEnd ==
  /\ server.open /\ ~client.open /\ c2s = <<>>
  /\ server' = [smb2_close_context(server) EXCEPT !.next = "none"]
  /\ UNCHANGED <<conf, client, c2s, s2c, faults>>

ClientNext ==
  smb2_connect_share_async \/ Connected \/ ClientReads \/ ServiceFails \/ smb2_destroy_context_connecting \/ smb2_timeout_pdus
ServerNext == ServerReads \/ ServerSeesEnd
LoginNext == ClientNext \/ ServerNext

LoginSpec == LoginInit /\ [][LoginNext]_loginVars
\* Both sides run their loops, a connect has an outcome, and a caller whose
\* smb2_service has failed gives the context up: weak fairness of four actions,
\* with what enables each written out.
FairSpec ==
  /\ LoginSpec
  /\ <>[](client.next = "connect") => []<><<Connected>>_loginVars
  /\ <>[]ClientCanRead => []<><<ClientReads>>_loginVars
  /\ <>[]ServiceMustFail => []<><<ServiceFails>>_loginVars
  /\ <>[]ServerCanRead => []<><<ServerReads>>_loginVars

(***************************************************************************)
(* Correctness.                                                            *)
(***************************************************************************)
Commands == {"negotiate", "session_setup", "tree_connect"}
LoginStatuses ==
  {"success", "more_processing", "logon_failure", "not_implemented", "refused", "shutdown", "timeout",
   "no memory", "no key", "wrong signature", "no encryption", "no signing", "not connected"}
MessageOk(m) ==
  /\ m.command \in Commands /\ m.status \in LoginStatuses
  /\ Len(m.signature) <= 1 /\ Len(m.sealed) <= 1
ContextOk(smb2) ==
  /\ smb2.open \in BOOLEAN /\ smb2.seal \in BOOLEAN /\ smb2.sign \in BOOLEAN /\ smb2.broken \in BOOLEAN
  /\ smb2.dialect = 0 \/ Contains(Dialects("any"), smb2.dialect)
  /\ smb2.next \in Commands \cup {"none", "connect", "anything"}
  /\ smb2.c_data \in {"none", "held", "freed", "refused", "lost"}
  /\ \A i \in DOMAIN smb2.told : smb2.told[i] \in LoginStatuses
  /\ Len(smb2.session_key) <= 1 /\ Len(smb2.auth) <= 1

LoginTypeOK ==
  /\ conf \in Parties /\ faults \in 0 .. MaxFaults
  /\ ContextOk(client) /\ ContextOk(server)
  /\ Len(c2s) <= 1 /\ Len(s2c) <= 1
  /\ \A i \in DOMAIN c2s : MessageOk(c2s[i])
  /\ \A i \in DOMAIN s2c : MessageOk(s2c[i])

\* Whatever happens on the way, the caller of smb2_connect_share_async is told
\* once, and exactly then what was allocated for the connection is freed.
ConnectToldOnce ==
  /\ Len(client.told) = (IF client.c_data = "freed" THEN 1 ELSE 0)
  /\ client.c_data = "held" <=> client.next # "none"
Is(status) == client.told = <<status>>

\* A caller that is told of a failure has no connection left: its context can
\* be used again.  Two failures leave it open: a reply with a wrong signature
\* (libsmb2.c:775-788), and no memory for the first message (libsmb2.c:1053).
LeavesItOpen == Is("wrong signature") \/ (Is("no memory") /\ client.hash = <<>>)
FailedIsClosed == client.told # <<>> /\ ~Is("success") /\ ~LeavesItOpen => ~client.open

\* The end of a connection: told once, with its data freed, and closed if it failed.
CallerIsTold == ConnectToldOnce /\ FailedIsClosed

\* Both sides go on with one dialect, the highest that both speak.
HighestCommon ==
  LET Ours == ToSet(Dialects(conf.client.version)) \cap ToSet(Dialects(conf.server.version))
  IN /\ client.dialect # 0 => client.dialect = Max(Ours)
     /\ Is("success") /\ server.open => server.dialect = client.dialect

\* Who is let in has proved the password, or the server lets anyone in and knows
\* no password for this user.  A password and its hash are as good as each other.
AsGood(p, q) == p = q \/ p = [ntlm |-> MD4(q)] \/ q = [ntlm |-> MD4(p)]
RightPassword ==
  LET c == conf.client
  IN /\ c.password # Zero /\ c.user # Empty
     /\ conf.server.users = "known" /\ AsGood(c.password, conf.server.password)
OnlyTheKnown ==
  Is("success") =>
    \/ RightPassword
    \/ /\ conf.server.allow_anonymous /\ conf.server.users # "refused"
       /\ conf.server.users = "known" =>
            \/ conf.client.password = Zero \/ conf.client.user = Empty
            \/ conf.server.password \in {Zero, [password |-> Empty]}

\* A client that requires signing is not told of success by a server that does
\* not sign, unless one of the two encrypts.
RequiredIsKept ==
  Is("success") /\ conf.client.mode = "required" =>
    conf.client.seal \/ conf.server.seal \/ (client.sign /\ (server.open => server.sign))

\* When both sides sign, they sign with one key, and not with an empty one.
KeysAgree ==
  Is("success") /\ client.sign /\ server.open /\ server.sign =>
    client.signing_key = server.signing_key /\ client.signing_key # Zero

\* What is in a security buffer is found in it, in an envelope or without.
TokensArrive ==
  /\ \A i \in DOMAIN c2s :
       c2s[i].command = "session_setup" =>
         ntlmssp_get_message_type(c2s[i].body.blob).type
           = IF "response" \in DOMAIN c2s[i].body.blob.means THEN AUTHENTICATION_MESSAGE ELSE NEGOTIATE_MESSAGE
  /\ \A i \in DOMAIN s2c :
       s2c[i].status = "more_processing" =>
         ntlmssp_get_message_type(s2c[i].body.blob).type = CHALLENGE_MESSAGE

\* The two sides of a login agree, on the dialect, on signing, on the key, and on
\* what the security buffers hold.
SidesAgree == LoginTypeOK /\ HighestCommon /\ RequiredIsKept /\ KeysAgree /\ TokensArrive

\* Every login comes to an end: the server answers or hangs up, and a client
\* that was hung up on is given up.
LoginEnds == client.next # "none" ~> client.next = "none"

(***************************************************************************)
(* Said of the code, and not so.                                           *)
(***************************************************************************)
\* libsmb2.h:358-360: !0 : require signing.
SignIsRequired == Is("success") /\ conf.client.sign /\ ~conf.client.seal /\ server.open => server.sign
\* Between two sides of this library no reply has a wrong signature.
SignaturesMatch == ~Is("wrong signature")
\* Only who has not proved a password is called a guest.
GuestsAreUnknown ==
  \A i \in DOMAIN s2c : s2c[i].command = "session_setup" /\ s2c[i].status = "success" /\ RightPassword
                         => ~s2c[i].body.guest
\* A client that asks for encryption is served.
SealedIsServed == client.next = "tree_connect" /\ client.seal => server.open
\* The mechanisms in the server's own NEGOTIATE reply can be read.
MechanismsAreRead ==
  smb2_spnego_unwrap_gssapi(smb2_spnego_create_negotiate_reply_blob(TRUE)).mechs = {"ntlmssp"}
=============================================================================

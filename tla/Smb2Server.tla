----------------------------- MODULE Smb2Server -----------------------------
(***************************************************************************)
(* libsmb2 as a server (lib/libsmb2.c, smb2_serve_port and the request     *)
(* callbacks): one thread serves every client.  Each connection keeps the  *)
(* PDU its next request will be read into, whose callback says what is     *)
(* expected; requests wait in the waitqueue until their reply is queued    *)
(* (lib/pdu.c).  Clients are well behaved and pipeline their commands.     *)
(* Contents of requests and the bytes of a message are left out.           *)
(***************************************************************************)
EXTENDS Integers, Sequences, SequencesExt, FiniteSetsExt

CONSTANTS Clients,      \* who may connect, once each
          Commands,     \* the commands a client uses on a tree
          Returns,      \* [command -> SUBSET {-1, 0, 1}]: what the handlers return
          Negotiations, \* [Clients -> the ways a client negotiates]
          MaxMessages,  \* [Clients -> Nat]: how many requests a client makes
          Window,       \* how many of them it has unanswered
          MaxTrees,     \* SMB2_MAX_TREE_NESTING - 1
          Mischief      \* [Clients -> SUBSET {"leave", "cannot be accepted", "full", "again"}]

ASSUME ClientsAssumption == IsFiniteSet(Clients)
ASSUME CommandsAssumption ==
  Commands \subseteq {"CREATE", "CLOSE", "FLUSH", "READ", "WRITE", "LOCK", "ECHO", "CHANGE_NOTIFY",
                     "SET_INFO", "OPLOCK_BREAK", "IOCTL", "CANCEL", "QUERY_DIRECTORY", "QUERY_INFO"}
ASSUME ReturnsAssumption ==
  \A c \in Commands \cup {"LOGOFF", "TREE_CONNECT", "TREE_DISCONNECT", "established"} :
    Returns[c] \subseteq {-1, 0, 1} /\ Returns[c] # {}
\* The handlers of these two return 0 (smb2_server_jni.c 145-160): no log-off is refused,
\* and a tree is connected at once.
ASSUME HandlersAssumption == -1 \notin Returns["LOGOFF"] /\ 1 \notin Returns["TREE_CONNECT"]
ASSUME BoundsAssumption ==
  MaxMessages \in [Clients -> Nat] /\ Window \in Nat \ {0} /\ MaxTrees \in Nat \ {0}

VARIABLES context,   \* [Clients -> smb2_context]
          loop,      \* smb2_serve_port: what the last select found and is still to be served
          s_tree_id, \* the next tree id, of the whole process
          inbox,     \* [Clients -> what the socket holds for the server]
          client     \* [Clients -> what the client knows]

vars == <<context, loop, s_tree_id, inbox, client>>

NoPdu == [cb |-> "none", command |-> "none"]
NoTree == 0
Idle == [phase |-> "select", in |-> {}, out |-> {}, accept |-> FALSE]

\* smb2_allocate_pdu for the next request: the callback, and the command it is for.
NextPdu(cb, command) == [cb |-> cb, command |-> command]
ForNegotiate == NextPdu("negotiate", "NEGOTIATE")
ForSession == NextPdu("session", "SESSION_SETUP")
ForAnything == NextPdu("general", "TREE_CONNECT")

\* fd: none, in the backlog, open, closed, or gone with its context.
NewContext == [fd |-> "none", pdu |-> NoPdu, waitqueue |-> <<>>, outqueue |-> <<>>,
               sent |-> <<>>, tree_id |-> <<>>, tree_id_cur |-> 0, authenticated |-> FALSE]
NewClient == [stage |-> "new", asked |-> {}, held |-> {}, next_id |-> 0]

Init ==
  /\ context = [c \in Clients |-> NewContext] /\ client = [c \in Clients |-> NewClient]
  /\ inbox = [c \in Clients |-> <<>>]
  /\ loop = Idle /\ s_tree_id = 1

(***************************************************************************)
(* The trees a session has connected: a stack with a current one.          *)
(***************************************************************************)
Places(x, tree) == {i \in DOMAIN x.tree_id : x.tree_id[i] = tree}

SelectTree(x, tree) ==
  IF Places(x, tree) = {} THEN x ELSE [x EXCEPT !.tree_id_cur = Min(Places(x, tree))]

CurrentTree(x) == IF x.tree_id = <<>> THEN NoTree ELSE x.tree_id[x.tree_id_cur]

ConnectTree(x, tree) ==
  IF Len(x.tree_id) < MaxTrees
  THEN [x EXCEPT !.tree_id = Append(@, tree), !.tree_id_cur = Len(x.tree_id) + 1]
  ELSE x

Popped(x, tree) == Front(x.tree_id)
Without(x, tree) == RemoveAt(x.tree_id, Min(Places(x, tree)))
DisconnectTree(x, tree) ==
  IF Places(x, tree) = {} THEN x
  ELSE [x EXCEPT !.tree_id = Without(x, tree),
                 !.tree_id_cur = Min({@, Len(x.tree_id) - 1})]

(***************************************************************************)
(* Queueing a reply: smb2_correlate_reply finds its request.               *)
(***************************************************************************)
Rep(command, status) == [command |-> command, status |-> status]
NoRep == Rep("none", "none")

FirstWaiting(x, mid) == Min({i \in DOMAIN x.waitqueue : x.waitqueue[i].mid = mid})
IsWaiting(x, mid) == \E i \in DOMAIN x.waitqueue : x.waitqueue[i].mid = mid

\* A reply is on the tree of its request, whatever tree is the current one; one
\* that has been announced as pending carries the id of the announcement instead.
TreeOfReply(x, req, rep) ==
  IF rep.command = "TREE_CONNECT" THEN CurrentTree(x)
  ELSE IF req.async \/ rep.status = "PENDING" THEN NoTree ELSE req.tree

KeptWaiting(x, i) == [x EXCEPT !.waitqueue[i].async = TRUE]
Removed(x, i) == [x EXCEPT !.waitqueue = RemoveAt(@, i)]
Correlated(x, i, rep) ==
  IF rep.status = "PENDING" THEN [x EXCEPT !.waitqueue[i].async = TRUE] ELSE Removed(x, i)

\* The queue is written at once when it was empty; the socket may be full, and the
\* failure to write to a client that has left is not looked at.
AddToOutqueue(c, x, r) ==
  LET queued == [x EXCEPT !.outqueue = Append(@, r)]
      written == [x EXCEPT !.sent = Append(@, r)]
  IN IF x.outqueue # <<>> \/ x.fd # "open" \/ client[c].stage = "left" THEN {queued}
     ELSE IF "full" \in Mischief[c] THEN {queued, written} ELSE {written}

QueuePdu(c, x, mid, rep) ==
  IF rep = NoRep \/ (mid = 0 /\ rep.command # "NEGOTIATE") THEN {x}
  ELSE LET i == FirstWaiting(x, mid)
           r == [mid |-> mid, command |-> rep.command, status |-> rep.status,
                 tree |-> IF IsWaiting(x, mid) THEN TreeOfReply(x, x.waitqueue[i], rep)
                          ELSE NoTree]
       IN AddToOutqueue(c, IF IsWaiting(x, mid) THEN Correlated(x, i, rep) ELSE x, r)

smb2_close_context(x) == [x EXCEPT !.fd = "closed", !.tree_id = <<>>, !.tree_id_cur = 0]

(***************************************************************************)
(* The handlers' answers (smb2_<command>_request_cb).  A handler returns   *)
(* less than 0 for an error, 0 for a reply, more than 0 when it queues the *)
(* reply itself: at once an interim one, the real one later.               *)
(***************************************************************************)
ReplyOf(command, ret) ==
  IF ret < 0 THEN Rep(command, "NOT_IMPLEMENTED")
  ELSE IF ret = 0 THEN Rep(command, "SUCCESS") ELSE Rep(command, "PENDING")

smb2_logoff_request_cb(ret) == {ReplyOf("LOGOFF", ret)}
smb2_tree_connect_request_cb(ret) == {ReplyOf("TREE_CONNECT", ret)}
smb2_tree_disconnect_request_cb(ret) == {ReplyOf("TREE_DISCONNECT", ret)}
smb2_create_request_cb(ret) == {ReplyOf("CREATE", ret)}
smb2_close_request_cb(ret) == {ReplyOf("CLOSE", ret)}
smb2_flush_request_cb(ret) == {ReplyOf("FLUSH", ret)}
ReadAsWrite(ret) == {ReplyOf("WRITE", ret)}
smb2_read_request_cb(ret) == {ReplyOf("READ", ret)}
smb2_write_request_cb(ret) == {ReplyOf("WRITE", ret)}
smb2_lock_request_cb(ret) == {ReplyOf("LOCK", ret)}
smb2_echo_request_cb(ret) == {ReplyOf("ECHO", ret)}
smb2_change_notify_request_cb(ret) == {ReplyOf("CHANGE_NOTIFY", ret)}
smb2_set_info_request_cb(ret) == {ReplyOf("SET_INFO", ret)}

\* A failed break of an oplock is reported as a failed LOCK.
smb2_oplock_break_request_cb(ret) ==
  {IF ret < 0 THEN Rep("LOCK", "NOT_IMPLEMENTED") ELSE ReplyOf("OPLOCK_BREAK", ret)}

\* VALIDATE_NEGOTIATE_INFO is answered without asking the handler.
smb2_ioctl_request_cb(ret) == {Rep("IOCTL", "SUCCESS"), ReplyOf("IOCTL", ret)}

\* A cancel that works is not answered.
smb2_cancel_request_cb(ret) == {IF ret < 0 THEN ReplyOf("CANCEL", ret) ELSE NoRep}

\* An empty listing is its end; no data is information the server has not.
smb2_query_directory_request_cb(ret) ==
  {ReplyOf("QUERY_DIRECTORY", ret)}
  \cup (IF ret = 0 THEN {Rep("QUERY_DIRECTORY", "NO_MORE_FILES")} ELSE {})
smb2_query_info_request_cb(ret) ==
  {ReplyOf("QUERY_INFO", ret)} \cup (IF ret = 0 THEN {Rep("QUERY_INFO", "NOT_SUPPORTED")} ELSE {})

\* smb2_general_client_request_cb calls the callback of the command.
RepliesTo(command) ==
  UNION {CASE command = "LOGOFF" -> smb2_logoff_request_cb(ret)
           [] command = "TREE_CONNECT" -> smb2_tree_connect_request_cb(ret)
           [] command = "TREE_DISCONNECT" -> smb2_tree_disconnect_request_cb(ret)
           [] command = "CREATE" -> smb2_create_request_cb(ret)
           [] command = "CLOSE" -> smb2_close_request_cb(ret)
           [] command = "FLUSH" -> smb2_flush_request_cb(ret)
           [] command = "READ" -> smb2_read_request_cb(ret)
           [] command = "WRITE" -> smb2_write_request_cb(ret)
           [] command = "LOCK" -> smb2_lock_request_cb(ret)
           [] command = "ECHO" -> smb2_echo_request_cb(ret)
           [] command = "CHANGE_NOTIFY" -> smb2_change_notify_request_cb(ret)
           [] command = "SET_INFO" -> smb2_set_info_request_cb(ret)
           [] command = "OPLOCK_BREAK" -> smb2_oplock_break_request_cb(ret)
           [] command = "IOCTL" -> smb2_ioctl_request_cb(ret)
           [] command = "CANCEL" -> smb2_cancel_request_cb(ret)
           [] command = "QUERY_DIRECTORY" -> smb2_query_directory_request_cb(ret)
           [] command = "QUERY_INFO" -> smb2_query_info_request_cb(ret)
           [] OTHER -> {NoRep} : ret \in Returns[command]}

(***************************************************************************)
(* Reading a request (smb2_read_data).  The header selects the tree and,   *)
(* after the session has been set up, the command the PDU is decoded as.   *)
(***************************************************************************)
NoTreeCommands == {"NEGOTIATE", "SMB1_NEGOTIATE", "SESSION_SETUP", "LOGOFF", "ECHO", "TREE_CONNECT"}
BeforeSession == {"NEGOTIATE", "SMB1_NEGOTIATE", "SESSION_SETUP"}

UnselectedTree(x, req) == x
DecodeHeader(x, req) == IF req.command \in NoTreeCommands THEN x ELSE SelectTree(x, req.tree)
ReadAs(x, req) == IF req.command \in BeforeSession THEN x.pdu.command ELSE req.command

\* The request is put on the waitqueue for its reply to find.
Taken(x, req) ==
  [DecodeHeader(x, req) EXCEPT
     !.waitqueue = Append(@, [mid |-> req.mid, command |-> ReadAs(x, req), tree |-> req.tree,
                              async |-> FALSE])]

Serving(c) == loop.phase = "service" /\ c \in loop.in /\ context[c].fd = "open"
Request(c, cb) == /\ Serving(c) /\ inbox[c] # <<>> /\ context[c].pdu.cb = cb
                  /\ inbox' = [inbox EXCEPT ![c] = Tail(@)]
\* The callback ends and smb2->pdu becomes the PDU it has allocated for the next request.
Becomes(c, xs, next) == \E x \in xs : context' = [context EXCEPT ![c] = [x EXCEPT !.pdu = next]]

\* Another command than the PDU was read as has another size: it is refused.
IsRead(x, req) == ReadAs(x, req) = req.command \/ req.command = "SMB1_NEGOTIATE"

Misread(c) ==
  /\ Serving(c) /\ inbox[c] # <<>> /\ ~IsRead(context[c], Head(inbox[c]))
  /\ inbox' = [inbox EXCEPT ![c] = Tail(@)]
  /\ Becomes(c, {smb2_close_context(context[c])}, context[c].pdu)
  /\ UNCHANGED <<loop, s_tree_id, client>>

\* smb2_negotiate_request_cb: a list without dialects is an error to try again after,
\* an SMB1 negotiation is answered with the wildcard and followed by another.
NoNextPdu == NoPdu
AfterNoDialects == ForNegotiate
NegotiateRequest(c) ==
  /\ Request(c, "negotiate") /\ IsRead(context[c], Head(inbox[c]))
  /\ LET req == Head(inbox[c])
         x == Taken(context[c], req)
         answer(status) == QueuePdu(c, x, req.mid, Rep("NEGOTIATE", status))
     IN \/ req.body = "dialects" /\ Becomes(c, answer("SUCCESS"), ForSession)
        \/ req.body = "no dialects" /\ Becomes(c, answer("INVALID_PARAMETER"), AfterNoDialects)
        \/ req.body = "SMB1" /\ Becomes(c, answer("WILDCARD"), ForNegotiate)
        \/ req.body = "other dialects" /\ Becomes(c, {smb2_close_context(x)}, NoPdu)
  /\ UNCHANGED <<loop, s_tree_id, client>>

\* smb2_session_setup_request_cb: the challenge, then what authenticates the user.
\* A wrong password leaves the session to be set up; session_established may refuse.
StaysOpen == ForAnything
AfterWrongPassword == ForSession
SessionSetupRequest(c) ==
  /\ Request(c, "session") /\ IsRead(context[c], Head(inbox[c]))
  /\ LET req == Head(inbox[c])
         x == Taken(context[c], req)
         known == [x EXCEPT !.authenticated = TRUE]
         answer(y, status) == QueuePdu(c, y, req.mid, Rep("SESSION_SETUP", status))
     IN \/ /\ req.body = "NEGOTIATE_MESSAGE"
           /\ Becomes(c, answer([x EXCEPT !.authenticated = FALSE], "MORE_PROCESSING_REQUIRED"),
                      ForSession)
        \/ req.body = "wrong password" /\ Becomes(c, answer(x, "LOGON_FAILURE"), AfterWrongPassword)
        \/ /\ req.body = "AUTHENTICATION_MESSAGE"
           /\ \E ret \in Returns["established"] :
                \/ ret = 0 /\ Becomes(c, answer(known, "SUCCESS"), ForAnything)
                \/ ret < 0 /\ Becomes(c, answer(known, "NOT_IMPLEMENTED"), ForAnything)
                \/ ret > 0 /\ Becomes(c, {smb2_close_context(known)}, ForAnything)
  /\ UNCHANGED <<loop, s_tree_id, client>>

\* smb2_general_client_request_cb.  A tree is connected before its reply is queued,
\* and disconnected after it; a session that logs off is to be set up again.
NoLogoff(command) == ForAnything
AfterLogoff(command) == IF command = "LOGOFF" THEN ForSession ELSE ForAnything
GeneralRequest(c) ==
  /\ Request(c, "general") /\ IsRead(context[c], Head(inbox[c]))
  /\ \E rep \in RepliesTo(Head(inbox[c]).command) :
       LET req == Head(inbox[c])
           connects == rep = Rep("TREE_CONNECT", "SUCCESS")
           x == Taken(context[c], req)
           y == IF connects THEN ConnectTree(x, s_tree_id) ELSE x
           zs == QueuePdu(c, y, req.mid, rep)
       IN /\ s_tree_id' = IF connects THEN s_tree_id + 1 ELSE s_tree_id
          /\ Becomes(c, IF req.command = "TREE_DISCONNECT"
                        THEN {DisconnectTree(z, req.tree) : z \in zs} ELSE zs,
                     AfterLogoff(req.command))
  /\ UNCHANGED <<loop, client>>

\* A handler that returned more than 0 queues the reply when it has it.
ReplyLater(c) ==
  /\ context[c].fd = "open"
  /\ \E i \in DOMAIN context[c].waitqueue :
       LET req == context[c].waitqueue[i]
       IN /\ req.async
          /\ Becomes(c, QueuePdu(c, context[c], req.mid, Rep(req.command, "SUCCESS")), context[c].pdu)
  /\ UNCHANGED <<loop, s_tree_id, inbox, client>>

(***************************************************************************)
(* smb2_serve_port: select, then serve every socket it reported, then      *)
(* accept, then destroy one context whose client is gone.                  *)
(***************************************************************************)
Open == {c \in Clients : context[c].fd = "open"}
Backlog == {c \in Clients : context[c].fd = "backlog"}
Readable == {c \in Open : inbox[c] # <<>> \/ client[c].stage = "left"}
OnlyReaders == {}
Writable == {c \in Open : context[c].outqueue # <<>>}

\* The culling is behind a select that found something.
Select ==
  /\ loop.phase = "select"
  /\ Readable # {} \/ Writable # {} \/ Backlog # {}
  /\ loop' = [phase |-> "service", in |-> Readable, out |-> Writable, accept |-> Backlog # {}]
  /\ UNCHANGED <<context, s_tree_id, inbox, client>>

\* smb2_read_from_socket goes on until the socket is empty, or the client gone.
ReadAgain(c) ==
  /\ loop.phase = "service" /\ c \in loop.in
  /\ context[c].fd # "open" \/ inbox[c] = <<>>
  /\ loop' = [loop EXCEPT !.in = @ \ {c}]
  /\ IF context[c].fd = "open" /\ client[c].stage = "left"
     THEN context' = [context EXCEPT ![c] = smb2_close_context(@)]
     ELSE UNCHANGED context
  /\ UNCHANGED <<s_tree_id, inbox, client>>

WriteOut(c) ==
  /\ loop.phase = "service" /\ c \in loop.out \ loop.in
  /\ loop' = [loop EXCEPT !.out = @ \ {c}]
  /\ LET x == context[c]
     IN IF x.fd # "open" THEN UNCHANGED context
        ELSE IF client[c].stage = "left" THEN context' = [context EXCEPT ![c] = smb2_close_context(@)]
        ELSE \E n \in (IF "full" \in Mischief[c] THEN Min({1, Len(x.outqueue)}) ELSE Len(x.outqueue))
                      ..Len(x.outqueue) :
               context' = [context EXCEPT
                 ![c].sent = @ \o SubSeq(x.outqueue, 1, n),
                 ![c].outqueue = SubSeq(x.outqueue, n + 1, Len(x.outqueue))]
  /\ UNCHANGED <<s_tree_id, inbox, client>>

Served == loop.phase = "service" /\ loop.in = {} /\ loop.out = {}
Destroyed == [NewContext EXCEPT !.fd = "gone"]

\* What accept_cb makes of a connection, and the request that is to come first.
Connection == [NewContext EXCEPT !.fd = "open", !.pdu = ForNegotiate]

Accept ==
  /\ Served
  /\ loop' = [loop EXCEPT !.phase = "cull", !.accept = FALSE]
  /\ IF loop.accept
     THEN \E c \in Backlog :
            context' = [context EXCEPT ![c] = Connection]
     ELSE UNCHANGED context
  /\ UNCHANGED <<s_tree_id, inbox, client>>

\* A connection that cannot be accepted, like the socket that nativeStop shuts down,
\* ends the loop and with it every connection.
AcceptFails ==
  /\ Served /\ loop.accept /\ \E c \in Backlog : "cannot be accepted" \in Mischief[c]
  /\ loop' = [Idle EXCEPT !.phase = "ended"]
  /\ context' = [c \in Clients |-> Destroyed]
  /\ UNCHANGED <<s_tree_id, inbox, client>>

Closed == {c \in Clients : context[c].fd = "closed"}
Cull ==
  /\ loop.phase = "cull"
  /\ loop' = Idle
  /\ IF Closed = {} THEN UNCHANGED context
     ELSE \E c \in Closed : context' = [context EXCEPT ![c] = Destroyed]
  /\ UNCHANGED <<s_tree_id, inbox, client>>

(***************************************************************************)
(* The clients.                                                            *)
(***************************************************************************)
Connect(c) ==
  /\ context[c].fd = "none" /\ loop.phase # "ended"
  /\ context' = [context EXCEPT ![c].fd = "backlog"]
  /\ UNCHANGED <<loop, s_tree_id, inbox, client>>

Send(c, command, tree, body) ==
  /\ context[c].fd \in {"backlog", "open"} /\ client[c].next_id < MaxMessages[c]
  /\ inbox' = [inbox EXCEPT
       ![c] = Append(@, [mid |-> client[c].next_id, command |-> command, tree |-> tree, body |-> body])]
  /\ client' = [client EXCEPT
       ![c].next_id = @ + 1,
       ![c].asked = @ \cup {[mid |-> client[c].next_id, command |-> command, tree |-> tree]},
       ![c].held = IF command = "TREE_DISCONNECT" THEN @ \ {tree} ELSE @]
  /\ UNCHANGED <<context, loop, s_tree_id>>

\* The login goes step by step.
LogIn(c) ==
  /\ client[c].asked = {}
  /\ \/ /\ client[c].stage = "new"
        /\ \E body \in Negotiations[c] :
             Send(c, IF body = "SMB1" THEN "SMB1_NEGOTIATE" ELSE "NEGOTIATE", NoTree, body)
     \/ client[c].stage = "negotiated" /\ Send(c, "SESSION_SETUP", NoTree, "NEGOTIATE_MESSAGE")
     \/ /\ client[c].stage = "challenged"
        /\ \E body \in {"AUTHENTICATION_MESSAGE", "wrong password"} :
             Send(c, "SESSION_SETUP", NoTree, body)

OnTree(command) == command \notin NoTreeCommands

\* A client that is logged in has several requests on the way.
Use(c) ==
  /\ client[c].stage = "in" /\ ~ \E r \in client[c].asked : r.command \in {"LOGOFF", "SESSION_SETUP"}
  /\ \/ /\ Cardinality(client[c].asked) < Window
        /\ \/ Send(c, "TREE_CONNECT", NoTree, "")
           \/ \E command \in Commands \ {"CANCEL"}, tree \in client[c].held \cup {NoTree} :
                OnTree(command) = (tree # NoTree) /\ Send(c, command, tree, "")
           \/ \E tree \in client[c].held : Send(c, "TREE_DISCONNECT", tree, "")
     \/ client[c].asked = {} /\ Send(c, "LOGOFF", NoTree, "")
     \/ /\ "again" \in Mischief[c] /\ client[c].asked = {}
        /\ Send(c, "SESSION_SETUP", NoTree, "again")          \* re-authentication

\* A cancel has the id of what it cancels, and no answer is expected.
Cancel(c) ==
  /\ "CANCEL" \in Commands /\ context[c].fd = "open" /\ client[c].stage = "in"
  /\ \E r \in client[c].asked :
       /\ r.command \in Commands /\ r.command # "CANCEL"
       /\ \A q \in ToSet(inbox[c]) \cup ToSet(context[c].waitqueue) : q.command # "CANCEL"  \* one
       /\ inbox' = [inbox EXCEPT
            ![c] = Append(@, [mid |-> r.mid, command |-> "CANCEL", tree |-> r.tree, body |-> ""])]
  /\ UNCHANGED <<context, loop, s_tree_id, client>>

StageAfter(c, rep) ==
  CASE rep.command = "NEGOTIATE" /\ rep.status = "SUCCESS" -> "negotiated"
    [] rep.command = "SESSION_SETUP" /\ rep.status = "MORE_PROCESSING_REQUIRED" -> "challenged"
    [] rep.command = "SESSION_SETUP" /\ rep.status = "SUCCESS" -> "in"
    [] rep.command = "SESSION_SETUP" /\ rep.status = "LOGON_FAILURE" -> "negotiated"
    [] rep.command = "LOGOFF" /\ rep.status = "SUCCESS" -> "negotiated"
    [] rep.command = "SESSION_SETUP" /\ rep.status = "NOT_IMPLEMENTED" -> "refused"
    [] OTHER -> client[c].stage

Receive(c) ==
  /\ context[c].sent # <<>> /\ client[c].stage # "left"
  /\ context' = [context EXCEPT ![c].sent = Tail(@)]
  /\ LET rep == Head(context[c].sent)
     IN client' = IF rep.status = "PENDING" THEN client
          ELSE [client EXCEPT
            ![c].asked = {r \in @ : r.mid # rep.mid},
            ![c].stage = StageAfter(c, rep),
            ![c].held = IF rep.command = "LOGOFF" THEN {}
                        ELSE IF rep.command = "TREE_CONNECT" /\ rep.status = "SUCCESS"
                             THEN @ \cup {rep.tree} ELSE @]
  /\ UNCHANGED <<loop, s_tree_id, inbox>>

Leave(c) ==
  /\ "leave" \in Mischief[c] /\ context[c].fd \in {"backlog", "open"} /\ client[c].stage # "left"
  /\ client' = [client EXCEPT ![c] = [NewClient EXCEPT !.stage = "left"]]
  /\ UNCHANGED <<context, loop, s_tree_id, inbox>>

Service(c) == \/ Misread(c) \/ NegotiateRequest(c) \/ SessionSetupRequest(c) \/ GeneralRequest(c)
              \/ ReadAgain(c) \/ WriteOut(c)
Serve == Select \/ (\E c \in Clients : Service(c)) \/ Accept \/ Cull

Next == \/ Serve \/ AcceptFails
        \/ \E c \in Clients : ReplyLater(c) \/ Connect(c) \/ LogIn(c) \/ Use(c) \/ Cancel(c)
                              \/ Receive(c) \/ Leave(c)

\* The thread of the server runs, handlers that promised a reply queue it, and
\* clients read what they get.  No client has to ask, and none has to leave.
Fairness == /\ WF_vars(Serve)
            /\ \A c \in Clients : WF_vars(ReplyLater(c)) /\ WF_vars(Receive(c))
Spec == Init /\ [][Next]_vars /\ Fairness

(***************************************************************************)
(* Properties.                                                             *)
(***************************************************************************)
Statuses == {"SUCCESS", "PENDING", "NOT_IMPLEMENTED", "NO_MORE_FILES", "NOT_SUPPORTED",
             "INVALID_PARAMETER", "WILDCARD", "MORE_PROCESSING_REQUIRED", "LOGON_FAILURE"}

\* The variables stay in the domains of their C types, and an open connection always
\* has a PDU to read the next request into.
TypeOK ==
  /\ \A c \in Clients :
       LET x == context[c]
       IN /\ x.fd \in {"none", "backlog", "open", "closed", "gone"}
          /\ x.fd = "open" => x.pdu \in {ForNegotiate, ForSession, ForAnything}
          /\ x.tree_id_cur \in 0..Len(x.tree_id) /\ (x.tree_id # <<>> => x.tree_id_cur > 0)
          /\ \A i \in DOMAIN x.outqueue : x.outqueue[i].status \in Statuses
  /\ loop.phase \in {"select", "service", "cull", "ended"}
  /\ loop.in \cup loop.out \subseteq Clients

Coming(c) == context[c].sent \o context[c].outqueue

\* Every reply answers a request the client is waiting for, with its id, its command
\* and its tree, however many requests are on the way on however many trees and in
\* whichever order they are answered.
RepliesAreTheirs ==
  \A c \in Clients : context[c].fd = "open" /\ client[c].stage # "left" =>
    \A i \in DOMAIN Coming(c) :
      LET rep == Coming(c)[i]
      IN rep.command # "CANCEL" =>
         \E r \in client[c].asked :
            /\ r.mid = rep.mid
            /\ r.command = rep.command \/ {r.command, rep.command} = {"SMB1_NEGOTIATE", "NEGOTIATE"}
               \/ (r.command = "OPLOCK_BREAK" /\ rep.command = "LOCK")
            /\ rep.tree \in {r.tree, NoTree} \/ rep.command = "TREE_CONNECT"

\* A request has one reply besides interim ones, which come before it.
OneReplyEach ==
  \A c \in Clients : \A i, j \in DOMAIN Coming(c) :
    i < j /\ Coming(c)[i].mid = Coming(c)[j].mid
      => Coming(c)[i].status = "PENDING" \/ "CANCEL" \in {Coming(c)[i].command, Coming(c)[j].command}

\* What the server reads a request as, and the callback it gives it to, agree with the
\* stage of the dialogue the client is in: its requests are never misread, but for a
\* second authentication in a session, see AuthenticatedAgain.
HandledAsItself ==
  \A c \in Clients : context[c].fd = "open" /\ inbox[c] # <<>> /\ Head(inbox[c]).body # "again" =>
    LET req == Head(inbox[c]) IN
    /\ IsRead(context[c], req)
    /\ context[c].pdu.cb = CASE req.command \in {"NEGOTIATE", "SMB1_NEGOTIATE"} -> "negotiate"
                             [] req.command = "SESSION_SETUP" -> "session"
                             [] OTHER -> "general"

\* Commands are only handled for a client that has been authenticated, a wrong
\* password after which the client could try again included.
ServedAfterLogin ==
  \A c \in Clients : context[c].fd = "open" /\ context[c].pdu.cb = "general" => context[c].authenticated

\* The trees a client holds are connected in its context, unless they have been nested
\* too deep; no client holds a tree of another.
TreesKept ==
  \A c \in Clients : context[c].fd = "open" /\ s_tree_id <= MaxTrees + 1 =>
    /\ client[c].held \subseteq ToSet(context[c].tree_id)
    /\ \A d \in Clients \ {c} : client[c].held \cap client[d].held = {}

\* Each request gets its reply: one, with its own id, command and tree.
EachHasItsReply == TypeOK /\ RepliesAreTheirs /\ OneReplyEach

\* Each request is handled at its stage of the dialogue, and with the trees its client
\* connected, whatever the requests before it have done to the context.
InItsTurn == HandledAsItself /\ ServedAfterLogin /\ TreesKept

\* While a command on a tree is handled the current tree, that handlers ask for, is
\* the one the request is on, not the one another request has left current.
OnItsTree ==
  [][\A c \in Clients :
       inbox[c] # <<>> /\ inbox'[c] = Tail(inbox[c]) /\ context'[c].fd = "open"
       /\ Head(inbox[c]).command \in Commands \ (NoTreeCommands \cup {"CANCEL"})
       /\ s_tree_id <= MaxTrees + 1
       => CurrentTree(context'[c]) = Head(inbox[c]).tree]_vars

\* Every request is answered, or its connection is closed: no reply is forgotten in
\* an outqueue and no client is starved by another.
RequestsAnswered ==
  \A c \in Clients : \A mid \in 0..(MaxMessages[c] - 1) :
    (\E r \in client[c].asked : r.mid = mid)
      ~> (~(\E r \in client[c].asked : r.mid = mid) \/ context[c].fd \in {"closed", "gone"})

\* A session may be authenticated again, as the case for it in
\* smb2_general_client_request_cb means: it is read like any other request.
AuthenticatedAgain ==
  \A c \in Clients : context[c].fd = "open" /\ inbox[c] # <<>> => IsRead(context[c], Head(inbox[c]))

\* A context whose client is gone is destroyed, although culling is behind a select
\* that has found something.
DeadAreAlwaysCulled == \A c \in Clients : context[c].fd = "closed" ~> context[c].fd = "gone"
=============================================================================

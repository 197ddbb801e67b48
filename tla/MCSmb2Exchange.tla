--------------------------- MODULE MCSmb2Exchange ---------------------------
(***************************************************************************)
(* Packets for Smb2Exchange: each command alone with all that its encoder  *)
(* tells apart, and chains of two and three of one form of each; plain and *)
(* sealed, between sides that pass through and that do not.                *)
(***************************************************************************)
EXTENDS Smb2Exchange

Context(passthrough, multi, version) ==
  [passthrough |-> passthrough, multi |-> multi, version |-> version,
   max_read_size |-> 70000, spl |-> 0, next_command |-> 0]
Plain == Context(FALSE, FALSE, 785)
Passing == Context(TRUE, TRUE, 785)

NoDescriptor == [owner |-> <<>>, group |-> <<>>, dacl |-> <<>>]
Sid(n) == [revision |-> 1, count |-> n]
Ace == [size |-> 24, kind |-> "simple", sid |-> Sid(2)]
Descriptor ==
  [owner |-> <<Sid(5)>>, group |-> <<Sid(2)>>,
   dacl |-> <<[revision |-> 2, size |-> 56, aces |-> <<Ace, Ace>>]>>]
R == [name |-> 6, context |-> 0, length |-> 8, channel_info |-> 0, data |-> 8, locks |-> 1,
      info |-> "basic", input |-> 0, output |-> 24, room |-> 200, class |-> "full",
      entries |-> <<6, 4>>, code |-> "validate_negotiate", dialects |-> <<514, 785>>,
      dialect |-> 785, security |-> 50, descriptor |-> NoDescriptor, sub |-> 6, print |-> 4]
C(command, r) == [command |-> command, status |-> "success", async |-> FALSE, r |-> r]

Lists == {<<>>, <<2>>, <<8, 2>>, <<6, 4, 10>>}
SomeRequests ==
  UNION {
    {C("create", [R EXCEPT !.name = n, !.context = k]) : n \in {0, 2, 6, 8, 10}, k \in {0, 8, 20}},
    {C("read", [R EXCEPT !.length = n, !.channel_info = k]) : n \in {1, 65536, 100000}, k \in {0, 5}},
    {C("write", [R EXCEPT !.length = n, !.channel_info = k]) : n \in {0, 1, 8, 100000}, k \in {0, 5}},
    {C("lock", [R EXCEPT !.locks = n]) : n \in 0 .. 3},
    {C("set_info", [R EXCEPT !.info = i, !.name = n]) :
       i \in {"basic", "end_of_file", "rename", "disposition"}, n \in {2, 6}},
    {C("negotiate", [R EXCEPT !.dialects = d]) : d \in {<<514>>, <<785>>, <<514, 528, 768, 770, 785>>}},
    {C("session_setup", [R EXCEPT !.security = n]) : n \in {0, 1, 16, 33}},
    {C("tree_connect", [R EXCEPT !.name = n]) : n \in {12, 14}},
    {C("query_directory", [R EXCEPT !.name = n, !.room = k]) : n \in {0, 2, 6}, k \in {100, 70000}},
    {C("query_info", R)},
    {C("ioctl", [R EXCEPT !.input = n]) : n \in {0, 1, 24}},
    {C(k, R) : k \in {"logoff", "tree_disconnect", "close", "flush", "echo", "change_notify",
                      "oplock_break", "lease_break"}}}
SomeReplies ==
  UNION {
    {C("create", [R EXCEPT !.context = k]) : k \in {0, 8, 20}},
    {C("read", [R EXCEPT !.data = n]) : n \in {0, 1, 7, 8, 20}},
    {C("negotiate", [R EXCEPT !.dialect = d, !.security = n]) : d \in {514, 785}, n \in {0, 38, 50}},
    {C("session_setup", [R EXCEPT !.security = n]) : n \in {0, 1, 16, 33}},
    {C("query_directory", [R EXCEPT !.class = k, !.entries = e, !.output = n]) :
       k \in {"full", "both"}, e \in Lists, n \in {0, 9}},
    {C("query_info", [R EXCEPT !.info = i, !.name = n, !.room = k]) :
       i \in Encodable, n \in {0, 2, 14}, k \in {8, 40, 200}},
    {C("query_info", [R EXCEPT !.info = "stream", !.entries = e]) : e \in Lists},
    {C("query_info", [R EXCEPT !.info = "security", !.output = n, !.descriptor = Descriptor]) : n \in {0, 120}},
    {C("query_info", [R EXCEPT !.info = "other", !.output = n]) : n \in {0, 7}},
    {C("ioctl", [R EXCEPT !.input = n, !.output = k]) : n \in {0, 5}, k \in {0, 24}},
    {C("ioctl", [R EXCEPT !.code = "other", !.output = k]) : k \in {0, 24}},
    {C("ioctl", [R EXCEPT !.code = "reparse", !.output = k]) : k \in {0, 29, 30}},
    {C("change_notify", [R EXCEPT !.output = n]) : n \in {0, 20}},
    {C("change_notify", [R EXCEPT !.output = Changes(e).size, !.entries = e]) : e \in Lists},
    {C(k, R) : k \in Notifications \cup
       {"logoff", "tree_connect", "tree_disconnect", "close", "flush", "write", "lock", "set_info", "echo",
        "oplock_break", "lease_break"}},
    {[C("create", [R EXCEPT !.data = n]) EXCEPT !.status = s, !.async = a] :
       n \in {0, 3}, s \in {"error", "stopped_on_symlink"}, a \in BOOLEAN}}

\* One form of each command, for chains.
Typical == {C(k, R) : k \in Commands \ {"negotiate", "session_setup", "logoff", "set_info"}}
TypicalReplies == Typical \cup {C("set_info", R), [C("read", [R EXCEPT !.data = 0]) EXCEPT !.status = "error"]}
Chains(some) == {<<x, y>> : x, y \in some} \cup {<<C("create", R), x, C("close", R)>> : x \in some}

\* An encoder that refuses sends nothing.
IsSent(p) == \A i \in DOMAIN p.chain : Sent(p, i) # NoMessage
PacketsTo(to, sender, reader, chains) ==
  {p \in [to : {to}, sender : sender, reader : reader, sealed : BOOLEAN, chain : chains] : IsSent(p)}
Somewhere ==
  PacketsTo("server", {Plain, Passing, Context(FALSE, TRUE, 514), Context(FALSE, TRUE, 0)}, {Plain, Passing},
            {<<x>> : x \in SomeRequests})
  \cup PacketsTo("client", {Plain, Passing}, {Plain, Passing}, {<<x>> : x \in SomeReplies})
  \cup PacketsTo("server", {Plain}, {Plain}, Chains(Typical))
  \cup PacketsTo("client", {Plain}, {Plain}, Chains(TypicalReplies))
=============================================================================

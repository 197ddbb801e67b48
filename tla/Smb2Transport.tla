--------------------------- MODULE Smb2Transport ---------------------------
(***************************************************************************)
(* One connection of libsmb2's client: the queues of PDUs (lib/pdu.c), the *)
(* non-blocking writing and reading of them (lib/socket.c), time-outs and  *)
(* the destruction of the context (lib/init.c).  The other end is a server *)
(* that grants credits as libsmb2's own does and answers in any order.     *)
(*                                                                         *)
(* A call is one smb2_queue_pdu: a chain of one or more compounded PDUs.   *)
(* Bytes are abstracted to "begun" and "written"; a PDU is its header.     *)
(***************************************************************************)
EXTENDS Integers, Sequences

CONSTANTS Calls,        \* the calls the application makes, in this order
          Charges,      \* [Calls -> Seq(Nat)]: the credit charge of each PDU of the chain
          MaxCredits,   \* MAX_CREDITS
          Mischief      \* what may go wrong: subset of {"timeout", "drop", "destroy", "break", "pend"}

\* Calls are told apart; a chain has at least one PDU; the first call is the
\* negotiation, which is sent alone.
ASSUME CallsAssumption ==
  /\ Calls \in Seq(STRING) /\ Len(Calls) > 0
  /\ \A i, k \in DOMAIN Calls : Calls[i] = Calls[k] => i = k
ASSUME ChargesAssumption ==
  /\ \A i \in DOMAIN Calls : Charges[Calls[i]] \in Seq(Nat) /\ Charges[Calls[i]] # <<>>
  /\ Len(Charges[Calls[1]]) = 1
ASSUME CreditsAssumption == MaxCredits \in Nat

VARIABLES outqueue,     \* the chains to be written, the oldest first
          num_done,     \* 1 when part of the first one is written
          waitqueue,    \* the PDUs that wait for a reply: found by their id, so a set
          pdu, recv_state, credits, message_id,
          next_call, answers, context, toServer, serving, replied, toClient, framing

queues == <<outqueue, num_done, waitqueue, pdu, recv_state, credits, message_id>>
server == <<serving, replied>>
vars == <<queues, next_call, answers, context, toServer, server, toClient, framing>>

NoPdu == [call |-> "none", part |-> 0]
BreakPdu == [call |-> "break", part |-> 0]   \* made for a notification
NoId == -1                     \* the message id 0xffffffffffffffff of a notification
Garbage == [call |-> "garbage", part |-> 0]
Pdus == UNION {{<<Calls[i], j>> : j \in DOMAIN Charges[Calls[i]]} : i \in DOMAIN Calls}
Id(p) == <<p.call, p.part>>

\* The sums of the first members of a sequence of numbers: of none, one, ... all.
Sums(s) == LET sum[j \in 0..Len(s)] == IF j = 0 THEN 0 ELSE sum[j - 1] + s[j] IN sum
SumSeq(s) == Sums(s)[Len(s)]

Init ==
  /\ outqueue = <<>> /\ num_done = 0 /\ waitqueue = {}
  /\ pdu = NoPdu /\ recv_state = "SPL"
  /\ credits = 0 /\ message_id = 0
  /\ next_call = 1 /\ answers = [p \in Pdus |-> <<>>]
  /\ context = "open" /\ framing = "whole"
  /\ toServer = <<>> /\ serving = {} /\ replied = {} /\ toClient = <<>>

(***************************************************************************)
(* Queueing.                                                               *)
(***************************************************************************)
\* What a PDU asks the server for: a 16-bit field.
Ask == (MaxCredits - credits) % 65536

\* A PDU takes the next message id, one charged for more takes more of them.
OneId(charge) == 1
IdsOf(charge) == IF charge > 1 THEN charge ELSE 1

IdsIn(c) == [j \in DOMAIN Charges[c] |-> IdsOf(Charges[c][j])]

\* smb2_allocate_pdu, smb2_add_compound_pdu and the headers smb2_queue_pdu
\* encodes: each PDU of a chain remembers the id of the one before it.
MidOf(c, j) == message_id + Sums(IdsIn(c))[j - 1]
ChainOf(c) ==
  [j \in DOMAIN Charges[c] |->
     [call |-> c, part |-> j, mid |-> MidOf(c, j), charge |-> Charges[c][j], ask |-> Ask,
      prev |-> IF j = 1 THEN 0 ELSE MidOf(c, j - 1)]]

\* Every call after the first waits for the answer of the first, the negotiation.
Negotiated == next_call > 1 /\ answers[<<Calls[1], 1>>] = <<"reply">>

QueuePdu ==
  /\ context = "open" /\ next_call <= Len(Calls)
  /\ next_call = 1 \/ Negotiated
  /\ outqueue' = Append(outqueue, ChainOf(Calls[next_call]))
  /\ message_id' = message_id + SumSeq(IdsIn(Calls[next_call]))
  /\ next_call' = next_call + 1
  /\ UNCHANGED <<num_done, waitqueue, pdu, recv_state, credits, answers, context,
                 toServer, server, toClient, framing>>

(***************************************************************************)
(* Writing: the whole chain at the head is one message, paid for when its  *)
(* last byte is written.  The kernel may take a part of it.                *)
(***************************************************************************)
ChargeOf(chain) == SumSeq([j \in DOMAIN chain |-> chain[j].charge])
WriteOnCredit == outqueue # <<>>
MayWrite == outqueue # <<>> /\ ChargeOf(Head(outqueue)) <= credits

WritePart ==
  /\ context = "open" /\ MayWrite /\ num_done = 0
  /\ num_done' = 1
  /\ UNCHANGED <<outqueue, waitqueue, pdu, recv_state, credits, message_id, next_call,
                 answers, context, toServer, server, toClient, framing>>

Arrives(chain) == IF framing = "whole" THEN chain ELSE <<Garbage>>

Members(chain) == {chain[j] : j \in DOMAIN chain}

WriteRest ==
  /\ context = "open" /\ MayWrite
  /\ outqueue' = Tail(outqueue) /\ num_done' = 0
  /\ waitqueue' = waitqueue \cup Members(Head(outqueue))
  /\ credits' = credits - ChargeOf(Head(outqueue))
  /\ toServer' = toServer \o Arrives(Head(outqueue))
  /\ UNCHANGED <<pdu, recv_state, message_id, next_call, answers, context, server,
                 toClient, framing>>

(***************************************************************************)
(* The server.  smb2_correlate_reply grants what the request asked for,    *)
(* and everything to a client that asks for more than 0xf000.              *)
(***************************************************************************)
Grant(ask) == IF ask > 61440 THEN 65535 ELSE ask

Receive ==
  /\ toServer # <<>>
  /\ toServer' = Tail(toServer)
  /\ IF Head(toServer) = Garbage
     THEN context' = "failed" /\ UNCHANGED serving
     ELSE /\ serving' = serving \cup {[request |-> Head(toServer), pended |-> FALSE]}
          /\ UNCHANGED context
  /\ UNCHANGED <<queues, next_call, answers, replied, toClient, framing>>

Reply(p, status) == [mid |-> p.mid, status |-> status, grant |-> Grant(p.ask)]

\* Requests are answered in any order; one that takes long gets an interim answer
\* first, which grants what the request asked for as the real answer will again.
Answer(r) ==
  /\ r \in serving
  /\ serving' = serving \ {r} /\ replied' = replied \cup {Id(r.request)}
  /\ toClient' = Append(toClient, Reply(r.request, "done"))
  /\ UNCHANGED <<queues, next_call, answers, context, toServer, framing>>

Pend(r) ==
  /\ r \in serving /\ ~r.pended /\ "pend" \in Mischief
  /\ serving' = (serving \ {r}) \cup {[r EXCEPT !.pended = TRUE]}
  /\ toClient' = Append(toClient, Reply(r.request, "PENDING"))
  /\ UNCHANGED <<queues, next_call, answers, context, toServer, replied, framing>>

\* An oplock or lease break: nobody asked for it.
Break ==
  /\ "break" \in Mischief /\ context = "open" /\ Negotiated
  /\ ~ \E i \in DOMAIN toClient : toClient[i].mid = NoId     \* one at a time
  /\ toClient' = Append(toClient, [mid |-> NoId, status |-> "done", grant |-> 0])
  /\ UNCHANGED <<queues, next_call, answers, context, toServer, server, framing>>

Drop ==
  /\ "drop" \in Mischief /\ context = "open" /\ toServer # <<>>
  /\ context' = "failed"
  /\ UNCHANGED <<queues, next_call, answers, toServer, server, toClient, framing>>

(***************************************************************************)
(* Reading, in two steps: the header, and the rest of the reply, between   *)
(* which the context does other things.                                    *)
(***************************************************************************)
Waiting(mid) == {p \in waitqueue : p.mid = mid}
HeaderRead == context = "open" /\ recv_state = "SPL" /\ toClient # <<>>
\* The answer with the status PENDING only says that the real one will come.
NoInterim == FALSE
IsInterim == Head(toClient).status = "PENDING"
\* The credits of a reply count even when nobody waits for it.
TakeCredits == credits' = credits + Head(toClient).grant

\* The request goes on waiting for its real answer.
AnsweredByInterim == waitqueue \ Waiting(Head(toClient).mid)
AfterInterim == waitqueue

ReadPending ==
  /\ HeaderRead /\ IsInterim
  /\ recv_state' = "PAD" /\ TakeCredits
  /\ waitqueue' = AfterInterim
  /\ UNCHANGED <<outqueue, num_done, pdu, message_id, next_call, answers,
                 context, toServer, server, toClient, framing>>

ReadBreak ==
  /\ HeaderRead /\ Head(toClient).mid = NoId
  /\ recv_state' = "FIXED" /\ pdu' = BreakPdu /\ TakeCredits
  /\ UNCHANGED <<outqueue, num_done, waitqueue, message_id, next_call, answers, context,
                 toServer, server, toClient, framing>>

ReadUnknown ==
  /\ HeaderRead /\ ~IsInterim /\ Head(toClient).mid # NoId
  /\ Waiting(Head(toClient).mid) = {}
  /\ recv_state' = "UNKNOWN" /\ TakeCredits
  /\ UNCHANGED <<outqueue, num_done, waitqueue, pdu, message_id, next_call, answers,
                 context, toServer, server, toClient, framing>>

\* The reply of a PDU whose predecessor in the chain still waits is refused.
AnyOrder(p) == FALSE
OutOfOrder(p) == p.prev # 0 /\ Waiting(p.prev) # {}

KeptWaiting(p) == waitqueue
NoLongerWaiting(p) == waitqueue \ {p}

\* smb2_find_pdu: of PDUs with that id, which never meet, any.
ReadMatched ==
  /\ HeaderRead /\ ~IsInterim
  /\ TakeCredits
  /\ \E p \in Waiting(Head(toClient).mid) :
       IF OutOfOrder(p)
       THEN context' = "failed" /\ UNCHANGED <<waitqueue, pdu, recv_state>>
       ELSE /\ waitqueue' = NoLongerWaiting(p)
            /\ pdu' = p /\ recv_state' = "FIXED"
            /\ UNCHANGED context
  /\ UNCHANGED <<outqueue, num_done, message_id, next_call, answers, toServer, server,
                 toClient, framing>>

\* Runs the callback of each PDU of a set, with a status.
CallBack(ps, status) ==
  answers' = [x \in Pdus |-> IF x \in ps THEN Append(answers[x], status) ELSE answers[x]]

ReadRest ==
  /\ context = "open" /\ recv_state # "SPL"
  /\ recv_state' = "SPL" /\ toClient' = Tail(toClient)
  /\ IF recv_state = "FIXED"
     THEN CallBack({Id(pdu)}, "reply") /\ pdu' = NoPdu
     ELSE UNCHANGED <<answers, pdu>>
  /\ UNCHANGED <<outqueue, num_done, waitqueue, credits, message_id, next_call, context,
                 toServer, server, framing>>

(***************************************************************************)
(* Time-outs: of the PDUs queued before some moment.  In the outqueue only *)
(* the first PDU of a chain is looked at.                                  *)
(***************************************************************************)
Heads(chains) == {Id(chains[i][1]) : i \in DOMAIN chains}
Ids(ps) == {Id(p) : p \in ps}
Old(p, n) == \E i \in 1..n : Calls[i] = p.call

\* The count of written bytes belongs to the PDU: it goes with it, also when half
\* of a message is on the wire, and what is written next continues that half.
KeptDone(k) == num_done
DoneAfter(k) == IF k > 0 THEN 0 ELSE num_done

\* The calls are queued in their order, so the late ones are the first k.
TimeoutPdus(n, k) ==
  /\ "timeout" \in Mischief /\ context = "open" /\ n \in 1..(next_call - 1)
  /\ \A i \in DOMAIN outqueue : Old(outqueue[i][1], n) <=> i <= k
  /\ LET late == {p \in waitqueue : Old(p, n)}
     IN /\ k > 0 \/ late # {}
        /\ CallBack({Id(outqueue[i][1]) : i \in 1..k} \cup Ids(late), "IO_TIMEOUT")
        /\ outqueue' = [i \in 1..(Len(outqueue) - k) |-> outqueue[i + k]]
        /\ waitqueue' = waitqueue \ late
        /\ num_done' = DoneAfter(k)
        /\ framing' = IF k > 0 /\ num_done = 1 THEN "torn" ELSE framing
  /\ UNCHANGED <<pdu, recv_state, credits, message_id, next_call, context, toServer,
                 server, toClient>>

\* smb2_destroy_context: whatever is queued, being read or waiting is told.
ToldOfQueues == Heads(outqueue) \cup Ids(waitqueue)
Told == Heads(outqueue) \cup (IF pdu = NoPdu THEN {} ELSE {Id(pdu)}) \cup Ids(waitqueue)

DestroyContext ==
  /\ context = "failed" \/ ("destroy" \in Mischief /\ context = "open" /\ Negotiated)
  /\ context' = "destroyed"
  /\ CallBack(Told, "SHUTDOWN")
  /\ outqueue' = <<>> /\ waitqueue' = {} /\ pdu' = NoPdu
  /\ num_done' = 0 /\ recv_state' = "SPL"
  /\ toServer' = <<>> /\ toClient' = <<>> /\ serving' = {}
  /\ UNCHANGED <<credits, message_id, next_call, replied, framing>>

Write == WritePart \/ WriteRest
Read == ReadPending \/ ReadBreak \/ ReadUnknown \/ ReadMatched \/ ReadRest
Serve == Receive \/ (\E r \in serving : Answer(r))

Next == QueuePdu \/ Write \/ Read \/ Serve \/ (\E r \in serving : Pend(r)) \/ Break \/ Drop
        \/ (\E n \in 1..Len(Calls), k \in 0..Len(outqueue) : TimeoutPdus(n, k)) \/ DestroyContext

\* The event loop of the application serves the socket, the server answers, and
\* a failed context is destroyed, as smb2_service's comment demands.
Fairness == WF_vars(QueuePdu) /\ WF_vars(WriteRest) /\ WF_vars(Read) /\ WF_vars(Serve)
            /\ WF_vars(DestroyContext /\ context = "failed")
Spec == Init /\ [][Next]_vars /\ Fairness

(***************************************************************************)
(* Properties.                                                             *)
(***************************************************************************)
PduRecords == [call : {Calls[i] : i \in DOMAIN Calls}, part : Nat, mid : Nat,
               charge : Nat, ask : Nat, prev : Nat]

\* The variables stay in the domains of their C types.
TypeOK ==
  /\ outqueue \in Seq(Seq(PduRecords)) /\ waitqueue \subseteq PduRecords
  /\ num_done \in 0..1 /\ (num_done = 1 => outqueue # <<>> \/ context # "open")
  /\ pdu \in PduRecords \cup {NoPdu, BreakPdu}
  /\ recv_state \in {"SPL", "FIXED", "PAD", "UNKNOWN"}
  /\ (recv_state = "FIXED") <=> (pdu # NoPdu)
  /\ context \in {"open", "failed", "destroyed"}

\* The callback of a PDU runs at most once, whatever the order of its reply, its
\* time-out and the destruction of the context.
AnsweredOnce == \A x \in Pdus : Len(answers[x]) <= 1

\* A callback reports a reply only when the server has answered that very request,
\* never on an interim answer or on the late answer of another.
RepliesAreTrue == \A x \in Pdus : answers[x] = <<"reply">> => x \in replied

\* The callbacks of a chain run in its order, although the server may answer
\* in another: handlers of a compound rely on what the one before them stored.
ChainInOrder ==
  \A x \in Pdus : x[2] > 1 /\ answers[x] = <<"reply">> => answers[<<x[1], x[2] - 1>>] # <<>>

\* The client never spends credits it was not granted.
NeverOverdrawn == credits >= 0

\* Requests in flight have ids of their own, and a chain with charges of several
\* credits keeps the ids of those credits to itself.
IdsAreDistinct ==
  LET flight == {r.request : r \in serving} \cup waitqueue
                \cup UNION {Members(outqueue[i]) : i \in DOMAIN outqueue}
  IN \A p, q \in flight : Id(p) # Id(q) /\ p.mid <= q.mid
       => p.mid < q.mid /\ p.mid + p.charge <= q.mid

\* Once the context is destroyed every PDU that was sent, and every call that was
\* queued, has been told its end.
SentIsTold ==
  context = "destroyed" =>
    \A x \in Pdus : (x \in replied \/ x[2] = 1) /\ (\E i \in 1..(next_call - 1) : Calls[i] = x[1])
                    => answers[x] # <<>>

\* A callback can be trusted: it runs once, with the answer of its own request,
\* after those of the chain before it, for the ids of requests never meet.
CallbacksAreTrue ==
  TypeOK /\ AnsweredOnce /\ RepliesAreTrue /\ ChainInOrder /\ IdsAreDistinct

\* The outqueue is starved: nothing is in flight that could bring credits.
Starved == /\ outqueue # <<>> /\ ~MayWrite
           /\ waitqueue = {} /\ toClient = <<>> /\ toServer = <<>> /\ serving = {}

\* Every call ends with its callback, unless the context is lost or no credit will
\* ever come: the event loop needs nothing else.
CallsEnd ==
  \A i \in DOMAIN Calls :
    next_call > i ~> (answers[<<Calls[i], 1>>] # <<>> \/ Starved \/ context = "destroyed")

\* The bound 65535 of the server's grant: the credits of a client never pass what
\* it may hold, MAX_CREDITS.
NoAccumulation == credits <= MaxCredits

\* Every PDU of every call is told its end when the context is destroyed, the later
\* ones of a chain that was never sent too.
AllAreTold ==
  context = "destroyed" =>
    \A x \in Pdus : (\E i \in 1..(next_call - 1) : Calls[i] = x[1]) => answers[x] # <<>>
=============================================================================

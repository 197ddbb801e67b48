-------------------------- MODULE Smb2ServerProofs --------------------------
(***************************************************************************)
(* Theorems of Smb2Server, for any clients, any messages they send and any *)
(* answers of the handlers.  Invariant is about one connection at a time,  *)
(* and what its parts InOnePlace, IsAsked, InStage, ToBeIn and OnKeptTrees *)
(* become when something is sent, read, answered or lost is said first.    *)
(***************************************************************************)
EXTENDS Smb2Server, WellFoundedInduction, TLAPS

-----------------------------------------------------------------------------
(* The domains of the variables.                                           *)
Negotiation == {"NEGOTIATE", "SMB1_NEGOTIATE"}
Turning == Negotiation \cup {"SESSION_SETUP", "LOGOFF"}
OnTrees == {"CREATE", "CLOSE", "FLUSH", "READ", "WRITE", "LOCK", "CHANGE_NOTIFY", "SET_INFO",
            "OPLOCK_BREAK", "IOCTL", "QUERY_DIRECTORY", "QUERY_INFO"}
Late == OnTrees \cup {"ECHO", "LOGOFF", "TREE_DISCONNECT"}
Names == Late \cup Turning \cup {"TREE_CONNECT", "CANCEL"}
SessionBodies == {"NEGOTIATE_MESSAGE", "AUTHENTICATION_MESSAGE", "wrong password", "again"}
NegotiationBodies == UNION {Negotiations[c] : c \in Clients}
Bodies == NegotiationBodies \cup SessionBodies \cup {""}
Stages == {"new", "negotiated", "challenged", "in", "refused", "left"}

Requests == Commands \cup Turning \cup {"TREE_CONNECT", "TREE_DISCONNECT"}
Message == [mid : Nat, command : Requests, tree : Nat, body : Bodies]
Asking  == [mid : Nat, command : Names, tree : Nat]
Waiting == [mid : Nat, command : Names, tree : Nat, async : BOOLEAN]
Reply   == [mid : Nat, command : Names, status : Statuses, tree : Nat]
Pdus    == {ForNegotiate, ForSession, ForAnything}

Context == [fd : {"none", "backlog", "open", "closed", "gone"}, pdu : Pdus \cup {NoPdu},
            waitqueue : Seq(Waiting), outqueue : Seq(Reply), sent : Seq(Reply),
            tree_id : Seq(Nat), tree_id_cur : Nat, authenticated : BOOLEAN]
Client == [stage : Stages, asked : SUBSET Asking, held : SUBSET Nat, next_id : Nat]

Real(m) == m.command # "CANCEL"
Replies(x) == x.sent \o x.outqueue
Live(x) == x.fd \in {"backlog", "open"}

-----------------------------------------------------------------------------
(* An id is in one place: a request is in the socket, or waits for a late  *)
(* answer, or has its answer on the way; interim ones come before it.      *)
InOnePlace(box, wq, out) ==
  /\ \A i, j \in DOMAIN box : i < j /\ Real(box[j]) => box[i].mid # box[j].mid
  /\ \A i \in DOMAIN wq :
       (wq[i].async <=> Real(wq[i])) /\ (Real(wq[i]) => wq[i].command \in Late)
  /\ \A i, j \in DOMAIN wq : i < j /\ Real(wq[j]) => wq[i].mid # wq[j].mid
  /\ \A i \in DOMAIN wq, j \in DOMAIN box : Real(box[j]) => wq[i].mid # box[j].mid
  /\ \A i \in DOMAIN out, j \in DOMAIN box : Real(box[j]) => out[i].mid # box[j].mid
  /\ \A i \in DOMAIN out, j \in DOMAIN wq :
       Real(wq[j]) /\ out[i].status # "PENDING" => out[i].mid # wq[j].mid

Once(out) ==
  \A i, j \in DOMAIN out :
    i < j /\ out[i].status # "PENDING" /\ Real(out[j]) => out[i].mid # out[j].mid

(* What a request has to be read as.                                       *)
PduFor(m) ==
  IF m.command \in Negotiation THEN ForNegotiate
  ELSE IF m.command = "SESSION_SETUP" /\ m.body # "again" THEN ForSession ELSE ForAnything

(* Everything in the socket is for the PDU the context has, for what could *)
(* turn the dialogue is the last.                                          *)
InStage(pdu, auth, box) ==
  /\ \A i \in DOMAIN box :
       /\ PduFor(box[i]) = pdu
       /\ box[i].command \in Turning => i = Len(box)
       /\ box[i].mid = 0 => box[i].command \in Negotiation
  /\ pdu = ForAnything => auth

(* The PDU of a context whose client will have read everything.            *)
PduOf(stage) ==
  CASE stage = "new" -> ForNegotiate
    [] stage \in {"negotiated", "challenged"} -> ForSession
    [] OTHER -> ForAnything

PduAfter(rep) ==
  CASE rep.command = "NEGOTIATE" -> IF rep.status = "SUCCESS" THEN ForSession ELSE ForNegotiate
    [] rep.command = "SESSION_SETUP" ->
         IF rep.status \in {"MORE_PROCESSING_REQUIRED", "LOGON_FAILURE"} THEN ForSession
         ELSE ForAnything
    [] OTHER -> ForSession

Asks(m) == [mid |-> m.mid, command |-> m.command, tree |-> m.tree]
Answers(rep, r) ==
  /\ r.mid = rep.mid
  /\ r.command = rep.command \/ (r.command = "SMB1_NEGOTIATE" /\ rep.command = "NEGOTIATE")
     \/ (r.command = "OPLOCK_BREAK" /\ rep.command = "LOCK")
  /\ rep.tree \in {r.tree, NoTree} \/ rep.command = "TREE_CONNECT"

MayAsk(stage) ==
  CASE stage = "new" -> Negotiation
    [] stage \in {"negotiated", "challenged"} -> {"SESSION_SETUP"}
    [] stage = "in" -> Names \ (Negotiation \cup {"CANCEL"})
    [] OTHER -> {}

(* Everything on its way is of what the client waits for, and the PDU is   *)
(* of the stage where the client will be.                                  *)
IsAsked(box, wq, out, stage, asked, next) ==
  /\ \A i \in DOMAIN box : box[i].mid < next /\ (Real(box[i]) => Asks(box[i]) \in asked)
  /\ \A i \in DOMAIN wq : wq[i].mid < next /\ (Real(wq[i]) => Asks(wq[i]) \in asked)
  /\ \A i \in DOMAIN out : out[i].mid < next /\ (Real(out[i]) => \E r \in asked : Answers(out[i], r))
  /\ \A r \in asked : /\ r.mid < next /\ (r.mid = 0 => r.command \in Negotiation)
                      /\ r.command \in Turning => asked = {r}
                      /\ r.command \in MayAsk(stage)
  /\ stage # "new" => next > 0

Turns(rep) == rep.command \in Turning /\ rep.status # "PENDING"
StatusFits(rep) ==
  /\ rep.command # "SMB1_NEGOTIATE"
  /\ rep.command = "NEGOTIATE" => rep.status # "PENDING"
  /\ rep.command = "LOGOFF" => rep.status \in {"SUCCESS", "PENDING"}
  /\ rep.command = "SESSION_SETUP" =>
       rep.status \in {"MORE_PROCESSING_REQUIRED", "LOGON_FAILURE", "SUCCESS", "NOT_IMPLEMENTED"}

ToBeIn(pdu, wq, out, stage) ==
  /\ \A i \in DOMAIN out : StatusFits(out[i]) /\ (Turns(out[i]) => pdu = PduAfter(out[i]))
  /\ \A i \in DOMAIN wq : wq[i].command = "LOGOFF" => pdu = ForSession
  /\ \/ pdu = PduOf(stage)
     \/ \E i \in DOMAIN out : Turns(out[i])
     \/ \E i \in DOMAIN wq : wq[i].command = "LOGOFF"

(* The trees that a client will hold, and those it gives back.             *)
Connects(rep) == rep.command = "TREE_CONNECT" /\ rep.status = "SUCCESS"
ComingTrees(out) == {out[i].tree : i \in {j \in DOMAIN out : Connects(out[j])}}
Leaving(box) == {box[i].tree : i \in {j \in DOMAIN box : box[j].command = "TREE_DISCONNECT"}}
Known(held, out) == held \cup ComingTrees(out)
UsesTree(m) == OnTree(m.command) /\ Real(m)

(* What it holds or uses is connected and is not being given back.         *)
OnKeptTrees(box, out, tree_id, held, next) ==
  /\ \A t \in Known(held, out) : t \in ToSet(tree_id) /\ t \notin Leaving(box)
  /\ \A i \in DOMAIN out : Connects(out[i]) =>
       /\ out[i].tree \notin held
       /\ \A j \in DOMAIN out : i # j /\ Connects(out[j]) => out[i].tree # out[j].tree
  /\ \A i \in DOMAIN box :
       /\ UsesTree(box[i]) => box[i].tree \in ToSet(tree_id)
       /\ box[i].command = "TREE_DISCONNECT" => box[i].tree < next
       /\ \A j \in DOMAIN box :
            i < j /\ box[i].command = "TREE_DISCONNECT" /\ UsesTree(box[j])
              => box[i].tree # box[j].tree
  /\ Len(tree_id) < next

-----------------------------------------------------------------------------
(* The inductive invariant.                                                *)
PduToCome(x) == IF x.fd = "backlog" THEN ForNegotiate ELSE x.pdu

Typed(x, box, u) ==
  /\ x \in Context /\ box \in Seq(Message) /\ u \in Client
  /\ x.tree_id_cur \in 0 .. Len(x.tree_id) /\ (x.tree_id # <<>> => x.tree_id_cur > 0)
  /\ x.fd = "open" => x.pdu # NoPdu
  /\ x.fd = "none" => x = NewContext /\ box = <<>> /\ u = NewClient
  /\ x.fd = "backlog" => x = [NewContext EXCEPT !.fd = "backlog"]

(* What a connection has to keep.                                          *)
Kept(x, box, u, next) ==
  /\ InOnePlace(box, x.waitqueue, Replies(x))
  /\ InStage(PduToCome(x), x.authenticated, box)
  /\ u.stage # "left" =>
       /\ IsAsked(box, x.waitqueue, Replies(x), u.stage, u.asked, u.next_id)
       /\ ToBeIn(PduToCome(x), x.waitqueue, Replies(x), u.stage)
  /\ next <= MaxTrees + 1 => OnKeptTrees(box, Replies(x), x.tree_id, u.held, next)

OneClient(x, box, u, next) ==
  /\ Typed(x, box, u)
  /\ Once(Replies(x))
  /\ next <= MaxTrees + 1 => \A t \in Known(u.held, Replies(x)) : t < next
  /\ Live(x) => Kept(x, box, u, next)

Invariant ==
  /\ loop \in [phase : {"select", "service", "cull", "ended"}, in : SUBSET Clients,
               out : SUBSET Clients, accept : BOOLEAN]
  /\ s_tree_id \in Nat \ {0}
  /\ context = [c \in Clients |-> context[c]]
  /\ inbox = [c \in Clients |-> inbox[c]]
  /\ client = [c \in Clients |-> client[c]]
  /\ \A c \in Clients : OneClient(context[c], inbox[c], client[c], s_tree_id)
  /\ \A c, d \in Clients :
       c # d /\ s_tree_id <= MaxTrees + 1 =>
         Known(client[c].held, Replies(context[c]))
           \cap Known(client[d].held, Replies(context[d])) = {}

-----------------------------------------------------------------------------
(* Sequences.                                                              *)

(* A set of numbers that is not empty has a least member.                  *)
LEMMA LeastNumber ==
  ASSUME NEW T \in SUBSET Nat, T # {}
  PROVE  Min(T) \in T /\ \A m \in T : Min(T) <= m
  <1> DEFINE R == OpToRel(<, Nat)
  <1>1. IsWellFoundedOn(R, Nat)
    BY NatLessThanWellFounded
  <1> HIDE DEF R
  <1>2. PICK n \in T : \A m \in T : ~ (<<m, n>> \in R)
    BY <1>1, WFMin
  <1>3. \A m \in Nat : m < n => <<m, n>> \in R
    BY DEF R, OpToRel
  <1>4. \A m \in T : m \in Nat /\ n \in Nat /\ ~ (m < n)
    BY <1>2, <1>3
  <1>5. \A m \in T : n <= m
    BY <1>4
  <1> QED
    BY <1>5 DEF Min

LEMMA LengthIs ==
  ASSUME NEW S, NEW s \in Seq(S)
  PROVE  Len(s) \in Nat /\ DOMAIN s = 1 .. Len(s) /\ \A i \in DOMAIN s : s[i] \in S
  OBVIOUS

LEMMA AppendIs ==
  ASSUME NEW S, NEW s \in Seq(S), NEW e \in S
  PROVE  /\ Append(s, e) \in Seq(S)
         /\ Len(Append(s, e)) = Len(s) + 1
         /\ DOMAIN Append(s, e) = 1 .. Len(s) + 1
         /\ Append(s, e)[Len(s) + 1] = e
         /\ \A i \in DOMAIN s : i \in DOMAIN Append(s, e) /\ Append(s, e)[i] = s[i]
         /\ \A i \in DOMAIN Append(s, e) : i \in DOMAIN s \/ i = Len(s) + 1
  OBVIOUS

LEMMA JoinIs ==
  ASSUME NEW S, NEW s \in Seq(S), NEW t \in Seq(S)
  PROVE  /\ s \o t \in Seq(S) /\ Len(s \o t) = Len(s) + Len(t)
         /\ DOMAIN (s \o t) = 1 .. Len(s) + Len(t)
         /\ \A i \in DOMAIN (s \o t) : (s \o t)[i] = IF i <= Len(s) THEN s[i] ELSE t[i - Len(s)]
  OBVIOUS

(* t is s without some of its elements.                                    *)
Part(t, s) ==
  \E f \in [DOMAIN t -> DOMAIN s] :
    \A i \in DOMAIN t : t[i] = s[f[i]] /\ \A j \in DOMAIN t : i < j => f[i] < f[j]

LEMMA SameIsPart ==
  ASSUME NEW S, NEW s \in Seq(S)
  PROVE  Part(s, s)
  <1> DEFINE f == [i \in DOMAIN s |-> i]
  <1>1. f \in [DOMAIN s -> DOMAIN s]
    OBVIOUS
  <1>2. \A i \in DOMAIN s : s[i] = s[f[i]] /\ \A j \in DOMAIN s : i < j => f[i] < f[j]
    OBVIOUS
  <1> QED
    BY <1>1, <1>2 DEF Part

LEMMA TailIs ==
  ASSUME NEW S, NEW s \in Seq(S), s # <<>>
  PROVE  /\ Tail(s) \in Seq(S) /\ Head(s) = s[1] /\ 1 \in DOMAIN s
         /\ Len(Tail(s)) = Len(s) - 1
         /\ DOMAIN Tail(s) = 1 .. Len(s) - 1
         /\ \A i \in DOMAIN Tail(s) : i + 1 \in DOMAIN s /\ i + 1 > 1 /\ Tail(s)[i] = s[i + 1]
         /\ Part(Tail(s), s)
  <1>1. /\ Tail(s) \in Seq(S) /\ Head(s) = s[1] /\ 1 \in DOMAIN s
        /\ Len(Tail(s)) = Len(s) - 1
        /\ DOMAIN Tail(s) = 1 .. Len(s) - 1
        /\ \A i \in DOMAIN Tail(s) : i + 1 \in DOMAIN s /\ i + 1 > 1 /\ Tail(s)[i] = s[i + 1]
    OBVIOUS
  <1> DEFINE f == [i \in DOMAIN Tail(s) |-> i + 1]
  <1>2. f \in [DOMAIN Tail(s) -> DOMAIN s]
    BY <1>1
  <1>3. \A i \in DOMAIN Tail(s) :
          Tail(s)[i] = s[f[i]] /\ \A j \in DOMAIN Tail(s) : i < j => f[i] < f[j]
    BY <1>1
  <1> QED
    BY <1>1, <1>2, <1>3 DEF Part

(* What RemoveAt leaves keeps its order.                                   *)
LEMMA RemoveAtIs ==
  ASSUME NEW S, NEW s \in Seq(S), NEW k \in DOMAIN s
  PROVE  /\ RemoveAt(s, k) \in Seq(S)
         /\ Len(RemoveAt(s, k)) = Len(s) - 1
         /\ DOMAIN RemoveAt(s, k) = 1 .. Len(s) - 1
         /\ \A i \in DOMAIN RemoveAt(s, k) :
              RemoveAt(s, k)[i] = IF i < k THEN s[i] ELSE s[i + 1]
         /\ \A i \in DOMAIN s : i # k => \E j \in DOMAIN RemoveAt(s, k) : RemoveAt(s, k)[j] = s[i]
         /\ Part(RemoveAt(s, k), s)
  <1> DEFINE a == SubSeq(s, 1, k - 1)
             b == SubSeq(s, k + 1, Len(s))
             t == RemoveAt(s, k)
  <1>1. Len(s) \in Nat /\ DOMAIN s = 1 .. Len(s) /\ k \in 1 .. Len(s)
    OBVIOUS
  <1>2. /\ a \in Seq(S) /\ Len(a) = k - 1
        /\ \A i \in 1 .. k - 1 : a[i] = s[i]
    BY <1>1
  <1>3. /\ b \in Seq(S) /\ Len(b) = Len(s) - k
        /\ \A i \in 1 .. Len(s) - k : b[i] = s[k + i]
    BY <1>1
  <1>4. t = a \o b
    BY DEF RemoveAt
  <1> HIDE DEF a, b, t
  <1>5. /\ t \in Seq(S) /\ Len(t) = Len(a) + Len(b) /\ DOMAIN t = 1 .. Len(a) + Len(b)
        /\ \A i \in DOMAIN t : t[i] = IF i <= Len(a) THEN a[i] ELSE b[i - Len(a)]
    BY <1>2, <1>3, <1>4, JoinIs
  <1>6. Len(a) + Len(b) = Len(s) - 1
    BY <1>1, <1>2, <1>3
  <1>7. t \in Seq(S) /\ Len(t) = Len(s) - 1 /\ DOMAIN t = 1 .. Len(s) - 1
    BY <1>5, <1>6
  <1>8. \A i \in DOMAIN t : t[i] = IF i < k THEN a[i] ELSE b[i - (k - 1)]
    BY <1>1, <1>2, <1>7, <1>5
  <1>9. \A i \in DOMAIN t : t[i] = IF i < k THEN s[i] ELSE s[i + 1]
    <2> SUFFICES ASSUME NEW i \in DOMAIN t PROVE t[i] = IF i < k THEN s[i] ELSE s[i + 1]
      OBVIOUS
    <2>1. CASE i < k
      BY <2>1, <1>1, <1>2, <1>7, <1>8
    <2>2. CASE ~ (i < k)
      <3>1. i - (k - 1) \in 1 .. Len(s) - k /\ k + (i - (k - 1)) = i + 1
        BY <2>2, <1>1, <1>7
      <3> QED
        BY <2>2, <3>1, <1>3, <1>8
    <2> QED
      BY <2>1, <2>2
  <1> DEFINE f == [i \in DOMAIN t |-> IF i < k THEN i ELSE i + 1]
  <1>10. f \in [DOMAIN t -> DOMAIN s]
    BY <1>1, <1>7
  <1>11. \A i \in DOMAIN t : t[i] = s[f[i]] /\ \A j \in DOMAIN t : i < j => f[i] < f[j]
    BY <1>1, <1>7, <1>9
  <1>12. Part(t, s)
    BY <1>10, <1>11 DEF Part
  <1>13. ASSUME NEW i \in DOMAIN s, i # k
         PROVE  \E j \in DOMAIN t : t[j] = s[i]
    <2>1. CASE i < k
      <3>1. i \in DOMAIN t
        BY <1>1, <1>7, <2>1
      <3> QED
        BY <1>9, <2>1, <3>1
    <2>2. CASE i > k
      <3>1. i - 1 \in DOMAIN t /\ ~ (i - 1 < k) /\ (i - 1) + 1 = i
        BY <1>1, <1>7, <2>2
      <3> QED
        BY <1>9, <3>1
    <2> QED
      BY <1>1, <1>13, <2>1, <2>2
  <1> QED
    BY <1>7, <1>9, <1>12, <1>13 DEF t

(* What is true of elements of s, or of two in their order, is true of     *)
(* t's.                                                                    *)
LEMMA PartIs ==
  ASSUME NEW S, NEW s \in Seq(S), NEW t, Part(t, s)
  PROVE  /\ \A i \in DOMAIN t : \E k \in DOMAIN s : t[i] = s[k]
         /\ \A i, j \in DOMAIN t : i < j =>
              \E k, l \in DOMAIN s : k < l /\ t[i] = s[k] /\ t[j] = s[l]
  <1>1. PICK f \in [DOMAIN t -> DOMAIN s] :
          \A i \in DOMAIN t : t[i] = s[f[i]] /\ \A j \in DOMAIN t : i < j => f[i] < f[j]
    BY DEF Part
  <1>2. \A i \in DOMAIN t : f[i] \in DOMAIN s
    BY <1>1
  <1> QED
    BY <1>1, <1>2

-----------------------------------------------------------------------------
(* What happens to the places of the ids.                                  *)

(* Whatever is taken away, each id stays in one place.                     *)
LEMMA PlacesOfPart ==
  ASSUME NEW box \in Seq(Message), NEW wq \in Seq(Waiting), NEW out \in Seq(Reply),
         NEW box2 \in Seq(Message), NEW wq2 \in Seq(Waiting), NEW out2 \in Seq(Reply),
         Part(box2, box), Part(wq2, wq), Part(out2, out), InOnePlace(box, wq, out)
  PROVE  InOnePlace(box2, wq2, out2)
  <1>1. /\ \A i \in DOMAIN box2 : \E k \in DOMAIN box : box2[i] = box[k]
        /\ \A i, j \in DOMAIN box2 : i < j =>
             \E k, l \in DOMAIN box : k < l /\ box2[i] = box[k] /\ box2[j] = box[l]
    BY PartIs
  <1>2. /\ \A i \in DOMAIN wq2 : \E k \in DOMAIN wq : wq2[i] = wq[k]
        /\ \A i, j \in DOMAIN wq2 : i < j =>
             \E k, l \in DOMAIN wq : k < l /\ wq2[i] = wq[k] /\ wq2[j] = wq[l]
    BY PartIs
  <1>3. \A i \in DOMAIN out2 : \E k \in DOMAIN out : out2[i] = out[k]
    BY PartIs
  <1>4. \A i, j \in DOMAIN box2 : i < j /\ Real(box2[j]) => box2[i].mid # box2[j].mid
    BY <1>1 DEF InOnePlace
  <1>5. \A i \in DOMAIN wq2 :
          (wq2[i].async <=> Real(wq2[i])) /\ (Real(wq2[i]) => wq2[i].command \in Late)
    <2> SUFFICES ASSUME NEW i \in DOMAIN wq2
                 PROVE  (wq2[i].async <=> Real(wq2[i])) /\ (Real(wq2[i]) => wq2[i].command \in Late)
      OBVIOUS
    <2>1. PICK k \in DOMAIN wq : wq2[i] = wq[k]
      BY <1>2
    <2>2. (wq[k].async <=> Real(wq[k])) /\ (Real(wq[k]) => wq[k].command \in Late)
      BY DEF InOnePlace
    <2> QED
      BY <2>1, <2>2
  <1>6. \A i, j \in DOMAIN wq2 : i < j /\ Real(wq2[j]) => wq2[i].mid # wq2[j].mid
    BY <1>2 DEF InOnePlace
  <1>7. \A i \in DOMAIN wq2, j \in DOMAIN box2 : Real(box2[j]) => wq2[i].mid # box2[j].mid
    BY <1>1, <1>2 DEF InOnePlace
  <1>8. \A i \in DOMAIN out2, j \in DOMAIN box2 : Real(box2[j]) => out2[i].mid # box2[j].mid
    BY <1>1, <1>3 DEF InOnePlace
  <1>9. \A i \in DOMAIN out2, j \in DOMAIN wq2 :
          Real(wq2[j]) /\ out2[i].status # "PENDING" => out2[i].mid # wq2[j].mid
    <2> SUFFICES ASSUME NEW i \in DOMAIN out2, NEW j \in DOMAIN wq2,
                        Real(wq2[j]), out2[i].status # "PENDING"
                 PROVE  out2[i].mid # wq2[j].mid
      OBVIOUS
    <2>1. PICK k \in DOMAIN out : out2[i] = out[k]
      BY <1>3
    <2>2. PICK l \in DOMAIN wq : wq2[j] = wq[l]
      BY <1>2
    <2> QED
      BY <2>1, <2>2 DEF InOnePlace
  <1> QED
    BY <1>4, <1>5, <1>6, <1>7, <1>8, <1>9 DEF InOnePlace

(* A new id may enter the socket.                                          *)
LEMMA PlacesSend ==
  ASSUME NEW box \in Seq(Message), NEW wq \in Seq(Waiting), NEW out \in Seq(Reply),
         NEW m \in Message, InOnePlace(box, wq, out),
         Real(m) => /\ \A i \in DOMAIN box : box[i].mid # m.mid
                    /\ \A i \in DOMAIN wq : wq[i].mid # m.mid
                    /\ \A i \in DOMAIN out : out[i].mid # m.mid
  PROVE  InOnePlace(Append(box, m), wq, out)
  <1> DEFINE b == Append(box, m)
  <1>1. /\ \A i \in DOMAIN box : b[i] = box[i]
        /\ \A i \in DOMAIN b : i \in DOMAIN box \/ (i = Len(box) + 1 /\ b[i] = m)
        /\ DOMAIN b = 1 .. Len(box) + 1 /\ DOMAIN box = 1 .. Len(box) /\ Len(box) \in Nat
    BY AppendIs, LengthIs
  <1> HIDE DEF b
  <1>2. \A i, j \in DOMAIN b : i < j /\ Real(b[j]) => b[i].mid # b[j].mid
    <2> SUFFICES ASSUME NEW i \in DOMAIN b, NEW j \in DOMAIN b, i < j, Real(b[j])
                 PROVE  b[i].mid # b[j].mid
      OBVIOUS
    <2>1. i \in DOMAIN box /\ b[i] = box[i]
      BY <1>1
    <2> QED
      BY <1>1, <2>1 DEF InOnePlace
  <1>3. \A i \in DOMAIN wq, j \in DOMAIN b : Real(b[j]) => wq[i].mid # b[j].mid
    BY <1>1 DEF InOnePlace
  <1>4. \A i \in DOMAIN out, j \in DOMAIN b : Real(b[j]) => out[i].mid # b[j].mid
    BY <1>1 DEF InOnePlace
  <1> QED
    BY <1>2, <1>3, <1>4 DEF InOnePlace, b

(* The first request of the socket goes to the waitqueue.                  *)
LEMMA PlacesWait ==
  ASSUME NEW box \in Seq(Message), NEW wq \in Seq(Waiting), NEW out \in Seq(Reply),
         NEW w \in Waiting, InOnePlace(box, wq, out),
         w.async <=> Real(w),
         \A j \in DOMAIN box : Real(box[j]) => w.mid # box[j].mid,
         Real(w) => /\ w.command \in Late
                    /\ \A i \in DOMAIN wq : wq[i].mid # w.mid
                    /\ \A i \in DOMAIN out : out[i].mid # w.mid
  PROVE  InOnePlace(box, Append(wq, w), out)
  <1> DEFINE b == Append(wq, w)
  <1>1. /\ \A i \in DOMAIN wq : b[i] = wq[i]
        /\ \A i \in DOMAIN b : i \in DOMAIN wq \/ (i = Len(wq) + 1 /\ b[i] = w)
        /\ DOMAIN b = 1 .. Len(wq) + 1 /\ DOMAIN wq = 1 .. Len(wq) /\ Len(wq) \in Nat
    BY AppendIs, LengthIs
  <1> HIDE DEF b
  <1>2. \A i, j \in DOMAIN b : i < j /\ Real(b[j]) => b[i].mid # b[j].mid
    <2> SUFFICES ASSUME NEW i \in DOMAIN b, NEW j \in DOMAIN b, i < j, Real(b[j])
                 PROVE  b[i].mid # b[j].mid
      OBVIOUS
    <2>1. i \in DOMAIN wq /\ b[i] = wq[i]
      BY <1>1
    <2> QED
      BY <1>1, <2>1 DEF InOnePlace
  <1>3. \A i \in DOMAIN b, j \in DOMAIN box : Real(box[j]) => b[i].mid # box[j].mid
    BY <1>1 DEF InOnePlace
  <1>4. \A i \in DOMAIN out, j \in DOMAIN b :
          Real(b[j]) /\ out[i].status # "PENDING" => out[i].mid # b[j].mid
    BY <1>1 DEF InOnePlace
  <1>5. \A i \in DOMAIN b : (b[i].async <=> Real(b[i])) /\ (Real(b[i]) => b[i].command \in Late)
    <2> SUFFICES ASSUME NEW i \in DOMAIN b
                 PROVE  (b[i].async <=> Real(b[i])) /\ (Real(b[i]) => b[i].command \in Late)
      OBVIOUS
    <2>1. CASE i \in DOMAIN wq
      <3>1. (wq[i].async <=> Real(wq[i])) /\ (Real(wq[i]) => wq[i].command \in Late)
        BY <2>1 DEF InOnePlace
      <3> QED
        BY <1>1, <2>1, <3>1
    <2>2. CASE b[i] = w
      BY <2>2
    <2> QED
      BY <1>1, <2>1, <2>2
  <1> QED
    BY <1>2, <1>3, <1>4, <1>5 DEF InOnePlace, b

(* A reply is queued for an id that no longer waits.                       *)
LEMMA PlacesReply ==
  ASSUME NEW box \in Seq(Message), NEW wq \in Seq(Waiting), NEW out \in Seq(Reply),
         NEW r \in Reply, InOnePlace(box, wq, out),
         \A j \in DOMAIN box : Real(box[j]) => r.mid # box[j].mid,
         r.status # "PENDING" => \A j \in DOMAIN wq : Real(wq[j]) => r.mid # wq[j].mid
  PROVE  InOnePlace(box, wq, Append(out, r))
  <1> DEFINE b == Append(out, r)
  <1>1. \A i \in DOMAIN b : (i \in DOMAIN out /\ b[i] = out[i]) \/ b[i] = r
    BY AppendIs
  <1> HIDE DEF b
  <1>2. \A i \in DOMAIN b, j \in DOMAIN box : Real(box[j]) => b[i].mid # box[j].mid
    BY <1>1 DEF InOnePlace
  <1>3. \A i \in DOMAIN b, j \in DOMAIN wq :
          Real(wq[j]) /\ b[i].status # "PENDING" => b[i].mid # wq[j].mid
    BY <1>1 DEF InOnePlace
  <1> QED
    BY <1>2, <1>3 DEF InOnePlace, b

LEMMA OnceOfPart ==
  ASSUME NEW out \in Seq(Reply), NEW out2 \in Seq(Reply), Part(out2, out), Once(out)
  PROVE  Once(out2)
  BY PartIs DEF Once

(* A reply to what has had none yet.                                       *)
LEMMA OnceReply ==
  ASSUME NEW out \in Seq(Reply), NEW r \in Reply, Once(out),
         Real(r) => \A i \in DOMAIN out : out[i].status # "PENDING" => out[i].mid # r.mid
  PROVE  Once(Append(out, r))
  <1> DEFINE b == Append(out, r)
  <1>1. /\ \A i \in DOMAIN out : b[i] = out[i]
        /\ \A i \in DOMAIN b : i \in DOMAIN out \/ (i = Len(out) + 1 /\ b[i] = r)
        /\ DOMAIN b = 1 .. Len(out) + 1 /\ DOMAIN out = 1 .. Len(out) /\ Len(out) \in Nat
    BY AppendIs, LengthIs
  <1> HIDE DEF b
  <1>2. ASSUME NEW i \in DOMAIN b, NEW j \in DOMAIN b, i < j, b[i].status # "PENDING", Real(b[j])
        PROVE  b[i].mid # b[j].mid
    <2>1. i \in DOMAIN out /\ b[i] = out[i]
      BY <1>1, <1>2
    <2> QED
      BY <1>1, <1>2, <2>1 DEF Once
  <1> QED
    BY <1>2 DEF Once, b

-----------------------------------------------------------------------------
(* What happens to the stage of a context.                                 *)

(* The first request is handled; what is left is for the PDU that follows. *)
LEMMA StageHandled ==
  ASSUME NEW pdu, NEW auth, NEW box \in Seq(Message), box # <<>>, InStage(pdu, auth, box),
         NEW pdu2, NEW auth2, pdu2 = ForAnything => auth2,
         Head(box).command \in Turning \/ pdu2 = pdu
  PROVE  InStage(pdu2, auth2, Tail(box))
  <1> DEFINE b == Tail(box)
  <1>1. /\ DOMAIN b = 1 .. Len(box) - 1 /\ Len(b) = Len(box) - 1 /\ Len(box) \in Nat
        /\ Head(box) = box[1] /\ 1 \in DOMAIN box /\ DOMAIN box = 1 .. Len(box)
        /\ \A i \in DOMAIN b : i + 1 \in DOMAIN box /\ b[i] = box[i + 1]
    BY TailIs, LengthIs
  <1> HIDE DEF b
  <1>2. CASE Head(box).command \in Turning
    <2>1. 1 = Len(box)
      BY <1>1, <1>2 DEF InStage
    <2>2. \A i \in DOMAIN b : FALSE
      <3>1. Len(box) - 1 = 0
        BY <2>1
      <3>2. DOMAIN b = 1 .. 0
        BY <1>1, <3>1
      <3> QED
        BY <3>2
    <2> QED
      BY <2>2 DEF InStage, b
  <1>3. CASE pdu2 = pdu
    <2> SUFFICES ASSUME NEW i \in DOMAIN b
                 PROVE  /\ PduFor(b[i]) = pdu
                        /\ b[i].command \in Turning => i = Len(b)
                        /\ b[i].mid = 0 => b[i].command \in Negotiation
      BY <1>3 DEF InStage, b
    <2>1. b[i] = box[i + 1] /\ i + 1 \in DOMAIN box /\ i \in Nat
      BY <1>1
    <2>2. b[i].command \in Turning => i + 1 = Len(box)
      BY <2>1 DEF InStage
    <2>3. PduFor(b[i]) = pdu /\ (b[i].mid = 0 => b[i].command \in Negotiation)
      BY <2>1 DEF InStage
    <2> QED
      BY <1>1, <2>1, <2>2, <2>3
  <1> QED
    BY <1>2, <1>3

(* What a client sends is for the PDU that the context will have.          *)
LEMMA StageSend ==
  ASSUME NEW pdu, NEW auth, NEW box \in Seq(Message), InStage(pdu, auth, box),
         NEW m \in Message, PduFor(m) = pdu, m.mid = 0 => m.command \in Negotiation,
         \A i \in DOMAIN box : box[i].command \notin Turning
  PROVE  InStage(pdu, auth, Append(box, m))
  <1> DEFINE b == Append(box, m)
  <1>1. /\ \A i \in DOMAIN b : (i \in DOMAIN box /\ b[i] = box[i]) \/ (i = Len(b) /\ b[i] = m)
    BY AppendIs, LengthIs
  <1> HIDE DEF b
  <1> SUFFICES ASSUME NEW i \in DOMAIN b
               PROVE  /\ PduFor(b[i]) = pdu
                      /\ b[i].command \in Turning => i = Len(b)
                      /\ b[i].mid = 0 => b[i].command \in Negotiation
    BY DEF InStage, b
  <1>2. CASE i \in DOMAIN box /\ b[i] = box[i]
    BY <1>2 DEF InStage
  <1>3. CASE i = Len(b) /\ b[i] = m
    BY <1>3
  <1> QED
    BY <1>1, <1>2, <1>3

-----------------------------------------------------------------------------
(* What happens to what is asked.                                          *)

LEMMA AskedOfPart ==
  ASSUME NEW box \in Seq(Message), NEW wq \in Seq(Waiting), NEW out \in Seq(Reply),
         NEW box2 \in Seq(Message), NEW wq2 \in Seq(Waiting), NEW out2 \in Seq(Reply),
         Part(box2, box), Part(wq2, wq), Part(out2, out),
         NEW stage, NEW asked, NEW next, IsAsked(box, wq, out, stage, asked, next)
  PROVE  IsAsked(box2, wq2, out2, stage, asked, next)
  <1>1. \A i \in DOMAIN box2 : \E k \in DOMAIN box : box2[i] = box[k]
    BY PartIs
  <1>2. \A i \in DOMAIN wq2 : \E k \in DOMAIN wq : wq2[i] = wq[k]
    BY PartIs
  <1>3. \A i \in DOMAIN out2 : \E k \in DOMAIN out : out2[i] = out[k]
    BY PartIs
  <1>4. \A i \in DOMAIN box2 : box2[i].mid < next /\ (Real(box2[i]) => Asks(box2[i]) \in asked)
    BY <1>1 DEF IsAsked
  <1>5. \A i \in DOMAIN wq2 : wq2[i].mid < next /\ (Real(wq2[i]) => Asks(wq2[i]) \in asked)
    BY <1>2 DEF IsAsked
  <1>6. \A i \in DOMAIN out2 :
          out2[i].mid < next /\ (Real(out2[i]) => \E r \in asked : Answers(out2[i], r))
    BY <1>3 DEF IsAsked
  <1> QED
    BY <1>4, <1>5, <1>6 DEF IsAsked

(* A client asks for one thing more.                                       *)
LEMMA AskedSend ==
  ASSUME NEW box \in Seq(Message), NEW wq \in Seq(Waiting), NEW out \in Seq(Reply),
         NEW m \in Message, NEW stage, NEW asked \in SUBSET Asking, NEW next \in Nat,
         IsAsked(box, wq, out, stage, asked, next), m.mid = next,
         m.mid = 0 => m.command \in Negotiation, m.command \in MayAsk(stage),
         \A r \in asked : r.command \notin Turning, m.command \in Turning => asked = {}
  PROVE  IsAsked(Append(box, m), wq, out, stage, asked \cup {Asks(m)}, next + 1)
  <1> DEFINE b == Append(box, m)
             A == asked \cup {Asks(m)}
  <1>1. /\ \A i \in DOMAIN b : (i \in DOMAIN box /\ b[i] = box[i]) \/ b[i] = m
    BY AppendIs, LengthIs
  <1>2. /\ \A i \in DOMAIN box : box[i].mid \in Nat
        /\ \A i \in DOMAIN wq : wq[i].mid \in Nat
        /\ \A i \in DOMAIN out : out[i].mid \in Nat
        /\ \A r \in asked : r.mid \in Nat
        /\ m.mid \in Nat
    <2>1. /\ \A x \in Message : x.mid \in Nat
          /\ \A x \in Waiting : x.mid \in Nat
          /\ \A x \in Reply : x.mid \in Nat
          /\ \A x \in Asking : x.mid \in Nat
      BY DEF Message, Waiting, Reply, Asking
    <2> QED
      BY <2>1, LengthIs
  <1>3. /\ asked \subseteq A /\ Asks(m) \in A
        /\ Asks(m).mid = m.mid /\ Asks(m).command = m.command
        /\ \A r \in A : r \in asked \/ r = Asks(m)
        /\ m.command \in Turning => A = {Asks(m)}
    BY DEF Asks
  <1>4. \A k \in Nat : k < next => k < next + 1
    OBVIOUS
  <1> HIDE DEF b, A
  <1>5. \A i \in DOMAIN b : b[i].mid < next + 1 /\ (Real(b[i]) => Asks(b[i]) \in A)
    <2> SUFFICES ASSUME NEW i \in DOMAIN b
                 PROVE  b[i].mid < next + 1 /\ (Real(b[i]) => Asks(b[i]) \in A)
      OBVIOUS
    <2>1. CASE i \in DOMAIN box /\ b[i] = box[i]
      BY <1>2, <1>3, <1>4, <2>1 DEF IsAsked
    <2>2. CASE b[i] = m
      BY <1>2, <1>3, <2>2
    <2> QED
      BY <1>1, <2>1, <2>2
  <1>6. \A i \in DOMAIN wq : wq[i].mid < next + 1 /\ (Real(wq[i]) => Asks(wq[i]) \in A)
    BY <1>2, <1>3, <1>4 DEF IsAsked
  <1>7. \A i \in DOMAIN out :
          out[i].mid < next + 1 /\ (Real(out[i]) => \E r \in A : Answers(out[i], r))
    BY <1>2, <1>3, <1>4 DEF IsAsked
  <1>8. ASSUME NEW r \in A
        PROVE  /\ r.mid < next + 1 /\ (r.mid = 0 => r.command \in Negotiation)
               /\ r.command \in Turning => A = {r}
               /\ r.command \in MayAsk(stage)
    <2>1. CASE r \in asked
      BY <1>2, <1>4, <2>1 DEF IsAsked
    <2>2. CASE r = Asks(m)
      BY <1>2, <1>3, <2>2
    <2> QED
      BY <1>3, <2>1, <2>2
  <1> QED
    BY <1>5, <1>6, <1>7, <1>8 DEF IsAsked, b, A

(* A cancel is not asked for, it has the id of what is.                    *)
LEMMA AskedCancel ==
  ASSUME NEW box \in Seq(Message), NEW wq, NEW out,
         NEW m \in Message, NEW stage, NEW asked, NEW next,
         IsAsked(box, wq, out, stage, asked, next), m.mid < next, ~ Real(m)
  PROVE  IsAsked(Append(box, m), wq, out, stage, asked, next)
  <1>1. \A i \in DOMAIN Append(box, m) :
          (i \in DOMAIN box /\ Append(box, m)[i] = box[i]) \/ Append(box, m)[i] = m
    BY AppendIs, LengthIs
  <1> QED
    BY <1>1 DEF IsAsked

LEMMA AskedWait ==
  ASSUME NEW box, NEW wq \in Seq(Waiting), NEW out,
         NEW w \in Waiting, NEW stage, NEW asked, NEW next,
         IsAsked(box, wq, out, stage, asked, next), w.mid < next, Real(w) => Asks(w) \in asked
  PROVE  IsAsked(box, Append(wq, w), out, stage, asked, next)
  <1>1. \A i \in DOMAIN Append(wq, w) :
          (i \in DOMAIN wq /\ Append(wq, w)[i] = wq[i]) \/ Append(wq, w)[i] = w
    BY AppendIs, LengthIs
  <1> QED
    BY <1>1 DEF IsAsked

LEMMA AskedReply ==
  ASSUME NEW box, NEW wq, NEW out \in Seq(Reply),
         NEW rep \in Reply, NEW stage, NEW asked, NEW next,
         IsAsked(box, wq, out, stage, asked, next), rep.mid < next,
         Real(rep) => \E r \in asked : Answers(rep, r)
  PROVE  IsAsked(box, wq, Append(out, rep), stage, asked, next)
  <1>1. \A i \in DOMAIN Append(out, rep) :
          (i \in DOMAIN out /\ Append(out, rep)[i] = out[i]) \/ Append(out, rep)[i] = rep
    BY AppendIs, LengthIs
  <1> QED
    BY <1>1 DEF IsAsked

(* A client that reads a final reply has one request less; when that one   *)
(* turns the dialogue it was the only one.                                 *)
StageWith(stage, rep) ==
  CASE rep.command = "NEGOTIATE" /\ rep.status = "SUCCESS" -> "negotiated"
    [] rep.command = "SESSION_SETUP" /\ rep.status = "MORE_PROCESSING_REQUIRED" -> "challenged"
    [] rep.command = "SESSION_SETUP" /\ rep.status = "SUCCESS" -> "in"
    [] rep.command = "SESSION_SETUP" /\ rep.status = "LOGON_FAILURE" -> "negotiated"
    [] rep.command = "LOGOFF" /\ rep.status = "SUCCESS" -> "negotiated"
    [] rep.command = "SESSION_SETUP" /\ rep.status = "NOT_IMPLEMENTED" -> "refused"
    [] OTHER -> stage

LEMMA StageWithIs ==
  ASSUME NEW stage \in Stages, NEW rep
  PROVE  /\ StageWith(stage, rep) \in Stages
         /\ rep.command \notin Turning => StageWith(stage, rep) = stage
  BY DEF StageWith, Stages, Turning, Negotiation

LEMMA AskedReceive ==
  ASSUME NEW box \in Seq(Message), NEW wq \in Seq(Waiting), NEW out \in Seq(Reply), out # <<>>,
         NEW stage \in Stages, NEW asked \in SUBSET Asking, NEW next \in Nat,
         InOnePlace(box, wq, out), Once(out), Head(out).status # "PENDING",
         IsAsked(box, wq, out, stage, asked, next)
  PROVE  IsAsked(box, wq, Tail(out), StageWith(stage, Head(out)),
                 {r \in asked : r.mid # Head(out).mid}, next)
  <1> DEFINE rep == Head(out)
             o == Tail(out)
             A == {r \in asked : r.mid # rep.mid}
             st == StageWith(stage, rep)
  <1>1. /\ rep = out[1] /\ 1 \in DOMAIN out /\ rep \in Reply
        /\ \A i \in DOMAIN o : i + 1 \in DOMAIN out /\ i + 1 > 1 /\ o[i] = out[i + 1]
    BY TailIs, LengthIs
  <1>2. /\ \A x \in Message : x.mid \in Nat /\ Asks(x).mid = x.mid
        /\ \A x \in Waiting : x.mid \in Nat /\ Asks(x).mid = x.mid
        /\ rep.mid \in Nat
    BY <1>1 DEF Message, Waiting, Reply, Asks
  <1>3. \A r \in A : r \in asked
    OBVIOUS
  <1>4. \A r \in asked : r.mid # rep.mid => r \in A
    OBVIOUS
  <1>5. rep.mid < next
    BY <1>1 DEF IsAsked
  <1> HIDE DEF o, A, st, rep
  <1>6. \A i \in DOMAIN box : box[i].mid < next /\ (Real(box[i]) => Asks(box[i]) \in A)
    <2> SUFFICES ASSUME NEW i \in DOMAIN box, Real(box[i]) PROVE Asks(box[i]) \in A
      BY DEF IsAsked
    <2>1. rep.mid # box[i].mid
      BY <1>1 DEF InOnePlace
    <2> QED
      BY <1>2, <1>4, <2>1, LengthIs DEF IsAsked
  <1>7. \A i \in DOMAIN wq : wq[i].mid < next /\ (Real(wq[i]) => Asks(wq[i]) \in A)
    <2> SUFFICES ASSUME NEW i \in DOMAIN wq, Real(wq[i]) PROVE Asks(wq[i]) \in A
      BY DEF IsAsked
    <2>1. rep.mid # wq[i].mid
      BY <1>1 DEF InOnePlace, rep
    <2> QED
      BY <1>2, <1>4, <2>1, LengthIs DEF IsAsked
  <1>8. \A i \in DOMAIN o : o[i].mid < next /\ (Real(o[i]) => \E r \in A : Answers(o[i], r))
    <2> SUFFICES ASSUME NEW i \in DOMAIN o
                 PROVE  o[i].mid < next /\ (Real(o[i]) => \E r \in A : Answers(o[i], r))
      OBVIOUS
    <2>1. i + 1 \in DOMAIN out /\ 1 < i + 1 /\ o[i] = out[i + 1]
      BY <1>1, LengthIs
    <2>2. Real(o[i]) => o[i].mid # rep.mid
      BY <1>1, <2>1 DEF Once, rep
    <2>3. o[i].mid < next /\ (Real(o[i]) => \E r \in asked : Answers(o[i], r))
      BY <2>1 DEF IsAsked
    <2>4. \A r : Answers(o[i], r) => r.mid = o[i].mid
      BY DEF Answers
    <2> QED
      BY <1>4, <2>2, <2>3, <2>4
  <1>9. \A r \in A : rep.command \in Turning => FALSE
    <2> SUFFICES ASSUME NEW r \in A, rep.command \in Turning PROVE FALSE
      OBVIOUS
    <2>1. Real(rep)
      BY DEF Real, Turning, Negotiation
    <2>2. PICK q \in asked : Answers(rep, q)
      BY <1>1, <2>1 DEF IsAsked
    <2>3. q.command \in Turning /\ q.mid = rep.mid
      BY <2>2 DEF Answers, Turning, Negotiation
    <2>4. asked = {q}
      BY <2>3 DEF IsAsked
    <2>5. r = q
      BY <1>3, <2>4
    <2> QED
      BY <2>3, <2>5 DEF A
  <1>10. ASSUME NEW r \in A
         PROVE  /\ r.mid < next /\ (r.mid = 0 => r.command \in Negotiation)
                /\ r.command \in Turning => A = {r}
                /\ r.command \in MayAsk(st)
    <2>1. /\ r.mid < next /\ (r.mid = 0 => r.command \in Negotiation)
          /\ r.command \in Turning => asked = {r}
          /\ r.command \in MayAsk(stage)
      BY <1>3 DEF IsAsked
    <2>2. st = stage
      BY <1>9, <1>10, StageWithIs DEF st
    <2>3. asked = {r} => A = {r}
      BY <1>10 DEF A
    <2> QED
      BY <2>1, <2>2, <2>3
  <1>11. 0 < next
    BY <1>2, <1>5
  <1> QED
    BY <1>6, <1>7, <1>8, <1>10, <1>11 DEF IsAsked, o, A, st, rep

-----------------------------------------------------------------------------
(* What happens to the stage to be.                                        *)

(* Nothing that turns the dialogue comes or goes.                          *)
LEMMA ToBeSame ==
  ASSUME NEW pdu, NEW stage, NEW wq, NEW out, NEW wq2, NEW out2, ToBeIn(pdu, wq, out, stage),
         \A i \in DOMAIN out2 : (\E k \in DOMAIN out : out2[i] = out[k]) \/ out2[i].command \notin Turning,
         \A i \in DOMAIN wq2 : (\E k \in DOMAIN wq : wq2[i] = wq[k]) \/ wq2[i].command # "LOGOFF",
         \A i \in DOMAIN out : Turns(out[i]) => \E k \in DOMAIN out2 : out2[k] = out[i],
         \A i \in DOMAIN wq : wq[i].command = "LOGOFF" => \E k \in DOMAIN wq2 : wq2[k] = wq[i]
  PROVE  ToBeIn(pdu, wq2, out2, stage)
  <1>1. ASSUME NEW i \in DOMAIN out2
        PROVE  StatusFits(out2[i]) /\ (Turns(out2[i]) => pdu = PduAfter(out2[i]))
    <2>1. CASE \E k \in DOMAIN out : out2[i] = out[k]
      BY <2>1 DEF ToBeIn
    <2>2. CASE out2[i].command \notin Turning
      BY <2>2 DEF StatusFits, Turns, Turning, Negotiation
    <2> QED
      BY <1>1, <2>1, <2>2
  <1>2. \A i \in DOMAIN wq2 : wq2[i].command = "LOGOFF" => pdu = ForSession
    BY DEF ToBeIn
  <1>3. (\E i \in DOMAIN out : Turns(out[i])) => \E i \in DOMAIN out2 : Turns(out2[i])
    OBVIOUS
  <1>4. (\E i \in DOMAIN wq : wq[i].command = "LOGOFF")
          => \E i \in DOMAIN wq2 : wq2[i].command = "LOGOFF"
    OBVIOUS
  <1> QED
    BY <1>1, <1>2, <1>3, <1>4 DEF ToBeIn

LEMMA PduOfIs ==
  /\ PduOf("new") = ForNegotiate /\ PduOf("negotiated") = ForSession
  /\ PduOf("challenged") = ForSession /\ PduOf("in") = ForAnything
  /\ PduOf("refused") = ForAnything
  BY DEF PduOf

LEMMA PdusDiffer ==
  ForNegotiate # ForSession /\ ForSession # ForAnything /\ ForNegotiate # ForAnything
    /\ NoPdu \notin Pdus
  BY DEF ForNegotiate, ForSession, ForAnything, NextPdu, NoPdu, Pdus

LEMMA MayAskIs ==
  ASSUME NEW stage \in Stages
  PROVE  /\ \A n \in Negotiation : n \in MayAsk(stage) => stage = "new"
         /\ "CANCEL" \notin MayAsk(stage)
         /\ \A n \in Names \ Turning : n \in MayAsk(stage) => stage = "in"
         /\ "LOGOFF" \in MayAsk(stage) => stage = "in"
  BY DEF MayAsk, Stages, Negotiation, Names, Turning, Late, OnTrees

LEMMA ToBeReceive ==
  ASSUME NEW pdu, NEW stage \in Stages, NEW wq, NEW out \in Seq(Reply), out # <<>>,
         NEW asked, NEW box, NEW next,
         ToBeIn(pdu, wq, out, stage), IsAsked(box, wq, out, stage, asked, next)
  PROVE  ToBeIn(pdu, wq, Tail(out),
                IF Head(out).status = "PENDING" THEN stage ELSE StageWith(stage, Head(out)))
  <1> DEFINE rep == Head(out)
             o == Tail(out)
             st == IF rep.status = "PENDING" THEN stage ELSE StageWith(stage, rep)
  <1>1. /\ rep = out[1] /\ 1 \in DOMAIN out /\ rep \in Reply
        /\ DOMAIN o = 1 .. Len(out) - 1 /\ DOMAIN out = 1 .. Len(out) /\ Len(out) \in Nat
        /\ \A i \in DOMAIN o : i + 1 \in DOMAIN out /\ o[i] = out[i + 1]
    BY TailIs, LengthIs
  <1> HIDE DEF o
  <1>2. \A i \in DOMAIN out : out[i] = rep \/ \E k \in DOMAIN o : o[k] = out[i]
    <2> SUFFICES ASSUME NEW i \in DOMAIN out, i # 1
                 PROVE  \E k \in DOMAIN o : o[k] = out[i]
      BY <1>1
    <2>1. i - 1 \in DOMAIN o /\ (i - 1) + 1 = i
      BY <1>1
    <2> QED
      BY <1>1, <2>1
  <1>3. \A i \in DOMAIN o : \E k \in DOMAIN out : o[i] = out[k]
    BY <1>1
  <1>4. CASE ~ Turns(rep)
    <2>1. st = stage
      BY <1>4, StageWithIs DEF Turns
    <2> HIDE DEF st, rep
    <2>2. ToBeIn(pdu, wq, o, stage)
      BY <1>2, <1>3, <1>4, ToBeSame
    <2> QED
      BY <2>1, <2>2 DEF o, st, rep
  <1>5. CASE Turns(rep)
    <2>1. StatusFits(rep) /\ pdu = PduAfter(rep) /\ rep.status # "PENDING"
      BY <1>1, <1>5 DEF ToBeIn, Turns
    <2>2. Real(rep)
      BY <1>5 DEF Real, Turns, Turning, Negotiation
    <2>3. PICK q \in asked : Answers(rep, q) /\ q.command \in MayAsk(stage)
      BY <1>1, <2>2 DEF IsAsked
    <2>4. pdu = PduOf(StageWith(stage, rep))
      <3>1. CASE rep.command = "NEGOTIATE" /\ rep.status = "SUCCESS"
        BY <2>1, <3>1, PduOfIs DEF PduAfter, StageWith
      <3>2. CASE rep.command = "NEGOTIATE" /\ rep.status # "SUCCESS"
        <4>1. q.command \in Negotiation
          BY <2>3, <3>2 DEF Answers, Negotiation
        <4>2. stage = "new"
          BY <2>3, <4>1, MayAskIs
        <4>3. StageWith(stage, rep) = stage
          BY <3>2 DEF StageWith
        <4>4. PduAfter(rep) = ForNegotiate
          BY <3>2 DEF PduAfter
        <4> QED
          BY <2>1, <4>2, <4>3, <4>4, PduOfIs
      <3>3. CASE rep.command = "SESSION_SETUP"
        <4>1. CASE rep.status = "MORE_PROCESSING_REQUIRED"
          BY <2>1, <3>3, <4>1, PduOfIs DEF PduAfter, StageWith
        <4>2. CASE rep.status = "LOGON_FAILURE"
          BY <2>1, <3>3, <4>2, PduOfIs DEF PduAfter, StageWith
        <4>3. CASE rep.status = "SUCCESS"
          BY <2>1, <3>3, <4>3, PduOfIs DEF PduAfter, StageWith
        <4>4. CASE rep.status = "NOT_IMPLEMENTED"
          BY <2>1, <3>3, <4>4, PduOfIs DEF PduAfter, StageWith
        <4> QED
          BY <2>1, <3>3, <4>1, <4>2, <4>3, <4>4 DEF StatusFits
      <3>4. CASE rep.command = "LOGOFF"
        <4>1. rep.status = "SUCCESS"
          BY <2>1, <3>4 DEF StatusFits
        <4> QED
          BY <2>1, <3>4, <4>1, PduOfIs DEF PduAfter, StageWith
      <3> QED
        BY <1>5, <2>1, <3>1, <3>2, <3>3, <3>4 DEF Turns, Turning, Negotiation, StatusFits
    <2>5. st = StageWith(stage, rep)
      BY <2>1
    <2>6. \A i \in DOMAIN o : StatusFits(o[i]) /\ (Turns(o[i]) => pdu = PduAfter(o[i]))
      BY <1>3 DEF ToBeIn
    <2> HIDE DEF rep, st
    <2>7. ToBeIn(pdu, wq, o, st)
      BY <2>4, <2>5, <2>6 DEF ToBeIn
    <2> QED
      BY <2>7 DEF o, st, rep
  <1> QED
    BY <1>4, <1>5

(* When a request that turns the dialogue is handled there is no other.    *)
LEMMA OnlyOne ==
  ASSUME NEW box \in Seq(Message), NEW wq \in Seq(Waiting), NEW out \in Seq(Reply), box # <<>>,
         NEW stage, NEW asked, NEW next, InOnePlace(box, wq, out),
         IsAsked(box, wq, out, stage, asked, next), Head(box).command \in Turning
  PROVE  /\ \A i \in DOMAIN out : out[i].command = "CANCEL"
         /\ \A i \in DOMAIN wq : wq[i].command = "CANCEL"
  <1>1. Head(box) = box[1] /\ 1 \in DOMAIN box
    BY TailIs
  <1>2. Real(box[1])
    BY <1>1 DEF Real, Turning, Negotiation
  <1>3. asked = {Asks(box[1])}
    <2>1. Asks(box[1]) \in asked /\ Asks(box[1]).command \in Turning
      BY <1>1, <1>2 DEF IsAsked, Asks
    <2> QED
      BY <2>1 DEF IsAsked
  <1>4. Asks(box[1]).mid = box[1].mid
    BY DEF Asks
  <1>5. ASSUME NEW i \in DOMAIN out, Real(out[i]) PROVE FALSE
    <2>1. Answers(out[i], Asks(box[1]))
      BY <1>3, <1>5 DEF IsAsked
    <2>2. out[i].mid = box[1].mid
      BY <1>4, <2>1 DEF Answers
    <2> QED
      BY <1>1, <1>2, <2>2 DEF InOnePlace
  <1>6. ASSUME NEW i \in DOMAIN wq, Real(wq[i]) PROVE FALSE
    <2>1. Asks(wq[i]) = Asks(box[1])
      BY <1>3, <1>6 DEF IsAsked
    <2>2. wq[i].mid = box[1].mid
      BY <2>1 DEF Asks
    <2> QED
      BY <1>1, <1>2, <2>2 DEF InOnePlace
  <1> QED
    BY <1>5, <1>6 DEF Real

-----------------------------------------------------------------------------
(* What happens to the trees.                                              *)

LEMMA KnownIs ==
  ASSUME NEW held, NEW out, NEW t
  PROVE  t \in Known(held, out)
           <=> t \in held \/ \E i \in DOMAIN out : Connects(out[i]) /\ out[i].tree = t
  BY DEF Known, ComingTrees

LEMMA LeavingIs ==
  ASSUME NEW box, NEW t
  PROVE  t \in Leaving(box)
           <=> \E i \in DOMAIN box : box[i].command = "TREE_DISCONNECT" /\ box[i].tree = t
  BY DEF Leaving

LEMMA KnownReply ==
  ASSUME NEW held, NEW out \in Seq(Reply), NEW r \in Reply
  PROVE  /\ ~ Connects(r) => \A t : t \in Known(held, Append(out, r)) <=> t \in Known(held, out)
         /\ \A t : t \in Known(held, Append(out, r)) => t \in Known(held, out) \/ t = r.tree
  <1>1. /\ \A i \in DOMAIN Append(out, r) :
             (i \in DOMAIN out /\ Append(out, r)[i] = out[i]) \/ Append(out, r)[i] = r
        /\ \A i \in DOMAIN out : i \in DOMAIN Append(out, r) /\ Append(out, r)[i] = out[i]
    BY AppendIs, LengthIs
  <1> QED
    BY <1>1, KnownIs

LEMMA TreesOfPart ==
  ASSUME NEW box \in Seq(Message), NEW box2 \in Seq(Message), Part(box2, box),
         NEW out, NEW tree_id, NEW held, NEW next, OnKeptTrees(box, out, tree_id, held, next)
  PROVE  OnKeptTrees(box2, out, tree_id, held, next)
  <1>1. /\ \A i \in DOMAIN box2 : \E k \in DOMAIN box : box2[i] = box[k]
        /\ \A i, j \in DOMAIN box2 : i < j =>
             \E k, l \in DOMAIN box : k < l /\ box2[i] = box[k] /\ box2[j] = box[l]
    BY PartIs
  <1>2. ASSUME NEW t, t \in Leaving(box2) PROVE t \in Leaving(box)
    <2>1. PICK i \in DOMAIN box2 : box2[i].command = "TREE_DISCONNECT" /\ box2[i].tree = t
      BY <1>2, LeavingIs
    <2>2. PICK k \in DOMAIN box : box2[i] = box[k]
      BY <1>1
    <2> QED
      BY <2>1, <2>2, LeavingIs
  <1>3. \A i \in DOMAIN box2 :
          /\ UsesTree(box2[i]) => box2[i].tree \in ToSet(tree_id)
          /\ box2[i].command = "TREE_DISCONNECT" => box2[i].tree < next
    BY <1>1 DEF OnKeptTrees
  <1>4. \A i, j \in DOMAIN box2 :
          i < j /\ box2[i].command = "TREE_DISCONNECT" /\ UsesTree(box2[j])
            => box2[i].tree # box2[j].tree
    BY <1>1 DEF OnKeptTrees
  <1> QED
    BY <1>2, <1>3, <1>4 DEF OnKeptTrees

LEMMA TreesReply ==
  ASSUME NEW box, NEW out \in Seq(Reply), NEW tree_id, NEW held, NEW next, NEW r \in Reply,
         ~ Connects(r), OnKeptTrees(box, out, tree_id, held, next)
  PROVE  OnKeptTrees(box, Append(out, r), tree_id, held, next)
  <1> DEFINE o == Append(out, r)
  <1>1. \A i \in DOMAIN o : (i \in DOMAIN out /\ o[i] = out[i]) \/ o[i] = r
    BY AppendIs, LengthIs
  <1>2. \A t : t \in Known(held, o) <=> t \in Known(held, out)
    BY KnownReply
  <1> HIDE DEF o
  <1>3. \A i \in DOMAIN o : Connects(o[i]) =>
          /\ o[i].tree \notin held
          /\ \A j \in DOMAIN o : i # j /\ Connects(o[j]) => o[i].tree # o[j].tree
    BY <1>1 DEF OnKeptTrees
  <1> QED
    BY <1>2, <1>3 DEF OnKeptTrees, o

LEMMA ToSetIs ==
  ASSUME NEW S, NEW s \in Seq(S)
  PROVE  \A t : t \in ToSet(s) <=> \E i \in DOMAIN s : s[i] = t
  BY DEF ToSet

(* A tree is connected and its reply queued: the next id, which nobody     *)
(* knows.                                                                  *)
LEMMA TreesConnect ==
  ASSUME NEW box \in Seq(Message), NEW out \in Seq(Reply), NEW tree_id \in Seq(Nat),
         NEW held \in SUBSET Nat, NEW next \in Nat, NEW r \in Reply, Connects(r), r.tree = next,
         OnKeptTrees(box, out, tree_id, held, next), \A t \in Known(held, out) : t < next
  PROVE  /\ OnKeptTrees(box, Append(out, r), Append(tree_id, next), held, next + 1)
         /\ \A t \in Known(held, Append(out, r)) : t < next + 1
  <1> DEFINE o == Append(out, r)
             id == Append(tree_id, next)
  <1>1. \A i \in DOMAIN o : (i \in DOMAIN out /\ o[i] = out[i]) \/ (i = Len(out) + 1 /\ o[i] = r)
    BY AppendIs, LengthIs
  <1>2. \A t : t \in Known(held, o) => t \in Known(held, out) \/ t = next
    BY KnownReply
  <1>3. \A t : t \in ToSet(tree_id) \/ t = next => t \in ToSet(id)
    <2>1. id \in Seq(Nat) /\ next = id[Len(tree_id) + 1] /\ Len(tree_id) + 1 \in DOMAIN id
      BY AppendIs, LengthIs
    <2>2. \A i \in DOMAIN tree_id : i \in DOMAIN id /\ id[i] = tree_id[i]
      BY AppendIs
    <2> HIDE DEF id
    <2>3. next \in ToSet(id)
      BY <2>1, ToSetIs
    <2>4. ASSUME NEW t \in ToSet(tree_id) PROVE t \in ToSet(id)
      <3>1. PICK i \in DOMAIN tree_id : tree_id[i] = t
        BY <2>4, ToSetIs
      <3> QED
        BY <2>1, <2>2, <3>1, ToSetIs
    <2> QED
      BY <2>3, <2>4
  <1>4. Len(id) < next + 1
    <2>1. Len(id) = Len(tree_id) + 1 /\ Len(tree_id) \in Nat
      BY AppendIs, LengthIs
    <2> QED
      BY <2>1 DEF OnKeptTrees
  <1>5. \A i \in DOMAIN box : box[i].tree \in Nat
    <2>1. \A m \in Message : m.tree \in Nat
      BY DEF Message
    <2> QED
      BY <2>1, LengthIs
  <1>6. \A i \in DOMAIN box : box[i].command = "TREE_DISCONNECT" => box[i].tree < next
    BY DEF OnKeptTrees
  <1>7. next \notin Leaving(box)
    BY <1>5, <1>6, LeavingIs
  <1>8. next \notin Known(held, out)
    OBVIOUS
  <1> HIDE DEF o, id
  <1>9. \A t \in Known(held, o) : t \in ToSet(id) /\ t \notin Leaving(box)
    BY <1>2, <1>3, <1>7 DEF OnKeptTrees
  <1>10. \A i \in DOMAIN out : Connects(out[i]) => out[i].tree # next
    BY <1>8, KnownIs
  <1>11. next \notin held
    BY <1>8, KnownIs
  <1>12. ASSUME NEW i \in DOMAIN o, Connects(o[i])
         PROVE  /\ o[i].tree \notin held
                /\ \A j \in DOMAIN o : i # j /\ Connects(o[j]) => o[i].tree # o[j].tree
    <2>1. CASE i \in DOMAIN out /\ o[i] = out[i]
      BY <1>1, <1>10, <1>12, <2>1 DEF OnKeptTrees
    <2>2. CASE i = Len(out) + 1 /\ o[i] = r
      BY <1>1, <1>10, <1>11, <2>2
    <2> QED
      BY <1>1, <1>12, <2>1, <2>2
  <1>13. \A i \in DOMAIN box :
           /\ UsesTree(box[i]) => box[i].tree \in ToSet(id)
           /\ box[i].command = "TREE_DISCONNECT" => box[i].tree < next + 1
           /\ \A j \in DOMAIN box :
                i < j /\ box[i].command = "TREE_DISCONNECT" /\ UsesTree(box[j])
                  => box[i].tree # box[j].tree
    <2>1. \A i \in DOMAIN box : UsesTree(box[i]) => box[i].tree \in ToSet(id)
      BY <1>3 DEF OnKeptTrees
    <2>2. \A i \in DOMAIN box : box[i].command = "TREE_DISCONNECT" => box[i].tree < next + 1
      BY <1>5, <1>6
    <2> QED
      BY <2>1, <2>2 DEF OnKeptTrees
  <1>14. OnKeptTrees(box, o, id, held, next + 1)
    BY <1>4, <1>9, <1>12, <1>13 DEF OnKeptTrees
  <1>15. \A t \in Known(held, out) : t \in Nat
    <2>1. \A i \in DOMAIN out : out[i].tree \in Nat
      <3>1. \A q \in Reply : q.tree \in Nat
        BY DEF Reply
      <3> QED
        BY <3>1, LengthIs
    <2> QED
      BY <2>1, KnownIs
  <1>16. \A t \in Known(held, o) : t < next + 1
    BY <1>2, <1>15
  <1> QED
    BY <1>14, <1>16 DEF o, id

(* A tree can go when nobody holds or uses it.                             *)
LEMMA TreesRemoved ==
  ASSUME NEW box \in Seq(Message), NEW out \in Seq(Reply), NEW tree_id \in Seq(Nat),
         NEW held, NEW next \in Nat, OnKeptTrees(box, out, tree_id, held, next),
         NEW k \in DOMAIN tree_id, tree_id[k] \notin Known(held, out),
         \A i \in DOMAIN box : UsesTree(box[i]) => box[i].tree # tree_id[k]
  PROVE  OnKeptTrees(box, out, RemoveAt(tree_id, k), held, next)
  <1> DEFINE id == RemoveAt(tree_id, k)
  <1>1. id \in Seq(Nat) /\ Len(id) = Len(tree_id) - 1 /\ Len(tree_id) \in Nat
    BY RemoveAtIs, LengthIs
  <1>2. \A i \in DOMAIN tree_id : i # k => \E j \in DOMAIN id : id[j] = tree_id[i]
    BY RemoveAtIs
  <1>3. \A t \in ToSet(tree_id) : t # tree_id[k] => t \in ToSet(id)
    BY <1>1, <1>2, ToSetIs
  <1>4. Len(id) < next
    BY <1>1 DEF OnKeptTrees
  <1> HIDE DEF id
  <1>5. \A t \in Known(held, out) : t \in ToSet(id) /\ t \notin Leaving(box)
    BY <1>3 DEF OnKeptTrees
  <1>6. \A i \in DOMAIN box : UsesTree(box[i]) => box[i].tree \in ToSet(id)
    BY <1>3 DEF OnKeptTrees
  <1> QED
    BY <1>4, <1>5, <1>6 DEF OnKeptTrees, id

(* A client uses what it holds, or gives a tree back.                      *)
LEMMA TreesSend ==
  ASSUME NEW box \in Seq(Message), NEW out, NEW tree_id, NEW held, NEW next, NEW m \in Message,
         OnKeptTrees(box, out, tree_id, held, next), \A t \in Known(held, out) : t < next,
         UsesTree(m) => m.tree \in held
  PROVE  OnKeptTrees(Append(box, m), out, tree_id,
                     IF m.command = "TREE_DISCONNECT" THEN held \ {m.tree} ELSE held, next)
  <1> DEFINE b == Append(box, m)
             h == IF m.command = "TREE_DISCONNECT" THEN held \ {m.tree} ELSE held
  <1>1. /\ \A i \in DOMAIN b : (i \in DOMAIN box /\ b[i] = box[i]) \/ (i = Len(box) + 1 /\ b[i] = m)
        /\ DOMAIN box = 1 .. Len(box) /\ Len(box) \in Nat /\ DOMAIN b = 1 .. Len(box) + 1
    BY AppendIs, LengthIs
  <1>2. /\ \A t \in h : t \in held
        /\ m.command = "TREE_DISCONNECT" => m.tree \notin h
    OBVIOUS
  <1>3. m.command = "TREE_DISCONNECT" => UsesTree(m)
    BY DEF UsesTree, OnTree, NoTreeCommands, Real
  <1> HIDE DEF b, h
  <1>4. \A t \in Known(h, out) : t \in Known(held, out)
    BY <1>2, KnownIs
  <1>5. \A t \in Known(h, out) : t \notin Leaving(b)
    <2> SUFFICES ASSUME NEW t \in Known(h, out), NEW i \in DOMAIN b,
                        b[i].command = "TREE_DISCONNECT", b[i].tree = t
                 PROVE  FALSE
      BY LeavingIs
    <2>1. CASE i \in DOMAIN box /\ b[i] = box[i]
      <3>1. t \in Leaving(box)
        BY <2>1, LeavingIs
      <3> QED
        BY <1>4, <3>1 DEF OnKeptTrees
    <2>2. CASE b[i] = m
      <3>1. m.tree \in held /\ m.tree \notin h /\ t = m.tree
        BY <1>2, <1>3, <2>2
      <3>2. PICK j \in DOMAIN out : Connects(out[j]) /\ out[j].tree = m.tree
        BY <3>1, KnownIs
      <3> QED
        BY <3>1, <3>2 DEF OnKeptTrees
    <2> QED
      BY <1>1, <2>1, <2>2
  <1>6. \A i \in DOMAIN out : Connects(out[i]) =>
          /\ out[i].tree \notin h
          /\ \A j \in DOMAIN out : i # j /\ Connects(out[j]) => out[i].tree # out[j].tree
    BY <1>2 DEF OnKeptTrees
  <1>7. \A t \in held : t \in ToSet(tree_id) /\ t \notin Leaving(box) /\ t < next
    BY KnownIs DEF OnKeptTrees
  <1>8. ASSUME NEW i \in DOMAIN b
        PROVE  /\ UsesTree(b[i]) => b[i].tree \in ToSet(tree_id)
               /\ b[i].command = "TREE_DISCONNECT" => b[i].tree < next
    <2>1. CASE i \in DOMAIN box /\ b[i] = box[i]
      BY <2>1 DEF OnKeptTrees
    <2>2. CASE b[i] = m
      BY <1>3, <1>7, <2>2
    <2> QED
      BY <1>1, <1>8, <2>1, <2>2
  <1>9. ASSUME NEW i \in DOMAIN b, NEW j \in DOMAIN b, i < j, b[i].command = "TREE_DISCONNECT",
               UsesTree(b[j])
        PROVE  b[i].tree # b[j].tree
    <2>1. i \in DOMAIN box /\ b[i] = box[i]
      BY <1>1, <1>9
    <2>2. CASE j \in DOMAIN box /\ b[j] = box[j]
      BY <1>9, <2>1, <2>2 DEF OnKeptTrees
    <2>3. CASE b[j] = m
      <3>1. b[i].tree \in Leaving(box)
        BY <1>9, <2>1, LeavingIs
      <3> QED
        BY <1>7, <1>9, <2>3, <3>1
    <2> QED
      BY <1>1, <2>2, <2>3
  <1> QED
    BY <1>4, <1>5, <1>6, <1>8, <1>9 DEF OnKeptTrees, b, h

(* A client learns of the tree it has connected.                           *)
LEMMA TreesReceive ==
  ASSUME NEW box, NEW out \in Seq(Reply), out # <<>>, NEW tree_id, NEW held, NEW held2, NEW next,
         \A t \in held2 : t \in held \/ (Connects(Head(out)) /\ t = Head(out).tree)
  PROVE  /\ \A t \in Known(held2, Tail(out)) : t \in Known(held, out)
         /\ OnKeptTrees(box, out, tree_id, held, next)
              => OnKeptTrees(box, Tail(out), tree_id, held2, next)
  <1> DEFINE rep == Head(out)
             o == Tail(out)
  <1>1. /\ rep = out[1] /\ 1 \in DOMAIN out
        /\ \A i \in DOMAIN o : i + 1 \in DOMAIN out /\ i + 1 # 1 /\ o[i] = out[i + 1]
        /\ \A i \in DOMAIN o : i \in Nat
    BY TailIs, LengthIs
  <1> HIDE DEF o, rep
  <1>2. \A t \in Known(held2, o) : t \in Known(held, out)
    BY <1>1, KnownIs DEF rep
  <1>3. ASSUME OnKeptTrees(box, out, tree_id, held, next)
        PROVE  OnKeptTrees(box, o, tree_id, held2, next)
    <2>1. ASSUME NEW i \in DOMAIN o, Connects(o[i])
          PROVE  /\ o[i].tree \notin held2
                 /\ \A j \in DOMAIN o : i # j /\ Connects(o[j]) => o[i].tree # o[j].tree
      <3>1. o[i] = out[i + 1] /\ i + 1 \in DOMAIN out /\ i + 1 # 1
        BY <1>1
      <3>2. o[i].tree \notin held /\ (Connects(rep) => o[i].tree # rep.tree)
        BY <1>1, <1>3, <2>1, <3>1 DEF OnKeptTrees
      <3>3. ASSUME NEW j \in DOMAIN o, i # j, Connects(o[j]) PROVE o[i].tree # o[j].tree
        <4>1. j + 1 # i + 1 /\ o[j] = out[j + 1] /\ j + 1 \in DOMAIN out
          BY <1>1, <3>3
        <4> QED
          BY <1>3, <2>1, <3>1, <3>3, <4>1 DEF OnKeptTrees
      <3> QED
        BY <3>2, <3>3 DEF rep
    <2> QED
      BY <1>2, <1>3, <2>1 DEF OnKeptTrees
  <1> QED
    BY <1>2, <1>3 DEF o

-----------------------------------------------------------------------------
(* Queueing a reply.                                                       *)

LEMMA SameSequence ==
  ASSUME NEW S, NEW s \in Seq(S), NEW t \in Seq(S), Len(s) = Len(t),
         \A i \in 1 .. Len(s) : s[i] = t[i]
  PROVE  s = t
  OBVIOUS

LEMMA JoinAppend ==
  ASSUME NEW S, NEW s \in Seq(S), NEW t \in Seq(S), NEW e \in S
  PROVE  s \o Append(t, e) = Append(s \o t, e)
  <1> DEFINE a == s \o Append(t, e)
             b == Append(s \o t, e)
  <1>1. Len(s) \in Nat /\ Len(t) \in Nat
    BY LengthIs
  <1>2. /\ Append(t, e) \in Seq(S) /\ Len(Append(t, e)) = Len(t) + 1
        /\ Append(t, e)[Len(t) + 1] = e /\ \A i \in 1 .. Len(t) : Append(t, e)[i] = t[i]
    BY AppendIs, LengthIs
  <1>3. /\ a \in Seq(S) /\ Len(a) = Len(s) + (Len(t) + 1)
        /\ \A i \in 1 .. Len(s) + (Len(t) + 1) :
             a[i] = IF i <= Len(s) THEN s[i] ELSE Append(t, e)[i - Len(s)]
    BY <1>2, JoinIs
  <1>4. /\ s \o t \in Seq(S) /\ Len(s \o t) = Len(s) + Len(t)
        /\ \A i \in 1 .. Len(s) + Len(t) : (s \o t)[i] = IF i <= Len(s) THEN s[i] ELSE t[i - Len(s)]
    BY JoinIs
  <1>5. /\ b \in Seq(S) /\ Len(b) = Len(s) + Len(t) + 1 /\ b[Len(s) + Len(t) + 1] = e
        /\ \A i \in 1 .. Len(s) + Len(t) : b[i] = (s \o t)[i]
    BY <1>4, AppendIs, LengthIs
  <1>6. Len(a) = Len(b)
    BY <1>1, <1>3, <1>5
  <1> HIDE DEF a, b
  <1>7. ASSUME NEW i \in 1 .. Len(a) PROVE a[i] = b[i]
    <2>1. CASE i = Len(s) + Len(t) + 1
      <3>1. ~ (i <= Len(s)) /\ i - Len(s) = Len(t) + 1
        BY <1>1, <2>1
      <3>2. a[i] = Append(t, e)[Len(t) + 1]
        BY <1>3, <1>7, <3>1
      <3> QED
        BY <1>2, <1>5, <2>1, <3>2
    <2>2. CASE i \in 1 .. Len(s) + Len(t)
      <3>1. CASE i <= Len(s)
        BY <1>3, <1>4, <1>5, <1>7, <2>2, <3>1
      <3>2. CASE ~ (i <= Len(s))
        <4>1. i - Len(s) \in 1 .. Len(t)
          BY <1>1, <2>2, <3>2
        <4>2. a[i] = Append(t, e)[i - Len(s)]
          BY <1>3, <1>7, <3>2
        <4>3. b[i] = t[i - Len(s)]
          BY <1>4, <1>5, <2>2, <3>2
        <4> QED
          BY <1>2, <4>1, <4>2, <4>3
      <3> QED
        BY <3>1, <3>2
    <2>3. i \in 1 .. Len(s) + Len(t) \/ i = Len(s) + Len(t) + 1
      <3>1. i \in 1 .. Len(s) + (Len(t) + 1)
        BY <1>3, <1>7
      <3> QED
        BY <1>1, <3>1
    <2> QED
      BY <2>1, <2>2, <2>3
  <1>8. a = b
    BY <1>3, <1>5, <1>6, <1>7, SameSequence
  <1> QED
    BY <1>8 DEF a, b

LEMMA JoinNothing ==
  ASSUME NEW S, NEW s \in Seq(S)
  PROVE  s \o <<>> = s
  OBVIOUS

LEMMA RemoveLast ==
  ASSUME NEW S, NEW s \in Seq(S), NEW e \in S
  PROVE  RemoveAt(Append(s, e), Len(s) + 1) = s
  <1> DEFINE a == Append(s, e)
             t == RemoveAt(a, Len(s) + 1)
  <1>1. /\ a \in Seq(S) /\ Len(a) = Len(s) + 1 /\ DOMAIN a = 1 .. Len(s) + 1 /\ Len(s) \in Nat
        /\ \A i \in 1 .. Len(s) : a[i] = s[i]
    BY AppendIs, LengthIs
  <1>2. Len(s) + 1 \in DOMAIN a
    BY <1>1
  <1> HIDE DEF a
  <1>3. /\ t \in Seq(S) /\ Len(t) = Len(a) - 1 /\ DOMAIN t = 1 .. Len(a) - 1
        /\ \A i \in DOMAIN t : t[i] = IF i < Len(s) + 1 THEN a[i] ELSE a[i + 1]
    BY <1>1, <1>2, RemoveAtIs
  <1> HIDE DEF t
  <1>4. Len(t) = Len(s) /\ DOMAIN t = 1 .. Len(s)
    BY <1>1, <1>3
  <1>5. \A i \in 1 .. Len(t) : t[i] = s[i]
    BY <1>1, <1>3, <1>4
  <1>6. t = s
    BY <1>3, <1>4, <1>5, SameSequence
  <1> QED
    BY <1>6 DEF t, a

(* The fields of a context besides its queues.                             *)
SameButQueues(z, x) ==
  /\ z.fd = x.fd /\ z.pdu = x.pdu /\ z.tree_id = x.tree_id /\ z.tree_id_cur = x.tree_id_cur
  /\ z.authenticated = x.authenticated

LEMMA ContextIs ==
  ASSUME NEW x \in Context
  PROVE  /\ x.waitqueue \in Seq(Waiting) /\ x.outqueue \in Seq(Reply) /\ x.sent \in Seq(Reply)
         /\ x.tree_id \in Seq(Nat) /\ x.tree_id_cur \in Nat /\ x.pdu \in Pdus \cup {NoPdu}
         /\ x.authenticated \in BOOLEAN /\ x.fd \in {"none", "backlog", "open", "closed", "gone"}
         /\ Replies(x) \in Seq(Reply)
  <1>1. /\ x.waitqueue \in Seq(Waiting) /\ x.outqueue \in Seq(Reply) /\ x.sent \in Seq(Reply)
        /\ x.tree_id \in Seq(Nat) /\ x.tree_id_cur \in Nat /\ x.pdu \in Pdus \cup {NoPdu}
        /\ x.authenticated \in BOOLEAN /\ x.fd \in {"none", "backlog", "open", "closed", "gone"}
    BY DEF Context
  <1>2. Replies(x) \in Seq(Reply)
    BY <1>1, JoinIs DEF Replies
  <1> QED
    BY <1>1, <1>2

LEMMA WithQueues ==
  ASSUME NEW x \in Context
  PROVE  /\ \A q \in Seq(Waiting) :
              LET z == [x EXCEPT !.waitqueue = q] IN
              /\ z \in Context /\ z.waitqueue = q /\ Replies(z) = Replies(x)
              /\ z.sent = x.sent /\ z.outqueue = x.outqueue /\ SameButQueues(z, x)
         /\ \A q \in Seq(Reply) :
              LET z == [x EXCEPT !.outqueue = q] IN
              /\ z \in Context /\ z.waitqueue = x.waitqueue /\ z.sent = x.sent /\ z.outqueue = q
              /\ SameButQueues(z, x)
         /\ \A q \in Seq(Reply) :
              LET z == [x EXCEPT !.sent = q] IN
              /\ z \in Context /\ z.waitqueue = x.waitqueue /\ z.sent = q /\ z.outqueue = x.outqueue
              /\ SameButQueues(z, x)
  <1>1. ASSUME NEW q \in Seq(Waiting)
        PROVE  LET z == [x EXCEPT !.waitqueue = q] IN
               /\ z \in Context /\ z.waitqueue = q /\ Replies(z) = Replies(x)
               /\ z.sent = x.sent /\ z.outqueue = x.outqueue /\ SameButQueues(z, x)
    BY DEF Context, Replies, SameButQueues
  <1>2. ASSUME NEW q \in Seq(Reply)
        PROVE  LET z == [x EXCEPT !.outqueue = q] IN
               /\ z \in Context /\ z.waitqueue = x.waitqueue /\ z.sent = x.sent /\ z.outqueue = q
               /\ SameButQueues(z, x)
    BY DEF Context, SameButQueues
  <1>3. ASSUME NEW q \in Seq(Reply)
        PROVE  LET z == [x EXCEPT !.sent = q] IN
               /\ z \in Context /\ z.waitqueue = x.waitqueue /\ z.sent = q /\ z.outqueue = x.outqueue
               /\ SameButQueues(z, x)
    BY DEF Context, SameButQueues
  <1> QED
    BY <1>1, <1>2, <1>3

LEMMA AddIs ==
  ASSUME NEW c \in Clients, NEW x \in Context, NEW r \in Reply, NEW z \in AddToOutqueue(c, x, r)
  PROVE  /\ z \in Context /\ SameButQueues(z, x) /\ z.waitqueue = x.waitqueue
         /\ Replies(z) = Append(Replies(x), r)
  <1> DEFINE q == Append(x.outqueue, r)
             s == Append(x.sent, r)
  <1>1. q \in Seq(Reply) /\ s \in Seq(Reply)
    BY ContextIs, AppendIs
  <1>2. z = [x EXCEPT !.outqueue = q] \/ (x.outqueue = <<>> /\ z = [x EXCEPT !.sent = s])
    <2>1. x.outqueue # <<>> \/ x.fd # "open" \/ client[c].stage = "left"
            => z = [x EXCEPT !.outqueue = q]
      BY DEF AddToOutqueue
    <2>2. ~ (x.outqueue # <<>> \/ x.fd # "open" \/ client[c].stage = "left")
            => z = [x EXCEPT !.outqueue = q] \/ z = [x EXCEPT !.sent = s]
      BY DEF AddToOutqueue
    <2> QED
      BY <2>1, <2>2
  <1> HIDE DEF q, s
  <1>3. CASE z = [x EXCEPT !.outqueue = q]
    <2>1. /\ z \in Context /\ z.waitqueue = x.waitqueue /\ z.sent = x.sent /\ z.outqueue = q
          /\ SameButQueues(z, x)
      BY <1>1, <1>3, WithQueues
    <2>2. x.sent \o Append(x.outqueue, r) = Append(x.sent \o x.outqueue, r)
      <3>1. x.sent \in Seq(Reply) /\ x.outqueue \in Seq(Reply)
        BY ContextIs
      <3>2. \A a, b \in Seq(Reply) : a \o Append(b, r) = Append(a \o b, r)
        <4> TAKE a \in Seq(Reply), b \in Seq(Reply)
        <4> QED
          BY JoinAppend
      <3> QED
        BY <3>1, <3>2, Zenon
    <2>3. Replies(z) = Append(Replies(x), r)
      BY <2>1, <2>2 DEF Replies, q
    <2> QED
      BY <2>1, <2>3
  <1>4. CASE x.outqueue = <<>> /\ z = [x EXCEPT !.sent = s]
    <2>1. /\ z \in Context /\ z.waitqueue = x.waitqueue /\ z.sent = s /\ z.outqueue = x.outqueue
          /\ SameButQueues(z, x)
      BY <1>1, <1>4, WithQueues
    <2>2. Replies(z) = s \o <<>> /\ Replies(x) = x.sent \o <<>>
      BY <1>4, <2>1 DEF Replies
    <2>3. s \o <<>> = s /\ x.sent \o <<>> = x.sent
      BY <1>1, ContextIs, JoinNothing
    <2> QED
      BY <2>1, <2>2, <2>3 DEF s
  <1> QED
    BY <1>2, <1>3, <1>4

LEMMA FirstWaitingIs ==
  ASSUME NEW x \in Context, NEW mid, IsWaiting(x, mid)
  PROVE  /\ FirstWaiting(x, mid) \in DOMAIN x.waitqueue
         /\ x.waitqueue[FirstWaiting(x, mid)].mid = mid
         /\ \A j \in DOMAIN x.waitqueue : x.waitqueue[j].mid = mid => FirstWaiting(x, mid) <= j
  <1> DEFINE T == {i \in DOMAIN x.waitqueue : x.waitqueue[i].mid = mid}
  <1>1. T \in SUBSET Nat
    BY ContextIs, LengthIs
  <1>2. T # {}
    BY DEF IsWaiting
  <1>3. Min(T) \in T /\ \A m \in T : Min(T) <= m
    BY <1>1, <1>2, LeastNumber
  <1> QED
    BY <1>3 DEF FirstWaiting

LEMMA CurrentTreeIs ==
  ASSUME NEW x \in Context, x.tree_id_cur \in 0 .. Len(x.tree_id),
         x.tree_id # <<>> => x.tree_id_cur > 0
  PROVE  CurrentTree(x) \in Nat
  <1>1. CASE x.tree_id = <<>>
    BY <1>1 DEF CurrentTree, NoTree
  <1>2. CASE x.tree_id # <<>>
    <2>1. x.tree_id_cur \in DOMAIN x.tree_id
      BY <1>2, ContextIs, LengthIs
    <2>2. CurrentTree(x) = x.tree_id[x.tree_id_cur]
      BY <1>2 DEF CurrentTree
    <2> QED
      BY <2>1, <2>2, ContextIs, LengthIs
  <1> QED
    BY <1>1, <1>2

(* An entry whose answer has been announced.                               *)
Announced(w) == [w EXCEPT !.async = TRUE]

(* The reply that is queued for the request at i in the waitqueue.         *)
Answer(x, i, mid, rep) ==
  [mid |-> mid, command |-> rep.command, status |-> rep.status,
   tree |-> TreeOfReply(x, x.waitqueue[i], rep)]

(* The reply is queued and its request no longer waits, or has been told.  *)
Queued(z, x, i, mid, rep) ==
  /\ Answer(x, i, mid, rep) \in Reply
  /\ Replies(z) = Append(Replies(x), Answer(x, i, mid, rep))
  /\ z \in Context /\ SameButQueues(z, x)
  /\ rep.status = "PENDING" => z.waitqueue = [x.waitqueue EXCEPT ![i] = Announced(@)]
  /\ rep.status # "PENDING" => z.waitqueue = RemoveAt(x.waitqueue, i)

(* A reply finds its request (smb2_correlate_reply) and is queued for it.  *)
LEMMA QueueIs ==
  ASSUME NEW c \in Clients, NEW x \in Context, NEW mid \in Nat,
         NEW command \in Names, NEW status \in Statuses,
         IsWaiting(x, mid), mid = 0 => command = "NEGOTIATE",
         CurrentTree(x) \in Nat,
         NEW z \in QueuePdu(c, x, mid, Rep(command, status))
  PROVE  Queued(z, x, FirstWaiting(x, mid), mid, Rep(command, status))
  <1> DEFINE i == FirstWaiting(x, mid)
             rep == Rep(command, status)
             r == Answer(x, i, mid, rep)
             y == Correlated(x, i, rep)
             q == IF status = "PENDING" THEN [x.waitqueue EXCEPT ![i] = Announced(@)]
                  ELSE RemoveAt(x.waitqueue, i)
  <1>1. i \in DOMAIN x.waitqueue /\ x.waitqueue[i] \in Waiting /\ x.waitqueue \in Seq(Waiting)
    BY FirstWaitingIs, ContextIs, LengthIs
  <1>2. rep.command = command /\ rep.status = status /\ rep # NoRep
    <2>1. rep.command = command /\ rep.status = status
      BY DEF Rep
    <2>2. command # "none"
      BY DEF Names, Late, OnTrees, Turning, Negotiation
    <2> QED
      BY <2>1, <2>2 DEF NoRep, Rep
  <1>3. r \in Reply
    <2>1. x.waitqueue[i].tree \in Nat
      BY <1>1 DEF Waiting
    <2>2. TreeOfReply(x, x.waitqueue[i], rep) \in Nat
      BY <2>1 DEF TreeOfReply, NoTree
    <2> QED
      BY <1>2, <2>2 DEF Answer, Reply
  <1>4. z \in AddToOutqueue(c, y, r)
    BY <1>2 DEF QueuePdu, Answer
  <1>5. q \in Seq(Waiting)
    <2>1. CASE status = "PENDING"
      <3>1. Announced(x.waitqueue[i]) \in Waiting
        BY <1>1 DEF Waiting, Announced
      <3> QED
        BY <1>1, <2>1, <3>1
    <2>2. CASE status # "PENDING"
      BY <1>1, <2>2, RemoveAtIs
    <2> QED
      BY <2>1, <2>2
  <1>6. y = [x EXCEPT !.waitqueue = q]
    BY <1>2 DEF Correlated, Removed, Announced
  <1> HIDE DEF q, y, r, rep, i
  <1>7. /\ y \in Context /\ y.waitqueue = q /\ Replies(y) = Replies(x) /\ SameButQueues(y, x)
    BY <1>5, <1>6, WithQueues
  <1>8. /\ z \in Context /\ SameButQueues(z, y) /\ z.waitqueue = y.waitqueue
        /\ Replies(z) = Append(Replies(y), r)
    BY <1>3, <1>4, <1>7, AddIs
  <1>9. SameButQueues(z, x)
    BY <1>7, <1>8 DEF SameButQueues
  <1>10. r \in Reply /\ Replies(z) = Append(Replies(x), r) /\ z \in Context /\ z.waitqueue = y.waitqueue
         /\ y.waitqueue = q
    BY <1>3, <1>7, <1>8
  <1> QED
    BY <1>2, <1>9, <1>10 DEF q, r, rep, i, Queued

-----------------------------------------------------------------------------
(* Reading a request and answering it.                                     *)
InBounds(x) == x.tree_id_cur \in 0 .. Len(x.tree_id) /\ (x.tree_id # <<>> => x.tree_id_cur > 0)
SameButCurrent(z, x) ==
  /\ z.fd = x.fd /\ z.pdu = x.pdu /\ z.tree_id = x.tree_id /\ z.authenticated = x.authenticated
  /\ z.sent = x.sent /\ z.outqueue = x.outqueue

(* smb2_select_tree_id: a tree that is connected becomes the current one.  *)
LEMMA SelectIs ==
  ASSUME NEW x \in Context, InBounds(x), NEW tree
  PROVE  LET z == SelectTree(x, tree) IN
         /\ z \in Context /\ InBounds(z) /\ SameButCurrent(z, x) /\ z.waitqueue = x.waitqueue
         /\ tree \in ToSet(x.tree_id) => CurrentTree(z) = tree
  <1> DEFINE T == Places(x, tree)
  <1>1. x.tree_id \in Seq(Nat)
    BY ContextIs
  <1>2. CASE T = {}
    <2>1. SelectTree(x, tree) = x
      BY <1>2 DEF SelectTree
    <2>2. tree \notin ToSet(x.tree_id)
      BY <1>1, <1>2, ToSetIs DEF Places
    <2> QED
      BY <2>1, <2>2 DEF SameButCurrent
  <1>3. CASE T # {}
    <2>1. T \in SUBSET Nat
      BY <1>1, LengthIs DEF Places
    <2>2. Min(T) \in T
      BY <1>3, <2>1, LeastNumber
    <2>3. Min(T) \in 1 .. Len(x.tree_id) /\ x.tree_id[Min(T)] = tree /\ Min(T) \in Nat /\ Min(T) > 0
      BY <1>1, <2>2, LengthIs DEF Places
    <2>4. SelectTree(x, tree) = [x EXCEPT !.tree_id_cur = Min(T)]
      BY <1>3 DEF SelectTree
    <2> DEFINE n == Min(T)
               z == [x EXCEPT !.tree_id_cur = n]
    <2>5. n \in 1 .. Len(x.tree_id) /\ x.tree_id[n] = tree /\ n \in Nat /\ n > 0
      BY <2>3
    <2> HIDE DEF n
    <2>6. z \in Context /\ SameButCurrent(z, x) /\ z.waitqueue = x.waitqueue /\ z.tree_id_cur = n
      BY <2>5 DEF Context, SameButCurrent
    <2> HIDE DEF z
    <2>7. z.tree_id = x.tree_id
      BY <2>6 DEF SameButCurrent
    <2>8. n \in 0 .. Len(x.tree_id) /\ x.tree_id # <<>>
      BY <2>5
    <2>9. InBounds(z)
      BY <2>5, <2>6, <2>7, <2>8 DEF InBounds
    <2>10. CurrentTree(z) = tree
      BY <2>5, <2>6, <2>7, <2>8 DEF CurrentTree
    <2>11. SelectTree(x, tree) = z
      BY <2>4 DEF n, z
    <2> QED
      BY <2>6, <2>9, <2>10, <2>11
  <1> QED
    BY <1>2, <1>3

LEMMA RequestsAre == Requests \subseteq Names
  BY CommandsAssumption DEF Requests, Names, Late, OnTrees

Entry(x, req) ==
  [mid |-> req.mid, command |-> ReadAs(x, req), tree |-> req.tree, async |-> FALSE]

LEMMA EntryIs ==
  ASSUME NEW x \in Context, x.pdu \in Pdus, NEW req \in Message
  PROVE  Entry(x, req) \in Waiting
  <1>1. x.pdu.command \in Names
    BY DEF Pdus, ForNegotiate, ForSession, ForAnything, NextPdu, Names, Turning, Negotiation
  <1>2. req.mid \in Nat /\ req.command \in Names /\ req.tree \in Nat
    <2>1. req.mid \in Nat /\ req.command \in Requests /\ req.tree \in Nat
      BY DEF Message
    <2> QED
      BY <2>1, RequestsAre
  <1>3. ReadAs(x, req) \in Names
    BY <1>1, <1>2 DEF ReadAs
  <1> QED
    BY <1>2, <1>3 DEF Entry, Waiting

(* A request that is read enters the waitqueue and selects its tree.       *)
LEMMA TakenIs ==
  ASSUME NEW x \in Context, InBounds(x), x.pdu \in Pdus, NEW req \in Message
  PROVE  LET z == Taken(x, req) IN
         /\ z \in Context /\ InBounds(z) /\ SameButCurrent(z, x)
         /\ z.waitqueue = Append(x.waitqueue, Entry(x, req))
         /\ req.command \notin NoTreeCommands /\ req.tree \in ToSet(x.tree_id)
              => CurrentTree(z) = req.tree
  <1> DEFINE y == DecodeHeader(x, req)
             q == Append(x.waitqueue, Entry(x, req))
             z == [y EXCEPT !.waitqueue = q]
  <1>1. /\ y \in Context /\ InBounds(y) /\ SameButCurrent(y, x) /\ y.waitqueue = x.waitqueue
        /\ req.command \notin NoTreeCommands /\ req.tree \in ToSet(x.tree_id)
             => CurrentTree(y) = req.tree
    <2>1. CASE req.command \in NoTreeCommands
      BY <2>1 DEF DecodeHeader, SameButCurrent
    <2>2. CASE req.command \notin NoTreeCommands
      <3>1. y = SelectTree(x, req.tree)
        BY <2>2 DEF DecodeHeader
      <3> QED
        BY <3>1, SelectIs
    <2> QED
      BY <2>1, <2>2
  <1> HIDE DEF y
  <1>2. x.waitqueue \in Seq(Waiting) /\ q \in Seq(Waiting)
    BY ContextIs, EntryIs, AppendIs
  <1>3. Taken(x, req) = z
    BY <1>1 DEF Taken, Entry, y
  <1> HIDE DEF q
  <1>4. /\ z \in Context /\ z.waitqueue = q /\ z.sent = y.sent /\ z.outqueue = y.outqueue
        /\ SameButQueues(z, y)
    BY <1>1, <1>2, WithQueues
  <1> HIDE DEF z
  <1>5. SameButCurrent(z, x)
    BY <1>1, <1>4 DEF SameButCurrent, SameButQueues
  <1>6. z.tree_id = y.tree_id /\ z.tree_id_cur = y.tree_id_cur
    BY <1>4 DEF SameButQueues
  <1>7. InBounds(z)
    BY <1>1, <1>6 DEF InBounds
  <1>8. CurrentTree(z) = CurrentTree(y)
    BY <1>6 DEF CurrentTree
  <1> QED
    BY <1>1, <1>3, <1>4, <1>5, <1>7, <1>8 DEF q

(* The answer to a real request: its entry is the only one of its id.      *)
AnswerTo(x, req, command, status) ==
  [mid |-> req.mid, command |-> command, status |-> status,
   tree |-> IF command = "TREE_CONNECT" THEN CurrentTree(x)
            ELSE IF status = "PENDING" THEN NoTree ELSE req.tree]
WaitsAfter(wq, w, status) ==
  IF status = "PENDING" THEN Append(wq, Announced(w)) ELSE wq
IsAnswered(z, x, wq, w, r) ==
  /\ r \in Reply /\ Replies(z) = Append(Replies(x), r)
  /\ z \in Context /\ SameButQueues(z, x) /\ z.waitqueue = WaitsAfter(wq, w, r.status)

(* The request that was just read is the one its reply finds.              *)
LEMMA RealAnswer ==
  ASSUME NEW c \in Clients, NEW wq \in Seq(Waiting), NEW req \in Message, NEW w \in Waiting,
         w.mid = req.mid, w.tree = req.tree, w.async = FALSE,
         \A i \in DOMAIN wq : wq[i].mid # req.mid,
         NEW x \in Context, x.waitqueue = Append(wq, w), InBounds(x),
         NEW command \in Names, NEW status \in Statuses, req.mid = 0 => command = "NEGOTIATE",
         NEW z \in QueuePdu(c, x, req.mid, Rep(command, status))
  PROVE  IsAnswered(z, x, wq, w, AnswerTo(x, req, command, status))
  <1> DEFINE q == Append(wq, w)
             n == Len(wq) + 1
             i == FirstWaiting(x, req.mid)
             rep == Rep(command, status)
  <1>1. /\ q \in Seq(Waiting) /\ Len(q) = n /\ DOMAIN q = 1 .. n /\ n \in DOMAIN q /\ q[n] = w
        /\ \A j \in DOMAIN q : (j \in DOMAIN wq /\ q[j] = wq[j]) \/ j = n
    BY AppendIs, LengthIs
  <1>2. req.mid \in Nat
    BY DEF Message
  <1> HIDE DEF q, n
  <1>3. x.waitqueue = q
    BY DEF q
  <1>4. IsWaiting(x, req.mid)
    BY <1>1, <1>3 DEF IsWaiting
  <1>5. i \in DOMAIN q /\ q[i].mid = req.mid
    BY <1>3, <1>4, FirstWaitingIs
  <1>6. i = n
    BY <1>1, <1>5
  <1>7. CurrentTree(x) \in Nat
    BY CurrentTreeIs DEF InBounds
  <1> HIDE DEF i, rep
  <1>8. /\ Answer(x, i, req.mid, rep) \in Reply
        /\ Replies(z) = Append(Replies(x), Answer(x, i, req.mid, rep))
        /\ z \in Context /\ SameButQueues(z, x)
        /\ status = "PENDING" => z.waitqueue = [x.waitqueue EXCEPT ![i] = Announced(@)]
        /\ status # "PENDING" => z.waitqueue = RemoveAt(x.waitqueue, i)
    <2>1. Queued(z, x, i, req.mid, rep)
      BY <1>2, <1>4, <1>7, QueueIs DEF i, rep
    <2>2. rep.status = status
      BY DEF rep, Rep
    <2> QED
      BY <2>1, <2>2 DEF Queued
  <1>9. Answer(x, i, req.mid, rep) = AnswerTo(x, req, command, status)
    <2>1. x.waitqueue[i].tree = req.tree /\ x.waitqueue[i].async = FALSE
      BY <1>1, <1>3, <1>6
    <2>2. rep.command = command /\ rep.status = status
      BY DEF rep, Rep
    <2> QED
      BY <2>1, <2>2 DEF Answer, AnswerTo, TreeOfReply
  <1>10. ASSUME status = "PENDING" PROVE z.waitqueue = WaitsAfter(wq, w, status)
    <2>1. [q EXCEPT ![n] = Announced(@)] = Append(wq, Announced(w))
      <3> DEFINE v == Announced(w)
                 a == [q EXCEPT ![n] = v]
                 b == Append(wq, v)
      <3>1. v \in Waiting
        BY DEF Waiting, Announced
      <3> HIDE DEF v
      <3>2. /\ b \in Seq(Waiting) /\ Len(b) = Len(wq) + 1 /\ b[Len(wq) + 1] = v
            /\ \A j \in DOMAIN wq : b[j] = wq[j]
        BY <3>1, AppendIs
      <3>3. a \in Seq(Waiting) /\ Len(a) = n /\ a[n] = v /\ \A j \in DOMAIN q : j # n => a[j] = q[j]
        BY <1>1, <3>1
      <3>4. [q EXCEPT ![n] = Announced(@)] = a
        BY <1>1 DEF v
      <3> HIDE DEF a, b
      <3>5. \A j \in 1 .. Len(a) : a[j] = b[j]
        BY <1>1, <3>2, <3>3 DEF n
      <3>6. a = b
        BY <3>2, <3>3, <3>5, SameSequence DEF n
      <3> QED
        BY <3>4, <3>6 DEF a, b, v
    <2> QED
      BY <1>3, <1>6, <1>8, <1>10, <2>1 DEF WaitsAfter
  <1>11. ASSUME status # "PENDING" PROVE z.waitqueue = WaitsAfter(wq, w, status)
    <2>1. RemoveAt(q, n) = wq
      BY RemoveLast DEF q, n
    <2> QED
      BY <1>3, <1>6, <1>8, <1>11, <2>1 DEF WaitsAfter
  <1>12. AnswerTo(x, req, command, status).status = status
    BY DEF AnswerTo
  <1> QED
    BY <1>8, <1>9, <1>10, <1>11, <1>12 DEF IsAnswered

LEMMA AnnouncedIs ==
  ASSUME NEW w \in Waiting
  PROVE  /\ Announced(w) \in Waiting /\ Announced(w).async = TRUE /\ Announced(w).mid = w.mid
         /\ Announced(w).command = w.command /\ Announced(w).tree = w.tree
         /\ (Real(Announced(w)) <=> Real(w)) /\ Asks(Announced(w)) = Asks(w)
  BY DEF Announced, Waiting, Real, Asks

(* A real request leaves the socket and its reply is queued.               *)
LEMMA PlacesAnswered ==
  ASSUME NEW box \in Seq(Message), NEW wq \in Seq(Waiting), NEW out \in Seq(Reply), box # <<>>,
         Real(Head(box)), InOnePlace(box, wq, out), Once(out),
         NEW w \in Waiting, w.mid = Head(box).mid,
         NEW r \in Reply, r.mid = Head(box).mid,
         r.status = "PENDING" => Real(w) /\ w.command \in Late
  PROVE  /\ InOnePlace(Tail(box), WaitsAfter(wq, w, r.status), Append(out, r))
         /\ Once(Append(out, r))
         /\ WaitsAfter(wq, w, r.status) \in Seq(Waiting)
         /\ \A i \in DOMAIN wq : wq[i].mid # Head(box).mid
  <1> DEFINE b == Tail(box)
             mid == Head(box).mid
             v == Announced(w)
  <1>1. /\ b \in Seq(Message) /\ Head(box) = box[1] /\ 1 \in DOMAIN box /\ Part(b, box)
        /\ \A i \in DOMAIN b : i + 1 \in DOMAIN box /\ 1 < i + 1 /\ b[i] = box[i + 1]
    BY TailIs, LengthIs
  <1>2. Part(wq, wq) /\ Part(out, out)
    BY SameIsPart
  <1>3. \A j \in DOMAIN b : Real(b[j]) => b[j].mid # mid
    BY <1>1 DEF InOnePlace
  <1>4. \A i \in DOMAIN wq : wq[i].mid # mid
    BY <1>1 DEF InOnePlace
  <1>5. \A i \in DOMAIN out : out[i].mid # mid
    BY <1>1 DEF InOnePlace
  <1>6. v \in Waiting /\ v.async = TRUE /\ v.mid = mid /\ v.command = w.command
        /\ (Real(v) <=> Real(w))
    BY AnnouncedIs
  <1> HIDE DEF b, mid, v
  <1>7. InOnePlace(b, wq, out)
    BY <1>1, <1>2, PlacesOfPart
  <1>8. Once(Append(out, r))
    BY <1>5, OnceReply DEF mid
  <1>9. CASE r.status = "PENDING"
    <2>1. InOnePlace(b, Append(wq, v), out) /\ Append(wq, v) \in Seq(Waiting)
      <3>1. Append(wq, v) \in Seq(Waiting)
        BY <1>6, AppendIs
      <3>2. InOnePlace(b, Append(wq, v), out)
        BY <1>1, <1>3, <1>4, <1>5, <1>6, <1>7, <1>9, PlacesWait
      <3> QED
        BY <3>1, <3>2
    <2>2. InOnePlace(b, Append(wq, v), Append(out, r))
      BY <1>1, <1>3, <1>9, <2>1, PlacesReply DEF mid
    <2> QED
      BY <1>4, <1>8, <1>9, <2>1, <2>2 DEF WaitsAfter, v, b, mid
  <1>10. CASE r.status # "PENDING"
    <2>1. InOnePlace(b, wq, Append(out, r))
      BY <1>1, <1>3, <1>4, <1>7, PlacesReply DEF mid
    <2> QED
      BY <1>4, <1>8, <1>10, <2>1 DEF WaitsAfter, b, mid
  <1> QED
    BY <1>9, <1>10

LEMMA AskedAnswered ==
  ASSUME NEW box \in Seq(Message), NEW wq \in Seq(Waiting), NEW out \in Seq(Reply), box # <<>>,
         NEW stage, NEW asked, NEW next, IsAsked(box, wq, out, stage, asked, next),
         Real(Head(box)), NEW w \in Waiting, NEW r \in Reply, r.mid = Head(box).mid,
         r.status = "PENDING" => Asks(w) = Asks(Head(box)),
         Answers(r, Asks(Head(box)))
  PROVE  IsAsked(Tail(box), WaitsAfter(wq, w, r.status), Append(out, r), stage, asked, next)
  <1> DEFINE b == Tail(box)
             req == Head(box)
             v == Announced(w)
  <1>1. b \in Seq(Message) /\ req = box[1] /\ 1 \in DOMAIN box /\ Part(b, box) /\ req \in Message
    BY TailIs, LengthIs
  <1>2. req.mid < next /\ Asks(req) \in asked
    BY <1>1 DEF IsAsked
  <1>3. Part(wq, wq) /\ Part(out, out)
    BY SameIsPart
  <1>4. v \in Waiting /\ v.mid = w.mid /\ Asks(v) = Asks(w)
    BY AnnouncedIs
  <1>5. r.status = "PENDING" => w.mid = req.mid
    BY DEF Asks
  <1> HIDE DEF b, req, v
  <1>6. IsAsked(b, wq, out, stage, asked, next)
    BY <1>1, <1>3, AskedOfPart
  <1>7. IsAsked(b, WaitsAfter(wq, w, r.status), out, stage, asked, next)
    <2>1. CASE r.status = "PENDING"
      <3>1. IsAsked(b, Append(wq, v), out, stage, asked, next)
        BY <1>2, <1>4, <1>5, <1>6, <2>1, AskedWait DEF req
      <3> QED
        BY <2>1, <3>1 DEF WaitsAfter, v
    <2>2. CASE r.status # "PENDING"
      BY <1>6, <2>2 DEF WaitsAfter
    <2> QED
      BY <2>1, <2>2
  <1> HIDE DEF WaitsAfter
  <1>8. IsAsked(b, WaitsAfter(wq, w, r.status), Append(out, r), stage, asked, next)
    BY <1>2, <1>7, AskedReply DEF req
  <1> QED
    BY <1>8 DEF b

(* The stage to be after a reply.                                          *)
LEMMA ToBeAnswered ==
  ASSUME NEW box \in Seq(Message), NEW wq \in Seq(Waiting), NEW out \in Seq(Reply), box # <<>>,
         NEW stage, NEW asked, NEW next, InOnePlace(box, wq, out),
         IsAsked(box, wq, out, stage, asked, next), NEW pdu, ToBeIn(pdu, wq, out, stage),
         NEW w \in Waiting, NEW r \in Reply, NEW pdu2, StatusFits(r),
         r.status = "PENDING" => w.command = r.command
                                   \/ (w.command \notin Turning /\ r.command \notin Turning),
         IF Head(box).command \in Turning
         THEN /\ r.command \in Turning
              /\ r.status # "PENDING" => pdu2 = PduAfter(r)
              /\ r.status = "PENDING" => r.command = "LOGOFF" /\ pdu2 = ForSession
         ELSE r.command \notin Turning /\ pdu2 = pdu
  PROVE  ToBeIn(pdu2, WaitsAfter(wq, w, r.status), Append(out, r), stage)
  <1> DEFINE o == Append(out, r)
             q == WaitsAfter(wq, w, r.status)
             v == Announced(w)
  <1>1. /\ \A i \in DOMAIN o : (i \in DOMAIN out /\ o[i] = out[i]) \/ o[i] = r
        /\ \A i \in DOMAIN out : i \in DOMAIN o /\ o[i] = out[i]
        /\ Len(out) + 1 \in DOMAIN o /\ o[Len(out) + 1] = r
    BY AppendIs, LengthIs
  <1>2. v \in Waiting /\ v.command = w.command
    BY AnnouncedIs
  <1>3. /\ \A i \in DOMAIN q : (i \in DOMAIN wq /\ q[i] = wq[i]) \/ (r.status = "PENDING" /\ q[i] = v)
        /\ \A i \in DOMAIN wq : i \in DOMAIN q /\ q[i] = wq[i]
        /\ r.status = "PENDING" => \E i \in DOMAIN q : q[i] = v
    <2>1. CASE r.status = "PENDING"
      <3>1. q = Append(wq, v)
        BY <2>1 DEF WaitsAfter
      <3>2. /\ \A i \in DOMAIN Append(wq, v) : (i \in DOMAIN wq /\ Append(wq, v)[i] = wq[i])
                                               \/ Append(wq, v)[i] = v
            /\ \A i \in DOMAIN wq : i \in DOMAIN Append(wq, v) /\ Append(wq, v)[i] = wq[i]
            /\ Len(wq) + 1 \in DOMAIN Append(wq, v) /\ Append(wq, v)[Len(wq) + 1] = v
        BY <1>2, AppendIs, LengthIs
      <3> QED
        BY <2>1, <3>1, <3>2
    <2>2. CASE r.status # "PENDING"
      BY <2>2 DEF WaitsAfter
    <2> QED
      BY <2>1, <2>2
  <1> HIDE DEF o, q, v
  <1>4. CASE Head(box).command \in Turning
    <2>1. /\ \A i \in DOMAIN out : out[i].command = "CANCEL"
          /\ \A i \in DOMAIN wq : wq[i].command = "CANCEL"
      BY <1>4, OnlyOne
    <2>2. \A i \in DOMAIN o : StatusFits(o[i]) /\ (Turns(o[i]) => pdu2 = PduAfter(o[i]))
      <3> SUFFICES ASSUME NEW i \in DOMAIN o
                   PROVE  StatusFits(o[i]) /\ (Turns(o[i]) => pdu2 = PduAfter(o[i]))
        OBVIOUS
      <3>1. CASE o[i] = r
        BY <1>4, <3>1 DEF Turns
      <3>2. CASE i \in DOMAIN out /\ o[i] = out[i]
        BY <2>1, <3>2 DEF Turns, Turning, Negotiation, StatusFits
      <3> QED
        BY <1>1, <3>1, <3>2
    <2>3. \A i \in DOMAIN q : q[i].command = "LOGOFF" => pdu2 = ForSession
      <3> SUFFICES ASSUME NEW i \in DOMAIN q, q[i].command = "LOGOFF" PROVE pdu2 = ForSession
        OBVIOUS
      <3>1. r.status = "PENDING"
        BY <1>3, <2>1
      <3> QED
        BY <1>4, <3>1
    <2>4. (\E i \in DOMAIN o : Turns(o[i])) \/ \E i \in DOMAIN q : q[i].command = "LOGOFF"
      <3>1. CASE r.status # "PENDING"
        BY <1>1, <1>4, <3>1 DEF Turns
      <3>2. CASE r.status = "PENDING"
        <4>1. v.command = "LOGOFF"
          BY <1>2, <1>4, <3>2
        <4> QED
          BY <1>3, <3>2, <4>1
      <3> QED
        BY <3>1, <3>2
    <2>5. ToBeIn(pdu2, q, o, stage)
      BY <2>2, <2>3, <2>4 DEF ToBeIn
    <2> QED
      BY <2>5 DEF o, q
  <1>5. CASE Head(box).command \notin Turning
    <2>1. r.status = "PENDING" => v.command # "LOGOFF"
      BY <1>2, <1>5 DEF Turning
    <2>2. \A i \in DOMAIN o : (\E k \in DOMAIN out : o[i] = out[k]) \/ o[i].command \notin Turning
      BY <1>1, <1>5
    <2>3. \A i \in DOMAIN q : (\E k \in DOMAIN wq : q[i] = wq[k]) \/ q[i].command # "LOGOFF"
      BY <1>3, <2>1
    <2>4. ToBeIn(pdu, q, o, stage)
      BY <1>1, <1>3, <2>2, <2>3, ToBeSame
    <2> QED
      BY <1>5, <2>4 DEF o, q
  <1> QED
    BY <1>4, <1>5

-----------------------------------------------------------------------------
(* A request and its reply.                                                *)
RightReply(req, command, status) ==
  /\ command \in Names /\ status \in Statuses /\ StatusFits(Rep(command, status))
  /\ command = req.command \/ (req.command = "SMB1_NEGOTIATE" /\ command = "NEGOTIATE")
     \/ (req.command = "OPLOCK_BREAK" /\ command = "LOCK")
  /\ status = "PENDING" => req.command \in Late
RightPdu(req, command, status, pdu, pdu2) ==
  IF req.command \in Turning
  THEN pdu2 = IF status = "PENDING" THEN ForSession ELSE PduAfter(Rep(command, status))
  ELSE pdu2 = pdu

QueuesAre(z, x, out, r, box, u, pdu) ==
  /\ z \in Context /\ SameButQueues(z, x) /\ r \in Reply /\ Replies(z) = Append(out, r)
  /\ InOnePlace(box, z.waitqueue, Replies(z))
  /\ Once(Replies(z))
  /\ u.stage # "left" =>
       /\ IsAsked(box, z.waitqueue, Replies(z), u.stage, u.asked, u.next_id)
       /\ ToBeIn(pdu, z.waitqueue, Replies(z), u.stage)

(* The queues after a request and its reply keep what the client expects.  *)
LEMMA QueuesAnswered ==
  ASSUME NEW c \in Clients, NEW y \in Context, NEW box \in Seq(Message), NEW u \in Client,
         NEW s, Once(Replies(y)), Kept(y, box, u, s), y.fd = "open", y.pdu \in Pdus,
         box # <<>>, Real(Head(box)), IsRead(y, Head(box)),
         NEW x \in Context, InBounds(x), Replies(x) = Replies(y),
         x.waitqueue = Append(y.waitqueue, Entry(y, Head(box))),
         NEW command, NEW status, RightReply(Head(box), command, status),
         NEW pdu2, RightPdu(Head(box), command, status, y.pdu, pdu2),
         NEW z \in QueuePdu(c, x, Head(box).mid, Rep(command, status))
  PROVE  QueuesAre(z, x, Replies(y), AnswerTo(x, Head(box), command, status), Tail(box), u, pdu2)
  <1> DEFINE req == Head(box)
             w == Entry(y, req)
             r == AnswerTo(x, req, command, status)
             wq == y.waitqueue
             out == Replies(y)
  <1>1. req = box[1] /\ 1 \in DOMAIN box /\ req \in Message
    BY TailIs, LengthIs
  <1>2. w \in Waiting /\ w.mid = req.mid /\ w.tree = req.tree /\ w.async = FALSE
        /\ w.command = ReadAs(y, req)
    BY <1>1, EntryIs DEF Entry
  <1>3. wq \in Seq(Waiting) /\ out \in Seq(Reply)
    BY ContextIs
  <1>4. /\ InOnePlace(box, wq, out) /\ InStage(y.pdu, y.authenticated, box)
        /\ u.stage # "left" => /\ IsAsked(box, wq, out, u.stage, u.asked, u.next_id)
                               /\ ToBeIn(y.pdu, wq, out, u.stage)
    BY DEF Kept, PduToCome
  <1>5. command \in Names /\ status \in Statuses
    BY DEF RightReply
  <1>6. status = "PENDING" => w.command = req.command /\ w.command \in Late /\ Real(w)
    BY <1>2 DEF RightReply, IsRead, Late, OnTrees, Real
  <1>7. status = "PENDING" => Asks(w) = Asks(req)
    BY <1>2, <1>6 DEF Asks
  <1>8. req.mid = 0 => command = "NEGOTIATE"
    <2>1. req.mid = 0 => req.command \in Negotiation
      BY <1>1, <1>4 DEF InStage
    <2> QED
      BY <2>1 DEF RightReply, Negotiation, StatusFits, Rep
  <1>9. r.mid = req.mid /\ r.command = command /\ r.status = status
    BY DEF AnswerTo
  <1>10. Answers(r, Asks(req))
    <2>1. Asks(req).mid = req.mid /\ Asks(req).command = req.command /\ Asks(req).tree = req.tree
      BY DEF Asks
    <2>2. r.tree \in {req.tree, NoTree} \/ r.command = "TREE_CONNECT"
      BY DEF AnswerTo
    <2> QED
      BY <1>9, <2>1, <2>2 DEF Answers, RightReply
  <1>11. Real(req)
    OBVIOUS
  <1> HIDE DEF req, w, r, wq, out
  <1>12. \A i \in DOMAIN wq : wq[i].mid # req.mid
    BY <1>1, <1>4, <1>11 DEF InOnePlace
  <1>13. /\ r \in Reply /\ Replies(z) = Append(Replies(x), r)
         /\ z \in Context /\ SameButQueues(z, x) /\ z.waitqueue = WaitsAfter(wq, w, status)
    <2>1. IsAnswered(z, x, wq, w, r)
      BY <1>1, <1>2, <1>3, <1>5, <1>8, <1>12, RealAnswer DEF req, w, r, wq
    <2> QED
      BY <1>9, <2>1 DEF IsAnswered
  <1>14. InOnePlace(Tail(box), WaitsAfter(wq, w, status), Append(out, r)) /\ Once(Append(out, r))
    BY <1>2, <1>3, <1>4, <1>6, <1>9, <1>11, <1>13, PlacesAnswered DEF req, out
  <1>15. ASSUME u.stage # "left"
         PROVE  /\ IsAsked(Tail(box), WaitsAfter(wq, w, status), Append(out, r),
                           u.stage, u.asked, u.next_id)
                /\ ToBeIn(pdu2, WaitsAfter(wq, w, status), Append(out, r), u.stage)
    <2>1. IsAsked(box, wq, out, u.stage, u.asked, u.next_id) /\ ToBeIn(y.pdu, wq, out, u.stage)
      BY <1>4, <1>15
    <2>2. IsAsked(Tail(box), WaitsAfter(wq, w, status), Append(out, r), u.stage, u.asked, u.next_id)
      BY <1>2, <1>3, <1>7, <1>9, <1>10, <1>11, <1>13, <2>1, AskedAnswered DEF req
    <2>3. StatusFits(r)
      BY <1>9 DEF RightReply, StatusFits, Rep
    <2>4. req.command \in Turning <=> r.command \in Turning
      BY <1>9 DEF RightReply, Turning, Negotiation, req
    <2>5. r.status = "PENDING" => w.command = r.command
                                   \/ (w.command \notin Turning /\ r.command \notin Turning)
      BY <1>6, <1>9, <2>4 DEF RightReply, Late, OnTrees, Turning, Negotiation, req
    <2>6. PduAfter(Rep(command, status)) = PduAfter(r)
      BY <1>9 DEF PduAfter, Rep
    <2>7. IF Head(box).command \in Turning
          THEN /\ r.command \in Turning
               /\ r.status # "PENDING" => pdu2 = PduAfter(r)
               /\ r.status = "PENDING" => r.command = "LOGOFF" /\ pdu2 = ForSession
          ELSE r.command \notin Turning /\ pdu2 = y.pdu
      <3>1. CASE req.command \in Turning
        <4>1. pdu2 = IF status = "PENDING" THEN ForSession ELSE PduAfter(r)
          BY <2>6, <3>1 DEF RightPdu, req
        <4>2. status = "PENDING" => r.command = "LOGOFF"
          BY <1>9, <3>1 DEF RightReply, Late, OnTrees, Turning, Negotiation, req
        <4> QED
          BY <1>9, <2>4, <3>1, <4>1, <4>2 DEF req
      <3>2. CASE req.command \notin Turning
        BY <2>4, <3>2 DEF RightPdu, req
      <3> QED
        BY <3>1, <3>2
    <2>8. ToBeIn(pdu2, WaitsAfter(wq, w, r.status), Append(out, r), u.stage)
      BY <1>2, <1>3, <1>4, <1>13, <2>1, <2>3, <2>5, <2>7, ToBeAnswered
    <2> QED
      BY <1>9, <2>2, <2>8
  <1>16. Replies(z) = Append(out, r)
    BY <1>13 DEF out
  <1> QED
    BY <1>13, <1>14, <1>15, <1>16 DEF req, r, out, QueuesAre

LEMMA WithPdu ==
  ASSUME NEW x \in Context, NEW pdu \in Pdus \cup {NoPdu}
  PROVE  LET z == [x EXCEPT !.pdu = pdu] IN
         /\ z \in Context /\ z.pdu = pdu /\ z.fd = x.fd /\ z.waitqueue = x.waitqueue
         /\ Replies(z) = Replies(x) /\ z.tree_id = x.tree_id /\ z.tree_id_cur = x.tree_id_cur
         /\ z.authenticated = x.authenticated /\ CurrentTree(z) = CurrentTree(x)
  BY DEF Context, Replies, CurrentTree

LEMMA PduAfterIs ==
  ASSUME NEW command, NEW status
  PROVE  PduAfter(Rep(command, status)) \in Pdus
  BY DEF PduAfter, Pdus

(* A request that has been answered leaves an open connection as it was.   *)
LEMMA ConnectionAnswered ==
  ASSUME NEW z \in Context, InBounds(z), z.fd = "open", NEW pdu2 \in Pdus,
         NEW box \in Seq(Message), box # <<>>, NEW u \in Client, NEW s, NEW pdu, NEW auth,
         InOnePlace(Tail(box), z.waitqueue, Replies(z)), Once(Replies(z)),
         u.stage # "left" =>
           /\ IsAsked(Tail(box), z.waitqueue, Replies(z), u.stage, u.asked, u.next_id)
           /\ ToBeIn(pdu2, z.waitqueue, Replies(z), u.stage),
         InStage(pdu, auth, box), pdu2 = ForAnything => z.authenticated,
         Head(box).command \in Turning \/ pdu2 = pdu,
         s <= MaxTrees + 1 => /\ \A t \in Known(u.held, Replies(z)) : t < s
                              /\ OnKeptTrees(Tail(box), Replies(z), z.tree_id, u.held, s)
  PROVE  OneClient([z EXCEPT !.pdu = pdu2], Tail(box), u, s)
  <1> DEFINE v == [z EXCEPT !.pdu = pdu2]
  <1>1. /\ v \in Context /\ v.pdu = pdu2 /\ v.fd = "open" /\ v.waitqueue = z.waitqueue
        /\ Replies(v) = Replies(z) /\ v.tree_id = z.tree_id /\ v.tree_id_cur = z.tree_id_cur
        /\ v.authenticated = z.authenticated
    BY WithPdu
  <1> HIDE DEF v
  <1>2. Tail(box) \in Seq(Message)
    BY TailIs
  <1>3. Typed(v, Tail(box), u)
    BY <1>1, <1>2, PdusDiffer DEF Typed, InBounds
  <1>4. PduToCome(v) = pdu2
    BY <1>1 DEF PduToCome
  <1>5. InStage(pdu2, v.authenticated, Tail(box))
    BY <1>1, StageHandled
  <1>6. Kept(v, Tail(box), u, s)
    BY <1>1, <1>4, <1>5 DEF Kept
  <1>7. OneClient(v, Tail(box), u, s)
    BY <1>1, <1>3, <1>6 DEF OneClient
  <1> QED
    BY <1>7 DEF v

-----------------------------------------------------------------------------
(* One client moves.  Its trees were known, or one is the next.            *)
Steps(x, box, u, s, x2, box2, u2, s2) ==
  /\ OneClient(x2, box2, u2, s2)
  /\ s2 \in {s, s + 1}
  /\ s2 <= MaxTrees + 1 =>
       \A t \in Known(u2.held, Replies(x2)) :
         t \in Known(u.held, Replies(x)) \/ (s2 = s + 1 /\ t = s)

LEMMA CallbackIs ==
  ASSUME NEW pdu \in Pdus
  PROVE  /\ pdu.cb = "negotiate" => pdu = ForNegotiate
         /\ pdu.cb = "session" => pdu = ForSession
         /\ pdu.cb = "general" => pdu = ForAnything
  BY DEF Pdus, ForNegotiate, ForSession, ForAnything, NextPdu

LEMMA PduForIs ==
  ASSUME NEW m
  PROVE  /\ PduFor(m) = ForNegotiate => m.command \in Negotiation
         /\ PduFor(m) = ForSession => m.command = "SESSION_SETUP"
         /\ PduFor(m) = ForAnything => m.command \notin Negotiation
  BY PdusDiffer DEF PduFor

(* A connection that is closed has nothing to keep but its replies' order. *)
LEMMA ClosedIs ==
  ASSUME NEW x \in Context, NEW y, NEW box, NEW u, NEW s, OneClient(y, box, u, s),
         Replies(x) = Replies(y), NEW box2 \in Seq(Message), NEW pdu \in Pdus \cup {NoPdu}
  PROVE  /\ Steps(y, box, u, s, smb2_close_context(x), box2, u, s)
         /\ Steps(y, box, u, s, [smb2_close_context(x) EXCEPT !.pdu = pdu], box2, u, s)
  <1>1. ASSUME NEW z \in Context, z.fd = "closed", z.tree_id = <<>>, z.tree_id_cur = 0,
               Replies(z) = Replies(y)
        PROVE  Steps(y, box, u, s, z, box2, u, s)
    <2>1. u \in Client
      BY DEF OneClient, Typed
    <2>2. Typed(z, box2, u)
      BY <1>1, <2>1 DEF Typed
    <2>3. ~ Live(z)
      BY <1>1 DEF Live
    <2> QED
      BY <1>1, <2>2, <2>3 DEF OneClient, Steps
  <1> DEFINE z == smb2_close_context(x)
             v == [z EXCEPT !.pdu = pdu]
  <1>2. z \in Context /\ z.fd = "closed" /\ z.tree_id = <<>> /\ z.tree_id_cur = 0
        /\ Replies(z) = Replies(x)
    <2>1. <<>> \in Seq(Nat) /\ 0 \in Nat
      OBVIOUS
    <2>2. z \in Context /\ z.fd = "closed" /\ z.tree_id = <<>> /\ z.tree_id_cur = 0
          /\ z.sent = x.sent /\ z.outqueue = x.outqueue
      BY <2>1 DEF smb2_close_context, Context
    <2> QED
      BY <2>2 DEF Replies
  <1> HIDE DEF z
  <1>3. v \in Context /\ v.fd = "closed" /\ v.tree_id = <<>> /\ v.tree_id_cur = 0
        /\ Replies(v) = Replies(x)
    BY <1>2, WithPdu
  <1> HIDE DEF v
  <1> QED
    BY <1>1, <1>2, <1>3 DEF z, v

LEMMA TreesAnswered ==
  ASSUME NEW box \in Seq(Message), box # <<>>, NEW out \in Seq(Reply), NEW r \in Reply, ~ Connects(r),
         NEW tree_id, NEW held, NEW s,
         s <= MaxTrees + 1 => /\ \A t \in Known(held, out) : t < s
                              /\ OnKeptTrees(box, out, tree_id, held, s)
  PROVE  /\ s <= MaxTrees + 1 => /\ \A t \in Known(held, Append(out, r)) : t < s
                                 /\ OnKeptTrees(Tail(box), Append(out, r), tree_id, held, s)
         /\ \A t \in Known(held, Append(out, r)) : t \in Known(held, out)
  <1>1. Tail(box) \in Seq(Message) /\ Part(Tail(box), box)
    BY TailIs
  <1>2. \A t : t \in Known(held, Append(out, r)) <=> t \in Known(held, out)
    BY KnownReply
  <1>3. ASSUME s <= MaxTrees + 1
        PROVE  OnKeptTrees(Tail(box), Append(out, r), tree_id, held, s)
    <2>1. OnKeptTrees(Tail(box), out, tree_id, held, s)
      BY <1>1, <1>3, TreesOfPart
    <2> QED
      BY <2>1, TreesReply
  <1> QED
    BY <1>2, <1>3

(* A request that connects and disconnects no tree.                        *)
LEMMA PlainStep ==
  ASSUME NEW c \in Clients, NEW y, NEW box, NEW u, NEW s,
         OneClient(y, box, u, s), y.fd = "open", box # <<>>, Real(Head(box)), IsRead(y, Head(box)),
         NEW x \in Context, InBounds(x), x.fd = "open", Replies(x) = Replies(y), x.tree_id = y.tree_id,
         x.waitqueue = Append(y.waitqueue, Entry(y, Head(box))),
         NEW command, NEW status, RightReply(Head(box), command, status),
         ~ Connects(Rep(command, status)),
         NEW pdu2 \in Pdus, RightPdu(Head(box), command, status, y.pdu, pdu2),
         pdu2 = ForAnything => x.authenticated,
         NEW z \in QueuePdu(c, x, Head(box).mid, Rep(command, status))
  PROVE  Steps(y, box, u, s, [z EXCEPT !.pdu = pdu2], Tail(box), u, s)
  <1> DEFINE r == AnswerTo(x, Head(box), command, status)
             v == [z EXCEPT !.pdu = pdu2]
  <1>1. /\ y \in Context /\ box \in Seq(Message) /\ u \in Client /\ y.pdu \in Pdus
        /\ Once(Replies(y)) /\ Kept(y, box, u, s)
        /\ s <= MaxTrees + 1 => \A t \in Known(u.held, Replies(y)) : t < s
    <2>1. y \in Context /\ box \in Seq(Message) /\ u \in Client /\ y.pdu # NoPdu
      BY DEF OneClient, Typed
    <2>2. y.pdu \in Pdus
      BY <2>1, ContextIs
    <2>3. Live(y)
      BY DEF Live
    <2> QED
      BY <2>1, <2>2, <2>3 DEF OneClient
  <1>2. Replies(y) \in Seq(Reply)
    BY <1>1, ContextIs
  <1>3. /\ z \in Context /\ SameButQueues(z, x) /\ r \in Reply
        /\ Replies(z) = Append(Replies(y), r)
        /\ InOnePlace(Tail(box), z.waitqueue, Replies(z))
        /\ Once(Replies(z))
        /\ u.stage # "left" =>
             /\ IsAsked(Tail(box), z.waitqueue, Replies(z), u.stage, u.asked, u.next_id)
             /\ ToBeIn(pdu2, z.waitqueue, Replies(z), u.stage)
    <2>1. QueuesAre(z, x, Replies(y), r, Tail(box), u, pdu2)
      BY <1>1, QueuesAnswered
    <2> QED
      BY <2>1 DEF QueuesAre
  <1>4. ~ Connects(r)
    BY DEF Connects, AnswerTo, Rep
  <1>5. z.fd = "open" /\ z.tree_id = y.tree_id /\ InBounds(z) /\ z.authenticated = x.authenticated
    BY <1>3 DEF SameButQueues, InBounds
  <1> HIDE DEF r
  <1>6. s <= MaxTrees + 1 => OnKeptTrees(box, Replies(y), z.tree_id, u.held, s)
    BY <1>1, <1>5 DEF Kept
  <1>7. /\ s <= MaxTrees + 1 => /\ \A t \in Known(u.held, Append(Replies(y), r)) : t < s
                                /\ OnKeptTrees(Tail(box), Append(Replies(y), r), z.tree_id, u.held, s)
        /\ \A t \in Known(u.held, Append(Replies(y), r)) : t \in Known(u.held, Replies(y))
    BY <1>1, <1>2, <1>3, <1>4, <1>6, TreesAnswered
  <1>8. InStage(y.pdu, y.authenticated, box)
    BY <1>1 DEF Kept, PduToCome
  <1>9. Head(box).command \in Turning \/ pdu2 = y.pdu
    BY DEF RightPdu
  <1>10. s <= MaxTrees + 1 => /\ \A t \in Known(u.held, Replies(z)) : t < s
                              /\ OnKeptTrees(Tail(box), Replies(z), z.tree_id, u.held, s)
    BY <1>3, <1>7
  <1>11. OneClient(v, Tail(box), u, s)
    BY <1>1, <1>3, <1>5, <1>8, <1>9, <1>10, ConnectionAnswered
  <1>12. Replies(v) = Replies(z)
    BY <1>3, WithPdu
  <1> HIDE DEF v
  <1>13. \A t \in Known(u.held, Replies(v)) : t \in Known(u.held, Replies(y))
    BY <1>3, <1>7, <1>12
  <1>14. Steps(y, box, u, s, v, Tail(box), u, s)
    BY <1>11, <1>13 DEF Steps
  <1> QED
    BY <1>14 DEF v

-----------------------------------------------------------------------------
(* The others stay as they are, whatever one client does.                  *)
LEMMA NextIsMore ==
  ASSUME NEW x, NEW box, NEW u, NEW s \in Nat, NEW s2 \in {s, s + 1}, OneClient(x, box, u, s)
  PROVE  OneClient(x, box, u, s2)
  <1>1. MaxTrees \in Nat
    BY BoundsAssumption
  <1>2. /\ s2 <= MaxTrees + 1 => s <= MaxTrees + 1
        /\ \A t \in Nat : t < s => t < s2
    BY <1>1
  <1>3. x \in Context /\ box \in Seq(Message) /\ u \in Client
    BY DEF OneClient, Typed
  <1>4. Replies(x) \in Seq(Reply)
    BY <1>3, ContextIs
  <1>5. \A t \in Known(u.held, Replies(x)) : t \in Nat
    <2>1. u.held \subseteq Nat
      BY <1>3 DEF Client
    <2>2. \A i \in DOMAIN Replies(x) : Replies(x)[i] \in Reply
      BY <1>4, LengthIs
    <2>3. \A r \in Reply : r.tree \in Nat
      BY DEF Reply
    <2> QED
      BY <2>1, <2>2, <2>3, KnownIs
  <1>6. s2 <= MaxTrees + 1 => \A t \in Known(u.held, Replies(x)) : t < s2
    BY <1>2, <1>5 DEF OneClient
  <1>7. ASSUME OnKeptTrees(box, Replies(x), x.tree_id, u.held, s)
        PROVE  OnKeptTrees(box, Replies(x), x.tree_id, u.held, s2)
    <2>1. Len(x.tree_id) \in Nat
      BY <1>3, ContextIs, LengthIs
    <2>2. \A i \in DOMAIN box : box[i] \in Message
      BY <1>3, LengthIs
    <2>3. \A m \in Message : m.tree \in Nat
      BY DEF Message
    <2> QED
      BY <1>2, <1>7, <2>1, <2>2, <2>3 DEF OnKeptTrees
  <1>8. Live(x) => Kept(x, box, u, s2)
    BY <1>2, <1>7 DEF OneClient, Kept
  <1> QED
    BY <1>6, <1>8 DEF OneClient

OnlyMoves(c) ==
  /\ context' = [d \in Clients |-> context'[d]]
  /\ inbox' = [d \in Clients |-> inbox'[d]]
  /\ client' = [d \in Clients |-> client'[d]]
  /\ \A d \in Clients \ {c} :
       context'[d] = context[d] /\ inbox'[d] = inbox[d] /\ client'[d] = client[d]

Loops == [phase : {"select", "service", "cull", "ended"}, in : SUBSET Clients,
          out : SUBSET Clients, accept : BOOLEAN]

(* If one client's step keeps what is its own, all is kept.                *)
LEMMA OneMoves ==
  ASSUME Invariant, loop' \in Loops, NEW c \in Clients, OnlyMoves(c),
         Steps(context[c], inbox[c], client[c], s_tree_id,
               context'[c], inbox'[c], client'[c], s_tree_id')
  PROVE  Invariant'
  <1>1. /\ s_tree_id \in Nat /\ s_tree_id' \in {s_tree_id, s_tree_id + 1}
        /\ s_tree_id' \in Nat \ {0}
    BY DEF Invariant, Steps
  <1>2. \A d \in Clients : OneClient(context'[d], inbox'[d], client'[d], s_tree_id')
    <2> SUFFICES ASSUME NEW d \in Clients
                 PROVE  OneClient(context'[d], inbox'[d], client'[d], s_tree_id')
      OBVIOUS
    <2>1. CASE d = c
      BY <2>1 DEF Steps
    <2>2. CASE d # c
      <3>1. OneClient(context[d], inbox[d], client[d], s_tree_id)
        BY DEF Invariant
      <3>2. OneClient(context[d], inbox[d], client[d], s_tree_id')
        BY <1>1, <3>1, NextIsMore
      <3> QED
        BY <2>2, <3>2 DEF OnlyMoves
    <2> QED
      BY <2>1, <2>2
  <1> DEFINE K(d) == Known(client[d].held, Replies(context[d]))
             L(d) == Known(client'[d].held, Replies(context'[d]))
  <1>3. s_tree_id' <= MaxTrees + 1 => s_tree_id <= MaxTrees + 1
    BY <1>1, BoundsAssumption
  <1>4. ASSUME s_tree_id' <= MaxTrees + 1, NEW d \in Clients, d # c
        PROVE  L(d) = K(d) /\ L(c) \cap K(d) = {}
    <2>1. L(d) = K(d)
      BY <1>4 DEF OnlyMoves
    <2>2. K(c) \cap K(d) = {}
      BY <1>3, <1>4 DEF Invariant
    <2>3. \A t \in K(d) : t < s_tree_id
      BY <1>3, <1>4 DEF Invariant, OneClient
    <2>4. \A t \in L(c) : t \in K(c) \/ t = s_tree_id
      BY <1>4 DEF Steps
    <2> HIDE DEF K, L
    <2>5. s_tree_id \notin K(d)
      BY <1>1, <2>3
    <2> QED
      BY <2>1, <2>2, <2>4, <2>5
  <1>5. ASSUME s_tree_id' <= MaxTrees + 1, NEW d \in Clients, NEW e \in Clients, d # e
        PROVE  L(d) \cap L(e) = {}
    <2>1. K(d) \cap K(e) = {}
      BY <1>3, <1>5 DEF Invariant
    <2> HIDE DEF K, L
    <2> QED
      BY <1>4, <1>5, <2>1
  <1>6. /\ context' = [d \in Clients |-> context'[d]]
        /\ inbox' = [d \in Clients |-> inbox'[d]]
        /\ client' = [d \in Clients |-> client'[d]]
    BY DEF OnlyMoves
  <1>7. \A d, e \in Clients : d # e /\ s_tree_id' <= MaxTrees + 1 => L(d) \cap L(e) = {}
    BY <1>5
  <1> QED
    BY <1>1, <1>2, <1>6, <1>7 DEF Invariant, Loops

LEMMA WithAuth ==
  ASSUME NEW x \in Context, NEW b \in BOOLEAN
  PROVE  LET z == [x EXCEPT !.authenticated = b] IN
         /\ z \in Context /\ z.pdu = x.pdu /\ z.fd = x.fd /\ z.waitqueue = x.waitqueue
         /\ Replies(z) = Replies(x) /\ z.tree_id = x.tree_id /\ z.tree_id_cur = x.tree_id_cur
         /\ z.authenticated = b /\ CurrentTree(z) = CurrentTree(x) /\ (InBounds(x) => InBounds(z))
  BY DEF Context, Replies, CurrentTree, InBounds

-----------------------------------------------------------------------------
(* A request that is read as it was meant, and the context that takes it.  *)
AtRequest(y, box, u, s, x) ==
  /\ OneClient(y, box, u, s) /\ y.fd = "open" /\ box # <<>> /\ IsRead(y, Head(box))
  /\ y \in Context /\ box \in Seq(Message) /\ u \in Client /\ Head(box) \in Message
  /\ y.pdu \in Pdus /\ y.pdu = PduFor(Head(box)) /\ (y.pdu = ForAnything => y.authenticated)
  /\ x \in Context /\ InBounds(x) /\ x.fd = "open" /\ Replies(x) = Replies(y)
  /\ x.tree_id = y.tree_id /\ x.waitqueue = Append(y.waitqueue, Entry(y, Head(box)))

(* A request that is read finds a context that expects it.                 *)
LEMMA AtRequestIs ==
  ASSUME NEW y, NEW box, NEW u, NEW s, OneClient(y, box, u, s), y.fd = "open", box # <<>>,
         IsRead(y, Head(box))
  PROVE  /\ AtRequest(y, box, u, s, Taken(y, Head(box)))
         /\ Taken(y, Head(box)).authenticated = y.authenticated
  <1> DEFINE x == Taken(y, Head(box))
  <1>1. y \in Context /\ box \in Seq(Message) /\ u \in Client /\ InBounds(y) /\ y.pdu # NoPdu
    BY DEF OneClient, Typed, InBounds
  <1>2. y.pdu \in Pdus
    BY <1>1, ContextIs
  <1>3. Head(box) \in Message /\ Head(box) = box[1] /\ 1 \in DOMAIN box
    BY <1>1, TailIs, LengthIs
  <1>4. InStage(y.pdu, y.authenticated, box)
    BY DEF OneClient, Kept, Live, PduToCome
  <1>5. PduFor(Head(box)) = y.pdu /\ (y.pdu = ForAnything => y.authenticated)
    BY <1>3, <1>4 DEF InStage
  <1>6. /\ x \in Context /\ InBounds(x) /\ SameButCurrent(x, y)
        /\ x.waitqueue = Append(y.waitqueue, Entry(y, Head(box)))
    BY <1>1, <1>2, <1>3, TakenIs
  <1> HIDE DEF x
  <1>7. Replies(x) = Replies(y) /\ x.fd = "open" /\ x.tree_id = y.tree_id
        /\ x.authenticated = y.authenticated
    BY <1>6 DEF SameButCurrent, Replies
  <1>8. AtRequest(y, box, u, s, x)
    BY <1>1, <1>2, <1>3, <1>5, <1>6, <1>7 DEF AtRequest
  <1> QED
    BY <1>7, <1>8 DEF x

LEMMA NegotiateStep ==
  ASSUME NEW c \in Clients, NEW y, NEW box, NEW u, NEW s, NEW x, AtRequest(y, box, u, s, x),
         Head(box).command \in Negotiation,
         NEW status \in {"SUCCESS", "INVALID_PARAMETER", "WILDCARD"},
         NEW z \in QueuePdu(c, x, Head(box).mid, Rep("NEGOTIATE", status))
  PROVE  Steps(y, box, u, s,
               [z EXCEPT !.pdu = IF status = "SUCCESS" THEN ForSession ELSE ForNegotiate],
               Tail(box), u, s)
  <1> DEFINE pdu2 == IF status = "SUCCESS" THEN ForSession ELSE ForNegotiate
  <1>1. pdu2 \in Pdus /\ pdu2 # ForAnything
    BY PdusDiffer DEF Pdus
  <1>2. Real(Head(box)) /\ Head(box).command \in Turning
    BY DEF Real, Turning, Negotiation
  <1>3. RightReply(Head(box), "NEGOTIATE", status)
    BY DEF RightReply, Names, Statuses, StatusFits, Rep, Negotiation, Turning
  <1>4. ~ Connects(Rep("NEGOTIATE", status))
    BY DEF Connects, Rep
  <1>5. PduAfter(Rep("NEGOTIATE", status)) = pdu2
    BY DEF PduAfter, Rep
  <1>6. RightPdu(Head(box), "NEGOTIATE", status, y.pdu, pdu2)
    BY <1>2, <1>5 DEF RightPdu
  <1> HIDE DEF pdu2
  <1>7. /\ OneClient(y, box, u, s) /\ y.fd = "open" /\ box # <<>> /\ IsRead(y, Head(box))
        /\ x \in Context /\ InBounds(x) /\ x.fd = "open" /\ Replies(x) = Replies(y)
        /\ x.tree_id = y.tree_id /\ x.waitqueue = Append(y.waitqueue, Entry(y, Head(box)))
    BY DEF AtRequest
  <1>8. Steps(y, box, u, s, [z EXCEPT !.pdu = pdu2], Tail(box), u, s)
    BY <1>1, <1>2, <1>3, <1>4, <1>6, <1>7, PlainStep
  <1> QED
    BY <1>8 DEF pdu2

LEMMA SessionStep ==
  ASSUME NEW c \in Clients, NEW y, NEW box, NEW u, NEW s, NEW x, AtRequest(y, box, u, s, x),
         Head(box).command = "SESSION_SETUP",
         NEW status \in {"MORE_PROCESSING_REQUIRED", "LOGON_FAILURE", "SUCCESS", "NOT_IMPLEMENTED"},
         NEW pdu2, pdu2 = PduAfter(Rep("SESSION_SETUP", status)), pdu2 = ForAnything => x.authenticated,
         NEW z \in QueuePdu(c, x, Head(box).mid, Rep("SESSION_SETUP", status))
  PROVE  Steps(y, box, u, s, [z EXCEPT !.pdu = pdu2], Tail(box), u, s)
  <1>1. pdu2 \in Pdus
    BY PduAfterIs
  <1>2. Real(Head(box)) /\ Head(box).command \in Turning
    BY DEF Real, Turning, Negotiation
  <1>3. RightReply(Head(box), "SESSION_SETUP", status)
    BY DEF RightReply, Names, Statuses, StatusFits, Rep, Negotiation, Turning
  <1>4. ~ Connects(Rep("SESSION_SETUP", status))
    BY DEF Connects, Rep
  <1>5. status # "PENDING"
    OBVIOUS
  <1>6. RightPdu(Head(box), "SESSION_SETUP", status, y.pdu, pdu2)
    BY <1>2, <1>5 DEF RightPdu
  <1>7. /\ OneClient(y, box, u, s) /\ y.fd = "open" /\ box # <<>> /\ IsRead(y, Head(box))
        /\ x \in Context /\ InBounds(x) /\ x.fd = "open" /\ Replies(x) = Replies(y)
        /\ x.tree_id = y.tree_id /\ x.waitqueue = Append(y.waitqueue, Entry(y, Head(box)))
    BY DEF AtRequest
  <1> QED
    BY <1>1, <1>2, <1>3, <1>4, <1>6, <1>7, PlainStep

LEMMA AuthIs ==
  ASSUME NEW y, NEW box, NEW u, NEW s, NEW x, AtRequest(y, box, u, s, x), NEW b \in BOOLEAN
  PROVE  /\ AtRequest(y, box, u, s, [x EXCEPT !.authenticated = b])
         /\ [x EXCEPT !.authenticated = b].authenticated = b
  <1> DEFINE z == [x EXCEPT !.authenticated = b]
  <1>1. x \in Context /\ InBounds(x)
    BY DEF AtRequest
  <1>2. /\ z \in Context /\ z.pdu = x.pdu /\ z.fd = x.fd /\ z.waitqueue = x.waitqueue
        /\ Replies(z) = Replies(x) /\ z.tree_id = x.tree_id /\ z.authenticated = b /\ InBounds(z)
    BY <1>1, WithAuth
  <1> HIDE DEF z
  <1>3. AtRequest(y, box, u, s, z)
    BY <1>2 DEF AtRequest
  <1> QED
    BY <1>2, <1>3 DEF z

(* One client's request is handled, or one of its replies is queued late.  *)
HasBecome(v, xs, next) == \E x \in xs : v = [x EXCEPT !.pdu = next]
TakesRequest(c) == inbox' = [inbox EXCEPT ![c] = Tail(@)] /\ UNCHANGED client

(* Only the connection of the request changes.                             *)
LEMMA BecomesIs ==
  ASSUME Invariant, NEW c \in Clients, NEW xs, NEW next, Becomes(c, xs, next),
         TakesRequest(c) \/ UNCHANGED <<inbox, client>>
  PROVE  /\ OnlyMoves(c) /\ client'[c] = client[c] /\ HasBecome(context'[c], xs, next)
         /\ TakesRequest(c) => inbox'[c] = Tail(inbox[c])
         /\ UNCHANGED <<inbox, client>> => inbox'[c] = inbox[c]
  <1>1. /\ context = [d \in Clients |-> context[d]]
        /\ inbox = [d \in Clients |-> inbox[d]]
        /\ client = [d \in Clients |-> client[d]]
    BY DEF Invariant
  <1>2. PICK x \in xs : context' = [context EXCEPT ![c] = [x EXCEPT !.pdu = next]]
    BY DEF Becomes
  <1> DEFINE v == [x EXCEPT !.pdu = next]
  <1>3. context' = [context EXCEPT ![c] = v]
    BY <1>2
  <1> HIDE DEF v
  <1>4. /\ context' = [d \in Clients |-> context'[d]] /\ context'[c] = v
        /\ \A d \in Clients \ {c} : context'[d] = context[d]
    BY <1>1, <1>3
  <1>5. /\ inbox' = [d \in Clients |-> inbox'[d]]
        /\ \A d \in Clients \ {c} : inbox'[d] = inbox[d]
        /\ TakesRequest(c) => inbox'[c] = Tail(inbox[c])
    BY <1>1 DEF TakesRequest
  <1>6. client' = client
    BY DEF TakesRequest
  <1>7. OnlyMoves(c)
    BY <1>1, <1>4, <1>5, <1>6 DEF OnlyMoves
  <1>8. HasBecome(context'[c], xs, next)
    BY <1>4 DEF v, HasBecome
  <1> QED
    BY <1>5, <1>6, <1>7, <1>8

LEMMA MisreadKeeps ==
  ASSUME Invariant, NEW c \in Clients, Misread(c)
  PROVE  Invariant'
  <1> DEFINE y == context[c]
             box == inbox[c]
             u == client[c]
             s == s_tree_id
             v == [smb2_close_context(y) EXCEPT !.pdu = y.pdu]
  <1>1. OneClient(y, box, u, s) /\ loop \in Loops
    BY DEF Invariant, Loops
  <1>2. TakesRequest(c) /\ Becomes(c, {smb2_close_context(y)}, y.pdu)
    BY DEF Misread, TakesRequest
  <1>3. /\ OnlyMoves(c) /\ client'[c] = u /\ inbox'[c] = Tail(box)
        /\ HasBecome(context'[c], {smb2_close_context(y)}, y.pdu)
    BY <1>2, BecomesIs
  <1>4. context'[c] = v /\ s_tree_id' = s /\ loop' = loop /\ box # <<>>
    BY <1>3 DEF Misread, HasBecome
  <1>5. y \in Context /\ box \in Seq(Message)
    BY <1>1 DEF OneClient, Typed
  <1>6. Tail(box) \in Seq(Message) /\ y.pdu \in Pdus \cup {NoPdu}
    BY <1>4, <1>5, TailIs, ContextIs
  <1>7. Steps(y, box, u, s, v, Tail(box), u, s)
    BY <1>1, <1>5, <1>6, ClosedIs
  <1>8. Steps(y, box, u, s, context'[c], inbox'[c], client'[c], s_tree_id')
    BY <1>3, <1>4, <1>7
  <1> QED
    BY <1>1, <1>3, <1>4, <1>8, OneMoves

(* What a request finds: it is read, with the PDU that is expected.        *)
LEMMA RequestIs ==
  ASSUME Invariant, NEW c \in Clients, NEW cb, Request(c, cb), IsRead(context[c], Head(inbox[c]))
  PROVE  LET x == Taken(context[c], Head(inbox[c])) IN
         /\ AtRequest(context[c], inbox[c], client[c], s_tree_id, x)
         /\ x.authenticated = context[c].authenticated
         /\ cb = "negotiate" => Head(inbox[c]).command \in Negotiation
         /\ cb = "session" => Head(inbox[c]).command = "SESSION_SETUP"
         /\ cb = "general" => /\ context[c].pdu = ForAnything
                              /\ Head(inbox[c]).command \notin Negotiation \cup {"SESSION_SETUP"}
  <1> DEFINE y == context[c]
             box == inbox[c]
             x == Taken(y, Head(box))
  <1>1. OneClient(y, box, client[c], s_tree_id)
    BY DEF Invariant
  <1>2. y.fd = "open" /\ box # <<>> /\ y.pdu.cb = cb
    BY DEF Request, Serving
  <1>3. AtRequest(y, box, client[c], s_tree_id, x) /\ x.authenticated = y.authenticated
    BY <1>1, <1>2, AtRequestIs
  <1>4. y.pdu \in Pdus /\ y.pdu = PduFor(Head(box)) /\ IsRead(y, Head(box))
    BY <1>3 DEF AtRequest
  <1>5. cb = "negotiate" => Head(box).command \in Negotiation
    BY <1>2, <1>4, CallbackIs, PduForIs
  <1>6. cb = "session" => Head(box).command = "SESSION_SETUP"
    BY <1>2, <1>4, CallbackIs, PduForIs
  <1>7. ASSUME cb = "general"
        PROVE  y.pdu = ForAnything /\ Head(box).command \notin Negotiation \cup {"SESSION_SETUP"}
    <2>1. y.pdu = ForAnything
      BY <1>2, <1>4, <1>7, CallbackIs
    <2>2. Head(box).command \notin Negotiation
      BY <1>4, <2>1, PduForIs
    <2>3. Head(box).command # "SESSION_SETUP"
      BY <1>4, <2>1 DEF IsRead, ReadAs, BeforeSession, ForAnything, NextPdu
    <2> QED
      BY <2>1, <2>2, <2>3
  <1> QED
    BY <1>3, <1>5, <1>6, <1>7

LEMMA NegotiateKeeps ==
  ASSUME Invariant, NEW c \in Clients, NegotiateRequest(c)
  PROVE  Invariant'
  <1> DEFINE y == context[c]
             box == inbox[c]
             u == client[c]
             s == s_tree_id
             req == Head(box)
             x == Taken(y, req)
  <1>1. OneClient(y, box, u, s) /\ loop \in Loops
    BY DEF Invariant, Loops
  <1>2. AtRequest(y, box, u, s, x) /\ req.command \in Negotiation
    BY RequestIs DEF NegotiateRequest
  <1>3. TakesRequest(c) /\ s_tree_id' = s /\ loop' = loop /\ box # <<>>
    BY DEF NegotiateRequest, Request, TakesRequest
  <1>4. PICK status \in {"SUCCESS", "INVALID_PARAMETER", "WILDCARD", "close"} :
          IF status = "close" THEN Becomes(c, {smb2_close_context(x)}, NoPdu)
          ELSE Becomes(c, QueuePdu(c, x, req.mid, Rep("NEGOTIATE", status)),
                       IF status = "SUCCESS" THEN ForSession ELSE ForNegotiate)
    BY DEF NegotiateRequest, AfterNoDialects
  <1> HIDE DEF x
  <1>5. CASE status = "close"
    <2>1. /\ OnlyMoves(c) /\ client'[c] = u /\ inbox'[c] = Tail(box)
          /\ HasBecome(context'[c], {smb2_close_context(x)}, NoPdu)
      BY <1>3, <1>4, <1>5, BecomesIs
    <2>2. context'[c] = [smb2_close_context(x) EXCEPT !.pdu = NoPdu]
      BY <2>1 DEF HasBecome
    <2>3. x \in Context /\ Replies(x) = Replies(y) /\ Tail(box) \in Seq(Message)
      BY <1>2, <1>3, TailIs DEF AtRequest
    <2>4. Steps(y, box, u, s, [smb2_close_context(x) EXCEPT !.pdu = NoPdu], Tail(box), u, s)
      BY <1>1, <2>3, ClosedIs
    <2>5. Steps(y, box, u, s, context'[c], inbox'[c], client'[c], s_tree_id')
      BY <1>3, <2>1, <2>2, <2>4
    <2> QED
      BY <1>1, <1>3, <2>1, <2>5, OneMoves
  <1>6. CASE status # "close"
    <2> DEFINE pdu2 == IF status = "SUCCESS" THEN ForSession ELSE ForNegotiate
    <2>1. /\ OnlyMoves(c) /\ client'[c] = u /\ inbox'[c] = Tail(box)
          /\ HasBecome(context'[c], QueuePdu(c, x, req.mid, Rep("NEGOTIATE", status)), pdu2)
      BY <1>3, <1>4, <1>6, BecomesIs
    <2>2. PICK z \in QueuePdu(c, x, req.mid, Rep("NEGOTIATE", status)) :
            context'[c] = [z EXCEPT !.pdu = pdu2]
      BY <2>1 DEF HasBecome
    <2>3. Steps(y, box, u, s, [z EXCEPT !.pdu = pdu2], Tail(box), u, s)
      BY <1>2, <1>4, <1>6, NegotiateStep
    <2> HIDE DEF pdu2
    <2>4. Steps(y, box, u, s, context'[c], inbox'[c], client'[c], s_tree_id')
      BY <1>3, <2>1, <2>2, <2>3
    <2> QED
      BY <1>1, <1>3, <2>1, <2>4, OneMoves
  <1> QED
    BY <1>5, <1>6

LEMMA SessionSetupKeeps ==
  ASSUME Invariant, NEW c \in Clients, SessionSetupRequest(c)
  PROVE  Invariant'
  <1> DEFINE y == context[c]
             box == inbox[c]
             u == client[c]
             s == s_tree_id
             req == Head(box)
             x == Taken(y, req)
             with(b) == [x EXCEPT !.authenticated = b]
             answers(v, status) == QueuePdu(c, v, req.mid, Rep("SESSION_SETUP", status))
             Final == {"SUCCESS", "NOT_IMPLEMENTED"}
             Again == {"MORE_PROCESSING_REQUIRED", "LOGON_FAILURE"}
  <1>1. OneClient(y, box, u, s) /\ loop \in Loops
    BY DEF Invariant, Loops
  <1>2. AtRequest(y, box, u, s, x) /\ req.command = "SESSION_SETUP"
    BY RequestIs DEF SessionSetupRequest
  <1>3. TakesRequest(c) /\ s_tree_id' = s /\ loop' = loop /\ box # <<>>
    BY DEF SessionSetupRequest, Request, TakesRequest
  <1>4. \/ Becomes(c, answers(with(FALSE), "MORE_PROCESSING_REQUIRED"), ForSession)
        \/ Becomes(c, answers(x, "LOGON_FAILURE"), ForSession)
        \/ Becomes(c, answers(with(TRUE), "SUCCESS"), ForAnything)
        \/ Becomes(c, answers(with(TRUE), "NOT_IMPLEMENTED"), ForAnything)
        \/ Becomes(c, {smb2_close_context(with(TRUE))}, ForAnything)
    BY DEF SessionSetupRequest, AfterWrongPassword
  <1>5. /\ AtRequest(y, box, u, s, with(FALSE))
        /\ AtRequest(y, box, u, s, with(TRUE)) /\ with(TRUE).authenticated
    BY <1>2, AuthIs
  <1> HIDE DEF x, with
  <1>6. ASSUME NEW v, AtRequest(y, box, u, s, v), NEW status \in Final \cup Again,
               NEW pdu2, pdu2 = PduAfter(Rep("SESSION_SETUP", status)),
               pdu2 = ForAnything => v.authenticated,
               Becomes(c, answers(v, status), pdu2)
        PROVE  Invariant'
    <2>1. /\ OnlyMoves(c) /\ client'[c] = u /\ inbox'[c] = Tail(box)
          /\ HasBecome(context'[c], answers(v, status), pdu2)
      BY <1>3, <1>6, BecomesIs
    <2>2. PICK z \in answers(v, status) : context'[c] = [z EXCEPT !.pdu = pdu2]
      BY <2>1 DEF HasBecome
    <2>3. Steps(y, box, u, s, [z EXCEPT !.pdu = pdu2], Tail(box), u, s)
      BY <1>2, <1>6, SessionStep
    <2>4. Steps(y, box, u, s, context'[c], inbox'[c], client'[c], s_tree_id')
      BY <1>3, <2>1, <2>2, <2>3
    <2> QED
      BY <1>1, <1>3, <2>1, <2>4, OneMoves
  <1>7. ASSUME Becomes(c, {smb2_close_context(with(TRUE))}, ForAnything)
        PROVE  Invariant'
    <2>1. /\ OnlyMoves(c) /\ client'[c] = u /\ inbox'[c] = Tail(box)
          /\ HasBecome(context'[c], {smb2_close_context(with(TRUE))}, ForAnything)
      BY <1>3, <1>7, BecomesIs
    <2>2. context'[c] = [smb2_close_context(with(TRUE)) EXCEPT !.pdu = ForAnything]
      BY <2>1 DEF HasBecome
    <2>3. /\ with(TRUE) \in Context /\ Replies(with(TRUE)) = Replies(y)
          /\ Tail(box) \in Seq(Message) /\ ForAnything \in Pdus
      BY <1>3, <1>5, TailIs DEF AtRequest, Pdus
    <2>4. Steps(y, box, u, s, [smb2_close_context(with(TRUE)) EXCEPT !.pdu = ForAnything],
                Tail(box), u, s)
      BY <1>1, <2>3, ClosedIs
    <2>5. Steps(y, box, u, s, context'[c], inbox'[c], client'[c], s_tree_id')
      BY <1>3, <2>1, <2>2, <2>4
    <2> QED
      BY <1>1, <1>3, <2>1, <2>5, OneMoves
  <1>8. /\ \A st \in Again : PduAfter(Rep("SESSION_SETUP", st)) = ForSession
        /\ \A st \in Final : PduAfter(Rep("SESSION_SETUP", st)) = ForAnything
    BY DEF PduAfter, Rep
  <1>9. ForSession # ForAnything
    BY PdusDiffer
  <1> HIDE DEF answers
  <1>10. CASE Becomes(c, answers(with(FALSE), "MORE_PROCESSING_REQUIRED"), ForSession)
    BY <1>5, <1>6, <1>8, <1>9, <1>10
  <1>11. CASE Becomes(c, answers(x, "LOGON_FAILURE"), ForSession)
    BY <1>2, <1>6, <1>8, <1>9, <1>11
  <1>12. CASE Becomes(c, answers(with(TRUE), "SUCCESS"), ForAnything)
    BY <1>5, <1>6, <1>8, <1>12
  <1>13. CASE Becomes(c, answers(with(TRUE), "NOT_IMPLEMENTED"), ForAnything)
    BY <1>5, <1>6, <1>8, <1>13
  <1> QED
    BY <1>4, <1>7, <1>10, <1>11, <1>12, <1>13

-----------------------------------------------------------------------------
(* The replies of the handlers.                                            *)
LEMMA ReplyOfIs ==
  ASSUME NEW command, NEW ret \in {-1, 0, 1}
  PROVE  /\ ret = -1 => ReplyOf(command, ret) = Rep(command, "NOT_IMPLEMENTED")
         /\ ret = 0 => ReplyOf(command, ret) = Rep(command, "SUCCESS")
         /\ ret = 1 => ReplyOf(command, ret) = Rep(command, "PENDING")
  BY DEF ReplyOf

Others(command) == {Rep(command, "SUCCESS"), Rep(command, "NO_MORE_FILES"), Rep(command, "NOT_SUPPORTED")}

(* A handler's reply is of its request's command; a cancel's is none or an *)
(* error.                                                                  *)
LEMMA RepliesToIs ==
  ASSUME NEW req, req.command \in Requests \ (Negotiation \cup {"SESSION_SETUP"}),
         NEW rep \in RepliesTo(req.command)
  PROVE  /\ req.command = "CANCEL" => rep \in {NoRep, Rep("CANCEL", "NOT_IMPLEMENTED")}
         /\ req.command # "CANCEL" =>
              \E command, status : /\ rep = Rep(command, status)
                                   /\ RightReply(req, command, status)
  <1> DEFINE command == req.command
  <1>1. command \in Commands \cup {"LOGOFF", "TREE_CONNECT", "TREE_DISCONNECT"}
    BY DEF Requests, Turning
  <1>2. PICK ret \in Returns[command] :
          rep \in CASE command = "LOGOFF" -> smb2_logoff_request_cb(ret)
           [] command = "TREE_CONNECT" -> smb2_tree_connect_request_cb(ret)
           [] command = "TREE_DISCONNECT" -> smb2_tree_disconnect_request_cb(ret)
           [] command = "CREATE" -> smb2_create_request_cb(ret)
           [] command = "CLOSE" -> smb2_close_request_cb(ret)
           [] command = "FLUSH" -> smb2_flush_request_cb(ret)
           [] command = "READ" -> smb2_read_request_cb(ret)
           [] command = "WRITE" -> smb2_write_request_cb(ret)
           [] command = "LOCK" -> smb2_lock_request_cb(ret)
           [] command = "ECHO" -> smb2_echo_request_cb(ret)
           [] command = "CHANGE_NOTIFY" -> smb2_change_notify_request_cb(ret)
           [] command = "SET_INFO" -> smb2_set_info_request_cb(ret)
           [] command = "OPLOCK_BREAK" -> smb2_oplock_break_request_cb(ret)
           [] command = "IOCTL" -> smb2_ioctl_request_cb(ret)
           [] command = "CANCEL" -> smb2_cancel_request_cb(ret)
           [] command = "QUERY_DIRECTORY" -> smb2_query_directory_request_cb(ret)
           [] command = "QUERY_INFO" -> smb2_query_info_request_cb(ret)
           [] OTHER -> {NoRep}
    BY DEF RepliesTo
  <1>3. ret \in {-1, 0, 1} /\ (command = "LOGOFF" => ret # -1) /\ (command = "TREE_CONNECT" => ret # 1)
    BY <1>1, ReturnsAssumption, HandlersAssumption
  <1>4. command \in OnTrees \cup {"LOGOFF", "TREE_CONNECT", "TREE_DISCONNECT", "ECHO", "CANCEL"}
    BY <1>1, CommandsAssumption DEF OnTrees
  <1>5. ASSUME command = "CANCEL"
        PROVE  rep \in {NoRep, Rep("CANCEL", "NOT_IMPLEMENTED")}
    <2>1. rep \in smb2_cancel_request_cb(ret)
      BY <1>2, <1>5
    <2>2. ret < 0 => ret = -1
      BY <1>3
    <2> QED
      BY <1>3, <2>1, <2>2, ReplyOfIs DEF smb2_cancel_request_cb
  <1>6. ASSUME command # "CANCEL"
        PROVE  \/ rep = ReplyOf(command, ret)
               \/ command \in OnTrees /\ rep \in Others(command)
               \/ command = "OPLOCK_BREAK" /\ rep = Rep("LOCK", "NOT_IMPLEMENTED")
    <2>1. CASE command \in {"LOGOFF", "TREE_CONNECT", "TREE_DISCONNECT", "ECHO"}
      BY <1>2, <2>1 DEF smb2_logoff_request_cb, smb2_tree_connect_request_cb,
           smb2_tree_disconnect_request_cb, smb2_echo_request_cb
    <2>2. CASE command \in {"CREATE", "CLOSE", "FLUSH", "READ", "WRITE", "LOCK"}
      BY <1>2, <2>2 DEF smb2_create_request_cb, smb2_close_request_cb, smb2_flush_request_cb,
           smb2_read_request_cb, smb2_write_request_cb, smb2_lock_request_cb
    <2>3. CASE command \in {"CHANGE_NOTIFY", "SET_INFO", "OPLOCK_BREAK"}
      BY <1>2, <2>3 DEF smb2_change_notify_request_cb, smb2_set_info_request_cb,
           smb2_oplock_break_request_cb
    <2>4. CASE command \in {"IOCTL", "QUERY_DIRECTORY", "QUERY_INFO"}
      BY <1>2, <2>4 DEF smb2_ioctl_request_cb, smb2_query_directory_request_cb,
           smb2_query_info_request_cb, OnTrees, Others
    <2> QED
      BY <1>4, <1>6, <2>1, <2>2, <2>3, <2>4 DEF OnTrees
  <1> HIDE <1>2
  <1>7. ASSUME command # "CANCEL",
               NEW status \in {"NOT_IMPLEMENTED", "SUCCESS", "PENDING", "NO_MORE_FILES", "NOT_SUPPORTED"},
               command = "LOGOFF" => status \in {"SUCCESS", "PENDING"},
               command = "TREE_CONNECT" => status # "PENDING"
        PROVE  RightReply(req, command, status)
    <2>1. command \in Names
      BY <1>4 DEF Names, Late, Turning
    <2>2. StatusFits(Rep(command, status))
      BY <1>4, <1>7 DEF StatusFits, Rep, OnTrees
    <2>3. status = "PENDING" => command \in Late
      BY <1>4, <1>7 DEF Late
    <2> QED
      BY <2>1, <2>2, <2>3 DEF RightReply, Statuses
  <1>8. ASSUME command = "OPLOCK_BREAK"
        PROVE  RightReply(req, "LOCK", "NOT_IMPLEMENTED")
    BY <1>8 DEF RightReply, Statuses, StatusFits, Rep, Names, Late, OnTrees
  <1>9. ASSUME command # "CANCEL"
        PROVE  \E k, status : rep = Rep(k, status) /\ RightReply(req, k, status)
    <2>1. CASE rep = ReplyOf(command, ret)
      <3>1. CASE ret = -1
        BY <1>3, <1>7, <1>9, <2>1, <3>1, ReplyOfIs
      <3>2. CASE ret = 0
        BY <1>3, <1>7, <1>9, <2>1, <3>2, ReplyOfIs
      <3>3. CASE ret = 1
        BY <1>3, <1>7, <1>9, <2>1, <3>3, ReplyOfIs
      <3> QED
        BY <1>3, <3>1, <3>2, <3>3
    <2>2. CASE command \in OnTrees /\ rep \in Others(command)
      <3>1. command # "LOGOFF" /\ command # "TREE_CONNECT"
        BY <2>2 DEF OnTrees
      <3> QED
        BY <1>7, <1>9, <2>2, <3>1 DEF Others
    <2>3. CASE command = "OPLOCK_BREAK" /\ rep = Rep("LOCK", "NOT_IMPLEMENTED")
      BY <1>8, <2>3
    <2> QED
      BY <1>6, <1>9, <2>1, <2>2, <2>3
  <1> QED
    BY <1>5, <1>9

-----------------------------------------------------------------------------
(* Trees come and go.                                                      *)
SameButTrees(z, x) ==
  /\ z.fd = x.fd /\ z.pdu = x.pdu /\ z.waitqueue = x.waitqueue /\ z.outqueue = x.outqueue
  /\ z.sent = x.sent /\ z.authenticated = x.authenticated /\ Replies(z) = Replies(x)

WithTrees(x, ts, k) == [x EXCEPT !.tree_id = ts, !.tree_id_cur = k]

LEMMA WithTreesIs ==
  ASSUME NEW x \in Context, NEW ts \in Seq(Nat), NEW k \in Nat
  PROVE  LET z == WithTrees(x, ts, k) IN
         z \in Context /\ SameButTrees(z, x) /\ z.tree_id = ts /\ z.tree_id_cur = k
  <1> DEFINE z == WithTrees(x, ts, k)
  <1>1. z \in Context /\ z.tree_id = ts /\ z.tree_id_cur = k
    BY DEF Context, WithTrees
  <1>2. /\ z.fd = x.fd /\ z.pdu = x.pdu /\ z.waitqueue = x.waitqueue /\ z.outqueue = x.outqueue
        /\ z.sent = x.sent /\ z.authenticated = x.authenticated
    BY DEF Context, WithTrees
  <1> HIDE DEF z
  <1>3. SameButTrees(z, x)
    BY <1>2 DEF SameButTrees, Replies
  <1> QED
    BY <1>1, <1>3 DEF z

(* smb2_connect_tree_id adds a tree and makes it current.                  *)
LEMMA ConnectTreeIs ==
  ASSUME NEW x \in Context, InBounds(x), NEW t \in Nat
  PROVE  LET z == ConnectTree(x, t) IN
         /\ z \in Context /\ InBounds(z) /\ SameButTrees(z, x)
         /\ Len(x.tree_id) < MaxTrees => z.tree_id = Append(x.tree_id, t) /\ CurrentTree(z) = t
  <1> DEFINE ts == Append(x.tree_id, t)
             k == Len(x.tree_id) + 1
             v == WithTrees(x, ts, k)
  <1>1. x.tree_id \in Seq(Nat)
    BY ContextIs
  <1>2. ts \in Seq(Nat) /\ k \in Nat /\ Len(ts) = k /\ ts[k] = t /\ ts # <<>> /\ k > 0
    BY <1>1
  <1> HIDE DEF ts, k
  <1>3. v \in Context /\ SameButTrees(v, x) /\ v.tree_id = ts /\ v.tree_id_cur = k
    BY <1>2, WithTreesIs
  <1>4. ConnectTree(x, t) = IF Len(x.tree_id) < MaxTrees THEN v ELSE x
    BY DEF ConnectTree, WithTrees, ts, k
  <1> HIDE DEF v
  <1>5. InBounds(v) /\ CurrentTree(v) = t
    BY <1>2, <1>3 DEF InBounds, CurrentTree
  <1>6. SameButTrees(x, x)
    BY DEF SameButTrees
  <1> QED
    BY <1>3, <1>4, <1>5, <1>6 DEF ts

(* smb2_disconnect_tree_id keeps every other tree.                         *)
LEMMA DisconnectTreeIs ==
  ASSUME NEW x \in Context, InBounds(x), NEW t
  PROVE  LET z == DisconnectTree(x, t) IN
         /\ z \in Context /\ InBounds(z) /\ SameButTrees(z, x)
         /\ z.tree_id = x.tree_id \/
            \E k \in DOMAIN x.tree_id : x.tree_id[k] = t /\ z.tree_id = RemoveAt(x.tree_id, k)
  <1> DEFINE P == Places(x, t)
  <1>1. CASE P = {}
    <2>1. DisconnectTree(x, t) = x
      BY <1>1 DEF DisconnectTree
    <2> QED
      BY <2>1 DEF SameButTrees
  <1>2. CASE P # {}
    <2> DEFINE i == Min(P)
               ts == RemoveAt(x.tree_id, i)
               k == Min({x.tree_id_cur, Len(x.tree_id) - 1})
               v == WithTrees(x, ts, k)
    <2>1. x.tree_id \in Seq(Nat) /\ x.tree_id_cur \in Nat
      BY ContextIs
    <2>2. DOMAIN x.tree_id = 1 .. Len(x.tree_id) /\ Len(x.tree_id) \in Nat
      BY <2>1, LengthIs
    <2>3. P \in SUBSET Nat /\ \A j \in P : j \in DOMAIN x.tree_id /\ x.tree_id[j] = t
      BY <2>2 DEF Places
    <2>4. i \in P
      BY <1>2, <2>3, LeastNumber
    <2>5. i \in DOMAIN x.tree_id /\ x.tree_id[i] = t
      BY <2>3, <2>4
    <2>6. Len(x.tree_id) > 0 /\ x.tree_id # <<>> /\ Len(x.tree_id) - 1 \in Nat
      BY <2>2, <2>5
    <2>7. x.tree_id_cur > 0
      BY <2>6 DEF InBounds
    <2>8. k \in {x.tree_id_cur, Len(x.tree_id) - 1} /\ k <= Len(x.tree_id) - 1
      BY <2>1, <2>6, LeastNumber
    <2>9. DisconnectTree(x, t) = v
      BY <1>2 DEF DisconnectTree, Without, WithTrees
    <2> HIDE DEF i, k, P
    <2>10. ts \in Seq(Nat) /\ Len(ts) = Len(x.tree_id) - 1
      BY <2>1, <2>5, RemoveAtIs
    <2> HIDE DEF ts
    <2>11. k \in Nat
      BY <2>1, <2>6, <2>8
    <2>12. v \in Context /\ SameButTrees(v, x) /\ v.tree_id = ts /\ v.tree_id_cur = k
      BY <2>10, <2>11, WithTreesIs
    <2> HIDE DEF v
    <2>13. ts # <<>> => Len(ts) > 0
      BY <2>10
    <2>14. InBounds(v)
      BY <2>1, <2>2, <2>7, <2>8, <2>10, <2>11, <2>12, <2>13 DEF InBounds
    <2> QED
      BY <2>5, <2>9, <2>12, <2>14 DEF ts
  <1> QED
    BY <1>1, <1>2

LEMMA ConnectionIs ==
  ASSUME NEW z \in Context, InBounds(z), z.fd = "open", NEW pdu \in Pdus,
         NEW box \in Seq(Message), NEW u \in Client, NEW s,
         InOnePlace(box, z.waitqueue, Replies(z)), Once(Replies(z)),
         u.stage # "left" =>
           /\ IsAsked(box, z.waitqueue, Replies(z), u.stage, u.asked, u.next_id)
           /\ ToBeIn(pdu, z.waitqueue, Replies(z), u.stage),
         InStage(pdu, z.authenticated, box),
         s <= MaxTrees + 1 => /\ \A t \in Known(u.held, Replies(z)) : t < s
                              /\ OnKeptTrees(box, Replies(z), z.tree_id, u.held, s)
  PROVE  OneClient([z EXCEPT !.pdu = pdu], box, u, s)
  <1> DEFINE v == [z EXCEPT !.pdu = pdu]
  <1>1. /\ v \in Context /\ v.pdu = pdu /\ v.fd = "open" /\ v.waitqueue = z.waitqueue
        /\ Replies(v) = Replies(z) /\ v.tree_id = z.tree_id /\ v.tree_id_cur = z.tree_id_cur
        /\ v.authenticated = z.authenticated
    BY WithPdu
  <1> HIDE DEF v
  <1>2. Typed(v, box, u)
    BY <1>1, PdusDiffer DEF Typed, InBounds
  <1>3. PduToCome(v) = pdu
    BY <1>1 DEF PduToCome
  <1>4. Kept(v, box, u, s)
    BY <1>1, <1>3 DEF Kept
  <1>5. OneClient(v, box, u, s)
    BY <1>1, <1>2, <1>4 DEF OneClient
  <1> QED
    BY <1>5 DEF v

(* Everything in a request's connection, as the lemmas above need it.      *)
LEMMA OpenIs ==
  ASSUME NEW y, NEW box, NEW u, NEW s, OneClient(y, box, u, s), y.fd = "open"
  PROVE  /\ y \in Context /\ box \in Seq(Message) /\ u \in Client /\ y.pdu \in Pdus /\ InBounds(y)
         /\ Replies(y) \in Seq(Reply) /\ y.waitqueue \in Seq(Waiting) /\ y.tree_id \in Seq(Nat)
         /\ Once(Replies(y)) /\ Kept(y, box, u, s)
         /\ InOnePlace(box, y.waitqueue, Replies(y)) /\ InStage(y.pdu, y.authenticated, box)
         /\ u.stage # "left" =>
              /\ IsAsked(box, y.waitqueue, Replies(y), u.stage, u.asked, u.next_id)
              /\ ToBeIn(y.pdu, y.waitqueue, Replies(y), u.stage)
         /\ s <= MaxTrees + 1 => /\ \A t \in Known(u.held, Replies(y)) : t < s
                                 /\ OnKeptTrees(box, Replies(y), y.tree_id, u.held, s)
  <1>1. y \in Context /\ box \in Seq(Message) /\ u \in Client /\ y.pdu # NoPdu /\ InBounds(y)
    BY DEF OneClient, Typed, InBounds
  <1>2. /\ y.pdu \in Pdus /\ Replies(y) \in Seq(Reply) /\ y.waitqueue \in Seq(Waiting)
        /\ y.tree_id \in Seq(Nat)
    BY <1>1, ContextIs
  <1>3. Live(y) /\ PduToCome(y) = y.pdu
    BY DEF Live, PduToCome
  <1>4. Kept(y, box, u, s) /\ Once(Replies(y))
    BY <1>3 DEF OneClient
  <1>5. s <= MaxTrees + 1 => \A t \in Known(u.held, Replies(y)) : t < s
    BY DEF OneClient
  <1> QED
    BY <1>1, <1>2, <1>3, <1>4, <1>5 DEF Kept

(* A request that connects a tree gets the next one.                       *)
LEMMA ConnectStep ==
  ASSUME NEW c \in Clients, NEW y, NEW box, NEW u, NEW s \in Nat, NEW x, AtRequest(y, box, u, s, x),
         Head(box).command = "TREE_CONNECT", y.pdu = ForAnything, x.authenticated,
         NEW z \in QueuePdu(c, ConnectTree(x, s), Head(box).mid, Rep("TREE_CONNECT", "SUCCESS"))
  PROVE  Steps(y, box, u, s, [z EXCEPT !.pdu = ForAnything], Tail(box), u, s + 1)
  <1> DEFINE v == ConnectTree(x, s)
             out == Replies(y)
             req == Head(box)
             r == AnswerTo(v, req, "TREE_CONNECT", "SUCCESS")
             k == [z EXCEPT !.pdu = ForAnything]
  <1>1. /\ OneClient(y, box, u, s) /\ y.fd = "open" /\ box # <<>> /\ IsRead(y, Head(box))
        /\ x \in Context /\ InBounds(x) /\ x.fd = "open" /\ Replies(x) = Replies(y)
        /\ x.tree_id = y.tree_id /\ x.waitqueue = Append(y.waitqueue, Entry(y, Head(box)))
    BY DEF AtRequest
  <1>2. /\ y \in Context /\ box \in Seq(Message) /\ u \in Client /\ y.pdu \in Pdus
        /\ out \in Seq(Reply) /\ y.tree_id \in Seq(Nat) /\ Once(out) /\ Kept(y, box, u, s)
        /\ InStage(y.pdu, y.authenticated, box)
        /\ s <= MaxTrees + 1 => /\ \A t \in Known(u.held, out) : t < s
                                /\ OnKeptTrees(box, out, y.tree_id, u.held, s)
    BY <1>1, OpenIs
  <1>3. /\ v \in Context /\ InBounds(v) /\ SameButTrees(v, x)
        /\ Len(x.tree_id) < MaxTrees => v.tree_id = Append(x.tree_id, s) /\ CurrentTree(v) = s
    BY <1>1, ConnectTreeIs
  <1> HIDE DEF v
  <1>4. Replies(v) = out /\ v.waitqueue = Append(y.waitqueue, Entry(y, req)) /\ v.fd = "open"
        /\ v.authenticated
    BY <1>1, <1>3 DEF SameButTrees
  <1>5. Real(req) /\ req.command \notin Turning
    BY DEF Real, Turning, Negotiation
  <1>6. /\ RightReply(req, "TREE_CONNECT", "SUCCESS")
        /\ RightPdu(req, "TREE_CONNECT", "SUCCESS", y.pdu, ForAnything)
    BY <1>5 DEF RightReply, RightPdu, Names, Statuses, StatusFits, Rep
  <1>7. z \in QueuePdu(c, v, req.mid, Rep("TREE_CONNECT", "SUCCESS"))
    BY DEF v
  <1>8. QueuesAre(z, v, out, r, Tail(box), u, ForAnything)
    BY <1>1, <1>2, <1>3, <1>4, <1>5, <1>6, <1>7, QueuesAnswered
  <1>9. r.tree = CurrentTree(v) /\ Connects(r)
    BY DEF AnswerTo, Connects
  <1> HIDE DEF r
  <1>10. /\ z \in Context /\ SameButQueues(z, v) /\ r \in Reply /\ Replies(z) = Append(out, r)
         /\ InOnePlace(Tail(box), z.waitqueue, Replies(z))
         /\ Once(Replies(z))
         /\ u.stage # "left" =>
              /\ IsAsked(Tail(box), z.waitqueue, Replies(z), u.stage, u.asked, u.next_id)
              /\ ToBeIn(ForAnything, z.waitqueue, Replies(z), u.stage)
    BY <1>8 DEF QueuesAre
  <1>11. z.fd = "open" /\ z.tree_id = v.tree_id /\ InBounds(z) /\ z.authenticated
    BY <1>3, <1>4, <1>10 DEF SameButQueues, InBounds
  <1>12. Tail(box) \in Seq(Message) /\ Part(Tail(box), box)
    BY <1>1, <1>2, TailIs
  <1>13. ASSUME s + 1 <= MaxTrees + 1
         PROVE  /\ \A t \in Known(u.held, Replies(z)) : t < s + 1
                /\ OnKeptTrees(Tail(box), Replies(z), z.tree_id, u.held, s + 1)
                /\ r.tree = s
    <2>1. s <= MaxTrees + 1 /\ s <= MaxTrees /\ MaxTrees \in Nat
      BY <1>13, BoundsAssumption
    <2>2. OnKeptTrees(box, out, y.tree_id, u.held, s) /\ \A t \in Known(u.held, out) : t < s
      BY <1>2, <2>1
    <2>3. Len(y.tree_id) < s /\ Len(y.tree_id) \in Nat
      BY <1>2, <2>2, LengthIs DEF OnKeptTrees
    <2>4. Len(x.tree_id) < MaxTrees
      BY <1>1, <2>1, <2>3
    <2>5. z.tree_id = Append(y.tree_id, s) /\ r.tree = s
      BY <1>1, <1>3, <1>9, <1>11, <2>4
    <2>6. OnKeptTrees(Tail(box), out, y.tree_id, u.held, s)
      BY <1>2, <1>12, <2>2, TreesOfPart
    <2>7. u.held \in SUBSET Nat
      BY <1>2 DEF Client
    <2>8. /\ OnKeptTrees(Tail(box), Append(out, r), Append(y.tree_id, s), u.held, s + 1)
          /\ \A t \in Known(u.held, Append(out, r)) : t < s + 1
      BY <1>2, <1>9, <1>10, <1>12, <2>2, <2>5, <2>6, <2>7, TreesConnect
    <2> QED
      BY <1>10, <2>5, <2>8
  <1>14. InStage(ForAnything, z.authenticated, Tail(box))
    BY <1>1, <1>2, <1>11, StageHandled
  <1>15. ForAnything \in Pdus
    BY DEF Pdus
  <1>16. OneClient(k, Tail(box), u, s + 1)
    BY <1>2, <1>10, <1>11, <1>12, <1>13, <1>14, <1>15, ConnectionIs
  <1>17. Replies(k) = Append(out, r)
    BY <1>10, <1>15, WithPdu
  <1> HIDE DEF k
  <1>18. s + 1 <= MaxTrees + 1 => \A t \in Known(u.held, Replies(k)) : t \in Known(u.held, out) \/ t = s
    BY <1>2, <1>10, <1>13, <1>17, KnownReply
  <1>19. Steps(y, box, u, s, k, Tail(box), u, s + 1)
    BY <1>16, <1>18 DEF Steps
  <1> QED
    BY <1>19 DEF k

(* A tree is given back: nobody uses it any more.                          *)
LEMMA DisconnectStep ==
  ASSUME NEW c \in Clients, NEW y, NEW box, NEW u, NEW s \in Nat, NEW x, AtRequest(y, box, u, s, x),
         Head(box).command = "TREE_DISCONNECT", y.pdu = ForAnything, x.authenticated,
         NEW command, NEW status, RightReply(Head(box), command, status),
         NEW z0 \in QueuePdu(c, x, Head(box).mid, Rep(command, status)),
         NEW z, z = DisconnectTree(z0, Head(box).tree)
  PROVE  Steps(y, box, u, s, [z EXCEPT !.pdu = ForAnything], Tail(box), u, s)
  <1> DEFINE out == Replies(y)
             req == Head(box)
             r == AnswerTo(x, req, command, status)
             k == [z EXCEPT !.pdu = ForAnything]
  <1>1. /\ OneClient(y, box, u, s) /\ y.fd = "open" /\ box # <<>> /\ IsRead(y, Head(box))
        /\ x \in Context /\ InBounds(x) /\ x.fd = "open" /\ Replies(x) = Replies(y)
        /\ x.tree_id = y.tree_id /\ x.waitqueue = Append(y.waitqueue, Entry(y, Head(box)))
    BY DEF AtRequest
  <1>2. /\ y \in Context /\ box \in Seq(Message) /\ u \in Client /\ y.pdu \in Pdus
        /\ out \in Seq(Reply) /\ y.tree_id \in Seq(Nat) /\ Once(out) /\ Kept(y, box, u, s)
        /\ InStage(y.pdu, y.authenticated, box)
        /\ s <= MaxTrees + 1 => /\ \A t \in Known(u.held, out) : t < s
                                /\ OnKeptTrees(box, out, y.tree_id, u.held, s)
    BY <1>1, OpenIs
  <1>3. Real(req) /\ req.command \notin Turning
    BY DEF Real, Turning, Negotiation
  <1>4. RightPdu(req, command, status, y.pdu, ForAnything)
    BY <1>3 DEF RightPdu
  <1>5. QueuesAre(z0, x, out, r, Tail(box), u, ForAnything)
    BY <1>1, <1>2, <1>3, <1>4, QueuesAnswered
  <1>6. ~ Connects(r)
    BY DEF AnswerTo, Connects, RightReply
  <1> HIDE DEF r
  <1>7. /\ z0 \in Context /\ SameButQueues(z0, x) /\ r \in Reply /\ Replies(z0) = Append(out, r)
        /\ InOnePlace(Tail(box), z0.waitqueue, Replies(z0))
        /\ Once(Replies(z0))
        /\ u.stage # "left" =>
             /\ IsAsked(Tail(box), z0.waitqueue, Replies(z0), u.stage, u.asked, u.next_id)
             /\ ToBeIn(ForAnything, z0.waitqueue, Replies(z0), u.stage)
    BY <1>5 DEF QueuesAre
  <1>8. z0.fd = "open" /\ z0.tree_id = y.tree_id /\ InBounds(z0) /\ z0.authenticated
    BY <1>1, <1>7 DEF SameButQueues, InBounds
  <1>9. /\ z \in Context /\ InBounds(z) /\ SameButTrees(z, z0)
        /\ z.tree_id = y.tree_id \/
           \E i \in DOMAIN y.tree_id : y.tree_id[i] = req.tree /\ z.tree_id = RemoveAt(y.tree_id, i)
    BY <1>7, <1>8, DisconnectTreeIs
  <1>10. /\ z.fd = "open" /\ z.waitqueue = z0.waitqueue /\ Replies(z) = Append(out, r)
         /\ Replies(z) = Replies(z0) /\ z.authenticated
    BY <1>7, <1>8, <1>9 DEF SameButTrees
  <1>11. Tail(box) \in Seq(Message) /\ Head(box) = box[1] /\ 1 \in DOMAIN box
         /\ \A i \in DOMAIN Tail(box) : i + 1 \in DOMAIN box /\ i + 1 > 1 /\ Tail(box)[i] = box[i + 1]
    BY <1>1, <1>2, TailIs
  <1>12. \A t : t \in Known(u.held, Append(out, r)) <=> t \in Known(u.held, out)
    BY <1>2, <1>6, <1>7, KnownReply
  <1>13. ASSUME s <= MaxTrees + 1
         PROVE  /\ \A t \in Known(u.held, Replies(z)) : t < s
                /\ OnKeptTrees(Tail(box), Replies(z), z.tree_id, u.held, s)
    <2>1. OnKeptTrees(box, out, y.tree_id, u.held, s) /\ \A t \in Known(u.held, out) : t < s
      BY <1>2, <1>13
    <2>2. OnKeptTrees(Tail(box), Append(out, r), y.tree_id, u.held, s)
      BY <1>1, <1>2, <1>6, <1>7, <1>13, TreesAnswered
    <2>3. CASE z.tree_id = y.tree_id
      BY <1>10, <1>12, <2>1, <2>2, <2>3
    <2>4. CASE \E i \in DOMAIN y.tree_id : y.tree_id[i] = req.tree /\ z.tree_id = RemoveAt(y.tree_id, i)
      <3>1. PICK i \in DOMAIN y.tree_id :
              y.tree_id[i] = req.tree /\ z.tree_id = RemoveAt(y.tree_id, i)
        BY <2>4
      <3>2. req.tree \in Leaving(box)
        BY <1>11, LeavingIs
      <3>3. req.tree \notin Known(u.held, out)
        BY <2>1, <3>2 DEF OnKeptTrees
      <3>4. req.tree \notin Known(u.held, Append(out, r))
        BY <1>12, <3>3
      <3>5. \A j \in DOMAIN box : 1 < j /\ UsesTree(box[j]) => box[1].tree # box[j].tree
        BY <1>11, <2>1 DEF OnKeptTrees
      <3>6. \A j \in DOMAIN Tail(box) : UsesTree(Tail(box)[j]) => Tail(box)[j].tree # req.tree
        BY <1>11, <3>5
      <3>7. Append(out, r) \in Seq(Reply)
        BY <1>2, <1>7
      <3>8. OnKeptTrees(Tail(box), Append(out, r), RemoveAt(y.tree_id, i), u.held, s)
        BY <1>2, <1>11, <2>2, <3>1, <3>4, <3>6, <3>7, TreesRemoved
      <3> QED
        BY <1>10, <1>12, <2>1, <3>1, <3>8
    <2> QED
      BY <1>9, <2>3, <2>4
  <1>14. InStage(ForAnything, z.authenticated, Tail(box))
    BY <1>1, <1>2, <1>10, StageHandled
  <1>15. ForAnything \in Pdus
    BY DEF Pdus
  <1>16. OneClient(k, Tail(box), u, s)
    BY <1>2, <1>7, <1>9, <1>10, <1>11, <1>13, <1>14, <1>15, ConnectionIs
  <1>17. Replies(k) = Append(out, r)
    BY <1>9, <1>10, <1>15, WithPdu
  <1> HIDE DEF k
  <1>18. Steps(y, box, u, s, k, Tail(box), u, s)
    BY <1>12, <1>16, <1>17 DEF Steps
  <1> QED
    BY <1>18 DEF k

(* A cancel waits like a request, though only a refused one is answered.   *)
CancelWaits(y, box, u, s, q) ==
  /\ q \in Seq(Waiting)
  /\ InOnePlace(Tail(box), q, Replies(y))
  /\ u.stage # "left" => /\ IsAsked(Tail(box), q, Replies(y), u.stage, u.asked, u.next_id)
                         /\ ToBeIn(ForAnything, q, Replies(y), u.stage)
  /\ Tail(box) \in Seq(Message) /\ InStage(ForAnything, TRUE, Tail(box))
  /\ s <= MaxTrees + 1 => /\ \A t \in Known(u.held, Replies(y)) : t < s
                          /\ OnKeptTrees(Tail(box), Replies(y), y.tree_id, u.held, s)

(* A cancel waits with the id of what it cancels and is not found by       *)
(* replies.                                                                *)
LEMMA CancelIsTaken ==
  ASSUME NEW y, NEW box, NEW u, NEW s, NEW x, AtRequest(y, box, u, s, x),
         Head(box).command = "CANCEL", y.pdu = ForAnything
  PROVE  CancelWaits(y, box, u, s, x.waitqueue)
  <1> DEFINE out == Replies(y)
             wq == y.waitqueue
             req == Head(box)
             w == Entry(y, req)
  <1>1. /\ OneClient(y, box, u, s) /\ y.fd = "open" /\ box # <<>>
        /\ x.waitqueue = Append(y.waitqueue, Entry(y, Head(box))) /\ Head(box) \in Message
    BY DEF AtRequest
  <1>2. /\ y \in Context /\ box \in Seq(Message) /\ u \in Client /\ y.pdu \in Pdus
        /\ out \in Seq(Reply) /\ wq \in Seq(Waiting)
        /\ InOnePlace(box, wq, out) /\ InStage(y.pdu, y.authenticated, box)
        /\ u.stage # "left" => /\ IsAsked(box, wq, out, u.stage, u.asked, u.next_id)
                               /\ ToBeIn(y.pdu, wq, out, u.stage)
        /\ s <= MaxTrees + 1 => /\ \A t \in Known(u.held, out) : t < s
                                /\ OnKeptTrees(box, out, y.tree_id, u.held, s)
    BY <1>1, OpenIs
  <1>3. /\ Tail(box) \in Seq(Message) /\ Part(Tail(box), box) /\ Head(box) = box[1] /\ 1 \in DOMAIN box
        /\ \A i \in DOMAIN Tail(box) : i + 1 \in DOMAIN box /\ i + 1 > 1 /\ Tail(box)[i] = box[i + 1]
    BY <1>1, <1>2, TailIs
  <1>4. w \in Waiting
    BY <1>1, <1>2, EntryIs
  <1>5. w.command = "CANCEL" /\ w.async = FALSE /\ w.mid = req.mid /\ ~ Real(w)
    BY DEF Entry, ReadAs, BeforeSession, Real
  <1>6. x.waitqueue = Append(wq, w)
    BY <1>1
  <1> HIDE DEF w, wq, out
  <1>7. Part(wq, wq) /\ Part(out, out)
    BY <1>2, SameIsPart
  <1>8. InOnePlace(Tail(box), wq, out)
    BY <1>2, <1>3, <1>7, PlacesOfPart
  <1>9. \A j \in DOMAIN Tail(box) : Real(Tail(box)[j]) => w.mid # Tail(box)[j].mid
    <2>1. \A j \in DOMAIN box : 1 < j /\ Real(box[j]) => box[1].mid # box[j].mid
      BY <1>2, <1>3 DEF InOnePlace
    <2> QED
      BY <1>3, <1>5, <2>1
  <1>10. InOnePlace(Tail(box), Append(wq, w), out)
    BY <1>2, <1>3, <1>4, <1>5, <1>8, <1>9, PlacesWait
  <1>11. ASSUME u.stage # "left"
         PROVE  /\ IsAsked(Tail(box), Append(wq, w), out, u.stage, u.asked, u.next_id)
                /\ ToBeIn(ForAnything, Append(wq, w), out, u.stage)
    <2>1. IsAsked(box, wq, out, u.stage, u.asked, u.next_id) /\ ToBeIn(ForAnything, wq, out, u.stage)
      BY <1>2, <1>11
    <2>2. IsAsked(Tail(box), wq, out, u.stage, u.asked, u.next_id)
      BY <1>2, <1>3, <1>7, <2>1, AskedOfPart
    <2>3. w.mid < u.next_id
      BY <1>3, <1>5, <2>1 DEF IsAsked
    <2>4. IsAsked(Tail(box), Append(wq, w), out, u.stage, u.asked, u.next_id)
      BY <1>2, <1>4, <1>5, <2>2, <2>3, AskedWait
    <2>5. /\ \A i \in DOMAIN wq : i \in DOMAIN Append(wq, w) /\ Append(wq, w)[i] = wq[i]
          /\ \A i \in DOMAIN Append(wq, w) :
               (i \in DOMAIN wq /\ Append(wq, w)[i] = wq[i]) \/ Append(wq, w)[i] = w
      BY <1>2, <1>4, AppendIs, LengthIs
    <2>6. ToBeIn(ForAnything, Append(wq, w), out, u.stage)
      <3> DEFINE q == Append(wq, w)
      <3>1. \A i \in DOMAIN q : (\E k \in DOMAIN wq : q[i] = wq[k]) \/ q[i].command # "LOGOFF"
        BY <1>5, <2>5
      <3>2. \A i \in DOMAIN wq : wq[i].command = "LOGOFF" => \E k \in DOMAIN q : q[k] = wq[i]
        BY <2>5
      <3> HIDE DEF q
      <3>3. ToBeIn(ForAnything, q, out, u.stage)
        BY <2>1, <3>1, <3>2, ToBeSame
      <3> QED
        BY <3>3 DEF q
    <2> QED
      BY <2>4, <2>6
  <1>12. InStage(ForAnything, TRUE, Tail(box))
    BY <1>1, <1>2, StageHandled
  <1>13. s <= MaxTrees + 1 => OnKeptTrees(Tail(box), out, y.tree_id, u.held, s)
    BY <1>2, <1>3, TreesOfPart
  <1>14. Append(wq, w) \in Seq(Waiting)
    BY <1>2, <1>4, AppendIs
  <1> QED
    BY <1>2, <1>3, <1>6, <1>10, <1>11, <1>12, <1>13, <1>14 DEF CancelWaits, out

LEMMA CancelStep ==
  ASSUME NEW c \in Clients, NEW y, NEW box, NEW u, NEW s, NEW x, AtRequest(y, box, u, s, x),
         Head(box).command = "CANCEL", y.pdu = ForAnything, x.authenticated
  PROVE  Steps(y, box, u, s, [x EXCEPT !.pdu = ForAnything], Tail(box), u, s)
  <1> DEFINE v == [x EXCEPT !.pdu = ForAnything]
  <1>1. CancelWaits(y, box, u, s, x.waitqueue)
    BY CancelIsTaken
  <1>2. /\ OneClient(y, box, u, s) /\ y.fd = "open" /\ u \in Client
        /\ x \in Context /\ InBounds(x) /\ x.fd = "open" /\ Replies(x) = Replies(y)
        /\ x.tree_id = y.tree_id
    BY DEF AtRequest
  <1>3. Once(Replies(x))
    BY <1>2, OpenIs
  <1>4. ForAnything \in Pdus
    BY DEF Pdus
  <1>5. InStage(ForAnything, x.authenticated, Tail(box))
    BY <1>1 DEF CancelWaits, InStage
  <1>6. OneClient(v, Tail(box), u, s)
    BY <1>1, <1>2, <1>3, <1>4, <1>5, ConnectionIs DEF CancelWaits
  <1>7. Replies(v) = Replies(y)
    BY <1>2, <1>4, WithPdu
  <1> HIDE DEF v
  <1>8. Steps(y, box, u, s, v, Tail(box), u, s)
    BY <1>6, <1>7 DEF Steps
  <1> QED
    BY <1>8 DEF v

(* A request whose answer is late is the first of its id, and the one that *)
(* leaves the waitqueue.                                                   *)
FirstGoes(wq, mid, k, q) ==
  /\ k \in DOMAIN wq /\ wq[k].mid = mid
  /\ \A i \in DOMAIN wq : wq[i].mid = mid /\ Real(wq[i]) => i = k
  /\ q \in Seq(Waiting) /\ Part(q, wq)
  /\ \A i \in DOMAIN q : (\E j \in DOMAIN wq : q[i] = wq[j]) /\ (Real(q[i]) => q[i].mid # mid)
  /\ \A i \in DOMAIN wq : i # k => \E j \in DOMAIN q : q[j] = wq[i]

(* The entry that a refused cancel's reply finds.                          *)
LEMMA FirstIsReal ==
  ASSUME NEW x \in Context, NEW box, NEW out, InOnePlace(box, x.waitqueue, out),
         NEW mid, IsWaiting(x, mid)
  PROVE  FirstGoes(x.waitqueue, mid, FirstWaiting(x, mid),
                   RemoveAt(x.waitqueue, FirstWaiting(x, mid)))
  <1> DEFINE wq == x.waitqueue
             k == FirstWaiting(x, mid)
             q == RemoveAt(wq, k)
  <1>1. wq \in Seq(Waiting)
    BY ContextIs
  <1>2. /\ k \in DOMAIN wq /\ wq[k].mid = mid
        /\ \A j \in DOMAIN wq : wq[j].mid = mid => k <= j
    BY FirstWaitingIs
  <1> HIDE DEF k, wq
  <1>3. DOMAIN wq = 1 .. Len(wq) /\ Len(wq) \in Nat
    BY <1>1, LengthIs
  <1>4. \A i \in DOMAIN wq : wq[i].mid = mid /\ Real(wq[i]) => i = k
    <2> SUFFICES ASSUME NEW i \in DOMAIN wq, wq[i].mid = mid, Real(wq[i]), i # k
                 PROVE  FALSE
      OBVIOUS
    <2>1. k < i
      BY <1>2, <1>3
    <2> QED
      BY <1>2, <2>1 DEF InOnePlace, wq
  <1>5. /\ q \in Seq(Waiting) /\ Len(q) = Len(wq) - 1
        /\ DOMAIN q = 1 .. Len(wq) - 1
        /\ \A i \in DOMAIN q : q[i] = IF i < k THEN wq[i] ELSE wq[i + 1]
        /\ \A i \in DOMAIN wq : i # k => \E j \in DOMAIN q : q[j] = wq[i]
        /\ Part(q, wq)
    BY <1>1, <1>2, RemoveAtIs
  <1> HIDE DEF q
  <1>6. \A i \in DOMAIN q : \E j \in DOMAIN wq : j # k /\ q[i] = wq[j]
    <2> SUFFICES ASSUME NEW i \in DOMAIN q PROVE \E j \in DOMAIN wq : j # k /\ q[i] = wq[j]
      OBVIOUS
    <2>1. CASE i < k
      <3>1. i \in DOMAIN wq /\ i # k
        BY <1>2, <1>3, <1>5, <2>1
      <3> QED
        BY <1>5, <2>1, <3>1
    <2>2. CASE ~ (i < k)
      <3>1. i + 1 \in DOMAIN wq /\ i + 1 # k
        BY <1>2, <1>3, <1>5, <2>2
      <3> QED
        BY <1>5, <2>2, <3>1
    <2> QED
      BY <2>1, <2>2
  <1>7. \A i \in DOMAIN q : (\E j \in DOMAIN wq : q[i] = wq[j]) /\ (Real(q[i]) => q[i].mid # mid)
    BY <1>4, <1>6
  <1>8. FirstGoes(wq, mid, k, q)
    BY <1>2, <1>4, <1>5, <1>7 DEF FirstGoes
  <1> QED
    BY <1>8 DEF q, k, wq

(* A refused cancel takes the request it was for, or itself, out of the    *)
(* waitqueue; nothing of its id is in the socket.                          *)
LEMMA RefusedStep ==
  ASSUME NEW c \in Clients, NEW y, NEW box, NEW u, NEW s, NEW x, AtRequest(y, box, u, s, x),
         Head(box).command = "CANCEL", y.pdu = ForAnything, x.authenticated,
         NEW z \in QueuePdu(c, x, Head(box).mid, Rep("CANCEL", "NOT_IMPLEMENTED"))
  PROVE  Steps(y, box, u, s, [z EXCEPT !.pdu = ForAnything], Tail(box), u, s)
  <1> DEFINE out == Replies(y)
             mid == Head(box).mid
             rep == Rep("CANCEL", "NOT_IMPLEMENTED")
             k == FirstWaiting(x, mid)
             q == RemoveAt(x.waitqueue, k)
             r == Answer(x, k, mid, rep)
             v == [z EXCEPT !.pdu = ForAnything]
             box2 == Tail(box)
  <1>1. /\ OneClient(y, box, u, s) /\ y.fd = "open" /\ box # <<>> /\ u \in Client
        /\ x \in Context /\ InBounds(x) /\ x.fd = "open" /\ Replies(x) = Replies(y)
        /\ x.tree_id = y.tree_id /\ x.waitqueue = Append(y.waitqueue, Entry(y, Head(box)))
        /\ Head(box) \in Message /\ y.pdu \in Pdus
    BY DEF AtRequest
  <1>2. /\ y \in Context /\ box \in Seq(Message)
        /\ out \in Seq(Reply) /\ Once(out) /\ y.waitqueue \in Seq(Waiting)
        /\ InOnePlace(box, y.waitqueue, out) /\ InStage(y.pdu, y.authenticated, box)
    BY <1>1, OpenIs
  <1>3. Head(box) = box[1] /\ 1 \in DOMAIN box
    BY <1>1, <1>2, TailIs
  <1>4. mid # 0 /\ mid \in Nat
    <2>1. mid \in Nat
      BY <1>1 DEF Message
    <2>2. mid = 0 => Head(box).command \in Negotiation
      BY <1>2, <1>3 DEF InStage
    <2> QED
      BY <2>1, <2>2 DEF Negotiation
  <1>5. CancelWaits(y, box, u, s, x.waitqueue)
    BY CancelIsTaken
  <1>6. /\ x.waitqueue \in Seq(Waiting) /\ InOnePlace(box2, x.waitqueue, out) /\ box2 \in Seq(Message)
        /\ u.stage # "left" => /\ IsAsked(box2, x.waitqueue, out, u.stage, u.asked, u.next_id)
                               /\ ToBeIn(ForAnything, x.waitqueue, out, u.stage)
        /\ InStage(ForAnything, TRUE, box2)
        /\ s <= MaxTrees + 1 => /\ \A t \in Known(u.held, out) : t < s
                                /\ OnKeptTrees(box2, out, y.tree_id, u.held, s)
    BY <1>5 DEF CancelWaits
  <1>7. IsWaiting(x, mid)
    <2> DEFINE w == Entry(y, Head(box))
               i == Len(y.waitqueue) + 1
    <2>1. w \in Waiting /\ w.mid = mid /\ x.waitqueue = Append(y.waitqueue, w)
      BY <1>1, <1>2, EntryIs DEF Entry
    <2> HIDE DEF w
    <2>2. i \in DOMAIN x.waitqueue /\ x.waitqueue[i] = w
      BY <1>2, <2>1, AppendIs, LengthIs
    <2> QED
      BY <2>1, <2>2 DEF IsWaiting
  <1>8. Queued(z, x, k, mid, rep)
    <2>1. CurrentTree(x) \in Nat
      BY <1>1, CurrentTreeIs DEF InBounds
    <2>2. "CANCEL" \in Names /\ "NOT_IMPLEMENTED" \in Statuses
      BY DEF Names, Statuses
    <2> QED
      BY <1>1, <1>4, <1>7, <2>1, <2>2, QueueIs
  <1>9. r.command = "CANCEL" /\ r.status = "NOT_IMPLEMENTED" /\ r.mid = mid
        /\ ~ Real(r) /\ ~ Connects(r) /\ rep.status # "PENDING"
    BY DEF Answer, Rep, Real, Connects
  <1>10. /\ r \in Reply /\ Replies(z) = Append(out, r) /\ z \in Context /\ SameButQueues(z, x)
         /\ z.waitqueue = q
    BY <1>1, <1>8, <1>9 DEF Queued
  <1>11. /\ q \in Seq(Waiting) /\ Part(q, x.waitqueue)
         /\ \A i \in DOMAIN q : (\E j \in DOMAIN x.waitqueue : q[i] = x.waitqueue[j])
                                /\ (Real(q[i]) => q[i].mid # mid)
    <2>1. FirstGoes(x.waitqueue, mid, k, q)
      BY <1>1, <1>6, <1>7, FirstIsReal
    <2> QED
      BY <2>1 DEF FirstGoes
  <1> HIDE DEF q, k, r, rep, mid, out, box2
  <1>12. Part(box2, box2) /\ Part(out, out)
    BY <1>2, <1>6, SameIsPart
  <1>13. InOnePlace(box2, q, out)
    BY <1>2, <1>6, <1>11, <1>12, PlacesOfPart
  <1>14. \A j \in DOMAIN box2 : Real(box2[j]) => mid # box2[j].mid
    <2>1. PICK i \in DOMAIN x.waitqueue : x.waitqueue[i].mid = mid
      BY <1>7 DEF IsWaiting
    <2> QED
      BY <1>6, <2>1 DEF InOnePlace
  <1>15. InOnePlace(box2, q, Append(out, r))
    BY <1>2, <1>6, <1>9, <1>10, <1>11, <1>13, <1>14, PlacesReply
  <1>16. Once(Append(out, r))
    BY <1>2, <1>9, <1>10, OnceReply
  <1>17. ASSUME u.stage # "left"
         PROVE  /\ IsAsked(box2, q, Append(out, r), u.stage, u.asked, u.next_id)
                /\ ToBeIn(ForAnything, q, Append(out, r), u.stage)
    <2>1. /\ IsAsked(box2, x.waitqueue, out, u.stage, u.asked, u.next_id)
          /\ ToBeIn(ForAnything, x.waitqueue, out, u.stage)
      BY <1>6, <1>17
    <2>2. IsAsked(box2, q, out, u.stage, u.asked, u.next_id)
      BY <1>2, <1>6, <1>11, <1>12, <2>1, AskedOfPart
    <2>3. mid < u.next_id
      BY <1>7, <2>1 DEF IsAsked, IsWaiting
    <2>4. IsAsked(box2, q, Append(out, r), u.stage, u.asked, u.next_id)
      BY <1>2, <1>9, <1>10, <2>2, <2>3, AskedReply
    <2> DEFINE o == Append(out, r)
    <2>5. /\ \A i \in DOMAIN out : i \in DOMAIN o /\ o[i] = out[i]
          /\ \A i \in DOMAIN o : (i \in DOMAIN out /\ o[i] = out[i]) \/ o[i] = r
      BY <1>2, <1>10, AppendIs, LengthIs
    <2> HIDE DEF o
    <2>6. \A i \in DOMAIN o : (\E j \in DOMAIN out : o[i] = out[j]) \/ o[i].command \notin Turning
      BY <1>9, <2>5 DEF Turning, Negotiation
    <2>7. \A i \in DOMAIN x.waitqueue : x.waitqueue[i].command # "LOGOFF"
      BY <2>1, PdusDiffer DEF ToBeIn
    <2>8. ToBeIn(ForAnything, q, o, u.stage)
      BY <1>11, <2>1, <2>5, <2>6, <2>7, ToBeSame
    <2> QED
      BY <2>4, <2>8 DEF o
  <1>18. z.fd = "open" /\ z.tree_id = y.tree_id /\ InBounds(z) /\ z.authenticated
    BY <1>1, <1>10 DEF SameButQueues, InBounds
  <1>19. \A t : t \in Known(u.held, Append(out, r)) <=> t \in Known(u.held, out)
    BY <1>2, <1>9, <1>10, KnownReply
  <1>20. s <= MaxTrees + 1 => /\ \A t \in Known(u.held, Replies(z)) : t < s
                              /\ OnKeptTrees(box2, Replies(z), z.tree_id, u.held, s)
    <2> SUFFICES ASSUME s <= MaxTrees + 1
                 PROVE  /\ \A t \in Known(u.held, Replies(z)) : t < s
                        /\ OnKeptTrees(box2, Replies(z), z.tree_id, u.held, s)
      OBVIOUS
    <2>1. OnKeptTrees(box2, Append(out, r), y.tree_id, u.held, s)
      BY <1>2, <1>6, <1>9, <1>10, TreesReply
    <2> QED
      BY <1>6, <1>10, <1>18, <1>19, <2>1
  <1>21. InStage(ForAnything, z.authenticated, box2)
    BY <1>6, <1>18 DEF InStage
  <1>22. ForAnything \in Pdus
    BY DEF Pdus
  <1>23. OneClient(v, box2, u, s)
    BY <1>1, <1>6, <1>10, <1>15, <1>16, <1>17, <1>18, <1>20, <1>21, <1>22, ConnectionIs
  <1>24. Replies(v) = Append(out, r)
    BY <1>10, <1>22, WithPdu
  <1> HIDE DEF v
  <1>25. Steps(y, box, u, s, v, box2, u, s)
    BY <1>19, <1>23, <1>24 DEF Steps, out
  <1> QED
    BY <1>25 DEF v, box2

(* smb2_general_client_request_cb, by command: cancel, connect,            *)
(* disconnect, the others.                                                 *)
LEMMA GeneralKeeps ==
  ASSUME Invariant, NEW c \in Clients, GeneralRequest(c)
  PROVE  Invariant'
  <1> DEFINE y == context[c]
             box == inbox[c]
             u == client[c]
             s == s_tree_id
             req == Head(box)
             x == Taken(y, req)
  <1>1. OneClient(y, box, u, s) /\ loop \in Loops /\ s \in Nat
    BY DEF Invariant, Loops
  <1>2. /\ AtRequest(y, box, u, s, x) /\ x.authenticated = y.authenticated
        /\ y.pdu = ForAnything /\ req.command \notin Negotiation \cup {"SESSION_SETUP"}
    BY RequestIs DEF GeneralRequest
  <1>3. TakesRequest(c) /\ loop' = loop /\ box # <<>>
    BY DEF GeneralRequest, Request, TakesRequest
  <1>4. PICK rep \in RepliesTo(req.command) :
          LET connects == rep = Rep("TREE_CONNECT", "SUCCESS")
              v == IF connects THEN ConnectTree(x, s_tree_id) ELSE x
              zs == QueuePdu(c, v, req.mid, rep)
          IN /\ s_tree_id' = IF connects THEN s_tree_id + 1 ELSE s_tree_id
             /\ Becomes(c, IF req.command = "TREE_DISCONNECT"
                           THEN {DisconnectTree(z, req.tree) : z \in zs} ELSE zs,
                        AfterLogoff(req.command))
    BY DEF GeneralRequest
  <1> DEFINE connects == rep = Rep("TREE_CONNECT", "SUCCESS")
             v == IF connects THEN ConnectTree(x, s) ELSE x
             zs == QueuePdu(c, v, req.mid, rep)
             xs == IF req.command = "TREE_DISCONNECT"
                   THEN {DisconnectTree(z, req.tree) : z \in zs} ELSE zs
             pdu2 == AfterLogoff(req.command)
  <1>5. s_tree_id' = (IF connects THEN s + 1 ELSE s) /\ Becomes(c, xs, pdu2)
    BY <1>4
  <1>6. /\ OneClient(y, box, u, s) /\ y.fd = "open" /\ IsRead(y, req)
        /\ x \in Context /\ InBounds(x) /\ x.fd = "open" /\ Replies(x) = Replies(y)
        /\ x.tree_id = y.tree_id /\ x.waitqueue = Append(y.waitqueue, Entry(y, req))
        /\ req \in Message /\ x.authenticated
    BY <1>2 DEF AtRequest
  <1> HIDE DEF x, v, zs, xs, pdu2
  <1>7. /\ OnlyMoves(c) /\ client'[c] = u /\ inbox'[c] = Tail(box)
        /\ HasBecome(context'[c], xs, pdu2)
    BY <1>3, <1>5, BecomesIs
  <1>8. PICK z \in xs : context'[c] = [z EXCEPT !.pdu = pdu2]
    BY <1>7 DEF HasBecome
  <1>9. req.command \in Requests \ (Negotiation \cup {"SESSION_SETUP"})
    BY <1>2, <1>6 DEF Message
  <1>10. ASSUME Steps(y, box, u, s, [z EXCEPT !.pdu = pdu2], Tail(box), u, s_tree_id')
         PROVE  Invariant'
    <2>1. Steps(y, box, u, s, context'[c], inbox'[c], client'[c], s_tree_id')
      BY <1>7, <1>8, <1>10
    <2> QED
      BY <1>1, <1>3, <1>7, <2>1, OneMoves
  <1>11. CASE req.command = "CANCEL"
    <2>1. rep \in {NoRep, Rep("CANCEL", "NOT_IMPLEMENTED")}
      BY <1>9, <1>11, RepliesToIs
    <2>2. ~ connects
      BY <2>1 DEF Rep, NoRep
    <2>3. v = x /\ xs = zs /\ s_tree_id' = s /\ pdu2 = ForAnything
      BY <1>5, <1>11, <2>2 DEF v, xs, pdu2, AfterLogoff
    <2>4. CASE rep = NoRep
      <3>1. zs = {x}
        BY <2>3, <2>4 DEF zs, QueuePdu
      <3> QED
        BY <1>2, <1>6, <1>8, <1>10, <1>11, <2>3, <3>1, CancelStep
    <2>5. CASE rep = Rep("CANCEL", "NOT_IMPLEMENTED")
      <3>1. z \in QueuePdu(c, x, req.mid, Rep("CANCEL", "NOT_IMPLEMENTED"))
        BY <1>8, <2>3, <2>5 DEF zs
      <3> QED
        BY <1>2, <1>6, <1>10, <1>11, <2>3, <3>1, RefusedStep
    <2> QED
      BY <2>1, <2>4, <2>5
  <1>12. CASE req.command # "CANCEL"
    <2>1. PICK command, status : rep = Rep(command, status) /\ RightReply(req, command, status)
      BY <1>9, <1>12, RepliesToIs
    <2>2. connects <=> command = "TREE_CONNECT" /\ status = "SUCCESS"
      BY <2>1 DEF Rep
    <2>3. command = "TREE_CONNECT" => req.command = "TREE_CONNECT"
      BY <2>1 DEF RightReply
    <2>4. CASE connects
      <3>1. /\ req.command = "TREE_CONNECT" /\ v = ConnectTree(x, s) /\ xs = zs
            /\ s_tree_id' = s + 1 /\ pdu2 = ForAnything
        BY <1>5, <2>2, <2>3, <2>4 DEF v, xs, pdu2, AfterLogoff
      <3>2. z \in QueuePdu(c, ConnectTree(x, s), req.mid, Rep("TREE_CONNECT", "SUCCESS"))
        BY <1>8, <2>4, <3>1 DEF zs
      <3> QED
        BY <1>1, <1>2, <1>6, <1>10, <3>1, <3>2, ConnectStep
    <2>5. CASE ~ connects /\ req.command = "TREE_DISCONNECT"
      <3>1. /\ v = x /\ xs = {DisconnectTree(w, req.tree) : w \in zs}
            /\ s_tree_id' = s /\ pdu2 = ForAnything
        BY <1>5, <2>5 DEF v, xs, pdu2, AfterLogoff
      <3>2. PICK z0 \in QueuePdu(c, x, req.mid, Rep(command, status)) : z = DisconnectTree(z0, req.tree)
        BY <1>8, <2>1, <3>1 DEF zs
      <3>3. Steps(y, box, u, s, [z EXCEPT !.pdu = ForAnything], Tail(box), u, s)
        BY <1>1, <1>2, <1>6, <2>1, <2>5, <3>2, DisconnectStep
      <3> QED
        BY <1>10, <3>1, <3>3
    <2>6. CASE ~ connects /\ req.command # "TREE_DISCONNECT"
      <3>1. v = x /\ xs = zs /\ s_tree_id' = s
        BY <1>5, <2>6 DEF v, xs
      <3>2. z \in QueuePdu(c, x, req.mid, Rep(command, status))
        BY <1>8, <2>1, <3>1 DEF zs
      <3>3. ~ Connects(Rep(command, status))
        BY <2>2, <2>6 DEF Connects, Rep
      <3>4. RightPdu(req, command, status, y.pdu, pdu2)
        <4>1. CASE req.command = "LOGOFF"
          <5>1. command = "LOGOFF"
            BY <2>1, <4>1 DEF RightReply
          <5>2. PduAfter(Rep(command, status)) = ForSession
            BY <5>1 DEF PduAfter, Rep
          <5> QED
            BY <4>1, <5>2 DEF RightPdu, pdu2, AfterLogoff, Turning
        <4>2. CASE req.command # "LOGOFF"
          <5>1. req.command \notin Turning
            BY <1>2, <4>2 DEF Turning
          <5>2. pdu2 = ForAnything
            BY <4>2 DEF pdu2, AfterLogoff
          <5> QED
            BY <1>2, <5>1, <5>2 DEF RightPdu
        <4> QED
          BY <4>1, <4>2
      <3>5. pdu2 \in Pdus /\ Real(req)
        BY <1>12 DEF pdu2, AfterLogoff, Pdus, Real
      <3>6. Steps(y, box, u, s, [z EXCEPT !.pdu = pdu2], Tail(box), u, s)
        BY <1>3, <1>6, <2>1, <3>2, <3>3, <3>4, <3>5, PlainStep
      <3> QED
        BY <1>10, <3>1, <3>6
    <2> QED
      BY <2>4, <2>5, <2>6
  <1> QED
    BY <1>11, <1>12

(* The reply that a handler has promised.                                  *)
LEMMA LateStep ==
  ASSUME NEW c \in Clients, NEW y, NEW box, NEW u, NEW s, OneClient(y, box, u, s), y.fd = "open",
         NEW n \in DOMAIN y.waitqueue, y.waitqueue[n].async,
         NEW z \in QueuePdu(c, y, y.waitqueue[n].mid, Rep(y.waitqueue[n].command, "SUCCESS"))
  PROVE  Steps(y, box, u, s, [z EXCEPT !.pdu = y.pdu], box, u, s)
  <1> DEFINE out == Replies(y)
             wq == y.waitqueue
             w == wq[n]
             mid == w.mid
             rep == Rep(w.command, "SUCCESS")
             k == FirstWaiting(y, mid)
             q == RemoveAt(wq, k)
             r == Answer(y, k, mid, rep)
             v == [z EXCEPT !.pdu = y.pdu]
  <1>1. /\ y \in Context /\ box \in Seq(Message) /\ u \in Client /\ y.pdu \in Pdus /\ InBounds(y)
        /\ out \in Seq(Reply) /\ Once(out) /\ wq \in Seq(Waiting)
        /\ InOnePlace(box, wq, out) /\ InStage(y.pdu, y.authenticated, box)
        /\ u.stage # "left" => /\ IsAsked(box, wq, out, u.stage, u.asked, u.next_id)
                               /\ ToBeIn(y.pdu, wq, out, u.stage)
        /\ s <= MaxTrees + 1 => /\ \A t \in Known(u.held, out) : t < s
                                /\ OnKeptTrees(box, out, y.tree_id, u.held, s)
    BY OpenIs
  <1>2. w \in Waiting
    BY <1>1, LengthIs
  <1>3. mid \in Nat /\ w.command \in Names
    BY <1>2 DEF Waiting
  <1>4. Real(w) /\ w.command \in Late
    BY <1>1 DEF InOnePlace
  <1>5. CASE mid = 0
    <2>1. rep.command # "NEGOTIATE"
      BY <1>4 DEF Rep, Late, OnTrees
    <2>2. z = y
      BY <1>5, <2>1 DEF QueuePdu
    <2>3. OneClient(v, box, u, s)
      BY <1>1, <2>2, ConnectionIs
    <2>4. Replies(v) = Replies(y)
      BY <1>1, <2>2, WithPdu
    <2> HIDE DEF v
    <2>5. Steps(y, box, u, s, v, box, u, s)
      BY <2>3, <2>4 DEF Steps
    <2> QED
      BY <2>5 DEF v
  <1>6. CASE mid # 0
    <2>1. IsWaiting(y, mid)
      BY DEF IsWaiting
    <2>2. Queued(z, y, k, mid, rep)
      <3>1. CurrentTree(y) \in Nat
        BY <1>1, CurrentTreeIs DEF InBounds
      <3>2. "SUCCESS" \in Statuses
        BY DEF Statuses
      <3> QED
        BY <1>1, <1>3, <1>6, <2>1, <3>1, <3>2, QueueIs
    <2>3. /\ \A i \in DOMAIN wq : wq[i].mid = mid /\ Real(wq[i]) => i = k
          /\ q \in Seq(Waiting) /\ Part(q, wq)
          /\ \A i \in DOMAIN q : (\E j \in DOMAIN wq : q[i] = wq[j]) /\ (Real(q[i]) => q[i].mid # mid)
          /\ \A i \in DOMAIN wq : i # k => \E j \in DOMAIN q : q[j] = wq[i]
      <3>1. FirstGoes(wq, mid, k, q)
        BY <1>1, <2>1, FirstIsReal
      <3> QED
        BY <3>1 DEF FirstGoes
    <2>4. k = n
      BY <1>4, <2>3
    <2>5. /\ r.command = w.command /\ r.status = "SUCCESS" /\ r.mid = mid /\ r.tree = NoTree
          /\ rep.status # "PENDING" /\ Real(r) /\ ~ Connects(r)
      BY <1>4, <2>4 DEF Answer, Rep, Real, Connects, TreeOfReply, Late, OnTrees
    <2>6. /\ r \in Reply /\ Replies(z) = Append(out, r) /\ z \in Context /\ SameButQueues(z, y)
          /\ z.waitqueue = q
      BY <2>2, <2>5 DEF Queued
    <2> HIDE DEF q, k, r, rep, w, wq, out
    <2>7. Part(box, box) /\ Part(out, out) /\ wq[n] = w /\ w.mid = mid /\ n \in DOMAIN wq
      BY <1>1, SameIsPart DEF w, wq
    <2>8. InOnePlace(box, q, out)
      BY <1>1, <2>3, <2>7, PlacesOfPart
    <2>9. /\ \A j \in DOMAIN box : Real(box[j]) => mid # box[j].mid
          /\ \A i \in DOMAIN out : out[i].status # "PENDING" => out[i].mid # mid
      BY <1>1, <1>4, <2>7 DEF InOnePlace
    <2> HIDE DEF mid
    <2>10. InOnePlace(box, q, Append(out, r))
      BY <1>1, <2>3, <2>5, <2>6, <2>8, <2>9, PlacesReply
    <2>11. Once(Append(out, r))
      BY <1>1, <2>5, <2>6, <2>9, OnceReply
    <2>12. ASSUME u.stage # "left"
           PROVE  /\ IsAsked(box, q, Append(out, r), u.stage, u.asked, u.next_id)
                  /\ ToBeIn(y.pdu, q, Append(out, r), u.stage)
      <3>1. IsAsked(box, wq, out, u.stage, u.asked, u.next_id) /\ ToBeIn(y.pdu, wq, out, u.stage)
        BY <1>1, <2>12
      <3>2. IsAsked(box, q, out, u.stage, u.asked, u.next_id)
        BY <1>1, <2>3, <2>7, <3>1, AskedOfPart
      <3>3. mid < u.next_id /\ Asks(w) \in u.asked
        BY <1>4, <2>7, <3>1 DEF IsAsked
      <3>4. Answers(r, Asks(w))
        BY <2>5, <2>7 DEF Answers, Asks
      <3>5. IsAsked(box, q, Append(out, r), u.stage, u.asked, u.next_id)
        BY <1>1, <2>5, <2>6, <3>2, <3>3, <3>4, AskedReply
      <3> DEFINE o == Append(out, r)
      <3>6. /\ \A i \in DOMAIN out : i \in DOMAIN o /\ o[i] = out[i]
            /\ \A i \in DOMAIN o : (i \in DOMAIN out /\ o[i] = out[i]) \/ o[i] = r
            /\ Len(out) + 1 \in DOMAIN o /\ o[Len(out) + 1] = r
        BY <1>1, <2>6, AppendIs, LengthIs
      <3> HIDE DEF o
      <3>7. CASE w.command = "LOGOFF"
        <4>1. y.pdu = ForSession
          BY <2>7, <3>1, <3>7 DEF ToBeIn
        <4>2. StatusFits(r) /\ Turns(r) /\ PduAfter(r) = ForSession
          BY <2>5, <3>7 DEF StatusFits, Turns, Turning, PduAfter
        <4>3. \A i \in DOMAIN o : StatusFits(o[i]) /\ (Turns(o[i]) => y.pdu = PduAfter(o[i]))
          BY <3>1, <3>6, <4>1, <4>2 DEF ToBeIn
        <4>4. \E i \in DOMAIN o : Turns(o[i])
          BY <3>6, <4>2
        <4>5. ToBeIn(y.pdu, q, o, u.stage)
          BY <4>1, <4>3, <4>4 DEF ToBeIn
        <4> QED
          BY <3>5, <4>5 DEF o
      <3>8. CASE w.command # "LOGOFF"
        <4>1. r.command \notin Turning
          BY <1>4, <2>5, <3>8 DEF Late, OnTrees, Turning, Negotiation
        <4>2. \A i \in DOMAIN o : (\E j \in DOMAIN out : o[i] = out[j]) \/ o[i].command \notin Turning
          BY <3>6, <4>1
        <4>3. \A i \in DOMAIN wq : wq[i].command = "LOGOFF" => \E j \in DOMAIN q : q[j] = wq[i]
          BY <2>3, <2>4, <2>7, <3>8
        <4>4. ToBeIn(y.pdu, q, o, u.stage)
          BY <2>3, <3>1, <3>6, <4>2, <4>3, ToBeSame
        <4> QED
          BY <3>5, <4>4 DEF o
      <3> QED
        BY <3>7, <3>8
    <2>13. z.fd = "open" /\ z.tree_id = y.tree_id /\ InBounds(z) /\ z.authenticated = y.authenticated
      BY <1>1, <2>6 DEF SameButQueues, InBounds
    <2>14. \A t : t \in Known(u.held, Append(out, r)) <=> t \in Known(u.held, out)
      BY <1>1, <2>5, <2>6, KnownReply
    <2>15. s <= MaxTrees + 1 => /\ \A t \in Known(u.held, Replies(z)) : t < s
                                /\ OnKeptTrees(box, Replies(z), z.tree_id, u.held, s)
      <3> SUFFICES ASSUME s <= MaxTrees + 1
                   PROVE  /\ \A t \in Known(u.held, Replies(z)) : t < s
                          /\ OnKeptTrees(box, Replies(z), z.tree_id, u.held, s)
        OBVIOUS
      <3>1. OnKeptTrees(box, Append(out, r), y.tree_id, u.held, s)
        BY <1>1, <2>5, <2>6, TreesReply
      <3> QED
        BY <1>1, <2>6, <2>13, <2>14, <3>1
    <2>16. OneClient(v, box, u, s)
      BY <1>1, <2>6, <2>10, <2>11, <2>12, <2>13, <2>15, ConnectionIs
    <2>17. Replies(v) = Append(out, r)
      BY <1>1, <2>6, WithPdu
    <2> HIDE DEF v
    <2>18. Steps(y, box, u, s, v, box, u, s)
      BY <2>14, <2>16, <2>17 DEF Steps, out
    <2> QED
      BY <2>18 DEF v
  <1> QED
    BY <1>5, <1>6

(* An interim reply was sent; now its request gets the real one.           *)
LEMMA ReplyLaterKeeps ==
  ASSUME Invariant, NEW c \in Clients, ReplyLater(c)
  PROVE  Invariant'
  <1> DEFINE y == context[c]
             box == inbox[c]
             u == client[c]
             s == s_tree_id
  <1>1. OneClient(y, box, u, s) /\ loop \in Loops
    BY DEF Invariant, Loops
  <1>2. y.fd = "open" /\ UNCHANGED <<loop, s_tree_id, inbox, client>>
    BY DEF ReplyLater
  <1>3. PICK n \in DOMAIN y.waitqueue :
          /\ y.waitqueue[n].async
          /\ Becomes(c, QueuePdu(c, y, y.waitqueue[n].mid, Rep(y.waitqueue[n].command, "SUCCESS")), y.pdu)
    BY DEF ReplyLater
  <1> DEFINE xs == QueuePdu(c, y, y.waitqueue[n].mid, Rep(y.waitqueue[n].command, "SUCCESS"))
  <1>4. OnlyMoves(c) /\ client'[c] = u /\ inbox'[c] = box /\ HasBecome(context'[c], xs, y.pdu)
    BY <1>2, <1>3, BecomesIs
  <1>5. PICK z \in xs : context'[c] = [z EXCEPT !.pdu = y.pdu]
    BY <1>4 DEF HasBecome
  <1>6. Steps(y, box, u, s, [z EXCEPT !.pdu = y.pdu], box, u, s)
    BY <1>1, <1>2, <1>3, LateStep
  <1>7. Steps(y, box, u, s, context'[c], inbox'[c], client'[c], s_tree_id')
    BY <1>2, <1>4, <1>5, <1>6
  <1> QED
    BY <1>1, <1>2, <1>4, <1>7, OneMoves

-----------------------------------------------------------------------------
(* What the loop does.                                                     *)
LEMMA Unmoved ==
  ASSUME Invariant, loop' \in Loops, UNCHANGED <<context, s_tree_id, inbox, client>>
  PROVE  Invariant'
  BY DEF Invariant, Loops

LEMMA ContextMoves ==
  ASSUME Invariant, NEW c \in Clients, NEW v, context' = [context EXCEPT ![c] = v],
         UNCHANGED <<inbox, client>>
  PROVE  OnlyMoves(c) /\ context'[c] = v /\ inbox'[c] = inbox[c] /\ client'[c] = client[c]
  <1>1. /\ context = [d \in Clients |-> context[d]]
        /\ inbox = [d \in Clients |-> inbox[d]]
        /\ client = [d \in Clients |-> client[d]]
    BY DEF Invariant
  <1>2. /\ context' = [d \in Clients |-> context'[d]] /\ context'[c] = v
        /\ \A d \in Clients \ {c} : context'[d] = context[d]
    BY <1>1
  <1> QED
    BY <1>1, <1>2 DEF OnlyMoves

LEMMA ContextKeeps ==
  ASSUME Invariant, loop' \in Loops, NEW c \in Clients, NEW v, context' = [context EXCEPT ![c] = v],
         UNCHANGED <<s_tree_id, inbox, client>>,
         Steps(context[c], inbox[c], client[c], s_tree_id, v, inbox[c], client[c], s_tree_id)
  PROVE  Invariant'
  <1>1. OnlyMoves(c) /\ context'[c] = v /\ inbox'[c] = inbox[c] /\ client'[c] = client[c]
    BY ContextMoves
  <1>2. Steps(context[c], inbox[c], client[c], s_tree_id,
              context'[c], inbox'[c], client'[c], s_tree_id')
    BY <1>1
  <1> QED
    BY <1>1, <1>2, OneMoves

LEMMA CloseKeeps ==
  ASSUME Invariant, loop' \in Loops, NEW c \in Clients,
         context' = [context EXCEPT ![c] = smb2_close_context(@)],
         UNCHANGED <<s_tree_id, inbox, client>>
  PROVE  Invariant'
  <1>1. OneClient(context[c], inbox[c], client[c], s_tree_id)
    BY DEF Invariant
  <1>2. context[c] \in Context /\ inbox[c] \in Seq(Message)
    BY <1>1 DEF OneClient, Typed
  <1>3. NoPdu \in Pdus \cup {NoPdu}
    OBVIOUS
  <1>4. Steps(context[c], inbox[c], client[c], s_tree_id, smb2_close_context(context[c]),
              inbox[c], client[c], s_tree_id)
    BY <1>1, <1>2, <1>3, ClosedIs
  <1>5. context' = [context EXCEPT ![c] = smb2_close_context(context[c])]
    OBVIOUS
  <1> QED
    BY <1>4, <1>5, ContextKeeps

LEMMA ReadAgainKeeps ==
  ASSUME Invariant, NEW c \in Clients, ReadAgain(c)
  PROVE  Invariant'
  <1>1. loop' \in Loops
    BY DEF Invariant, ReadAgain, Loops
  <1>2. UNCHANGED <<s_tree_id, inbox, client>>
    BY DEF ReadAgain
  <1>3. context' = [context EXCEPT ![c] = smb2_close_context(@)] \/ UNCHANGED context
    BY DEF ReadAgain
  <1>4. CASE UNCHANGED context
    BY <1>1, <1>2, <1>4, Unmoved
  <1>5. CASE context' = [context EXCEPT ![c] = smb2_close_context(@)]
    BY <1>1, <1>2, <1>5, CloseKeeps
  <1> QED
    BY <1>3, <1>4, <1>5

(* What is written is sent before what is not.                             *)
Written(x, n) ==
  [x EXCEPT !.sent = @ \o SubSeq(x.outqueue, 1, n),
            !.outqueue = SubSeq(x.outqueue, n + 1, Len(x.outqueue))]

(* A queue that is cut in two and joined again.                            *)
LEMMA SplitIs ==
  ASSUME NEW S, NEW s \in Seq(S), NEW t \in Seq(S), NEW n \in 0 .. Len(t)
  PROVE  /\ s \o SubSeq(t, 1, n) \in Seq(S) /\ SubSeq(t, n + 1, Len(t)) \in Seq(S)
         /\ (s \o SubSeq(t, 1, n)) \o SubSeq(t, n + 1, Len(t)) = s \o t
  <1> DEFINE a == SubSeq(t, 1, n)
             b == SubSeq(t, n + 1, Len(t))
             p == s \o a
             l == p \o b
             r == s \o t
  <1>1. Len(t) \in Nat /\ Len(s) \in Nat /\ n \in Nat /\ n <= Len(t)
    OBVIOUS
  <1>2. a \in Seq(S) /\ Len(a) = n /\ \A i \in 1 .. n : a[i] = t[i]
    BY <1>1
  <1>3. b \in Seq(S) /\ Len(b) = Len(t) - n /\ \A i \in 1 .. Len(t) - n : b[i] = t[n + i]
    BY <1>1
  <1> HIDE DEF a, b
  <1>4. /\ p \in Seq(S) /\ Len(p) = Len(s) + n /\ DOMAIN p = 1 .. Len(s) + n
        /\ \A i \in DOMAIN p : p[i] = IF i <= Len(s) THEN s[i] ELSE a[i - Len(s)]
    BY <1>2, JoinIs
  <1> HIDE DEF p
  <1>5. /\ l \in Seq(S) /\ Len(l) = Len(p) + Len(b) /\ DOMAIN l = 1 .. Len(p) + Len(b)
        /\ \A i \in DOMAIN l : l[i] = IF i <= Len(p) THEN p[i] ELSE b[i - Len(p)]
    BY <1>3, <1>4, JoinIs
  <1>6. /\ r \in Seq(S) /\ Len(r) = Len(s) + Len(t) /\ DOMAIN r = 1 .. Len(s) + Len(t)
        /\ \A i \in DOMAIN r : r[i] = IF i <= Len(s) THEN s[i] ELSE t[i - Len(s)]
    BY JoinIs
  <1> HIDE DEF l, r
  <1>7. Len(l) = Len(r) /\ DOMAIN l = 1 .. Len(r)
    BY <1>1, <1>3, <1>4, <1>5, <1>6
  <1>8. ASSUME NEW i \in 1 .. Len(l)
        PROVE  l[i] = r[i]
    <2>1. i \in DOMAIN l /\ i \in DOMAIN r /\ i \in Nat
      BY <1>1, <1>6, <1>7
    <2>2. CASE i <= Len(s)
      <3>1. i <= Len(p) /\ i \in DOMAIN p
        BY <1>1, <1>4, <1>7, <2>2
      <3> QED
        BY <1>4, <1>5, <1>6, <2>1, <2>2, <3>1
    <2>3. CASE ~ (i <= Len(s)) /\ i <= Len(s) + n
      <3>1. i <= Len(p) /\ i \in DOMAIN p /\ i - Len(s) \in 1 .. n
        BY <1>1, <1>4, <2>1, <2>3
      <3>2. l[i] = a[i - Len(s)] /\ r[i] = t[i - Len(s)]
        BY <1>4, <1>5, <1>6, <2>1, <2>3, <3>1
      <3> QED
        BY <1>2, <3>1, <3>2
    <2>4. CASE ~ (i <= Len(s) + n)
      <3>1. ~ (i <= Len(p)) /\ ~ (i <= Len(s)) /\ i - Len(p) \in 1 .. Len(t) - n
            /\ n + (i - Len(p)) = i - Len(s)
        BY <1>1, <1>4, <1>6, <1>7, <2>1, <2>4
      <3>2. l[i] = b[i - Len(p)] /\ r[i] = t[i - Len(s)]
        BY <1>5, <1>6, <2>1, <3>1
      <3> QED
        BY <1>3, <3>1, <3>2
    <2> QED
      BY <2>2, <2>3, <2>4
  <1>9. l = r
    BY <1>5, <1>6, <1>7, <1>8, SameSequence
  <1> QED
    BY <1>3, <1>4, <1>9 DEF a, b, p, l, r

LEMMA WrittenIs ==
  ASSUME NEW x \in Context, NEW n \in 0 .. Len(x.outqueue)
  PROVE  /\ Written(x, n) \in Context /\ SameButQueues(Written(x, n), x)
         /\ Written(x, n).waitqueue = x.waitqueue /\ Replies(Written(x, n)) = Replies(x)
  <1> DEFINE a == x.sent \o SubSeq(x.outqueue, 1, n)
             b == SubSeq(x.outqueue, n + 1, Len(x.outqueue))
             z == Written(x, n)
  <1>1. x.outqueue \in Seq(Reply) /\ x.sent \in Seq(Reply)
    BY ContextIs
  <1>2. a \in Seq(Reply) /\ b \in Seq(Reply) /\ a \o b = x.sent \o x.outqueue
    BY <1>1, SplitIs
  <1>3. z = [x EXCEPT !.sent = a, !.outqueue = b]
    BY DEF Written
  <1> HIDE DEF a, b, z
  <1>4. z \in Context /\ z.sent = a /\ z.outqueue = b /\ z.waitqueue = x.waitqueue
    BY <1>2, <1>3 DEF Context
  <1>5. SameButQueues(z, x)
    BY <1>3 DEF Context, SameButQueues
  <1> QED
    BY <1>2, <1>4, <1>5 DEF Replies, z

(* The same connection, as far as it is told apart.                        *)
LEMMA SameStep ==
  ASSUME NEW y, NEW box, NEW u, NEW s, OneClient(y, box, u, s), y.fd \notin {"none", "backlog"},
         NEW z \in Context, SameButQueues(z, y), z.waitqueue = y.waitqueue, Replies(z) = Replies(y)
  PROVE  Steps(y, box, u, s, z, box, u, s)
  <1>1. Typed(z, box, u)
    BY DEF OneClient, Typed, SameButQueues
  <1>2. Live(z) <=> Live(y)
    BY DEF Live, SameButQueues
  <1>3. PduToCome(z) = PduToCome(y) /\ z.authenticated = y.authenticated /\ z.tree_id = y.tree_id
    BY DEF PduToCome, SameButQueues
  <1>4. Kept(y, box, u, s) => Kept(z, box, u, s)
    BY <1>3 DEF Kept
  <1> QED
    BY <1>1, <1>2, <1>4 DEF OneClient, Steps

LEMMA WriteOutKeeps ==
  ASSUME Invariant, NEW c \in Clients, WriteOut(c)
  PROVE  Invariant'
  <1> DEFINE x == context[c]
  <1>1. loop' \in Loops
    BY DEF Invariant, WriteOut, Loops
  <1>2. UNCHANGED <<s_tree_id, inbox, client>>
    BY DEF WriteOut
  <1>3. \/ UNCHANGED context
        \/ context' = [context EXCEPT ![c] = smb2_close_context(@)]
        \/ /\ x.fd = "open"
           /\ \E n \in (IF "full" \in Mischief[c] THEN Min({1, Len(x.outqueue)}) ELSE Len(x.outqueue))
                       .. Len(x.outqueue) :
                context' = [context EXCEPT ![c] = Written(x, n)]
    BY DEF WriteOut, Written
  <1>4. CASE UNCHANGED context
    BY <1>1, <1>2, <1>4, Unmoved
  <1>5. CASE context' = [context EXCEPT ![c] = smb2_close_context(@)]
    BY <1>1, <1>2, <1>5, CloseKeeps
  <1>6. ASSUME x.fd = "open",
               NEW n \in (IF "full" \in Mischief[c] THEN Min({1, Len(x.outqueue)}) ELSE Len(x.outqueue))
                         .. Len(x.outqueue),
               context' = [context EXCEPT ![c] = Written(x, n)]
        PROVE  Invariant'
    <2>1. OneClient(x, inbox[c], client[c], s_tree_id)
      BY DEF Invariant
    <2>2. x \in Context
      BY <2>1 DEF OneClient, Typed
    <2>3. Len(x.outqueue) \in Nat
      BY <2>2, ContextIs
    <2>4. Min({1, Len(x.outqueue)}) \in {1, Len(x.outqueue)}
      <3> DEFINE T == {1, Len(x.outqueue)}
      <3>1. T \in SUBSET Nat /\ T # {}
        BY <2>3
      <3> HIDE DEF T
      <3>2. Min(T) \in T
        BY <3>1, LeastNumber
      <3> QED
        BY <3>2 DEF T
    <2>5. n \in 0 .. Len(x.outqueue)
      BY <1>6, <2>3, <2>4
    <2> DEFINE z == Written(x, n)
    <2>6. z \in Context /\ SameButQueues(z, x) /\ z.waitqueue = x.waitqueue /\ Replies(z) = Replies(x)
      BY <2>2, <2>5, WrittenIs
    <2>7. context' = [context EXCEPT ![c] = z]
      BY <1>6
    <2> HIDE DEF z
    <2>8. Steps(x, inbox[c], client[c], s_tree_id, z, inbox[c], client[c], s_tree_id)
      BY <1>6, <2>1, <2>6, SameStep
    <2> QED
      BY <1>1, <1>2, <2>7, <2>8, ContextKeeps
  <1> QED
    BY <1>3, <1>4, <1>5, <1>6

(* A connection is accepted as it waited in the backlog.                   *)
LEMMA AcceptStep ==
  ASSUME NEW y, NEW box, NEW u, NEW s, OneClient(y, box, u, s), y.fd = "backlog"
  PROVE  Steps(y, box, u, s, Connection, box, u, s)
  <1> DEFINE z == Connection
  <1>1. y = [NewContext EXCEPT !.fd = "backlog"] /\ box \in Seq(Message) /\ u \in Client
    BY DEF OneClient, Typed
  <1>2. <<>> \in Seq(Waiting) /\ <<>> \in Seq(Reply) /\ <<>> \in Seq(Nat) /\ 0 \in Nat /\ Len(<<>>) = 0
    OBVIOUS
  <1>3. /\ z \in Context /\ z.fd = "open" /\ z.pdu = ForNegotiate /\ z.tree_id = <<>>
        /\ z.tree_id_cur = 0 /\ z.waitqueue = <<>> /\ z.sent = <<>> /\ z.outqueue = <<>>
        /\ z.authenticated = FALSE
    BY <1>2 DEF Connection, NewContext, Context, Pdus
  <1>4. /\ y.tree_id = <<>> /\ y.waitqueue = <<>> /\ y.sent = <<>> /\ y.outqueue = <<>>
        /\ y.authenticated = FALSE
    BY <1>1 DEF NewContext
  <1> HIDE DEF z
  <1>5. Typed(z, box, u)
    BY <1>1, <1>2, <1>3, PdusDiffer DEF Typed, Pdus
  <1>6. Live(y) /\ Live(z) /\ PduToCome(y) = ForNegotiate /\ PduToCome(z) = ForNegotiate
    BY <1>3 DEF Live, PduToCome
  <1>7. Replies(z) = Replies(y)
    BY <1>3, <1>4 DEF Replies
  <1>8. Kept(z, box, u, s)
    BY <1>3, <1>4, <1>6, <1>7 DEF OneClient, Kept
  <1>9. Steps(y, box, u, s, z, box, u, s)
    BY <1>5, <1>7, <1>8 DEF OneClient, Steps
  <1> QED
    BY <1>9 DEF z

LEMMA AcceptKeeps ==
  ASSUME Invariant, Accept
  PROVE  Invariant'
  <1>1. loop' \in Loops
    BY DEF Invariant, Accept, Loops
  <1>2. UNCHANGED <<s_tree_id, inbox, client>>
    BY DEF Accept
  <1>3. UNCHANGED context \/ \E c \in Backlog : context' = [context EXCEPT ![c] = Connection]
    BY DEF Accept
  <1>4. CASE UNCHANGED context
    BY <1>1, <1>2, <1>4, Unmoved
  <1>5. ASSUME NEW c \in Backlog, context' = [context EXCEPT ![c] = Connection]
        PROVE  Invariant'
    <2>1. c \in Clients /\ context[c].fd = "backlog"
      BY DEF Backlog
    <2>2. OneClient(context[c], inbox[c], client[c], s_tree_id)
      BY <2>1 DEF Invariant
    <2>3. Steps(context[c], inbox[c], client[c], s_tree_id, Connection, inbox[c], client[c], s_tree_id)
      BY <2>1, <2>2, AcceptStep
    <2> QED
      BY <1>1, <1>2, <1>5, <2>1, <2>3, ContextKeeps
  <1> QED
    BY <1>3, <1>4, <1>5

(* A context that has been destroyed is of no client.                      *)
LEMMA DestroyedStep ==
  ASSUME NEW y, NEW box, NEW u, NEW s, OneClient(y, box, u, s)
  PROVE  Steps(y, box, u, s, Destroyed, box, u, s)
  <1> DEFINE z == Destroyed
  <1>1. box \in Seq(Message) /\ u \in Client
    BY DEF OneClient, Typed
  <1>2. <<>> \in Seq(Waiting) /\ <<>> \in Seq(Reply) /\ <<>> \in Seq(Nat) /\ 0 \in Nat /\ Len(<<>>) = 0
    OBVIOUS
  <1>3. /\ z \in Context /\ z.fd = "gone" /\ z.tree_id = <<>> /\ z.tree_id_cur = 0
        /\ z.sent = <<>> /\ z.outqueue = <<>>
    BY <1>2 DEF Destroyed, NewContext, Context
  <1> HIDE DEF z
  <1>4. Typed(z, box, u) /\ ~ Live(z)
    BY <1>1, <1>2, <1>3 DEF Typed, Live
  <1>5. Replies(z) = <<>> /\ DOMAIN Replies(z) = {}
    BY <1>2, <1>3, JoinNothing DEF Replies
  <1>6. Once(Replies(z))
    BY <1>5 DEF Once
  <1>7. \A t \in Known(u.held, Replies(z)) : t \in Known(u.held, Replies(y))
    BY <1>5, KnownIs
  <1>8. Steps(y, box, u, s, z, box, u, s)
    BY <1>4, <1>6, <1>7 DEF OneClient, Steps
  <1> QED
    BY <1>8 DEF z

LEMMA CullKeeps ==
  ASSUME Invariant, Cull
  PROVE  Invariant'
  <1>1. loop' \in Loops
    BY DEF Cull, Idle, Loops
  <1>2. UNCHANGED <<s_tree_id, inbox, client>>
    BY DEF Cull
  <1>3. UNCHANGED context \/ \E c \in Closed : context' = [context EXCEPT ![c] = Destroyed]
    BY DEF Cull
  <1>4. CASE UNCHANGED context
    BY <1>1, <1>2, <1>4, Unmoved
  <1>5. ASSUME NEW c \in Closed, context' = [context EXCEPT ![c] = Destroyed]
        PROVE  Invariant'
    <2>1. c \in Clients
      BY DEF Closed
    <2>2. OneClient(context[c], inbox[c], client[c], s_tree_id)
      BY <2>1 DEF Invariant
    <2>3. Steps(context[c], inbox[c], client[c], s_tree_id, Destroyed, inbox[c], client[c], s_tree_id)
      BY <2>2, DestroyedStep
    <2> QED
      BY <1>1, <1>2, <1>5, <2>1, <2>3, ContextKeeps
  <1> QED
    BY <1>3, <1>4, <1>5

LEMMA AcceptFailsKeeps ==
  ASSUME Invariant, AcceptFails
  PROVE  Invariant'
  <1>1. /\ loop' \in Loops /\ context' = [c \in Clients |-> Destroyed]
        /\ UNCHANGED <<s_tree_id, inbox, client>>
    BY DEF AcceptFails, Idle, Loops
  <1>2. \A c \in Clients :
          Steps(context[c], inbox[c], client[c], s_tree_id, Destroyed, inbox[c], client[c], s_tree_id)
    BY DestroyedStep DEF Invariant
  <1>3. \A c \in Clients : OneClient(Destroyed, inbox[c], client[c], s_tree_id)
    BY <1>2 DEF Steps
  <1>4. \A c, d \in Clients : c # d /\ s_tree_id <= MaxTrees + 1 =>
          Known(client[c].held, Replies(Destroyed)) \cap Known(client[d].held, Replies(Destroyed)) = {}
    <2> SUFFICES ASSUME NEW c \in Clients, NEW d \in Clients, c # d, s_tree_id <= MaxTrees + 1
                 PROVE  Known(client[c].held, Replies(Destroyed))
                          \cap Known(client[d].held, Replies(Destroyed)) = {}
      OBVIOUS
    <2>1. Known(client[c].held, Replies(context[c])) \cap Known(client[d].held, Replies(context[d])) = {}
      BY DEF Invariant
    <2>2. s_tree_id \in Nat
      BY DEF Invariant
    <2>3. \A e \in Clients : \A t \in Known(client[e].held, Replies(Destroyed)) :
            t \in Known(client[e].held, Replies(context[e]))
      BY <1>2, <2>2 DEF Steps
    <2> QED
      BY <2>1, <2>3
  <1>5. \A c \in Clients : context'[c] = Destroyed /\ inbox'[c] = inbox[c] /\ client'[c] = client[c]
    BY <1>1
  <1>6. \A c \in Clients : OneClient(context'[c], inbox'[c], client'[c], s_tree_id')
    BY <1>1, <1>3, <1>5
  <1>7. \A c, d \in Clients : c # d /\ s_tree_id' <= MaxTrees + 1 =>
          Known(client'[c].held, Replies(context'[c])) \cap Known(client'[d].held, Replies(context'[d])) = {}
    BY <1>1, <1>4, <1>5
  <1>8. /\ s_tree_id' \in Nat \ {0} /\ context' = [c \in Clients |-> context'[c]]
        /\ inbox' = [c \in Clients |-> inbox'[c]] /\ client' = [c \in Clients |-> client'[c]]
    BY <1>1 DEF Invariant
  <1> QED
    BY <1>1, <1>6, <1>7, <1>8 DEF Invariant, Loops

LEMMA SelectKeeps ==
  ASSUME Invariant, Select
  PROVE  Invariant'
  <1>1. loop' \in Loops
    BY DEF Select, Loops, Readable, Writable, Open
  <1> QED
    BY <1>1, Unmoved DEF Select

-----------------------------------------------------------------------------
(* What the clients do.                                                    *)
LEMMA ConnectStepIs ==
  ASSUME NEW y, NEW box, NEW u, NEW s \in Nat \ {0}, OneClient(y, box, u, s), y.fd = "none",
         NEW z, z = [y EXCEPT !.fd = "backlog"]
  PROVE  Steps(y, box, u, s, z, box, u, s)
  <1>1. y = NewContext /\ box = <<>> /\ u = NewClient
    BY DEF OneClient, Typed
  <1>2. /\ <<>> \in Seq(Waiting) /\ <<>> \in Seq(Reply) /\ <<>> \in Seq(Nat) /\ <<>> \in Seq(Message)
        /\ 0 \in Nat /\ Len(<<>>) = 0
    OBVIOUS
  <1>3. /\ z \in Context /\ z.fd = "backlog" /\ z.tree_id = <<>> /\ z.tree_id_cur = 0
        /\ z.waitqueue = <<>> /\ z.sent = <<>> /\ z.outqueue = <<>> /\ z.authenticated = FALSE
        /\ z = [NewContext EXCEPT !.fd = "backlog"]
    BY <1>1, <1>2 DEF NewContext, Context
  <1>4. y.sent = <<>> /\ y.outqueue = <<>>
    BY <1>1 DEF NewContext
  <1>5. u.stage = "new" /\ u.asked = {} /\ u.held = {} /\ u.next_id = 0 /\ u \in Client
    BY <1>1 DEF NewClient, Client, Stages
  <1>6. Typed(z, box, u)
    BY <1>1, <1>2, <1>3, <1>5 DEF Typed
  <1>7. Replies(z) = <<>> /\ Replies(y) = <<>>
    BY <1>2, <1>3, <1>4, JoinNothing DEF Replies
  <1>8. DOMAIN <<>> = {}
    BY <1>2
  <1>9. Known(u.held, <<>>) = {} /\ Once(<<>>)
    BY <1>5, <1>8, KnownIs DEF Once
  <1>10. InOnePlace(box, z.waitqueue, <<>>)
    BY <1>1, <1>3, <1>8 DEF InOnePlace
  <1>11. PduToCome(z) = ForNegotiate
    BY <1>3 DEF PduToCome
  <1>12. InStage(ForNegotiate, z.authenticated, box)
    BY <1>1, <1>8, PdusDiffer DEF InStage
  <1>13. IsAsked(box, z.waitqueue, <<>>, u.stage, u.asked, u.next_id)
    BY <1>1, <1>3, <1>5, <1>8 DEF IsAsked
  <1>14. ToBeIn(ForNegotiate, z.waitqueue, <<>>, u.stage)
    BY <1>3, <1>5, <1>8, PduOfIs DEF ToBeIn
  <1>15. OnKeptTrees(box, <<>>, z.tree_id, u.held, s)
    <2>1. Len(z.tree_id) < s
      BY <1>2, <1>3
    <2> QED
      BY <1>1, <1>3, <1>8, <1>9, <2>1 DEF OnKeptTrees
  <1>16. Kept(z, box, u, s)
    BY <1>7, <1>10, <1>11, <1>12, <1>13, <1>14, <1>15 DEF Kept
  <1> QED
    BY <1>6, <1>7, <1>9, <1>16 DEF OneClient, Steps

LEMMA ConnectKeeps ==
  ASSUME Invariant, NEW c \in Clients, Connect(c)
  PROVE  Invariant'
  <1> DEFINE z == [context[c] EXCEPT !.fd = "backlog"]
  <1>1. context[c].fd = "none" /\ UNCHANGED <<loop, s_tree_id, inbox, client>>
        /\ context' = [context EXCEPT ![c] = z]
    BY DEF Connect
  <1>2. OneClient(context[c], inbox[c], client[c], s_tree_id) /\ s_tree_id \in Nat \ {0}
        /\ loop' \in Loops
    BY <1>1 DEF Invariant, Loops
  <1>3. Steps(context[c], inbox[c], client[c], s_tree_id, z, inbox[c], client[c], s_tree_id)
    BY <1>1, <1>2, ConnectStepIs
  <1> QED
    BY <1>1, <1>2, <1>3, ContextKeeps

(* When nothing that turns the dialogue is asked the context has the PDU   *)
(* of the stage.                                                           *)
LEMMA PduIsOf ==
  ASSUME NEW pdu, NEW box, NEW wq, NEW out, NEW stage \in Stages, NEW asked, NEW next,
         InOnePlace(box, wq, out), IsAsked(box, wq, out, stage, asked, next),
         ToBeIn(pdu, wq, out, stage), \A r \in asked : r.command \notin Turning
  PROVE  /\ pdu = PduOf(stage)
         /\ \A i \in DOMAIN box : box[i].command \notin Turning
  <1>1. \A i \in DOMAIN out : ~ Turns(out[i])
    <2> SUFFICES ASSUME NEW i \in DOMAIN out, Turns(out[i]) PROVE FALSE
      OBVIOUS
    <2>1. out[i].command \in Turning /\ Real(out[i])
      BY DEF Turns, Real, Turning, Negotiation
    <2>2. PICK r \in asked : Answers(out[i], r)
      BY <2>1 DEF IsAsked
    <2>3. r.command \in Turning
      BY <2>1, <2>2 DEF Answers, Turning, Negotiation
    <2> QED
      BY <2>3
  <1>2. \A i \in DOMAIN wq : wq[i].command # "LOGOFF"
    <2> SUFFICES ASSUME NEW i \in DOMAIN wq, wq[i].command = "LOGOFF" PROVE FALSE
      OBVIOUS
    <2>1. Asks(wq[i]) \in asked
      BY DEF IsAsked, Real
    <2>2. Asks(wq[i]).command \in Turning
      BY DEF Asks, Turning
    <2> QED
      BY <2>1, <2>2
  <1>3. \A i \in DOMAIN box : box[i].command \notin Turning
    <2> SUFFICES ASSUME NEW i \in DOMAIN box, box[i].command \in Turning PROVE FALSE
      OBVIOUS
    <2>1. Asks(box[i]) \in asked
      BY DEF IsAsked, Real, Turning, Negotiation
    <2>2. Asks(box[i]).command \in Turning
      BY DEF Asks
    <2> QED
      BY <2>1, <2>2
  <1> QED
    BY <1>1, <1>2, <1>3 DEF ToBeIn

(* A request is sent.                                                      *)
Sent(m, box, u) ==
  /\ m \in Message /\ m.mid = u.next_id /\ Real(m)
  /\ u.stage # "left" /\ m.command \in MayAsk(u.stage) /\ PduFor(m) = PduOf(u.stage)
  /\ \A r \in u.asked : r.command \notin Turning
  /\ m.command \in Turning => u.asked = {}
  /\ UsesTree(m) => m.tree \in u.held
AfterSend(u, m) ==
  [stage |-> u.stage, asked |-> u.asked \cup {Asks(m)},
   held |-> IF m.command = "TREE_DISCONNECT" THEN u.held \ {m.tree} ELSE u.held,
   next_id |-> u.next_id + 1]

(* A request that the stage and the trees of its client allow.             *)
LEMMA SendStep ==
  ASSUME NEW y, NEW box, NEW u, NEW s \in Nat, OneClient(y, box, u, s), Live(y),
         NEW m, Sent(m, box, u)
  PROVE  Steps(y, box, u, s, y, Append(box, m), AfterSend(u, m), s)
  <1> DEFINE out == Replies(y)
             wq == y.waitqueue
             b == Append(box, m)
             v == AfterSend(u, m)
             pdu == PduToCome(y)
  <1>1. /\ y \in Context /\ box \in Seq(Message) /\ u \in Client
        /\ y.tree_id_cur \in 0 .. Len(y.tree_id) /\ (y.tree_id # <<>> => y.tree_id_cur > 0)
        /\ y.fd = "open" => y.pdu # NoPdu
        /\ y.fd = "backlog" => y = [NewContext EXCEPT !.fd = "backlog"]
    BY DEF OneClient, Typed
  <1>2. /\ Kept(y, box, u, s) /\ Once(out)
        /\ s <= MaxTrees + 1 => \A t \in Known(u.held, out) : t < s
    BY DEF OneClient
  <1>3. /\ m \in Message /\ m.mid = u.next_id /\ Real(m)
        /\ u.stage # "left" /\ m.command \in MayAsk(u.stage) /\ PduFor(m) = PduOf(u.stage)
        /\ \A r \in u.asked : r.command \notin Turning
        /\ m.command \in Turning => u.asked = {}
        /\ UsesTree(m) => m.tree \in u.held
    BY DEF Sent
  <1>4. /\ InOnePlace(box, wq, out) /\ InStage(pdu, y.authenticated, box)
        /\ IsAsked(box, wq, out, u.stage, u.asked, u.next_id)
        /\ ToBeIn(pdu, wq, out, u.stage)
    BY <1>2, <1>3 DEF Kept
  <1>5. out \in Seq(Reply) /\ wq \in Seq(Waiting)
    BY <1>1, ContextIs
  <1>6. u.stage \in Stages /\ u.asked \in SUBSET Asking /\ u.held \in SUBSET Nat /\ u.next_id \in Nat
    BY <1>1 DEF Client
  <1>7. Asks(m) \in Asking
    BY <1>3, RequestsAre DEF Asks, Asking, Message
  <1>8. v \in Client /\ v.stage = u.stage /\ v.asked = u.asked \cup {Asks(m)}
        /\ v.next_id = u.next_id + 1
        /\ v.held = (IF m.command = "TREE_DISCONNECT" THEN u.held \ {m.tree} ELSE u.held)
    <2>1. u.next_id + 1 \in Nat /\ u.asked \cup {Asks(m)} \in SUBSET Asking
          /\ (IF m.command = "TREE_DISCONNECT" THEN u.held \ {m.tree} ELSE u.held) \in SUBSET Nat
      BY <1>6, <1>7
    <2> QED
      BY <1>6, <2>1 DEF AfterSend, Client
  <1> HIDE DEF v, out, wq, pdu
  <1>9. pdu = PduOf(u.stage) /\ \A i \in DOMAIN box : box[i].command \notin Turning
    BY <1>3, <1>4, <1>6, PduIsOf
  <1>10. b \in Seq(Message)
    BY <1>1, <1>3, AppendIs
  <1>11. m.mid = 0 => m.command \in Negotiation
    <2> SUFFICES ASSUME m.mid = 0 PROVE m.command \in Negotiation
      OBVIOUS
    <2>1. u.stage = "new"
      BY <1>3, <1>4, <1>6 DEF IsAsked
    <2> QED
      BY <1>3, <2>1 DEF MayAsk
  <1>12. InOnePlace(b, wq, out)
    <2>1. /\ \A i \in DOMAIN box : box[i] \in Message
          /\ \A i \in DOMAIN wq : wq[i] \in Waiting
          /\ \A i \in DOMAIN out : out[i] \in Reply
      BY <1>1, <1>5, LengthIs
    <2>2. /\ \A w \in Message : w.mid \in Nat
          /\ \A w \in Waiting : w.mid \in Nat
          /\ \A w \in Reply : w.mid \in Nat
      BY DEF Message, Waiting, Reply
    <2>3. \A n \in Nat : n < u.next_id => n # m.mid
      BY <1>3, <1>6
    <2>4. /\ \A i \in DOMAIN box : box[i].mid # m.mid
          /\ \A i \in DOMAIN wq : wq[i].mid # m.mid
          /\ \A i \in DOMAIN out : out[i].mid # m.mid
      BY <1>4, <2>1, <2>2, <2>3 DEF IsAsked
    <2> QED
      BY <1>1, <1>3, <1>4, <1>5, <2>4, PlacesSend
  <1>13. InStage(pdu, y.authenticated, b)
    BY <1>1, <1>3, <1>4, <1>9, <1>11, StageSend
  <1>14. IsAsked(b, wq, out, v.stage, v.asked, v.next_id)
    <2>1. IsAsked(b, wq, out, u.stage, u.asked \cup {Asks(m)}, u.next_id + 1)
      BY <1>1, <1>3, <1>4, <1>5, <1>6, <1>11, AskedSend
    <2> QED
      BY <1>8, <2>1
  <1>15. \A t \in Known(v.held, out) : t \in Known(u.held, out)
    BY <1>8, KnownIs
  <1>16. s <= MaxTrees + 1 => OnKeptTrees(b, out, y.tree_id, v.held, s)
    <2> SUFFICES ASSUME s <= MaxTrees + 1 PROVE OnKeptTrees(b, out, y.tree_id, v.held, s)
      OBVIOUS
    <2>1. OnKeptTrees(box, out, y.tree_id, u.held, s)
      BY <1>2 DEF Kept, out
    <2>2. OnKeptTrees(b, out, y.tree_id,
                      IF m.command = "TREE_DISCONNECT" THEN u.held \ {m.tree} ELSE u.held, s)
      BY <1>1, <1>2, <1>3, <2>1, TreesSend
    <2> QED
      BY <1>8, <2>2
  <1> HIDE DEF b
  <1>17. Typed(y, b, v)
    BY <1>1, <1>8, <1>10 DEF Typed, Live
  <1>18. Kept(y, b, v, s)
    BY <1>4, <1>8, <1>12, <1>13, <1>14, <1>16 DEF Kept, out, wq, pdu
  <1>19. OneClient(y, b, v, s)
    BY <1>2, <1>15, <1>17, <1>18 DEF OneClient, out
  <1>20. Steps(y, box, u, s, y, b, v, s)
    BY <1>15, <1>19 DEF Steps, out
  <1> QED
    BY <1>20 DEF b, v

LEMMA ClientWith ==
  ASSUME NEW u \in Client, NEW a, NEW h, NEW n
  PROVE  [u EXCEPT !.next_id = n, !.asked = a, !.held = h]
           = [stage |-> u.stage, asked |-> a, held |-> h, next_id |-> n]
  <1> DEFINE z == [u EXCEPT !.next_id = n, !.asked = a, !.held = h]
             F == {"stage", "asked", "held", "next_id"}
  <1>1. z = [f \in F |-> z[f]]
    BY DEF Client
  <1>2. z.next_id = n /\ z.asked = a /\ z.held = h /\ z.stage = u.stage
    BY DEF Client
  <1> HIDE DEF z
  <1>3. z = [stage |-> u.stage, asked |-> a, held |-> h, next_id |-> n]
    BY <1>1, <1>2
  <1> QED
    BY <1>3 DEF z

LEMMA SendKeeps ==
  ASSUME Invariant, NEW c \in Clients, NEW command, NEW tree, NEW body, Send(c, command, tree, body),
         loop' = loop,
         Sent([mid |-> client[c].next_id, command |-> command, tree |-> tree, body |-> body],
              inbox[c], client[c])
  PROVE  Invariant'
  <1> DEFINE u == client[c]
             box == inbox[c]
             m == [mid |-> u.next_id, command |-> command, tree |-> tree, body |-> body]
             v == AfterSend(u, m)
  <1>1. OneClient(context[c], box, u, s_tree_id) /\ loop' \in Loops /\ s_tree_id \in Nat
    BY DEF Invariant, Loops
  <1>2. /\ context = [d \in Clients |-> context[d]]
        /\ inbox = [d \in Clients |-> inbox[d]]
        /\ client = [d \in Clients |-> client[d]]
    BY DEF Invariant
  <1>3. u \in Client
    BY <1>1 DEF OneClient, Typed
  <1>4. Live(context[c]) /\ UNCHANGED <<context, loop, s_tree_id>>
    BY DEF Send, Live
  <1>5. inbox' = [inbox EXCEPT ![c] = Append(box, m)]
    BY DEF Send
  <1>6. client' = [client EXCEPT ![c] = v]
    <2> DEFINE a == u.asked \cup {[mid |-> u.next_id, command |-> command, tree |-> tree]}
               h == IF command = "TREE_DISCONNECT" THEN u.held \ {tree} ELSE u.held
               n == u.next_id + 1
    <2>1. client' = [client EXCEPT ![c] = [u EXCEPT !.next_id = n, !.asked = a, !.held = h]]
      BY DEF Send
    <2>2. v = [stage |-> u.stage, asked |-> a, held |-> h, next_id |-> n]
      BY DEF AfterSend, Asks
    <2> HIDE DEF a, h, n, v, m
    <2>3. [u EXCEPT !.next_id = n, !.asked = a, !.held = h]
            = [stage |-> u.stage, asked |-> a, held |-> h, next_id |-> n]
      BY <1>3, ClientWith
    <2> QED
      BY <2>1, <2>2, <2>3
  <1> HIDE DEF m, v
  <1>7. inbox'[c] = Append(box, m) /\ client'[c] = v /\ context'[c] = context[c] /\ OnlyMoves(c)
    BY <1>2, <1>4, <1>5, <1>6 DEF OnlyMoves
  <1>8. Steps(context[c], box, u, s_tree_id, context[c], Append(box, m), v, s_tree_id)
    BY <1>1, <1>4, SendStep DEF m, v
  <1>9. Steps(context[c], box, u, s_tree_id, context'[c], inbox'[c], client'[c], s_tree_id')
    BY <1>4, <1>7, <1>8
  <1> QED
    BY <1>1, <1>7, <1>9, OneMoves

LEMMA ClientIs ==
  ASSUME Invariant, NEW c \in Clients
  PROVE  /\ client[c] \in Client /\ client[c].stage \in Stages /\ client[c].asked \in SUBSET Asking
         /\ client[c].held \in SUBSET Nat /\ client[c].next_id \in Nat
  <1>1. client[c] \in Client
    BY DEF Invariant, OneClient, Typed
  <1> QED
    BY <1>1 DEF Client

LEMMA LogInKeeps ==
  ASSUME Invariant, NEW c \in Clients, LogIn(c)
  PROVE  Invariant'
  <1> DEFINE u == client[c]
             m(command, body) ==
               [mid |-> u.next_id, command |-> command, tree |-> NoTree, body |-> body]
  <1>1. u.next_id \in Nat /\ u.asked = {} /\ NoTree \in Nat
    BY ClientIs DEF LogIn, NoTree
  <1>2. \/ /\ u.stage = "new"
           /\ \E body \in Negotiations[c] :
                Send(c, IF body = "SMB1" THEN "SMB1_NEGOTIATE" ELSE "NEGOTIATE", NoTree, body)
        \/ /\ u.stage \in {"negotiated", "challenged"}
           /\ \E body \in {"NEGOTIATE_MESSAGE", "AUTHENTICATION_MESSAGE", "wrong password"} :
                Send(c, "SESSION_SETUP", NoTree, body)
    BY DEF LogIn
  <1>3. ASSUME NEW command, NEW body, Send(c, command, NoTree, body), body \in Bodies,
               \/ u.stage = "new" /\ command \in Negotiation
               \/ u.stage \in {"negotiated", "challenged"} /\ command = "SESSION_SETUP" /\ body # "again"
        PROVE  Invariant'
    <2>1. command \in Requests
      BY <1>3 DEF Requests, Turning
    <2>2. m(command, body) \in Message
      BY <1>1, <1>3, <2>1 DEF Message
    <2>3. command \in MayAsk(u.stage)
      BY <1>3 DEF MayAsk
    <2>4. PduFor(m(command, body)) = PduOf(u.stage)
      BY <1>3, PduOfIs DEF PduFor, Negotiation
    <2>5. Real(m(command, body)) /\ ~ UsesTree(m(command, body))
      BY <1>3 DEF Real, UsesTree, OnTree, NoTreeCommands, Negotiation
    <2>6. Sent(m(command, body), inbox[c], u)
      BY <1>1, <1>3, <2>2, <2>3, <2>4, <2>5 DEF Sent
    <2>7. loop' = loop
      BY <1>3 DEF Send
    <2> QED
      BY <1>3, <2>6, <2>7, SendKeeps
  <1>4. CASE u.stage = "new"
    <2>1. PICK body \in Negotiations[c] :
            Send(c, IF body = "SMB1" THEN "SMB1_NEGOTIATE" ELSE "NEGOTIATE", NoTree, body)
      BY <1>2, <1>4
    <2>2. body \in Bodies
      BY DEF Bodies, NegotiationBodies
    <2> QED
      BY <1>3, <1>4, <2>1, <2>2 DEF Negotiation
  <1>5. CASE u.stage # "new"
    <2>1. PICK body \in {"NEGOTIATE_MESSAGE", "AUTHENTICATION_MESSAGE", "wrong password"} :
            Send(c, "SESSION_SETUP", NoTree, body)
      BY <1>2, <1>5
    <2>2. body \in Bodies /\ body # "again"
      <3>1. body \in SessionBodies /\ body # "again"
        BY DEF SessionBodies
      <3> QED
        BY <3>1 DEF Bodies
    <2>3. u.stage \in {"negotiated", "challenged"}
      BY <1>2, <1>5
    <2> QED
      BY <1>3, <2>1, <2>2, <2>3
  <1> QED
    BY <1>4, <1>5

LEMMA UseKeeps ==
  ASSUME Invariant, NEW c \in Clients, Use(c)
  PROVE  Invariant'
  <1> DEFINE u == client[c]
             m(command, tree, body) ==
               [mid |-> u.next_id, command |-> command, tree |-> tree, body |-> body]
  <1>1. u.next_id \in Nat /\ NoTree \in Nat /\ u.held \in SUBSET Nat
    BY ClientIs DEF NoTree
  <1>2. u.stage = "in" /\ \A r \in u.asked : r.command \notin {"LOGOFF", "SESSION_SETUP"}
    BY DEF Use
  <1>3. \A r \in u.asked : r.command \notin Turning
    <2>1. OneClient(context[c], inbox[c], u, s_tree_id)
      BY DEF Invariant
    <2>2. Live(context[c])
      BY DEF Use, Send, Live
    <2>3. \A r \in u.asked : r.command \in MayAsk("in")
      BY <1>2, <2>1, <2>2 DEF OneClient, Kept, IsAsked
    <2> QED
      BY <1>2, <2>3 DEF MayAsk, Turning
  <1>4. \/ Send(c, "TREE_CONNECT", NoTree, "")
        \/ \E command \in Commands \ {"CANCEL"}, tree \in u.held \cup {NoTree} :
             OnTree(command) = (tree # NoTree) /\ Send(c, command, tree, "")
        \/ \E tree \in u.held : Send(c, "TREE_DISCONNECT", tree, "")
        \/ u.asked = {} /\ Send(c, "LOGOFF", NoTree, "")
        \/ u.asked = {} /\ Send(c, "SESSION_SETUP", NoTree, "again")
    BY DEF Use
  <1>5. ASSUME NEW command \in Requests, NEW tree \in Nat, NEW body \in {"", "again"},
               Send(c, command, tree, body),
               command \notin Negotiation \cup {"CANCEL"},
               command = "SESSION_SETUP" => body = "again",
               command \in Turning => u.asked = {},
               OnTree(command) => tree \in u.held
        PROVE  Invariant'
    <2>1. m(command, tree, body) \in Message
      <3>1. body \in SessionBodies \cup {""}
        BY <1>5 DEF SessionBodies
      <3>2. body \in Bodies
        BY <3>1 DEF Bodies
      <3> QED
        BY <1>1, <1>5, <3>2 DEF Message
    <2>2. command \in MayAsk(u.stage)
      BY <1>2, <1>5, RequestsAre DEF MayAsk
    <2>3. PduFor(m(command, tree, body)) = PduOf(u.stage)
      BY <1>2, <1>5, PduOfIs DEF PduFor
    <2>4. Real(m(command, tree, body)) /\ (UsesTree(m(command, tree, body)) => tree \in u.held)
      BY <1>5 DEF Real, UsesTree
    <2>5. Sent(m(command, tree, body), inbox[c], u)
      BY <1>1, <1>2, <1>3, <1>5, <2>1, <2>2, <2>3, <2>4 DEF Sent
    <2>6. loop' = loop
      BY <1>5 DEF Send
    <2> QED
      BY <1>5, <2>5, <2>6, SendKeeps
  <1>6. /\ {"TREE_CONNECT", "TREE_DISCONNECT", "LOGOFF", "SESSION_SETUP"} \subseteq Requests
        /\ Commands \subseteq Requests
        /\ ~ OnTree("TREE_CONNECT") /\ ~ OnTree("LOGOFF") /\ ~ OnTree("SESSION_SETUP")
    BY DEF Requests, Turning, OnTree, NoTreeCommands
  <1>7. \A n \in Commands : n \notin Turning /\ n # "SESSION_SETUP"
    BY CommandsAssumption DEF Turning, Negotiation
  <1>8. CASE Send(c, "TREE_CONNECT", NoTree, "")
    BY <1>1, <1>5, <1>6, <1>8 DEF Turning, Negotiation
  <1>9. ASSUME NEW command \in Commands \ {"CANCEL"}, NEW tree \in u.held \cup {NoTree},
               OnTree(command) = (tree # NoTree), Send(c, command, tree, "")
        PROVE  Invariant'
    BY <1>1, <1>5, <1>6, <1>7, <1>9 DEF Turning
  <1>10. ASSUME NEW tree \in u.held, Send(c, "TREE_DISCONNECT", tree, "")
         PROVE  Invariant'
    BY <1>1, <1>5, <1>6, <1>10 DEF Turning, Negotiation
  <1>11. CASE u.asked = {} /\ Send(c, "LOGOFF", NoTree, "")
    BY <1>1, <1>5, <1>6, <1>11 DEF Negotiation
  <1>12. CASE u.asked = {} /\ Send(c, "SESSION_SETUP", NoTree, "again")
    BY <1>1, <1>5, <1>6, <1>12 DEF Negotiation
  <1> QED
    BY <1>4, <1>8, <1>9, <1>10, <1>11, <1>12

LEMMA MessageAdded ==
  \A q \in Seq(Message), m \in Message : Append(q, m) \in Seq(Message)
  BY AppendIs

(* A cancel is about a request that is on its way and turns nothing.       *)
LEMMA CancelIsSent ==
  ASSUME NEW y, NEW box, NEW u, NEW s, OneClient(y, box, u, s), y.fd = "open",
         u.stage = "in", "CANCEL" \in Commands, NEW r \in u.asked, r.command \in Commands,
         NEW m, m = [mid |-> r.mid, command |-> "CANCEL", tree |-> r.tree, body |-> ""]
  PROVE  Steps(y, box, u, s, y, Append(box, m), u, s)
  <1> DEFINE out == Replies(y)
             wq == y.waitqueue
             b == Append(box, m)
  <1>1. /\ y \in Context /\ box \in Seq(Message) /\ u \in Client /\ y.pdu \in Pdus /\ InBounds(y)
        /\ out \in Seq(Reply) /\ wq \in Seq(Waiting) /\ Once(out)
        /\ InOnePlace(box, wq, out) /\ InStage(y.pdu, y.authenticated, box)
        /\ IsAsked(box, wq, out, u.stage, u.asked, u.next_id)
        /\ ToBeIn(y.pdu, wq, out, u.stage)
        /\ s <= MaxTrees + 1 => /\ \A t \in Known(u.held, out) : t < s
                                /\ OnKeptTrees(box, out, y.tree_id, u.held, s)
    BY OpenIs
  <1>2. u.stage \in Stages /\ u.asked \in SUBSET Asking
    BY <1>1 DEF Client
  <1>3. r.mid \in Nat /\ r.tree \in Nat
    BY <1>2 DEF Asking
  <1>4. m \in Message /\ m.mid = r.mid /\ m.command = "CANCEL" /\ ~ Real(m) /\ ~ UsesTree(m)
    <2>1. "CANCEL" \in Requests /\ "" \in Bodies
      BY DEF Requests, Bodies
    <2> QED
      BY <1>3, <2>1 DEF Message, Real, UsesTree
  <1>5. r.command \notin Turning
    BY CommandsAssumption DEF Turning, Negotiation
  <1>6. \A r2 \in u.asked : r2.command \notin Turning
    <2> SUFFICES ASSUME NEW r2 \in u.asked, r2.command \in Turning PROVE FALSE
      OBVIOUS
    <2>1. u.asked = {r2}
      BY <1>1 DEF IsAsked
    <2> QED
      BY <1>5, <2>1
  <1> HIDE DEF out, wq
  <1>7. y.pdu = PduOf(u.stage) /\ \A i \in DOMAIN box : box[i].command \notin Turning
    BY <1>1, <1>2, <1>6, PduIsOf
  <1>8. PduFor(m) = y.pdu
    BY <1>4, <1>7, PduOfIs DEF PduFor, Negotiation
  <1>9. m.mid = 0 => m.command \in Negotiation
    BY <1>1, <1>4, <1>5 DEF IsAsked, Turning
  <1>10. b \in Seq(Message)
    <2>1. \A q \in Seq(Message), e \in Message : Append(q, e) \in Seq(Message)
      BY MessageAdded
    <2>2. box \in Seq(Message) /\ m \in Message
      BY <1>1, <1>4
    <2> QED
      BY <2>1, <2>2
  <1>11. InOnePlace(b, wq, out)
    BY <1>1, <1>4, PlacesSend
  <1>12. InStage(y.pdu, y.authenticated, b)
    BY <1>1, <1>4, <1>7, <1>8, <1>9, StageSend
  <1>13. IsAsked(b, wq, out, u.stage, u.asked, u.next_id)
    <2>1. m.mid < u.next_id
      BY <1>1, <1>4 DEF IsAsked
    <2> QED
      BY <1>1, <1>4, <2>1, AskedCancel
  <1>14. s <= MaxTrees + 1 => OnKeptTrees(b, out, y.tree_id, u.held, s)
    <2> SUFFICES ASSUME s <= MaxTrees + 1 PROVE OnKeptTrees(b, out, y.tree_id, u.held, s)
      OBVIOUS
    <2>1. OnKeptTrees(b, out, y.tree_id,
                      IF m.command = "TREE_DISCONNECT" THEN u.held \ {m.tree} ELSE u.held, s)
      BY <1>1, <1>4, TreesSend
    <2> QED
      BY <1>4, <2>1
  <1> HIDE DEF b
  <1>15. Typed(y, b, u)
    BY <1>1, <1>10, PdusDiffer DEF Typed, InBounds
  <1>16. PduToCome(y) = y.pdu
    BY DEF PduToCome
  <1>17. Kept(y, b, u, s)
    BY <1>1, <1>11, <1>12, <1>13, <1>14, <1>16 DEF Kept, out, wq
  <1>18. OneClient(y, b, u, s)
    BY <1>1, <1>15, <1>17 DEF OneClient, out
  <1>19. Steps(y, box, u, s, y, b, u, s)
    BY <1>18 DEF Steps
  <1> QED
    BY <1>19 DEF b

LEMMA CancelKeeps ==
  ASSUME Invariant, NEW c \in Clients, Cancel(c)
  PROVE  Invariant'
  <1>1. PICK r \in client[c].asked :
          /\ r.command \in Commands
          /\ inbox' = [inbox EXCEPT
               ![c] = Append(@, [mid |-> r.mid, command |-> "CANCEL", tree |-> r.tree, body |-> ""])]
    BY DEF Cancel
  <1> DEFINE m == [mid |-> r.mid, command |-> "CANCEL", tree |-> r.tree, body |-> ""]
  <1>2. OneClient(context[c], inbox[c], client[c], s_tree_id) /\ loop \in Loops
    BY DEF Invariant, Loops
  <1>3. /\ "CANCEL" \in Commands /\ context[c].fd = "open" /\ client[c].stage = "in"
        /\ UNCHANGED <<context, loop, s_tree_id, client>>
    BY DEF Cancel
  <1>4. inbox' = [inbox EXCEPT ![c] = Append(inbox[c], m)]
    BY <1>1
  <1>5. Steps(context[c], inbox[c], client[c], s_tree_id,
              context[c], Append(inbox[c], m), client[c], s_tree_id)
    BY <1>1, <1>2, <1>3, CancelIsSent
  <1> HIDE DEF m
  <1>6. /\ context = [d \in Clients |-> context[d]]
        /\ inbox = [d \in Clients |-> inbox[d]]
        /\ client = [d \in Clients |-> client[d]]
    BY DEF Invariant
  <1>7. OnlyMoves(c) /\ inbox'[c] = Append(inbox[c], m)
    BY <1>3, <1>4, <1>6 DEF OnlyMoves
  <1>8. Steps(context[c], inbox[c], client[c], s_tree_id, context'[c], inbox'[c], client'[c], s_tree_id')
    BY <1>3, <1>5, <1>7
  <1> QED
    BY <1>2, <1>3, <1>7, <1>8, OneMoves

(* The client reads a reply.                                               *)
SentOn(x) == [x EXCEPT !.sent = Tail(@)]
LEMMA SentOnIs ==
  ASSUME NEW x \in Context, x.sent # <<>>
  PROVE  /\ SentOn(x) \in Context /\ SameButQueues(SentOn(x), x) /\ SentOn(x).waitqueue = x.waitqueue
         /\ Replies(SentOn(x)) = Tail(Replies(x)) /\ Replies(x) # <<>>
         /\ Head(Replies(x)) = Head(x.sent)
  <1> DEFINE a == x.sent
             b == x.outqueue
             z == SentOn(x)
  <1>1. a \in Seq(Reply) /\ b \in Seq(Reply) /\ a # <<>>
    BY ContextIs
  <1>2. Tail(a) \in Seq(Reply)
    BY <1>1, TailIs
  <1>3. z = [x EXCEPT !.sent = Tail(a)]
    BY DEF SentOn
  <1>4. \A q \in Seq(Reply) :
          LET v == [x EXCEPT !.sent = q] IN
          /\ v \in Context /\ v.waitqueue = x.waitqueue /\ v.sent = q /\ v.outqueue = x.outqueue
          /\ SameButQueues(v, x)
    BY WithQueues
  <1>5. z \in Context /\ z.waitqueue = x.waitqueue /\ z.sent = Tail(a) /\ z.outqueue = b
        /\ SameButQueues(z, x)
    BY <1>2, <1>3, <1>4
  <1> HIDE DEF z, a, b
  <1>6. /\ a \o b # <<>> /\ Head(a \o b) = Head(a) /\ Tail(a \o b) = Tail(a) \o b
    <2>1. \A p, q \in Seq(Reply) : p # <<>> => p \o q # <<>> /\ Head(p \o q) = Head(p)
      OBVIOUS
    <2>2. a \o b # <<>> /\ Head(a \o b) = Head(a)
      BY <1>1, <2>1
    <2>3. a \o b \in Seq(Reply) /\ Tail(a) \o b \in Seq(Reply) /\ Tail(a \o b) \in Seq(Reply)
      BY <1>1, <1>2, <2>2, JoinIs, TailIs
    <2> DEFINE l == Tail(a \o b)
               r == Tail(a) \o b
    <2>4. /\ Len(l) = Len(a \o b) - 1 /\ DOMAIN l = 1 .. Len(a \o b) - 1
          /\ \A i \in DOMAIN l : i + 1 \in DOMAIN (a \o b) /\ l[i] = (a \o b)[i + 1]
      BY <2>2, <2>3, TailIs
    <2>5. /\ Len(a \o b) = Len(a) + Len(b) /\ DOMAIN (a \o b) = 1 .. Len(a) + Len(b)
          /\ \A i \in DOMAIN (a \o b) : (a \o b)[i] = IF i <= Len(a) THEN a[i] ELSE b[i - Len(a)]
      BY <1>1, JoinIs
    <2>6. /\ Len(Tail(a)) = Len(a) - 1 /\ DOMAIN Tail(a) = 1 .. Len(a) - 1
          /\ \A i \in DOMAIN Tail(a) : Tail(a)[i] = a[i + 1]
      BY <1>1, TailIs
    <2>7. /\ Len(r) = Len(Tail(a)) + Len(b) /\ DOMAIN r = 1 .. Len(Tail(a)) + Len(b)
          /\ \A i \in DOMAIN r : r[i] = IF i <= Len(Tail(a)) THEN Tail(a)[i] ELSE b[i - Len(Tail(a))]
      BY <1>1, <1>2, JoinIs
    <2>8. Len(a) \in Nat /\ Len(b) \in Nat
      BY <1>1, LengthIs
    <2> HIDE DEF l, r
    <2>9. Len(l) = Len(r) /\ DOMAIN l = 1 .. Len(l) /\ DOMAIN r = 1 .. Len(l)
      <3>1. Len(l) = Len(a) + Len(b) - 1
        BY <2>4, <2>5
      <3>2. Len(r) = Len(a) - 1 + Len(b)
        BY <2>6, <2>7
      <3>3. Len(l) = Len(r)
        BY <2>8, <3>1, <3>2
      <3>4. DOMAIN l = 1 .. Len(l) /\ DOMAIN r = 1 .. Len(r)
        BY <2>4, <2>7
      <3> QED
        BY <3>3, <3>4
    <2>10. ASSUME NEW i \in 1 .. Len(l)
           PROVE  l[i] = r[i]
      <3>1. i \in DOMAIN l /\ i \in DOMAIN r /\ i \in Nat
        BY <2>4, <2>5, <2>8, <2>9
      <3>2. l[i] = IF i + 1 <= Len(a) THEN a[i + 1] ELSE b[i + 1 - Len(a)]
        BY <2>4, <2>5, <3>1
      <3>3. r[i] = IF i <= Len(a) - 1 THEN Tail(a)[i] ELSE b[i - (Len(a) - 1)]
        BY <2>6, <2>7, <3>1
      <3>4. CASE i + 1 <= Len(a)
        <4>1. i <= Len(a) - 1 /\ i \in DOMAIN Tail(a)
          BY <2>6, <2>8, <2>10, <3>1, <3>4
        <4> QED
          BY <2>6, <3>2, <3>3, <3>4, <4>1
      <3>5. CASE ~ (i + 1 <= Len(a))
        <4>1. ~ (i <= Len(a) - 1) /\ i + 1 - Len(a) = i - (Len(a) - 1)
          BY <2>8, <3>1, <3>5
        <4> QED
          BY <3>2, <3>3, <3>5, <4>1
      <3> QED
        BY <3>4, <3>5
    <2>11. l = r
      BY <2>3, <2>9, <2>10, SameSequence DEF l, r
    <2> QED
      BY <2>2, <2>11 DEF l, r
  <1>7. Replies(x) = a \o b
    BY DEF Replies, a, b
  <1>8. Replies(z) = Tail(a) \o b
    BY <1>5 DEF Replies
  <1> QED
    BY <1>5, <1>6, <1>7, <1>8 DEF z, a

AfterReply(u, rep) ==
  IF rep.status = "PENDING" THEN u
  ELSE [stage |-> StageWith(u.stage, rep), asked |-> {r \in u.asked : r.mid # rep.mid},
        held |-> IF rep.command = "LOGOFF" THEN {}
                 ELSE IF Connects(rep) THEN u.held \cup {rep.tree} ELSE u.held,
        next_id |-> u.next_id]

LEMMA AfterReplyIs ==
  ASSUME NEW u \in Client, NEW rep \in Reply
  PROVE  LET v == AfterReply(u, rep) IN
         /\ v \in Client /\ v.next_id = u.next_id
         /\ v.stage = (IF rep.status = "PENDING" THEN u.stage ELSE StageWith(u.stage, rep))
         /\ v.asked = (IF rep.status = "PENDING" THEN u.asked ELSE {r \in u.asked : r.mid # rep.mid})
         /\ \A t \in v.held : t \in u.held \/ (Connects(rep) /\ t = rep.tree)
  <1> DEFINE st == StageWith(u.stage, rep)
             a == {r \in u.asked : r.mid # rep.mid}
             h == IF rep.command = "LOGOFF" THEN {}
                  ELSE IF Connects(rep) THEN u.held \cup {rep.tree} ELSE u.held
             w == [stage |-> st, asked |-> a, held |-> h, next_id |-> u.next_id]
  <1>1. u.stage \in Stages /\ u.asked \in SUBSET Asking /\ u.held \in SUBSET Nat /\ u.next_id \in Nat
    BY DEF Client
  <1>2. st \in Stages
    BY <1>1, StageWithIs
  <1>3. rep.tree \in Nat
    BY DEF Reply
  <1>4. a \in SUBSET Asking /\ h \in SUBSET Nat
    BY <1>1, <1>3
  <1>5. \A t \in h : t \in u.held \/ (Connects(rep) /\ t = rep.tree)
    OBVIOUS
  <1>6. CASE rep.status = "PENDING"
    BY <1>6 DEF AfterReply
  <1>7. CASE rep.status # "PENDING"
    <2>1. AfterReply(u, rep) = w
      BY <1>7 DEF AfterReply
    <2> HIDE DEF st, a, h
    <2>2. w \in Client /\ w.next_id = u.next_id /\ w.stage = st /\ w.asked = a /\ w.held = h
      BY <1>1, <1>2, <1>4 DEF Client
    <2> HIDE DEF w
    <2>3. LET v == AfterReply(u, rep) IN
          /\ v \in Client /\ v.next_id = u.next_id /\ v.stage = st /\ v.asked = a /\ v.held = h
      BY <2>1, <2>2
    <2> QED
      BY <1>5, <1>7, <2>3 DEF st, a
  <1> QED
    BY <1>6, <1>7

(* The client comes to the stage that the context is at, and may hold one  *)
(* tree more.                                                              *)
LEMMA ReceiveStep ==
  ASSUME NEW y, NEW box, NEW u, NEW s \in Nat, OneClient(y, box, u, s), y.sent # <<>>,
         u.stage # "left"
  PROVE  Steps(y, box, u, s, SentOn(y), box, AfterReply(u, Head(y.sent)), s)
  <1> DEFINE out == Replies(y)
             wq == y.waitqueue
             z == SentOn(y)
             rep == Head(y.sent)
             v == AfterReply(u, rep)
  <1>1. /\ y \in Context /\ box \in Seq(Message) /\ u \in Client
        /\ y.tree_id_cur \in 0 .. Len(y.tree_id) /\ (y.tree_id # <<>> => y.tree_id_cur > 0)
        /\ y.fd = "open" => y.pdu # NoPdu
    BY DEF OneClient, Typed
  <1>2. y.fd \notin {"none", "backlog"}
    BY DEF OneClient, Typed, NewContext
  <1>3. /\ z \in Context /\ SameButQueues(z, y) /\ z.waitqueue = wq
        /\ Replies(z) = Tail(out) /\ out # <<>> /\ Head(out) = rep
    BY <1>1, SentOnIs
  <1>4. out \in Seq(Reply) /\ wq \in Seq(Waiting)
    BY <1>1, ContextIs
  <1>5. u.stage \in Stages /\ u.asked \in SUBSET Asking /\ u.next_id \in Nat
    BY <1>1 DEF Client
  <1> HIDE DEF z, rep, v, out, wq
  <1>6. Tail(out) \in Seq(Reply) /\ Part(Tail(out), out) /\ rep \in Reply
    BY <1>3, <1>4, TailIs, LengthIs
  <1>7. /\ v \in Client /\ v.next_id = u.next_id
        /\ v.stage = (IF rep.status = "PENDING" THEN u.stage ELSE StageWith(u.stage, rep))
        /\ v.asked = (IF rep.status = "PENDING" THEN u.asked ELSE {r \in u.asked : r.mid # rep.mid})
        /\ \A t \in v.held : t \in u.held \/ (Connects(rep) /\ t = rep.tree)
    BY <1>1, <1>6, AfterReplyIs DEF v
  <1>8. /\ \A t \in Known(v.held, Tail(out)) : t \in Known(u.held, out)
        /\ OnKeptTrees(box, out, y.tree_id, u.held, s)
             => OnKeptTrees(box, Tail(out), y.tree_id, v.held, s)
    BY <1>3, <1>4, <1>7, TreesReceive
  <1>9. Once(out)
    BY DEF OneClient, out
  <1>10. Once(Tail(out))
    BY <1>4, <1>6, <1>9, OnceOfPart
  <1>11. Typed(z, box, v)
    BY <1>1, <1>2, <1>3, <1>7 DEF Typed, SameButQueues
  <1>12. ASSUME Live(z)
         PROVE  Kept(z, box, v, s)
    <2>1. y.fd = "open"
      BY <1>2, <1>3, <1>12 DEF Live, SameButQueues
    <2>2. /\ InOnePlace(box, wq, out) /\ InStage(y.pdu, y.authenticated, box)
          /\ IsAsked(box, wq, out, u.stage, u.asked, u.next_id)
          /\ ToBeIn(y.pdu, wq, out, u.stage)
          /\ s <= MaxTrees + 1 => OnKeptTrees(box, out, y.tree_id, u.held, s)
      BY <2>1, OpenIs DEF out, wq
    <2>3. InOnePlace(box, wq, Tail(out))
      BY <1>1, <1>4, <1>6, <2>2, SameIsPart, PlacesOfPart
    <2>4. IsAsked(box, wq, Tail(out), v.stage, v.asked, v.next_id)
      <3>1. CASE rep.status = "PENDING"
        <4>1. IsAsked(box, wq, Tail(out), u.stage, u.asked, u.next_id)
          BY <1>1, <1>4, <1>6, <2>2, SameIsPart, AskedOfPart
        <4> QED
          BY <1>7, <3>1, <4>1
      <3>2. CASE rep.status # "PENDING"
        <4>1. IsAsked(box, wq, Tail(out), StageWith(u.stage, rep),
                      {r \in u.asked : r.mid # rep.mid}, u.next_id)
          BY <1>1, <1>3, <1>4, <1>5, <1>9, <2>2, <3>2, AskedReceive
        <4> QED
          BY <1>7, <3>2, <4>1
      <3> QED
        BY <3>1, <3>2
    <2>5. ToBeIn(y.pdu, wq, Tail(out), v.stage)
      <3>1. ToBeIn(y.pdu, wq, Tail(out),
                   IF Head(out).status = "PENDING" THEN u.stage ELSE StageWith(u.stage, Head(out)))
        BY <1>3, <1>4, <1>5, <2>2, ToBeReceive
      <3> QED
        BY <1>3, <1>7, <3>1
    <2>6. PduToCome(z) = y.pdu /\ z.authenticated = y.authenticated /\ z.tree_id = y.tree_id
      BY <1>2, <1>3 DEF PduToCome, SameButQueues
    <2> QED
      BY <1>3, <1>8, <2>2, <2>3, <2>4, <2>5, <2>6 DEF Kept
  <1>13. s <= MaxTrees + 1 => \A t \in Known(u.held, out) : t < s
    BY DEF OneClient, out
  <1>14. OneClient(z, box, v, s)
    BY <1>3, <1>8, <1>10, <1>11, <1>12, <1>13 DEF OneClient
  <1>15. Steps(y, box, u, s, z, box, v, s)
    BY <1>3, <1>8, <1>14 DEF Steps, out
  <1> QED
    BY <1>15 DEF z, v, rep

LEMMA ClientAfter ==
  ASSUME NEW u \in Client, NEW a, NEW st, NEW h
  PROVE  [u EXCEPT !.asked = a, !.stage = st, !.held = h]
           = [stage |-> st, asked |-> a, held |-> h, next_id |-> u.next_id]
  <1> DEFINE z == [u EXCEPT !.asked = a, !.stage = st, !.held = h]
             F == {"stage", "asked", "held", "next_id"}
  <1>1. z = [f \in F |-> z[f]]
    BY DEF Client
  <1>2. z.stage = st /\ z.asked = a /\ z.held = h /\ z.next_id = u.next_id
    BY DEF Client
  <1> HIDE DEF z
  <1>3. z = [stage |-> st, asked |-> a, held |-> h, next_id |-> u.next_id]
    BY <1>1, <1>2
  <1> QED
    BY <1>3 DEF z

LEMMA ReceiveKeeps ==
  ASSUME Invariant, NEW c \in Clients, Receive(c)
  PROVE  Invariant'
  <1> DEFINE u == client[c]
             box == inbox[c]
             y == context[c]
             rep == Head(y.sent)
             v == AfterReply(u, rep)
             z == SentOn(y)
  <1>1. OneClient(y, box, u, s_tree_id) /\ loop' \in Loops /\ s_tree_id \in Nat
    BY DEF Invariant, Loops, Receive
  <1>2. /\ context = [d \in Clients |-> context[d]]
        /\ inbox = [d \in Clients |-> inbox[d]]
        /\ client = [d \in Clients |-> client[d]]
    BY DEF Invariant
  <1>3. u \in Client
    BY ClientIs
  <1>4. y.sent # <<>> /\ u.stage # "left" /\ UNCHANGED <<loop, s_tree_id, inbox>>
    BY DEF Receive
  <1>5. context' = [context EXCEPT ![c] = z]
    BY DEF Receive, SentOn
  <1>6. client' = [client EXCEPT ![c] = v]
    <2>1. CASE rep.status = "PENDING"
      <3>1. client' = client
        BY <2>1 DEF Receive
      <3>2. v = client[c]
        BY <2>1 DEF AfterReply
      <3> HIDE DEF v
      <3>3. [client EXCEPT ![c] = client[c]] = client
        BY <1>2
      <3> QED
        BY <3>1, <3>2, <3>3
    <2>2. CASE rep.status # "PENDING"
      <3> DEFINE a == {r \in u.asked : r.mid # rep.mid}
                 st == StageAfter(c, rep)
                 h == IF rep.command = "LOGOFF" THEN {}
                      ELSE IF rep.command = "TREE_CONNECT" /\ rep.status = "SUCCESS"
                           THEN u.held \cup {rep.tree} ELSE u.held
      <3>1. client' = [client EXCEPT ![c] = [u EXCEPT !.asked = a, !.stage = st, !.held = h]]
        BY <2>2 DEF Receive
      <3>2. st = StageWith(u.stage, rep)
        BY DEF StageAfter, StageWith
      <3>3. v = [stage |-> st, asked |-> a, held |-> h, next_id |-> u.next_id]
        BY <2>2, <3>2 DEF AfterReply, Connects
      <3> HIDE DEF a, st, h, v
      <3>4. [u EXCEPT !.asked = a, !.stage = st, !.held = h]
              = [stage |-> st, asked |-> a, held |-> h, next_id |-> u.next_id]
        BY <1>3, ClientAfter
      <3> QED
        BY <3>1, <3>3, <3>4
    <2> QED
      BY <2>1, <2>2
  <1>7. Steps(y, box, u, s_tree_id, z, box, v, s_tree_id)
    BY <1>1, <1>4, ReceiveStep
  <1> HIDE DEF z, v
  <1>8. inbox'[c] = box /\ client'[c] = v /\ context'[c] = z /\ OnlyMoves(c)
    BY <1>2, <1>4, <1>5, <1>6 DEF OnlyMoves
  <1>9. Steps(context[c], inbox[c], client[c], s_tree_id, context'[c], inbox'[c], client'[c], s_tree_id')
    BY <1>4, <1>7, <1>8
  <1> QED
    BY <1>1, <1>8, <1>9, OneMoves

(* A client that leaves waits for nothing.                                 *)
HasLeft == [NewClient EXCEPT !.stage = "left"]
LEMMA LeaveStep ==
  ASSUME NEW y, NEW box, NEW u, NEW s, OneClient(y, box, u, s), Live(y)
  PROVE  Steps(y, box, u, s, y, box, HasLeft, s)
  <1> DEFINE out == Replies(y)
  <1>1. /\ HasLeft \in Client /\ HasLeft.stage = "left" /\ HasLeft.held = {}
    BY DEF HasLeft, NewClient, Client, Stages
  <1>2. y.fd \in {"backlog", "open"}
    BY DEF Live
  <1>3. Typed(y, box, HasLeft)
    BY <1>1, <1>2 DEF OneClient, Typed
  <1>4. Kept(y, box, u, s) /\ Once(out) /\ (s <= MaxTrees + 1 => \A t \in Known(u.held, out) : t < s)
    BY DEF OneClient
  <1> HIDE DEF out
  <1>5. \A t \in Known({}, out) : t \in Known(u.held, out)
    BY KnownIs
  <1>6. s <= MaxTrees + 1 => OnKeptTrees(box, out, y.tree_id, {}, s)
    BY <1>4, <1>5 DEF Kept, OnKeptTrees, out
  <1>7. Kept(y, box, HasLeft, s)
    BY <1>1, <1>4, <1>6 DEF Kept, out
  <1>8. OneClient(y, box, HasLeft, s)
    BY <1>1, <1>3, <1>4, <1>5, <1>7 DEF OneClient, out
  <1> QED
    BY <1>1, <1>5, <1>8 DEF Steps, out

LEMMA LeaveKeeps ==
  ASSUME Invariant, NEW c \in Clients, Leave(c)
  PROVE  Invariant'
  <1>1. OneClient(context[c], inbox[c], client[c], s_tree_id) /\ loop' \in Loops
    BY DEF Invariant, Loops, Leave
  <1>2. /\ context = [d \in Clients |-> context[d]]
        /\ inbox = [d \in Clients |-> inbox[d]]
        /\ client = [d \in Clients |-> client[d]]
    BY DEF Invariant
  <1>3. client' = [client EXCEPT ![c] = HasLeft] /\ Live(context[c])
        /\ UNCHANGED <<context, loop, s_tree_id, inbox>>
    BY DEF Leave, HasLeft, Live
  <1>4. client'[c] = HasLeft /\ OnlyMoves(c)
    BY <1>2, <1>3 DEF OnlyMoves
  <1>5. Steps(context[c], inbox[c], client[c], s_tree_id, context[c], inbox[c], HasLeft, s_tree_id)
    BY <1>1, <1>3, LeaveStep
  <1>6. Steps(context[c], inbox[c], client[c], s_tree_id, context'[c], inbox'[c], client'[c], s_tree_id')
    BY <1>3, <1>4, <1>5
  <1> QED
    BY <1>1, <1>4, <1>6, OneMoves

-----------------------------------------------------------------------------
(* The invariant is one.                                                   *)
LEMMA InitIs == Init => Invariant
  <1> SUFFICES ASSUME Init PROVE Invariant
    OBVIOUS
  <1> DEFINE s == s_tree_id
  <1>1. /\ context = [c \in Clients |-> NewContext] /\ client = [c \in Clients |-> NewClient]
        /\ inbox = [c \in Clients |-> <<>>] /\ loop = Idle /\ s_tree_id = 1
    BY DEF Init
  <1>2. /\ context = [c \in Clients |-> context[c]]
        /\ inbox = [c \in Clients |-> inbox[c]]
        /\ client = [c \in Clients |-> client[c]]
    BY <1>1
  <1>3. loop \in [phase : {"select", "service", "cull", "ended"}, in : SUBSET Clients,
                  out : SUBSET Clients, accept : BOOLEAN]
    BY <1>1 DEF Idle
  <1>4. Replies(NewContext) = <<>> /\ NewClient.held = {}
    BY DEF Replies, NewContext, NewClient
  <1>5. Known({}, <<>>) = {}
    BY KnownIs
  <1>6. NewContext \in Context
    BY DEF NewContext, Context
  <1>7. NewClient \in Client
    BY DEF NewClient, Client, Stages
  <1>8. /\ NewContext.fd = "none" /\ NewContext.tree_id = <<>> /\ NewContext.tree_id_cur = 0
        /\ Len(NewContext.tree_id) = 0
    BY DEF NewContext
  <1>9. Typed(NewContext, <<>>, NewClient)
    BY <1>6, <1>7, <1>8 DEF Typed
  <1>10. Once(<<>>)
    BY DEF Once
  <1>11. OneClient(NewContext, <<>>, NewClient, s_tree_id)
    BY <1>4, <1>5, <1>8, <1>9, <1>10 DEF OneClient, Live
  <1>12. \A c \in Clients : OneClient(context[c], inbox[c], client[c], s_tree_id)
    BY <1>1, <1>11
  <1>13. \A c \in Clients : Known(client[c].held, Replies(context[c])) = {}
    BY <1>1, <1>4, <1>5
  <1> QED
    BY <1>1, <1>2, <1>3, <1>12, <1>13 DEF Invariant

(* One step for each action.                                               *)
LEMMA NextKeeps == Invariant /\ [Next]_vars => Invariant'
  <1> SUFFICES ASSUME Invariant, [Next]_vars PROVE Invariant'
    OBVIOUS
  <1>1. CASE UNCHANGED vars
    <2>1. loop' \in Loops
      BY <1>1 DEF Invariant, Loops, vars
    <2> QED
      BY <1>1, <2>1, Unmoved DEF vars
  <1>2. ASSUME NEW c \in Clients, Service(c) PROVE Invariant'
    <2>1. CASE Misread(c)
      BY <1>2, <2>1, MisreadKeeps
    <2>2. CASE NegotiateRequest(c)
      BY <1>2, <2>2, NegotiateKeeps
    <2>3. CASE SessionSetupRequest(c)
      BY <1>2, <2>3, SessionSetupKeeps
    <2>4. CASE GeneralRequest(c)
      BY <1>2, <2>4, GeneralKeeps
    <2>5. CASE ReadAgain(c)
      BY <1>2, <2>5, ReadAgainKeeps
    <2>6. CASE WriteOut(c)
      BY <1>2, <2>6, WriteOutKeeps
    <2> QED
      BY <1>2, <2>1, <2>2, <2>3, <2>4, <2>5, <2>6 DEF Service
  <1>3. CASE Serve
    BY <1>2, <1>3, SelectKeeps, AcceptKeeps, CullKeeps DEF Serve
  <1>4. CASE AcceptFails
    BY <1>4, AcceptFailsKeeps
  <1>5. ASSUME NEW c \in Clients,
               ReplyLater(c) \/ Connect(c) \/ LogIn(c) \/ Use(c) \/ Cancel(c) \/ Receive(c) \/ Leave(c)
        PROVE  Invariant'
    BY <1>5, ReplyLaterKeeps, ConnectKeeps, LogInKeeps, UseKeeps, CancelKeeps, ReceiveKeeps, LeaveKeeps
  <1> QED
    BY <1>1, <1>3, <1>4, <1>5 DEF Next

(* For any clients, commands, answers of handlers and mischief, every      *)
(* connection keeps the inductive invariant: each id is in one place,      *)
(* everything on its way is what the client asks for, the PDU of the       *)
(* context is that of the stage the client will be in, and no tree has two *)
(* holders.                                                                *)
THEOREM ServerInvariant == Spec => []Invariant
  <1>1. Init => Invariant
    BY InitIs
  <1>2. Invariant /\ [Next]_vars => Invariant'
    BY NextKeeps
  <1> QED
    BY <1>1, <1>2, PTL DEF Spec

-----------------------------------------------------------------------------
(* The runs' properties follow.                                            *)
LEMMA InvariantTypes == Invariant => TypeOK
  <1> SUFFICES ASSUME Invariant PROVE TypeOK
    OBVIOUS
  <1>1. ASSUME NEW c \in Clients
        PROVE  LET x == context[c]
               IN /\ x.fd \in {"none", "backlog", "open", "closed", "gone"}
                  /\ x.fd = "open" => x.pdu \in {ForNegotiate, ForSession, ForAnything}
                  /\ x.tree_id_cur \in 0..Len(x.tree_id) /\ (x.tree_id # <<>> => x.tree_id_cur > 0)
                  /\ \A i \in DOMAIN x.outqueue : x.outqueue[i].status \in Statuses
    <2> DEFINE x == context[c]
    <2>1. /\ x \in Context /\ (x.fd = "open" => x.pdu # NoPdu)
          /\ x.tree_id_cur \in 0 .. Len(x.tree_id) /\ (x.tree_id # <<>> => x.tree_id_cur > 0)
      BY DEF Invariant, OneClient, Typed
    <2> HIDE DEF x
    <2>2. /\ x.fd \in {"none", "backlog", "open", "closed", "gone"} /\ x.pdu \in Pdus \cup {NoPdu}
          /\ x.outqueue \in Seq(Reply)
      BY <2>1, ContextIs
    <2>3. \A i \in DOMAIN x.outqueue : x.outqueue[i] \in Reply
      BY <2>2, LengthIs
    <2>4. \A r \in Reply : r.status \in Statuses
      BY DEF Reply
    <2> QED
      BY <2>1, <2>2, <2>3, <2>4 DEF Pdus, x
  <1>2. /\ loop.phase \in {"select", "service", "cull", "ended"}
        /\ loop.in \cup loop.out \subseteq Clients
    BY DEF Invariant
  <1> QED
    BY <1>1, <1>2 DEF TypeOK

(* Replies are of what was asked, and one for each.                        *)
LEMMA InvariantAnswers == Invariant => RepliesAreTheirs /\ OneReplyEach
  <1> SUFFICES ASSUME Invariant PROVE RepliesAreTheirs /\ OneReplyEach
    OBVIOUS
  <1>1. \A c \in Clients : Coming(c) = Replies(context[c])
    BY DEF Coming, Replies
  <1>2. \A c \in Clients : OneClient(context[c], inbox[c], client[c], s_tree_id)
    BY DEF Invariant
  <1>3. ASSUME NEW c \in Clients, context[c].fd = "open", client[c].stage # "left",
               NEW i \in DOMAIN Coming(c), Coming(c)[i].command # "CANCEL"
        PROVE  \E r \in client[c].asked :
                 /\ r.mid = Coming(c)[i].mid
                 /\ r.command = Coming(c)[i].command
                    \/ {r.command, Coming(c)[i].command} = {"SMB1_NEGOTIATE", "NEGOTIATE"}
                    \/ (r.command = "OPLOCK_BREAK" /\ Coming(c)[i].command = "LOCK")
                 /\ Coming(c)[i].tree \in {r.tree, NoTree} \/ Coming(c)[i].command = "TREE_CONNECT"
    <2>1. IsAsked(inbox[c], context[c].waitqueue, Coming(c), client[c].stage, client[c].asked,
                  client[c].next_id)
      BY <1>1, <1>2, <1>3, OpenIs
    <2>2. PICK r \in client[c].asked : Answers(Coming(c)[i], r)
      BY <1>3, <2>1 DEF IsAsked, Real
    <2> QED
      BY <2>2 DEF Answers
  <1>4. RepliesAreTheirs
    BY <1>3 DEF RepliesAreTheirs
  <1>5. \A c \in Clients : Once(Coming(c))
    BY <1>1, <1>2 DEF OneClient
  <1>6. OneReplyEach
    BY <1>5 DEF OneReplyEach, Once, Real
  <1> QED
    BY <1>4, <1>6

(* Requests are read as what they are, after the login, and trees are      *)
(* their holders'.                                                         *)
LEMMA InvariantTurns == Invariant => InItsTurn
  <1> SUFFICES ASSUME Invariant PROVE InItsTurn
    OBVIOUS
  <1>1. \A c \in Clients : OneClient(context[c], inbox[c], client[c], s_tree_id)
    BY DEF Invariant
  <1>2. ASSUME NEW c \in Clients, context[c].fd = "open", inbox[c] # <<>>, Head(inbox[c]).body # "again"
        PROVE  LET req == Head(inbox[c]) IN
               /\ IsRead(context[c], req)
               /\ context[c].pdu.cb = CASE req.command \in {"NEGOTIATE", "SMB1_NEGOTIATE"} -> "negotiate"
                                        [] req.command = "SESSION_SETUP" -> "session"
                                        [] OTHER -> "general"
    <2> DEFINE req == Head(inbox[c])
               pdu == context[c].pdu
    <2>1. inbox[c] \in Seq(Message) /\ InStage(pdu, context[c].authenticated, inbox[c])
      BY <1>1, <1>2, OpenIs
    <2>2. req = inbox[c][1] /\ 1 \in DOMAIN inbox[c]
      BY <1>2, <2>1, TailIs
    <2>3. pdu = PduFor(req)
      BY <2>1, <2>2 DEF InStage
    <2>4. pdu = IF req.command \in Negotiation THEN ForNegotiate
                ELSE IF req.command = "SESSION_SETUP" THEN ForSession ELSE ForAnything
      BY <1>2, <2>3 DEF PduFor
    <2> HIDE DEF req
    <2>5. CASE req.command \in Negotiation
      BY <2>4, <2>5 DEF IsRead, ReadAs, BeforeSession, Negotiation, ForNegotiate, NextPdu, req
    <2>6. CASE req.command = "SESSION_SETUP"
      BY <2>4, <2>6 DEF IsRead, ReadAs, BeforeSession, Negotiation, ForSession, NextPdu, req
    <2>7. CASE req.command \notin Negotiation \cup {"SESSION_SETUP"}
      BY <2>4, <2>7 DEF IsRead, ReadAs, BeforeSession, Negotiation, ForAnything, NextPdu, req
    <2> QED
      BY <2>5, <2>6, <2>7
  <1>3. HandledAsItself
    BY <1>2 DEF HandledAsItself
  <1>4. ServedAfterLogin
    <2> SUFFICES ASSUME NEW c \in Clients, context[c].fd = "open", context[c].pdu.cb = "general"
                 PROVE  context[c].authenticated
      BY DEF ServedAfterLogin
    <2>1. context[c].pdu \in Pdus /\ InStage(context[c].pdu, context[c].authenticated, inbox[c])
      BY <1>1, OpenIs
    <2>2. context[c].pdu = ForAnything
      BY <2>1 DEF Pdus, ForNegotiate, ForSession, ForAnything, NextPdu
    <2> QED
      BY <2>1, <2>2 DEF InStage
  <1>5. TreesKept
    <2> SUFFICES ASSUME NEW c \in Clients, context[c].fd = "open", s_tree_id <= MaxTrees + 1
                 PROVE  /\ client[c].held \subseteq ToSet(context[c].tree_id)
                        /\ \A d \in Clients \ {c} : client[c].held \cap client[d].held = {}
      BY DEF TreesKept
    <2>1. OnKeptTrees(inbox[c], Replies(context[c]), context[c].tree_id, client[c].held, s_tree_id)
      BY <1>1, OpenIs
    <2>2. \A d \in Clients : \A t \in client[d].held : t \in Known(client[d].held, Replies(context[d]))
      BY KnownIs
    <2>3. \A t \in client[c].held : t \in ToSet(context[c].tree_id)
      BY <2>1, <2>2 DEF OnKeptTrees
    <2>4. \A d \in Clients \ {c} :
            Known(client[c].held, Replies(context[c])) \cap Known(client[d].held, Replies(context[d])) = {}
      BY DEF Invariant
    <2> QED
      BY <2>2, <2>3, <2>4
  <1> QED
    BY <1>3, <1>4, <1>5 DEF InItsTurn

(* EachHasItsReply for every value of the constants: whatever the order in *)
(* which handlers answer, smb2_queue_pdu gives each request one reply,     *)
(* with its own id, command and tree, besides interim ones that come       *)
(* before it.                                                              *)
THEOREM RepliesReachTheirs == Spec => []EachHasItsReply
  <1>1. Invariant => EachHasItsReply
    BY InvariantTypes, InvariantAnswers DEF EachHasItsReply
  <1> QED
    BY <1>1, ServerInvariant, PTL

(* InItsTurn for every value of the constants: a request is read into the  *)
(* PDU of its own command, is handled only after                           *)
(* smb2_session_setup_request_cb has let its client in, and what a client  *)
(* holds is connected and no other client's.                               *)
THEOREM AllInTurn == Spec => []InItsTurn
  BY InvariantTurns, ServerInvariant, PTL

(* Queueing a reply leaves the current tree alone.                         *)
SameTrees(z, x) ==
  /\ DOMAIN z = DOMAIN x /\ z.tree_id = x.tree_id /\ z.tree_id_cur = x.tree_id_cur

LEMMA QueueKeepsTree ==
  ASSUME NEW c \in Clients, NEW x \in Context, NEW mid, NEW rep, NEW z \in QueuePdu(c, x, mid, rep)
  PROVE  SameTrees(z, x)
  <1>1. DOMAIN x = {"fd", "pdu", "waitqueue", "outqueue", "sent", "tree_id", "tree_id_cur",
                    "authenticated"}
    BY DEF Context
  <1>2. ASSUME NEW y, SameTrees(y, x), NEW r, z \in AddToOutqueue(c, y, r)
        PROVE  SameTrees(z, x)
    <2> DEFINE o == Append(y.outqueue, r)
               p == Append(y.sent, r)
    <2>1. z = [y EXCEPT !.outqueue = o] \/ z = [y EXCEPT !.sent = p]
      BY <1>2 DEF AddToOutqueue
    <2> HIDE DEF o, p
    <2>2. CASE z = [y EXCEPT !.outqueue = o]
      BY <1>1, <1>2, <2>2 DEF SameTrees
    <2>3. CASE z = [y EXCEPT !.sent = p]
      BY <1>1, <1>2, <2>3 DEF SameTrees
    <2> QED
      BY <2>1, <2>2, <2>3
  <1>3. SameTrees(x, x)
    BY DEF SameTrees
  <1>4. \A i : SameTrees(Correlated(x, i, rep), x)
    <2> TAKE i
    <2> DEFINE a == [x.waitqueue EXCEPT ![i].async = TRUE]
               b == RemoveAt(x.waitqueue, i)
    <2>1. Correlated(x, i, rep) = [x EXCEPT !.waitqueue = a]
          \/ Correlated(x, i, rep) = [x EXCEPT !.waitqueue = b]
      BY DEF Correlated, Removed
    <2> DEFINE v == Correlated(x, i, rep)
    <2> HIDE DEF a, b, v
    <2>2. ASSUME v = [x EXCEPT !.waitqueue = a] PROVE SameTrees(v, x)
      BY <1>1, <2>2 DEF SameTrees
    <2>3. ASSUME v = [x EXCEPT !.waitqueue = b] PROVE SameTrees(v, x)
      BY <1>1, <2>3 DEF SameTrees
    <2>4. SameTrees(v, x)
      BY <2>1, <2>2, <2>3 DEF v
    <2> QED
      BY <2>4 DEF v
  <1>5. \/ z = x
        \/ \E y, r : /\ y = x \/ y = Correlated(x, FirstWaiting(x, mid), rep)
                     /\ z \in AddToOutqueue(c, y, r)
    BY DEF QueuePdu
  <1> QED
    BY <1>2, <1>3, <1>4, <1>5

(* The request that is handled has selected its tree, and its reply leaves *)
(* it.                                                                     *)
LEMMA HandledOnItsTree ==
  ASSUME Invariant, NEW c \in Clients, GeneralRequest(c),
         Head(inbox[c]).command \in Commands \ (NoTreeCommands \cup {"CANCEL"}),
         s_tree_id <= MaxTrees + 1
  PROVE  CurrentTree(context'[c]) = Head(inbox[c]).tree
  <1> DEFINE y == context[c]
             box == inbox[c]
             req == Head(box)
             x == Taken(y, req)
  <1>1. OneClient(y, box, client[c], s_tree_id)
    BY DEF Invariant
  <1>2. TakesRequest(c) /\ y.fd = "open" /\ box # <<>>
    BY DEF GeneralRequest, Request, TakesRequest, Serving
  <1>3. /\ y \in Context /\ box \in Seq(Message) /\ y.pdu \in Pdus /\ InBounds(y)
        /\ OnKeptTrees(box, Replies(y), y.tree_id, client[c].held, s_tree_id)
    BY <1>1, <1>2, OpenIs
  <1>4. req = box[1] /\ 1 \in DOMAIN box /\ req \in Message
    BY <1>2, <1>3, TailIs, LengthIs
  <1>5. req.command \notin NoTreeCommands /\ req.command # "CANCEL"
    OBVIOUS
  <1>6. UsesTree(req)
    BY <1>5 DEF UsesTree, OnTree, Real
  <1>7. req.tree \in ToSet(y.tree_id)
    BY <1>3, <1>4, <1>6 DEF OnKeptTrees
  <1>8. x \in Context /\ CurrentTree(x) = req.tree
    BY <1>3, <1>4, <1>5, <1>7, TakenIs
  <1>9. PICK rep \in RepliesTo(req.command) :
          LET connects == rep = Rep("TREE_CONNECT", "SUCCESS")
              v == IF connects THEN ConnectTree(x, s_tree_id) ELSE x
              zs == QueuePdu(c, v, req.mid, rep)
          IN Becomes(c, IF req.command = "TREE_DISCONNECT"
                        THEN {DisconnectTree(z, req.tree) : z \in zs} ELSE zs,
                     AfterLogoff(req.command))
    BY DEF GeneralRequest
  <1> DEFINE zs == QueuePdu(c, x, req.mid, rep)
             pdu2 == AfterLogoff(req.command)
  <1>10. /\ req.command \in Requests \ (Negotiation \cup {"SESSION_SETUP"})
         /\ req.command # "TREE_DISCONNECT" /\ req.command # "TREE_CONNECT"
    <2>1. req.command \in Commands
      OBVIOUS
    <2> QED
      BY <2>1, CommandsAssumption DEF Requests, Negotiation
  <1>11. rep # Rep("TREE_CONNECT", "SUCCESS")
    <2>1. PICK command, status : rep = Rep(command, status) /\ RightReply(req, command, status)
      BY <1>5, <1>10, RepliesToIs
    <2>2. command = "TREE_CONNECT" => req.command = "TREE_CONNECT"
      BY <2>1 DEF RightReply
    <2> QED
      BY <1>10, <2>1, <2>2 DEF Rep
  <1>12. Becomes(c, zs, pdu2)
    BY <1>9, <1>10, <1>11
  <1> HIDE DEF x, zs, pdu2
  <1>13. HasBecome(context'[c], zs, pdu2)
    BY <1>2, <1>12, BecomesIs
  <1>14. PICK z \in zs : context'[c] = [z EXCEPT !.pdu = pdu2]
    BY <1>13 DEF HasBecome
  <1>15. SameTrees(z, x)
    BY <1>8, QueueKeepsTree DEF zs
  <1>16. DOMAIN x = {"fd", "pdu", "waitqueue", "outqueue", "sent", "tree_id", "tree_id_cur",
                     "authenticated"}
    BY <1>8 DEF Context
  <1>17. context'[c].tree_id = x.tree_id /\ context'[c].tree_id_cur = x.tree_id_cur
    BY <1>14, <1>15, <1>16 DEF SameTrees
  <1>18. CurrentTree(context'[c]) = CurrentTree(x)
    BY <1>17 DEF CurrentTree
  <1> QED
    BY <1>8, <1>18

(* What takes a request from a socket and leaves it open.                  *)
TreesAreTheirs ==
  \A c \in Clients :
    inbox[c] # <<>> /\ inbox'[c] = Tail(inbox[c]) /\ context'[c].fd = "open"
    /\ Head(inbox[c]).command \in Commands \ (NoTreeCommands \cup {"CANCEL"})
    /\ s_tree_id <= MaxTrees + 1
    => CurrentTree(context'[c]) = Head(inbox[c]).tree

LEMMA StepsOnItsTree == Invariant /\ [Next]_vars => TreesAreTheirs
  <1> SUFFICES ASSUME Invariant, [Next]_vars, NEW c \in Clients,
                      inbox[c] # <<>>, inbox'[c] = Tail(inbox[c]), context'[c].fd = "open",
                      Head(inbox[c]).command \in Commands \ (NoTreeCommands \cup {"CANCEL"}),
                      s_tree_id <= MaxTrees + 1
               PROVE  CurrentTree(context'[c]) = Head(inbox[c]).tree
    BY DEF TreesAreTheirs
  <1>1. inbox[c] \in Seq(Message) /\ inbox = [d \in Clients |-> inbox[d]]
    BY DEF Invariant, OneClient, Typed
  <1>2. inbox'[c] # inbox[c]
    <2>1. Len(Tail(inbox[c])) = Len(inbox[c]) - 1 /\ Len(inbox[c]) \in Nat
      BY <1>1, TailIs, LengthIs
    <2>2. Tail(inbox[c]) # inbox[c]
      <3>1. \A n \in Nat : n - 1 # n
        OBVIOUS
      <3> QED
        BY <2>1, <3>1
    <2> QED
      BY <2>2
  <1>3. \A m : inbox'[c] # Append(inbox[c], m)
    <2>1. Len(Tail(inbox[c])) = Len(inbox[c]) - 1 /\ Len(inbox[c]) \in Nat
      BY <1>1, TailIs, LengthIs
    <2>2. \A q \in Seq(Message) : \A m : Len(Append(q, m)) = Len(q) + 1
      OBVIOUS
    <2>3. \A m : Len(Append(inbox[c], m)) = Len(inbox[c]) + 1
      BY <1>1, <2>2
    <2> QED
      BY <2>1, <2>3
  <1>4. ASSUME NEW d \in Clients, NEW command, NEW tree, NEW body, Send(d, command, tree, body)
        PROVE  FALSE
    <2> DEFINE m == [mid |-> client[d].next_id, command |-> command, tree |-> tree, body |-> body]
    <2>1. inbox' = [inbox EXCEPT ![d] = Append(@, m)]
      BY <1>4 DEF Send
    <2> HIDE DEF m
    <2>2. inbox'[c] = IF c = d THEN Append(inbox[c], m) ELSE inbox[c]
      BY <1>1, <2>1
    <2> QED
      BY <1>2, <1>3, <2>2
  <1>5. ASSUME NEW d \in Clients, inbox' = [inbox EXCEPT ![d] = Tail(@)] PROVE d = c
    BY <1>1, <1>2, <1>5
  <1>6. Head(inbox[c]).command \notin Negotiation \cup {"SESSION_SETUP"}
    BY DEF NoTreeCommands, Negotiation
  <1>7. ASSUME NEW d \in Clients, Cancel(d) PROVE FALSE
    <2>1. PICK r \in client[d].asked :
            inbox' = [inbox EXCEPT
              ![d] = Append(@, [mid |-> r.mid, command |-> "CANCEL", tree |-> r.tree, body |-> ""])]
      BY <1>7 DEF Cancel
    <2> DEFINE m == [mid |-> r.mid, command |-> "CANCEL", tree |-> r.tree, body |-> ""]
    <2>2. inbox' = [inbox EXCEPT ![d] = Append(@, m)]
      BY <2>1
    <2> HIDE DEF m
    <2>3. inbox'[c] = IF c = d THEN Append(inbox[c], m) ELSE inbox[c]
      BY <1>1, <2>2
    <2> QED
      BY <1>2, <1>3, <2>3
  <1>8. ASSUME NEW d \in Clients, Service(d)
        PROVE  CurrentTree(context'[c]) = Head(inbox[c]).tree
    <2>1. CASE Misread(d)
      <3>1. d = c
        BY <1>5, <2>1 DEF Misread
      <3>2. TakesRequest(c) /\ Becomes(c, {smb2_close_context(context[c])}, context[c].pdu)
        BY <2>1, <3>1 DEF Misread, TakesRequest
      <3>3. HasBecome(context'[c], {smb2_close_context(context[c])}, context[c].pdu)
        BY <3>2, BecomesIs
      <3>4. context'[c] = [smb2_close_context(context[c]) EXCEPT !.pdu = context[c].pdu]
        BY <3>3 DEF HasBecome
      <3>5. context[c] \in Context
        BY DEF Invariant, OneClient, Typed
      <3>6. context'[c].fd = "closed"
        BY <3>4, <3>5 DEF smb2_close_context, Context
      <3> QED
        BY <3>6
    <2>2. CASE NegotiateRequest(d)
      <3>1. d = c
        BY <1>5, <2>2 DEF NegotiateRequest, Request
      <3> QED
        BY <1>6, <2>2, <3>1, RequestIs DEF NegotiateRequest
    <2>3. CASE SessionSetupRequest(d)
      <3>1. d = c
        BY <1>5, <2>3 DEF SessionSetupRequest, Request
      <3> QED
        BY <1>6, <2>3, <3>1, RequestIs DEF SessionSetupRequest
    <2>4. CASE GeneralRequest(d)
      <3>1. d = c
        BY <1>5, <2>4 DEF GeneralRequest, Request
      <3> QED
        BY <2>4, <3>1, HandledOnItsTree
    <2>5. CASE ReadAgain(d) \/ WriteOut(d)
      BY <1>2, <2>5 DEF ReadAgain, WriteOut
    <2> QED
      BY <1>8, <2>1, <2>2, <2>3, <2>4, <2>5 DEF Service
  <1>9. CASE UNCHANGED vars
    BY <1>2, <1>9 DEF vars
  <1>10. CASE Serve \/ AcceptFails
    BY <1>2, <1>8, <1>10 DEF Serve, AcceptFails, Select, Accept, Cull
  <1>11. ASSUME NEW d \in Clients,
                ReplyLater(d) \/ Connect(d) \/ LogIn(d) \/ Use(d) \/ Cancel(d) \/ Receive(d) \/ Leave(d)
         PROVE  FALSE
    <2>1. CASE ReplyLater(d) \/ Connect(d) \/ Receive(d) \/ Leave(d)
      BY <1>2, <2>1 DEF ReplyLater, Connect, Receive, Leave
    <2>2. CASE LogIn(d)
      BY <1>4, <1>11, <2>2 DEF LogIn
    <2>3. CASE Use(d)
      BY <1>4, <1>11, <2>3 DEF Use
    <2> QED
      BY <1>7, <1>11, <2>1, <2>2, <2>3
  <1> QED
    BY <1>9, <1>10, <1>11 DEF Next

(* OnItsTree for every value of the constants: while a command on a tree   *)
(* is handled, smb2_decode_header has made that tree the current one,      *)
(* whatever requests before it have done to the stack of trees.            *)
THEOREM AlwaysOnItsTree == Spec => OnItsTree
  <1>1. Invariant /\ [Next]_vars => [TreesAreTheirs]_vars
    BY StepsOnItsTree
  <1>2. Spec => [][TreesAreTheirs]_vars
    BY <1>1, ServerInvariant, PTL DEF Spec
  <1> QED
    BY <1>2 DEF OnItsTree, TreesAreTheirs
=============================================================================

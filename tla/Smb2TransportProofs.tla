------------------------ MODULE Smb2TransportProofs ------------------------
(***************************************************************************)
(* Theorems of Smb2Transport for any calls, any charges of their PDUs, any *)
(* MAX_CREDITS and any mischief.                                           *)
(***************************************************************************)
EXTENDS Smb2Transport, SequenceTheorems, WellFoundedInduction, TLAPS

(* The PDU whose reply is being read, what the server has or is about to   *)
(* have, and what waits to be written.                                     *)
Reading  == {pdu} \ {NoPdu, BreakPdu}
AtServer == ({toServer[i] : i \in DOMAIN toServer} \ {Garbage}) \cup {r.request : r \in serving}
Queued   == UNION {Members(outqueue[i]) : i \in DOMAIN outqueue}
Gone     == waitqueue \cup Reading \cup AtServer
Flight   == Queued \cup Gone

(* The PDU before p in its chain, and how many calls have left the         *)
(* outqueue.                                                               *)
Pred(p) == <<p.call, p.part - 1>>
Sent    == next_call - 1 - Len(outqueue)

Statuses == {"reply", "IO_TIMEOUT", "SHUTDOWN"}
Replies  == [mid : Nat \cup {NoId}, status : {"done", "PENDING"}, grant : Nat]

(* A callback has run at most once; a reply is being read only while there *)
(* is one; and credits are a number.                                       *)
Types ==
    /\ TypeOK
    /\ credits \in Nat /\ message_id \in Nat
    /\ next_call \in 1 .. Len(Calls) + 1 /\ (next_call > 1 => message_id > 0)
    /\ answers \in [Pdus -> {<<>>} \cup {<<s>> : s \in Statuses}]
    /\ toServer \in Seq(PduRecords \cup {Garbage})
    /\ serving \in SUBSET [request : PduRecords, pended : BOOLEAN]
    /\ toClient \in Seq(Replies)
    /\ recv_state # "SPL" => toClient # <<>>

(* The outqueue holds the chains of the last calls, whole and in their     *)
(* order; what has left it belongs to the calls before.                    *)
InChain(ch, c) ==
    /\ DOMAIN ch = DOMAIN Charges[c]
    /\ \A j \in DOMAIN ch :
         /\ ch[j].call = c /\ ch[j].part = j
         /\ j > 1 => ch[j].prev # 0 /\ ch[j].prev = ch[j - 1].mid

InOrder ==
    /\ Len(outqueue) < next_call
    /\ \A i \in DOMAIN outqueue : InChain(outqueue[i], Calls[Sent + i])
    /\ \A p \in Gone : \E a \in 1 .. Sent : p.call = Calls[a] /\ p.part \in DOMAIN Charges[p.call]

(* Ids in flight: the ranges that PDUs take never meet, and all are below  *)
(* the next one.                                                           *)
Below(p, q) == p.mid + IdsOf(p.charge) <= q.mid
Apart(p, q) == p = q \/ (Id(p) # Id(q) /\ (Below(p, q) \/ Below(q, p)))
FlightApart ==
    /\ \A p, q \in Flight : Apart(p, q)
    /\ \A p \in Flight : p.mid + IdsOf(p.charge) <= message_id

(* What is queued, waits or is being read, and every call to come, has not *)
(* been told anything.                                                     *)
Silent ==
    /\ \A p \in Queued \cup waitqueue \cup Reading : answers[Id(p)] = <<>>
    /\ pdu \notin waitqueue
    /\ \A x \in Pdus : (\E a \in next_call .. Len(Calls) : x[1] = Calls[a]) => answers[x] = <<>>

(* A reply on its way is of an id given out, and if it is a real one then  *)
(* the server has answered the request that has that id.                   *)
RepliesKnown ==
    \A i \in DOMAIN toClient :
        /\ toClient[i].mid < message_id
        /\ toClient[i].status = "done" =>
              \A p \in Flight : p.mid = toClient[i].mid => Id(p) \in replied

(* The reply being read is a reply to that PDU, and its turn has come.     *)
ReadIsTrue ==
    \A p \in Reading : Id(p) \in replied /\ (p.part > 1 => answers[Pred(p)] # <<>>)

(* The one before a PDU that waits has been told, waits too or is being    *)
(* read.                                                                   *)
Preceded ==
    \A p \in waitqueue : p.part > 1 =>
        /\ p.prev # 0
        /\ \/ answers[Pred(p)] # <<>>
           \/ \E q \in waitqueue \cup Reading : Id(q) = Pred(p) /\ q.mid = p.prev

(* Whoever is owed a callback has had it, or would be told now.            *)
Tracked ==
    /\ \A p \in AtServer : answers[Id(p)] # <<>> \/ Id(p) \in Told
    /\ \A x \in Pdus : (x \in replied \/ x[2] = 1) /\ (\E i \in 1..(next_call - 1) : Calls[i] = x[1])
                       => answers[x] # <<>> \/ x \in Told
    /\ \A x \in replied : \E i \in 1..(next_call - 1) : Calls[i] = x[1]

Ended == context = "destroyed" => outqueue = <<>> /\ waitqueue = {} /\ pdu = NoPdu

IInv ==
    /\ Types /\ InOrder /\ FlightApart /\ Silent /\ RepliesKnown /\ ReadIsTrue
    /\ Preceded /\ Tracked /\ Ended /\ RepliesAreTrue /\ ChainInOrder

-----------------------------------------------------------------------------
(* Sums.                                                                   *)

(* A set of numbers that is not empty has a least member: what proofs by   *)
(* induction rest on here.                                                 *)
LEMMA LeastNumber ==
  ASSUME NEW T \in SUBSET Nat, T # {}
  PROVE  \E n \in T : \A m \in T : n <= m
<1> DEFINE R == OpToRel(<, Nat)
<1>1. IsWellFoundedOn(R, Nat)
  BY NatLessThanWellFounded
<1> HIDE DEF R
<1>2. PICK n \in T : \A m \in T : ~ (<<m, n>> \in R)
  BY <1>1, WFMin
<1>3. \A m \in Nat : m < n => <<m, n>> \in R
  BY DEF R, OpToRel
<1>4. \A m \in T : m \in Nat /\ n \in Nat /\ ~ (m < n)
  BY <1>2, <1>3
<1>5. \A m \in T : n <= m
  BY <1>4
<1> QED BY <1>5

(* The recursive function of Sums exists, hence satisfies its equation.    *)
LEMMA SumsAre ==
  ASSUME NEW s \in Seq(Nat)
  PROVE  Sums(s) = [j \in 0..Len(s) |-> IF j = 0 THEN 0 ELSE Sums(s)[j - 1] + s[j]]
<1> DEFINE Are(f, n) == f = [j \in 0..n |-> IF j = 0 THEN 0 ELSE f[j - 1] + s[j]]
           T == {n \in 0..Len(s) : ~ \E f : Are(f, n)}
<1>1. T = {}
  <2> SUFFICES ASSUME T # {} PROVE FALSE
    OBVIOUS
  <2>1. T \in SUBSET Nat
    OBVIOUS
  <2> HIDE DEF T
  <2>2. PICK n \in T : \A m \in T : n <= m
    BY <2>1, LeastNumber
  <2> USE DEF T
  <2>3. CASE n = 0
    <3>1. Are([j \in 0..0 |-> 0], 0)
      OBVIOUS
    <3> QED BY <2>3, <3>1
  <2>4. CASE n # 0
    <3>1. n - 1 \in 0..Len(s) /\ n \in 0..Len(s) /\ n - 1 \notin T
      <4>1. n \in 0..Len(s) /\ Len(s) \in Nat
        OBVIOUS
      <4> HIDE DEF T
      <4> QED BY <4>1, <2>2, <2>4
    <3>2. PICK f : Are(f, n - 1)
      BY <3>1
    <3> DEFINE g == [j \in 0..n |-> IF j = n THEN f[n - 1] + s[n] ELSE f[j]]
    <3>3. Are(g, n)
      BY <3>1, <3>2, <2>4
    <3> QED BY <3>3
  <2> QED BY <2>3, <2>4
<1>2. \E f : Are(f, Len(s))
  BY <1>1
<1> QED BY <1>2 DEF Sums

(* Sums are numbers and grow.                                              *)
LEMMA SumsGrow ==
  ASSUME NEW s \in Seq(Nat), NEW k \in 0..Len(s)
  PROVE  /\ Sums(s)[k] \in Nat
         /\ \A j \in 0..k : Sums(s)[j] <= Sums(s)[k]
         /\ k > 0 => Sums(s)[k] = Sums(s)[k - 1] + s[k]
         /\ Sums(s)[0] = 0
<1> DEFINE S == Sums(s)
           Good(n) == S[n] \in Nat /\ \A j \in 0..n : S[j] <= S[n]
           T == {n \in 0..Len(s) : ~ Good(n)}
<1>1. Len(s) \in Nat /\ \A n \in 1..Len(s) : s[n] \in Nat
  OBVIOUS
<1>2. S = [j \in 0..Len(s) |-> IF j = 0 THEN 0 ELSE S[j - 1] + s[j]]
  BY SumsAre
<1> HIDE DEF S
<1>3. S[0] = 0 /\ \A n \in 1..Len(s) : S[n] = S[n - 1] + s[n]
  BY <1>1, <1>2
<1>4. T = {}
  <2> SUFFICES ASSUME T # {} PROVE FALSE
    OBVIOUS
  <2>1. T \in SUBSET Nat
    BY <1>1
  <2> HIDE DEF T
  <2>2. PICK n \in T : \A m \in T : n <= m
    BY <2>1, LeastNumber
  <2>3. n \in 0..Len(s) /\ ~ Good(n)
    BY <2>2 DEF T
  <2>4. CASE n = 0
    BY <1>3, <2>3, <2>4
  <2>5. CASE n # 0
    <3>1. n \in 1..Len(s) /\ n - 1 \in 0..Len(s) /\ n - 1 \notin T
      BY <1>1, <2>2, <2>3, <2>5
    <3>2. Good(n - 1)
      BY <3>1 DEF T
    <3>3. S[n] = S[n - 1] + s[n] /\ s[n] \in Nat
      BY <1>1, <1>3, <3>1
    <3>4. S[n] \in Nat /\ S[n - 1] <= S[n] /\ S[n - 1] \in Nat
      BY <3>2, <3>3
    <3>5. ASSUME NEW j \in 0..n PROVE S[j] <= S[n]
      <4>1. CASE j = n
        BY <4>1, <3>4
      <4>2. CASE j # n
        <5>1. j \in 0..n - 1
          BY <4>2, <3>1
        <5>2. S[j] <= S[n - 1] /\ (j > 0 \/ j = 0)
          BY <5>1, <3>2
        <5>3. n - 1 \notin T /\ j <= n - 1 /\ j \in 0..Len(s)
          BY <3>1, <5>1
        <5>4. j \notin T
          BY <5>3, <2>2, <3>1
        <5>5. S[j] \in Nat
          BY <5>3, <5>4 DEF T
        <5> QED BY <5>2, <5>5, <3>4
      <4> QED BY <4>1, <4>2
    <3> QED BY <3>4, <3>5, <2>3
  <2> QED BY <2>4, <2>5
<1>5. Good(k)
  BY <1>4
<1> QED BY <1>1, <1>3, <1>5 DEF S

-----------------------------------------------------------------------------
(* Calls, chains and where PDUs are.                                       *)

Names == {Calls[i] : i \in DOMAIN Calls}

LEMMA CallFacts ==
  /\ Len(Calls) \in Nat /\ Len(Calls) > 0 /\ DOMAIN Calls = 1 .. Len(Calls)
  /\ \A c \in Names : /\ Charges[c] \in Seq(Nat) /\ Len(Charges[c]) \in Nat \ {0}
                      /\ DOMAIN Charges[c] = 1 .. Len(Charges[c])
                      /\ \A j \in DOMAIN Charges[c] : Charges[c][j] \in Nat
  /\ \A a, b \in 1 .. Len(Calls) : Calls[a] = Calls[b] => a = b
  /\ Len(Charges[Calls[1]]) = 1 /\ Calls[1] \in Names
<1>1. Len(Calls) \in Nat /\ Len(Calls) > 0 /\ DOMAIN Calls = 1 .. Len(Calls)
  BY CallsAssumption
<1>2. ASSUME NEW c \in Names
      PROVE  /\ Charges[c] \in Seq(Nat) /\ Len(Charges[c]) \in Nat \ {0}
             /\ DOMAIN Charges[c] = 1 .. Len(Charges[c])
             /\ \A j \in DOMAIN Charges[c] : Charges[c][j] \in Nat
  <2>1. Charges[c] \in Seq(Nat) /\ Charges[c] # << >>
    BY ChargesAssumption DEF Names
  <2> QED BY <2>1
<1>3. \A a, b \in 1 .. Len(Calls) : Calls[a] = Calls[b] => a = b
  BY <1>1, CallsAssumption
<1>4. Len(Charges[Calls[1]]) = 1 /\ 1 \in DOMAIN Calls
  BY <1>1, ChargesAssumption
<1>5. Calls[1] \in Names
  BY <1>4 DEF Names
<1> HIDE DEF Names
<1> QED BY <1>1, <1>2, <1>3, <1>4, <1>5

LEMMA PdusAre ==
  /\ \A c \in Names : \A j \in DOMAIN Charges[c] : <<c, j>> \in Pdus
  /\ \A x \in Pdus : \E i \in DOMAIN Calls : \E j \in DOMAIN Charges[Calls[i]] : x = <<Calls[i], j>>
BY DEF Pdus, Names

LEMMA IdsFacts ==
  /\ \A n \in Nat : IdsOf(n) \in Nat /\ IdsOf(n) > 0 /\ n <= IdsOf(n)
  /\ \A c \in Names : /\ IdsIn(c) \in Seq(Nat) /\ Len(IdsIn(c)) = Len(Charges[c])
                      /\ \A j \in DOMAIN Charges[c] : IdsIn(c)[j] = IdsOf(Charges[c][j])
<1>1. \A n \in Nat : IdsOf(n) \in Nat /\ IdsOf(n) > 0 /\ n <= IdsOf(n)
  BY DEF IdsOf
<1>2. ASSUME NEW c \in Names
      PROVE  /\ IdsIn(c) \in Seq(Nat) /\ Len(IdsIn(c)) = Len(Charges[c])
             /\ \A j \in DOMAIN Charges[c] : IdsIn(c)[j] = IdsOf(Charges[c][j])
  <2>1. /\ Len(Charges[c]) \in Nat /\ DOMAIN Charges[c] = 1 .. Len(Charges[c])
        /\ \A j \in DOMAIN Charges[c] : Charges[c][j] \in Nat
    BY CallFacts
  <2>2. \A j \in DOMAIN Charges[c] : IdsOf(Charges[c][j]) \in Nat
    BY <1>1, <2>1
  <2> QED BY <2>1, <2>2 DEF IdsIn
<1> QED BY <1>1, <1>2

(* The PDUs of a new chain take the ids from message_id on, one range      *)
(* after the other, up to the next message_id.                             *)
LEMMA NewChain ==
  ASSUME Types, NEW c \in Names, message_id > 0 \/ Len(Charges[c]) = 1
  PROVE  /\ ChainOf(c) \in Seq(PduRecords) /\ ChainOf(c) # << >> /\ InChain(ChainOf(c), c)
         /\ SumSeq(IdsIn(c)) \in Nat /\ SumSeq(IdsIn(c)) > 0
         /\ \A p \in Members(ChainOf(c)) :
              /\ message_id <= p.mid
              /\ p.mid + IdsOf(p.charge) <= message_id + SumSeq(IdsIn(c))
         /\ \A p, q \in Members(ChainOf(c)) : Apart(p, q)
<1> DEFINE n == Len(Charges[c])
           S == Sums(IdsIn(c))
           w(j) == IdsOf(Charges[c][j])
           ch == ChainOf(c)
<1>1. /\ n \in Nat \ {0} /\ DOMAIN Charges[c] = 1 .. n /\ message_id \in Nat
      /\ \A j \in 1 .. n : Charges[c][j] \in Nat /\ w(j) \in Nat /\ w(j) > 0
  BY CallFacts, IdsFacts DEF Types
<1>2. /\ \A k \in 0 .. n : S[k] \in Nat /\ \A j \in 0 .. k : S[j] <= S[k]
      /\ \A k \in 1 .. n : S[k] = S[k - 1] + w(k)
      /\ S[0] = 0
  <2>1. IdsIn(c) \in Seq(Nat) /\ Len(IdsIn(c)) = n /\ \A k \in 1 .. n : IdsIn(c)[k] = w(k)
    BY <1>1, IdsFacts
  <2> HIDE DEF w, S, n
  <2>2. \A k \in 0 .. n : /\ S[k] \in Nat
                          /\ \A j \in 0 .. k : S[j] <= S[k]
                          /\ k > 0 => S[k] = S[k - 1] + IdsIn(c)[k]
                          /\ S[0] = 0
    BY <2>1, SumsGrow DEF S
  <2> QED BY <1>1, <2>1, <2>2
<1>3. SumSeq(IdsIn(c)) = S[n]
  BY IdsFacts DEF SumSeq
<1>4. Ask \in Nat
  BY CreditsAssumption DEF Ask, Types
<1>5. /\ DOMAIN ch = 1 .. n
      /\ \A j \in 1 .. n :
           ch[j] = [call |-> c, part |-> j, mid |-> message_id + S[j - 1],
                    charge |-> Charges[c][j], ask |-> Ask,
                    prev |-> IF j = 1 THEN 0 ELSE message_id + S[j - 2]]
  <2>1. \A j \in 1 .. n : j - 1 - 1 = j - 2
    BY <1>1
  <2> QED BY <1>1, <2>1 DEF ChainOf, MidOf
<1> HIDE DEF n, S, w, ch
<1>6. \A j \in 1 .. n :
        /\ ch[j].call = c /\ ch[j].part = j /\ ch[j].mid = message_id + S[j - 1]
        /\ ch[j].charge = Charges[c][j]
        /\ ch[j].prev = IF j = 1 THEN 0 ELSE message_id + S[j - 2]
  BY <1>5
<1>7. ASSUME NEW j \in 1 .. n
      PROVE  /\ j - 1 \in 0 .. n /\ (j > 1 => j - 2 \in 0 .. n /\ j - 1 \in 1 .. n)
             /\ S[j - 1] \in Nat /\ S[j] \in Nat /\ S[j] <= S[n]
             /\ ch[j].mid + IdsOf(ch[j].charge) = message_id + S[j]
  <2>1. j - 1 \in 0 .. n /\ (j > 1 => j - 2 \in 0 .. n /\ j - 1 \in 1 .. n) /\ j \in 0 .. n /\ n \in 0 .. n
    BY <1>1
  <2>2. S[j - 1] \in Nat /\ S[j] \in Nat /\ S[j] <= S[n] /\ S[j] = S[j - 1] + w(j)
    BY <2>1, <1>2
  <2>3. w(j) = IdsOf(ch[j].charge) /\ w(j) \in Nat
    BY <1>1, <1>6 DEF w
  <2> QED BY <1>1, <1>6, <2>1, <2>2, <2>3
<1>8. ch \in Seq(PduRecords) /\ ch # << >>
  <2>1. ASSUME NEW j \in 1 .. n PROVE ch[j] \in PduRecords
    <3>1. c \in {Calls[i] : i \in DOMAIN Calls} /\ j \in Nat /\ Charges[c][j] \in Nat
      BY <1>1 DEF Names
    <3>2. message_id + S[j - 1] \in Nat
      BY <1>1, <1>7
    <3>3. (IF j = 1 THEN 0 ELSE message_id + S[j - 2]) \in Nat
      <4>1. j # 1 => j > 1 /\ S[j - 2] \in Nat
        BY <1>1, <1>2, <1>7
      <4> QED BY <1>1, <4>1
    <3> QED BY <3>1, <3>2, <3>3, <1>4, <1>5 DEF PduRecords
  <2>2. ch = [j \in 1 .. n |-> ch[j]]
    BY <1>5 DEF ch, ChainOf
  <2> QED BY <1>1, <2>1, <2>2
<1>9. InChain(ch, c)
  <2>1. DOMAIN ch = DOMAIN Charges[c]
    BY <1>1, <1>5
  <2>2. ASSUME NEW j \in DOMAIN ch, j > 1 PROVE ch[j].prev # 0 /\ ch[j].prev = ch[j - 1].mid
    <3>1. j \in 1 .. n /\ j - 1 \in 1 .. n /\ j - 1 - 1 = j - 2 /\ j # 1 /\ n # 1
      BY <1>1, <1>5, <2>2
    <3>2. ch[j].prev = message_id + S[j - 2] /\ ch[j - 1].mid = message_id + S[j - 2]
      BY <3>1, <1>6
    <3>3. S[j - 2] \in Nat /\ message_id > 0
      BY <3>1, <1>2, <1>7, <2>2 DEF n
    <3> QED BY <3>2, <3>3, <1>1
  <2> QED BY <2>1, <2>2, <1>5, <1>6 DEF InChain
<1>10. S[n] \in Nat /\ S[n] > 0
  <2>1. 1 \in 1 .. n /\ S[1] = S[0] + w(1) /\ w(1) > 0 /\ w(1) \in Nat /\ S[0] = 0
    BY <1>1, <1>2
  <2>2. S[1] <= S[n] /\ S[n] \in Nat
    BY <1>1, <1>2, <2>1
  <2> QED BY <2>1, <2>2
<1>11. \A p \in Members(ch) : \E j \in 1 .. n : p = ch[j]
  BY <1>5 DEF Members
<1>12. ASSUME NEW p \in Members(ch)
       PROVE  message_id <= p.mid /\ p.mid + IdsOf(p.charge) <= message_id + S[n]
  <2>1. PICK j \in 1 .. n : p = ch[j]
    BY <1>11
  <2>2. p.mid = message_id + S[j - 1] /\ S[j - 1] \in Nat /\ S[j] \in Nat /\ S[j] <= S[n]
        /\ p.mid + IdsOf(p.charge) = message_id + S[j]
    BY <2>1, <1>6, <1>7
  <2> QED BY <2>2, <1>1, <1>10
<1>13. ASSUME NEW i \in 1 .. n, NEW j \in 1 .. n, i < j PROVE Below(ch[i], ch[j])
  <2>1. i \in 0 .. j - 1 /\ j - 1 \in 0 .. n
    BY <1>1, <1>13
  <2>2. S[i] <= S[j - 1] /\ S[i] \in Nat /\ S[j - 1] \in Nat
    BY <2>1, <1>2, <1>7
  <2>3. ch[i].mid + IdsOf(ch[i].charge) = message_id + S[i] /\ ch[j].mid = message_id + S[j - 1]
    BY <1>6, <1>7
  <2> QED BY <2>2, <2>3, <1>1 DEF Below
<1>14. ASSUME NEW p \in Members(ch), NEW q \in Members(ch) PROVE Apart(p, q)
  <2>1. PICK i \in 1 .. n : p = ch[i]
    BY <1>11
  <2>2. PICK j \in 1 .. n : q = ch[j]
    BY <1>11
  <2>3. CASE i = j
    BY <2>1, <2>2, <2>3 DEF Apart
  <2>4. CASE i # j
    <3>1. (i < j \/ j < i) /\ Id(p) # Id(q)
      BY <2>1, <2>2, <2>4, <1>1, <1>6 DEF Id
    <3> QED BY <3>1, <1>13, <2>1, <2>2 DEF Apart
  <2> QED BY <2>3, <2>4
<1> QED BY <1>3, <1>8, <1>9, <1>10, <1>12, <1>14 DEF ch

(* Where a PDU in flight belongs.                                          *)
LEMMA Places ==
  ASSUME Types, InOrder
  PROVE  /\ Len(outqueue) \in Nat /\ Sent \in Nat /\ next_call - 1 \in 0 .. Len(Calls)
         /\ DOMAIN outqueue = 1 .. Len(outqueue)
         /\ \A i \in DOMAIN outqueue : /\ Sent + i \in Sent + 1 .. next_call - 1
                                       /\ Calls[Sent + i] \in Names
                                       /\ outqueue[i] \in Seq(PduRecords) /\ outqueue[i] # << >>
         /\ \A p \in Queued : \E i \in DOMAIN outqueue : \E j \in DOMAIN outqueue[i] :
               /\ p = outqueue[i][j] /\ p.call = Calls[Sent + i] /\ p.part = j
         /\ \A p \in Flight : /\ p \in PduRecords /\ p.call \in Names /\ Id(p) \in Pdus
                              /\ p.part \in DOMAIN Charges[p.call]
                              /\ \E a \in 1 .. next_call - 1 : p.call = Calls[a]
         /\ \A p \in Queued, q \in Gone : p.call # q.call
<1>1. /\ next_call \in Nat /\ next_call - 1 \in 0 .. Len(Calls) /\ Len(Calls) \in Nat
      /\ DOMAIN Calls = 1 .. Len(Calls)
  BY CallFacts DEF Types
<1>2. /\ outqueue \in Seq(Seq(PduRecords)) /\ Len(outqueue) \in Nat /\ Len(outqueue) < next_call
      /\ DOMAIN outqueue = 1 .. Len(outqueue)
  BY DEF Types, TypeOK, InOrder
<1>3. Sent \in Nat /\ Sent <= next_call - 1 /\ Sent + Len(outqueue) = next_call - 1
  BY <1>1, <1>2 DEF Sent
<1>4. \A a \in 1 .. next_call - 1 : a \in 1 .. Len(Calls) /\ Calls[a] \in Names
  BY <1>1 DEF Names
<1>5. ASSUME NEW i \in DOMAIN outqueue
      PROVE  /\ Sent + i \in Sent + 1 .. next_call - 1 /\ Sent + i \in 1 .. next_call - 1
             /\ Calls[Sent + i] \in Names
             /\ outqueue[i] \in Seq(PduRecords) /\ outqueue[i] # << >>
             /\ InChain(outqueue[i], Calls[Sent + i])
  <2>1. Sent + i \in Sent + 1 .. next_call - 1 /\ Sent + i \in 1 .. next_call - 1
    BY <1>1, <1>2, <1>3
  <2>2. Calls[Sent + i] \in Names
    BY <2>1, <1>4
  <2>3. outqueue[i] \in Seq(PduRecords)
    BY <1>2
  <2>4. InChain(outqueue[i], Calls[Sent + i])
    BY DEF InOrder
  <2>5. 1 \in DOMAIN outqueue[i]
    BY <2>2, <2>4, CallFacts DEF InChain
  <2> QED BY <2>1, <2>2, <2>3, <2>4, <2>5
<1>6. ASSUME NEW p \in Queued
      PROVE  \E i \in DOMAIN outqueue : \E j \in DOMAIN outqueue[i] :
                /\ p = outqueue[i][j] /\ p.call = Calls[Sent + i] /\ p.part = j
                /\ p \in PduRecords /\ j \in DOMAIN Charges[p.call]
  <2>1. PICK i \in DOMAIN outqueue : p \in Members(outqueue[i])
    BY DEF Queued
  <2>2. PICK j \in DOMAIN outqueue[i] : p = outqueue[i][j]
    BY <2>1 DEF Members
  <2>3. outqueue[i] \in Seq(PduRecords) /\ InChain(outqueue[i], Calls[Sent + i])
    BY <1>5
  <2>4. p \in PduRecords
    BY <2>2, <2>3
  <2> QED BY <2>2, <2>3, <2>4 DEF InChain
<1>7. ASSUME NEW p \in Gone
      PROVE  /\ p \in PduRecords
             /\ \E a \in 1 .. Sent : p.call = Calls[a] /\ p.part \in DOMAIN Charges[p.call]
  <2>1. p \in PduRecords
    <3>1. CASE p \in waitqueue
      BY <3>1 DEF Types, TypeOK
    <3>2. CASE p \in Reading
      BY <3>2 DEF Types, TypeOK, Reading
    <3>3. CASE p \in AtServer
      BY <3>3 DEF Types, AtServer
    <3> QED BY <3>1, <3>2, <3>3 DEF Gone
  <2> QED BY <2>1 DEF InOrder
<1>8. ASSUME NEW p \in Flight
      PROVE  /\ p \in PduRecords /\ p.call \in Names /\ Id(p) \in Pdus
             /\ p.part \in DOMAIN Charges[p.call]
             /\ \E a \in 1 .. next_call - 1 : p.call = Calls[a]
  <2>1. /\ p \in PduRecords /\ p.part \in DOMAIN Charges[p.call]
        /\ \E a \in 1 .. next_call - 1 : p.call = Calls[a]
    <3>1. CASE p \in Queued
      BY <3>1, <1>5, <1>6
    <3>2. CASE p \in Gone
      BY <3>2, <1>1, <1>3, <1>7
    <3> QED BY <3>1, <3>2 DEF Flight
  <2>2. p.call \in Names
    BY <2>1, <1>4
  <2> QED BY <2>1, <2>2, PdusAre DEF Id
<1>9. ASSUME NEW p \in Queued, NEW q \in Gone PROVE p.call # q.call
  <2>1. PICK i \in DOMAIN outqueue : p.call = Calls[Sent + i]
    BY <1>6
  <2>2. PICK a \in 1 .. Sent : q.call = Calls[a]
    BY <1>7
  <2>3. Sent + i \in 1 .. Len(Calls) /\ a \in 1 .. Len(Calls) /\ Sent + i # a
    BY <1>1, <1>3, <1>5
  <2> QED BY <2>1, <2>2, <2>3, CallFacts
<1> QED BY <1>1, <1>2, <1>3, <1>5, <1>6, <1>8, <1>9

(* What a reply has to do with those it may be for.                        *)
LEMMA RepliesAre ==
  ASSUME Types
  PROVE  /\ DOMAIN toClient = 1 .. Len(toClient) /\ Len(toClient) \in Nat
         /\ \A i \in DOMAIN toClient : toClient[i] \in Replies
         /\ toClient # << >> => Head(toClient) = toClient[1] /\ 1 \in DOMAIN toClient
BY DEF Types

THEOREM InitIInv == Init => IInv
<1> SUFFICES ASSUME Init PROVE IInv
  OBVIOUS
<1> USE DEF Init
<1>1. Queued = {} /\ Reading = {} /\ AtServer = {} /\ Gone = {} /\ Flight = {}
  BY DEF Queued, Reading, AtServer, Gone, Flight
<1>2. Types
  <2>1. TypeOK
    BY DEF TypeOK
  <2>2. next_call \in 1 .. Len(Calls) + 1
    BY CallFacts
  <2> QED BY <2>1, <2>2 DEF Types
<1>3. InOrder
  BY <1>1 DEF InOrder
<1>4. Silent
  BY <1>1 DEF Silent
<1>5. Tracked
  BY <1>1 DEF Tracked
<1> QED BY <1>1, <1>2, <1>3, <1>4, <1>5
        DEF IInv, FlightApart, RepliesKnown, ReadIsTrue, Preceded, Ended, RepliesAreTrue, ChainInOrder

-----------------------------------------------------------------------------
(* Steps that leave the queues and the callbacks alone.                    *)

LEMMA SameQueues ==
  ASSUME IInv, Types', UNCHANGED <<outqueue, waitqueue, answers, message_id, next_call>>,
         Reading' = Reading, Told \cap Pdus \subseteq Told', pdu' \notin waitqueue,
         \A p \in AtServer' : p \in AtServer,
         replied \subseteq replied',
         \A x \in replied' \ replied : \E p \in AtServer : x = Id(p)
  PROVE  /\ InOrder' /\ FlightApart' /\ Silent' /\ ReadIsTrue' /\ Preceded' /\ Tracked'
         /\ RepliesAreTrue' /\ ChainInOrder' /\ (\A p \in Flight' : p \in Flight)
<1> USE DEF IInv
<1>1. /\ Queued' = Queued /\ (\A p \in Gone' : p \in Gone) /\ (\A p \in Flight' : p \in Flight)
      /\ Sent' = Sent
  BY DEF Queued, Gone, Flight, Sent
<1>2. InOrder'
  BY <1>1 DEF InOrder
<1>3. FlightApart'
  BY <1>1 DEF FlightApart
<1>4. Silent'
  BY <1>1 DEF Silent
<1>5. ReadIsTrue'
  BY DEF ReadIsTrue
<1>6. Preceded'
  BY DEF Preceded
<1>7. Tracked'
  <2>1. \A p \in AtServer : /\ answers'[Id(p)] # << >> \/ Id(p) \in Told'
                            /\ \E i \in 1..(next_call - 1) : Calls[i] = Id(p)[1]
    <3>1. \A p \in AtServer : Id(p) \in Pdus /\ \E i \in 1..(next_call - 1) : Calls[i] = p.call
      BY Places DEF Flight, Gone
    <3> QED BY <3>1 DEF Tracked, Id
  <2>2. ASSUME NEW x \in Pdus, x \in replied' \/ x[2] = 1, \E i \in 1..(next_call' - 1) : Calls[i] = x[1]
        PROVE  answers'[x] # << >> \/ x \in Told'
    <3>1. CASE x \in replied' \ replied
      BY <3>1, <2>1
    <3>2. CASE x \in replied \/ x[2] = 1
      BY <3>2, <2>2 DEF Tracked
    <3> QED BY <3>1, <3>2, <2>2
  <2>3. \A x \in replied' : \E i \in 1..(next_call - 1) : Calls[i] = x[1]
    BY <2>1 DEF Tracked
  <2> QED BY <2>1, <2>2, <2>3 DEF Tracked
<1>8. RepliesAreTrue' /\ ChainInOrder'
  BY DEF RepliesAreTrue, ChainInOrder
<1> QED BY <1>1, <1>2, <1>3, <1>4, <1>5, <1>6, <1>7, <1>8

(* No new reply, no new PDU: replies stay known.                           *)
LEMMA SameReplies ==
  ASSUME IInv, message_id' = message_id, \A p \in Flight' : p \in Flight, replied \subseteq replied',
         \A i \in DOMAIN toClient' : \E k \in DOMAIN toClient : toClient'[i] = toClient[k]
  PROVE  RepliesKnown'
BY DEF IInv, RepliesKnown

(* One more reply: it is of a request of the server, or nobody's.          *)
LEMMA OneMoreReply ==
  ASSUME IInv, NEW r \in Replies, toClient' = Append(toClient, r),
         message_id' = message_id, \A p \in Flight' : p \in Flight, replied \subseteq replied',
         \/ r.mid = NoId
         \/ \E q \in AtServer : r.mid = q.mid /\ (r.status = "done" => Id(q) \in replied')
  PROVE  RepliesKnown' /\ toClient' \in Seq(Replies) /\ toClient' # << >>
<1>1. toClient \in Seq(Replies) /\ message_id \in Nat /\ Len(toClient) \in Nat
  BY DEF IInv, Types
<1>2. /\ toClient' \in Seq(Replies) /\ toClient' # << >> /\ DOMAIN toClient' = 1 .. Len(toClient) + 1
      /\ \A i \in 1 .. Len(toClient) : toClient'[i] = toClient[i] /\ i \in DOMAIN toClient
      /\ toClient'[Len(toClient) + 1] = r
  BY <1>1
<1>3. r.mid < message_id
  <2>1. CASE r.mid = NoId
    BY <2>1, <1>1 DEF NoId
  <2>2. CASE r.mid # NoId
    <3>1. PICK q \in AtServer : r.mid = q.mid
      BY <2>2
    <3>2. q \in Flight /\ q \in PduRecords
      BY Places DEF IInv, Flight, Gone
    <3>3. q.mid + IdsOf(q.charge) <= message_id /\ q.mid \in Nat /\ q.charge \in Nat
      BY <3>2 DEF IInv, FlightApart, PduRecords
    <3>4. IdsOf(q.charge) \in Nat /\ IdsOf(q.charge) > 0
      BY <3>3, IdsFacts
    <3> QED BY <1>1, <3>1, <3>3, <3>4
  <2> QED BY <2>1, <2>2
<1>4. ASSUME r.status = "done", NEW p \in Flight', p.mid = r.mid PROVE Id(p) \in replied'
  <2>1. p \in Flight /\ p \in PduRecords /\ p.mid \in Nat
    BY Places DEF IInv, PduRecords
  <2>2. r.mid # NoId
    BY <2>1, <1>4 DEF NoId
  <2>3. PICK q \in AtServer : r.mid = q.mid /\ Id(q) \in replied'
    BY <2>2, <1>4
  <2>4. q \in Flight /\ q \in PduRecords
    BY Places DEF IInv, Flight, Gone
  <2>5. Apart(p, q)
    BY <2>1, <2>4 DEF IInv, FlightApart
  <2>6. p = q
    <3>1. /\ p.mid = q.mid /\ p.mid \in Nat /\ IdsOf(p.charge) \in Nat /\ IdsOf(p.charge) > 0
          /\ IdsOf(q.charge) \in Nat /\ IdsOf(q.charge) > 0
      BY <1>4, <2>1, <2>3, <2>4, IdsFacts DEF PduRecords
    <3> QED BY <3>1, <2>5 DEF Apart, Below
  <2> QED BY <2>3, <2>6
<1>5. ASSUME NEW i \in DOMAIN toClient'
      PROVE  /\ toClient'[i].mid < message_id'
             /\ toClient'[i].status = "done" =>
                   \A p \in Flight' : p.mid = toClient'[i].mid => Id(p) \in replied'
  <2>1. CASE i \in 1 .. Len(toClient)
    BY <2>1, <1>2 DEF IInv, RepliesKnown
  <2>2. CASE i = Len(toClient) + 1
    BY <2>2, <1>2, <1>3, <1>4
  <2> QED BY <1>1, <1>2, <2>1, <2>2
<1> QED BY <1>2, <1>5 DEF RepliesKnown

LEMMA OneRequest ==
  ASSUME Types, NEW r \in serving
  PROVE  /\ r \in [request : PduRecords, pended : BOOLEAN] /\ r.request \in AtServer
         /\ \A status \in {"done", "PENDING"} : Reply(r.request, status) \in Replies
<1>1. r \in [request : PduRecords, pended : BOOLEAN] /\ r.request \in AtServer
  BY DEF Types, AtServer
<1>2. r.request.mid \in Nat /\ r.request.ask \in Nat
  BY <1>1 DEF PduRecords
<1>3. Grant(r.request.ask) \in Nat
  BY <1>2 DEF Grant
<1> QED BY <1>1, <1>2, <1>3 DEF Reply, Replies

LEMMA WritePartIInv ==
  ASSUME IInv, WritePart
  PROVE  IInv'
<1> USE DEF WritePart, queues, server
<1>1. Types'
  BY DEF IInv, Types, TypeOK, MayWrite
<1>2. Reading' = Reading /\ AtServer' = AtServer /\ Told' = Told /\ pdu' \notin waitqueue
  BY DEF Reading, AtServer, Told, Heads, Ids, IInv, Silent
<1>3. /\ InOrder' /\ FlightApart' /\ Silent' /\ ReadIsTrue' /\ Preceded' /\ Tracked'
      /\ RepliesAreTrue' /\ ChainInOrder' /\ (\A p \in Flight' : p \in Flight)
  BY <1>1, <1>2, SameQueues
<1>4. RepliesKnown'
  BY <1>3, SameReplies
<1>5. Ended'
  BY DEF IInv, Ended
<1> QED BY <1>1, <1>3, <1>4, <1>5 DEF IInv

LEMMA ReceiveIInv ==
  ASSUME IInv, Receive
  PROVE  IInv'
<1> USE DEF Receive, queues, server
<1> DEFINE p == Head(toServer)
<1>1. /\ toServer \in Seq(PduRecords \cup {Garbage}) /\ toServer # << >>
      /\ p = toServer[1] /\ 1 \in DOMAIN toServer
      /\ toServer' \in Seq(PduRecords \cup {Garbage})
      /\ \A i \in DOMAIN toServer' : i + 1 \in DOMAIN toServer /\ toServer'[i] = toServer[i + 1]
  BY DEF IInv, Types
<1> HIDE DEF p
<1>2. p # Garbage => p \in PduRecords /\ p \in AtServer
  BY <1>1 DEF AtServer
<1>3. Types'
  <2>1. serving' \in SUBSET [request : PduRecords, pended : BOOLEAN]
    <3>1. serving \in SUBSET [request : PduRecords, pended : BOOLEAN]
      BY DEF IInv, Types
    <3>2. p # Garbage => serving' = serving \cup {[request |-> p, pended |-> FALSE]}
      BY DEF p
    <3>3. p = Garbage => serving' = serving
      BY DEF p
    <3>4. p # Garbage => [request |-> p, pended |-> FALSE] \in [request : PduRecords, pended : BOOLEAN]
      BY <1>2
    <3> HIDE DEF Receive
    <3> QED BY <3>1, <3>2, <3>3, <3>4
  <2> QED BY <1>1, <2>1 DEF IInv, Types, TypeOK
<1>4. \A q \in AtServer' : q \in AtServer
  <2>1. ASSUME NEW i \in DOMAIN toServer', toServer'[i] # Garbage PROVE toServer'[i] \in AtServer
    BY <1>1, <2>1 DEF AtServer
  <2>2. ASSUME NEW r \in serving' PROVE r.request \in AtServer
    BY <1>2, <2>2 DEF AtServer, p
  <2> QED BY <2>1, <2>2 DEF AtServer
<1>5. Reading' = Reading /\ Told' = Told /\ pdu' \notin waitqueue
  BY DEF Reading, Told, Heads, Ids, IInv, Silent
<1>6. /\ InOrder' /\ FlightApart' /\ Silent' /\ ReadIsTrue' /\ Preceded' /\ Tracked'
      /\ RepliesAreTrue' /\ ChainInOrder' /\ (\A q \in Flight' : q \in Flight)
  BY <1>3, <1>4, <1>5, SameQueues
<1>7. RepliesKnown'
  BY <1>6, SameReplies
<1>8. Ended'
  BY DEF IInv, Ended
<1> QED BY <1>3, <1>6, <1>7, <1>8 DEF IInv

LEMMA AnswerIInv ==
  ASSUME IInv, NEW r \in serving, Answer(r)
  PROVE  IInv'
<1> USE DEF Answer, queues
<1>1. /\ r.request \in AtServer /\ Reply(r.request, "done") \in Replies
      /\ Reply(r.request, "done").mid = r.request.mid
  BY OneRequest DEF IInv, Reply
<1>2. /\ (\A p \in AtServer' : p \in AtServer) /\ Reading' = Reading /\ Told' = Told
      /\ pdu' \notin waitqueue
  BY DEF AtServer, Reading, Told, Heads, Ids, IInv, Silent
<1>3. toClient' \in Seq(Replies) /\ toClient' # << >>
  BY <1>1 DEF IInv, Types
<1>4. Types'
  BY <1>3 DEF IInv, Types, TypeOK
<1>5. /\ InOrder' /\ FlightApart' /\ Silent' /\ ReadIsTrue' /\ Preceded' /\ Tracked'
      /\ RepliesAreTrue' /\ ChainInOrder' /\ (\A p \in Flight' : p \in Flight)
  <2>1. \A x \in replied' \ replied : \E p \in AtServer : x = Id(p)
    BY <1>1
  <2> QED BY <1>2, <1>4, <2>1, SameQueues
<1>6. RepliesKnown'
  BY <1>1, <1>5, OneMoreReply
<1>7. Ended'
  BY DEF IInv, Ended
<1> QED BY <1>4, <1>5, <1>6, <1>7 DEF IInv

LEMMA PendIInv ==
  ASSUME IInv, NEW r \in serving, Pend(r)
  PROVE  IInv'
<1> USE DEF Pend, queues
<1> DEFINE q == [r EXCEPT !.pended = TRUE]
<1>1. /\ r \in [request : PduRecords, pended : BOOLEAN]
      /\ r.request \in AtServer /\ Reply(r.request, "PENDING") \in Replies
      /\ Reply(r.request, "PENDING").mid = r.request.mid
      /\ Reply(r.request, "PENDING").status = "PENDING"
  BY OneRequest DEF IInv, Reply
<1>2. q \in [request : PduRecords, pended : BOOLEAN] /\ q.request = r.request
  BY <1>1
<1> HIDE DEF q
<1>3. serving' = (serving \ {r}) \cup {q}
  BY DEF q
<1>4. /\ (\A p \in AtServer' : p \in AtServer) /\ Reading' = Reading /\ Told' = Told
      /\ pdu' \notin waitqueue /\ replied' = replied
  BY <1>1, <1>2, <1>3 DEF AtServer, Reading, Told, Heads, Ids, IInv, Silent, server
<1>5. Types'
  <2>1. serving' \in SUBSET [request : PduRecords, pended : BOOLEAN]
    BY <1>2, <1>3 DEF IInv, Types
  <2>2. toClient' \in Seq(Replies) /\ toClient' # << >>
    BY <1>1 DEF IInv, Types
  <2> QED BY <2>1, <2>2 DEF IInv, Types, TypeOK
<1>6. /\ InOrder' /\ FlightApart' /\ Silent' /\ ReadIsTrue' /\ Preceded' /\ Tracked'
      /\ RepliesAreTrue' /\ ChainInOrder' /\ (\A p \in Flight' : p \in Flight)
  BY <1>4, <1>5, SameQueues
<1>7. RepliesKnown'
  BY <1>1, <1>4, <1>6, OneMoreReply
<1>8. Ended'
  BY DEF IInv, Ended
<1> QED BY <1>5, <1>6, <1>7, <1>8 DEF IInv

LEMMA NotRecords == NoPdu \notin PduRecords /\ BreakPdu \notin PduRecords /\ NoPdu # BreakPdu
<1>1. ASSUME NEW p \in PduRecords PROVE "mid" \in DOMAIN p
  BY DEF PduRecords
<1>2. "mid" \notin DOMAIN NoPdu /\ "mid" \notin DOMAIN BreakPdu
  BY DEF NoPdu, BreakPdu
<1>3. NoPdu.call # BreakPdu.call
  BY DEF NoPdu, BreakPdu
<1> QED BY <1>1, <1>2, <1>3

LEMMA BreakIInv ==
  ASSUME IInv, Break
  PROVE  IInv'
<1> USE DEF Break, queues, server
<1> DEFINE r == [mid |-> NoId, status |-> "done", grant |-> 0]
<1>1. r \in Replies /\ r.mid = NoId /\ toClient' = Append(toClient, r)
  BY DEF Replies
<1> HIDE DEF r
<1>2. AtServer' = AtServer /\ Reading' = Reading /\ Told' = Told /\ pdu' \notin waitqueue
  BY DEF AtServer, Reading, Told, Heads, Ids, IInv, Silent
<1>3. Types'
  <2>1. toClient' \in Seq(Replies) /\ toClient' # << >>
    BY <1>1 DEF IInv, Types
  <2> QED BY <2>1 DEF IInv, Types, TypeOK
<1>4. /\ InOrder' /\ FlightApart' /\ Silent' /\ ReadIsTrue' /\ Preceded' /\ Tracked'
      /\ RepliesAreTrue' /\ ChainInOrder' /\ (\A p \in Flight' : p \in Flight)
  BY <1>2, <1>3, SameQueues
<1>5. RepliesKnown'
  BY <1>1, <1>4, OneMoreReply
<1>6. Ended'
  BY DEF IInv, Ended
<1> QED BY <1>3, <1>4, <1>5, <1>6 DEF IInv

LEMMA DropIInv ==
  ASSUME IInv, Drop
  PROVE  IInv'
<1> USE DEF Drop, queues, server
<1>1. AtServer' = AtServer /\ Reading' = Reading /\ Told' = Told /\ pdu' \notin waitqueue
  BY DEF AtServer, Reading, Told, Heads, Ids, IInv, Silent
<1>2. Types'
  BY DEF IInv, Types, TypeOK
<1>3. /\ InOrder' /\ FlightApart' /\ Silent' /\ ReadIsTrue' /\ Preceded' /\ Tracked'
      /\ RepliesAreTrue' /\ ChainInOrder' /\ (\A p \in Flight' : p \in Flight)
  BY <1>1, <1>2, SameQueues
<1>4. RepliesKnown'
  BY <1>3, SameReplies
<1>5. Ended'
  BY DEF IInv, Ended
<1> QED BY <1>2, <1>3, <1>4, <1>5 DEF IInv

-----------------------------------------------------------------------------
(* Reading.                                                                *)

(* A header is read while nothing else is, and its credits are a number.   *)
LEMMA HeaderFacts ==
  ASSUME IInv, HeaderRead, TakeCredits
  PROVE  /\ credits' \in Nat /\ pdu = NoPdu /\ Reading = {}
         /\ toClient # << >> /\ 1 \in DOMAIN toClient /\ Head(toClient) = toClient[1]
         /\ Head(toClient) \in Replies
<1>1. toClient # << >> /\ 1 \in DOMAIN toClient /\ Head(toClient) = toClient[1] /\ Head(toClient) \in Replies
  BY DEF IInv, Types, HeaderRead
<1>2. Head(toClient).grant \in Nat /\ credits \in Nat
  BY <1>1 DEF Replies, IInv, Types
<1>3. pdu = NoPdu
  BY DEF IInv, Types, TypeOK, HeaderRead
<1> QED BY <1>1, <1>2, <1>3 DEF TakeCredits, Reading

LEMMA ReadNobodysIInv ==
  ASSUME IInv, ReadPending \/ ReadUnknown \/ ReadBreak
  PROVE  IInv'
<1> USE DEF queues, server
<1>1. /\ HeaderRead /\ TakeCredits
      /\ UNCHANGED <<outqueue, num_done, waitqueue, message_id, next_call, answers,
                     context, toServer, server, toClient, framing>>
      /\ \/ recv_state' \in {"PAD", "UNKNOWN"} /\ pdu' = pdu
         \/ recv_state' = "FIXED" /\ pdu' = BreakPdu
  BY DEF ReadPending, ReadUnknown, ReadBreak, AfterInterim
<1>2. /\ credits' \in Nat /\ pdu = NoPdu /\ Reading = {} /\ toClient # << >>
  BY <1>1, HeaderFacts
<1>3. pdu' \in {NoPdu, BreakPdu} /\ Reading' = Reading
  BY <1>1, <1>2 DEF Reading
<1>4. pdu' \notin waitqueue
  BY <1>3, NotRecords DEF IInv, Types, TypeOK
<1>5. AtServer' = AtServer /\ Told \cap Pdus \subseteq Told'
  BY <1>1, <1>2 DEF AtServer, Told, Heads, Ids
<1>6. Types'
  <2>1. TypeOK'
    BY <1>1, <1>2, NotRecords DEF IInv, Types, TypeOK
  <2> QED BY <1>1, <1>2, <2>1 DEF IInv, Types
<1>7. /\ InOrder' /\ FlightApart' /\ Silent' /\ ReadIsTrue' /\ Preceded' /\ Tracked'
      /\ RepliesAreTrue' /\ ChainInOrder' /\ (\A p \in Flight' : p \in Flight)
  BY <1>1, <1>3, <1>4, <1>5, <1>6, SameQueues
<1>8. RepliesKnown'
  BY <1>1, <1>7, SameReplies
<1>9. Ended'
  BY <1>1 DEF IInv, Ended, HeaderRead
<1> QED BY <1>6, <1>7, <1>8, <1>9 DEF IInv

(* A reply out of its turn is refused, and the connection with it.         *)
LEMMA ReadOutOfTurnIInv ==
  ASSUME IInv, HeaderRead, TakeCredits, context' = "failed",
         UNCHANGED <<waitqueue, pdu, recv_state, outqueue, num_done, message_id, next_call,
                     answers, toServer, server, toClient, framing>>
  PROVE  IInv'
<1> USE DEF queues, server
<1>1. credits' \in Nat
  BY HeaderFacts
<1>2. AtServer' = AtServer /\ Reading' = Reading /\ Told' = Told /\ pdu' \notin waitqueue
  BY DEF AtServer, Reading, Told, Heads, Ids, IInv, Silent
<1>3. Types'
  BY <1>1 DEF IInv, Types, TypeOK
<1>4. /\ InOrder' /\ FlightApart' /\ Silent' /\ ReadIsTrue' /\ Preceded' /\ Tracked'
      /\ RepliesAreTrue' /\ ChainInOrder' /\ (\A p \in Flight' : p \in Flight)
  BY <1>2, <1>3, SameQueues
<1>5. RepliesKnown'
  BY <1>4, SameReplies
<1>6. Ended'
  BY DEF IInv, Ended
<1> QED BY <1>3, <1>4, <1>5, <1>6 DEF IInv

(* The reply of a PDU whose turn has come: it stops waiting and is read.   *)
LEMMA ReadInTurnIInv ==
  ASSUME IInv, HeaderRead, TakeCredits, ~ IsInterim, NEW p \in Waiting(Head(toClient).mid),
         ~ OutOfOrder(p), waitqueue' = waitqueue \ {p}, pdu' = p, recv_state' = "FIXED",
         UNCHANGED <<context, outqueue, num_done, message_id, next_call,
                     answers, toServer, server, toClient, framing>>
  PROVE  IInv'
<1> USE DEF queues, server
<1>1. /\ credits' \in Nat /\ pdu = NoPdu /\ Reading = {} /\ toClient # << >>
      /\ 1 \in DOMAIN toClient /\ Head(toClient) = toClient[1] /\ Head(toClient) \in Replies
  BY HeaderFacts
<1>2. p \in waitqueue /\ p.mid = Head(toClient).mid /\ p \in PduRecords
  BY DEF Waiting, IInv, Types, TypeOK
<1>3. Reading' = {p} /\ AtServer' = AtServer /\ Queued' = Queued /\ Gone' = Gone
      /\ Flight' = Flight /\ Sent' = Sent
  <2>1. Reading' = {p} /\ AtServer' = AtServer /\ Queued' = Queued /\ Sent' = Sent
    BY <1>2, NotRecords DEF Reading, AtServer, Queued, Sent
  <2>2. Gone' = Gone
    BY <1>1, <1>2, <2>1 DEF Gone
  <2> QED BY <2>1, <2>2 DEF Flight
<1>4. Types'
  <2>1. TypeOK'
    BY <1>2, NotRecords DEF IInv, Types, TypeOK
  <2> QED BY <1>1, <2>1 DEF IInv, Types
<1>5. InOrder' /\ FlightApart'
  BY <1>3 DEF IInv, InOrder, FlightApart
<1>6. Silent'
  BY <1>1, <1>2, <1>3 DEF IInv, Silent
<1>7. RepliesKnown'
  BY <1>3, SameReplies
<1>8. ReadIsTrue'
  <2>1. Id(p) \in replied
    <3>1. Head(toClient).status = "done"
      BY <1>1 DEF IsInterim, Replies
    <3>2. p \in Flight
      BY <1>2 DEF Flight, Gone
    <3> QED BY <1>1, <1>2, <3>1, <3>2 DEF IInv, RepliesKnown
  <2>2. ASSUME p.part > 1 PROVE answers[Pred(p)] # << >>
    <3>1. Waiting(p.prev) = {} /\ p.prev # 0
      BY <2>2, <1>2 DEF OutOfOrder, IInv, Preceded
    <3> QED BY <3>1, <2>2, <1>1, <1>2 DEF IInv, Preceded, Waiting
  <2> QED BY <1>3, <2>1, <2>2 DEF ReadIsTrue, Pred, Id
<1>9. Preceded'
  BY <1>1, <1>2, <1>3 DEF IInv, Preceded
<1>10. Tracked'
  <2>1. Told \subseteq Told'
    BY <1>1, <1>2, NotRecords DEF Told, Heads, Ids
  <2> QED BY <1>3, <2>1 DEF IInv, Tracked
<1>11. RepliesAreTrue' /\ ChainInOrder'
  BY DEF IInv, RepliesAreTrue, ChainInOrder
<1>12. Ended'
  BY DEF IInv, Ended, HeaderRead
<1> QED BY <1>4, <1>5, <1>6, <1>7, <1>8, <1>9, <1>10, <1>11, <1>12 DEF IInv

LEMMA ReadMatchedIInv ==
  ASSUME IInv, ReadMatched
  PROVE  IInv'
<1>1. PICK p \in Waiting(Head(toClient).mid) :
         IF OutOfOrder(p)
         THEN context' = "failed" /\ UNCHANGED <<waitqueue, pdu, recv_state>>
         ELSE /\ waitqueue' = NoLongerWaiting(p)
              /\ pdu' = p /\ recv_state' = "FIXED"
              /\ UNCHANGED context
  BY DEF ReadMatched
<1>2. /\ HeaderRead /\ ~ IsInterim /\ TakeCredits
      /\ UNCHANGED <<outqueue, num_done, message_id, next_call, answers, toServer, server,
                     toClient, framing>>
  BY DEF ReadMatched
<1>3. CASE OutOfOrder(p)
  BY <1>1, <1>2, <1>3, ReadOutOfTurnIInv
<1>4. CASE ~ OutOfOrder(p)
  BY <1>1, <1>2, <1>4, ReadInTurnIInv DEF NoLongerWaiting
<1> QED BY <1>3, <1>4

-----------------------------------------------------------------------------
(* Callbacks.                                                              *)

LEMMA PduParts ==
  ASSUME NEW x \in Pdus
  PROVE  /\ x[1] \in Names /\ x[2] \in DOMAIN Charges[x[1]] /\ x[2] \in Nat \ {0}
         /\ x[2] > 1 => <<x[1], x[2] - 1>> \in Pdus
<1>1. PICK i \in DOMAIN Calls : \E j \in DOMAIN Charges[Calls[i]] : x = <<Calls[i], j>>
  BY PdusAre
<1>2. Calls[i] \in Names /\ x[1] = Calls[i] /\ x[2] \in DOMAIN Charges[Calls[i]]
  BY <1>1 DEF Names
<1>3. DOMAIN Charges[Calls[i]] = 1 .. Len(Charges[Calls[i]]) /\ Len(Charges[Calls[i]]) \in Nat
  BY <1>2, CallFacts
<1>4. x[2] > 1 => x[2] - 1 \in DOMAIN Charges[Calls[i]]
  BY <1>2, <1>3
<1> QED BY <1>2, <1>3, <1>4, PdusAre

LEMMA OneStatus ==
  ASSUME NEW s \in Statuses
  PROVE  Append(<< >>, s) = <<s>> /\ <<s>> # << >> /\ (\A t \in Statuses : <<s>> = <<t>> => s = t)
<1>1. << >> \in Seq(Statuses)
  OBVIOUS
<1>2. /\ Append(<< >>, s) \in Seq(Statuses) /\ Len(Append(<< >>, s)) = 1
      /\ Append(<< >>, s)[1] = s
  BY <1>1
<1>3. Append(<< >>, s) = <<s>>
  BY <1>2
<1>4. \A t \in Statuses : <<s>>[1] = s /\ <<t>>[1] = t
  OBVIOUS
<1>5. Len(<<s>>) = 1 /\ Len(<< >>) = 0
  OBVIOUS
<1>6. \A t \in Statuses : <<s>> = <<t>> => s = t
  BY <1>4
<1>7. <<s>> # << >>
  BY <1>5
<1> QED BY <1>3, <1>6, <1>7

(* Callbacks of PDUs that had none: each runs for the first time, and what *)
(* had one before is not touched.                                          *)
LEMMA FirstCallBack ==
  ASSUME IInv, NEW ps, NEW s \in Statuses, CallBack(ps, s),
         \A x \in Pdus \cap ps : answers[x] = << >>
  PROVE  /\ answers' \in [Pdus -> {<< >>} \cup {<<t>> : t \in Statuses}]
         /\ \A x \in Pdus : answers'[x] = IF x \in ps THEN <<s>> ELSE answers[x]
         /\ \A x \in Pdus : answers[x] # << >> => answers'[x] = answers[x]
<1>1. answers \in [Pdus -> {<< >>} \cup {<<t>> : t \in Statuses}]
  BY DEF IInv, Types
<1>2. \A x \in Pdus : answers'[x] = IF x \in ps THEN <<s>> ELSE answers[x]
  BY <1>1, OneStatus DEF CallBack
<1>3. \A x \in Pdus : answers'[x] \in {<< >>} \cup {<<t>> : t \in Statuses}
  BY <1>1, <1>2
<1>4. answers' = [x \in Pdus |-> answers'[x]]
  BY <1>2 DEF CallBack
<1>5. \A x \in Pdus : answers[x] # << >> => answers'[x] = answers[x]
  BY <1>2
<1> QED BY <1>2, <1>3, <1>4, <1>5

(* The PDU before one in flight is a PDU, if there is one.                 *)
LEMMA Preds ==
  ASSUME Types, InOrder, NEW p \in Flight, p.part > 1
  PROVE  Pred(p) \in Pdus /\ Pred(p)[1] = p.call
<1>1. /\ p.call \in Names /\ p.part \in DOMAIN Charges[p.call]
      /\ DOMAIN Charges[p.call] = 1 .. Len(Charges[p.call]) /\ Len(Charges[p.call]) \in Nat
  BY Places, CallFacts
<1>2. p.part - 1 \in DOMAIN Charges[p.call]
  BY <1>1
<1> QED BY <1>1, <1>2, PdusAre DEF Pred

(* What no step of callbacks can spoil: nobody is told twice, a reply is   *)
(* told of what has been replied, and in its turn.                         *)
LEMMA CallBacksKept ==
  ASSUME IInv, NEW ps, NEW s \in Statuses, CallBack(ps, s),
         \A x \in Pdus \cap ps : answers[x] = << >>,
         replied' = replied,
         s = "reply" => \A x \in Pdus \cap ps :
                           x \in replied /\ (x[2] > 1 => answers[<<x[1], x[2] - 1>>] # << >>)
  PROVE  RepliesAreTrue' /\ ChainInOrder'
<1>1. /\ \A x \in Pdus : answers'[x] = IF x \in ps THEN <<s>> ELSE answers[x]
      /\ \A x \in Pdus : answers[x] # << >> => answers'[x] = answers[x]
  BY FirstCallBack
<1>0. <<s>> = <<"reply">> => s = "reply"
  BY OneStatus DEF Statuses
<1>2. RepliesAreTrue'
  <2>1. ASSUME NEW x \in Pdus, answers'[x] = <<"reply">> PROVE x \in replied
    <3>1. CASE x \in ps
      BY <3>1, <1>0, <1>1, <2>1
    <3>2. CASE x \notin ps
      BY <3>2, <1>1, <2>1 DEF IInv, RepliesAreTrue
    <3> QED BY <3>1, <3>2
  <2> QED BY <2>1 DEF RepliesAreTrue
<1>3. ASSUME NEW x \in Pdus, x[2] > 1, answers'[x] = <<"reply">>
      PROVE  answers'[<<x[1], x[2] - 1>>] # << >>
  <2>1. answers[<<x[1], x[2] - 1>>] # << >>
    <3>1. CASE x \in ps
      BY <3>1, <1>0, <1>1, <1>3
    <3>2. CASE x \notin ps
      BY <3>2, <1>1, <1>3 DEF IInv, ChainInOrder
    <3> QED BY <3>1, <3>2
  <2>2. <<x[1], x[2] - 1>> \in Pdus
    BY <1>3, PduParts
  <2> QED BY <1>1, <2>1, <2>2
<1> QED BY <1>2, <1>3 DEF ChainInOrder

(* Nobody of a call to come is among those in flight.                      *)
LEMMA NotYet ==
  ASSUME Types, InOrder, NEW p \in Flight, NEW a \in next_call .. Len(Calls)
  PROVE  p.call # Calls[a]
<1>1. PICK b \in 1 .. next_call - 1 : p.call = Calls[b]
  BY Places
<1>2. a \in 1 .. Len(Calls) /\ b \in 1 .. Len(Calls) /\ a # b
  BY <1>1, CallFacts DEF Types
<1> QED BY <1>1, <1>2, CallFacts

LEMMA ReadRestIInv ==
  ASSUME IInv, ReadRest
  PROVE  IInv'
<1> USE DEF ReadRest, queues, server
<1>1. toClient # << >> /\ \A i \in DOMAIN toClient' : \E k \in DOMAIN toClient : toClient'[i] = toClient[k]
  <2>1. toClient \in Seq(Replies) /\ toClient # << >>
    BY DEF IInv, Types
  <2>2. /\ Tail(toClient) \in Seq(Replies) /\ Len(Tail(toClient)) = Len(toClient) - 1
        /\ \A i \in 1 .. Len(toClient) - 1 : Tail(toClient)[i] = toClient[i + 1]
    BY <2>1
  <2>3. DOMAIN toClient = 1 .. Len(toClient) /\ Len(toClient) \in Nat
        /\ DOMAIN Tail(toClient) = 1 .. Len(toClient) - 1
    BY <2>1, <2>2
  <2>4. \A i \in 1 .. Len(toClient) - 1 : i + 1 \in 1 .. Len(toClient)
    BY <2>3
  <2> QED BY <2>1, <2>2, <2>3, <2>4
<1>2. toClient' \in Seq(Replies)
  BY <1>1 DEF IInv, Types
<1>3. pdu' = NoPdu /\ Reading' = {} /\ pdu' \notin waitqueue
  BY NotRecords DEF IInv, Types, TypeOK, Reading
<1>4. AtServer' = AtServer /\ Queued' = Queued /\ Sent' = Sent
      /\ (\A p \in Gone' : p \in Gone) /\ (\A p \in Flight' : p \in Flight)
  BY <1>3 DEF AtServer, Queued, Sent, Gone, Flight
<1>5. RepliesKnown'
  BY <1>1, <1>4, SameReplies
<1>6. Ended'
  BY DEF IInv, Ended
<1>7. CASE Reading = {}
  <2>1. answers' = answers
    <3>1. CASE recv_state = "FIXED"
      <4>1. pdu = BreakPdu
        BY <3>1, <1>7 DEF Reading, IInv, Types, TypeOK
      <4>2. Id(pdu) \notin Pdus
        <5>1. Id(pdu)[2] = 0
          BY <4>1 DEF Id, BreakPdu
        <5>2. \A x \in Pdus : x[2] # 0
          BY PduParts
        <5> QED BY <5>1, <5>2
      <4>3. answers' = [x \in Pdus |-> answers[x]]
        BY <3>1, <4>2 DEF CallBack
      <4> QED BY <4>3 DEF IInv, Types
    <3>2. CASE recv_state # "FIXED"
      BY <3>2
    <3> QED BY <3>1, <3>2
  <2>2. Types'
    BY <1>2, <1>3, <2>1 DEF IInv, Types, TypeOK
  <2>3. Told \cap Pdus \subseteq Told'
    <3>1. ASSUME pdu # NoPdu PROVE Id(pdu) \notin Pdus
      <4>1. pdu = BreakPdu
        BY <3>1, <1>7 DEF Reading
      <4>2. Id(pdu)[2] = 0
        BY <4>1 DEF Id, BreakPdu
      <4>3. \A x \in Pdus : x[2] # 0
        BY PduParts
      <4> QED BY <4>2, <4>3
    <3> QED BY <3>1 DEF Told, Heads, Ids
  <2>4. /\ InOrder' /\ FlightApart' /\ Silent' /\ ReadIsTrue' /\ Preceded' /\ Tracked'
        /\ RepliesAreTrue' /\ ChainInOrder'
    <3>1. \A x \in replied' \ replied : \E p \in AtServer : x = Id(p)
      OBVIOUS
    <3> HIDE DEF ReadRest
    <3>2. UNCHANGED <<outqueue, waitqueue, answers, message_id, next_call, replied>>
      BY <2>1 DEF ReadRest
    <3> QED BY <1>3, <1>4, <1>7, <2>2, <2>3, <3>1, <3>2, SameQueues
  <2> QED BY <1>5, <1>6, <2>2, <2>4 DEF IInv
<1>8. CASE Reading # {}
  <2>1. pdu # NoPdu /\ pdu # BreakPdu /\ Reading = {pdu} /\ recv_state = "FIXED"
    BY <1>8 DEF Reading, IInv, Types, TypeOK
  <2>2. pdu \in Gone /\ pdu \in Flight /\ pdu \in PduRecords /\ Id(pdu) \in Pdus
    BY <2>1, Places DEF Gone, Flight, IInv
  <2>3. CallBack({Id(pdu)}, "reply") /\ "reply" \in Statuses
    BY <2>1 DEF Statuses
  <2>4. answers[Id(pdu)] = << >>
    BY <2>1 DEF IInv, Silent
  <2>5. /\ answers' \in [Pdus -> {<< >>} \cup {<<t>> : t \in Statuses}]
        /\ \A x \in Pdus : answers'[x] = IF x \in {Id(pdu)} THEN <<"reply">> ELSE answers[x]
        /\ \A x \in Pdus : answers[x] # << >> => answers'[x] = answers[x]
    BY <2>3, <2>4, FirstCallBack
  <2>6. Types'
    BY <1>2, <1>3, <2>5 DEF IInv, Types, TypeOK
  <2>7. RepliesAreTrue' /\ ChainInOrder'
    <3>1. Id(pdu) \in replied /\ (pdu.part > 1 => answers[Pred(pdu)] # << >>)
      BY <2>1 DEF IInv, ReadIsTrue
    <3>2. Id(pdu)[1] = pdu.call /\ Id(pdu)[2] = pdu.part /\ replied' = replied
      BY DEF Id
    <3>3. \A x \in Pdus \cap {Id(pdu)} :
             /\ answers[x] = << >>
             /\ x \in replied /\ (x[2] > 1 => answers[<<x[1], x[2] - 1>>] # << >>)
      BY <2>4, <3>1, <3>2 DEF Pred
    <3> HIDE DEF ReadRest
    <3> QED BY <2>3, <3>2, <3>3, CallBacksKept
  <2>8. InOrder' /\ FlightApart'
    BY <1>4 DEF IInv, InOrder, FlightApart
  <2>9. Silent'
    <3>1. ASSUME NEW p \in Queued \cup waitqueue PROVE answers'[Id(p)] = << >>
      <4>1. p \in Flight /\ Id(p) \in Pdus /\ answers[Id(p)] = << >>
        BY Places DEF IInv, Silent, Flight, Gone
      <4>2. Id(p) # Id(pdu)
        <5>1. CASE p \in Queued
          BY <5>1, <2>2, Places DEF IInv, Id
        <5>2. CASE p \in waitqueue
          <6>1. p # pdu
            BY <5>2 DEF IInv, Silent
          <6>2. Apart(p, pdu)
            BY <4>1, <2>2 DEF IInv, FlightApart
          <6> QED BY <6>1, <6>2 DEF Apart
        <5> QED BY <5>1, <5>2
      <4> QED BY <4>1, <4>2, <2>5
    <3>2. ASSUME NEW x \in Pdus, NEW a \in next_call .. Len(Calls), x[1] = Calls[a]
          PROVE  answers'[x] = << >>
      <4>1. Id(pdu) # x
        BY <2>2, <3>2, NotYet DEF Id, IInv
      <4>2. answers[x] = << >>
        BY <3>2 DEF IInv, Silent
      <4> QED BY <4>1, <4>2, <2>5
    <3> QED BY <1>3, <1>4, <3>1, <3>2 DEF Silent
  <2>10. ReadIsTrue'
    BY <1>3 DEF ReadIsTrue
  <2>11. Preceded'
    <3>1. ASSUME NEW p \in waitqueue, p.part > 1
          PROVE  /\ p.prev # 0
                 /\ \/ answers'[Pred(p)] # << >>
                    \/ \E q \in waitqueue : Id(q) = Pred(p) /\ q.mid = p.prev
      <4>1. p \in Flight /\ Pred(p) \in Pdus
        BY <3>1, Preds DEF IInv, Flight, Gone
      <4>2. /\ p.prev # 0
            /\ \/ answers[Pred(p)] # << >>
               \/ \E q \in waitqueue \cup Reading : Id(q) = Pred(p) /\ q.mid = p.prev
        BY <3>1 DEF IInv, Preceded
      <4>3. CASE answers[Pred(p)] # << >>
        BY <4>1, <4>2, <4>3, <2>5
      <4>4. CASE Id(pdu) = Pred(p)
        BY <4>1, <4>2, <4>4, <2>5
      <4> QED BY <4>2, <4>3, <4>4, <2>1
    <3> QED BY <3>1, <1>3 DEF Preceded, Pred, Id
  <2>12. Tracked'
    <3>1. ASSUME NEW x \in Pdus, answers[x] # << >> \/ x \in Told
          PROVE  answers'[x] # << >> \/ x \in Told'
      <4>1. x \in Told => x \in Told' \/ x = Id(pdu)
        BY <1>3, <2>1 DEF Told, Heads, Ids
      <4> QED BY <3>1, <4>1, <2>5
    <3>2. \A p \in AtServer : Id(p) \in Pdus
      BY Places DEF IInv, Flight, Gone
    <3> QED BY <1>4, <3>1, <3>2 DEF IInv, Tracked
  <2> QED BY <1>5, <1>6, <2>6, <2>7, <2>8, <2>9, <2>10, <2>11, <2>12 DEF IInv
<1> QED BY <1>7, <1>8

(* The calls are queued in their order: whatever the moment, the chains    *)
(* queued before it are the first ones of the outqueue.                    *)
THEOREM LateAreFirst ==
  ASSUME IInv, NEW n \in 1 .. next_call - 1
  PROVE  \E k \in 0 .. Len(outqueue) : \A i \in DOMAIN outqueue : Old(outqueue[i][1], n) <=> i <= k
<1> DEFINE k == IF n <= Sent THEN 0 ELSE n - Sent
<1>1. /\ Len(outqueue) \in Nat /\ Sent \in Nat /\ next_call - 1 \in 0 .. Len(Calls)
      /\ DOMAIN outqueue = 1 .. Len(outqueue) /\ Sent + Len(outqueue) = next_call - 1
      /\ Len(Calls) \in Nat
  <2>1. next_call \in Nat
    BY CallFacts DEF IInv, Types
  <2> QED BY <2>1, Places, CallFacts DEF IInv, Sent
<1>2. k \in 0 .. Len(outqueue)
  BY <1>1
<1>3. ASSUME NEW i \in DOMAIN outqueue PROVE Old(outqueue[i][1], n) <=> i <= k
  <2>1. outqueue[i][1].call = Calls[Sent + i]
    <3>1. 1 \in DOMAIN outqueue[i]
      BY <1>3, Places DEF IInv
    <3> QED BY <3>1 DEF IInv, InOrder, InChain
  <2>2. Sent + i \in 1 .. Len(Calls) /\ \A a \in 1 .. n : a \in 1 .. Len(Calls)
    BY <1>1
  <2>3. Old(outqueue[i][1], n) <=> \E a \in 1 .. n : a = Sent + i
    BY <2>1, <2>2, CallFacts DEF Old
  <2>4. Old(outqueue[i][1], n) <=> Sent + i <= n
    BY <1>1, <2>3
  <2> QED BY <1>1, <2>4
<1> QED BY <1>2, <1>3

LEMMA TimeoutPdusIInv ==
  ASSUME IInv, NEW n \in 1 .. Len(Calls), NEW k \in 0 .. Len(outqueue), TimeoutPdus(n, k)
  PROVE  IInv'
<1> USE DEF queues, server
<1> DEFINE late == {p \in waitqueue : Old(p, n)}
           H == {Id(outqueue[i][1]) : i \in 1..k}
           ps == H \cup Ids(late)
<1>1. /\ context = "open" /\ CallBack(ps, "IO_TIMEOUT")
      /\ outqueue' = [i \in 1..(Len(outqueue) - k) |-> outqueue[i + k]]
      /\ waitqueue' = waitqueue \ late /\ num_done' = IF k > 0 THEN 0 ELSE num_done
      /\ UNCHANGED <<pdu, recv_state, credits, message_id, next_call, context, toServer,
                     server, toClient>>
  BY DEF TimeoutPdus, DoneAfter
<1>2. /\ Len(outqueue) \in Nat /\ Sent \in Nat /\ next_call \in Nat /\ Len(outqueue) < next_call
      /\ DOMAIN outqueue = 1 .. Len(outqueue)
      /\ outqueue \in Seq(Seq(PduRecords))
  BY Places, CallFacts DEF IInv, Types, TypeOK, InOrder
<1>3. /\ outqueue' \in Seq(Seq(PduRecords)) /\ Len(outqueue') = Len(outqueue) - k
      /\ DOMAIN outqueue' = 1 .. Len(outqueue) - k
      /\ k \in Nat
      /\ \A i \in DOMAIN outqueue' : i + k \in DOMAIN outqueue /\ outqueue'[i] = outqueue[i + k]
  <2> DEFINE SS == Seq(PduRecords)
             m == Len(outqueue) - k
  <2>1. k \in Nat /\ m \in Nat
    BY <1>2
  <2>2. \A i \in 1 .. m : i + k \in 1 .. Len(outqueue) /\ i + k \in DOMAIN outqueue
    BY <1>2, <2>1
  <2>3. outqueue' = [i \in 1 .. m |-> outqueue[i + k]]
    BY <1>1
  <2> HIDE DEF ps, late, SS, m
  <2>4. \A i \in 1 .. m : outqueue[i + k] \in SS
    BY <1>2, <2>2 DEF SS
  <2>5. outqueue' \in Seq(SS) /\ Len(outqueue') = m /\ DOMAIN outqueue' = 1 .. m
    BY <2>1, <2>3, <2>4
  <2>6. \A i \in 1 .. m : outqueue'[i] = outqueue[i + k]
    BY <2>3
  <2> QED BY <2>1, <2>2, <2>5, <2>6 DEF SS, m
<1>4. \A x \in H : \E i \in 1 .. k : i \in DOMAIN outqueue /\ x = Id(outqueue[i][1])
  <2>1. \A i \in 1 .. k : i \in DOMAIN outqueue
    BY <1>2
  <2> QED BY <2>1
<1>5. \A i \in DOMAIN outqueue : i \in 1 .. k => Id(outqueue[i][1]) \in H
  OBVIOUS
<1> HIDE DEF H
<1>6. Sent' = Sent + k
  <2>1. Sent' = next_call - 1 - (Len(outqueue) - k)
    BY <1>1, <1>3 DEF Sent
  <2>2. k \in Nat
    BY <1>2
  <2> HIDE DEF ps, late
  <2> QED BY <1>2, <2>1, <2>2 DEF Sent
<1>7. \A i \in DOMAIN outqueue : outqueue[i][1] \in Queued /\ outqueue[i][1].call = Calls[Sent + i]
  <2>1. ASSUME NEW i \in DOMAIN outqueue
        PROVE  outqueue[i][1] \in Queued /\ outqueue[i][1].call = Calls[Sent + i]
    <3>1. 1 \in DOMAIN outqueue[i]
      BY Places DEF IInv
    <3> QED BY <3>1 DEF Queued, Members, IInv, InOrder, InChain
  <2> QED BY <2>1
<1>8. /\ (\A p \in Queued' : p \in Queued) /\ Reading' = Reading /\ AtServer' = AtServer
      /\ (\A p \in Gone' : p \in Gone) /\ (\A p \in Flight' : p \in Flight)
  <2>1. \A p \in Queued' : p \in Queued
    BY <1>3 DEF Queued
  <2>2. Reading' = Reading /\ AtServer' = AtServer
    BY <1>1 DEF Reading, AtServer
  <2>3. \A p \in Gone' : p \in Gone
    BY <1>1, <2>2 DEF Gone
  <2> QED BY <2>1, <2>2, <2>3 DEF Flight
<1>9. \A x \in Pdus \cap ps : answers[x] = << >>
  <2>1. \A x \in H : answers[x] = << >>
    BY <1>4, <1>7 DEF IInv, Silent
  <2>2. \A x \in Ids(late) : answers[x] = << >>
    BY DEF IInv, Silent, Ids
  <2> QED BY <2>1, <2>2
<1>10. /\ answers' \in [Pdus -> {<< >>} \cup {<<t>> : t \in Statuses}]
       /\ \A x \in Pdus : answers'[x] = IF x \in ps THEN <<"IO_TIMEOUT">> ELSE answers[x]
       /\ \A x \in Pdus : answers[x] # << >> => answers'[x] = answers[x]
  <2>1. "IO_TIMEOUT" \in Statuses
    BY DEF Statuses
  <2> HIDE DEF ps
  <2> QED BY <1>1, <1>9, <2>1, FirstCallBack
<1>11. RepliesAreTrue' /\ ChainInOrder'
  <2>1. "IO_TIMEOUT" \in Statuses /\ replied' = replied /\ "IO_TIMEOUT" # "reply"
    BY <1>1 DEF Statuses
  <2> HIDE DEF ps
  <2> QED BY <1>1, <1>9, <2>1, CallBacksKept
<1> HIDE DEF ps
<1>12. Types'
  <2>1. TypeOK'
    <3>1. num_done' \in 0..1 /\ (num_done' = 1 => outqueue' # <<>> \/ context' # "open")
      <4>1. CASE k > 0
        BY <4>1, <1>1
      <4>2. CASE k = 0
        <5>1. num_done' = num_done /\ Len(outqueue') = Len(outqueue)
          BY <4>2, <1>1, <1>2, <1>3
        <5>2. num_done = 1 => outqueue # << >>
          BY <1>1 DEF IInv, Types, TypeOK
        <5>3. outqueue # << >> => outqueue' # << >>
          BY <5>1, <1>2, <1>3
        <5> QED BY <5>1, <5>2, <5>3 DEF IInv, Types, TypeOK
      <4> QED BY <4>1, <4>2
    <3> QED BY <3>1, <1>1, <1>3 DEF IInv, Types, TypeOK
  <2>2. recv_state' # "SPL" => toClient' # << >>
    BY <1>1 DEF IInv, Types
  <2> QED BY <2>1, <2>2, <1>1, <1>10 DEF IInv, Types
<1>13. InOrder'
  <2>1. Len(outqueue') < next_call'
    <3>1. next_call' = next_call /\ Len(outqueue') = Len(outqueue) - k /\ k \in Nat
      BY <1>1, <1>2, <1>3
    <3> HIDE DEF late
    <3> QED BY <3>1, <1>2
  <2>2. ASSUME NEW i \in DOMAIN outqueue' PROVE InChain(outqueue'[i], Calls[Sent' + i])
    <3>1. Sent' + i = Sent + (i + k)
      BY <1>2, <1>3, <1>6
    <3> QED BY <3>1, <1>3 DEF IInv, InOrder
  <2>3. \A a \in 1 .. Sent : a \in 1 .. Sent'
    BY <1>2, <1>6
  <2>4. \A p \in Gone' : \E a \in 1 .. Sent' : p.call = Calls[a] /\ p.part \in DOMAIN Charges[p.call]
    BY <2>3, <1>8 DEF IInv, InOrder
  <2> QED BY <2>1, <2>2, <2>4 DEF InOrder, InChain
<1>14. FlightApart'
  BY <1>1, <1>8 DEF IInv, FlightApart
<1>15. RepliesKnown'
  BY <1>1, <1>8, SameReplies
(* Who was not told still has not been: its id is none of those.           *)
<1>16. ASSUME NEW p \in Queued' \cup waitqueue' \cup Reading' PROVE Id(p) \notin ps
  <2>1. p \in Flight /\ p \in Queued \cup waitqueue \cup Reading
    BY <1>1, <1>8 DEF Flight, Gone
  <2>2. ASSUME NEW q \in late, Id(p) = Id(q) PROVE FALSE
    <3>1. q \in waitqueue /\ q \in Flight
      BY DEF Flight, Gone
    <3>2. p = q
      BY <2>1, <2>2, <3>1 DEF IInv, FlightApart, Apart
    <3>3. p \notin Queued
      BY <3>1, <3>2, Places DEF IInv, Gone
    <3>4. p \notin Reading
      BY <3>1, <3>2 DEF IInv, Silent, Reading
    <3> QED BY <1>1, <1>8, <2>2, <3>2, <3>3, <3>4
  <2>3. ASSUME Id(p) \in H PROVE FALSE
    <3>1. PICK i \in 1 .. k : i \in DOMAIN outqueue /\ Id(p) = Id(outqueue[i][1])
      BY <2>3, <1>4
    <3>2. p.call = Calls[Sent + i] /\ outqueue[i][1] \in Queued
      BY <3>1, <1>7 DEF Id
    <3>3. CASE p \in Queued'
      <4>1. PICK b \in DOMAIN outqueue' : p \in Members(outqueue'[b])
        BY <3>3 DEF Queued
      <4>2. p.call = Calls[Sent + (b + k)] /\ b + k \in DOMAIN outqueue
        BY <4>1, <1>3 DEF IInv, InOrder, InChain, Members
      <4>3. /\ Sent + (b + k) \in 1 .. Len(Calls) /\ Sent + i \in 1 .. Len(Calls)
            /\ Sent + (b + k) # Sent + i
        <5>1. /\ next_call - 1 \in 0 .. Len(Calls) /\ Len(Calls) \in Nat
              /\ Sent + (b + k) \in Sent + 1 .. next_call - 1 /\ Sent + i \in Sent + 1 .. next_call - 1
          BY <3>1, <4>2, Places, CallFacts DEF IInv
        <5>2. b \in Nat /\ b > 0 /\ i <= k /\ i \in Nat /\ k \in Nat
          <6>1. k \in Nat /\ b \in 1 .. Len(outqueue) - k
            BY <1>2, <1>3
          <6> QED BY <6>1, <1>2
        <5> QED BY <5>1, <5>2, <1>2
      <4> QED BY <3>2, <4>2, <4>3, CallFacts
    <3>4. CASE p \in Gone
      BY <3>1, <3>2, <3>4, Places DEF IInv, Id
    <3> QED BY <3>3, <3>4, <1>1, <1>8 DEF Gone
  <2> QED BY <2>2, <2>3 DEF ps, Ids
<1>17. Silent'
  <2>1. ASSUME NEW p \in Queued' \cup waitqueue' \cup Reading' PROVE answers'[Id(p)] = << >>
    <3>1. p \in Flight /\ p \in Queued \cup waitqueue \cup Reading
      BY <1>1, <1>8 DEF Flight, Gone
    <3>2. Id(p) \in Pdus /\ answers[Id(p)] = << >>
      BY <3>1, Places DEF IInv, Silent
    <3> QED BY <3>2, <1>10, <1>16
  <2>2. ASSUME NEW x \in Pdus, NEW a \in next_call .. Len(Calls), x[1] = Calls[a]
        PROVE  answers'[x] = << >>
    <3>1. x \notin H
      <4>1. ASSUME x \in H PROVE FALSE
        <5>1. PICK i \in 1 .. k : i \in DOMAIN outqueue /\ x = Id(outqueue[i][1])
          BY <4>1, <1>4
        <5>2. outqueue[i][1] \in Flight /\ x[1] = outqueue[i][1].call
          BY <5>1, <1>7 DEF Flight, Id
        <5> QED BY <5>2, <2>2, NotYet DEF IInv
      <4> QED BY <4>1
    <3>2. x \notin Ids(late)
      BY <2>2, NotYet DEF Ids, Id, IInv, Flight, Gone
    <3> QED BY <3>1, <3>2, <2>2, <1>10 DEF ps, IInv, Silent
  <2>3. pdu' \notin waitqueue'
    BY <1>1 DEF IInv, Silent
  <2> QED BY <2>1, <2>2, <2>3, <1>1 DEF Silent, Id
<1>18. ReadIsTrue'
  <2>1. ASSUME NEW p \in Reading
        PROVE  Id(p) \in replied' /\ (p.part > 1 => answers'[Pred(p)] # << >>)
    <3>1. p \in Flight
      BY DEF Flight, Gone
    <3> QED BY <3>1, <1>1, <1>10, Preds DEF IInv, ReadIsTrue
  <2> QED BY <2>1, <1>8 DEF ReadIsTrue, Id, Pred
<1>19. Preceded'
  <2>1. ASSUME NEW p \in waitqueue', p.part > 1
        PROVE  /\ p.prev # 0
               /\ \/ answers'[Pred(p)] # << >>
                  \/ \E q \in waitqueue' \cup Reading' : Id(q) = Pred(p) /\ q.mid = p.prev
    <3>1. p \in waitqueue /\ p \notin late /\ p \in Flight
      BY <1>1 DEF Flight, Gone
    <3>2. Pred(p) \in Pdus
      BY <3>1, <2>1, Preds DEF IInv
    <3>3. /\ p.prev # 0
          /\ \/ answers[Pred(p)] # << >>
             \/ \E q \in waitqueue \cup Reading : Id(q) = Pred(p) /\ q.mid = p.prev
      BY <3>1, <2>1 DEF IInv, Preceded
    <3>4. ASSUME NEW q \in waitqueue, Id(q) = Pred(p) PROVE q \in waitqueue'
      <4>1. q.call = p.call
        BY <3>4 DEF Id, Pred
      <4> QED BY <4>1, <3>1, <3>4, <1>1 DEF Old
    <3> QED BY <3>2, <3>3, <3>4, <1>8, <1>10
  <2> QED BY <2>1 DEF Preceded, Pred, Id
<1>20. Tracked'
  <2>1. ASSUME NEW x \in Pdus, answers[x] # << >> \/ x \in Told
        PROVE  answers'[x] # << >> \/ x \in Told'
    <3>1. CASE answers[x] # << >>
      BY <3>1, <1>10
    <3>2. CASE x \in Heads(outqueue)
      <4>1. PICK i \in DOMAIN outqueue : x = Id(outqueue[i][1])
        BY <3>2 DEF Heads
      <4>2. CASE i \in 1 .. k
        <5>1. x \in ps
          BY <4>1, <4>2, <1>5 DEF ps
        <5>2. answers'[x] = <<"IO_TIMEOUT">>
          BY <5>1, <1>10
        <5> QED BY <5>2
      <4>3. CASE i \notin 1 .. k
        <5>1. i - k \in DOMAIN outqueue' /\ (i - k) + k = i
          BY <4>3, <1>2, <1>3
        <5>2. outqueue'[i - k] = outqueue[i]
          BY <5>1, <1>3
        <5> QED BY <4>1, <5>1, <5>2 DEF Told, Heads, Id
      <4> QED BY <4>2, <4>3
    <3>3. CASE x \in Ids(waitqueue)
      <4>1. PICK p \in waitqueue : x = Id(p)
        BY <3>3 DEF Ids
      <4>2. CASE p \in late
        BY <4>1, <4>2, <1>10 DEF ps, Ids
      <4>3. CASE p \notin late
        BY <4>1, <4>3, <1>1 DEF Told, Ids, Id
      <4> QED BY <4>2, <4>3
    <3>4. CASE pdu # NoPdu /\ x = Id(pdu)
      BY <3>4, <1>1 DEF Told, Id
    <3> QED BY <2>1, <3>1, <3>2, <3>3, <3>4 DEF Told
  <2>2. \A p \in AtServer : Id(p) \in Pdus
    BY Places DEF IInv, Flight, Gone
  <2> QED BY <1>1, <1>8, <2>1, <2>2 DEF IInv, Tracked, Id
<1>21. Ended'
  BY <1>1 DEF Ended
<1> QED BY <1>11, <1>12, <1>13, <1>14, <1>15, <1>17, <1>18, <1>19, <1>20, <1>21 DEF IInv

-----------------------------------------------------------------------------
(* Queueing, writing and the end.                                          *)

LEMMA QueuePduIInv ==
  ASSUME IInv, QueuePdu
  PROVE  IInv'
<1> USE DEF queues, server
<1> DEFINE c == Calls[next_call]
           ch == ChainOf(c)
           m == Len(outqueue)
<1>1. /\ context = "open" /\ next_call <= Len(Calls)
      /\ outqueue' = Append(outqueue, ch)
      /\ message_id' = message_id + SumSeq(IdsIn(c))
      /\ next_call' = next_call + 1
      /\ UNCHANGED <<num_done, waitqueue, pdu, recv_state, credits, answers, context,
                     toServer, server, toClient, framing>>
  BY DEF QueuePdu
<1>2. /\ m \in Nat /\ DOMAIN outqueue = 1 .. m /\ m < next_call /\ next_call \in Nat
      /\ next_call \in 1 .. Len(Calls) /\ Len(Calls) \in Nat /\ DOMAIN Calls = 1 .. Len(Calls)
      /\ outqueue \in Seq(Seq(PduRecords)) /\ message_id \in Nat /\ Sent \in Nat
  <2>1. next_call \in 1 .. Len(Calls) + 1 /\ Len(Calls) \in Nat /\ DOMAIN Calls = 1 .. Len(Calls)
    BY CallFacts DEF IInv, Types
  <2> QED BY <2>1, <1>1, Places DEF IInv, Types, TypeOK, InOrder
<1>3. c \in Names
  BY <1>2 DEF Names
<1>4. message_id > 0 \/ Len(Charges[c]) = 1
  <2>1. CASE next_call = 1
    BY <2>1, CallFacts
  <2>2. CASE next_call # 1
    BY <2>2, <1>2 DEF IInv, Types
  <2> QED BY <2>1, <2>2
<1> HIDE DEF c, ch
<1>5. /\ ch \in Seq(PduRecords) /\ ch # << >> /\ InChain(ch, c)
      /\ SumSeq(IdsIn(c)) \in Nat /\ SumSeq(IdsIn(c)) > 0
      /\ \A p \in Members(ch) : /\ message_id <= p.mid
                                /\ p.mid + IdsOf(p.charge) <= message_id + SumSeq(IdsIn(c))
      /\ \A p, q \in Members(ch) : Apart(p, q)
  BY <1>3, <1>4, NewChain DEF IInv, ch
<1>6. message_id' \in Nat /\ message_id < message_id'
  BY <1>1, <1>2, <1>5
<1>7. /\ outqueue' \in Seq(Seq(PduRecords)) /\ Len(outqueue') = m + 1 /\ DOMAIN outqueue' = 1 .. m + 1
      /\ \A i \in 1 .. m : outqueue'[i] = outqueue[i]
      /\ outqueue'[m + 1] = ch
  <2> DEFINE SS == Seq(PduRecords)
  <2>1. outqueue \in Seq(SS) /\ ch \in SS
    BY <1>2, <1>5
  <2> HIDE DEF SS
  <2>2. Append(outqueue, ch) \in Seq(SS) /\ Len(Append(outqueue, ch)) = m + 1
        /\ (\A i \in 1 .. m : Append(outqueue, ch)[i] = outqueue[i])
        /\ Append(outqueue, ch)[m + 1] = ch
    BY <2>1
  <2>3. DOMAIN Append(outqueue, ch) = 1 .. m + 1
    BY <2>2
  <2> QED BY <1>1, <2>2, <2>3 DEF SS
<1>8. Sent' = Sent /\ Sent + (m + 1) = next_call
  <2>1. Sent' = next_call + 1 - 1 - (m + 1)
    BY <1>1, <1>2, <1>7 DEF Sent
  <2> QED BY <2>1, <1>2 DEF Sent
<1>9. /\ Queued' = Queued \cup Members(ch) /\ Reading' = Reading /\ AtServer' = AtServer
      /\ Gone' = Gone /\ Flight' = Flight \cup Members(ch)
  <2>1. ASSUME NEW p PROVE p \in Queued' <=> p \in Queued \cup Members(ch)
    <3>1. p \in Queued' <=> \E i \in 1 .. m + 1 : p \in Members(outqueue'[i])
      BY <1>7 DEF Queued, Members
    <3>2. p \in Queued <=> \E i \in 1 .. m : p \in Members(outqueue[i])
      BY <1>2 DEF Queued
    <3>3. \A i \in 1 .. m + 1 : i \in 1 .. m \/ i = m + 1
      BY <1>2
    <3>4. m + 1 \in 1 .. m + 1 /\ \A i \in 1 .. m : i \in 1 .. m + 1
      BY <1>2
    <3> HIDE DEF m
    <3> QED BY <3>1, <3>2, <3>3, <3>4, <1>7
  <2>2. Queued' = Queued \cup Members(ch)
    BY <2>1
  <2>3. Reading' = Reading /\ AtServer' = AtServer
    BY <1>1 DEF Reading, AtServer
  <2>4. Gone' = Gone
    BY <1>1, <2>3 DEF Gone
  <2> QED BY <2>2, <2>3, <2>4 DEF Flight
<1>10. \A p \in Members(ch) : /\ p \in PduRecords /\ p.call = c /\ p.part \in DOMAIN Charges[c]
                              /\ p.mid \in Nat /\ IdsOf(p.charge) \in Nat /\ Id(p) \in Pdus
                              /\ Id(p)[1] = c
  <2>1. \A p \in Members(ch) : p \in PduRecords /\ p.call = c /\ p.part \in DOMAIN Charges[c]
    BY <1>5 DEF Members, InChain
  <2>2. \A p \in PduRecords : p.mid \in Nat /\ p.charge \in Nat
    BY DEF PduRecords
  <2> QED BY <2>1, <2>2, <1>3, PdusAre, IdsFacts DEF Id
<1>11. \A p \in Flight : p.call # c
  <2>1. next_call \in next_call .. Len(Calls)
    BY <1>2
  <2> QED BY <2>1, NotYet DEF IInv, c
<1>12. Types'
  <2>1. TypeOK'
    <3>1. num_done' = 1 => outqueue' # <<>> \/ context' # "open"
      BY <1>1, <1>2, <1>7
    <3> QED BY <3>1, <1>1, <1>7 DEF IInv, Types, TypeOK
  <2>2. next_call' \in 1 .. Len(Calls) + 1 /\ (next_call' > 1 => message_id' > 0)
    BY <1>1, <1>2, <1>6
  <2> QED BY <2>1, <2>2, <1>1, <1>6 DEF IInv, Types
<1>13. InOrder'
  <2>1. Len(outqueue') < next_call'
    BY <1>1, <1>2, <1>7
  <2>2. ASSUME NEW i \in DOMAIN outqueue' PROVE InChain(outqueue'[i], Calls[Sent' + i])
    <3>1. CASE i \in 1 .. m
      BY <3>1, <1>2, <1>7, <1>8 DEF IInv, InOrder
    <3>2. CASE i = m + 1
      BY <3>2, <1>5, <1>7, <1>8 DEF c
    <3> QED BY <3>1, <3>2, <1>2, <1>7
  <2>3. \A p \in Gone' : \E a \in 1 .. Sent' : p.call = Calls[a] /\ p.part \in DOMAIN Charges[p.call]
    BY <1>8, <1>9 DEF IInv, InOrder
  <2> QED BY <2>1, <2>2, <2>3 DEF InOrder, InChain
<1>14. FlightApart'
  <2>1. \A p \in Flight : /\ p.mid + IdsOf(p.charge) <= message_id
                          /\ p.mid \in Nat /\ IdsOf(p.charge) \in Nat
    <3>1. \A p \in Flight : p \in PduRecords
      BY Places DEF IInv
    <3>2. \A p \in PduRecords : p.mid \in Nat /\ p.charge \in Nat
      BY DEF PduRecords
    <3> QED BY <3>1, <3>2, IdsFacts DEF IInv, FlightApart
  <2>2. ASSUME NEW p \in Flight, NEW q \in Members(ch) PROVE Apart(p, q) /\ Apart(q, p)
    <3>1. Id(p) # Id(q)
      BY <1>10, <1>11 DEF Id
    <3>2. Below(p, q)
      <4>1. p.mid + IdsOf(p.charge) <= message_id /\ message_id <= q.mid
        BY <1>5, <2>1
      <4>2. p.mid + IdsOf(p.charge) \in Nat /\ q.mid \in Nat
        BY <1>10, <2>1
      <4> QED BY <4>1, <4>2, <1>2 DEF Below
    <3> QED BY <3>1, <3>2 DEF Apart
  <2>3. \A p, q \in Flight' : Apart(p, q)
    BY <1>5, <1>9, <2>2 DEF IInv, FlightApart
  <2>4. \A p \in Flight' : p.mid + IdsOf(p.charge) <= message_id'
    <3>1. ASSUME NEW p \in Flight PROVE p.mid + IdsOf(p.charge) <= message_id'
      <4>1. p.mid + IdsOf(p.charge) <= message_id /\ p.mid + IdsOf(p.charge) \in Nat
        BY <2>1
      <4> QED BY <4>1, <1>2, <1>6
    <3>2. \A p \in Members(ch) : p.mid + IdsOf(p.charge) <= message_id'
      BY <1>1, <1>5
    <3> QED BY <3>1, <3>2, <1>9
  <2> QED BY <2>3, <2>4 DEF FlightApart, Apart, Below, Id
<1>15. Silent'
  <2>1. \A x \in Pdus : x[1] = c => answers[x] = << >>
    BY <1>2 DEF IInv, Silent, c
  <2>2. \A p \in Members(ch) : answers[Id(p)] = << >>
    BY <2>1, <1>10
  <2>3. \A a \in next_call' .. Len(Calls) : a \in next_call .. Len(Calls)
    BY <1>1, <1>2
  <2>4. \A x \in Pdus : (\E a \in next_call' .. Len(Calls) : x[1] = Calls[a]) => answers[x] = << >>
    BY <2>3 DEF IInv, Silent
  <2>5. \A p \in Queued' \cup waitqueue' \cup Reading' : answers'[Id(p)] = << >>
    BY <2>2, <1>1, <1>9 DEF IInv, Silent
  <2> QED BY <2>4, <2>5, <1>1 DEF IInv, Silent, Id
<1>16. RepliesKnown'
  <2>1. ASSUME NEW i \in DOMAIN toClient
        PROVE  /\ toClient[i].mid < message_id'
               /\ toClient[i].status = "done" =>
                     \A p \in Flight' : p.mid = toClient[i].mid => Id(p) \in replied
    <3>1. toClient[i].mid < message_id /\ toClient[i].mid \in Int
      <4>1. toClient[i] \in Replies
        BY RepliesAre DEF IInv
      <4> QED BY <4>1 DEF IInv, RepliesKnown, Replies, NoId
    <3>2. toClient[i].mid < message_id'
      BY <3>1, <1>2, <1>6
    <3>3. \A p \in Members(ch) : p.mid # toClient[i].mid
      BY <3>1, <1>2, <1>5, <1>10
    <3> QED BY <3>2, <3>3, <1>9 DEF IInv, RepliesKnown
  <2> QED BY <2>1, <1>1 DEF RepliesKnown, Id
<1>17. ReadIsTrue' /\ Preceded' /\ RepliesAreTrue' /\ ChainInOrder'
  BY <1>1, <1>9 DEF IInv, ReadIsTrue, Preceded, RepliesAreTrue, ChainInOrder, Pred, Id
<1>18. Tracked'
  <2>1. Told \subseteq Told' /\ Id(ch[1]) \in Told'
    <3>1. Heads(outqueue) \subseteq Heads(outqueue') /\ Id(ch[1]) \in Heads(outqueue')
      <4>1. m + 1 \in DOMAIN outqueue' /\ \A i \in 1 .. m : i \in DOMAIN outqueue'
        BY <1>2, <1>7
      <4> QED BY <4>1, <1>2, <1>7 DEF Heads
    <3> QED BY <3>1, <1>1 DEF Told, Ids, Id
  <2>2. ASSUME NEW x \in Pdus, x \in replied \/ x[2] = 1, NEW i \in 1 .. (next_call' - 1), Calls[i] = x[1]
        PROVE  answers[x] # << >> \/ x \in Told'
    <3>1. CASE i \in 1 .. next_call - 1
      BY <3>1, <2>1, <2>2 DEF IInv, Tracked
    <3>2. CASE i = next_call
      <4>1. x[1] = c
        BY <2>2, <3>2 DEF c
      <4>2. x \notin replied
        <5>1. ASSUME NEW a \in 1 .. next_call - 1 PROVE Calls[a] # c
          BY <1>2, CallFacts DEF c
        <5> QED BY <4>1, <5>1 DEF IInv, Tracked
      <4>3. x = Id(ch[1])
        <5>1. ch[1].call = c /\ ch[1].part = 1
          <6>1. 1 \in DOMAIN ch
            BY <1>5
          <6> QED BY <6>1, <1>5 DEF InChain
        <5>2. x = <<x[1], x[2]>>
          BY DEF Pdus
        <5> QED BY <5>1, <5>2, <4>1, <4>2, <2>2 DEF Id
      <4> QED BY <4>3, <2>1
    <3> QED BY <3>1, <3>2, <1>1, <1>2
  <2>3. \A x \in replied : \E i \in 1 .. (next_call' - 1) : Calls[i] = x[1]
    <3>1. \A i \in 1 .. next_call - 1 : i \in 1 .. next_call' - 1
      BY <1>1, <1>2
    <3> QED BY <3>1 DEF IInv, Tracked
  <2>4. \A p \in AtServer : answers[Id(p)] # << >> \/ Id(p) \in Told'
    BY <2>1 DEF IInv, Tracked
  <2> QED BY <2>2, <2>3, <2>4, <1>1, <1>9 DEF Tracked, Id
<1>19. Ended'
  BY <1>1 DEF Ended
<1> QED BY <1>12, <1>13, <1>14, <1>15, <1>16, <1>17, <1>18, <1>19 DEF IInv

LEMMA WriteRestIInv ==
  ASSUME IInv, WriteRest
  PROVE  IInv'
<1> USE DEF queues, server
<1> DEFINE h == Head(outqueue)
           m == Len(outqueue)
<1>1. /\ context = "open" /\ outqueue # << >> /\ ChargeOf(h) <= credits
      /\ outqueue' = Tail(outqueue) /\ num_done' = 0
      /\ waitqueue' = waitqueue \cup Members(h)
      /\ credits' = credits - ChargeOf(h)
      /\ toServer' = toServer \o Arrives(h)
      /\ UNCHANGED <<pdu, recv_state, message_id, next_call, answers, context, server,
                     toClient, framing>>
  BY DEF WriteRest, MayWrite
<1>2. /\ m \in Nat /\ m < next_call /\ next_call \in Nat /\ Sent \in Nat
      /\ DOMAIN outqueue = 1 .. m /\ outqueue \in Seq(Seq(PduRecords))
  BY Places, CallFacts DEF IInv, Types, TypeOK, InOrder
<1>3. /\ m > 0 /\ 1 \in DOMAIN outqueue /\ h = outqueue[1]
      /\ outqueue' \in Seq(Seq(PduRecords)) /\ Len(outqueue') = m - 1 /\ DOMAIN outqueue' = 1 .. m - 1
      /\ \A i \in 1 .. m - 1 : outqueue'[i] = outqueue[i + 1] /\ i + 1 \in 1 .. m
  <2> DEFINE SS == Seq(PduRecords)
  <2>1. outqueue \in Seq(SS) /\ outqueue # << >>
    BY <1>1, <1>2
  <2> HIDE DEF SS
  <2>2. /\ Len(outqueue) > 0 /\ Head(outqueue) = outqueue[1]
        /\ Tail(outqueue) \in Seq(SS) /\ Len(Tail(outqueue)) = Len(outqueue) - 1
        /\ \A i \in 1 .. Len(outqueue) - 1 : Tail(outqueue)[i] = outqueue[i + 1]
    BY <2>1
  <2>3. DOMAIN Tail(outqueue) = 1 .. m - 1 /\ 1 \in 1 .. m /\ \A i \in 1 .. m - 1 : i + 1 \in 1 .. m
    BY <1>2, <2>2
  <2> QED BY <1>1, <1>2, <2>2, <2>3 DEF SS
<1> HIDE DEF h
<1>4. /\ h \in Seq(PduRecords) /\ InChain(h, Calls[Sent + 1]) /\ h # << >>
      /\ Calls[Sent + 1] \in Names
  BY <1>3, Places DEF IInv, InOrder
<1>5. Sent' = Sent + 1
  <2>1. Len(outqueue') = m - 1 /\ next_call' = next_call
    BY <1>1, <1>3
  <2> QED BY <2>1, <1>2 DEF Sent
<1>6. /\ (\A p \in Queued' : p \in Queued /\ p \notin Members(h))
      /\ (\A p \in Members(h) : p \in Queued /\ p.call = Calls[Sent + 1] /\ p.part \in DOMAIN Charges[p.call]
                                /\ p \in PduRecords)
  <2>1. \A p \in Members(h) : p \in Queued /\ p.call = Calls[Sent + 1] /\ p.part \in DOMAIN Charges[p.call]
                              /\ p \in PduRecords
    <3>1. ASSUME NEW j \in DOMAIN h
          PROVE  /\ h[j] \in Queued /\ h[j].call = Calls[Sent + 1]
                 /\ h[j].part \in DOMAIN Charges[h[j].call] /\ h[j] \in PduRecords
      <4>1. h[j] \in Queued
        BY <1>3 DEF Queued, Members
      <4>2. h[j].call = Calls[Sent + 1] /\ h[j].part = j /\ j \in DOMAIN Charges[Calls[Sent + 1]]
        BY <1>4 DEF InChain
      <4>3. h[j] \in PduRecords
        BY <4>1, Places DEF IInv, Flight
      <4> QED BY <4>1, <4>2, <4>3
    <3> QED BY <3>1 DEF Members
  <2>2. ASSUME NEW p \in Queued' PROVE p \in Queued /\ p.call # Calls[Sent + 1]
    <3>1. PICK i \in 1 .. m - 1 : p \in Members(outqueue'[i])
      BY <2>2, <1>3 DEF Queued, Members
    <3>2. p \in Members(outqueue[i + 1]) /\ i + 1 \in DOMAIN outqueue
      BY <3>1, <1>2, <1>3
    <3>3. p \in Queued /\ p.call = Calls[Sent + (i + 1)]
      BY <3>2 DEF Queued, Members, IInv, InOrder, InChain
    <3>4. /\ Sent + (i + 1) \in 1 .. Len(Calls) /\ Sent + 1 \in 1 .. Len(Calls)
          /\ Sent + (i + 1) # Sent + 1
      <4>1. /\ next_call - 1 \in 0 .. Len(Calls) /\ Len(Calls) \in Nat
            /\ Sent + (i + 1) \in Sent + 1 .. next_call - 1 /\ Sent + 1 \in Sent + 1 .. next_call - 1
        BY <3>2, <1>3, Places, CallFacts DEF IInv
      <4>2. i \in Nat /\ i > 0
        BY <1>2
      <4> QED BY <4>1, <4>2, <1>2
    <3> QED BY <3>3, <3>4, CallFacts
  <2> QED BY <2>1, <2>2
<1>7. /\ Reading' = Reading /\ (\A p \in AtServer' : p \in AtServer \cup Members(h))
      /\ (\A p \in Gone' : p \in Gone \cup Members(h)) /\ (\A p \in Flight' : p \in Flight)
  <2>1. Reading' = Reading
    BY <1>1 DEF Reading
  <2>2. ASSUME NEW i \in DOMAIN toServer', toServer'[i] # Garbage
        PROVE  toServer'[i] \in AtServer \cup Members(h)
    <3> DEFINE U == PduRecords \cup {Garbage}
               s == toServer
               t == Arrives(h)
    <3>1. s \in Seq(U) /\ t \in Seq(U) /\ \A k \in DOMAIN t : t[k] \in Members(h) \cup {Garbage}
      <4>1. framing = "whole" => t = h
        BY DEF Arrives
      <4>2. framing # "whole" => t = <<Garbage>>
        BY DEF Arrives
      <4>3. h \in Seq(U)
        BY <1>4
      <4>4. s \in Seq(U)
        BY DEF IInv, Types
      <4>5. t = h \/ t = <<Garbage>>
        BY <4>1, <4>2
      <4>6. \A k \in DOMAIN h : h[k] \in Members(h)
        BY DEF Members
      <4>7. <<Garbage>> \in Seq(U) /\ \A k \in DOMAIN <<Garbage>> : <<Garbage>>[k] = Garbage
        OBVIOUS
      <4> HIDE DEF U, s, t
      <4>8. CASE t = h
        BY <4>8, <4>3, <4>4, <4>6
      <4>9. CASE t = <<Garbage>>
        BY <4>9, <4>4, <4>7
      <4> QED BY <4>5, <4>8, <4>9
    <3> HIDE DEF U, s, t
    <3>2. Len(s) \in Nat /\ Len(t) \in Nat /\ DOMAIN s = 1 .. Len(s) /\ DOMAIN t = 1 .. Len(t)
      BY <3>1
    <3>3. DOMAIN (s \o t) = 1 .. Len(s) + Len(t)
      BY <3>1, <3>2
    <3>4. toServer' = s \o t
      BY <1>1 DEF s, t
    <3>5. CASE i \in 1 .. Len(s)
      <4>1. toServer'[i] = s[i] /\ i \in DOMAIN s
        BY <3>1, <3>2, <3>4, <3>5
      <4> QED BY <4>1, <2>2 DEF AtServer, s
    <3>6. CASE i \in Len(s) + 1 .. Len(s) + Len(t)
      <4>1. toServer'[i] = t[i - Len(s)] /\ i - Len(s) \in DOMAIN t
        BY <3>1, <3>2, <3>4, <3>6
      <4> QED BY <4>1, <2>2, <3>1
    <3> QED BY <3>2, <3>3, <3>4, <3>5, <3>6
  <2>3. \A p \in AtServer' : p \in AtServer \cup Members(h)
    BY <2>2, <1>1 DEF AtServer
  <2>4. \A p \in Gone' : p \in Gone \cup Members(h)
    BY <2>1, <2>3, <1>1 DEF Gone
  <2> QED BY <2>1, <2>3, <2>4, <1>6 DEF Flight
<1>8. ChargeOf(h) \in Nat
  <2> DEFINE s == [j \in DOMAIN h |-> h[j].charge]
  <2>1. s \in Seq(Nat)
    <3>1. /\ Len(h) \in Nat /\ DOMAIN h = 1 .. Len(h)
          /\ \A j \in DOMAIN h : h[j].charge \in Nat
      <4>1. /\ Len(h) \in Nat /\ DOMAIN h = 1 .. Len(h)
            /\ \A j \in DOMAIN h : h[j] \in PduRecords
        BY <1>4
      <4>2. \A p \in PduRecords : p.charge \in Nat
        BY DEF PduRecords
      <4> QED BY <4>1, <4>2
    <3> QED BY <3>1
  <2> HIDE DEF s
  <2>2. Len(s) \in Nat /\ Len(s) \in 0 .. Len(s)
    BY <2>1
  <2> QED BY <2>1, <2>2, SumsGrow DEF ChargeOf, SumSeq, s
<1>9. credits' \in Nat
  BY <1>1, <1>8 DEF IInv, Types
<1>10. Types'
  <2>1. waitqueue' \subseteq PduRecords
    BY <1>1, <1>6 DEF IInv, Types, TypeOK
  <2>2. toServer' \in Seq(PduRecords \cup {Garbage})
    <3>1. Arrives(h) \in Seq(PduRecords \cup {Garbage})
      <4>1. h \in Seq(PduRecords \cup {Garbage}) /\ <<Garbage>> \in Seq(PduRecords \cup {Garbage})
        BY <1>4
      <4> QED BY <4>1 DEF Arrives
    <3> QED BY <3>1, <1>1 DEF IInv, Types
  <2>3. TypeOK'
    BY <2>1, <1>1, <1>3 DEF IInv, Types, TypeOK
  <2> QED BY <2>2, <2>3, <1>1, <1>9 DEF IInv, Types
<1>11. InOrder'
  <2>1. Len(outqueue') < next_call'
    BY <1>1, <1>2, <1>3
  <2>2. ASSUME NEW i \in DOMAIN outqueue' PROVE InChain(outqueue'[i], Calls[Sent' + i])
    <3>1. i \in 1 .. m - 1 /\ Sent' + i = Sent + (i + 1)
      BY <1>2, <1>3, <1>5
    <3> QED BY <3>1, <1>2, <1>3 DEF IInv, InOrder
  <2>3. ASSUME NEW p \in Gone'
        PROVE  \E a \in 1 .. Sent' : p.call = Calls[a] /\ p.part \in DOMAIN Charges[p.call]
    <3>1. CASE p \in Gone
      <4>1. \A a \in 1 .. Sent : a \in 1 .. Sent'
        BY <1>2, <1>5
      <4> QED BY <3>1, <4>1 DEF IInv, InOrder
    <3>2. CASE p \in Members(h)
      <4>1. Sent + 1 \in 1 .. Sent'
        BY <1>2, <1>5
      <4> QED BY <3>2, <4>1, <1>6
    <3> QED BY <3>1, <3>2, <1>7
  <2> QED BY <2>1, <2>2, <2>3 DEF InOrder, InChain
<1>12. FlightApart'
  BY <1>1, <1>7 DEF IInv, FlightApart
<1>13. Silent'
  <2>1. pdu \notin Members(h)
    <3>1. CASE pdu \in Reading
      <4>1. pdu \in Gone
        BY <3>1 DEF Gone
      <4> QED BY <4>1, <1>6, Places DEF IInv
    <3>2. CASE pdu \notin Reading
      BY <3>2, <1>6, NotRecords DEF Reading
    <3> QED BY <3>1, <3>2
  <2>2. \A p \in Queued' \cup waitqueue' \cup Reading' : p \in Queued \cup waitqueue \cup Reading
    BY <1>1, <1>6, <1>7
  <2> QED BY <2>1, <2>2, <1>1 DEF IInv, Silent, Id
<1>14. RepliesKnown'
  BY <1>1, <1>7, SameReplies
<1>15. ReadIsTrue' /\ RepliesAreTrue' /\ ChainInOrder'
  BY <1>1, <1>7 DEF IInv, ReadIsTrue, RepliesAreTrue, ChainInOrder, Pred, Id
<1>16. Preceded'
  <2>1. ASSUME NEW p \in Members(h), p.part > 1
        PROVE  p.prev # 0 /\ \E q \in waitqueue' : Id(q) = Pred(p) /\ q.mid = p.prev
    <3>1. PICK j \in DOMAIN h : p = h[j]
      BY DEF Members
    <3>2. /\ p.part = j /\ p.call = Calls[Sent + 1] /\ j \in Nat
          /\ DOMAIN h = 1 .. Len(h) /\ Len(h) \in Nat
      BY <3>1, <1>4 DEF InChain
    <3>3. j > 1 /\ j - 1 \in DOMAIN h
      BY <2>1, <3>1, <3>2
    <3>4. h[j].prev # 0 /\ h[j].prev = h[j - 1].mid
      BY <3>3, <1>4 DEF InChain
    <3>5. h[j - 1] \in waitqueue' /\ h[j - 1].call = Calls[Sent + 1] /\ h[j - 1].part = j - 1
      BY <3>3, <1>1, <1>4 DEF InChain, Members
    <3>6. Id(h[j - 1]) = Pred(p)
      BY <3>2, <3>5 DEF Id, Pred
    <3> QED BY <3>1, <3>4, <3>5, <3>6
  <2>2. ASSUME NEW p \in waitqueue, p.part > 1
        PROVE  /\ p.prev # 0
               /\ \/ answers'[Pred(p)] # << >>
                  \/ \E q \in waitqueue' \cup Reading' : Id(q) = Pred(p) /\ q.mid = p.prev
    BY <2>2, <1>1, <1>7 DEF IInv, Preceded
  <2> QED BY <2>1, <2>2, <1>1 DEF Preceded, Pred, Id
<1>17. Tracked'
  <2>1. Told \subseteq Told'
    <3>1. ASSUME NEW x \in Heads(outqueue) PROVE x \in Heads(outqueue') \/ x \in Ids(waitqueue')
      <4>1. PICK i \in DOMAIN outqueue : x = Id(outqueue[i][1])
        BY <3>1 DEF Heads
      <4>2. CASE i = 1
        <5>1. 1 \in DOMAIN h
          BY <1>4
        <5>2. h[1] \in waitqueue'
          BY <5>1, <1>1 DEF Members
        <5> QED BY <4>1, <4>2, <5>2, <1>3 DEF Ids
      <4>3. CASE i # 1
        <5>1. i - 1 \in 1 .. m - 1 /\ (i - 1) + 1 = i
          BY <4>3, <1>2
        <5>2. outqueue'[i - 1] = outqueue[i] /\ i - 1 \in DOMAIN outqueue'
          BY <5>1, <1>3
        <5> QED BY <4>1, <5>2 DEF Heads
      <4> QED BY <4>2, <4>3
    <3>2. Ids(waitqueue) \subseteq Ids(waitqueue')
      BY <1>1 DEF Ids
    <3> QED BY <3>1, <3>2, <1>1 DEF Told, Heads, Ids, Id
  <2>2. ASSUME NEW p \in AtServer' PROVE answers'[Id(p)] # << >> \/ Id(p) \in Told'
    <3>1. CASE p \in AtServer
      BY <3>1, <2>1, <1>1 DEF IInv, Tracked
    <3>2. CASE p \in Members(h)
      BY <3>2, <1>1 DEF Told, Ids, Id
    <3> QED BY <3>1, <3>2, <1>7
  <2> QED BY <2>1, <2>2, <1>1 DEF IInv, Tracked, Id
<1>18. Ended'
  BY <1>1 DEF Ended
<1> QED BY <1>10, <1>11, <1>12, <1>13, <1>14, <1>15, <1>16, <1>17, <1>18 DEF IInv

LEMMA DestroyIInv ==
  ASSUME IInv, DestroyContext
  PROVE  IInv'
<1> USE DEF queues, server
<1>1. /\ context' = "destroyed" /\ CallBack(Told, "SHUTDOWN")
      /\ outqueue' = << >> /\ waitqueue' = {} /\ pdu' = NoPdu
      /\ num_done' = 0 /\ recv_state' = "SPL"
      /\ toServer' = << >> /\ toClient' = << >> /\ serving' = {}
      /\ UNCHANGED <<credits, message_id, next_call, replied, framing>>
  BY DEF DestroyContext
<1>2. Queued' = {} /\ Reading' = {} /\ AtServer' = {} /\ Gone' = {} /\ Flight' = {}
  BY <1>1 DEF Queued, Reading, AtServer, Gone, Flight
<1>3. \A x \in Told \cap Pdus : /\ answers[x] = << >>
                                /\ \E p \in Flight : x = Id(p)
  <2>1. ASSUME NEW x \in Heads(outqueue) PROVE \E p \in Queued : x = Id(p)
    <3>1. PICK i \in DOMAIN outqueue : x = Id(outqueue[i][1])
      BY <2>1 DEF Heads
    <3>2. 1 \in DOMAIN outqueue[i]
      BY Places DEF IInv
    <3> QED BY <3>1, <3>2 DEF Queued, Members
  <2>2. ASSUME NEW x \in Pdus, pdu # NoPdu, x = Id(pdu) PROVE pdu \in Reading
    <3>1. x[2] # 0
      BY PduParts
    <3>2. pdu # BreakPdu
      BY <3>1, <2>2 DEF Id, BreakPdu
    <3> QED BY <3>2, <2>2 DEF Reading
  <2>3. \A x \in Told \cap Pdus : \E p \in Queued \cup waitqueue \cup Reading : x = Id(p)
    BY <2>1, <2>2 DEF Told, Ids
  <2> QED BY <2>3 DEF IInv, Silent, Flight, Gone
<1>4. "SHUTDOWN" \in Statuses /\ "SHUTDOWN" # "reply" /\ replied' = replied
  BY <1>1 DEF Statuses
<1>5. /\ answers' \in [Pdus -> {<< >>} \cup {<<t>> : t \in Statuses}]
      /\ \A x \in Pdus : answers'[x] = IF x \in Told THEN <<"SHUTDOWN">> ELSE answers[x]
      /\ \A x \in Pdus : answers[x] # << >> => answers'[x] = answers[x]
  BY <1>1, <1>3, <1>4, FirstCallBack
<1>6. RepliesAreTrue' /\ ChainInOrder'
  BY <1>1, <1>3, <1>4, CallBacksKept
<1>7. Types'
  <2>1. TypeOK'
    BY <1>1 DEF IInv, Types, TypeOK
  <2> QED BY <2>1, <1>1, <1>5 DEF IInv, Types
<1>8. InOrder'
  <2>1. Len(outqueue') = 0 /\ next_call' = next_call /\ next_call \in Nat /\ next_call > 0
    BY <1>1, CallFacts DEF IInv, Types
  <2> QED BY <2>1, <1>1, <1>2 DEF InOrder
<1>9. FlightApart' /\ RepliesKnown' /\ ReadIsTrue' /\ Preceded'
  BY <1>1, <1>2 DEF FlightApart, RepliesKnown, ReadIsTrue, Preceded
<1>10. Silent'
  <2>1. ASSUME NEW x \in Pdus, NEW a \in next_call .. Len(Calls), x[1] = Calls[a] PROVE answers'[x] = << >>
    <3>1. x \notin Told
      <4>1. ASSUME NEW p \in Flight, x = Id(p) PROVE FALSE
        BY <2>1, <4>1, NotYet DEF IInv, Id
      <4> QED BY <4>1, <1>3
    <3> QED BY <2>1, <3>1, <1>5 DEF IInv, Silent
  <2> QED BY <2>1, <1>1, <1>2 DEF Silent
<1>11. Tracked'
  <2>1. ASSUME NEW x \in Pdus, answers[x] # << >> \/ x \in Told PROVE answers'[x] # << >>
    BY <2>1, <1>5
  <2> QED BY <2>1, <1>1, <1>2 DEF IInv, Tracked
<1>12. Ended'
  BY <1>1 DEF Ended
<1> QED BY <1>6, <1>7, <1>8, <1>9, <1>10, <1>11, <1>12 DEF IInv

(* Every step keeps the invariant.                                         *)
THEOREM NextIInv == IInv /\ [Next]_vars => IInv'
<1> SUFFICES ASSUME IInv, [Next]_vars PROVE IInv'
  OBVIOUS
<1>1. CASE QueuePdu
  BY <1>1, QueuePduIInv
<1>2. CASE Write
  BY <1>2, WritePartIInv, WriteRestIInv DEF Write
<1>3. CASE Read
  BY <1>3, ReadNobodysIInv, ReadMatchedIInv, ReadRestIInv DEF Read
<1>4. CASE Serve
  BY <1>4, ReceiveIInv, AnswerIInv DEF Serve
<1>5. CASE \E r \in serving : Pend(r)
  BY <1>5, PendIInv
<1>6. CASE Break \/ Drop
  BY <1>6, BreakIInv, DropIInv
<1>7. CASE \E n \in 1..Len(Calls), k \in 0..Len(outqueue) : TimeoutPdus(n, k)
  BY <1>7, TimeoutPdusIInv
<1>8. CASE DestroyContext
  BY <1>8, DestroyIInv
<1>9. CASE UNCHANGED vars
  <2> USE <1>9 DEF vars, queues, server
  <2>1. Types' /\ Ended'
    BY DEF IInv, Types, TypeOK, Ended
  <2>2. Reading' = Reading /\ AtServer' = AtServer /\ Told' = Told /\ pdu' \notin waitqueue
    BY DEF Reading, AtServer, Told, Heads, Ids, IInv, Silent
  <2>3. /\ InOrder' /\ FlightApart' /\ Silent' /\ ReadIsTrue' /\ Preceded' /\ Tracked'
        /\ RepliesAreTrue' /\ ChainInOrder' /\ (\A p \in Flight' : p \in Flight)
    BY <2>1, <2>2, SameQueues
  <2>4. RepliesKnown'
    BY <2>3, SameReplies
  <2> QED BY <2>1, <2>3, <2>4 DEF IInv
<1> QED BY <1>1, <1>2, <1>3, <1>4, <1>5, <1>6, <1>7, <1>8, <1>9 DEF Next

-----------------------------------------------------------------------------
(* The theorems.                                                           *)

THEOREM TransportInvariant == Spec => []IInv
BY InitIInv, NextIInv, PTL DEF Spec

(* A callback runs at most once, with the answer of its own request, after *)
(* those of the chain before it, and the ids of requests in flight never   *)
(* meet: smb2_queue_pdu, smb2_read_data, smb2_timeout_pdus and             *)
(* smb2_destroy_context in any order, for any calls and charges.           *)
THEOREM CallbacksAreAlwaysTrue == Spec => []CallbacksAreTrue
<1>1. IInv => CallbacksAreTrue
  <2> SUFFICES ASSUME IInv PROVE CallbacksAreTrue
    OBVIOUS
  <2>1. AnsweredOnce
    <3>1. \A x \in Pdus : answers[x] = << >> \/ \E t \in Statuses : answers[x] = <<t>>
      BY DEF IInv, Types
    <3>2. ASSUME NEW x \in Pdus PROVE Len(answers[x]) <= 1
      <4>1. CASE answers[x] = << >>
        <5>1. Len(answers[x]) = 0
          BY <4>1
        <5> QED BY <5>1
      <4>2. ASSUME NEW t \in Statuses, answers[x] = <<t>> PROVE Len(answers[x]) <= 1
        <5>1. Len(answers[x]) = 1
          BY <4>2
        <5> QED BY <5>1
      <4> QED BY <3>1, <4>1, <4>2
    <3> QED BY <3>2 DEF AnsweredOnce
  <2>2. IdsAreDistinct
    <3> DEFINE flight == {r.request : r \in serving} \cup waitqueue
                         \cup UNION {Members(outqueue[i]) : i \in DOMAIN outqueue}
    <3>1. \A p \in flight : p \in Flight
      BY DEF Flight, Queued, Gone, AtServer
    <3>2. ASSUME NEW p \in Flight, NEW q \in Flight, Id(p) # Id(q), p.mid <= q.mid
          PROVE  p.mid < q.mid /\ p.mid + p.charge <= q.mid
      <4>1. p \in PduRecords /\ q \in PduRecords
        BY Places DEF IInv
      <4>2. p.mid \in Nat /\ q.mid \in Nat /\ p.charge \in Nat /\ q.charge \in Nat
        BY <4>1 DEF PduRecords
      <4>3. /\ IdsOf(p.charge) \in Nat /\ IdsOf(p.charge) > 0 /\ p.charge <= IdsOf(p.charge)
            /\ IdsOf(q.charge) \in Nat /\ IdsOf(q.charge) > 0
        BY <4>2, IdsFacts
      <4>4. Below(p, q) \/ Below(q, p)
        BY <3>2 DEF IInv, FlightApart, Apart
      <4> QED BY <3>2, <4>2, <4>3, <4>4 DEF Below
    <3> HIDE DEF flight
    <3>3. \A p, q \in flight : Id(p) # Id(q) /\ p.mid <= q.mid
             => p.mid < q.mid /\ p.mid + p.charge <= q.mid
      BY <3>1, <3>2
    <3> QED BY <3>3 DEF IdsAreDistinct, flight
  <2> QED BY <2>1, <2>2 DEF CallbacksAreTrue, IInv, Types
<1> QED BY <1>1, TransportInvariant, PTL

(* The client never spends a credit it was not granted.                    *)
THEOREM NeverOverdrawnAlways == Spec => []NeverOverdrawn
<1>1. IInv => NeverOverdrawn
  BY DEF IInv, Types, NeverOverdrawn
<1> QED BY <1>1, TransportInvariant, PTL

(* Once smb2_destroy_context has run, everyone who was sent or queued has  *)
(* been told.                                                              *)
THEOREM SentIsToldAlways == Spec => []SentIsTold
<1>1. IInv => SentIsTold
  <2> SUFFICES ASSUME IInv, context = "destroyed" PROVE SentIsTold
    BY DEF SentIsTold
  <2>1. Told = {}
    BY DEF IInv, Ended, Told, Heads, Ids
  <2> QED BY <2>1 DEF SentIsTold, IInv, Tracked
<1> QED BY <1>1, TransportInvariant, PTL

=============================================================================

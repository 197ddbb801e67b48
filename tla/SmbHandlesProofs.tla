-------------------------- MODULE SmbHandlesProofs --------------------------
(***************************************************************************)
(* Theorems of SmbHandles, for every number of handles, history entries,   *)
(* clients, paths and write sizes.                                         *)
(***************************************************************************)
EXTENDS SmbHandles, TLAPS, FiniteSetTheorems, SequenceTheorems, WellFoundedInduction

(* Updating entries of a history in place keeps a history of its length.   *)
LEMMA InPlace ==
    ASSUME NEW h \in Seq(Entry), NEW g,
           g = [k \in DOMAIN h |-> g[k]],
           \A k \in DOMAIN h : g[k] \in Entry
    PROVE  g \in Seq(Entry) /\ Len(g) = Len(h) /\ DOMAIN g = DOMAIN h
  <1>1. DOMAIN h = 1 .. Len(h) /\ Len(h) \in Nat
    OBVIOUS
  <1> QED
    BY <1>1, IsASeq

LEMMA UpdateBytes ==
    ASSUME NEW e \in Entry, NEW n \in Nat
    PROVE  [e EXCEPT !.bytes = n] \in Entry
  BY DEF Entry

(* write_cmd, free_handle and mark_transfer_cancelled leave a history.     *)
LEMMA EntryOfHistory ==
    ASSUME TypeOK, NEW k \in DOMAIN history
    PROVE  history[k] \in Entry
  BY DEF TypeOK

LEMMA CancelType ==
    ASSUME TypeOK, NEW name
    PROVE  /\ HistoryAfterDelete(name) \in Seq(Entry)
           /\ Len(HistoryAfterDelete(name)) = Len(history)
           /\ DOMAIN HistoryAfterDelete(name) = DOMAIN history
  <1>1. history \in Seq(Entry)
    BY DEF TypeOK
  <1>2. \A k \in DOMAIN history :
            (IF k \in Completed(name) /\ \A j \in Completed(name) : j <= k
             THEN [history[k] EXCEPT !.status = "cancelled"]
             ELSE history[k]) \in Entry
    BY EntryOfHistory DEF Entry, Status
  <1> QED
    BY <1>1, <1>2, InPlace DEF HistoryAfterDelete

-----------------------------------------------------------------------------
(* Cardinality of the used slots, one handle more or one less.             *)
LEMMA UsedFinite ==
    ASSUME NEW S \in SUBSET Ids
    PROVE  /\ IsFiniteSet(S)
           /\ Cardinality(S) \in Nat
           /\ \A i \in Ids \ S : Cardinality(S \cup {i}) = Cardinality(S) + 1
           /\ \A i \in S : Cardinality(S \ {i}) = Cardinality(S) - 1
  <1>1. IsFiniteSet(Ids)
    BY FS_Interval, SizesAssumption DEF Ids
  <1>2. IsFiniteSet(S)
    BY <1>1, FS_Subset
  <1> QED
    BY <1>2, FS_CardinalityType, FS_AddElement, FS_RemoveElement

LEMMA TableInit == Init => TableInv
  <1> SUFFICES ASSUME Init PROVE TableInv
    OBVIOUS
  <1>1. Unused \in Handle
    BY SizesAssumption DEF Unused, Handle, Untracked
  <1>2. TypeOK
    <2>1. fs \in [Paths -> Node]
      BY DEF Init, Node, Kind
    <2>2. DOMAIN held = {} /\ held \in [{} -> SUBSET Ids]
      BY DEF Init
    <2>3. history \in Seq(Entry) /\ Len(history) <= MaxTransfers
      BY SizesAssumption DEF Init
    <2> QED
      BY <1>1, <2>1, <2>2, <2>3 DEF Init, TypeOK, Connected
  <1>3. UsedIds = {}
    BY DEF Init, UsedIds, Unused
  <1>4. CountMatchesUsed
    BY <1>3, FS_EmptySet DEF Init, CountMatchesUsed
  <1>5. HeldIdsExclusive
    BY DEF Init, HeldIdsExclusive, Connected
  <1> QED
    BY <1>2, <1>4, <1>5 DEF TableInv

(* Resetting the whole table, whatever becomes of the log and the stats.   *)
LEMMA TableReset ==
    ASSUME TableInv,
           handles' = [i \in Ids |-> Unused], openCount' = 0,
           held' = [c \in {} |-> {}], running' = FALSE, fs' = fs,
           history' \in Seq(Entry), Len(history') <= MaxTransfers,
           bytesWritten' \in Nat, connectionCount' \in Nat
    PROVE  TableInv'
  <1>1. Unused \in Handle
    BY SizesAssumption DEF Unused, Handle, Untracked
  <1>2. TypeOK'
    BY <1>1 DEF TableInv, TypeOK, Connected
  <1>3. UsedIds' = {}
    BY DEF UsedIds, Unused
  <1>4. CountMatchesUsed'
    BY <1>3, FS_EmptySet DEF CountMatchesUsed
  <1>5. HeldIdsExclusive'
    BY DEF HeldIdsExclusive, Connected
  <1> QED
    BY <1>2, <1>4, <1>5 DEF TableInv

(* Steps that leave the table alone and take no client an id it lacks.     *)
LEMMA TableKept ==
    ASSUME TableInv, UNCHANGED table, fs' = fs,
           running' \in BOOLEAN, DOMAIN held' \subseteq Clients,
           held' \in [DOMAIN held' -> SUBSET Ids],
           \A c \in DOMAIN held' :
               \/ held'[c] = {}
               \/ c \in DOMAIN held /\ held'[c] = held[c],
           history' \in Seq(Entry), Len(history') <= MaxTransfers,
           bytesWritten' \in Nat, connectionCount' \in Nat
    PROVE  TableInv'
  <1>1. TypeOK'
    BY DEF TableInv, TypeOK, Connected, table
  <1>2. UsedIds' = UsedIds
    BY DEF UsedIds, table
  <1>3. CountMatchesUsed'
    BY <1>2 DEF TableInv, CountMatchesUsed, table
  <1>4. HeldIdsExclusive'
    BY DEF TableInv, HeldIdsExclusive, Connected, table
  <1> QED
    BY <1>1, <1>3, <1>4 DEF TableInv

LEMMA TableCreate ==
    ASSUME TableInv, NEW c \in Clients, NEW p \in Paths,
           NEW kind \in Kind, NEW doc \in BOOLEAN,
           NEW disp \in Dispositions, Create(c, p, kind, disp, doc)
    PROVE  TableInv'
  <1> USE DEF TableInv
  <1>1. PICK i \in Ids :
            /\ IsLowestFree(i)
            /\ handles' = [handles EXCEPT ![i] = Opened(p, kind)]
            /\ held' = [held EXCEPT ![c] = @ \cup {i}]
    BY DEF Create
  <1>2. Opened(p, kind) \in Handle /\ Opened(p, kind).used
    BY SizesAssumption DEF Opened, Untracked, Handle
  <1>3. i \in Ids \ UsedIds
    BY <1>1 DEF IsLowestFree, FreeIds
  <1>4. TypeOK'
    <2>1. handles' \in [Ids -> Handle]
      BY <1>1, <1>2 DEF TypeOK
    <2>2. fs' \in [Paths -> Node]
      BY DEF Create, TypeOK, NodesAfterCreate, Node, Kind
    <2>3. held' \in [Connected' -> SUBSET Ids] /\ Connected' = Connected
      BY <1>1 DEF TypeOK, Connected, Create
    <2>4. history' \in Seq(Entry) /\ Len(history') <= MaxTransfers
      BY CancelType DEF Create, TypeOK
    <2> QED
      BY <2>1, <2>2, <2>3, <2>4 DEF TypeOK, Create, stats
  <1>5. UsedIds' = UsedIds \cup {i}
    BY <1>1, <1>2, <1>3 DEF UsedIds, TypeOK
  <1>6. CountMatchesUsed'
    BY <1>3, <1>5, UsedFinite DEF CountMatchesUsed, Create, UsedIds
  <1>7. HeldIdsExclusive'
    <2>1. \A d \in Connected : i \notin held[d]
      BY <1>3 DEF HeldIdsExclusive, UsedIds
    <2>2. Connected' = Connected /\ c \in Connected
      BY <1>1 DEF Connected, Create, TypeOK
    <2> QED
      BY <1>1, <1>2, <2>1, <2>2 DEF HeldIdsExclusive, TypeOK
  <1> QED
    BY <1>4, <1>6, <1>7

(* A write goes to the entry its handle has, or takes the next one.        *)
KeepsSlot(i) ==
    /\ handles'[i].slot = handles[i].slot
    /\ handles[i].slot # Untracked \/ Len(history) >= MaxTransfers
    /\ DOMAIN history' = DOMAIN history

TakesSlot(i, n) ==
    /\ handles[i].slot = Untracked
    /\ handles'[i].slot = Len(history) + 1
    /\ DOMAIN history' = DOMAIN history \cup {Len(history) + 1}
    /\ history'[Len(history) + 1] =
          [name |-> NameOf[handles[i].path],
           bytes |-> handles[i].bytes + n, status |-> "active"]

(* What write_cmd leaves in the log.                                       *)
LEMMA WriteHistory ==
    ASSUME TypeOK, NEW c \in Clients, NEW i \in Ids, NEW n \in Chunks,
           Write(c, i, n)
    PROVE  /\ history' \in Seq(Entry)
           /\ Len(history') <= MaxTransfers
           /\ handles' \in [Ids -> Handle]
           /\ \A j \in Ids \ {i} : handles'[j] = handles[j]
           /\ handles'[i].used /\ handles'[i].path = handles[i].path
           /\ handles'[i].bytes = handles[i].bytes + n
           /\ KeepsSlot(i) \/ TakesSlot(i, n)
           /\ \A k \in DOMAIN history :
                 history'[k] = IF k = handles'[i].slot
                               THEN [history[k] EXCEPT !.bytes = handles[i].bytes + n]
                               ELSE history[k]
  <1> DEFINE takes == handles[i].slot = Untracked /\ Len(history) < MaxTransfers
             fresh == [name |-> NameOf[handles[i].path], bytes |-> 0,
                       status |-> "active"]
             hist  == IF takes THEN Append(history, fresh) ELSE history
             slot  == IF takes THEN Len(history) + 1 ELSE handles[i].slot
             total == handles[i].bytes + n
             upd(k) == IF k = slot THEN [hist[k] EXCEPT !.bytes = total]
                       ELSE hist[k]
  <1>1. /\ handles' = [handles EXCEPT ![i].slot = slot, ![i].bytes = total]
        /\ history' = [k \in DOMAIN hist |-> upd(k)]
        /\ handles[i].used
    BY DEF Write, HasRoom, Total
  <1>2. /\ handles[i] \in Handle /\ handles[i].path \in Paths
        /\ handles[i].slot \in 0 .. MaxTransfers /\ handles[i].bytes \in Nat
    <2>1. handles[i] \in Handle /\ handles[i] # Unused
      BY <1>1 DEF TypeOK, Unused
    <2> QED
      BY <2>1 DEF Handle
  <1>3. total \in Nat /\ history \in Seq(Entry) /\ Len(history) <= MaxTransfers
    BY <1>2, SizesAssumption DEF TypeOK
  <1>9. slot \in 0 .. MaxTransfers
    BY <1>2, <1>3, SizesAssumption
  <1>10. /\ handles' \in [Ids -> Handle]
         /\ \A j \in Ids \ {i} : handles'[j] = handles[j]
         /\ handles'[i].used /\ handles'[i].path = handles[i].path
         /\ handles'[i].bytes = total /\ handles'[i].slot = slot
    <2> HIDE DEF slot, total
    <2>1. handles[i] # Unused /\ handles[i] \in Handle
      BY <1>1, <1>2 DEF Unused
    <2>2. [handles[i] EXCEPT !.slot = slot, !.bytes = total] \in Handle
      BY <1>3, <1>9, <2>1 DEF Handle
    <2>3. handles' = [handles EXCEPT ![i] =
                        [handles[i] EXCEPT !.slot = slot, !.bytes = total]]
      BY <1>1 DEF TypeOK
    <2>4. /\ handles'[i] = [handles[i] EXCEPT !.slot = slot, !.bytes = total]
          /\ \A j \in Ids \ {i} : handles'[j] = handles[j]
          /\ handles' \in [Ids -> Handle]
      BY <2>2, <2>3 DEF TypeOK
    <2>5. /\ handles'[i].used = handles[i].used
          /\ handles'[i].path = handles[i].path
          /\ handles'[i].bytes = total /\ handles'[i].slot = slot
      BY <2>1, <2>4 DEF Handle
    <2> QED
      BY <1>1, <2>4, <2>5
  <1>4. fresh \in Entry
    BY <1>2, PathsAssumption DEF Entry, Status
  <1>5. CASE takes
    <2> DEFINE app == Append(history, fresh)
    <2>1. /\ app \in Seq(Entry) /\ Len(app) = Len(history) + 1
          /\ DOMAIN app = DOMAIN history \cup {Len(history) + 1}
          /\ \A k \in DOMAIN history : app[k] = history[k]
          /\ app[Len(history) + 1] = fresh
      BY <1>3, <1>4
    <2>2. hist = app /\ slot = Len(history) + 1
      BY <1>5
    <2>3. \A k \in DOMAIN app : upd(k) \in Entry
      <3> HIDE DEF app
      <3> QED
        BY <1>3, <2>1, <2>2, UpdateBytes
    <2>4. /\ history' \in Seq(Entry) /\ Len(history') = Len(app)
          /\ DOMAIN history' = DOMAIN app
      <3>1. /\ history' = [k \in DOMAIN app |-> history'[k]]
            /\ \A k \in DOMAIN app : history'[k] \in Entry
        BY <1>1, <2>2, <2>3
      <3> HIDE DEF app
      <3> QED
        BY <2>1, <3>1, InPlace
    <2>7. history'[Len(history) + 1] =
              [name |-> NameOf[handles[i].path], bytes |-> total,
               status |-> "active"]
      BY <1>1, <2>1, <2>2
    <2>8. \A k \in DOMAIN history : history'[k] = history[k] /\ k # slot
      BY <1>1, <1>3, <2>1, <2>2
    <2>9. Len(history') <= MaxTransfers
      BY <1>3, <1>5, <2>1, <2>4, SizesAssumption
    <2>10. DOMAIN history' = DOMAIN history \cup {Len(history) + 1}
      BY <2>1, <2>4
    <2>11. handles[i].slot = Untracked
      BY <1>5
    <2>12. history' \in Seq(Entry)
      BY <2>4
    <2>13. handles'[i].slot = Len(history) + 1
      <3> HIDE DEF slot, total, hist, takes, fresh, upd
      <3> QED
        BY <1>10, <2>2
    <2>14. \A k \in DOMAIN history :
             history'[k] = IF k = handles'[i].slot
                           THEN [history[k] EXCEPT !.bytes = handles[i].bytes + n]
                           ELSE history[k]
      BY <2>2, <2>8, <2>13
    <2>15. TakesSlot(i, n)
      BY <2>7, <2>10, <2>11, <2>13 DEF TakesSlot
    <2> HIDE DEF slot, hist, takes, fresh, upd
    <2> QED
      BY <1>10, <2>9, <2>12, <2>14, <2>15
  <1>6. CASE ~takes
    <2>1. hist = history /\ slot = handles[i].slot
      BY <1>6
    <2>2. \A k \in DOMAIN history : upd(k) \in Entry
      BY <1>3, <2>1, EntryOfHistory, UpdateBytes
    <2>3. /\ history' \in Seq(Entry) /\ Len(history') = Len(history)
          /\ DOMAIN history' = DOMAIN history
      <3>1. /\ history' = [k \in DOMAIN history |-> history'[k]]
            /\ \A k \in DOMAIN history : history'[k] \in Entry
        BY <1>1, <2>1, <2>2
      <3> QED
        BY <1>3, <3>1, InPlace
    <2>4. handles[i].slot # Untracked \/ Len(history) >= MaxTransfers
      BY <1>3, <1>6, SizesAssumption
    <2>5. handles'[i].slot = handles[i].slot
      <3> HIDE DEF slot, total, hist, takes, fresh, upd
      <3> QED
        BY <1>10, <2>1
    <2>6. \A k \in DOMAIN history :
             history'[k] = IF k = handles'[i].slot
                           THEN [history[k] EXCEPT !.bytes = handles[i].bytes + n]
                           ELSE history[k]
      BY <1>1, <2>1, <2>5
    <2>7. Len(history') <= MaxTransfers /\ history' \in Seq(Entry)
      BY <1>3, <2>3
    <2>8. KeepsSlot(i)
      BY <2>3, <2>4, <2>5 DEF KeepsSlot
    <2> HIDE DEF slot, hist, takes, fresh, upd
    <2> QED
      BY <1>10, <2>6, <2>7, <2>8
  <1> QED
    BY <1>5, <1>6

LEMMA TableWrite ==
    ASSUME TableInv, NEW c \in Clients, NEW i \in Ids, NEW n \in Chunks,
           Write(c, i, n)
    PROVE  TableInv'
  <1> USE DEF TableInv
  <1>1. /\ handles' \in [Ids -> Handle]
        /\ \A j \in Ids \ {i} : handles'[j] = handles[j]
        /\ handles'[i].used
        /\ history' \in Seq(Entry) /\ Len(history') <= MaxTransfers
    BY WriteHistory
  <1>2. /\ handles[i].used /\ bytesWritten' \in Nat
        /\ UNCHANGED <<fs, openCount, running, held, connectionCount>>
    BY SizesAssumption DEF Write, TypeOK
  <1>4. TypeOK'
    BY <1>1, <1>2 DEF TypeOK, Connected
  <1>5. \A j \in Ids : handles'[j].used = handles[j].used
    BY <1>1, <1>2 DEF TypeOK, Handle, Unused
  <1>6. UsedIds' = UsedIds
    BY <1>5 DEF UsedIds
  <1>7. CountMatchesUsed'
    BY <1>6 DEF CountMatchesUsed, Write
  <1>8. HeldIdsExclusive'
    BY <1>5 DEF HeldIdsExclusive, Write, Connected, TypeOK
  <1> QED
    BY <1>4, <1>7, <1>8

(* What free_handle leaves in the log.                                     *)
LEMMA FreeHistory ==
    ASSUME TypeOK, NEW i \in Ids, FreeHandle(i)
    PROVE  /\ history' \in Seq(Entry)
           /\ Len(history') = Len(history)
           /\ DOMAIN history' = DOMAIN history
           /\ \A k \in DOMAIN history :
                 history'[k] = IF k = handles[i].slot
                               THEN [history[k] EXCEPT !.status = "completed"]
                               ELSE history[k]
  <1>1. /\ history' = [k \in DOMAIN history |-> history'[k]]
        /\ \A k \in DOMAIN history :
                 history'[k] = IF k = handles[i].slot
                               THEN [history[k] EXCEPT !.status = "completed"]
                               ELSE history[k]
    BY DEF FreeHandle
  <1>2. \A k \in DOMAIN history : history'[k] \in Entry
    BY <1>1, EntryOfHistory DEF Entry, Status
  <1> QED
    BY <1>1, <1>2, InPlace DEF TypeOK

LEMMA TableClose ==
    ASSUME TableInv, NEW c \in Clients, NEW i \in Ids,
           NEW id \in {i, RelatedId}, Close(c, i, id)
    PROVE  TableInv'
  <1> USE DEF TableInv
  <1>1. /\ c \in Connected /\ i \in held[c]
        /\ held' = [held EXCEPT ![c] = @ \ {i}]
        /\ UNCHANGED <<fs, running, stats>>
    BY DEF Close
  <1>2. /\ Connected' = Connected
        /\ held' \in [Connected' -> SUBSET Ids]
        /\ \A d \in Connected : held'[d] \subseteq held[d]
        /\ i \notin held'[c]
    BY <1>1 DEF TypeOK, Connected
  <1>3. CASE id \in Ids /\ id \in UsedIds
    <2>1. id = i /\ FreeHandle(i)
      BY <1>3, SizesAssumption DEF Close, RelatedId, Ids
    <2>2. history' \in Seq(Entry) /\ Len(history') <= MaxTransfers
      BY <2>1, FreeHistory DEF TypeOK
    <2>3. handles' = [handles EXCEPT ![i] = Unused] /\ openCount' = openCount - 1
      BY <2>1 DEF FreeHandle
    <2>4. UsedIds' = UsedIds \ {i}
      BY <2>3 DEF UsedIds, TypeOK, Unused
    <2>5. i \in UsedIds
      BY <1>3, <2>1
    <2>6. CountMatchesUsed' /\ openCount' \in Nat
      BY <2>3, <2>4, <2>5, UsedFinite DEF CountMatchesUsed, UsedIds
    <2>7. TypeOK'
      BY <1>1, <1>2, <2>2, <2>3, <2>6 DEF TypeOK, stats, Handle
    <2>8. \A d \in Connected : i \notin held'[d]
      BY <1>1, <1>2 DEF HeldIdsExclusive
    <2>9. HeldIdsExclusive'
      BY <1>2, <2>3, <2>8 DEF HeldIdsExclusive, TypeOK
    <2> QED
      BY <2>6, <2>7, <2>9
  <1>4. CASE ~(id \in Ids /\ id \in UsedIds)
    <2>1. UNCHANGED <<table, history>>
      BY <1>4 DEF Close
    <2>2. TypeOK'
      BY <1>1, <1>2, <2>1 DEF TypeOK, stats, table
    <2>3. CountMatchesUsed'
      BY <2>1 DEF CountMatchesUsed, UsedIds, table
    <2>4. HeldIdsExclusive'
      BY <1>2, <2>1 DEF HeldIdsExclusive, table
    <2> QED
      BY <2>2, <2>3, <2>4
  <1> QED
    BY <1>3, <1>4

LEMMA TableNext == TableInv /\ [Next]_vars => TableInv'
  <1> SUFFICES ASSUME TableInv, [Next]_vars PROVE TableInv'
    OBVIOUS
  <1>0. TypeOK
    BY DEF TableInv
  <1>1. CASE Start
    BY <1>0, <1>1, TableKept DEF Start, TypeOK, Connected
  <1>2. CASE Stop
    BY <1>0, <1>2, TableReset DEF Stop, stats, TypeOK
  <1>3. CASE ServerDies
    BY <1>0, <1>3, TableKept DEF ServerDies, stats, TypeOK
  <1>e. <<>> \in Seq(Entry) /\ Len(<<>>) <= MaxTransfers
    BY SizesAssumption
  <1>4. CASE ClearTransfers
    BY <1>0, <1>4, <1>e, TableKept
    DEF ClearTransfers, stats, TypeOK, Connected
  <1>5. CASE ProcessRestart
    BY <1>0, <1>5, <1>e, TableReset DEF ProcessRestart
  <1>6. CASE Serve
    <2> PICK c \in Clients :
          \/ Connect(c)
          \/ Disconnect(c)
          \/ \E p \in Paths, kind \in Kind, disp \in Dispositions, doc \in BOOLEAN :
                Create(c, p, kind, disp, doc)
          \/ \E i \in Ids :
                \/ \E n \in Chunks : Write(c, i, n)
                \/ \E id \in {i, RelatedId} : Close(c, i, id)
      BY <1>6 DEF Serve
    <2>1. CASE Connect(c)
      BY <1>0, <2>1, TableKept, SizesAssumption DEF Connect, TypeOK, Connected
    <2>2. CASE Disconnect(c)
      BY <1>0, <2>2, TableKept DEF Disconnect, TypeOK, Connected, stats
    <2>3. CASE \E p \in Paths, kind \in Kind, disp \in Dispositions, doc \in BOOLEAN :
                Create(c, p, kind, disp, doc)
      BY <2>3, TableCreate
    <2>4. CASE \E i \in Ids, n \in Chunks : Write(c, i, n)
      BY <2>4, TableWrite
    <2>5. CASE \E i \in Ids : \E id \in {i, RelatedId} : Close(c, i, id)
      BY <2>5, TableClose
    <2> QED
      BY <2>1, <2>2, <2>3, <2>4, <2>5
  <1>7. CASE UNCHANGED vars
    BY <1>0, <1>7, TableKept DEF vars, table, TypeOK, Connected
  <1> QED
    BY <1>1, <1>2, <1>3, <1>4, <1>5, <1>6, <1>7 DEF Next, RestartNext

(* The handle table of smb2_server_jni.c under every operation of the      *)
(* module: types, handle_table.count, and file ids that belong to at most  *)
(* one connected client and stay valid while it holds them.                *)
THEOREM TableInvariant == Spec => []TableInv
  BY TableInit, TableNext, PTL DEF Spec

(* handle_table.count is the number of used handles.                       *)
THEOREM CountIsUsed == Spec => []CountMatchesUsed
  BY TableInvariant, PTL DEF TableInv

(* A file id a client holds is in use and is no other client's.            *)
THEOREM IdsExclusive == Spec => []HeldIdsExclusive
  BY TableInvariant, PTL DEF TableInv

-----------------------------------------------------------------------------
(* An entry of the log after a step, given the entry before.               *)
EntryForward(old, new) ==
    /\ new.name = old.name
    /\ new.status = old.status \/ <<old.status, new.status>> \in Forward
    /\ old.status # "active" => new.bytes = old.bytes

LogForward ==
    /\ Len(history') >= Len(history)
    /\ \A k \in DOMAIN history : EntryForward(history[k], history'[k])

LEMMA LogSame ==
    ASSUME TypeOK, LogInv, history' = history,
           \A i \in Ids : handles'[i].used =>
               /\ handles[i].used
               /\ handles'[i].slot = handles[i].slot
    PROVE  LogInv' /\ LogForward
  <1>1. UsedIds' \subseteq UsedIds
    BY DEF UsedIds
  <1>2. \A i \in UsedIds' : i \in Ids /\ handles'[i].slot = handles[i].slot
    BY DEF UsedIds
  <1>3. TrackedOnce'
    BY <1>1, <1>2 DEF LogInv, TrackedOnce
  <1>4. FinishedIsClosed'
    BY <1>1, <1>2 DEF LogInv, FinishedIsClosed
  <1>5. LogForward
    BY DEF LogForward, EntryForward, TypeOK
  <1> QED
    BY <1>3, <1>4, <1>5 DEF LogInv

LEMMA LogCreate ==
    ASSUME TypeOK, LogInv, NEW c \in Clients, NEW p \in Paths,
           NEW kind \in Kind, NEW doc \in BOOLEAN,
           NEW disp \in Dispositions, Create(c, p, kind, disp, doc)
    PROVE  LogInv' /\ LogForward
  <1>1. PICK i \in Ids :
            /\ IsLowestFree(i)
            /\ handles' = [handles EXCEPT ![i] = Opened(p, kind)]
    BY DEF Create
  <1>2. UsedIds' = UsedIds \cup {i} /\ i \notin UsedIds
    BY <1>1 DEF IsLowestFree, FreeIds, UsedIds, Opened, TypeOK
  <1>3. /\ handles'[i].slot = Untracked
        /\ \A j \in UsedIds : handles'[j] = handles[j]
    BY <1>1, <1>2 DEF Opened, TypeOK, UsedIds
  <1>4. /\ DOMAIN history' = DOMAIN history /\ Len(history') = Len(history)
        /\ \A k \in DOMAIN history :
              \/ history'[k] = history[k]
              \/ /\ history[k].status = "completed"
                 /\ history'[k] = [history[k] EXCEPT !.status = "cancelled"]
    BY CancelType DEF Create, HistoryAfterDelete, Completed, TypeOK
  <1>5. TrackedOnce'
    BY <1>2, <1>3, <1>4 DEF LogInv, TrackedOnce
  <1>6. Untracked \notin DOMAIN history
    BY DEF Untracked, TypeOK
  <1>7. FinishedIsClosed'
    BY <1>2, <1>3, <1>4, <1>6 DEF LogInv, FinishedIsClosed
  <1>8. LogForward
    <2> SUFFICES ASSUME NEW k \in DOMAIN history
                 PROVE  EntryForward(history[k], history'[k])
      BY <1>4 DEF LogForward, TypeOK
    <2> QED
      BY <1>4, EntryOfHistory DEF EntryForward, Entry, Forward
  <1> QED
    BY <1>5, <1>7, <1>8 DEF LogInv

LEMMA LogWrite ==
    ASSUME TypeOK, LogInv, NEW c \in Clients, NEW i \in Ids,
           NEW n \in Chunks, Write(c, i, n)
    PROVE  LogInv' /\ LogForward
  <1>1. /\ i \in UsedIds
        /\ \A j \in Ids \ {i} : handles'[j] = handles[j]
        /\ handles'[i].used
    BY WriteHistory DEF Write, UsedIds
  <1>2. UsedIds' = UsedIds
    BY <1>1 DEF UsedIds
  <1>3. \A k \in DOMAIN history :
            history'[k] = IF k = handles'[i].slot
                          THEN [history[k] EXCEPT !.bytes = handles[i].bytes + n]
                          ELSE history[k]
    BY WriteHistory
  <1>4. /\ Untracked \notin DOMAIN history
        /\ Len(history) + 1 \notin DOMAIN history
        /\ Untracked # Len(history) + 1
    BY DEF Untracked, TypeOK
  <1>5. CASE KeepsSlot(i)
    <2> USE <1>5 DEF KeepsSlot
    <2>1. \A j \in UsedIds : handles'[j].slot = handles[j].slot
      BY <1>1 DEF UsedIds
    <2>2. TrackedOnce'
      BY <1>2, <1>5, <2>1 DEF LogInv, TrackedOnce
    <2>3. \A k \in DOMAIN history : history'[k].status = history[k].status
      BY <1>3, EntryOfHistory DEF Entry
    <2>4. FinishedIsClosed'
      BY <1>2, <1>5, <2>1, <2>3 DEF LogInv, FinishedIsClosed
    <2>5. ASSUME NEW k \in DOMAIN history
          PROVE  EntryForward(history[k], history'[k])
      <3>1. k = handles[i].slot => history[k].status = "active"
        BY <1>1 DEF LogInv, FinishedIsClosed
      <3> QED
        BY <1>3, <1>5, <3>1, EntryOfHistory DEF EntryForward, Entry
    <2>6. Len(history') >= Len(history)
      BY <1>5, WriteHistory DEF TypeOK
    <2> QED
      BY <2>2, <2>4, <2>5, <2>6 DEF LogInv, LogForward
  <1>6. CASE TakesSlot(i, n)
    <2> USE <1>6 DEF TakesSlot
    <2>1. \A k \in DOMAIN history : history'[k] = history[k]
      BY <1>3, <1>4, <1>6
    <2>2. \A j \in UsedIds \ {i} :
            /\ handles'[j].slot = handles[j].slot
            /\ handles[j].slot # Untracked => handles[j].slot \in DOMAIN history
      BY <1>1 DEF LogInv, TrackedOnce, UsedIds
    <2>3. \A j \in UsedIds \ {i} : handles'[j].slot # handles'[i].slot
      BY <1>4, <1>6, <2>2
    <2>4. TrackedOnce'
      <3> SUFFICES ASSUME NEW a \in UsedIds, handles'[a].slot # Untracked
                   PROVE  /\ handles'[a].slot \in DOMAIN history'
                          /\ \A b \in UsedIds \ {a} : handles'[b].slot # handles'[a].slot
        BY <1>2 DEF TrackedOnce
      <3>1. CASE a = i
        BY <1>6, <2>3, <3>1
      <3>2. CASE a # i
        BY <1>1, <1>6, <2>2, <2>3, <3>2 DEF LogInv, TrackedOnce
      <3> QED
        BY <3>1, <3>2
    <2>5. FinishedIsClosed'
      <3> SUFFICES ASSUME NEW a \in UsedIds, handles'[a].slot \in DOMAIN history'
                   PROVE  history'[handles'[a].slot].status = "active"
        BY <1>2 DEF FinishedIsClosed
      <3>1. CASE a = i
        BY <1>6, <3>1
      <3>2. CASE a # i
        BY <1>6, <2>1, <2>2, <2>3, <3>2 DEF LogInv, FinishedIsClosed
      <3> QED
        BY <3>1, <3>2
    <2>6. LogForward
      BY <1>6, <2>1, WriteHistory DEF LogForward, EntryForward, TypeOK
    <2> QED
      BY <2>4, <2>5, <2>6 DEF LogInv
  <1> QED
    BY <1>5, <1>6, WriteHistory

LEMMA LogFree ==
    ASSUME TypeOK, LogInv, NEW i \in Ids, i \in UsedIds, FreeHandle(i)
    PROVE  LogInv' /\ LogForward
  <1>1. /\ DOMAIN history' = DOMAIN history /\ Len(history') = Len(history)
        /\ \A k \in DOMAIN history :
              history'[k] = IF k = handles[i].slot
                            THEN [history[k] EXCEPT !.status = "completed"]
                            ELSE history[k]
    BY FreeHistory
  <1>2. handles' = [handles EXCEPT ![i] = Unused]
    BY DEF FreeHandle
  <1>3. UsedIds' = UsedIds \ {i} /\ \A j \in UsedIds' : handles'[j] = handles[j]
    BY <1>2 DEF UsedIds, Unused, TypeOK
  <1>4. TrackedOnce'
    BY <1>1, <1>3 DEF LogInv, TrackedOnce
  <1>5. Untracked \notin DOMAIN history
    BY DEF Untracked, TypeOK
  <1>6. FinishedIsClosed'
    <2> SUFFICES ASSUME NEW j \in UsedIds', handles'[j].slot \in DOMAIN history'
                 PROVE  history'[handles'[j].slot].status = "active"
      BY DEF FinishedIsClosed
    <2>1. handles[j].slot # handles[i].slot
      BY <1>1, <1>3, <1>5 DEF LogInv, TrackedOnce
    <2> QED
      BY <1>1, <1>3, <2>1 DEF LogInv, FinishedIsClosed
  <1>7. LogForward
    <2> SUFFICES ASSUME NEW k \in DOMAIN history
                 PROVE  EntryForward(history[k], history'[k])
      BY <1>1 DEF LogForward, TypeOK
    <2>1. k = handles[i].slot => history[k].status = "active"
      BY DEF LogInv, FinishedIsClosed
    <2> QED
      BY <1>1, <2>1, EntryOfHistory DEF EntryForward, Entry, Forward
  <1> QED
    BY <1>4, <1>6, <1>7 DEF LogInv

LEMMA LogNext == TypeOK /\ LogInv /\ [RestartNext]_vars => LogInv' /\ LogForward
  <1> SUFFICES ASSUME TypeOK, LogInv, [RestartNext]_vars
               PROVE  LogInv' /\ LogForward
    OBVIOUS
  <1>1. CASE Start \/ ServerDies \/ UNCHANGED vars
    BY <1>1, LogSame DEF Start, ServerDies, vars, table
  <1>2. CASE Stop
    BY <1>2, LogSame DEF Stop, Unused
  <1>3. CASE Serve
    <2> PICK c \in Clients :
          \/ Connect(c)
          \/ Disconnect(c)
          \/ \E p \in Paths, kind \in Kind, disp \in Dispositions, doc \in BOOLEAN :
                Create(c, p, kind, disp, doc)
          \/ \E i \in Ids :
                \/ \E n \in Chunks : Write(c, i, n)
                \/ \E id \in {i, RelatedId} : Close(c, i, id)
      BY <1>3 DEF Serve
    <2>1. CASE Connect(c) \/ Disconnect(c)
      BY <2>1, LogSame DEF Connect, Disconnect, table
    <2>2. CASE \E p \in Paths, kind \in Kind, disp \in Dispositions, doc \in BOOLEAN :
                Create(c, p, kind, disp, doc)
      BY <2>2, LogCreate
    <2>3. CASE \E i \in Ids, n \in Chunks : Write(c, i, n)
      BY <2>3, LogWrite
    <2>4. CASE \E i \in Ids : \E id \in {i, RelatedId} : Close(c, i, id)
      <3>0. PICK i \in Ids : \E id \in {i, RelatedId} : Close(c, i, id)
        BY <2>4
      <3> PICK id \in {i, RelatedId} : Close(c, i, id)
        BY <3>0
      <3>1. CASE id \in Ids /\ id \in UsedIds
        BY <3>1, LogFree DEF Close
      <3>2. CASE ~(id \in Ids /\ id \in UsedIds)
        BY <3>2, LogSame DEF Close, table
      <3> QED
        BY <3>1, <3>2
    <2> QED
      BY <2>1, <2>2, <2>3, <2>4
  <1> QED
    BY <1>1, <1>2, <1>3 DEF RestartNext

LEMMA RestartTable == RestartSpec => []TypeOK
  <1>1. [RestartNext]_vars => [Next]_vars
    BY DEF Next
  <1> QED
    BY <1>1, TableInit, TableNext, PTL DEF RestartSpec, TableInv

(* Through stops, crashes of the serve loop and restarts, and as long as   *)
(* the log is not cleared, an entry counts one open handle and is finished *)
(* only when that handle is closed.                                        *)
THEOREM LogInvariant == RestartSpec => []LogInv
  <1>1. Init => LogInv
    BY DEF Init, LogInv, TrackedOnce, FinishedIsClosed, UsedIds, Unused
  <1> QED
    BY <1>1, LogNext, RestartTable, PTL DEF RestartSpec, LogInv

(* The log never shrinks, and an entry moves from active to completed to   *)
(* cancelled only, keeping its name and, once finished, its size.          *)
THEOREM LogForwardAlways == RestartSpec => LogMovesForward
  <1>1. LogForward => /\ Len(history') >= Len(history)
                      /\ \A k \in DOMAIN history :
                            LET old == history[k]  new == history'[k] IN
                            /\ new.name = old.name
                            /\ new.status = old.status \/ <<old.status, new.status>> \in Forward
                            /\ old.status # "active" => new.bytes = old.bytes
    BY DEF LogForward, EntryForward
  <1>2. TypeOK /\ LogInv /\ [RestartNext]_vars => LogForward
    BY LogNext
  <1> QED
    BY <1>1, <1>2, LogInvariant, RestartTable, PTL DEF RestartSpec, LogMovesForward, LogInv
-----------------------------------------------------------------------------
(* Bytes of a log, by induction: a set of numbers that is not empty has a  *)
(* least member.                                                           *)
LEMMA LeastNumber ==
    ASSUME NEW T \in SUBSET Nat, T # {}
    PROVE  \E n \in T : \A m \in T : n <= m
  <1> DEFINE R == OpToRel(<, Nat)
  <1>1. IsWellFoundedOn(R, Nat)
    BY NatLessThanWellFounded
  <1> HIDE DEF R
  <1>2. PICK n \in T : \A m \in T : ~ (<<m, n>> \in R)
    BY <1>1, WFMin
  <1>3. \A m \in Nat : m < n => <<m, n>> \in R
    BY DEF R, OpToRel
  <1>4. \A m \in T : m \in Nat /\ n \in Nat /\ ~ (m < n)
    BY <1>2, <1>3
  <1> QED
    BY <1>4

(* The recursive function of BytesOf exists, hence satisfies its equation. *)
LEMMA BytesOfIs ==
    ASSUME NEW log \in Seq(Entry)
    PROVE  /\ BytesOf(log)[0] = 0
           /\ \A k \in 1 .. Len(log) :
                 BytesOf(log)[k] = BytesOf(log)[k - 1] + log[k].bytes
  <1> DEFINE Are(f, n) == f = [k \in 0 .. n |-> IF k = 0 THEN 0 ELSE f[k - 1] + log[k].bytes]
             T == {n \in 0 .. Len(log) : ~ \E f : Are(f, n)}
  <1>1. Len(log) \in Nat
    OBVIOUS
  <1>2. T = {}
    <2> SUFFICES ASSUME T # {} PROVE FALSE
      OBVIOUS
    <2>1. T \in SUBSET Nat
      OBVIOUS
    <2> HIDE DEF T
    <2>2. PICK n \in T : \A m \in T : n <= m
      BY <2>1, LeastNumber
    <2>3. n \in 0 .. Len(log) /\ ~ \E f : Are(f, n)
      BY DEF T
    <2>4. CASE n = 0
      <3>1. Are([k \in 0 .. 0 |-> 0], 0)
        OBVIOUS
      <3> QED
        BY <2>3, <2>4, <3>1
    <2>5. CASE n # 0
      <3>1. n - 1 \in 0 .. Len(log) /\ n - 1 \notin T /\ n \in Nat
        BY <1>1, <2>2, <2>3, <2>5
      <3>2. PICK f : Are(f, n - 1)
        BY <3>1 DEF T
      <3> DEFINE g == [k \in 0 .. n |-> IF k = n THEN f[n - 1] + log[n].bytes ELSE f[k]]
      <3>3. Are(g, n)
        BY <3>1, <3>2, <2>5
      <3> QED
        BY <2>3, <3>3
    <2> QED
      BY <2>4, <2>5
  <1>3. \E f : Are(f, Len(log))
    BY <1>1, <1>2
  <1>4. Are(BytesOf(log), Len(log))
    BY <1>3 DEF BytesOf
  <1> HIDE DEF T
  <1> QED
    BY <1>1, <1>4

(* One entry of a log counts d bytes more, or none does; the log may also  *)
(* have grown at its end.                                                  *)
Grown(old, new, slot, d) ==
    /\ Len(old) <= Len(new)
    /\ \A k \in 1 .. Len(old) :
          new[k].bytes = old[k].bytes + (IF k = slot THEN d ELSE 0)

LEMMA BytesGrow ==
    ASSUME NEW old \in Seq(Entry), NEW new \in Seq(Entry),
           NEW slot \in Nat, NEW d \in Nat, Grown(old, new, slot, d)
    PROVE  \A k \in 0 .. Len(old) :
               /\ BytesOf(old)[k] \in Nat
               /\ BytesOf(new)[k] = BytesOf(old)[k] + (IF slot \in 1 .. k THEN d ELSE 0)
  <1> DEFINE O == BytesOf(old)
             N == BytesOf(new)
             Good(k) == O[k] \in Nat /\ N[k] = O[k] + (IF slot \in 1 .. k THEN d ELSE 0)
             T == {k \in 0 .. Len(old) : ~ Good(k)}
  <1>1. Len(old) \in Nat /\ Len(new) \in Nat /\ Len(old) <= Len(new)
    BY DEF Grown
  <1>2. \A k \in 1 .. Len(old) : old[k].bytes \in Nat
    <2>1. \A k \in 1 .. Len(old) : old[k] \in Entry
      OBVIOUS
    <2> QED
      BY <2>1 DEF Entry
  <1>3. O[0] = 0 /\ \A k \in 1 .. Len(old) : O[k] = O[k - 1] + old[k].bytes
    BY BytesOfIs
  <1>4. N[0] = 0 /\ \A k \in 1 .. Len(old) : N[k] = N[k - 1] + new[k].bytes
    <2>1. N[0] = 0 /\ \A k \in 1 .. Len(new) : N[k] = N[k - 1] + new[k].bytes
      BY BytesOfIs
    <2> HIDE DEF N
    <2> QED
      BY <1>1, <2>1
  <1> HIDE DEF O, N
  <1>5. T = {}
    <2> SUFFICES ASSUME T # {} PROVE FALSE
      OBVIOUS
    <2>1. T \in SUBSET Nat
      BY <1>1
    <2> HIDE DEF T
    <2>2. PICK n \in T : \A m \in T : n <= m
      BY <2>1, LeastNumber
    <2>3. n \in 0 .. Len(old) /\ ~ Good(n)
      BY DEF T
    <2>4. CASE n = 0
      BY <1>3, <1>4, <2>3, <2>4
    <2>5. CASE n # 0
      <3>1. n - 1 \in 0 .. Len(old) /\ n - 1 \notin T /\ n \in 1 .. Len(old) /\ n \in Nat
        BY <1>1, <2>2, <2>3, <2>5
      <3>2. Good(n - 1)
        BY <3>1 DEF T
      <3>3. /\ O[n] = O[n - 1] + old[n].bytes /\ N[n] = N[n - 1] + new[n].bytes
            /\ old[n].bytes \in Nat
            /\ new[n].bytes = old[n].bytes + (IF n = slot THEN d ELSE 0)
        BY <1>2, <1>3, <1>4, <3>1 DEF Grown
      <3>4. CASE n = slot
        <4>1. slot \notin 1 .. n - 1 /\ slot \in 1 .. n
          BY <3>1, <3>4
        <4>2. N[n - 1] = O[n - 1] /\ N[n] = O[n - 1] + (old[n].bytes + d)
          BY <3>2, <3>3, <3>4, <4>1
        <4>3. O[n] \in Nat /\ N[n] = O[n] + d
          BY <3>2, <3>3, <4>2
        <4> QED
          BY <2>3, <4>1, <4>3
      <3>5. CASE n # slot
        <4>1. slot \in 1 .. n - 1 <=> slot \in 1 .. n
          BY <3>1, <3>5
        <4> DEFINE e == IF slot \in 1 .. n THEN d ELSE 0
        <4>2. e \in Nat /\ N[n - 1] = O[n - 1] + e
          BY <3>2, <4>1
        <4>3. N[n] = N[n - 1] + old[n].bytes
          BY <3>3, <3>5
        <4> HIDE DEF e
        <4>4. O[n] \in Nat /\ N[n] = O[n] + e
          BY <3>2, <3>3, <4>2, <4>3
        <4> QED
          BY <2>3, <4>4 DEF e
      <3> QED
        BY <3>4, <3>5
    <2> QED
      BY <2>4, <2>5
  <1> QED
    BY <1>5 DEF O, N

-----------------------------------------------------------------------------
(* One run of the server.  A handle the log does not track has written     *)
(* nothing while the log has room, and before the start there is no log.   *)
UntrackedAreEmpty ==
    Len(history) < MaxTransfers =>
        \A i \in UsedIds : handles[i].slot = Untracked => handles[i].bytes = 0

LogStartsEmpty == ~running => history = <<>> /\ Connected = {}

TruthInv == TableInv /\ LogInv /\ LogTellsTrue /\ UntrackedAreEmpty /\ LogStartsEmpty

LEMMA SameInterval ==
    ASSUME NEW m \in Nat, NEW n \in Nat, 1 .. m = 1 .. n
    PROVE  m = n
  <1>1. m > 0 => m \in 1 .. n
    OBVIOUS
  <1>2. n > 0 => n \in 1 .. m
    OBVIOUS
  <1> QED
    BY <1>1, <1>2

LEMMA EmptyLog == history = <<>> => LoggedBytes = 0
  <1> SUFFICES ASSUME history = <<>> PROVE LoggedBytes = 0
    OBVIOUS
  <1>1. <<>> \in Seq(Entry) /\ Len(<<>>) = 0
    OBVIOUS
  <1>2. BytesOf(<<>>)[0] = 0
    BY <1>1, BytesOfIs
  <1> QED
    BY <1>1, <1>2 DEF LoggedBytes

(* The log counts d bytes more in a step, at one entry or nowhere.         *)
LEMMA LoggedGrow ==
    ASSUME TypeOK, history' \in Seq(Entry), Len(history') = Len(history),
           NEW slot \in Nat, NEW d \in Nat,
           \A k \in DOMAIN history :
               history'[k].bytes = history[k].bytes + (IF k = slot THEN d ELSE 0)
    PROVE  /\ LoggedBytes \in Nat
           /\ LoggedBytes' = LoggedBytes + (IF slot \in DOMAIN history THEN d ELSE 0)
  <1>1. history \in Seq(Entry) /\ Len(history) \in Nat /\ DOMAIN history = 1 .. Len(history)
    BY DEF TypeOK
  <1> DEFINE new == history'
  <1>2. new \in Seq(Entry) /\ Len(new) = Len(history) /\ Len(history) <= Len(new)
    BY <1>1
  <1>3. Grown(history, new, slot, d)
    BY <1>1, <1>2 DEF Grown
  <1> HIDE DEF new
  <1>4. \A k \in 0 .. Len(history) :
            /\ BytesOf(history)[k] \in Nat
            /\ BytesOf(new)[k] = BytesOf(history)[k] + (IF slot \in 1 .. k THEN d ELSE 0)
    BY <1>1, <1>2, <1>3, BytesGrow
  <1>5. /\ BytesOf(history)[Len(history)] \in Nat
        /\ BytesOf(new)[Len(new)] = BytesOf(history)[Len(history)]
                                    + (IF slot \in 1 .. Len(history) THEN d ELSE 0)
    BY <1>1, <1>2, <1>4
  <1> QED
    BY <1>1, <1>5 DEF LoggedBytes, new

(* Steps that leave handles and log alone.                                 *)
LEMMA TruthSame ==
    ASSUME TruthInv, UNCHANGED <<handles, history>>,
           bytesWritten' = bytesWritten \/ (history = <<>> /\ bytesWritten' = 0),
           running'
    PROVE  (LogTellsTrue /\ UntrackedAreEmpty /\ LogStartsEmpty)'
  <1> USE DEF TruthInv, LogTellsTrue
  <1>1. ActiveIsOpen'
    BY DEF ActiveIsOpen, UsedIds
  <1>2. BytesCounted'
    <2>1. LoggedBytes' = LoggedBytes
      BY DEF LoggedBytes
    <2>2. CASE bytesWritten' = bytesWritten
      BY <2>1, <2>2 DEF BytesCounted
    <2>3. CASE history = <<>> /\ bytesWritten' = 0
      <3>1. LoggedBytes = 0
        BY <2>3, EmptyLog
      <3> QED
        BY <2>1, <2>3, <3>1 DEF BytesCounted
    <2> QED
      BY <2>2, <2>3
  <1>3. UntrackedAreEmpty'
    BY DEF UntrackedAreEmpty, UsedIds
  <1> QED
    BY <1>1, <1>2, <1>3 DEF LogStartsEmpty

LEMMA TruthCreate ==
    ASSUME TruthInv, NEW c \in Clients, NEW p \in Paths,
           NEW kind \in Kind, NEW doc \in BOOLEAN,
           NEW disp \in Dispositions, Create(c, p, kind, disp, doc)
    PROVE  (LogTellsTrue /\ UntrackedAreEmpty /\ LogStartsEmpty)'
  <1> USE DEF TruthInv, LogTellsTrue
  <1>0. TypeOK
    BY DEF TableInv
  <1>1. PICK i \in Ids :
            /\ IsLowestFree(i)
            /\ handles' = [handles EXCEPT ![i] = Opened(p, kind)]
    BY DEF Create
  <1>2. UsedIds' = UsedIds \cup {i} /\ i \notin UsedIds
    BY <1>0, <1>1 DEF IsLowestFree, FreeIds, UsedIds, Opened, TypeOK
  <1>3. /\ handles'[i].slot = Untracked /\ handles'[i].bytes = 0
        /\ \A j \in UsedIds : handles'[j] = handles[j]
    BY <1>0, <1>1, <1>2 DEF Opened, TypeOK, UsedIds
  <1>4. /\ DOMAIN history' = DOMAIN history /\ Len(history') = Len(history)
        /\ history' \in Seq(Entry)
        /\ \A k \in DOMAIN history :
              \/ history'[k] = history[k]
              \/ /\ history[k].status = "completed"
                 /\ history'[k] = [history[k] EXCEPT !.status = "cancelled"]
    BY <1>0, CancelType DEF Create, HistoryAfterDelete, Completed, TypeOK
  <1>5. \A k \in DOMAIN history : history[k] \in Entry
    BY <1>0, EntryOfHistory
  <1>6. ActiveIsOpen'
    <2> SUFFICES ASSUME NEW k \in DOMAIN history', history'[k].status = "active"
                 PROVE  \E j \in UsedIds' :
                            /\ handles'[j].slot = k
                            /\ NameOf[handles'[j].path] = history'[k].name
                            /\ handles'[j].bytes = history'[k].bytes
      BY DEF ActiveIsOpen
    <2>1. history'[k] = history[k]
      <3>1. [history[k] EXCEPT !.status = "cancelled"].status = "cancelled"
        BY <1>4, <1>5 DEF Entry
      <3> QED
        BY <1>4, <3>1
    <2> QED
      BY <1>2, <1>3, <1>4, <2>1 DEF ActiveIsOpen
  <1>7. BytesCounted'
    <2>1. \A k \in DOMAIN history : history'[k].bytes = history[k].bytes + (IF k = 0 THEN 0 ELSE 0)
      BY <1>4, <1>5 DEF Entry
    <2>2. LoggedBytes \in Nat /\ LoggedBytes' = LoggedBytes + (IF 0 \in DOMAIN history THEN 0 ELSE 0)
      BY <1>0, <1>4, <2>1, LoggedGrow
    <2> QED
      BY <1>4, <2>2 DEF BytesCounted, Create, stats
  <1>8. UntrackedAreEmpty'
    BY <1>2, <1>3, <1>4 DEF UntrackedAreEmpty
  <1> QED
    BY <1>6, <1>7, <1>8 DEF LogStartsEmpty, Create

LEMMA TruthWrite ==
    ASSUME TruthInv, NEW c \in Clients, NEW i \in Ids, NEW n \in Chunks,
           Write(c, i, n)
    PROVE  (LogTellsTrue /\ UntrackedAreEmpty /\ LogStartsEmpty)'
  <1> USE DEF TruthInv, LogTellsTrue
  <1>0. TypeOK /\ n \in Nat
    BY SizesAssumption DEF TableInv
  <1>1. /\ i \in UsedIds /\ bytesWritten' = bytesWritten + n
        /\ running /\ running'
    BY DEF Write, UsedIds, LogStartsEmpty
  <1>2. /\ history' \in Seq(Entry)
        /\ \A j \in Ids \ {i} : handles'[j] = handles[j]
        /\ handles'[i].used /\ handles'[i].path = handles[i].path
        /\ handles'[i].bytes = handles[i].bytes + n
        /\ KeepsSlot(i) \/ TakesSlot(i, n)
        /\ \A k \in DOMAIN history :
              history'[k] = IF k = handles'[i].slot
                            THEN [history[k] EXCEPT !.bytes = handles[i].bytes + n]
                            ELSE history[k]
    BY <1>0, WriteHistory
  <1>3. UsedIds' = UsedIds
    BY <1>1, <1>2 DEF UsedIds
  <1>4. /\ history \in Seq(Entry) /\ Len(history) \in Nat /\ DOMAIN history = 1 .. Len(history)
        /\ Len(history') \in Nat /\ DOMAIN history' = 1 .. Len(history')
        /\ \A k \in DOMAIN history : history[k] \in Entry
        /\ MaxTransfers \in Nat
    BY <1>0, <1>2, EntryOfHistory, SizesAssumption DEF TypeOK
  <1>5. CASE KeepsSlot(i)
    <2>1. /\ handles'[i].slot = handles[i].slot
          /\ handles[i].slot # Untracked \/ Len(history) >= MaxTransfers
          /\ DOMAIN history' = DOMAIN history
      BY <1>5 DEF KeepsSlot
    <2>7. Len(history') = Len(history)
      BY <1>4, <2>1, SameInterval
    <2>2. \A j \in UsedIds : handles'[j].slot = handles[j].slot
      BY <1>2, <2>1 DEF UsedIds
    <2>3. handles[i].slot \in DOMAIN history =>
              /\ history[handles[i].slot].status = "active"
              /\ history[handles[i].slot].bytes = handles[i].bytes
              /\ history[handles[i].slot].name = NameOf[handles[i].path]
      <3> SUFFICES ASSUME handles[i].slot \in DOMAIN history
                   PROVE  /\ history[handles[i].slot].status = "active"
                          /\ history[handles[i].slot].bytes = handles[i].bytes
                          /\ history[handles[i].slot].name = NameOf[handles[i].path]
        OBVIOUS
      <3>1. history[handles[i].slot].status = "active"
        BY <1>1 DEF LogInv, FinishedIsClosed
      <3>2. PICK j \in UsedIds :
                /\ handles[j].slot = handles[i].slot
                /\ NameOf[handles[j].path] = history[handles[i].slot].name
                /\ handles[j].bytes = history[handles[i].slot].bytes
        BY <3>1 DEF ActiveIsOpen
      <3>3. handles[i].slot # Untracked
        BY <1>4 DEF Untracked
      <3>4. j = i
        BY <1>1, <3>2, <3>3 DEF LogInv, TrackedOnce
      <3> QED
        BY <3>1, <3>2, <3>4
    <2>4. ActiveIsOpen'
      <3> SUFFICES ASSUME NEW k \in DOMAIN history', history'[k].status = "active"
                   PROVE  \E j \in UsedIds' :
                              /\ handles'[j].slot = k
                              /\ NameOf[handles'[j].path] = history'[k].name
                              /\ handles'[j].bytes = history'[k].bytes
        BY DEF ActiveIsOpen
      <3>1. CASE k = handles[i].slot
        <4>1. /\ history'[k].name = history[k].name
              /\ history'[k].bytes = handles[i].bytes + n
          <5>1. history'[k] = [history[k] EXCEPT !.bytes = handles[i].bytes + n]
            BY <1>2, <2>1, <3>1
          <5>2. history[k] \in Entry
            BY <1>4, <2>1
          <5> QED
            BY <5>1, <5>2 DEF Entry
        <4> QED
          BY <1>1, <1>2, <1>3, <2>1, <2>3, <3>1, <4>1
      <3>2. CASE k # handles[i].slot
        <4>1. history'[k] = history[k]
          BY <1>2, <2>1, <3>2
        <4>2. PICK j \in UsedIds :
                  /\ handles[j].slot = k
                  /\ NameOf[handles[j].path] = history[k].name
                  /\ handles[j].bytes = history[k].bytes
          BY <2>1, <4>1 DEF ActiveIsOpen
        <4>3. handles'[j] = handles[j]
          BY <1>2, <3>2, <4>2 DEF UsedIds
        <4> QED
          BY <1>3, <4>1, <4>2, <4>3
      <3> QED
        BY <3>1, <3>2
    <2>5. BytesCounted'
      <3> SUFFICES ASSUME Len(history) < MaxTransfers
                   PROVE  LoggedBytes' = bytesWritten'
        BY <2>7 DEF BytesCounted
      <3> DEFINE slot == handles[i].slot
      <3>1. slot \in DOMAIN history /\ slot \in Nat
        BY <1>1, <1>4, <2>1 DEF LogInv, TrackedOnce
      <3>2. handles[i].bytes \in Nat
        BY <1>4, <2>3, <3>1 DEF Entry
      <3>3. \A k \in DOMAIN history :
                history'[k].bytes = history[k].bytes + (IF k = slot THEN n ELSE 0)
        <4> SUFFICES ASSUME NEW k \in DOMAIN history
                     PROVE  history'[k].bytes = history[k].bytes + (IF k = slot THEN n ELSE 0)
          OBVIOUS
        <4>1. history[k] \in Entry /\ history[k].bytes \in Nat
          BY <1>4 DEF Entry
        <4>2. CASE k = slot
          <5>1. history'[k] = [history[k] EXCEPT !.bytes = handles[i].bytes + n]
            BY <1>2, <2>1, <4>2
          <5>2. history'[k].bytes = handles[i].bytes + n
            BY <4>1, <5>1 DEF Entry
          <5> QED
            BY <2>3, <4>2, <5>2
        <4>3. CASE k # slot
          <5>1. history'[k] = history[k]
            BY <1>2, <2>1, <4>3
          <5> QED
            BY <4>1, <4>3, <5>1
        <4> QED
          BY <4>2, <4>3
      <3> HIDE DEF slot
      <3>4. LoggedBytes' = LoggedBytes + (IF slot \in DOMAIN history THEN n ELSE 0)
        BY <1>0, <1>2, <2>7, <3>1, <3>3, LoggedGrow
      <3> QED
        BY <1>1, <3>1, <3>4 DEF BytesCounted
    <2>6. UntrackedAreEmpty'
      <3> SUFFICES ASSUME Len(history) < MaxTransfers, NEW j \in UsedIds,
                          handles'[j].slot = Untracked
                   PROVE  handles'[j].bytes = 0
        BY <1>3, <2>7 DEF UntrackedAreEmpty
      <3>1. handles[j].slot = Untracked
        BY <2>2
      <3>2. j # i
        BY <1>4, <2>1, <3>1
      <3> QED
        BY <1>2, <3>1, <3>2 DEF UntrackedAreEmpty, UsedIds
    <2> QED
      BY <1>1, <2>4, <2>5, <2>6 DEF LogStartsEmpty
  <1>6. CASE TakesSlot(i, n)
    <2> DEFINE last == Len(history) + 1
    <2>1. /\ handles[i].slot = Untracked
          /\ handles'[i].slot = last
          /\ DOMAIN history' = DOMAIN history \cup {last}
          /\ history'[last] = [name |-> NameOf[handles[i].path],
                               bytes |-> handles[i].bytes + n, status |-> "active"]
      BY <1>6 DEF TakesSlot
    <2>2. Len(history') = last /\ last \notin DOMAIN history /\ last \in Nat
      <3>1. last \in Nat /\ DOMAIN history \cup {last} = 1 .. last
        BY <1>4
      <3>2. last \notin DOMAIN history
        BY <1>4
      <3> HIDE DEF last
      <3>3. Len(history') = last
        BY <1>4, <2>1, <3>1, SameInterval
      <3> QED
        BY <3>1, <3>2, <3>3
    <2>3. \A k \in DOMAIN history : history'[k] = history[k]
      BY <1>2, <2>1, <2>2
    <2>4. Len(history) < MaxTransfers
      <3>1. Len(history') <= MaxTransfers
        BY <1>0, WriteHistory
      <3> QED
        BY <1>4, <2>2, <3>1
    <2>5. handles[i].bytes = 0
      BY <1>1, <2>1, <2>4 DEF UntrackedAreEmpty
    <2>6. ActiveIsOpen'
      <3> SUFFICES ASSUME NEW k \in DOMAIN history', history'[k].status = "active"
                   PROVE  \E j \in UsedIds' :
                              /\ handles'[j].slot = k
                              /\ NameOf[handles'[j].path] = history'[k].name
                              /\ handles'[j].bytes = history'[k].bytes
        BY DEF ActiveIsOpen
      <3>1. CASE k = last
        <4>1. /\ history'[k].name = NameOf[handles[i].path]
              /\ history'[k].bytes = handles[i].bytes + n
          BY <2>1, <3>1
        <4> QED
          BY <1>1, <1>2, <1>3, <2>1, <3>1, <4>1
      <3>2. CASE k # last
        <4>1. k \in DOMAIN history /\ history'[k] = history[k]
          BY <2>1, <2>3, <3>2
        <4>2. PICK j \in UsedIds :
                  /\ handles[j].slot = k
                  /\ NameOf[handles[j].path] = history[k].name
                  /\ handles[j].bytes = history[k].bytes
          BY <4>1 DEF ActiveIsOpen
        <4>3. Untracked \notin DOMAIN history
          BY <1>4 DEF Untracked
        <4>4. handles'[j] = handles[j]
          BY <1>2, <2>1, <4>1, <4>2, <4>3 DEF UsedIds
        <4> QED
          BY <1>3, <4>1, <4>2, <4>4
      <3> QED
        BY <3>1, <3>2
    <2>7. BytesCounted'
      <3>1. LoggedBytes = bytesWritten
        BY <2>4 DEF BytesCounted
      <3> DEFINE new == history'
      <3>2. new \in Seq(Entry) /\ Len(new) = last /\ Len(history) <= Len(new)
        BY <1>2, <1>4, <2>2
      <3>3. Grown(history, new, 0, 0)
        <4>1. \A k \in 1 .. Len(history) : new[k] = history[k] /\ history[k].bytes \in Nat
          BY <1>4, <2>3 DEF Entry
        <4> QED
          BY <3>2, <4>1 DEF Grown
      <3>4. new[last].bytes = n
        BY <1>0, <2>1, <2>5
      <3> HIDE DEF new
      <3>5. \A k \in 0 .. Len(history) :
                /\ BytesOf(history)[k] \in Nat
                /\ BytesOf(new)[k] = BytesOf(history)[k] + (IF 0 \in 1 .. k THEN 0 ELSE 0)
        BY <1>4, <3>2, <3>3, BytesGrow
      <3>6. /\ BytesOf(history)[Len(history)] \in Nat
            /\ BytesOf(new)[Len(history)] = BytesOf(history)[Len(history)]
        BY <1>4, <3>5
      <3>7. BytesOf(new)[last] = BytesOf(new)[last - 1] + new[last].bytes
        <4>1. last \in 1 .. Len(new)
          BY <1>4, <3>2
        <4> HIDE DEF last
        <4> QED
          BY <3>2, <4>1, BytesOfIs
      <3>8. BytesOf(new)[last] = BytesOf(history)[Len(history)] + n
        BY <1>4, <3>4, <3>6, <3>7
      <3>9. LoggedBytes' = LoggedBytes + n
        BY <2>2, <3>8 DEF LoggedBytes, new
      <3> QED
        BY <1>1, <3>1, <3>9 DEF BytesCounted
    <2>8. UntrackedAreEmpty'
      <3> SUFFICES ASSUME NEW j \in UsedIds, handles'[j].slot = Untracked
                   PROVE  handles'[j].bytes = 0
        BY <1>3 DEF UntrackedAreEmpty
      <3>1. j # i
        BY <1>4, <2>1 DEF Untracked
      <3> QED
        BY <1>2, <2>4, <3>1 DEF UntrackedAreEmpty, UsedIds
    <2> QED
      BY <1>1, <2>6, <2>7, <2>8 DEF LogStartsEmpty
  <1> QED
    BY <1>2, <1>5, <1>6

LEMMA TruthFree ==
    ASSUME TruthInv, NEW i \in Ids, i \in UsedIds, FreeHandle(i),
           UNCHANGED <<running, bytesWritten>>, running
    PROVE  (LogTellsTrue /\ UntrackedAreEmpty /\ LogStartsEmpty)'
  <1> USE DEF TruthInv, LogTellsTrue
  <1>0. TypeOK /\ \A k \in DOMAIN history : history[k] \in Entry
    BY EntryOfHistory DEF TableInv
  <1>1. /\ DOMAIN history' = DOMAIN history /\ Len(history') = Len(history)
        /\ history' \in Seq(Entry)
        /\ \A k \in DOMAIN history :
              history'[k] = IF k = handles[i].slot
                            THEN [history[k] EXCEPT !.status = "completed"]
                            ELSE history[k]
    BY <1>0, FreeHistory
  <1>2. handles' = [handles EXCEPT ![i] = Unused]
    BY DEF FreeHandle
  <1>3. UsedIds' = UsedIds \ {i} /\ \A j \in UsedIds' : handles'[j] = handles[j]
    BY <1>0, <1>2 DEF UsedIds, Unused, TypeOK
  <1>4. ActiveIsOpen'
    <2> SUFFICES ASSUME NEW k \in DOMAIN history', history'[k].status = "active"
                 PROVE  \E j \in UsedIds' :
                            /\ handles'[j].slot = k
                            /\ NameOf[handles'[j].path] = history'[k].name
                            /\ handles'[j].bytes = history'[k].bytes
      BY DEF ActiveIsOpen
    <2>1. k # handles[i].slot
      <3>1. [history[k] EXCEPT !.status = "completed"].status = "completed"
        BY <1>0, <1>1 DEF Entry
      <3> QED
        BY <1>1, <3>1
    <2> QED
      BY <1>1, <1>3, <2>1 DEF ActiveIsOpen
  <1>5. BytesCounted'
    <2>1. \A k \in DOMAIN history : history'[k].bytes = history[k].bytes + (IF k = 0 THEN 0 ELSE 0)
      BY <1>0, <1>1 DEF Entry
    <2>2. LoggedBytes \in Nat /\ LoggedBytes' = LoggedBytes + (IF 0 \in DOMAIN history THEN 0 ELSE 0)
      BY <1>0, <1>1, <2>1, LoggedGrow
    <2> QED
      BY <1>1, <2>2 DEF BytesCounted
  <1>6. UntrackedAreEmpty'
    BY <1>1, <1>3 DEF UntrackedAreEmpty
  <1> QED
    BY <1>4, <1>5, <1>6 DEF LogStartsEmpty

LEMMA TruthNext == TruthInv /\ [ServeNext]_vars => TruthInv'
  <1> SUFFICES ASSUME TruthInv, [ServeNext]_vars PROVE TruthInv'
    OBVIOUS
  <1>0. TableInv' /\ LogInv' /\ TypeOK
    <2>1. [RestartNext]_vars /\ [Next]_vars
      BY DEF ServeNext, RestartNext, Next
    <2> QED
      BY <2>1, TableNext, LogNext DEF TruthInv, TableInv
  <1>1. CASE Start
    <2>1. history = <<>> /\ running'
      BY <1>1 DEF Start, TruthInv, LogStartsEmpty
    <2> QED
      BY <1>0, <1>1, <2>1, TruthSame DEF Start, table, TruthInv
  <1>2. CASE UNCHANGED vars
    <2>1. (LogTellsTrue /\ UntrackedAreEmpty /\ LogStartsEmpty)'
      BY <1>2 DEF vars, TruthInv, LogTellsTrue, ActiveIsOpen, BytesCounted, LoggedBytes,
                  UntrackedAreEmpty, LogStartsEmpty, UsedIds, Connected
    <2> QED
      BY <1>0, <2>1 DEF TruthInv
  <1>3. CASE Serve
    <2> PICK c \in Clients :
          \/ Connect(c)
          \/ Disconnect(c)
          \/ \E p \in Paths, kind \in Kind, disp \in Dispositions, doc \in BOOLEAN :
                Create(c, p, kind, disp, doc)
          \/ \E i \in Ids :
                \/ \E n \in Chunks : Write(c, i, n)
                \/ \E id \in {i, RelatedId} : Close(c, i, id)
      BY <1>3 DEF Serve
    <2>0. c \in Connected => running
      BY DEF TruthInv, LogStartsEmpty
    <2>1. CASE Connect(c) \/ Disconnect(c)
      <3>1. running' = TRUE /\ UNCHANGED <<handles, history, bytesWritten>>
        BY <1>0, <2>0, <2>1 DEF Connect, Disconnect, table, stats, TypeOK
      <3> QED
        BY <1>0, <3>1, TruthSame DEF TruthInv
    <2>2. CASE \E p \in Paths, kind \in Kind, disp \in Dispositions, doc \in BOOLEAN :
                Create(c, p, kind, disp, doc)
      BY <1>0, <2>2, TruthCreate DEF TruthInv
    <2>3. CASE \E i \in Ids, n \in Chunks : Write(c, i, n)
      BY <1>0, <2>3, TruthWrite DEF TruthInv
    <2>4. CASE \E i \in Ids : \E id \in {i, RelatedId} : Close(c, i, id)
      <3>0. PICK i \in Ids : \E id \in {i, RelatedId} : Close(c, i, id)
        BY <2>4
      <3> PICK id \in {i, RelatedId} : Close(c, i, id)
        BY <3>0
      <3>3. running' = running /\ bytesWritten' = bytesWritten /\ running
        BY <2>0 DEF Close, stats
      <3>1. CASE id \in Ids /\ id \in UsedIds
        <4>1. FreeHandle(id)
          BY <3>1 DEF Close
        <4> QED
          BY <1>0, <3>1, <3>3, <4>1, TruthFree DEF TruthInv
      <3>2. CASE ~(id \in Ids /\ id \in UsedIds)
        <4>1. UNCHANGED <<handles, history>>
          BY <3>2 DEF Close, table
        <4> QED
          BY <1>0, <3>3, <4>1, TruthSame DEF TruthInv
      <3> QED
        BY <3>1, <3>2
    <2> QED
      BY <2>1, <2>2, <2>3, <2>4
  <1> QED
    BY <1>1, <1>2, <1>3 DEF ServeNext

(* In one run of the server the log the phone shows is true: an active     *)
(* entry is an open upload with the bytes its handle has counted, and      *)
(* until the log is full the entries add up to bytes_written (write_cmd,   *)
(* free_handle).                                                           *)
THEOREM LogTellsTrueAlways == ServeSpec => []LogTellsTrue
  <1>1. Init => TruthInv
    <2> SUFFICES ASSUME Init PROVE TruthInv
      OBVIOUS
    <2>1. TableInv
      BY TableInit
    <2>2. history = <<>> /\ UsedIds = {} /\ bytesWritten = 0 /\ Connected = {}
      BY DEF Init, UsedIds, Unused, Connected
    <2>3. LogInv
      BY <2>2 DEF LogInv, TrackedOnce, FinishedIsClosed
    <2>4. LoggedBytes = 0
      BY <2>2, EmptyLog
    <2>5. LogTellsTrue
      BY <2>2, <2>4 DEF LogTellsTrue, ActiveIsOpen, BytesCounted
    <2> QED
      BY <2>1, <2>2, <2>3, <2>5 DEF TruthInv, UntrackedAreEmpty, LogStartsEmpty
  <1>2. TruthInv => LogTellsTrue
    BY DEF TruthInv
  <1> QED
    BY <1>1, <1>2, TruthNext, PTL DEF ServeSpec
=============================================================================

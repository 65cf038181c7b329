------------------------- MODULE MessageStoreProofs -------------------------
(***************************************************************************)
(* Proofs about the message store, for every number of sessions, clients,  *)
(* pages, slots and messages.  The inductive invariant adds to the safety  *)
(* invariants what links the parts of the state: where rows come from      *)
(* (Origins), what an allocator still holds (Allocators) and what the      *)
(* open batches hold (Batches).                                            *)
(***************************************************************************)
EXTENDS MessageStore, TLAPS

\* Every row in play was posted, and ranks and keys identify rows.
Origins ==
  /\ messages \subseteq posted
  /\ taken \subseteq posted
  /\ \A s \in Session : batch[s] \subseteq posted
  /\ \A m \in posted : m.uid < nextUid /\ sql[m.by] # "none"
  /\ \A m, n \in posted : m.uid = n.uid => m = n
  /\ \A m, n \in messages : m.id = n.id => m = n

\* What is known of a session's free list: it lies above the keys the session
\* used, and what is not in it was used by the session or stored at its sync.
Allocators ==
  /\ \A s \in Session : sql[s] # "open" => free[s] = {} /\ batch[s] = {}
  /\ \A m \in posted : \A id \in free[m.by] : IdLess(m.id, id)
  /\ \A s \in Session, j \in MessageId :
       sql[s] = "open" /\ j \notin free[s] =>
         \E n \in posted : n.id = j /\ (n.by = s \/ n.uid < synced[s])
  /\ \A s \in Session : synced[s] <= nextUid

\* As long as no mailbox was read by two sessions at a time, batches of
\* different sessions belong to different clients and hold stored rows.
Batches ==
  ~raced =>
    /\ \A s \in Session : batch[s] \subseteq messages
    /\ \A s, t \in Session :
         \A m \in batch[s], n \in batch[t] : m.to = n.to => s = t

StoreInv ==
  /\ TypeOK
  /\ Origins
  /\ Allocators
  /\ Batches
  /\ FreeListSound
  /\ SessionOrder
  /\ NoKeySkipped
  /\ Conservation

-----------------------------------------------------------------------------

\* The order of keys is a strict order: it never holds both ways.
LEMMA IdLessAsymmetric ==
  ASSUME NEW i \in MessageId, NEW j \in MessageId, IdLess(i, j)
  PROVE  ~IdLess(j, i)
BY MessageStoreAssumption DEF IdLess, MessageId

\* Every step keeps the variables in their types.
LEMMA TypeInductive == TypeOK /\ [Next]_storeVars => TypeOK'
<1>. SUFFICES ASSUME TypeOK, [Next]_storeVars
              PROVE  TypeOK'
  OBVIOUS
<1>. USE MessageStoreAssumption
<1>1. ASSUME NEW S \in SUBSET Session, Drop(S)
      PROVE  TypeOK'
  BY <1>1 DEF Drop, TypeOK
<1>2. ASSUME NEW s \in Session, Sync(s)
      PROVE  TypeOK'
  BY <1>2 DEF Sync, FreeAtSync, TypeOK
<1>3. ASSUME NEW s \in Session, NEW id \in MessageId, NEW to \in Client,
             NEW from \in Sender, NEW content \in Content,
             AddMessage(s, id, to, from, content)
      PROVE  TypeOK'
  <2>. DEFINE row == [id |-> id, to |-> to, from |-> from,
                      content |-> content, uid |-> nextUid, by |-> s]
  <2>1. nextUid \in 0 .. MaxMessages - 1 /\ nextUid' \in 0 .. MaxMessages
    BY <1>3 DEF AddMessage, TypeOK
  <2>2. row \in MessageRow
    BY <2>1 DEF MessageRow
  <2>3. messages' = messages \cup {row} /\ posted' = posted \cup {row}
    BY <1>3 DEF AddMessage
  <2>. QED
    BY <1>3, <2>1, <2>2, <2>3 DEF AddMessage, FreeAfter, TypeOK
<1>4. ASSUME NEW s \in Session, NEW c \in Client, GetMessages(s, c)
      PROVE  TypeOK'
  BY <1>4 DEF GetMessages, RowsFor, TypeOK
<1>5. ASSUME NEW s \in Session, NEW row \in batch[s], DeleteMessage(s, row)
      PROVE  TypeOK'
  BY <1>5 DEF DeleteMessage, AfterDelete, TypeOK
<1>6. CASE UNCHANGED storeVars
  BY <1>6 DEF storeVars, TypeOK
<1>. QED
  BY <1>1, <1>2, <1>3, <1>4, <1>5, <1>6
     DEF Next, Stop, Open, SyncFails, AddMessageFails

\* The empty store has the types.
LEMMA InitTypeOK == Init => TypeOK
<1>. SUFFICES ASSUME Init PROVE TypeOK
  OBVIOUS
<1>1. 0 \in 0 .. MaxMessages
  BY MessageStoreAssumption
<1>2. free \in [Session -> SUBSET MessageId]
  BY DEF Init
<1>3. batch \in [Session -> SUBSET MessageRow]
  BY DEF Init
<1>4. synced \in [Session -> 0 .. MaxMessages] /\ nextUid \in 0 .. MaxMessages
  BY <1>1 DEF Init
<1>. QED
  BY <1>2, <1>3, <1>4 DEF Init, TypeOK

\* The variables of the message store always have their types.
THEOREM TypeCorrect == Spec => []TypeOK
BY InitTypeOK, TypeInductive, PTL DEF Spec

-----------------------------------------------------------------------------

\* A session that opens the database holds no row yet and posted none, and its
\* free list is what the table leaves over.
LEMMA SyncKeepsInv ==
  ASSUME StoreInv, TypeOK', NEW s \in Session, Sync(s)
  PROVE  StoreInv'
<1>. USE DEF StoreInv
<1>1. /\ UNCHANGED <<messages, batch, nextUid, posted, taken, raced>>
      /\ sql[s] = "none" /\ sql' = [sql EXCEPT ![s] = "open"]
      /\ free' = [free EXCEPT ![s] = MessageId \ StoredIds]
      /\ synced' = [synced EXCEPT ![s] = nextUid]
  BY DEF Sync, FreeAtSync
<1>2. \A m \in posted : m.by # s /\ m.by \in Session
  BY <1>1 DEF Origins, TypeOK, MessageRow
<1>3. Origins'
  BY <1>1 DEF Origins, TypeOK
<1>4. Allocators'
  <2>1. \A t \in Session : sql'[t] # "open" => free'[t] = {} /\ batch'[t] = {}
    BY <1>1 DEF Allocators, TypeOK
  <2>2. \A m \in posted' : \A id \in free'[m.by] : IdLess(m.id, id)
    BY <1>1, <1>2 DEF Allocators, TypeOK
  <2>3. ASSUME NEW t \in Session, NEW j \in MessageId,
               sql'[t] = "open", j \notin free'[t]
        PROVE  \E n \in posted' : n.id = j /\ (n.by = t \/ n.uid < synced'[t])
    <3>1. CASE t = s
      <4>1. PICK n \in messages : n.id = j
        BY <1>1, <2>3, <3>1 DEF StoredIds, TypeOK
      <4>2. n \in posted /\ n.uid < nextUid /\ synced'[t] = nextUid
        BY <1>1, <3>1, <4>1 DEF Origins, TypeOK
      <4>. QED
        BY <1>1, <4>1, <4>2
    <3>2. CASE t # s
      BY <1>1, <2>3, <3>2 DEF Allocators, TypeOK
    <3>. QED
      BY <3>1, <3>2
  <2>4. \A t \in Session : synced'[t] <= nextUid'
    BY <1>1 DEF Allocators, TypeOK
  <2>. QED
    BY <2>1, <2>2, <2>3, <2>4 DEF Allocators
<1>5. Batches'
  BY <1>1 DEF Batches
<1>6. FreeListSound'
  BY <1>1 DEF FreeListSound, StoredIds, TypeOK
<1>7. SessionOrder'
  BY <1>1 DEF SessionOrder
<1>8. NoKeySkipped'
  <2>. SUFFICES ASSUME NEW m \in posted, NEW j \in MessageId, IdLess(j, m.id)
                PROVE  \E n \in posted : n.id = j /\ (n.by = m.by \/ n.uid < synced'[m.by])
    BY <1>1 DEF NoKeySkipped
  <2>1. synced'[m.by] = synced[m.by]
    BY <1>1, <1>2 DEF TypeOK
  <2>. QED
    BY <2>1 DEF NoKeySkipped
<1>9. Conservation'
  BY <1>1 DEF Conservation
<1>. QED
  BY <1>3, <1>4, <1>5, <1>6, <1>7, <1>8, <1>9

\* Sessions that are lost lose their free list and their batch, no row.
LEMMA DropKeepsInv ==
  ASSUME StoreInv, TypeOK', NEW S \in SUBSET Session, Drop(S)
  PROVE  StoreInv'
<1>. USE DEF StoreInv
<1>1. /\ UNCHANGED <<messages, synced, nextUid, posted, taken, raced>>
      /\ \A s \in S : sql'[s] = "gone" /\ free'[s] = {} /\ batch'[s] = {}
      /\ \A s \in Session \ S :
           sql'[s] = sql[s] /\ free'[s] = free[s] /\ batch'[s] = batch[s]
  BY DEF Drop, TypeOK
<1>2. \A m \in posted : m.by \in Session
  BY DEF TypeOK, MessageRow
<1>3. Origins'
  BY <1>1, <1>2 DEF Origins
<1>4. Allocators'
  BY <1>1, <1>2 DEF Allocators
<1>5. Batches'
  BY <1>1 DEF Batches
<1>6. FreeListSound'
  BY <1>1 DEF FreeListSound
<1>7. SessionOrder' /\ NoKeySkipped' /\ Conservation'
  BY <1>1 DEF SessionOrder, NoKeySkipped, Conservation
<1>. QED
  BY <1>3, <1>4, <1>5, <1>6, <1>7

\* A message that is stored gets the least key the session holds: above all
\* keys it used, and with no free key of its own below it.
LEMMA AddMessageKeepsInv ==
  ASSUME StoreInv, TypeOK', NEW s \in Session, NEW id \in MessageId,
         NEW to \in Client, NEW from \in Sender, NEW content \in Content,
         AddMessage(s, id, to, from, content)
  PROVE  StoreInv'
<1>. USE DEF StoreInv
<1>. DEFINE row == [id |-> id, to |-> to, from |-> from, content |-> content,
                    uid |-> nextUid, by |-> s]
<1>1. /\ UNCHANGED <<sql, batch, synced, taken, raced>>
      /\ sql[s] = "open" /\ nextUid' = nextUid + 1
      /\ id \in free[s] /\ \A j \in free[s] : j = id \/ IdLess(id, j)
      /\ \A m \in messages : m.id # id
      /\ messages' = messages \cup {row} /\ posted' = posted \cup {row}
      /\ free' = [free EXCEPT ![s] = free[s] \ {id}]
  BY DEF AddMessage, Allocates, FreeAfter, StoredIds
<1>2. row.id = id /\ row.uid = nextUid /\ row.by = s /\ row.to = to
  OBVIOUS
<1>3. /\ nextUid \in Nat
      /\ \A m \in posted : m.uid \in Int /\ m.by \in Session /\ m.id \in MessageId
      /\ \A t \in Session : synced[t] \in Nat
  BY MessageStoreAssumption DEF TypeOK, MessageRow
<1>. HIDE DEF row
<1>4. \A m \in posted : m.uid < nextUid /\ m # row
  BY <1>2, <1>3 DEF Origins
<1>5. \A m \in posted : m.by = s => IdLess(m.id, id)
  BY <1>1 DEF Allocators
<1>6. \A j \in free[s] : ~IdLess(j, id)
  BY <1>1, IdLessAsymmetric, id \in MessageId DEF TypeOK, IdLess
<1>7. Origins'
  BY <1>1, <1>2, <1>3, <1>4 DEF Origins
<1>8. Allocators'
  <2>1. \A t \in Session : sql'[t] # "open" => free'[t] = {} /\ batch'[t] = {}
    BY <1>1 DEF Allocators, TypeOK
  <2>2. \A m \in posted' : \A j \in free'[m.by] : IdLess(m.id, j)
    BY <1>1, <1>2, <1>3 DEF Allocators, TypeOK
  <2>3. ASSUME NEW t \in Session, NEW j \in MessageId,
               sql'[t] = "open", j \notin free'[t]
        PROVE  \E n \in posted' : n.id = j /\ (n.by = t \/ n.uid < synced'[t])
    <3>1. CASE t = s /\ j = id
      BY <1>1, <1>2, <3>1
    <3>2. CASE ~(t = s /\ j = id)
      BY <1>1, <2>3, <3>2 DEF Allocators, TypeOK
    <3>. QED
      BY <3>1, <3>2
  <2>4. \A t \in Session : synced'[t] <= nextUid'
    BY <1>1, <1>3 DEF Allocators
  <2>. QED
    BY <2>1, <2>2, <2>3, <2>4 DEF Allocators
<1>9. Batches'
  BY <1>1 DEF Batches
<1>10. FreeListSound'
  <2>. SUFFICES ASSUME NEW t \in Session, NEW m \in messages', m.id \in free'[t]
                PROVE  m.by # t /\ m.uid >= synced[t]
    BY <1>1 DEF FreeListSound
  <2>1. CASE m = row
    BY <1>1, <1>2, <1>3, <2>1 DEF Allocators, TypeOK
  <2>2. CASE m \in messages
    BY <1>1, <2>2 DEF FreeListSound, TypeOK
  <2>. QED
    BY <1>1, <2>1, <2>2
<1>11. SessionOrder'
  <2>1. \A m \in posted : ~(m.by = s /\ IdLess(id, m.id))
    BY <1>3, <1>5, IdLessAsymmetric
  <2>2. ~IdLess(id, id)
    BY IdLessAsymmetric
  <2>. QED
    BY <1>1, <1>2, <1>3, <1>4, <1>5, <2>1, <2>2 DEF SessionOrder
<1>12. NoKeySkipped'
  <2>. SUFFICES ASSUME NEW m \in posted', NEW j \in MessageId, IdLess(j, m.id)
                PROVE  \E n \in posted' : n.id = j /\ (n.by = m.by \/ n.uid < synced[m.by])
    BY <1>1 DEF NoKeySkipped
  <2>1. CASE m = row
    BY <1>1, <1>2, <1>6, <2>1 DEF Allocators
  <2>2. CASE m \in posted
    BY <1>1, <2>2 DEF NoKeySkipped
  <2>. QED
    BY <1>1, <2>1, <2>2
<1>13. Conservation'
  BY <1>1, <1>4 DEF Conservation, Origins
<1>. QED
  BY <1>7, <1>8, <1>9, <1>10, <1>11, <1>12, <1>13

\* Reading a mailbox: the batch holds stored rows, and if another batch holds
\* rows for the same client then raced records it.
LEMMA GetMessagesKeepsInv ==
  ASSUME StoreInv, TypeOK', NEW s \in Session, NEW c \in Client,
         GetMessages(s, c)
  PROVE  StoreInv'
<1>. USE DEF StoreInv
<1>1. /\ UNCHANGED <<messages, sql, free, synced, nextUid, posted, taken>>
      /\ sql[s] = "open"
      /\ batch' = [batch EXCEPT ![s] = {m \in messages : m.to = c}]
      /\ ~raced' => ~raced /\ \A o \in Session : \A m \in batch[o] : m.to # c
  BY DEF GetMessages, RowsFor, TypeOK
<1>2. Origins'
  BY <1>1 DEF Origins, TypeOK
<1>3. Allocators'
  BY <1>1 DEF Allocators, TypeOK
<1>4. Batches'
  <2>. SUFFICES ASSUME ~raced'
                PROVE  /\ \A t \in Session : batch'[t] \subseteq messages
                       /\ \A t, u \in Session :
                            \A m \in batch'[t], n \in batch'[u] :
                              m.to = n.to => t = u
    BY <1>1 DEF Batches
  <2>1. \A t \in Session : batch'[t] \subseteq messages
    BY <1>1 DEF Batches, TypeOK
  <2>2. ASSUME NEW t \in Session, NEW u \in Session, t # u,
               NEW m \in batch'[t], NEW n \in batch'[u]
        PROVE  m.to # n.to
    <3>1. CASE t = s
      BY <1>1, <2>2, <3>1 DEF TypeOK
    <3>2. CASE u = s
      BY <1>1, <2>2, <3>2 DEF TypeOK
    <3>3. CASE t # s /\ u # s
      BY <1>1, <2>2, <3>3 DEF Batches, TypeOK
    <3>. QED
      BY <3>1, <3>2, <3>3
  <2>. QED
    BY <2>1, <2>2
<1>5. FreeListSound' /\ SessionOrder' /\ NoKeySkipped'
  BY <1>1 DEF FreeListSound, SessionOrder, NoKeySkipped
<1>6. Conservation'
  BY <1>1 DEF Conservation
<1>. QED
  BY <1>2, <1>3, <1>4, <1>5, <1>6

\* A DELETE by key hits the row that was read, and no row of another batch,
\* unless a mailbox was read by two sessions.
LEMMA DeleteMessageKeepsInv ==
  ASSUME StoreInv, TypeOK', NEW s \in Session, NEW row \in batch[s],
         DeleteMessage(s, row)
  PROVE  StoreInv'
<1>. USE DEF StoreInv
<1>1. /\ UNCHANGED <<sql, free, synced, nextUid, posted, raced>>
      /\ sql[s] = "open"
      /\ messages' = {m \in messages : m.id # row.id}
      /\ taken' = taken \cup {row}
      /\ batch' = [batch EXCEPT ![s] = batch[s] \ {row}]
  BY DEF DeleteMessage, AfterDelete
<1>2. Origins'
  BY <1>1 DEF Origins, TypeOK
<1>3. Allocators'
  BY <1>1 DEF Allocators, TypeOK
<1>4. ~raced => messages' = messages \ {row}
  BY <1>1 DEF Origins, Batches
<1>5. Batches'
  <2>. SUFFICES ASSUME ~raced
                PROVE  /\ \A t \in Session : batch'[t] \subseteq messages'
                       /\ \A t, u \in Session :
                            \A m \in batch'[t], n \in batch'[u] :
                              m.to = n.to => t = u
    BY <1>1 DEF Batches
  <2>1. \A t \in Session : t # s => row \notin batch[t]
    BY DEF Batches
  <2>2. \A t \in Session : batch'[t] \subseteq messages'
    BY <1>1, <1>4, <2>1 DEF Batches, TypeOK
  <2>3. \A t \in Session : batch'[t] \subseteq batch[t]
    BY <1>1 DEF TypeOK
  <2>. QED
    BY <2>2, <2>3 DEF Batches
<1>6. FreeListSound' /\ SessionOrder' /\ NoKeySkipped'
  BY <1>1 DEF FreeListSound, SessionOrder, NoKeySkipped
<1>7. Conservation'
  BY <1>1, <1>4 DEF Conservation, Origins, Batches
<1>. QED
  BY <1>2, <1>3, <1>5, <1>6, <1>7

\* A step that changes nothing changes no part of the invariant.
LEMMA StutterKeepsInv ==
  ASSUME StoreInv, UNCHANGED storeVars
  PROVE  StoreInv'
BY DEF StoreInv, storeVars, TypeOK, Origins, Allocators, Batches,
       FreeListSound, SessionOrder, NoKeySkipped, Conservation

\* The inductive invariant holds in every reachable state.
THEOREM StoreInvariant == Spec => []StoreInv
<1>1. Init => StoreInv
  <2>. SUFFICES ASSUME Init PROVE StoreInv
    OBVIOUS
  <2>1. TypeOK
    BY InitTypeOK
  <2>. QED
    BY <2>1 DEF Init, StoreInv, TypeOK, Origins, Allocators, Batches,
                FreeListSound, SessionOrder, NoKeySkipped, Conservation
<1>2. StoreInv /\ [Next]_storeVars => StoreInv'
  <2>. SUFFICES ASSUME StoreInv, [Next]_storeVars PROVE StoreInv'
    OBVIOUS
  <2>1. TypeOK'
    BY TypeInductive DEF StoreInv
  <2>2. ASSUME NEW S \in SUBSET Session, Drop(S)
        PROVE  StoreInv'
    BY <2>1, <2>2, DropKeepsInv
  <2>3. ASSUME NEW s \in Session, Sync(s)
        PROVE  StoreInv'
    BY <2>1, <2>3, SyncKeepsInv
  <2>4. ASSUME NEW s \in Session, NEW id \in MessageId, NEW to \in Client,
               NEW from \in Sender, NEW content \in Content,
               AddMessage(s, id, to, from, content)
        PROVE  StoreInv'
    BY <2>1, <2>4, AddMessageKeepsInv
  <2>5. ASSUME NEW s \in Session, NEW c \in Client, GetMessages(s, c)
        PROVE  StoreInv'
    BY <2>1, <2>5, GetMessagesKeepsInv
  <2>6. ASSUME NEW s \in Session, NEW row \in batch[s], DeleteMessage(s, row)
        PROVE  StoreInv'
    BY <2>1, <2>6, DeleteMessageKeepsInv
  <2>7. CASE UNCHANGED storeVars
    BY <2>7, StutterKeepsInv
  <2>. QED
    BY <2>2, <2>3, <2>4, <2>5, <2>6, <2>7
       DEF Next, Stop, Open, SyncFails, AddMessageFails
<1>. QED
  BY <1>1, <1>2, PTL DEF Spec

\* A session's free list is out of date only about rows that other sessions
\* stored after its sync.
THEOREM FreeListSoundAlways == Spec => []FreeListSound
<1>1. StoreInv => FreeListSound
  BY DEF StoreInv
<1>. QED
  BY <1>1, StoreInvariant, PTL

\* The messages of one session keep their order in the table.
THEOREM SessionOrderAlways == Spec => []SessionOrder
<1>1. StoreInv => SessionOrder
  BY DEF StoreInv
<1>. QED
  BY <1>1, StoreInvariant, PTL

\* A session uses the keys without gaps.
THEOREM NoKeySkippedAlways == Spec => []NoKeySkipped
<1>1. StoreInv => NoKeySkipped
  BY DEF StoreInv
<1>. QED
  BY <1>1, StoreInvariant, PTL

\* No message vanishes and none is taken twice while mailboxes are read by one
\* session at a time.
THEOREM ConservationAlways == Spec => []Conservation
<1>1. StoreInv => Conservation
  BY DEF StoreInv
<1>. QED
  BY <1>1, StoreInvariant, PTL

=============================================================================

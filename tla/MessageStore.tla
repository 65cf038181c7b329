---------------------------- MODULE MessageStore ----------------------------
(***************************************************************************)
(* The table "messages" and the allocators of message identifiers.  Every  *)
(* session thread opens the database for itself (SQL), and with it makes   *)
(* an allocator of its own (IdSync) that reads the table once, when the    *)
(* thread starts, and is never told what other threads store later.        *)
(*                                                                         *)
(* An identifier (page << 32) | slot is the pair <<page, slot>>.           *)
(***************************************************************************)
EXTENDS Integers, FiniteSets

CONSTANTS
  Session,      \* session threads; a thread is never used again
  Client,       \* identifiers of clients that messages are for
  Sender,       \* identifiers of clients that messages are from
  Content,      \* what a message carries
  Pages,        \* pages of identifiers (0xffff in the code)
  Slots,        \* identifiers of one page (0xffff in the code)
  MaxMessages   \* bound: messages ever stored

ASSUME MessageStoreAssumption ==
  Pages \in Nat \ {0} /\ Slots \in Nat \ {0} /\ MaxMessages \in Nat

VARIABLES
  messages,  \* the table: a set of rows
  sql,       \* SQL object of each session: not made yet, open, gone
  free,      \* IdSync.free_message_ids of each session
  batch,     \* rows of the session's get_messages that it has not deleted yet
  synced,    \* history: rows stored before the session made its IdSync
  nextUid,   \* history: rows stored so far
  posted,    \* history: every row ever stored
  taken,     \* history: every row that a session put into an answer
  raced      \* history: two sessions held rows for the same client at a time

storeVars ==
  <<messages, sql, free, batch, synced, nextUid, posted, taken, raced>>

MessageId == (0 .. Pages - 1) \X (0 .. Slots - 1)

\* uid and by are history: the rank of the row among all rows ever stored, and
\* the session that stored it.
MessageRow == [id : MessageId, to : Client, from : Sender, content : Content,
               uid : 0 .. MaxMessages - 1, by : Session]

\* The order of the key, and the order in which an allocator hands keys out.
IdLess(i, j) == i[1] < j[1] \/ (i[1] = j[1] /\ i[2] < j[2])

StoredIds == {m.id : m \in messages}

RowsFor(c) == {m \in messages : m.to = c}

\* Mutant: the pages list one slot too many (range(0xffff + 1)).
FreeAtSyncPast == ((0 .. Pages - 1) \X (0 .. Slots)) \ StoredIds

\* Mutant: the table is not read when the allocator is made.
FreeAtSyncAll == MessageId

\* sync_free_message_ids.  A page that is not created yet counts as free.
FreeAtSync == MessageId \ StoredIds

\* index() finds no entry for an identifier beyond page 0: the pages list slots.
SyncRaises == \E id \in StoredIds : id[1] # 0

\* Mutant: identifiers are taken from the end of the list.
AllocatesLast(s, id) ==
  id \in free[s] /\ \A j \in free[s] : j = id \/ IdLess(j, id)

\* allocate_message_id: the first free slot of the first page that has one.
Allocates(s, id) ==
  id \in free[s] /\ \A j \in free[s] : j = id \/ IdLess(id, j)

FreeAfter(s, id) == free[s] \ {id}

\* Mutant: one DELETE for all messages of the client.
AfterDeleteAll(row) == messages \ RowsFor(row.to)

\* Mutant: the message is not deleted.
AfterDeleteNone(row) == messages

\* delete_messages: by key, whatever row has the key by now.
AfterDelete(row) == {m \in messages : m.id # row.id}

-----------------------------------------------------------------------------

Init ==
  /\ messages = {}
  /\ sql = [s \in Session |-> "none"]
  /\ free = [s \in Session |-> {}]
  /\ batch = [s \in Session |-> {}]
  /\ synced = [s \in Session |-> 0]
  /\ nextUid = 0
  /\ posted = {}
  /\ taken = {}
  /\ raced = FALSE

\* SQL.__init__ in the thread of session s.
Sync(s) ==
  /\ sql[s] = "none"
  /\ ~SyncRaises
  /\ sql' = [sql EXCEPT ![s] = "open"]
  /\ free' = [free EXCEPT ![s] = FreeAtSync]
  /\ synced' = [synced EXCEPT ![s] = nextUid]
  /\ UNCHANGED <<messages, batch, nextUid, posted, taken, raced>>

\* The SQL objects of the sessions in S are lost with their threads.
Drop(S) ==
  /\ sql' = [s \in Session |-> IF s \in S THEN "gone" ELSE sql[s]]
  /\ batch' = [s \in Session |-> IF s \in S THEN {} ELSE batch[s]]
  /\ free' = [s \in Session |-> IF s \in S THEN {} ELSE free[s]]
  /\ UNCHANGED <<messages, synced, nextUid, posted, taken, raced>>

\* SQL.__init__ raises ValueError: the thread ends.
SyncFails(s) == sql[s] = "none" /\ SyncRaises /\ Drop({s})

\* SQL.add_message
AddMessage(s, id, to, from, content) ==
  LET row == [id |-> id, to |-> to, from |-> from, content |-> content,
              uid |-> nextUid, by |-> s] IN
    /\ sql[s] = "open"
    /\ nextUid < MaxMessages
    /\ Allocates(s, id)
    /\ id \notin StoredIds
    /\ messages' = messages \cup {row}
    /\ posted' = posted \cup {row}
    /\ free' = [free EXCEPT ![s] = FreeAfter(s, id)]
    /\ nextUid' = nextUid + 1
    /\ UNCHANGED <<sql, batch, synced, taken, raced>>

\* SQL.add_message raises and the thread ends: there is a row with the key
\* (IntegrityError), or every page is used up (IndexError).
AddRaises(s) ==
  free[s] = {} \/ \E id \in StoredIds : Allocates(s, id)

AddMessageFails(s) == sql[s] = "open" /\ AddRaises(s) /\ Drop({s})

\* SQL.get_messages
GetMessages(s, c) ==
  /\ sql[s] = "open"
  /\ batch[s] = {}
  /\ batch' = [batch EXCEPT ![s] = RowsFor(c)]
  /\ raced' = (raced \/ \E o \in Session : \E m \in batch[o] : m.to = c)
  /\ UNCHANGED <<messages, sql, free, synced, nextUid, posted, taken>>

\* One round of the loop over the rows, in the order of the key: the row goes
\* into the payload and is deleted.
DeleteMessage(s, row) ==
  /\ sql[s] = "open"
  /\ row \in batch[s]
  /\ \A m \in batch[s] : m = row \/ IdLess(row.id, m.id)
  /\ messages' = AfterDelete(row)
  /\ taken' = taken \cup {row}
  /\ batch' = [batch EXCEPT ![s] = @ \ {row}]
  /\ UNCHANGED <<sql, free, synced, nextUid, posted, raced>>

Open == {s \in Session : sql[s] = "open"}

\* A session ends, also one that has not opened the database yet, or the server
\* stops and all of them with it.
Stop == (\E s \in Session : Drop({s})) \/ Drop(Open)

Next ==
  \/ \E s \in Session :
       \/ Sync(s)
       \/ SyncFails(s)
       \/ \E id \in MessageId, to \in Client, from \in Sender, content \in Content :
            AddMessage(s, id, to, from, content)
       \/ AddMessageFails(s)
       \/ \E c \in Client : GetMessages(s, c)
       \/ \E row \in batch[s] : DeleteMessage(s, row)
  \/ Stop

Spec == Init /\ [][Next]_storeVars

-----------------------------------------------------------------------------

TypeOK ==
  /\ messages \subseteq MessageRow
  /\ sql \in [Session -> {"none", "open", "gone"}]
  /\ free \in [Session -> SUBSET MessageId]
  /\ batch \in [Session -> SUBSET MessageRow]
  /\ synced \in [Session -> 0 .. MaxMessages]
  /\ nextUid \in 0 .. MaxMessages
  /\ posted \subseteq MessageRow
  /\ taken \subseteq MessageRow
  /\ raced \in BOOLEAN

\* An allocator that is out of date is so in one way only: a stored row whose
\* key it still holds as free was stored by another session after the sync.
\* So a single session never meets a duplicate key.
FreeListSound ==
  \A s \in Session, m \in messages :
    m.id \in free[s] => m.by # s /\ m.uid >= synced[s]

\* The order of the keys is the order in which a session stored its messages:
\* get_messages sorts by the key only.  Across sessions this is not so.
SessionOrder ==
  \A m, n \in posted :
    m.by = n.by => (m.uid < n.uid <=> IdLess(m.id, n.id))

\* No allocator leaves a gap: every key below an allocated one is a key that
\* the session allocated before, or that was stored at some time before its
\* sync.  In particular page 1 is only reached when page 0 is used up.
NoKeySkipped ==
  \A m \in posted, j \in MessageId :
    IdLess(j, m.id) =>
      \E n \in posted : n.id = j /\ (n.by = m.by \/ n.uid < synced[m.by])

\* As long as no two sessions read the mailbox of one client at a time, a
\* message is at every moment either stored or taken by one session: the keys
\* that sessions share and reuse never make a DELETE hit another row, although
\* SELECT and DELETE are separate transactions.
Conservation ==
  ~raced => messages \cup taken = posted /\ messages \cap taken = {}

=============================================================================

--------------------------- MODULE MessageUServer ---------------------------
(***************************************************************************)
(* The server: the main thread that accepts connections and looks at the   *)
(* first request of each, one thread per connection after that, the two    *)
(* tables, the sockets, and the programs at the other end of them.         *)
(*                                                                         *)
(* A connection is one run of the client program.  The program asks one    *)
(* request at a time and waits for the answer; it may quit at any moment.  *)
(***************************************************************************)
EXTENDS Integers, Sequences, FiniteSets

CONSTANTS
  Conn,         \* connections, each one used once
  Name, Base, Digits, MaxRestarts,   \* see ClientRegistry
  ForeignName,  \* names with letters outside ASCII
  Pages, Slots, MaxMessages,         \* see MessageStore
  Kind,         \* forms of a message's text in hexadecimal: "hex", "number"
  Strangers,    \* identifiers that users enter as addressees, whoever has them
  AskTypes,     \* requests other than the registration
  Arrivals,     \* how requests reach the server: "whole", "oversize", "fragmented"
  Locking,      \* whether SQLite may give up waiting for a lock
  NoId,         \* the identifier of a program that is not registered
  MaxRequests   \* bound: requests of one connection

\* What the registry and the store assume of their parameters.
ASSUME PartsAssumption ==
  /\ Base \in Nat \ {0, 1} /\ Digits \in Nat \ {0} /\ MaxRestarts \in Nat
  /\ Pages \in Nat \ {0} /\ Slots \in Nat \ {0} /\ MaxMessages \in Nat

ASSUME MessageUServerAssumption ==
  /\ MaxRequests \in Nat /\ Locking \in BOOLEAN
  /\ ForeignName \cap Name = {}
  /\ AskTypes \subseteq {"list", "key", "send", "get"}
  /\ Arrivals \subseteq {"whole", "oversize", "fragmented"}

VARIABLES
  clients, last_client_id, restarts,                               \* registry
  messages, sql, free, batch, synced, nextUid, posted, taken, raced,  \* store
  acceptor,   \* the main thread: "up" or "dead"
  stage,      \* where the server is with each connection
  client_id,  \* MessageUClient.client_id of each connection
  request,    \* MessageUClient.request: the last request that was decoded
  reply,      \* response and payload of each connection
  inbox,      \* what each recv() of the server will return, in order
  outbox,     \* answers that the program has not read yet
  peer,       \* the program: not started, ready to ask, waiting, gone
  me,         \* the identifier that the program knows (me.info)
  asked,      \* the program's last request
  asks,       \* requests of the program so far
  split,      \* history: a request of the program did not arrive in one piece
  received    \* history: messages that the program read, in order

registryVars == <<clients, last_client_id, restarts>>
storeVars  == <<messages, sql, free, batch, synced, nextUid, posted, taken, raced>>
threadVars == <<client_id, request, reply>>
wireVars   == <<inbox, outbox>>
userVars   == <<peer, me, asked, asks, split, received>>
vars == <<registryVars, storeVars, acceptor, stage, threadVars, wireVars, userVars>>

\* The text of a message: how its hexadecimal form looks, and which request of
\* which connection it is from.
MessageContent == [kind : Kind, conn : Conn, serial : 1 .. MaxRequests]

Registry == INSTANCE ClientRegistry
Store == INSTANCE MessageStore
           WITH Session <- Conn, Client <- Registry!Id, Sender <- Registry!Id,
                Content <- MessageContent

ASSUME StrangersAssumption == Strangers \subseteq Registry!Id

UserId == Registry!Id \cup {NoId}

\* Requests as decoded.  "garbled" is a stream that the decoder flags (err);
\* on "short", less than a header, it raises.  "none" is no request yet.
\* The user enters the addressee: one of the list of clients, or any other.
Plain(type)   == [type |-> type]
Asks(c, type) ==
  CASE type = "list" -> {[type |-> "list", id |-> me[c]]}
    [] type = "key"  -> {[type |-> "key", id |-> me[c], of |-> k] : k \in Registry!Id}
    [] type = "get"  -> {[type |-> "get", id |-> me[c]]}
    [] type = "send" -> {[type |-> "send", id |-> me[c], to |-> t,
                          content |-> [kind |-> k, conn |-> c, serial |-> asks[c] + 1]] :
                            t \in Registry!RegisteredIds \cup Strangers, k \in Kind}
    [] type = "register" -> {[type |-> "register", id |-> me[c], name |-> n] :
                               n \in Name \cup ForeignName}

Serviceable == {"list", "key", "send", "get"}

Error == [code |-> "error"]
Listening == {"start", "answer", "take", "send", "bad", "recv"}

\* What a request is when it arrives: one piece, or two that are no requests.
\* The first piece of a request of more than 2048 bytes has a whole header.
\* Two pieces stand for any number: a third is decoded, and answered, like the second.
Pieces(q) ==
  (IF "whole" \in Arrivals THEN {<<q>>} ELSE {})
  \cup (IF "oversize" \in Arrivals /\ q.type = "send"
        THEN {<<Plain("garbled"), Plain(t)>> : t \in {"garbled", "short"}} ELSE {})
  \cup (IF "fragmented" \in Arrivals
        THEN {<<Plain(t), Plain(u)>> : t, u \in {"garbled", "short"}} ELSE {})

-----------------------------------------------------------------------------
(* The programs at the other end.  Nothing here is a step of the server. *)

\* A program starts: for the first time, or with the me.info that an earlier run
\* of it left behind.
Connect(c) ==
  /\ peer[c] = "off"
  /\ peer' = [peer EXCEPT ![c] = "ready"]
  /\ stage' = [stage EXCEPT ![c] = "backlog"]
  /\ \E id \in {NoId} \cup {me[d] : d \in {d \in Conn : peer[d] = "gone"}} :
       /\ id = NoId \/ \A d \in Conn : peer[d] \in {"ready", "waiting"} => me[d] # id
       /\ me' = [me EXCEPT ![c] = id]
  /\ UNCHANGED <<registryVars, storeVars, acceptor, threadVars, wireVars,
                 asked, asks, split, received>>

\* The program asks a request of the user and starts to wait.  Before it is
\* registered, its requests carry an identifier that is nobody's.
Ask(c) ==
  /\ peer[c] = "ready"
  /\ asks[c] < MaxRequests
  /\ \E type \in AskTypes \cup (IF me[c] = NoId THEN {"register"} ELSE {}) :
     \E q \in Asks(c, type) : \E pieces \in Pieces(q) :
       /\ asked' = [asked EXCEPT ![c] = q]
       /\ inbox' = [inbox EXCEPT ![c] = @ \o pieces]
       /\ split' = [split EXCEPT ![c] = @ \/ Len(pieces) > 1]
  /\ asks' = [asks EXCEPT ![c] = @ + 1]
  /\ peer' = [peer EXCEPT ![c] = "waiting"]
  /\ UNCHANGED <<registryVars, storeVars, acceptor, stage, threadVars, outbox,
                 me, received>>

\* The program reads the next answer, and takes it for the answer to its last
\* request.
ReadAnswer(c) ==
  /\ peer[c] = "waiting"
  /\ outbox[c] # <<>>
  /\ outbox' = [outbox EXCEPT ![c] = Tail(@)]
  /\ peer' = [peer EXCEPT ![c] = "ready"]
  /\ LET answer == Head(outbox[c]) IN
       /\ me' = IF answer.code = "registered"
                THEN [me EXCEPT ![c] = answer.id] ELSE me
       /\ received' = IF answer.code = "messages"
                      THEN [received EXCEPT ![c] = @ \o answer.rows] ELSE received
  /\ UNCHANGED <<registryVars, storeVars, acceptor, stage, threadVars, inbox,
                 asked, asks, split>>

\* The program finds the connection closed by the server.
ReadEof(c) ==
  /\ peer[c] = "waiting"
  /\ outbox[c] = <<>>
  /\ stage[c] = "closed"
  /\ peer' = [peer EXCEPT ![c] = "gone"]
  /\ UNCHANGED <<registryVars, storeVars, acceptor, stage, threadVars, wireVars,
                 me, asked, asks, split, received>>

\* The program quits or is killed.  What it sent may be lost with it.
Quit(c) ==
  /\ peer[c] \in {"ready", "waiting"}
  /\ peer' = [peer EXCEPT ![c] = "gone"]
  /\ \E sent \in {inbox[c], <<>>} : inbox' = [inbox EXCEPT ![c] = sent]
  /\ outbox' = [outbox EXCEPT ![c] = <<>>]
  /\ UNCHANGED <<registryVars, storeVars, acceptor, stage, threadVars,
                 me, asked, asks, split, received>>

\* A send() of the server succeeds: whether or not the program still reads.
Sent(c, answer) ==
  outbox' = IF peer[c] = "gone" THEN outbox
            ELSE [outbox EXCEPT ![c] = Append(@, answer)]

-----------------------------------------------------------------------------
(* The main thread: Server.serv_foo and MessageUServer.recv. *)

\* serv_foo: the main thread takes the next connection when it is done with
\* the one before.
Accept(c) ==
  /\ acceptor = "up"
  /\ \A d \in Conn : stage[d] # "accepted"
  /\ stage[c] = "backlog"
  /\ stage' = [stage EXCEPT ![c] = "accepted"]
  /\ UNCHANGED <<registryVars, storeVars, acceptor, threadVars, wireVars, userVars>>

\* The piece that the main thread, or a thread, finds when recv() returns.
First(c) == /\ stage[c] = "accepted" /\ acceptor = "up"
            /\ inbox[c] # <<>>
            /\ inbox' = [inbox EXCEPT ![c] = Tail(@)]

\* Mutant: the main thread waits on when recv returns nothing.
FirstEofIgnored(c) == FALSE /\ UNCHANGED vars

\* recv returns nothing: the connection is dropped.
FirstEof(c) ==
  /\ stage[c] = "accepted" /\ acceptor = "up"
  /\ inbox[c] = <<>> /\ peer[c] = "gone"
  /\ stage' = [stage EXCEPT ![c] = "closed"]
  /\ UNCHANGED <<registryVars, storeVars, acceptor, threadVars, wireVars, userVars>>

\* The decoder raises, or the conversion of the name to a string, letter by
\* letter, does; only MemoryError is caught, and the main thread ends.
FirstUndecodable(c) ==
  /\ First(c)
  /\ LET q == Head(inbox[c]) IN
       q.type = "short" \/ (q.type = "register" /\ q.name \in ForeignName)
  /\ acceptor' = "dead"
  /\ stage' = [stage EXCEPT ![c] = "dead"]
  /\ UNCHANGED <<registryVars, storeVars, threadVars, outbox, userVars>>

\* A transaction of the server for connection c is under way, and one that writes.
Works(c) ==
  \/ /\ stage[c] = "accepted" /\ inbox[c] # <<>>
     /\ LET q == Head(inbox[c]) IN
          q.type \in Serviceable \/ (q.type = "register" /\ q.name \in Name)
  \/ stage[c] = "start"
  \/ stage[c] = "answer" /\ request[c].type \in Serviceable
  \/ stage[c] = "take" /\ batch[c] # {}

Writes(c) ==
  \/ stage[c] = "accepted" /\ Head(inbox[c]).type = "register"
  \/ stage[c] = "answer" /\ request[c].type = "send"
  \/ stage[c] = "take"

\* A transaction waits for another one for longer than SQLite allows, and raises
\* OperationalError, "database is locked": nothing of it is done.
Locked(c) ==
  /\ Locking /\ Works(c)
  /\ \E d \in Conn \ {c} : Works(d) /\ (Writes(c) \/ Writes(d))

\* The main thread looks up or adds a client: it ends.
FirstLocked(c) ==
  /\ First(c)
  /\ Locked(c)
  /\ acceptor' = "dead"
  /\ stage' = [stage EXCEPT ![c] = "dead"]
  /\ UNCHANGED <<registryVars, storeVars, threadVars, outbox, userVars>>

\* A first request that is answered with an error and a closed connection.
Refuses(q) ==
  \/ q.type = "garbled"
  \/ q.type = "register" /\ Registry!NameExists(q.name)
  \/ q.type \in Serviceable /\ q.id \notin Registry!RegisteredIds

\* Closing with a piece unread resets the connection, and the error may be lost.
FirstRefused(c) ==
  /\ First(c)
  /\ Refuses(Head(inbox[c]))
  /\ Sent(c, Error) \/ (inbox'[c] # <<>> /\ UNCHANGED outbox)
  /\ stage' = [stage EXCEPT ![c] = "closed"]
  /\ UNCHANGED <<registryVars, storeVars, acceptor, threadVars, userVars>>

\* The same when the program reset the connection: send raises, and the main
\* thread ends.
FirstRefusedRaises(c) ==
  /\ First(c)
  /\ Refuses(Head(inbox[c]))
  /\ peer[c] = "gone"
  /\ acceptor' = "dead"
  /\ stage' = [stage EXCEPT ![c] = "dead"]
  /\ UNCHANGED <<registryVars, storeVars, threadVars, outbox, userVars>>

\* The connection gets a thread, and the first request waits for it.
StartThread(c, id, q) ==
  /\ client_id' = [client_id EXCEPT ![c] = id]
  /\ request' = [request EXCEPT ![c] = q]
  /\ stage' = [stage EXCEPT ![c] = "start"]
  /\ UNCHANGED <<storeVars, acceptor, reply, outbox, userVars>>

\* A registration under a new name.
FirstRegister(c) ==
  /\ First(c)
  /\ LET q == Head(inbox[c]) IN
       /\ q.type = "register" /\ q.name \in Name
       /\ Registry!Register(q.name)
       /\ StartThread(c, Registry!Add1(last_client_id), q)

\* Another request of a client that is registered.
FirstKnown(c) ==
  /\ First(c)
  /\ LET q == Head(inbox[c]) IN
       /\ q.type \in Serviceable
       /\ q.id \in Registry!RegisteredIds
       /\ StartThread(c, q.id, q)
  /\ UNCHANGED registryVars

-----------------------------------------------------------------------------
(* The thread of a connection: MessageUClient.serv. *)

GoTo(c, next) == stage' = [stage EXCEPT ![c] = next]

\* The response is ready to be sent.
Reply(c, answer) ==
  /\ reply' = [reply EXCEPT ![c] = answer]
  /\ GoTo(c, "send")

\* serv: the thread opens the database.
Start(c) ==
  /\ stage[c] = "start"
  /\ \/ Store!Sync(c) /\ GoTo(c, "answer")
     \/ Store!SyncFails(c) /\ GoTo(c, "dead")
  /\ UNCHANGED <<registryVars, acceptor, threadVars, wireVars, userVars>>

Answering(c, type) == stage[c] = "answer" /\ request[c].type = type

\* Mutant: the identifier is taken from the server, not from the connection.
AnswerRegisterLast(c) ==
  /\ Answering(c, "register")
  /\ Reply(c, [code |-> "registered", id |-> last_client_id])
  /\ UNCHANGED <<registryVars, storeVars, acceptor, client_id, request, wireVars,
                 userVars>>

AnswerRegister(c) ==
  /\ Answering(c, "register")
  /\ Reply(c, [code |-> "registered", id |-> client_id[c]])
  /\ UNCHANGED <<registryVars, storeVars, acceptor, client_id, request, wireVars,
                 userVars>>

\* Mutant: the rows of the table instead of their keys.
AnswerListRows(c) ==
  /\ Answering(c, "list")
  /\ Reply(c, [code |-> "clients", ids |-> clients])
  /\ UNCHANGED <<registryVars, storeVars, acceptor, client_id, request, wireVars,
                 userVars>>

AnswerList(c) ==
  /\ Answering(c, "list")
  /\ Reply(c, [code |-> "clients", ids |-> Registry!RegisteredIds \ {client_id[c]}])
  /\ UNCHANGED <<registryVars, storeVars, acceptor, client_id, request, wireVars,
                 userVars>>

\* get_client indexes the first of no rows when the identifier is unknown, and
\* the thread ends: the branch that should answer an error is not reached.
\* The error for an identifier that is no text is left out: all are in Registry!Id.
AnswerKey(c) ==
  /\ Answering(c, "key")
  /\ \/ /\ \E row \in clients :
            /\ row.id = request[c].of
            /\ Reply(c, [code |-> "key", id |-> row.id, key |-> row.name])
        /\ UNCHANGED storeVars
     \/ /\ request[c].of \notin Registry!RegisteredIds
        /\ GoTo(c, "dead")
        /\ Store!Drop({c})
        /\ UNCHANGED reply
  /\ UNCHANGED <<registryVars, acceptor, client_id, request, wireVars, userVars>>

\* SEND_MESSAGE.  The message is stored before its identifier is put into the
\* 32 bits of the response: a larger one ends the thread.
AnswerSend(c) ==
  /\ Answering(c, "send")
  /\ \/ \E id \in Store!MessageId :
          LET q == request[c] IN
            /\ Store!AddMessage(c, id, q.to, q.id, q.content)
            /\ id[1] = 0
            /\ Reply(c, [code |-> "sent", to |-> q.to, id |-> id])
     \/ \E id \in Store!MessageId :
          LET q == request[c] IN
            /\ Store!AddMessage(c, id, q.to, q.id, q.content)
            /\ id[1] # 0
            /\ GoTo(c, "dead")
            /\ UNCHANGED reply
     \/ /\ Store!AddMessageFails(c)
        /\ GoTo(c, "dead")
        /\ UNCHANGED reply
  /\ UNCHANGED <<registryVars, acceptor, client_id, request, wireVars, userVars>>

\* GET_MESSAGES, first part: the rows are read.
AnswerGet(c) ==
  /\ Answering(c, "get")
  /\ Store!GetMessages(c, request[c].id)
  /\ reply' = [reply EXCEPT ![c] = [code |-> "messages", rows |-> <<>>]]
  /\ GoTo(c, "take")
  /\ UNCHANGED <<registryVars, acceptor, client_id, request, wireVars, userVars>>

\* A row that cannot be put into an answer: SQLite turned text that looks like
\* a number into one, or the identifier has more than 32 bits.
Unreadable(row) == row.content.kind = "number" \/ row.id[1] # 0

\* GET_MESSAGES, the loop: one row after the other is copied and deleted.
Take(c) ==
  /\ stage[c] = "take"
  /\ \E row \in batch[c] :
       /\ ~Unreadable(row)
       /\ Store!DeleteMessage(c, row)
       /\ reply' = [reply EXCEPT ![c].rows = Append(@, row)]
  /\ UNCHANGED <<registryVars, acceptor, stage, client_id, request, wireVars,
                 userVars>>

\* The loop meets a row that it cannot copy: the thread ends, the row stays,
\* and the rows before it are in no table and no answer.
TakeRaises(c) ==
  /\ stage[c] = "take"
  /\ \E row \in batch[c] :
       /\ Unreadable(row)
       /\ \A m \in batch[c] : m = row \/ Store!IdLess(row.id, m.id)
  /\ Store!Drop({c})
  /\ GoTo(c, "dead")
  /\ UNCHANGED <<registryVars, acceptor, threadVars, wireVars, userVars>>

TakeEnds(c) ==
  /\ stage[c] = "take"
  /\ batch[c] = {}
  /\ GoTo(c, "send")
  /\ UNCHANGED <<registryVars, storeVars, acceptor, threadVars, wireVars, userVars>>

\* The thread finds the database locked, at its first use of it, at a request or
\* between two rows of a mailbox: nothing catches the error and the thread ends.
ThreadLocked(c) ==
  /\ stage[c] \in {"start", "answer", "take"}
  /\ Locked(c)
  /\ Store!Drop({c})
  /\ GoTo(c, "dead")
  /\ UNCHANGED <<registryVars, acceptor, threadVars, wireVars, userVars>>

\* serv, status bad.
Bad(c) ==
  /\ stage[c] = "bad"
  /\ Reply(c, Error)
  /\ UNCHANGED <<registryVars, storeVars, acceptor, client_id, request, wireVars,
                 userVars>>

\* Mutant: the status is not set back to recv.
SendNoReset(c) ==
  /\ stage[c] = "send"
  /\ Sent(c, reply[c])
  /\ GoTo(c, "answer")
  /\ UNCHANGED <<registryVars, storeVars, acceptor, threadVars, inbox, userVars>>

\* MessageUClient.send
Send(c) ==
  /\ stage[c] = "send"
  /\ Sent(c, reply[c])
  /\ GoTo(c, "recv")
  /\ UNCHANGED <<registryVars, storeVars, acceptor, threadVars, inbox, userVars>>

\* The program reset the connection: send raises and the thread ends.
SendRaises(c) ==
  /\ stage[c] = "send"
  /\ peer[c] = "gone"
  /\ Store!Drop({c})
  /\ GoTo(c, "dead")
  /\ UNCHANGED <<registryVars, acceptor, threadVars, wireVars, userVars>>

\* Mutant: a request that is not served is not answered either.
NextStageSilent(q) == IF q.type \in Serviceable THEN "answer" ELSE "recv"

\* Where recv goes on with the request it has: an undecodable stream sets the
\* status to bad, and the lines after that overwrite it.
NextStage(q) == IF q.type \in Serviceable THEN "answer" ELSE "bad"

\* MessageUClient.recv.  When the decoder raises, the request of before stays.
Recv(c) ==
  /\ stage[c] = "recv"
  /\ inbox[c] # <<>>
  /\ inbox' = [inbox EXCEPT ![c] = Tail(@)]
  /\ LET piece == Head(inbox[c])
         q == IF piece.type = "short" THEN request[c] ELSE piece IN
       /\ request' = [request EXCEPT ![c] = q]
       /\ GoTo(c, NextStage(q))
  /\ UNCHANGED <<registryVars, storeVars, acceptor, client_id, reply, outbox,
                 userVars>>

\* The program is gone: serv closes the connection and ends.
RecvEof(c) ==
  /\ stage[c] = "recv"
  /\ inbox[c] = <<>> /\ peer[c] = "gone"
  /\ Store!Drop({c})
  /\ GoTo(c, "closed")
  /\ UNCHANGED <<registryVars, acceptor, threadVars, wireVars, userVars>>

\* When the main thread is dead and no other thread is left, Python ends and the
\* connections are closed.
ProcessEnds ==
  /\ acceptor = "dead"
  /\ \A c \in Conn : stage[c] \notin Listening
  /\ stage' = [c \in Conn |-> IF stage[c] = "none" THEN "none" ELSE "closed"]
  /\ UNCHANGED <<registryVars, storeVars, acceptor, threadVars, wireVars, userVars>>

\* The server stops, with all its threads and connections, and is started
\* again.  The new main thread opens the database like any thread.
Restart ==
  /\ Registry!Reload
  /\ Store!Drop(Store!Open)
  /\ acceptor' = IF Store!SyncRaises THEN "dead" ELSE "up"
  /\ stage' = [c \in Conn |-> IF stage[c] = "none" THEN "none" ELSE "closed"]
  /\ outbox' \in {outbox, [c \in Conn |-> <<>>]}
  /\ UNCHANGED <<threadVars, inbox, userVars>>

-----------------------------------------------------------------------------

Init ==
  /\ Registry!Init
  /\ Store!Init
  /\ acceptor = "up"
  /\ stage = [c \in Conn |-> "none"]
  /\ client_id = [c \in Conn |-> NoId]
  /\ request = [c \in Conn |-> Plain("none")]
  /\ reply = [c \in Conn |-> Error]
  /\ inbox = [c \in Conn |-> <<>>]
  /\ outbox = [c \in Conn |-> <<>>]
  /\ peer = [c \in Conn |-> "off"]
  /\ me = [c \in Conn |-> NoId]
  /\ asked = [c \in Conn |-> Plain("none")]
  /\ asks = [c \in Conn |-> 0]
  /\ split = [c \in Conn |-> FALSE]
  /\ received = [c \in Conn |-> <<>>]

\* What the main thread does for connection c.
MainThread(c) ==
  \/ Accept(c)
  \/ FirstEof(c)
  \/ FirstUndecodable(c)
  \/ FirstLocked(c)
  \/ FirstRefused(c)
  \/ FirstRefusedRaises(c)
  \/ FirstRegister(c)
  \/ FirstKnown(c)

\* What the thread of connection c does.
Thread(c) ==
  \/ Start(c)
  \/ AnswerRegister(c)
  \/ AnswerList(c)
  \/ AnswerKey(c)
  \/ AnswerSend(c)
  \/ AnswerGet(c)
  \/ Take(c)
  \/ TakeRaises(c)
  \/ TakeEnds(c)
  \/ ThreadLocked(c)
  \/ Bad(c)
  \/ Send(c)
  \/ SendRaises(c)
  \/ Recv(c)
  \/ RecvEof(c)

\* What a program does.
Program(c) ==
  \/ Connect(c)
  \/ Ask(c)
  \/ ReadAnswer(c)
  \/ ReadEof(c)
  \/ Quit(c)

Next ==
  \/ Restart
  \/ ProcessEnds
  \/ \E c \in Conn : MainThread(c) \/ Thread(c) \/ Program(c)

Spec == Init /\ [][Next]_vars

\* The threads of the server run, and a program that waits reads what comes.
\* Nothing obliges a user to start a program, to ask or to quit.
Fairness ==
  \A c \in Conn :
    /\ WF_vars(MainThread(c))
    /\ WF_vars(Thread(c))
    /\ WF_vars(ReadAnswer(c))
    /\ WF_vars(ReadEof(c))

FairSpec == Spec /\ Fairness

-----------------------------------------------------------------------------

Request ==
  {Plain("none"), Plain("garbled"), Plain("short")}
  \cup [type : {"list", "get"}, id : UserId]
  \cup [type : {"register"}, id : UserId, name : Name \cup ForeignName]
  \cup [type : {"key"}, id : UserId, of : Registry!Id]
  \cup [type : {"send"}, id : UserId, to : Registry!Id, content : MessageContent]

IsRows(s) == \A i \in DOMAIN s : s[i] \in posted

IsAnswer(a) ==
  \/ a = Error
  \/ a.code = "registered" /\ a.id \in Registry!Id
  \/ a.code = "clients" /\ a.ids \subseteq Registry!Id
  \/ a.code = "key" /\ a.id \in Registry!Id /\ a.key \in Name
  \/ a.code = "sent" /\ a.to \in Registry!Id /\ a.id \in Store!MessageId
  \/ a.code = "messages" /\ IsRows(a.rows)

TypeOK ==
  /\ Registry!TypeOK
  /\ Store!TypeOK
  /\ acceptor \in {"up", "dead"}
  /\ stage \in [Conn -> {"none", "backlog", "accepted", "dead", "closed"} \cup Listening]
  /\ client_id \in [Conn -> UserId]
  /\ request \in [Conn -> Request]
  /\ \A c \in Conn :
       /\ IsAnswer(reply[c])
       /\ \A i \in DOMAIN inbox[c] : inbox[c][i] \in Request
       /\ \A i \in DOMAIN outbox[c] : IsAnswer(outbox[c][i])
       /\ IsRows(received[c])
  /\ peer \in [Conn -> {"off", "ready", "waiting", "gone"}]
  /\ me \in [Conn -> UserId]
  /\ asked \in [Conn -> Request]
  /\ asks \in [Conn -> 0 .. MaxRequests]
  /\ split \in [Conn -> BOOLEAN]

\* What an answer other than an error has to do with the request it is for.
Answers(q, c, a) ==
  \/ a = Error
  \/ /\ a.code = "registered" /\ q.type = "register"
     /\ [id |-> a.id, name |-> q.name] \in clients
  \/ /\ a.code = "clients" /\ q.type = "list"
     /\ a.ids \subseteq Registry!RegisteredIds \ {q.id}
  \/ /\ a.code = "key" /\ q.type = "key"
     /\ a.id = q.of /\ [id |-> a.id, name |-> a.key] \in clients
  \/ /\ a.code = "sent" /\ q.type = "send"
     /\ \E m \in posted : /\ m.by = c /\ m.id = a.id
                          /\ m.to = q.to /\ m.from = q.id /\ m.content = q.content
  \/ /\ a.code = "messages" /\ q.type = "get"
     /\ \A i \in DOMAIN a.rows : a.rows[i].to = q.id

\* The answer that a waiting program will read is for the request it asked:
\* the client program does not check.  An acknowledged message was stored by
\* this very request, and a registration names the client's own row.
AnswersMatch ==
  \A c \in Conn :
    peer[c] = "waiting" /\ ~split[c] /\ outbox[c] # <<>> =>
      Len(outbox[c]) = 1 /\ Answers(asked[c], c, outbox[c][1])

\* A request to send stores at most one message.
StoredOnce ==
  \A m, n \in posted : m.content = n.content => m = n

\* No message is received twice, on one connection or on two.
ReceivedOnce ==
  ~raced =>
    \A c, d \in Conn : \A i \in DOMAIN received[c], j \in DOMAIN received[d] :
      received[c][i] = received[d][j] => c = d /\ i = j

\* A program receives the messages of one connection in the order they were
\* stored, also when several answers bring them.
ReceivedInOrder ==
  \A c \in Conn : \A i, j \in DOMAIN received[c] :
    i < j /\ received[c][i].by = received[c][j].by =>
      received[c][i].uid < received[c][j].uid

\* Programs that run at the same time have different identifiers: a mailbox
\* has one owner.
LiveIdsDistinct ==
  \A c, d \in Conn :
    /\ c # d /\ me[c] # NoId /\ me[c] = me[d]
    => ~({peer[c], peer[d]} \subseteq {"ready", "waiting"})

Rows(a) == IF a.code = "messages" THEN {a.rows[i] : i \in DOMAIN a.rows} ELSE {}

\* Messages that connection c has taken out of the table, neither lost nor received.
InHand(c) ==
  (UNION {Rows(outbox[c][i]) : i \in DOMAIN outbox[c]})
  \cup (IF stage[c] \in {"take", "send"} THEN Rows(reply[c]) ELSE {})

Broken(c) == stage[c] \in {"dead", "closed"} \/ peer[c] = "gone"

\* A message is posted once, leaves the table only into the answer of the
\* connection that asked for it, is received there once and in the order of its
\* sender, and is lost only if this connection breaks: threads that outlive their
\* connections, keys that are used again and SELECT and DELETE in transactions of
\* their own do not show, unless two threads read one mailbox at a time.
Tag(row) == <<row.by, row.uid>>

Mail == INSTANCE Mailbox
          WITH Connection <- Conn,
               count      <- nextUid,
               stored     <- {Tag(row) : row \in messages},
               inHand     <- [c \in Conn |-> {Tag(row) : row \in InHand(c)}],
               received   <- [c \in Conn |-> [i \in DOMAIN received[c] |-> Tag(received[c][i])]],
               up         <- [c \in Conn |-> ~Broken(c)],
               shared     <- raced

MailboxService == Mail!Spec

\* A program that waits at a connection with a thread reads an answer or finds
\* the connection closed, unless the thread raises: then nothing closes the
\* connection.
Answered ==
  \A c \in Conn :
    stage[c] \in Listening /\ peer[c] = "waiting"
      ~> peer[c] # "waiting" \/ stage[c] = "dead"

\* The main thread waits for a first request that does not come.
SilentFirst ==
  \E c \in Conn : stage[c] = "accepted" /\ inbox[c] = <<>> /\ peer[c] # "gone"

\* A connection is left in the backlog for ever only if the main thread is dead
\* or for ever held up by one connection that says nothing.
AcceptorProgress ==
  \A c \in Conn :
    \/ []<>(stage[c] # "backlog")
    \/ <>[](acceptor = "dead" \/ SilentFirst)

=============================================================================

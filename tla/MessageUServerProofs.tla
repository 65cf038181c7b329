------------------------ MODULE MessageUServerProofs ------------------------
(***************************************************************************)
(* Proofs about the server, for every value of the constants:              *)
(*  - it implements the registry and the message store, so that what is    *)
(*    proved of them holds in it, whatever its threads, sockets and        *)
(*    programs do; and its variables have their types;                     *)
(*  - programs get the answers to their own requests, and have different   *)
(*    identifiers;                                                         *)
(*  - it keeps the promise of Mailbox: what a connection has read, what is *)
(*    under way to it and what its thread has at hand is one stream in the *)
(*    order of each sender;                                                *)
(*  - no request to send is executed twice.                                *)
(***************************************************************************)
EXTENDS MessageUServer, FiniteSetTheorems, SequenceTheorems, TLAPS

USE PartsAssumption, MessageUServerAssumption DEF PartsAssumption, MessageUServerAssumption

\* The parts together with what is proved of them.
RegistryTheory == INSTANCE ClientRegistryProofs
StoreTheory == INSTANCE MessageStoreProofs
                 WITH Session <- Conn, Client <- Registry!Id, Sender <- Registry!Id,
                      Content <- MessageContent

-----------------------------------------------------------------------------
(* The registry. *)

\* Registrations and restarts change the registry, and nothing else does.
LEMMA RegistryStep == [Next]_vars => [Registry!Next]_(Registry!registryVars)
<1>. SUFFICES ASSUME [Next]_vars PROVE [Registry!Next]_(Registry!registryVars)
  OBVIOUS
<1>1. ASSUME UNCHANGED registryVars PROVE UNCHANGED Registry!registryVars
  BY <1>1 DEF registryVars, Registry!registryVars
<1>2. CASE UNCHANGED vars
  BY <1>1, <1>2 DEF vars
<1>3. CASE Restart
  BY <1>3 DEF Restart, Registry!Next
<1>4. CASE ProcessEnds
  BY <1>1, <1>4 DEF ProcessEnds
<1>5. ASSUME NEW c \in Conn, MainThread(c)
      PROVE  [Registry!Next]_(Registry!registryVars)
  <2>1. CASE FirstRegister(c)
    BY <2>1 DEF FirstRegister, Registry!Next
  <2>2. CASE ~FirstRegister(c)
    BY <1>1, <1>5, <2>2
       DEF MainThread, Accept, FirstEof, FirstUndecodable, FirstLocked, FirstRefused,
           FirstRefusedRaises, FirstKnown
  <2>. QED
    BY <2>1, <2>2
<1>6. ASSUME NEW c \in Conn, Thread(c) PROVE UNCHANGED registryVars
  BY <1>6 DEF Thread, Start, AnswerRegister, AnswerList, AnswerKey, AnswerSend, AnswerGet,
              Take, TakeRaises, TakeEnds, ThreadLocked, Bad, Send, SendRaises, Recv, RecvEof
<1>7. ASSUME NEW c \in Conn, Program(c) PROVE UNCHANGED registryVars
  BY <1>7 DEF Program, Connect, Ask, ReadAnswer, ReadEof, Quit
<1>. QED
  BY <1>1, <1>2, <1>3, <1>4, <1>5, <1>6, <1>7 DEF Next

\* Whatever the server does, its table of clients and its counter change as the
\* registry allows: by a registration in the main thread or by a restart.
THEOREM RegistryImplemented == Spec => Registry!Spec
<1>1. Init => Registry!Init
  BY DEF Init
<1>. QED
  BY <1>1, RegistryStep, PTL DEF Spec, Registry!Spec

\* The registry of the server is the one that the theorems are about.
LEMMA RegistryIsTheory ==
  /\ Registry!Init => RegistryTheory!Init
  /\ [Registry!Next]_(Registry!registryVars) => [RegistryTheory!Next]_(RegistryTheory!registryVars)
<1>1. /\ Registry!ZeroId = RegistryTheory!ZeroId /\ Registry!MaxId = RegistryTheory!MaxId
      /\ Registry!registryVars = RegistryTheory!registryVars
      /\ Registry!registryVars' = RegistryTheory!registryVars'
  BY DEF Registry!ZeroId, RegistryTheory!ZeroId, Registry!MaxId, RegistryTheory!MaxId,
         Registry!Position, RegistryTheory!Position,
         Registry!registryVars, RegistryTheory!registryVars
<1>2. Registry!Add1(last_client_id) = RegistryTheory!Add1(last_client_id)
  BY DEF Registry!Add1, RegistryTheory!Add1, Registry!Carried, RegistryTheory!Carried,
         Registry!Position, RegistryTheory!Position
<1>3. ASSUME NEW n \in Name, Registry!Register(n) PROVE RegistryTheory!Register(n)
  BY <1>1, <1>2, <1>3
     DEF Registry!Register, RegistryTheory!Register, Registry!AddClient,
         RegistryTheory!AddClient, Registry!NameExists, RegistryTheory!NameExists,
         Registry!RegisteredNames, RegistryTheory!RegisteredNames
<1>4. ASSUME Registry!Reload PROVE RegistryTheory!Reload
  BY <1>1, <1>4
     DEF Registry!Reload, RegistryTheory!Reload, Registry!IsLastId, RegistryTheory!IsLastId,
         Registry!RegisteredIds, RegistryTheory!RegisteredIds, Registry!SortsBefore,
         RegistryTheory!SortsBefore, Registry!Position, RegistryTheory!Position
<1>5. Registry!Init => RegistryTheory!Init
  BY <1>1 DEF Registry!Init, RegistryTheory!Init
<1>. QED
  BY <1>1, <1>3, <1>4, <1>5 DEF Registry!Next, RegistryTheory!Next

\* Names and identifiers each denote one client, in the server as in the registry.
THEOREM ServerOneRowPerClient == Spec => [](Registry!TypeOK /\ Registry!OneRowPerClient)
<1>1. RegistryTheory!TypeOK /\ RegistryTheory!OneRowPerClient
        => Registry!TypeOK /\ Registry!OneRowPerClient
  BY DEF RegistryTheory!TypeOK, Registry!TypeOK, RegistryTheory!OneRowPerClient,
         Registry!OneRowPerClient, Registry!ClientRow, RegistryTheory!ClientRow,
         Registry!Id, RegistryTheory!Id, Registry!Position, RegistryTheory!Position,
         Registry!Digit, RegistryTheory!Digit
<1>2. RegistryTheory!Spec => []RegistryTheory!TypeOK
  BY RegistryTheory!TypeCorrect
<1>3. RegistryTheory!Spec => []RegistryTheory!OneRowPerClient
  BY RegistryTheory!OneRowPerClientAlways
<1>. QED
  BY <1>1, <1>2, <1>3, RegistryIsTheory, RegistryImplemented, PTL
     DEF Registry!Spec, RegistryTheory!Spec

\* No registration replaces the row of another client, before a restart or below Base
\* clients, in the server as in the registry.
THEOREM ServerNoClientReplaced == Spec => Registry!NoClientReplaced
<1>1. Registry!registryVars = RegistryTheory!registryVars
      /\ Registry!registryVars' = RegistryTheory!registryVars'
      /\ (Registry!RowsKept <=> RegistryTheory!RowsKept)
  BY DEF Registry!registryVars, RegistryTheory!registryVars, Registry!RowsKept,
         RegistryTheory!RowsKept
<1>2. Registry!Cardinality(clients) = RegistryTheory!Cardinality(clients)
  BY DEF Registry!Cardinality, RegistryTheory!Cardinality
<1>4. [restarts = 0 \/ RegistryTheory!Cardinality(clients) < Base
         => RegistryTheory!RowsKept]_(RegistryTheory!registryVars)
      => [restarts = 0 \/ Registry!Cardinality(clients) < Base
            => Registry!RowsKept]_(Registry!registryVars)
  BY <1>1, <1>2
<1>3. RegistryTheory!Spec => RegistryTheory!NoClientReplaced
  BY RegistryTheory!NoClientReplacedEver
<1>. QED
  BY <1>4, <1>3, RegistryIsTheory, RegistryImplemented, PTL
     DEF Registry!Spec, RegistryTheory!Spec, Registry!NoClientReplaced,
         RegistryTheory!NoClientReplaced

-----------------------------------------------------------------------------
(* The types of the server. *)

Idle == {"none", "backlog", "accepted"}
Stages == Idle \cup {"dead", "closed"} \cup Listening

\* Answers, with rows that were stored at some time.
Answer ==
  {Error}
  \cup [code : {"registered"}, id : Registry!Id]
  \cup [code : {"clients"}, ids : SUBSET Registry!Id]
  \cup [code : {"key"}, id : Registry!Id, key : Name]
  \cup [code : {"sent"}, to : Registry!Id, id : Store!MessageId]
  \cup [code : {"messages"}, rows : Seq(posted)]

TablesOK ==
  /\ acceptor \in {"up", "dead"}
  /\ sql = [c \in Conn |-> sql[c]]
  /\ batch \in [Conn -> SUBSET posted]
  /\ messages \subseteq posted

ThreadsOK ==
  /\ stage \in [Conn -> Stages]
  /\ client_id \in [Conn -> UserId]
  /\ request \in [Conn -> Request]
  /\ reply \in [Conn -> Answer]

WiresOK ==
  /\ inbox \in [Conn -> Seq(Request)]
  /\ outbox \in [Conn -> Seq(Answer)]

UsersOK ==
  /\ peer \in [Conn -> {"off", "ready", "waiting", "gone"}]
  /\ me \in [Conn -> UserId]
  /\ asked \in [Conn -> Request]
  /\ asks \in [Conn -> 0 .. MaxRequests]
  /\ split \in [Conn -> BOOLEAN]
  /\ received \in [Conn -> Seq(posted)]

\* A request that a thread may serve comes from its client, and an identifier that it
\* answers is its client's.
Proper(c, q) == q.type \in Serviceable => q.id = client_id[c]
OwnId(c, a)  == a.code = "registered" => a.id = client_id[c]

\* A request by a program as it stands for the main thread.
FromProgram(c, q) == q.type \in Serviceable => q.id = me[c]

\* Before a connection has a thread, it has one request, or pieces that are none.
Early(c) ==
  /\ outbox[c] = <<>> /\ received[c] = <<>>
  /\ \/ inbox[c] = <<>>
     \/ /\ peer[c] \in {"waiting", "gone"}
        /\ \/ \A i \in DOMAIN inbox[c] : inbox[c][i].type \in {"garbled", "short"}
           \/ \E q \in Request : inbox[c] = <<q>> /\ FromProgram(c, q)

\* A registration is under way: the program asks nothing else until it has read its
\* identifier.
Registering(c) ==
  /\ request[c].type = "register"
  /\ inbox[c] = <<>>
  /\ peer[c] \in {"waiting", "gone"}
  /\ \/ stage[c] \in {"start", "answer"} /\ outbox[c] = <<>>
     \/ stage[c] = "send" /\ outbox[c] = <<>> /\ reply[c].code = "registered"
     \/ /\ stage[c] = "recv"
        /\ peer[c] = "gone" \/ \E a \in Answer : outbox[c] = <<a>> /\ a.code = "registered"

\* A connection that has a thread has a client, and a program that knows who it is.
Served(c) ==
  /\ client_id[c] \in Registry!Id
  /\ Proper(c, request[c])
  /\ \A i \in DOMAIN inbox[c] : Proper(c, inbox[c][i])
  /\ \A i \in DOMAIN outbox[c] : OwnId(c, outbox[c][i])
  /\ stage[c] = "send" => OwnId(c, reply[c])
  /\ me[c] = client_id[c] \/ Registering(c)
  /\ stage[c] # "start" => sql[c] = "open"
  /\ stage[c] = "take" => reply[c].code = "messages"

ConnOK(c) ==
  /\ peer[c] = "off" => stage[c] = "none"
  /\ stage[c] \in Idle => Early(c)
  /\ stage[c] \in Listening => Served(c)

Inv ==
  /\ TablesOK
  /\ ThreadsOK
  /\ WiresOK
  /\ UsersOK
  /\ \A c \in Conn : ConnOK(c)

\* Initially no connection is started.
LEMMA InitInv == Init => Inv
<1>. SUFFICES ASSUME Init PROVE Inv
  OBVIOUS
<1>1. TablesOK
  BY DEF Init, Store!Init, TablesOK
<1>2. NoId \in UserId /\ Error \in Answer /\ Plain("none") \in Request
  BY DEF UserId, Answer, Request
<1>3. ThreadsOK
  BY <1>2 DEF Init, ThreadsOK, Stages, Idle
<1>4. WiresOK
  BY DEF Init, WiresOK
<1>5. UsersOK
  BY <1>2 DEF Init, UsersOK
<1>6. \A c \in Conn : ConnOK(c)
  BY DEF Init, ConnOK, Early, Listening
<1>. QED
  BY <1>1, <1>3, <1>4, <1>5, <1>6 DEF Inv

\* A connection at which nothing happens.
Same(c) ==
  /\ stage'[c] = stage[c] /\ client_id'[c] = client_id[c] /\ request'[c] = request[c]
  /\ reply'[c] = reply[c] /\ inbox'[c] = inbox[c] /\ outbox'[c] = outbox[c]
  /\ peer'[c] = peer[c] /\ me'[c] = me[c] /\ received'[c] = received[c]
  /\ sql'[c] = sql[c]

\* Answers stay answers while rows are posted.
LEMMA AnswersGrow ==
  ASSUME posted \subseteq posted'
  PROVE  /\ Answer \subseteq Answer'
         /\ Seq(posted) \subseteq Seq(posted')
<1>1. Seq(posted) \subseteq Seq(posted')
  OBVIOUS
<1>. QED
  BY <1>1 DEF Answer

\* A connection at which nothing happens stays in order, while rows are posted elsewhere.
LEMMA SameKeeps ==
  ASSUME posted \subseteq posted', NEW c \in Conn, Same(c), ConnOK(c)
  PROVE  ConnOK(c)'
<1>1. Answer \subseteq Answer'
  BY AnswersGrow
<1>2. Registering(c) => Registering(c)'
  BY <1>1 DEF Registering, Same
<1>3. Early(c) => Early(c)'
  BY DEF Early, FromProgram, Same
<1>4. Served(c) => Served(c)'
  BY <1>2 DEF Served, Same, Proper, OwnId
<1>. QED
  BY <1>3, <1>4 DEF ConnOK, Same

\* A step at connection c.
LEMMA StepKeeps ==
  ASSUME Inv, posted \subseteq posted', NEW c \in Conn,
         \A d \in Conn \ {c} : Same(d),
         (TablesOK /\ ThreadsOK /\ WiresOK /\ UsersOK)',
         ConnOK(c)'
  PROVE  Inv'
BY SameKeeps DEF Inv

\* What is left of the pieces when the first one is taken.
LEMMA TailOf ==
  ASSUME NEW S, NEW s \in Seq(S), s # <<>>
  PROVE  /\ Head(s) \in S /\ Tail(s) \in Seq(S)
         /\ 1 \in DOMAIN s /\ Head(s) = s[1]
         /\ \A i \in DOMAIN Tail(s) : i + 1 \in DOMAIN s /\ Tail(s)[i] = s[i + 1]
OBVIOUS

\* One more element.
LEMMA AppendOf ==
  ASSUME NEW S, NEW s \in Seq(S), NEW e \in S
  PROVE  Append(s, e) \in Seq(S)
OBVIOUS

\* Two sequences one after the other: every element is from one of them.
LEMMA ConcatOf ==
  ASSUME NEW S, NEW s \in Seq(S), NEW t \in Seq(S)
  PROVE  /\ s \o t \in Seq(S)
         /\ \A i \in DOMAIN (s \o t) : \/ \E j \in DOMAIN s : (s \o t)[i] = s[j]
                                       \/ \E j \in DOMAIN t : (s \o t)[i] = t[j]
<1>1. PICK m \in Nat, n \in Nat : m = Len(s) /\ n = Len(t)
  OBVIOUS
<1>2. /\ DOMAIN s = 1 .. m /\ DOMAIN t = 1 .. n
      /\ s \o t \in Seq(S) /\ DOMAIN (s \o t) = 1 .. m + n
      /\ \A i \in 1 .. m + n : (s \o t)[i] = IF i <= m THEN s[i] ELSE t[i - m]
  BY <1>1
<1>3. \A i \in 1 .. m + n : i \in 1 .. m \/ (~(i <= m) /\ i - m \in 1 .. n)
  OBVIOUS
<1>. QED
  BY <1>2, <1>3, SMTT(30)

\* Dropping SQL objects leaves the tables as they are.
LEMMA DropKeeps ==
  ASSUME TablesOK, NEW S, Store!Drop(S), acceptor' \in {"up", "dead"}
  PROVE  TablesOK' /\ posted' = posted /\ \A d \in Conn : d \notin S => sql'[d] = sql[d]
BY DEF Store!Drop, TablesOK

-----------------------------------------------------------------------------
(* The main thread. *)

\* A connection is accepted, dropped or refused.
LEMMA MainThreadKeeps ==
  ASSUME Inv, NEW c \in Conn,
         \/ Accept(c) \/ FirstEof(c) \/ FirstUndecodable(c) \/ FirstLocked(c) \/ FirstRefused(c)
         \/ FirstRefusedRaises(c)
  PROVE  Inv'
<1>1. UNCHANGED <<posted, messages, batch, sql, client_id, request, reply,
                  peer, me, asked, asks, split, received>>
  BY DEF Accept, FirstEof, FirstUndecodable, FirstLocked, FirstRefused,
         FirstRefusedRaises, Inv, TablesOK, storeVars, threadVars, userVars
<1>2. Answer' = Answer
  BY <1>1 DEF Answer
<1>3. PICK next \in {"accepted", "closed", "dead"} :
        /\ stage' = [stage EXCEPT ![c] = next]
        /\ stage[c] \in {"backlog", "accepted"}
        /\ next = "accepted" => UNCHANGED <<inbox, outbox>>
  BY DEF Accept, FirstEof, FirstUndecodable, FirstLocked, FirstRefused,
         FirstRefusedRaises, First, wireVars
<1>4. TablesOK'
  BY <1>1 DEF Accept, FirstEof, FirstUndecodable, FirstLocked, FirstRefused,
              FirstRefusedRaises, Inv, TablesOK
<1>5. ThreadsOK'
  BY <1>1, <1>2, <1>3 DEF Inv, ThreadsOK, Stages, Idle
<1>6. UsersOK'
  BY <1>1 DEF Inv, UsersOK
<1>7. \/ inbox' = inbox
      \/ inbox[c] # <<>> /\ inbox' = [inbox EXCEPT ![c] = Tail(@)]
  BY DEF Accept, FirstEof, FirstUndecodable, FirstLocked, FirstRefused,
         FirstRefusedRaises, First, wireVars
<1>8. outbox' = outbox \/ outbox' = [outbox EXCEPT ![c] = Append(@, Error)]
  BY DEF Accept, FirstEof, FirstUndecodable, FirstLocked, FirstRefused,
         FirstRefusedRaises, Sent, wireVars
<1>9. WiresOK'
  <2>1. inbox' \in [Conn -> Seq(Request)]
    <3>1. inbox \in [Conn -> Seq(Request)] /\ inbox[c] \in Seq(Request)
      BY DEF Inv, WiresOK
    <3>2. inbox[c] # <<>> => Tail(inbox[c]) \in Seq(Request)
      BY <3>1, TailOf
    <3>. QED
      BY <1>7, <3>1, <3>2
  <2>2. Error \in Answer
    BY DEF Answer
  <2>3. outbox' \in [Conn -> Seq(Answer)]
    <3>1. outbox \in [Conn -> Seq(Answer)] /\ outbox[c] \in Seq(Answer)
      BY DEF Inv, WiresOK
    <3>2. Append(outbox[c], Error) \in Seq(Answer)
      BY <2>2, <3>1, AppendOf
    <3>. QED
      BY <1>8, <3>1, <3>2
  <2>. QED
    BY <1>2, <2>1, <2>3 DEF WiresOK
<1>10. \A d \in Conn \ {c} : Same(d)
  BY <1>1, <1>3, <1>7, <1>8 DEF Same, Inv, ThreadsOK, WiresOK
<1>11. ConnOK(c)'
  <2>1. stage'[c] = next /\ peer' = peer /\ peer[c] # "off"
    BY <1>1, <1>3 DEF Inv, ConnOK, ThreadsOK
  <2>2. CASE next = "accepted"
    <3>1. Early(c)
      BY <1>3 DEF Inv, ConnOK, Idle
    <3>2. Early(c)'
      BY <1>1, <1>3, <2>2, <3>1 DEF Early, FromProgram
    <3>. QED
      BY <2>1, <2>2, <3>2 DEF ConnOK, Listening
  <2>3. CASE next \in {"closed", "dead"}
    BY <2>1, <2>3 DEF ConnOK, Idle, Listening
  <2>. QED
    BY <2>2, <2>3
<1>. QED
  BY <1>1, <1>4, <1>5, <1>6, <1>9, <1>10, <1>11, StepKeeps

\* A thread starts: the first request is a registration, or its program knows who it is.
LEMMA FirstKeeps ==
  ASSUME Inv, Registry!TypeOK, Registry!TypeOK', NEW c \in Conn,
         FirstRegister(c) \/ FirstKnown(c)
  PROVE  Inv'
<1>. DEFINE q == Head(inbox[c])
<1>1. /\ UNCHANGED <<posted, messages, batch, sql, acceptor, reply, outbox,
                     peer, me, asked, asks, split, received>>
      /\ stage[c] = "accepted" /\ inbox[c] # <<>> /\ inbox' = [inbox EXCEPT ![c] = Tail(@)]
      /\ request' = [request EXCEPT ![c] = q] /\ stage' = [stage EXCEPT ![c] = "start"]
  BY DEF FirstRegister, FirstKnown, First, StartThread, storeVars, userVars
<1>2. PICK id \in Registry!Id :
        /\ client_id' = [client_id EXCEPT ![c] = id]
        /\ q.type = "register" \/ (q.type \in Serviceable /\ q.id = id)
  <2>1. CASE FirstRegister(c)
    <3>1. q.type = "register" /\ client_id' = [client_id EXCEPT ![c] = last_client_id']
      BY <2>1 DEF FirstRegister, StartThread, Registry!Register, Registry!AddClient
    <3>. QED
      BY <3>1 DEF Registry!TypeOK
  <2>2. CASE FirstKnown(c)
    <3>1. /\ q.type \in Serviceable /\ q.id \in Registry!RegisteredIds
          /\ client_id' = [client_id EXCEPT ![c] = q.id]
      BY <2>2 DEF FirstKnown, StartThread
    <3>. QED
      BY <3>1 DEF Registry!TypeOK, Registry!RegisteredIds, Registry!ClientRow
  <2>. QED
    BY <2>1, <2>2
<1>3. /\ inbox[c] \in Seq(Request) /\ q \in Request /\ Tail(inbox[c]) \in Seq(Request)
      /\ inbox'[c] = Tail(inbox[c]) /\ 1 \in DOMAIN inbox[c] /\ q = inbox[c][1]
  BY <1>1, TailOf DEF Inv, WiresOK
<1>4. /\ Early(c) /\ peer[c] \in {"waiting", "gone"} /\ outbox[c] = <<>>
      /\ inbox[c] = <<q>> /\ FromProgram(c, q)
  <2>1. Early(c)
    BY <1>1 DEF Inv, ConnOK, Idle
  <2>2. q.type \notin {"garbled", "short"}
    BY <1>2 DEF Serviceable
  <2>3. \A r \in Request : inbox[c] = <<r>> => r = q
    BY <1>3
  <2>. QED
    BY <1>1, <1>3, <2>1, <2>2, <2>3 DEF Early
<1>. HIDE DEF q
<1>5. inbox'[c] = <<>>
  <2>1. Tail(<<q>>) = <<>>
    OBVIOUS
  <2>. QED
    BY <1>3, <1>4, <2>1
<1>6. Answer' = Answer
  BY <1>1 DEF Answer
<1>7. TablesOK' /\ UsersOK'
  BY <1>1 DEF Inv, TablesOK, UsersOK
<1>8. ThreadsOK'
  BY <1>1, <1>2, <1>3, <1>6 DEF Inv, ThreadsOK, Stages, Listening, UserId
<1>9. WiresOK'
  BY <1>1, <1>3, <1>6 DEF Inv, WiresOK
<1>10. \A d \in Conn \ {c} : Same(d)
  BY <1>1, <1>2 DEF Same, Inv, ThreadsOK, WiresOK
<1>11. /\ stage'[c] = "start" /\ client_id'[c] = id /\ request'[c] = q
  BY <1>1, <1>2 DEF Inv, ThreadsOK
<1>12. Served(c)'
  <2>1. CASE q.type = "register"
    <3>1. Registering(c)'
      BY <1>1, <1>4, <1>5, <1>11, <2>1 DEF Registering
    <3>. QED
      BY <1>1, <1>4, <1>5, <1>11, <2>1, <3>1 DEF Served, Proper, OwnId, Serviceable
  <2>2. CASE q.type \in Serviceable /\ q.id = id
    BY <1>1, <1>4, <1>5, <1>11, <2>2 DEF Served, Proper, OwnId, FromProgram
  <2>. QED
    BY <1>2, <2>1, <2>2
<1>13. ConnOK(c)'
  BY <1>1, <1>4, <1>11, <1>12 DEF ConnOK, Idle
<1>. QED
  BY <1>1, <1>7, <1>8, <1>9, <1>10, <1>13, StepKeeps

-----------------------------------------------------------------------------
(* The threads of connections. *)

\* The thread opens the database.
LEMMA StartKeeps ==
  ASSUME Inv, NEW c \in Conn, Start(c)
  PROVE  Inv'
<1>1. /\ UNCHANGED <<acceptor, client_id, request, reply, inbox, outbox,
                     peer, me, asked, asks, split, received>>
      /\ stage[c] = "start" /\ Served(c)
  BY DEF Start, threadVars, wireVars, userVars, Inv, ConnOK, Listening
<1>2. /\ TablesOK' /\ posted' = posted
      /\ \A d \in Conn \ {c} : sql'[d] = sql[d]
      /\ \/ stage' = [stage EXCEPT ![c] = "answer"] /\ sql'[c] = "open"
         \/ stage' = [stage EXCEPT ![c] = "dead"]
  <2>1. CASE Store!Sync(c) /\ GoTo(c, "answer")
    BY <1>1, <2>1 DEF Store!Sync, GoTo, Inv, TablesOK
  <2>2. CASE Store!SyncFails(c) /\ GoTo(c, "dead")
    BY <1>1, <2>2, DropKeeps DEF Store!SyncFails, GoTo, Inv, TablesOK
  <2>. QED
    BY <2>1, <2>2 DEF Start
<1>3. Answer' = Answer
  BY <1>2 DEF Answer
<1>4. ThreadsOK' /\ WiresOK' /\ UsersOK'
  BY <1>1, <1>2, <1>3 DEF Inv, ThreadsOK, WiresOK, UsersOK, Stages, Listening
<1>5. \A d \in Conn \ {c} : Same(d)
  BY <1>1, <1>2 DEF Same, Inv, ThreadsOK
<1>6. ConnOK(c)'
  <2>1. CASE stage' = [stage EXCEPT ![c] = "answer"] /\ sql'[c] = "open"
    <3>1. stage'[c] = "answer" /\ sql'[c] = "open"
      BY <2>1 DEF Inv, ThreadsOK
    <3>2. Registering(c) => Registering(c)'
      BY <1>1, <1>3, <3>1 DEF Registering
    <3>3. Served(c)'
      BY <1>1, <3>1, <3>2 DEF Served, Proper, OwnId
    <3>. QED
      BY <1>1, <3>1, <3>3 DEF ConnOK, Idle, Inv
  <2>2. CASE stage' = [stage EXCEPT ![c] = "dead"]
    BY <1>1, <2>2 DEF ConnOK, Idle, Listening, Inv, ThreadsOK
  <2>. QED
    BY <1>2, <2>1, <2>2
<1>. QED
  BY <1>2, <1>4, <1>5, <1>6, StepKeeps

\* The thread ends, and its SQL object goes with it.
LEMMA EndKeeps ==
  ASSUME Inv, NEW c \in Conn, NEW next \in {"dead", "closed"}, Store!Drop({c}),
         stage[c] \in Listening, stage' = [stage EXCEPT ![c] = next],
         UNCHANGED <<acceptor, client_id, request, reply, inbox, outbox,
                     peer, me, asked, asks, split, received>>
  PROVE  Inv'
<1>1. TablesOK' /\ posted' = posted /\ \A d \in Conn \ {c} : sql'[d] = sql[d]
  BY DropKeeps DEF Inv, TablesOK
<1>2. Answer' = Answer
  BY <1>1 DEF Answer
<1>3. ThreadsOK' /\ WiresOK' /\ UsersOK'
  BY <1>1, <1>2 DEF Inv, ThreadsOK, WiresOK, UsersOK, Stages
<1>4. \A d \in Conn \ {c} : Same(d)
  BY <1>1 DEF Same, Inv, ThreadsOK
<1>5. ConnOK(c)'
  BY DEF ConnOK, Idle, Listening, Inv, ThreadsOK
<1>. QED
  BY <1>1, <1>3, <1>4, <1>5, StepKeeps

\* The thread has an answer ready, or is about to fill it.
LEMMA ReplyKeeps ==
  ASSUME Inv, NEW c \in Conn, NEW next \in {"send", "take"}, NEW a \in Answer',
         posted \subseteq posted', TablesOK',
         reply' = [reply EXCEPT ![c] = a], stage' = [stage EXCEPT ![c] = next],
         stage[c] \in {"answer", "take", "bad"},
         request[c].type = "register" /\ stage[c] = "answer" => next = "send" /\ a.code = "registered",
         next = "send" => OwnId(c, a),
         next = "take" => a.code = "messages",
         \A d \in Conn : sql'[d] = sql[d],
         UNCHANGED <<acceptor, client_id, request, inbox, outbox,
                     peer, me, asked, asks, split, received>>
  PROVE  Inv'
<1>1. Answer \subseteq Answer' /\ Seq(posted) \subseteq Seq(posted')
  BY AnswersGrow
<1>2. ThreadsOK'
  BY <1>1 DEF Inv, ThreadsOK, Stages, Listening
<1>3. WiresOK'
  <2>1. Seq(Answer) \subseteq Seq(Answer')
    BY <1>1
  <2>. QED
    BY <2>1 DEF Inv, WiresOK
<1>4. UsersOK'
  BY <1>1 DEF Inv, UsersOK
<1>5. \A d \in Conn \ {c} : Same(d)
  BY DEF Same, Inv, ThreadsOK
<1>6. stage'[c] = next /\ reply'[c] = a /\ Served(c)
  BY DEF Inv, ThreadsOK, ConnOK, Listening
<1>7. Registering(c) => Registering(c)'
  BY <1>6 DEF Registering
<1>8. Served(c)'
  BY <1>6, <1>7 DEF Served, Proper, OwnId
<1>9. ConnOK(c)'
  BY <1>6, <1>8 DEF ConnOK, Idle, Inv
<1>. QED
  BY <1>2, <1>3, <1>4, <1>5, <1>9, StepKeeps

\* Each request is answered in its own form.
LEMMA AnswersKeep ==
  ASSUME Inv, Registry!TypeOK, NEW c \in Conn,
         \/ AnswerRegister(c) \/ AnswerList(c) \/ AnswerKey(c) \/ AnswerSend(c)
         \/ AnswerGet(c) \/ Bad(c)
  PROVE  Inv'
<1>1. UNCHANGED <<acceptor, client_id, request, inbox, outbox,
                  peer, me, asked, asks, split, received>>
  BY DEF AnswerRegister, AnswerList, AnswerKey, AnswerSend, AnswerGet, Bad, wireVars, userVars
<1>2. stage[c] \in Listening /\ Served(c) /\ request[c] \in Request
  BY DEF AnswerRegister, AnswerList, AnswerKey, AnswerSend, AnswerGet, Bad, Answering,
         Inv, ConnOK, ThreadsOK, Listening
<1>3. ASSUME UNCHANGED storeVars, NEW a \in Answer, Reply(c, a),
             stage[c] \in {"answer", "bad"},
             request[c].type = "register" /\ stage[c] = "answer" => a.code = "registered",
             OwnId(c, a)
      PROVE  Inv'
  <2>1. TablesOK' /\ posted' = posted /\ Answer' = Answer /\ sql' = sql
    BY <1>1, <1>3 DEF Inv, TablesOK, storeVars, Answer
  <2>. QED
    BY <1>1, <1>3, <2>1, ReplyKeeps DEF Reply, GoTo
<1>4. ASSUME Store!Drop({c}), GoTo(c, "dead"), UNCHANGED reply PROVE Inv'
  BY <1>1, <1>2, <1>4, EndKeeps DEF GoTo
<1>5. CASE AnswerRegister(c)
  <2>1. [code |-> "registered", id |-> client_id[c]] \in Answer
    BY <1>2 DEF Answer, Served
  <2>. QED
    BY <1>3, <1>5, <2>1 DEF AnswerRegister, Answering, OwnId
<1>6. CASE AnswerList(c)
  <2>1. [code |-> "clients", ids |-> Registry!RegisteredIds \ {client_id[c]}] \in Answer
    BY DEF Answer, Registry!TypeOK, Registry!RegisteredIds, Registry!ClientRow
  <2>. QED
    BY <1>3, <1>6, <2>1 DEF AnswerList, Answering, OwnId
<1>7. CASE AnswerKey(c)
  <2>1. ASSUME NEW row \in clients, Reply(c, [code |-> "key", id |-> row.id, key |-> row.name]),
               UNCHANGED storeVars
        PROVE  Inv'
    <3>1. [code |-> "key", id |-> row.id, key |-> row.name] \in Answer
      BY DEF Answer, Registry!TypeOK, Registry!ClientRow
    <3>. QED
      BY <1>3, <1>7, <2>1, <3>1 DEF AnswerKey, Answering, OwnId
  <2>. QED
    BY <1>4, <1>7, <2>1 DEF AnswerKey
<1>8. CASE Bad(c)
  <2>1. Error \in Answer
    BY DEF Answer
  <2>. QED
    BY <1>3, <1>8, <2>1 DEF Bad, OwnId, Error
<1>9. CASE AnswerSend(c)
  <2>1. CASE Store!AddMessageFails(c) /\ GoTo(c, "dead") /\ UNCHANGED reply
    BY <1>4, <2>1 DEF Store!AddMessageFails
  <2>2. ASSUME NEW id \in Store!MessageId,
               Store!AddMessage(c, id, request[c].to, request[c].id, request[c].content)
        PROVE  /\ TablesOK' /\ posted \subseteq posted' /\ \A d \in Conn : sql'[d] = sql[d]
    BY <1>1, <2>2 DEF Store!AddMessage, Inv, TablesOK
  <2>3. ASSUME NEW id \in Store!MessageId,
               Store!AddMessage(c, id, request[c].to, request[c].id, request[c].content),
               Reply(c, [code |-> "sent", to |-> request[c].to, id |-> id])
        PROVE  Inv'
    <3>1. request[c].to \in Registry!Id /\ request[c].type = "send" /\ stage[c] = "answer"
      BY <1>2, <1>9 DEF AnswerSend, Answering, Request, Plain
    <3>2. [code |-> "sent", to |-> request[c].to, id |-> id] \in Answer'
      BY <3>1 DEF Answer
    <3>. QED
      BY <1>1, <2>2, <2>3, <3>1, <3>2, ReplyKeeps DEF Reply, GoTo, OwnId
  <2>4. ASSUME NEW id \in Store!MessageId,
               Store!AddMessage(c, id, request[c].to, request[c].id, request[c].content),
               GoTo(c, "dead"), UNCHANGED reply
        PROVE  Inv'
    <3>1. Answer \subseteq Answer' /\ Seq(posted) \subseteq Seq(posted')
      BY <2>2, <2>4, AnswersGrow
    <3>2. Seq(Answer) \subseteq Seq(Answer')
      BY <3>1
    <3>3. ThreadsOK' /\ WiresOK' /\ UsersOK'
      BY <1>1, <2>4, <3>1, <3>2 DEF GoTo, Inv, ThreadsOK, WiresOK, UsersOK, Stages
    <3>4. \A d \in Conn \ {c} : Same(d)
      BY <1>1, <2>2, <2>4 DEF GoTo, Same, Inv, ThreadsOK
    <3>5. ConnOK(c)'
      BY <1>1, <1>2, <2>4 DEF GoTo, ConnOK, Idle, Listening, Inv, ThreadsOK
    <3>. QED
      BY <2>2, <2>4, <3>3, <3>4, <3>5, StepKeeps
  <2>. QED
    BY <1>9, <2>1, <2>3, <2>4 DEF AnswerSend
<1>10. CASE AnswerGet(c)
  <2>1. TablesOK' /\ posted' = posted /\ \A d \in Conn : sql'[d] = sql[d]
    BY <1>1, <1>10 DEF AnswerGet, Store!GetMessages, Store!RowsFor, Inv, TablesOK
  <2>2. [code |-> "messages", rows |-> <<>>] \in Answer'
    BY DEF Answer
  <2>. QED
    BY <1>1, <1>10, <2>1, <2>2, ReplyKeeps DEF AnswerGet, Answering, GoTo
<1>. QED
  BY <1>5, <1>6, <1>7, <1>8, <1>9, <1>10

\* The loop over the rows of a mailbox, and its end.
LEMMA TakesKeep ==
  ASSUME Inv, NEW c \in Conn, Take(c) \/ TakeEnds(c)
  PROVE  Inv'
<1>1. UNCHANGED <<acceptor, client_id, request, inbox, outbox,
                  peer, me, asked, asks, split, received>> /\ stage[c] = "take"
  BY DEF Take, TakeEnds, threadVars, wireVars, userVars
<1>2. Served(c) /\ reply[c] \in Answer /\ reply[c].code = "messages"
  BY <1>1 DEF Inv, ConnOK, ThreadsOK, Listening, Served
<1>3. reply[c] \in [code : {"messages"}, rows : Seq(posted)]
  BY <1>2 DEF Answer, Error
<1>4. CASE Take(c)
  <2>1. PICK row \in batch[c] : Store!DeleteMessage(c, row)
                             /\ reply' = [reply EXCEPT ![c].rows = Append(@, row)]
    BY <1>4 DEF Take
  <2>2. row \in posted /\ Append(reply[c].rows, row) \in Seq(posted)
    BY <1>3, <2>1, AppendOf DEF Inv, TablesOK
  <2>3. TablesOK' /\ posted' = posted /\ \A d \in Conn : sql'[d] = sql[d]
    <3>1. UNCHANGED <<posted, sql>> /\ messages' \subseteq messages
          /\ batch' = [batch EXCEPT ![c] = @ \ {row}]
      BY <2>1 DEF Store!DeleteMessage, Store!AfterDelete
    <3>. QED
      BY <1>1, <3>1 DEF Inv, TablesOK
  <2>. DEFINE a == [reply[c] EXCEPT !.rows = Append(reply[c].rows, row)]
  <2>4. a \in [code : {"messages"}, rows : Seq(posted)]
    BY <1>3, <2>2
  <2>5. reply' = [reply EXCEPT ![c] = a]
    BY <2>1
  <2>7. a \in Answer' /\ a.code = "messages"
    BY <2>3, <2>4 DEF Answer
  <2>6. stage' = [stage EXCEPT ![c] = "take"]
    BY <1>1, <1>4 DEF Take, Inv, ThreadsOK
  <2>. QED
    BY <1>1, <2>3, <2>5, <2>6, <2>7, ReplyKeeps
<1>5. CASE TakeEnds(c)
  <2>1. TablesOK' /\ posted' = posted /\ sql' = sql
    BY <1>1, <1>5 DEF TakeEnds, storeVars, Inv, TablesOK
  <2>2. reply[c] \in Answer'
    BY <1>2, <2>1 DEF Answer
  <2>3. reply' = [reply EXCEPT ![c] = reply[c]] /\ stage' = [stage EXCEPT ![c] = "send"]
    BY <1>5 DEF TakeEnds, GoTo, threadVars, Inv, ThreadsOK
  <2>4. OwnId(c, reply[c])
    BY <1>2 DEF OwnId
  <2>. QED
    BY <1>1, <2>1, <2>2, <2>3, <2>4, ReplyKeeps
<1>. QED
  BY <1>4, <1>5

\* The answer is sent, and the thread goes on to receive.
LEMMA SendKeeps ==
  ASSUME Inv, NEW c \in Conn, Send(c)
  PROVE  Inv'
<1>1. /\ UNCHANGED <<posted, messages, batch, sql, acceptor, client_id, request, reply, inbox,
                     peer, me, asked, asks, split, received>>
      /\ stage[c] = "send" /\ stage' = [stage EXCEPT ![c] = "recv"]
      /\ outbox' = IF peer[c] = "gone" THEN outbox
                   ELSE [outbox EXCEPT ![c] = Append(@, reply[c])]
  BY DEF Send, Sent, GoTo, storeVars, threadVars, userVars
<1>2. Served(c) /\ reply[c] \in Answer /\ outbox[c] \in Seq(Answer)
  BY <1>1 DEF Inv, ConnOK, ThreadsOK, WiresOK, Listening
<1>3. Answer' = Answer /\ TablesOK' /\ UsersOK'
  BY <1>1 DEF Answer, Inv, TablesOK, UsersOK
<1>4. ThreadsOK'
  BY <1>1, <1>3 DEF Inv, ThreadsOK, Stages, Listening
<1>5. WiresOK'
  <2>1. Append(outbox[c], reply[c]) \in Seq(Answer)
    BY <1>2, AppendOf
  <2>. QED
    BY <1>1, <1>3, <2>1 DEF Inv, WiresOK
<1>6. \A d \in Conn \ {c} : Same(d)
  BY <1>1 DEF Same, Inv, ThreadsOK, WiresOK
<1>7. stage'[c] = "recv" /\ (peer[c] # "gone" => outbox'[c] = Append(outbox[c], reply[c]))
  BY <1>1 DEF Inv, ThreadsOK, WiresOK
<1>8. Registering(c) => Registering(c)'
  <2>. SUFFICES ASSUME Registering(c) PROVE Registering(c)'
    OBVIOUS
  <2>1. outbox[c] = <<>> /\ reply[c].code = "registered"
    BY <1>1 DEF Registering
  <2>2. peer[c] # "gone" => outbox'[c] = <<reply[c]>>
    BY <1>7, <2>1
  <2>. QED
    BY <1>1, <1>2, <1>3, <1>7, <2>1, <2>2 DEF Registering
<1>9. ConnOK(c)'
  BY <1>1, <1>2, <1>7, <1>8 DEF ConnOK, Served, Proper, OwnId, Idle, Inv
<1>. QED
  BY <1>1, <1>3, <1>4, <1>5, <1>6, <1>9, StepKeeps

\* The next piece: its request, or the one of before.
LEMMA RecvKeeps ==
  ASSUME Inv, NEW c \in Conn, Recv(c)
  PROVE  Inv'
<1>1. /\ UNCHANGED <<posted, messages, batch, sql, acceptor, client_id, reply, outbox,
                     peer, me, asked, asks, split, received>>
      /\ stage[c] = "recv" /\ inbox[c] # <<>> /\ inbox' = [inbox EXCEPT ![c] = Tail(@)]
  BY DEF Recv, storeVars, userVars
<1>2. PICK q \in {Head(inbox[c]), request[c]}, next \in {"answer", "bad"} :
        request' = [request EXCEPT ![c] = q] /\ stage' = [stage EXCEPT ![c] = next]
  BY DEF Recv, GoTo, NextStage
<1>3. /\ Served(c) /\ ~Registering(c) /\ inbox[c] \in Seq(Request) /\ request[c] \in Request
      /\ sql[c] = "open"
  BY <1>1 DEF Inv, ConnOK, ThreadsOK, WiresOK, Listening, Served, Registering
<1>4. /\ q \in Request /\ Proper(c, q) /\ Tail(inbox[c]) \in Seq(Request)
      /\ \A i \in DOMAIN Tail(inbox[c]) : Proper(c, Tail(inbox[c])[i])
  BY <1>1, <1>2, <1>3, TailOf DEF Served
<1>5. Answer' = Answer /\ TablesOK' /\ UsersOK'
  BY <1>1 DEF Answer, Inv, TablesOK, UsersOK
<1>6. ThreadsOK'
  BY <1>1, <1>2, <1>4, <1>5 DEF Inv, ThreadsOK, Stages, Listening
<1>7. WiresOK'
  BY <1>1, <1>4, <1>5 DEF Inv, WiresOK
<1>8. \A d \in Conn \ {c} : Same(d)
  BY <1>1, <1>2 DEF Same, Inv, ThreadsOK, WiresOK
<1>9. stage'[c] = next /\ request'[c] = q /\ inbox'[c] = Tail(inbox[c])
  BY <1>1, <1>2 DEF Inv, ThreadsOK, WiresOK
<1>10. ConnOK(c)'
  BY <1>1, <1>3, <1>4, <1>9 DEF ConnOK, Served, Proper, OwnId, Idle, Inv
<1>. QED
  BY <1>1, <1>5, <1>6, <1>7, <1>8, <1>10, StepKeeps

\* The steps of a session thread.
LEMMA ThreadKeeps ==
  ASSUME Inv, Registry!TypeOK, NEW c \in Conn, Thread(c)
  PROVE  Inv'
<1>1. CASE TakeRaises(c) \/ ThreadLocked(c) \/ SendRaises(c)
  BY <1>1, EndKeeps DEF TakeRaises, ThreadLocked, SendRaises, GoTo, threadVars, wireVars,
                        userVars, Listening
<1>2. CASE RecvEof(c)
  BY <1>2, EndKeeps DEF RecvEof, GoTo, threadVars, wireVars, userVars, Listening
<1>. QED
  BY <1>1, <1>2, StartKeeps, AnswersKeep, TakesKeep, SendKeeps, RecvKeeps DEF Thread

-----------------------------------------------------------------------------
(* The programs. *)

\* A program asks: what it sends names the client that it is.
LEMMA AskKeeps ==
  ASSUME Inv, Registry!TypeOK, NEW c \in Conn, Ask(c)
  PROVE  Inv'
<1>1. PICK type \in AskTypes \cup {"register"} : \E q \in Asks(c, type) :
        \E pieces \in Pieces(q) :
          /\ type = "register" => me[c] = NoId
          /\ asked' = [asked EXCEPT ![c] = q]
          /\ inbox' = [inbox EXCEPT ![c] = @ \o pieces]
          /\ split' = [split EXCEPT ![c] = @ \/ Len(pieces) > 1]
  BY DEF Ask
<1>2. PICK q \in Asks(c, type) : \E pieces \in Pieces(q) :
          /\ asked' = [asked EXCEPT ![c] = q]
          /\ inbox' = [inbox EXCEPT ![c] = @ \o pieces]
          /\ split' = [split EXCEPT ![c] = @ \/ Len(pieces) > 1]
  BY <1>1
<1>3. PICK pieces \in Pieces(q) :
          /\ asked' = [asked EXCEPT ![c] = q]
          /\ inbox' = [inbox EXCEPT ![c] = @ \o pieces]
          /\ split' = [split EXCEPT ![c] = @ \/ Len(pieces) > 1]
  BY <1>2
<1>4. /\ UNCHANGED <<posted, messages, batch, sql, acceptor, stage, client_id, request, reply,
                     outbox, me, received>>
      /\ peer[c] = "ready" /\ peer' = [peer EXCEPT ![c] = "waiting"]
      /\ asks[c] < MaxRequests /\ asks' = [asks EXCEPT ![c] = @ + 1]
  BY DEF Ask, storeVars, threadVars
<1>5. me[c] \in UserId /\ asks[c] \in 0 .. MaxRequests /\ inbox[c] \in Seq(Request) /\ ConnOK(c)
  BY DEF Inv, UsersOK, WiresOK
<1>6. q \in Request /\ (q.type \in Serviceable => q.id = me[c])
  <2>1. CASE type = "list" \/ type = "get"
    BY <1>5, <2>1 DEF Asks, Request
  <2>2. CASE type = "key"
    BY <1>5, <2>2 DEF Asks, Request
  <2>3. CASE type = "send"
    <3>1. PICK t \in Registry!RegisteredIds \cup Strangers, k \in Kind :
            q = [type |-> "send", id |-> me[c], to |-> t,
                 content |-> [kind |-> k, conn |-> c, serial |-> asks[c] + 1]]
      BY <2>3 DEF Asks
    <3>2. t \in Registry!Id
      BY StrangersAssumption DEF Registry!TypeOK, Registry!RegisteredIds, Registry!ClientRow
    <3>3. asks[c] + 1 \in 1 .. MaxRequests
      BY <1>4, <1>5
    <3>4. [kind |-> k, conn |-> c, serial |-> asks[c] + 1] \in MessageContent
      BY <3>3 DEF MessageContent
    <3>. QED
      BY <1>5, <3>1, <3>2, <3>4 DEF Request
  <2>4. CASE type = "register"
    BY <1>5, <2>4 DEF Asks, Request, Serviceable
  <2>. QED
    BY <2>1, <2>2, <2>3, <2>4
<1>7. \/ pieces = <<q>>
      \/ \E t, u \in {"garbled", "short"} : pieces = <<Plain(t), Plain(u)>>
  BY DEF Pieces
<1>8. Plain("garbled") \in Request /\ Plain("short") \in Request
  BY DEF Request
<1>9. /\ pieces \in Seq(Request)
      /\ \A i \in DOMAIN pieces : pieces[i].type \in Serviceable => pieces[i].id = me[c]
      /\ \/ pieces = <<q>>
         \/ \A i \in DOMAIN pieces : pieces[i].type \in {"garbled", "short"}
  <2>1. CASE pieces = <<q>>
    BY <1>6, <2>1
  <2>2. ASSUME NEW t \in {"garbled", "short"}, NEW u \in {"garbled", "short"},
               pieces = <<Plain(t), Plain(u)>>
        PROVE  /\ pieces \in Seq(Request)
               /\ \A i \in DOMAIN pieces : pieces[i].type \in {"garbled", "short"}
    <3>1. \A i \in DOMAIN pieces : pieces[i] \in {Plain(t), Plain(u)}
      BY <2>2
    <3>. QED
      BY <1>8, <2>2, <3>1 DEF Plain
  <2>. QED
    BY <1>7, <2>1, <2>2 DEF Serviceable
<1>10. Answer' = Answer /\ TablesOK'
  BY <1>4 DEF Answer, Inv, TablesOK
<1>11. ThreadsOK'
  BY <1>4, <1>10 DEF Inv, ThreadsOK
<1>12. inbox[c] \o pieces \in Seq(Request)
  BY <1>5, <1>9
<1>13. WiresOK'
  BY <1>3, <1>4, <1>10, <1>12 DEF Inv, WiresOK
<1>14. UsersOK'
  <2>1. asks[c] + 1 \in 0 .. MaxRequests
    BY <1>4, <1>5
  <2>2. (split[c] \/ Len(pieces) > 1) \in BOOLEAN
    OBVIOUS
  <2>. QED
    BY <1>3, <1>4, <1>6, <2>1, <2>2 DEF Inv, UsersOK
<1>15. \A d \in Conn \ {c} : Same(d)
  BY <1>3, <1>4 DEF Same, Inv, UsersOK, WiresOK
<1>16. peer'[c] = "waiting" /\ inbox'[c] = inbox[c] \o pieces /\ ~Registering(c)
  BY <1>3, <1>4 DEF Inv, UsersOK, WiresOK, Registering
<1>17. CASE stage[c] \in Idle
  <2>1. inbox[c] = <<>> /\ outbox[c] = <<>> /\ received[c] = <<>>
    BY <1>4, <1>5, <1>17 DEF ConnOK, Early
  <2>2. inbox'[c] = pieces
    BY <1>9, <1>16, <2>1
  <2>3. Early(c)'
    BY <1>4, <1>6, <1>9, <1>16, <2>1, <2>2 DEF Early, FromProgram
  <2>4. ConnOK(c)'
    BY <1>4, <1>16, <1>17, <2>3 DEF ConnOK, Idle, Listening
  <2>. QED
    BY <1>4, <1>10, <1>11, <1>13, <1>14, <1>15, <2>4, StepKeeps
<1>18. CASE stage[c] \notin Idle
  <2>1. ASSUME stage[c] \in Listening PROVE Served(c)'
    <3>1. Served(c) /\ me[c] = client_id[c]
      BY <1>5, <1>16, <2>1 DEF ConnOK, Served
    <3>2. \A i \in DOMAIN (inbox[c] \o pieces) :
            \/ \E j \in DOMAIN inbox[c] : (inbox[c] \o pieces)[i] = inbox[c][j]
            \/ \E j \in DOMAIN pieces : (inbox[c] \o pieces)[i] = pieces[j]
      BY <1>5, <1>9, ConcatOf, SMTT(40)
    <3>3. \A i \in DOMAIN (inbox[c] \o pieces) : Proper(c, (inbox[c] \o pieces)[i])
      BY <1>9, <3>1, <3>2 DEF Served, Proper, OwnId
    <3>. QED
      BY <1>4, <1>16, <3>1, <3>3 DEF Served, Proper, OwnId
  <2>2. ConnOK(c)'
    BY <1>4, <1>16, <1>18, <2>1 DEF ConnOK
  <2>. QED
    BY <1>4, <1>10, <1>11, <1>13, <1>14, <1>15, <2>2, StepKeeps
<1>. QED
  BY <1>17, <1>18

\* A program starts, with an identifier that it or another one has had.
LEMMA ConnectKeeps ==
  ASSUME Inv, NEW c \in Conn, Connect(c)
  PROVE  Inv'
<1>1. /\ UNCHANGED <<posted, messages, batch, sql, acceptor, client_id, request, reply, inbox,
                     outbox, asked, asks, split, received>>
      /\ peer[c] = "off" /\ peer' = [peer EXCEPT ![c] = "ready"]
      /\ stage' = [stage EXCEPT ![c] = "backlog"]
  BY DEF Connect, storeVars, threadVars, wireVars
<1>2. PICK id \in UserId : me' = [me EXCEPT ![c] = id]
  <2>1. \A d \in Conn : me[d] \in UserId
    BY DEF Inv, UsersOK
  <2>2. NoId \in UserId
    BY DEF UserId
  <2>3. PICK id \in {NoId} \cup {me[d] : d \in {d \in Conn : peer[d] = "gone"}} :
          me' = [me EXCEPT ![c] = id]
    BY DEF Connect
  <2>4. id = NoId \/ \E d \in Conn : id = me[d]
    OBVIOUS
  <2>. QED
    BY <2>1, <2>2, <2>3, <2>4
<1>3. Answer' = Answer /\ TablesOK'
  BY <1>1 DEF Answer, Inv, TablesOK
<1>4. ThreadsOK' /\ WiresOK'
  BY <1>1, <1>3 DEF Inv, ThreadsOK, WiresOK, Stages, Idle
<1>5. UsersOK'
  BY <1>1, <1>2 DEF Inv, UsersOK
<1>6. \A d \in Conn \ {c} : Same(d)
  BY <1>1, <1>2 DEF Same, Inv, ThreadsOK, UsersOK
<1>7. inbox[c] = <<>> /\ outbox[c] = <<>> /\ received[c] = <<>>
  BY <1>1 DEF Inv, ConnOK, Early, Idle
<1>8. stage'[c] = "backlog" /\ peer'[c] = "ready"
  BY <1>1 DEF Inv, ThreadsOK, UsersOK
<1>9. ConnOK(c)'
  BY <1>1, <1>7, <1>8 DEF ConnOK, Early, Listening
<1>. QED
  BY <1>1, <1>3, <1>4, <1>5, <1>6, <1>9, StepKeeps

\* A program reads an answer: after a registration it knows who it is.
LEMMA ReadAnswerKeeps ==
  ASSUME Inv, NEW c \in Conn, ReadAnswer(c)
  PROVE  Inv'
<1>1. /\ UNCHANGED <<posted, messages, batch, sql, acceptor, stage, client_id, request, reply,
                     inbox, asked, asks, split>>
      /\ peer[c] = "waiting" /\ peer' = [peer EXCEPT ![c] = "ready"]
      /\ outbox[c] # <<>> /\ outbox' = [outbox EXCEPT ![c] = Tail(@)]
  BY DEF ReadAnswer, storeVars, threadVars
<1>. DEFINE answer == Head(outbox[c])
<1>2. /\ me' = IF answer.code = "registered" THEN [me EXCEPT ![c] = answer.id] ELSE me
      /\ received' = IF answer.code = "messages"
                     THEN [received EXCEPT ![c] = @ \o answer.rows] ELSE received
  BY DEF ReadAnswer
<1>3. outbox[c] \in Seq(Answer) /\ received[c] \in Seq(posted) /\ ConnOK(c)
  BY DEF Inv, UsersOK, WiresOK
<1>4. /\ answer \in Answer /\ Tail(outbox[c]) \in Seq(Answer)
      /\ 1 \in DOMAIN outbox[c] /\ answer = outbox[c][1]
      /\ \A i \in DOMAIN Tail(outbox[c]) : \E j \in DOMAIN outbox[c] :
           Tail(outbox[c])[i] = outbox[c][j]
  <2>1. outbox[c] \in Seq(Answer) /\ outbox[c] # <<>>
    BY <1>1, <1>3
  <2>. HIDE DEF Answer
  <2>. QED
    BY <2>1, TailOf
<1>. HIDE DEF answer
<1>5. /\ answer.code = "registered" => answer.id \in Registry!Id
      /\ answer.code = "messages" => answer.rows \in Seq(posted)
  BY <1>4 DEF Answer, Error
<1>6. answer.code = "messages" => received[c] \o answer.rows \in Seq(posted)
  BY <1>3, <1>5, ConcatOf
<1>7. Answer' = Answer /\ TablesOK'
  BY <1>1 DEF Answer, Inv, TablesOK
<1>8. ThreadsOK'
  BY <1>1, <1>7 DEF Inv, ThreadsOK
<1>9. WiresOK'
  BY <1>1, <1>4, <1>7 DEF Inv, WiresOK
<1>10. UsersOK'
  BY <1>1, <1>2, <1>5, <1>6 DEF Inv, UsersOK, UserId
<1>11. \A d \in Conn \ {c} : Same(d)
  BY <1>1, <1>2 DEF Same, Inv, UsersOK, WiresOK
<1>12. /\ peer'[c] = "ready"
       /\ me'[c] = IF answer.code = "registered" THEN answer.id ELSE me[c]
  BY <1>1, <1>2 DEF Inv, UsersOK
<1>13. stage[c] \notin Idle
  BY <1>1, <1>3 DEF ConnOK, Early
<1>14. ASSUME stage[c] \in Listening PROVE Served(c)'
  <2>1. Served(c)
    BY <1>3, <1>14 DEF ConnOK
  <2>4. /\ outbox'[c] = Tail(outbox[c]) /\ OwnId(c, answer)
        /\ \A i \in DOMAIN outbox'[c] : OwnId(c, outbox'[c][i])
    BY <1>1, <1>3, <1>4, <2>1 DEF Served, OwnId, Inv, WiresOK
  <2>2. CASE me[c] = client_id[c]
    BY <1>1, <1>5, <1>12, <2>1, <2>2, <2>4 DEF Served, Proper, OwnId
  <2>3. CASE Registering(c)
    <3>1. PICK a \in Answer : outbox[c] = <<a>> /\ a.code = "registered"
      BY <1>1, <2>3 DEF Registering
    <3>2. answer = a
      BY <3>1 DEF answer
    <3>. QED
      BY <1>1, <1>5, <1>12, <2>1, <2>4, <3>1, <3>2 DEF Served, Proper, OwnId
  <2>. QED
    BY <2>1, <2>2, <2>3 DEF Served
<1>15. ConnOK(c)'
  BY <1>1, <1>12, <1>13, <1>14 DEF ConnOK
<1>. QED
  BY <1>1, <1>7, <1>8, <1>9, <1>10, <1>11, <1>15, StepKeeps

\* A program is gone.
LEMMA GoneKeeps ==
  ASSUME Inv, NEW c \in Conn, ReadEof(c) \/ Quit(c)
  PROVE  Inv'
<1>1. /\ UNCHANGED <<posted, messages, batch, sql, acceptor, stage, client_id, request, reply,
                     me, asked, asks, split, received>>
      /\ peer[c] \in {"ready", "waiting"} /\ peer' = [peer EXCEPT ![c] = "gone"]
      /\ inbox' = [inbox EXCEPT ![c] = inbox[c]] \/ inbox' = [inbox EXCEPT ![c] = <<>>]
      /\ outbox' = [outbox EXCEPT ![c] = <<>>]
  BY DEF ReadEof, Quit, storeVars, threadVars, wireVars, Inv, WiresOK
<1>2. <<>> \in Seq(Request) /\ <<>> \in Seq(Answer)
  OBVIOUS
<1>3. Answer' = Answer /\ TablesOK'
  BY <1>1 DEF Answer, Inv, TablesOK
<1>4. ThreadsOK' /\ UsersOK'
  BY <1>1, <1>3 DEF Inv, ThreadsOK, UsersOK
<1>5. WiresOK'
  BY <1>1, <1>2, <1>3 DEF Inv, WiresOK
<1>6. \A d \in Conn \ {c} : Same(d)
  BY <1>1 DEF Same, Inv, UsersOK, WiresOK
<1>7. /\ peer'[c] = "gone" /\ outbox'[c] = <<>>
      /\ inbox'[c] \in {inbox[c], <<>>} /\ inbox[c] \in Seq(Request)
      /\ ConnOK(c)
  BY <1>1 DEF Inv, UsersOK, WiresOK
<1>8. Registering(c) => Registering(c)'
  BY <1>1, <1>7 DEF Registering
<1>9. Early(c) => Early(c)'
  BY <1>1, <1>7 DEF Early, FromProgram
<1>10. Served(c) => Served(c)'
  BY <1>1, <1>7, <1>8 DEF Served, Proper, OwnId
<1>11. ConnOK(c)'
  BY <1>1, <1>7, <1>9, <1>10 DEF ConnOK
<1>. QED
  BY <1>1, <1>3, <1>4, <1>5, <1>6, <1>11, StepKeeps

\* The steps of a program.
LEMMA ProgramKeeps ==
  ASSUME Inv, Registry!TypeOK, NEW c \in Conn, Program(c)
  PROVE  Inv'
BY ConnectKeeps, AskKeeps, ReadAnswerKeeps, GoneKeeps DEF Program

-----------------------------------------------------------------------------
(* The end of the server, and the theorem. *)

\* No connection outlives the server.
LEMMA CloseKeeps ==
  ASSUME Inv, Restart \/ ProcessEnds
  PROVE  Inv'
<1>1. /\ UNCHANGED <<posted, messages, client_id, request, reply, inbox,
                     peer, me, asked, asks, split, received>>
      /\ stage' = [c \in Conn |-> IF stage[c] = "none" THEN "none" ELSE "closed"]
      /\ outbox' \in {outbox, [c \in Conn |-> <<>>]}
      /\ acceptor' \in {"up", "dead"}
  BY DEF Restart, ProcessEnds, Store!Drop, storeVars, threadVars, wireVars, userVars, Inv, TablesOK
<1>2. TablesOK'
  BY <1>1 DEF Restart, ProcessEnds, Store!Drop, storeVars, Inv, TablesOK
<1>3. Answer' = Answer
  BY <1>1 DEF Answer
<1>4. ThreadsOK' /\ UsersOK'
  BY <1>1, <1>3 DEF Inv, ThreadsOK, UsersOK, Stages, Idle
<1>5. WiresOK'
  <2>1. <<>> \in Seq(Answer)
    OBVIOUS
  <2>. QED
    BY <1>1, <1>3, <2>1 DEF Inv, WiresOK
<1>6. ASSUME NEW c \in Conn PROVE ConnOK(c)'
  <2>1. CASE stage[c] = "none"
    <3>1. Early(c) /\ stage'[c] = "none" /\ (outbox'[c] = outbox[c] \/ outbox'[c] = <<>>)
      BY <1>1, <2>1 DEF Inv, ConnOK, Idle
    <3>2. Early(c)'
      BY <1>1, <3>1 DEF Early, FromProgram
    <3>. QED
      BY <3>1, <3>2 DEF ConnOK, Listening
  <2>2. CASE stage[c] # "none"
    <3>1. stage'[c] = "closed" /\ peer[c] # "off"
      BY <1>1, <2>2 DEF Inv, ConnOK
    <3>. QED
      BY <1>1, <3>1 DEF ConnOK, Idle, Listening
  <2>. QED
    BY <2>1, <2>2
<1>. QED
  BY <1>2, <1>4, <1>5, <1>6 DEF Inv

\* Every step keeps the invariant; that of the registry tells that identifiers are some.
LEMMA NextInv == Inv /\ Registry!TypeOK /\ Registry!TypeOK' /\ [Next]_vars => Inv'
<1>. SUFFICES ASSUME Inv, Registry!TypeOK, Registry!TypeOK', [Next]_vars
              PROVE  Inv'
  OBVIOUS
<1>1. CASE UNCHANGED vars
  <2>1. /\ UNCHANGED <<posted, messages, batch, sql, acceptor, stage, client_id, request, reply>>
        /\ UNCHANGED <<inbox, outbox, peer, me, asked, asks, split, received>>
    BY <1>1 DEF vars, storeVars, threadVars, wireVars, userVars
  <2>2. Answer' = Answer
    BY <2>1 DEF Answer
  <2>3. (TablesOK /\ ThreadsOK /\ WiresOK /\ UsersOK)'
    BY <2>1, <2>2 DEF Inv, TablesOK, ThreadsOK, WiresOK, UsersOK
  <2>4. \A c \in Conn : Same(c)
    BY <2>1 DEF Same
  <2>5. \A c \in Conn : ConnOK(c)'
    BY <2>1, <2>4, SameKeeps DEF Inv
  <2>. QED
    BY <2>3, <2>5 DEF Inv
<1>2. CASE Restart \/ ProcessEnds
  BY <1>2, CloseKeeps
<1>3. ASSUME NEW c \in Conn, MainThread(c) PROVE Inv'
  BY <1>3, MainThreadKeeps, FirstKeeps DEF MainThread
<1>. QED
  BY <1>1, <1>2, <1>3, ThreadKeeps, ProgramKeeps DEF Next

\* What a thread may rely on, whatever arrives: its client is known, its database is
\* open, and a request that it serves names a client.  Every answer names clients and
\* messages that exist or existed.
THEOREM ServerInvariant == Spec => []Inv
BY InitInv, NextInv, ServerOneRowPerClient, PTL DEF Spec

-----------------------------------------------------------------------------
(* The message store. *)

\* A thread that serves a request has the database open, and the identifiers in
\* its request are clients'.
LEMMA StoreStep == Inv /\ [Next]_vars => [Store!Next]_(Store!storeVars)
<1>. SUFFICES ASSUME Inv, [Next]_vars PROVE [Store!Next]_(Store!storeVars)
  OBVIOUS
<1>1. ASSUME UNCHANGED storeVars PROVE UNCHANGED Store!storeVars
  BY <1>1 DEF storeVars, Store!storeVars
<1>2. CASE UNCHANGED vars
  BY <1>1, <1>2 DEF vars
<1>3. CASE Restart
  BY <1>3 DEF Restart, Store!Next, Store!Stop
<1>4. CASE ProcessEnds
  BY <1>1, <1>4 DEF ProcessEnds
<1>5. ASSUME NEW c \in Conn, MainThread(c) PROVE UNCHANGED storeVars
  BY <1>5 DEF MainThread, Accept, FirstEof, FirstUndecodable, FirstLocked, FirstRefused,
              FirstRefusedRaises, FirstRegister, FirstKnown, StartThread
<1>6. ASSUME NEW c \in Conn, Program(c) PROVE UNCHANGED storeVars
  BY <1>6 DEF Program, Connect, Ask, ReadAnswer, ReadEof, Quit
<1>7. ASSUME NEW c \in Conn, Thread(c) PROVE [Store!Next]_(Store!storeVars)
  <2>1. ASSUME Store!Drop({c}) PROVE Store!Next
    BY <2>1 DEF Store!Next, Store!Stop
  <2>2. ASSUME stage[c] \in Listening \ {"start"} 
        PROVE  sql[c] = "open" /\ Proper(c, request[c]) /\ client_id[c] \in Registry!Id
    BY <2>2 DEF Inv, ConnOK, Served
  <2>3. request[c] \in Request
    BY DEF Inv, ThreadsOK
  <2>4. CASE \/ AnswerRegister(c) \/ AnswerList(c) \/ TakeEnds(c) \/ Bad(c) \/ Send(c)
             \/ Recv(c)
    BY <1>1, <2>4 DEF AnswerRegister, AnswerList, TakeEnds, Bad, Send, Recv
  <2>5. CASE TakeRaises(c) \/ ThreadLocked(c) \/ SendRaises(c) \/ RecvEof(c)
    BY <2>1, <2>5 DEF TakeRaises, ThreadLocked, SendRaises, RecvEof
  <2>6. CASE Start(c)
    BY <2>6 DEF Start, Store!Next
  <2>7. CASE AnswerKey(c)
    BY <1>1, <2>1, <2>7 DEF AnswerKey
  <2>8. CASE AnswerSend(c)
    <3>1. stage[c] = "answer" /\ request[c].type = "send"
      BY <2>8 DEF AnswerSend, Answering
    <3>2. request[c].to \in Registry!Id /\ request[c].content \in MessageContent
      BY <2>3, <3>1 DEF Request, Plain
    <3>3. request[c].id \in Registry!Id
      BY <2>2, <3>1 DEF Proper, Serviceable, Listening
    <3>4. ASSUME NEW id \in Store!MessageId,
                 Store!AddMessage(c, id, request[c].to, request[c].id, request[c].content)
          PROVE  Store!Next
      BY <3>2, <3>3, <3>4 DEF Store!Next
    <3>. QED
      BY <2>8, <3>4 DEF AnswerSend, Store!Next
  <2>9. CASE AnswerGet(c)
    <3>1. request[c].id \in Registry!Id
      BY <2>2, <2>9 DEF AnswerGet, Answering, Proper, Serviceable, Listening
    <3>. QED
      BY <2>9, <3>1 DEF AnswerGet, Store!Next
  <2>10. CASE Take(c)
    BY <2>10 DEF Take, Store!Next
  <2>. QED
    BY <1>7, <2>4, <2>5, <2>6, <2>7, <2>8, <2>9, <2>10 DEF Thread
<1>. QED
  BY <1>1, <1>2, <1>3, <1>4, <1>5, <1>6, <1>7 DEF Next

\* Whatever the server does, its messages and its allocators change as the store allows:
\* the threads are its sessions, and no other step of theirs touches it.
THEOREM StoreImplemented == Spec => Store!Spec
<1>1. Init => Store!Init
  BY DEF Init
<1>. QED
  BY <1>1, StoreStep, ServerInvariant, PTL DEF Spec, Store!Spec

\* The store of the server is the one that the theorems are about.
LEMMA StoreIsTheory ==
  /\ Store!Init => StoreTheory!Init
  /\ [Store!Next]_(Store!storeVars) => [StoreTheory!Next]_(StoreTheory!storeVars)
<1>1. /\ Store!storeVars = StoreTheory!storeVars /\ Store!storeVars' = StoreTheory!storeVars'
      /\ Store!MessageId = StoreTheory!MessageId /\ Store!StoredIds = StoreTheory!StoredIds
      /\ Store!Open = StoreTheory!Open
      /\ (Store!SyncRaises <=> StoreTheory!SyncRaises)
  BY DEF Store!storeVars, StoreTheory!storeVars, Store!MessageId, StoreTheory!MessageId,
         Store!StoredIds, StoreTheory!StoredIds, Store!Open, StoreTheory!Open,
         Store!SyncRaises, StoreTheory!SyncRaises
<1>2. ASSUME NEW i, NEW j PROVE Store!IdLess(i, j) <=> StoreTheory!IdLess(i, j)
  BY DEF Store!IdLess, StoreTheory!IdLess
<1>3. ASSUME NEW s \in Conn, NEW id PROVE Store!Allocates(s, id) <=> StoreTheory!Allocates(s, id)
  BY <1>2 DEF Store!Allocates, StoreTheory!Allocates
<1>4. ASSUME NEW S, Store!Drop(S) PROVE StoreTheory!Drop(S)
  BY <1>4 DEF Store!Drop, StoreTheory!Drop
<1>5. ASSUME NEW s \in Conn, Store!Sync(s) PROVE StoreTheory!Sync(s)
  BY <1>1, <1>5 DEF Store!Sync, StoreTheory!Sync, Store!FreeAtSync, StoreTheory!FreeAtSync
<1>6. ASSUME NEW s \in Conn, Store!SyncFails(s) PROVE StoreTheory!SyncFails(s)
  BY <1>1, <1>4, <1>6 DEF Store!SyncFails, StoreTheory!SyncFails
<1>7. ASSUME NEW s \in Conn, NEW id \in Store!MessageId, NEW to \in Registry!Id,
             NEW from \in Registry!Id, NEW content \in MessageContent,
             Store!AddMessage(s, id, to, from, content)
      PROVE  StoreTheory!AddMessage(s, id, to, from, content)
  BY <1>1, <1>3, <1>7
     DEF Store!AddMessage, StoreTheory!AddMessage, Store!FreeAfter, StoreTheory!FreeAfter
<1>8. ASSUME NEW s \in Conn, Store!AddMessageFails(s) PROVE StoreTheory!AddMessageFails(s)
  BY <1>1, <1>3, <1>4, <1>8 DEF Store!AddMessageFails, StoreTheory!AddMessageFails,
     Store!AddRaises, StoreTheory!AddRaises
<1>9. ASSUME NEW s \in Conn, NEW c \in Registry!Id, Store!GetMessages(s, c)
      PROVE  StoreTheory!GetMessages(s, c)
  BY <1>9 DEF Store!GetMessages, StoreTheory!GetMessages, Store!RowsFor, StoreTheory!RowsFor
<1>10. ASSUME NEW s \in Conn, NEW row \in batch[s], Store!DeleteMessage(s, row)
       PROVE  StoreTheory!DeleteMessage(s, row)
  BY <1>2, <1>10 DEF Store!DeleteMessage, StoreTheory!DeleteMessage, Store!AfterDelete,
     StoreTheory!AfterDelete
<1>11. Store!Stop => StoreTheory!Stop
  BY <1>1, <1>4 DEF Store!Stop, StoreTheory!Stop
<1>12. Store!Next => StoreTheory!Next
  BY <1>1, <1>5, <1>6, <1>7, <1>8, <1>9, <1>10, <1>11 DEF Store!Next, StoreTheory!Next
<1>13. Store!Init => StoreTheory!Init
  BY DEF Store!Init, StoreTheory!Init
<1>. QED
  BY <1>1, <1>12, <1>13

\* So the theorems of the store apply.
LEMMA ServerIsStore == Spec => StoreTheory!Spec
BY StoreIsTheory, StoreImplemented, PTL DEF Store!Spec, StoreTheory!Spec

\* The messages of one connection keep their order in the table, and no key is left out,
\* in the server as in the store.
THEOREM ServerKeysInOrder == Spec => [](Store!SessionOrder /\ Store!NoKeySkipped)
<1>1. StoreTheory!SessionOrder /\ StoreTheory!NoKeySkipped
        => Store!SessionOrder /\ Store!NoKeySkipped
  BY DEF StoreTheory!SessionOrder, Store!SessionOrder, StoreTheory!NoKeySkipped,
         Store!NoKeySkipped, StoreTheory!IdLess, Store!IdLess, StoreTheory!MessageId,
         Store!MessageId
<1>2. StoreTheory!Spec => []StoreTheory!SessionOrder
  BY StoreTheory!SessionOrderAlways
<1>3. StoreTheory!Spec => []StoreTheory!NoKeySkipped
  BY StoreTheory!NoKeySkippedAlways
<1>. QED
  BY <1>1, <1>2, <1>3, ServerIsStore, PTL

\* Unless two threads read one mailbox at a time, a message is stored or taken, never
\* both and never neither: threads that end, programs that quit and restarts included.
THEOREM ServerConservation == Spec => []Store!Conservation
<1>1. StoreTheory!Conservation => Store!Conservation
  BY DEF StoreTheory!Conservation, Store!Conservation
<1>2. StoreTheory!Spec => []StoreTheory!Conservation
  BY StoreTheory!ConservationAlways
<1>. QED
  BY <1>1, <1>2, ServerIsStore, PTL

\* The types of the server's variables, its tables' included.
THEOREM TypeCorrect == Spec => []TypeOK
<1>1. StoreTheory!TypeOK => Store!TypeOK
  BY DEF StoreTheory!TypeOK, Store!TypeOK, StoreTheory!MessageRow, Store!MessageRow,
         StoreTheory!MessageId, Store!MessageId
<1>2. StoreTheory!Spec => []StoreTheory!TypeOK
  BY StoreTheory!TypeCorrect
<1>3. Answer \subseteq {a \in Answer : IsAnswer(a)}
  BY DEF Answer, IsAnswer, IsRows
<1>4. Inv /\ Registry!TypeOK /\ Store!TypeOK => TypeOK
  <2>. SUFFICES ASSUME Inv, Registry!TypeOK, Store!TypeOK PROVE TypeOK
    OBVIOUS
  <2>1. stage \in [Conn -> {"none", "backlog", "accepted", "dead", "closed"} \cup Listening]
    BY DEF Inv, ThreadsOK, Stages, Idle
  <2>2. ASSUME NEW c \in Conn
        PROVE  /\ IsAnswer(reply[c])
               /\ \A i \in DOMAIN inbox[c] : inbox[c][i] \in Request
               /\ \A i \in DOMAIN outbox[c] : IsAnswer(outbox[c][i])
               /\ IsRows(received[c])
    <3>1. /\ reply[c] \in Answer /\ inbox[c] \in Seq(Request)
          /\ outbox[c] \in Seq(Answer) /\ received[c] \in Seq(posted)
      BY DEF Inv, ThreadsOK, WiresOK, UsersOK
    <3>2. \A i \in DOMAIN outbox[c] : outbox[c][i] \in Answer
      BY <3>1
    <3>. QED
      BY <1>3, <3>1, <3>2 DEF IsRows
  <2>. QED
    BY <2>1, <2>2 DEF TypeOK, Inv, TablesOK, ThreadsOK, UsersOK
<1>. QED
  BY <1>1, <1>2, <1>4, ServerIsStore, ServerInvariant, ServerOneRowPerClient, PTL

-----------------------------------------------------------------------------
(* Answers and identifiers, while no client's row was replaced. *)

\* Where the server is with a connection whose program it owes nothing.
Listens == {"backlog", "accepted", "recv", "dead", "closed"}
Ends    == {"dead", "closed"}

\* Nothing is under way.
Idling(c) == inbox[c] = <<>> /\ outbox[c] = <<>> /\ stage[c] \in Listens

\* The request is on its way to the server.
Arriving(c) == inbox[c] = <<asked[c]>> /\ outbox[c] = <<>> /\ stage[c] \in Listens

\* The thread works on the request, or will never answer it.
Working(c) ==
  /\ inbox[c] = <<>> /\ outbox[c] = <<>>
  /\ \/ stage[c] \in Ends \cup {"bad"}
     \/ /\ stage[c] \in {"start", "answer"} /\ request[c] = asked[c]
        /\ request[c].type = "register" =>
             [id |-> client_id[c], name |-> request[c].name] \in clients
     \/ /\ stage[c] = "take" /\ request[c] = asked[c] /\ request[c].type = "get"
        /\ \A row \in batch[c] : row.to = asked[c].id
        /\ \A i \in DOMAIN reply[c].rows : reply[c].rows[i].to = asked[c].id
     \/ stage[c] = "send" /\ Answers(asked[c], c, reply[c])

\* The answer is on its way to the program.
Returning(c) ==
  /\ inbox[c] = <<>> /\ stage[c] \in Ends \cup {"recv"}
  /\ \E a \in Answer : outbox[c] = <<a>> /\ Answers(asked[c], c, a)

\* Program and server are in step: there is one request or its answer between them.
InStep(c) ==
  ~split[c] =>
    /\ peer[c] = "ready" => Idling(c)
    /\ peer[c] = "waiting" => /\ asked[c].type \in Serviceable \cup {"register"}
                              /\ Arriving(c) \/ Working(c) \/ Returning(c)

AllInStep == \A c \in Conn : InStep(c)

\* A connection in step has the right answer.
LEMMA InStepAnswers == AllInStep => AnswersMatch
<1>. SUFFICES ASSUME AllInStep, NEW c \in Conn,
                     peer[c] = "waiting", ~split[c], outbox[c] # <<>>
              PROVE  Len(outbox[c]) = 1 /\ Answers(asked[c], c, outbox[c][1])
  BY DEF AnswersMatch
<1>1. Returning(c)
  BY DEF AllInStep, InStep, Arriving, Working
<1>. QED
  BY <1>1 DEF Returning

\* What is between the program and the server, and what the thread of c works on.
SameWork(c) ==
  /\ Same(c)
  /\ asked'[c] = asked[c] /\ split'[c] = split[c] /\ batch'[c] = batch[c]

\* Messages are posted and clients are added; none are lost.
Grows == posted \subseteq posted' /\ clients \subseteq clients'

\* A right answer stays right.
LEMMA AnswersStay ==
  ASSUME Grows, NEW q, NEW c \in Conn, NEW a, Answers(q, c, a)
  PROVE  Answers(q, c, a)'
BY DEF Grows, Answers, Registry!RegisteredIds

\* A connection at which nothing happens stays in step.
LEMMA SameInStep ==
  ASSUME Grows, NEW c \in Conn, InStep(c), SameWork(c)
  PROVE  InStep(c)'
<1>1. Answer \subseteq Answer'
  BY AnswersGrow DEF Grows
<1>2. PICK q, r : q = asked[c] /\ r = reply[c]
  OBVIOUS
<1>3. q = asked'[c] /\ r = reply'[c]
  BY <1>2 DEF SameWork, Same
<1>4. ASSUME NEW a, Answers(q, c, a) PROVE Answers(q, c, a)'
  BY <1>4, AnswersStay
<1>5. Idling(c) => Idling(c)'
  BY DEF Idling, SameWork, Same
<1>6. Arriving(c) => Arriving(c)'
  BY DEF Arriving, SameWork, Same
<1>7. Working(c) => Working(c)'
  <2>. SUFFICES ASSUME Working(c) PROVE Working(c)'
    OBVIOUS
  <2>1. CASE stage[c] = "send" /\ Answers(asked[c], c, reply[c])
    <3>1. Answers(q, c, r)
      BY <1>2, <2>1
    <3>2. Answers(q, c, r)'
      BY <1>4, <3>1
    <3>3. Answers(asked[c], c, reply[c])'
      BY <1>3, <3>2
    <3>. QED
      BY <2>1, <3>3 DEF Working, SameWork, Same
  <2>2. CASE ~(stage[c] = "send" /\ Answers(asked[c], c, reply[c]))
    BY <2>2 DEF Working, SameWork, Same, Grows
  <2>. QED
    BY <2>1, <2>2
<1>8. Returning(c) => Returning(c)'
  <2>. SUFFICES ASSUME Returning(c) PROVE Returning(c)'
    OBVIOUS
  <2>1. PICK a \in Answer : outbox[c] = <<a>> /\ Answers(q, c, a)
    BY <1>2 DEF Returning
  <2>2. Answers(q, c, a)'
    BY <1>4, <2>1
  <2>3. Answers(asked[c], c, a)'
    BY <1>3, <2>2
  <2>. QED
    BY <1>1, <2>1, <2>3 DEF Returning, SameWork, Same
<1>. QED
  BY <1>5, <1>6, <1>7, <1>8 DEF InStep, SameWork, Same

\* A step at connection c changes nothing at another one.
LEMMA OthersSame ==
  ASSUME Inv, NEW c \in Conn, MainThread(c) \/ Thread(c) \/ Program(c)
  PROVE  \A d \in Conn \ {c} : SameWork(d)
<1>. SUFFICES ASSUME NEW d \in Conn \ {c} PROVE SameWork(d)
  OBVIOUS
<1>1. /\ stage \in [Conn -> Stages] /\ client_id \in [Conn -> UserId]
      /\ request \in [Conn -> Request] /\ reply \in [Conn -> Answer]
      /\ inbox \in [Conn -> Seq(Request)] /\ outbox \in [Conn -> Seq(Answer)]
      /\ sql = [e \in Conn |-> sql[e]] /\ batch \in [Conn -> SUBSET posted] /\ UsersOK
  BY DEF Inv, TablesOK, ThreadsOK, WiresOK
<1>. HIDE DEF Inv
<1>2. CASE MainThread(c)
  <2>1. CASE Accept(c) \/ FirstEof(c)
    BY <1>1, <2>1
       DEF Accept, FirstEof, storeVars, threadVars, wireVars, userVars, SameWork, Same
  <2>2. CASE FirstUndecodable(c) \/ FirstLocked(c) \/ FirstRefused(c) \/ FirstRefusedRaises(c)
    BY <1>1, <2>2 DEF FirstUndecodable, FirstLocked, FirstRefused, FirstRefusedRaises, First,
                      Sent, storeVars, threadVars, userVars, SameWork, Same
  <2>3. CASE FirstRegister(c) \/ FirstKnown(c)
    BY <1>1, <2>3 DEF FirstRegister, FirstKnown, First, StartThread, storeVars, userVars,
                      SameWork, Same
  <2>. QED
    BY <1>2, <2>1, <2>2, <2>3 DEF MainThread
<1>3. CASE Thread(c)
  <2>1. ASSUME Store!Drop({c}) PROVE sql'[d] = sql[d] /\ batch'[d] = batch[d]
    BY <1>1, <2>1 DEF Store!Drop
  <2>2. CASE Start(c)
    BY <1>1, <2>1, <2>2 DEF Start, Store!Sync, Store!SyncFails, GoTo, threadVars, wireVars,
                            userVars, SameWork, Same
  <2>3. CASE AnswerRegister(c) \/ AnswerList(c) \/ Bad(c)
    BY <1>1, <2>3 DEF AnswerRegister, AnswerList, Bad, Reply, GoTo, storeVars, wireVars,
                      userVars, SameWork, Same
  <2>4. CASE AnswerKey(c)
    BY <1>1, <2>1, <2>4 DEF AnswerKey, Reply, GoTo, storeVars, wireVars, userVars,
                            SameWork, Same
  <2>5. CASE AnswerSend(c)
    BY <1>1, <2>1, <2>5 DEF AnswerSend, Store!AddMessage, Store!AddMessageFails, Reply, GoTo,
                            wireVars, userVars, SameWork, Same
  <2>6. CASE AnswerGet(c)
    BY <1>1, <2>6 DEF AnswerGet, Store!GetMessages, GoTo, wireVars, userVars, SameWork, Same
  <2>7. CASE Take(c)
    BY <1>1, <2>7 DEF Take, Store!DeleteMessage, wireVars, userVars, SameWork, Same
  <2>8. CASE TakeEnds(c) \/ Send(c) \/ Recv(c)
    BY <1>1, <2>8 DEF TakeEnds, Send, Recv, Sent, GoTo, storeVars, threadVars, wireVars,
                      userVars, SameWork, Same
  <2>9. CASE TakeRaises(c) \/ ThreadLocked(c) \/ SendRaises(c) \/ RecvEof(c)
    BY <1>1, <2>1, <2>9 DEF TakeRaises, ThreadLocked, SendRaises, RecvEof, GoTo, threadVars,
                            wireVars, userVars, SameWork, Same
  <2>. QED
    BY <1>3, <2>2, <2>3, <2>4, <2>5, <2>6, <2>7, <2>8, <2>9 DEF Thread
<1>4. CASE Program(c)
  <2>1. CASE Connect(c) \/ ReadEof(c) \/ Quit(c)
    BY <1>1, <2>1 DEF Connect, ReadEof, Quit, storeVars, threadVars, wireVars, UsersOK,
                      SameWork, Same
  <2>2. CASE Ask(c)
    BY <1>1, <2>2 DEF Ask, storeVars, threadVars, UsersOK, SameWork, Same
  <2>3. CASE ReadAnswer(c)
    BY <1>1, <2>3 DEF ReadAnswer, storeVars, threadVars, UsersOK, SameWork, Same
  <2>. QED
    BY <1>4, <2>1, <2>2, <2>3 DEF Program
<1>. QED
  BY <1>2, <1>3, <1>4

\* A step at connection c.
LEMMA StepInStep ==
  ASSUME AllInStep, Grows, NEW c \in Conn, \A d \in Conn \ {c} : SameWork(d), InStep(c)'
  PROVE  AllInStep'
BY SameInStep DEF AllInStep

\* The one request that arrived is taken.
LEMMA TakenWhole ==
  ASSUME Inv, NEW c \in Conn, Arriving(c), inbox' = [inbox EXCEPT ![c] = Tail(@)]
  PROVE  Head(inbox[c]) = asked[c] /\ inbox'[c] = <<>>
<1>1. PICK q : q = asked[c]
  OBVIOUS
<1>2. inbox[c] = <<q>> /\ inbox'[c] = Tail(inbox[c])
  BY <1>1 DEF Arriving, Inv, WiresOK
<1>. QED
  BY <1>1, <1>2

\* A connection is accepted, dropped or refused.
LEMMA MainThreadInStep ==
  ASSUME Inv, AllInStep, NEW c \in Conn,
         \/ Accept(c) \/ FirstEof(c) \/ FirstUndecodable(c) \/ FirstLocked(c) \/ FirstRefused(c)
         \/ FirstRefusedRaises(c)
  PROVE  AllInStep'
<1>1. UNCHANGED <<posted, clients, batch, sql, client_id, request, reply,
                  peer, me, asked, split, received>>
  BY DEF Accept, FirstEof, FirstUndecodable, FirstLocked, FirstRefused,
         FirstRefusedRaises, registryVars, storeVars, threadVars, userVars
<1>2. PICK next \in {"accepted", "closed", "dead"} :
        /\ stage' = [stage EXCEPT ![c] = next]
        /\ stage[c] \in {"backlog", "accepted"}
        /\ next = "accepted" => stage[c] = "backlog" /\ UNCHANGED <<inbox, outbox>>
        /\ next # "accepted" /\ peer[c] # "gone" =>
             stage[c] = "accepted" /\ inbox[c] # <<>> /\ inbox' = [inbox EXCEPT ![c] = Tail(@)]
  BY DEF Accept, FirstEof, FirstUndecodable, FirstLocked, FirstRefused,
         FirstRefusedRaises, First, wireVars
<1>3. /\ inbox' = inbox \/ inbox' = [inbox EXCEPT ![c] = Tail(@)]
      /\ outbox' = outbox \/ outbox' = [outbox EXCEPT ![c] = Append(@, Error)]
  BY DEF Accept, FirstEof, FirstUndecodable, FirstLocked, FirstRefused,
         FirstRefusedRaises, First, Sent, wireVars
<1>4. \A d \in Conn \ {c} : SameWork(d)
  BY OthersSame DEF MainThread
<1>5. stage'[c] = next /\ InStep(c)
  BY <1>2 DEF Inv, ThreadsOK, AllInStep
<1>6. InStep(c)'
  <2>1. CASE next = "accepted"
    <3>1. Idling(c) => Idling(c)'
      BY <1>2, <1>5, <2>1 DEF Idling, Listens
    <3>2. Arriving(c) => Arriving(c)'
      BY <1>1, <1>2, <1>5, <2>1 DEF Arriving, Listens
    <3>3. ~Working(c) /\ ~Returning(c)
      BY <1>2, <2>1 DEF Working, Returning, Ends
    <3>. QED
      BY <1>1, <1>5, <3>1, <3>2, <3>3 DEF InStep
  <2>2. CASE next # "accepted" /\ ~split[c] /\ peer[c] \in {"ready", "waiting"}
    <3>1. stage[c] = "accepted" /\ inbox[c] # <<>> /\ inbox' = [inbox EXCEPT ![c] = Tail(@)]
      BY <1>2, <2>2
    <3>2. peer[c] = "waiting" /\ Arriving(c) /\ asked[c].type \in Serviceable \cup {"register"}
      BY <1>5, <2>2, <3>1 DEF InStep, Idling, Working, Returning, Ends
    <3>3. inbox'[c] = <<>>
      BY <3>1, <3>2, TakenWhole
    <3>4. CASE outbox' = outbox
      BY <1>1, <1>2, <1>5, <2>2, <3>2, <3>3, <3>4 DEF InStep, Arriving, Working, Ends
    <3>5. CASE outbox' = [outbox EXCEPT ![c] = Append(@, Error)]
      <4>1. outbox'[c] = Append(outbox[c], Error) /\ outbox[c] = <<>>
        BY <3>2, <3>5 DEF Inv, WiresOK, Arriving
      <4>2. outbox'[c] = <<Error>>
        BY <4>1
      <4>3. Error \in Answer' /\ Answers(asked[c], c, Error)'
        BY DEF Answer, Answers
      <4>4. Returning(c)'
        BY <1>2, <1>5, <2>2, <3>3, <4>2, <4>3 DEF Returning, Ends
      <4>. QED
        BY <1>1, <2>2, <3>2, <4>4 DEF InStep
    <3>. QED
      BY <1>3, <3>4, <3>5
  <2>3. CASE split[c] \/ peer[c] \notin {"ready", "waiting"}
    BY <1>1, <2>3 DEF InStep
  <2>. QED
    BY <2>1, <2>2, <2>3
<1>. QED
  BY <1>1, <1>4, <1>6, StepInStep DEF Grows

\* A thread starts with the request that was asked; if it is a registration, the client
\* is in the table.
LEMMA FirstInStep ==
  ASSUME Inv, AllInStep, Grows, NEW c \in Conn, FirstRegister(c) \/ FirstKnown(c)
  PROVE  AllInStep'
<1>. DEFINE q == Head(inbox[c])
<1>1. /\ UNCHANGED <<posted, batch, sql, reply, outbox, peer, me, asked, split, received>>
      /\ stage[c] = "accepted" /\ inbox[c] # <<>> /\ inbox' = [inbox EXCEPT ![c] = Tail(@)]
      /\ request' = [request EXCEPT ![c] = q] /\ stage' = [stage EXCEPT ![c] = "start"]
  BY DEF FirstRegister, FirstKnown, First, StartThread, storeVars, userVars
<1>2. PICK id : /\ client_id' = [client_id EXCEPT ![c] = id]
                /\ q.type = "register" => [id |-> id, name |-> q.name] \in clients'
  <2>1. CASE FirstRegister(c)
    BY <2>1 DEF FirstRegister, StartThread, Registry!Register, Registry!AddClient
  <2>2. CASE FirstKnown(c)
    BY <2>2 DEF FirstKnown, StartThread, Serviceable
  <2>. QED
    BY <2>1, <2>2
<1>3. \A d \in Conn \ {c} : SameWork(d)
  BY OthersSame DEF MainThread
<1>4. /\ stage'[c] = "start" /\ request'[c] = q /\ client_id'[c] = id /\ InStep(c)
  BY <1>1, <1>2 DEF Inv, ThreadsOK, AllInStep
<1>. HIDE DEF q
<1>5. InStep(c)'
  <2>1. CASE ~split[c] /\ peer[c] \in {"ready", "waiting"}
    <3>1. peer[c] = "waiting" /\ Arriving(c) /\ asked[c].type \in Serviceable \cup {"register"}
      BY <1>1, <1>4, <2>1 DEF InStep, Idling, Working, Returning, Ends
    <3>2. q = asked[c] /\ inbox'[c] = <<>>
      BY <1>1, <3>1, TakenWhole DEF q
    <3>3. Working(c)'
      BY <1>1, <1>2, <1>4, <3>1, <3>2 DEF Working, Arriving
    <3>. QED
      BY <1>1, <3>1, <3>3 DEF InStep
  <2>2. CASE split[c] \/ peer[c] \notin {"ready", "waiting"}
    BY <1>1, <2>2 DEF InStep
  <2>. QED
    BY <2>1, <2>2
<1>. QED
  BY <1>3, <1>5, StepInStep

\* The thread ends.
LEMMA EndInStep ==
  ASSUME Inv, AllInStep, NEW c \in Conn, NEW next \in Ends, Store!Drop({c}),
         stage[c] \in Listening, stage' = [stage EXCEPT ![c] = next],
         UNCHANGED <<clients, client_id, request, reply, inbox, outbox,
                     peer, me, asked, split, received>>
  PROVE  AllInStep'
<1>1. /\ Grows /\ posted' = posted
      /\ \A d \in Conn \ {c} : sql'[d] = sql[d] /\ batch'[d] = batch[d]
  BY DropKeeps DEF Inv, TablesOK, Store!Drop, Grows
<1>2. \A d \in Conn \ {c} : SameWork(d)
  BY <1>1 DEF SameWork, Same, Inv, ThreadsOK
<1>3. stage'[c] = next /\ InStep(c)
  BY DEF Inv, ThreadsOK, AllInStep
<1>4. Idling(c) => Idling(c)'
  BY <1>3 DEF Idling, Ends, Listens
<1>5. Arriving(c) => Arriving(c)'
  BY <1>3 DEF Arriving, Ends, Listens
<1>6. Working(c) => Working(c)'
  BY <1>3 DEF Working, Ends
<1>7. Returning(c) => Returning(c)'
  <2>. SUFFICES ASSUME Returning(c) PROVE Returning(c)'
    OBVIOUS
  <2>1. PICK q, a : q = asked[c] /\ a \in Answer /\ outbox[c] = <<a>> /\ Answers(q, c, a)
    BY DEF Returning
  <2>2. Answers(q, c, a)' /\ a \in Answer'
    BY <1>1, <2>1, AnswersStay, AnswersGrow
  <2>3. Answers(asked[c], c, a)'
    BY <2>1, <2>2
  <2>. QED
    BY <1>3, <2>1, <2>2, <2>3 DEF Returning
<1>8. InStep(c)'
  BY <1>3, <1>4, <1>5, <1>6, <1>7 DEF InStep
<1>. QED
  BY <1>1, <1>2, <1>8, StepInStep

\* The thread opens the database.
LEMMA StartInStep ==
  ASSUME Inv, AllInStep, NEW c \in Conn, Start(c)
  PROVE  AllInStep'
<1>1. /\ UNCHANGED <<clients, client_id, request, reply, inbox, outbox,
                     peer, me, asked, split, received>>
      /\ stage[c] = "start"
  BY DEF Start, registryVars, threadVars, wireVars, userVars
<1>2. CASE Store!SyncFails(c) /\ GoTo(c, "dead")
  BY <1>1, <1>2, EndInStep DEF Store!SyncFails, GoTo, Ends, Listening
<1>3. CASE Store!Sync(c) /\ GoTo(c, "answer")
  <2>1. UNCHANGED <<posted, batch>> /\ \A d \in Conn \ {c} : sql'[d] = sql[d]
    BY <1>3 DEF Store!Sync, Inv, TablesOK
  <2>2. \A d \in Conn \ {c} : SameWork(d)
    BY OthersSame DEF Thread
  <2>3. stage'[c] = "answer" /\ InStep(c)
    BY <1>3 DEF GoTo, Inv, ThreadsOK, AllInStep
  <2>4. ~Idling(c) /\ ~Arriving(c) /\ ~Returning(c)
    BY <1>1 DEF Idling, Arriving, Returning, Listens, Ends
  <2>5. Working(c) => Working(c)'
    BY <1>1, <2>3 DEF Working, Ends
  <2>6. InStep(c)'
    BY <1>1, <2>3, <2>4, <2>5 DEF InStep
  <2>. QED
    BY <1>1, <2>1, <2>2, <2>6, StepInStep DEF Grows
<1>. QED
  BY <1>2, <1>3 DEF Start

\* The answer is complete: it is the one to what was asked.
LEMMA ReplyInStep ==
  ASSUME Inv, AllInStep, Grows, NEW c \in Conn, stage[c] \in {"answer", "take", "bad"},
         stage' = [stage EXCEPT ![c] = "send"], reply' = [reply EXCEPT ![c] = reply'[c]],
         \A d \in Conn \ {c} : sql'[d] = sql[d] /\ batch'[d] = batch[d],
         UNCHANGED <<client_id, request, inbox, outbox, peer, me, asked, split, received>>,
         Working(c) => Answers(asked[c], c, reply[c])'
  PROVE  AllInStep'
<1>1. \A d \in Conn \ {c} : SameWork(d)
  BY DEF SameWork, Same, Inv, ThreadsOK
<1>2. stage'[c] = "send" /\ InStep(c)
  BY DEF Inv, ThreadsOK, AllInStep
<1>3. ~Idling(c) /\ ~Arriving(c) /\ ~Returning(c)
  BY DEF Idling, Arriving, Returning, Listens, Ends
<1>4. Working(c) => Working(c)'
  BY <1>2 DEF Working
<1>5. InStep(c)'
  BY <1>2, <1>3, <1>4 DEF InStep
<1>. QED
  BY <1>1, <1>5, StepInStep

\* Each request is answered with what it asks for.
LEMMA AnswersInStep ==
  ASSUME Inv, Registry!TypeOK, AllInStep, NEW c \in Conn,
         \/ AnswerRegister(c) \/ AnswerList(c) \/ AnswerKey(c) \/ AnswerSend(c) \/ Bad(c)
  PROVE  AllInStep'
<1>1. UNCHANGED <<clients, client_id, request, inbox, outbox,
                  peer, me, asked, split, received>>
  BY DEF AnswerRegister, AnswerList, AnswerKey, AnswerSend, Bad, registryVars, wireVars,
         userVars
<1>2. /\ stage[c] \in {"answer", "bad"} /\ stage[c] \in Listening /\ Served(c)
      /\ Working(c) /\ stage[c] = "answer" => request[c] = asked[c]
  BY DEF AnswerRegister, AnswerList, AnswerKey, AnswerSend, Bad, Answering, Inv, ConnOK,
         Listening, Working, Ends
<1>3. ASSUME UNCHANGED storeVars, NEW a, Reply(c, a),
             Working(c) => Answers(asked[c], c, reply[c])'
      PROVE  AllInStep'
  <2>1. Grows /\ UNCHANGED <<sql, batch>>
    BY <1>1, <1>3 DEF Grows, storeVars
  <2>. QED
    BY <1>1, <1>2, <1>3, <2>1, ReplyInStep DEF Reply, GoTo, Inv, ThreadsOK
<1>4. ASSUME NEW a, Reply(c, a) PROVE reply'[c] = a
  BY <1>4 DEF Reply, Inv, ThreadsOK
<1>5. ASSUME Store!Drop({c}), GoTo(c, "dead"), UNCHANGED reply PROVE AllInStep'
  BY <1>1, <1>2, <1>5, EndInStep DEF GoTo, Ends
<1>6. CASE AnswerRegister(c)
  <2>1. PICK a : a = [code |-> "registered", id |-> client_id[c]] /\ Reply(c, a)
    BY <1>6 DEF AnswerRegister
  <2>2. Working(c) => Answers(asked[c], c, reply[c])'
    BY <1>1, <1>2, <1>4, <1>6, <2>1 DEF AnswerRegister, Answering, Working, Answers, Ends
  <2>. QED
    BY <1>3, <1>6, <2>1, <2>2 DEF AnswerRegister
<1>7. CASE AnswerList(c)
  <2>1. PICK a : /\ a = [code |-> "clients", ids |-> Registry!RegisteredIds \ {client_id[c]}]
                 /\ Reply(c, a)
    BY <1>7 DEF AnswerList
  <2>2. request[c].id = client_id[c]
    BY <1>2, <1>7 DEF AnswerList, Answering, Served, Proper, Serviceable
  <2>3. Working(c) => Answers(asked[c], c, reply[c])'
    BY <1>1, <1>2, <1>4, <1>7, <2>1, <2>2
       DEF AnswerList, Answering, Answers, Registry!RegisteredIds
  <2>. QED
    BY <1>3, <1>7, <2>1, <2>3 DEF AnswerList
<1>8. CASE AnswerKey(c)
  <2>1. ASSUME NEW row \in clients, row.id = request[c].of, UNCHANGED storeVars,
               Reply(c, [code |-> "key", id |-> row.id, key |-> row.name])
        PROVE  AllInStep'
    <3>1. row = [id |-> row.id, name |-> row.name]
      BY DEF Registry!TypeOK, Registry!ClientRow
    <3>2. PICK a : a = [code |-> "key", id |-> row.id, key |-> row.name] /\ Reply(c, a)
      BY <2>1
    <3>3. reply'[c] = a /\ Answering(c, "key")
      BY <1>4, <1>8, <3>2 DEF AnswerKey
    <3>4. Working(c) => Answers(asked[c], c, reply[c])'
      BY <1>1, <1>2, <2>1, <3>1, <3>2, <3>3 DEF Answering, Answers
    <3>. QED
      BY <1>3, <2>1, <3>2, <3>4
  <2>. QED
    BY <1>5, <1>8, <2>1 DEF AnswerKey
<1>9. CASE Bad(c)
  <2>1. Answers(asked[c], c, reply[c])'
    BY <1>4, <1>9 DEF Bad, Answers
  <2>. QED
    BY <1>3, <1>9, <2>1 DEF Bad
<1>10. CASE AnswerSend(c)
  <2>. DEFINE q == request[c]
  <2>1. CASE Store!AddMessageFails(c) /\ GoTo(c, "dead") /\ UNCHANGED reply
    BY <1>5, <2>1 DEF Store!AddMessageFails
  <2>2. ASSUME NEW mid \in Store!MessageId, Store!AddMessage(c, mid, q.to, q.id, q.content)
        PROVE  /\ Grows /\ sql' = sql /\ batch' = batch
               /\ \E m \in posted' : /\ m.by = c /\ m.id = mid /\ m.to = q.to
                                     /\ m.from = q.id /\ m.content = q.content
    <3>. DEFINE m == [id |-> mid, to |-> q.to, from |-> q.id, content |-> q.content,
                      uid |-> nextUid, by |-> c]
    <3>1. m \in posted' /\ m.by = c /\ m.id = mid /\ m.to = q.to /\ m.from = q.id
          /\ m.content = q.content
      BY <2>2 DEF Store!AddMessage
    <3>. QED
      BY <1>1, <2>2, <3>1 DEF Store!AddMessage, Grows
  <2>3. ASSUME NEW mid \in Store!MessageId, Store!AddMessage(c, mid, q.to, q.id, q.content),
               Reply(c, [code |-> "sent", to |-> q.to, id |-> mid])
        PROVE  AllInStep'
    <3>1. Working(c) => Answers(asked[c], c, reply[c])'
      BY <1>1, <1>2, <1>4, <1>10, <2>2, <2>3 DEF AnswerSend, Answering, Answers
    <3>2. /\ stage' = [stage EXCEPT ![c] = "send"] /\ reply' = [reply EXCEPT ![c] = reply'[c]]
          /\ stage[c] \in {"answer", "take", "bad"}
      BY <1>2, <2>3 DEF Reply, GoTo, Inv, ThreadsOK
    <3>3. Grows /\ \A d \in Conn \ {c} : sql'[d] = sql[d] /\ batch'[d] = batch[d]
      BY <2>2, <2>3
    <3>. QED
      BY <1>1, <3>1, <3>2, <3>3, ReplyInStep
  <2>4. ASSUME NEW mid \in Store!MessageId, Store!AddMessage(c, mid, q.to, q.id, q.content),
               GoTo(c, "dead"), UNCHANGED reply
        PROVE  AllInStep'
    <3>1. \A d \in Conn \ {c} : SameWork(d)
      BY OthersSame DEF Thread
    <3>2. stage'[c] = "dead" /\ InStep(c) /\ stage[c] = "answer"
      BY <1>10, <2>4 DEF GoTo, Inv, ThreadsOK, AllInStep, AnswerSend, Answering
    <3>3. ~Idling(c) /\ ~Arriving(c) /\ ~Returning(c) /\ (Working(c) => Working(c)')
      BY <1>1, <3>2 DEF Idling, Arriving, Returning, Working, Listens, Ends
    <3>4. InStep(c)'
      BY <1>1, <3>2, <3>3 DEF InStep
    <3>. QED
      BY <2>2, <2>4, <3>1, <3>4, StepInStep
  <2>. QED
    BY <1>10, <2>1, <2>3, <2>4 DEF AnswerSend
<1>. QED
  BY <1>6, <1>7, <1>8, <1>9, <1>10

\* The rows of a mailbox are read, and put into the answer one by one.
LEMMA TakesInStep ==
  ASSUME Inv, AllInStep, NEW c \in Conn, AnswerGet(c) \/ Take(c) \/ TakeEnds(c)
  PROVE  AllInStep'
<1>1. /\ UNCHANGED <<clients, client_id, request, inbox, outbox,
                     peer, me, asked, split, received>>
      /\ stage[c] \in {"answer", "take"}
  BY DEF AnswerGet, Take, TakeEnds, Answering, registryVars, threadVars, wireVars, userVars
<1>2. /\ Grows /\ sql' = sql /\ \A d \in Conn \ {c} : batch'[d] = batch[d]
  BY <1>1 DEF AnswerGet, Take, TakeEnds, Grows, Store!GetMessages, Store!DeleteMessage,
              storeVars, Inv, TablesOK
<1>3. ~Idling(c) /\ ~Arriving(c) /\ ~Returning(c) /\ InStep(c)
  BY <1>1 DEF Idling, Arriving, Returning, Listens, Ends, AllInStep
<1>4. ASSUME stage'[c] = "take", \A d \in Conn \ {c} : SameWork(d),
             Working(c) => Working(c)'
      PROVE  AllInStep'
  <2>1. InStep(c)'
    BY <1>1, <1>3, <1>4 DEF InStep
  <2>. QED
    BY <1>2, <1>4, <2>1, StepInStep
<1>5. CASE AnswerGet(c)
  <2>1. /\ stage'[c] = "take" /\ stage[c] = "answer" /\ request[c].type = "get"
        /\ \A row \in batch'[c] : row.to = request[c].id
        /\ reply'[c].rows = <<>>
    BY <1>5 DEF AnswerGet, Answering, GoTo, Store!GetMessages, Store!RowsFor, Inv,
                ThreadsOK, TablesOK
  <2>2. \A d \in Conn \ {c} : SameWork(d)
    BY OthersSame DEF Thread
  <2>3. Working(c) => Working(c)'
    BY <1>1, <2>1 DEF Working, Ends
  <2>. QED
    BY <1>4, <2>1, <2>2, <2>3
<1>6. CASE Take(c)
  <2>1. PICK row \in batch[c] : Store!DeleteMessage(c, row)
                             /\ reply' = [reply EXCEPT ![c].rows = Append(@, row)]
    BY <1>6 DEF Take
  <2>2. stage[c] = "take" /\ stage' = stage /\ batch'[c] \subseteq batch[c]
    BY <1>6, <2>1 DEF Take, Store!DeleteMessage, Inv, TablesOK
  <2>3. reply[c] \in [code : {"messages"}, rows : Seq(posted)]
    <3>1. Served(c) /\ reply[c] \in Answer
      BY <2>2 DEF Inv, ConnOK, Listening, ThreadsOK
    <3>. QED
      BY <2>2, <3>1 DEF Served, Answer, Error
  <2>4. /\ reply'[c].rows = Append(reply[c].rows, row)
        /\ \A d \in Conn \ {c} : reply'[d] = reply[d]
    BY <2>1, <2>3 DEF Inv, ThreadsOK
  <2>5. \A d \in Conn \ {c} : SameWork(d)
    BY OthersSame DEF Thread
  <2>6. ASSUME NEW i \in DOMAIN reply'[c].rows
        PROVE  reply'[c].rows[i] = row \/ \E j \in DOMAIN reply[c].rows :
                                            reply'[c].rows[i] = reply[c].rows[j]
    <3>1. reply[c].rows \in Seq(posted)
      BY <2>3
    <3>. QED
      BY <2>4, <2>6, <3>1
  <2>7. Working(c) => Working(c)'
    BY <1>1, <2>2, <2>6 DEF Working, Ends
  <2>. QED
    BY <1>4, <2>2, <2>5, <2>7
<1>7. CASE TakeEnds(c)
  <2>1. /\ stage[c] = "take" /\ stage' = [stage EXCEPT ![c] = "send"] /\ reply' = reply
        /\ batch' = batch
    BY <1>7 DEF TakeEnds, GoTo, threadVars, storeVars
  <2>2. reply[c].code = "messages"
    BY <2>1 DEF Inv, ConnOK, Listening, Served
  <2>3. Working(c) => Answers(asked[c], c, reply[c])'
    BY <1>1, <2>1, <2>2 DEF Working, Ends, Answers
  <2>. QED
    BY <1>1, <1>2, <2>1, <2>3, ReplyInStep DEF Inv, ThreadsOK
<1>. QED
  BY <1>5, <1>6, <1>7

\* The answer is sent.
LEMMA SendInStep ==
  ASSUME Inv, AllInStep, NEW c \in Conn, Send(c)
  PROVE  AllInStep'
<1>1. /\ UNCHANGED <<posted, clients, batch, sql, client_id, request, reply, inbox,
                     peer, me, asked, split, received>>
      /\ stage[c] = "send" /\ stage' = [stage EXCEPT ![c] = "recv"]
      /\ outbox' = IF peer[c] = "gone" THEN outbox
                   ELSE [outbox EXCEPT ![c] = Append(@, reply[c])]
  BY DEF Send, Sent, GoTo, registryVars, storeVars, threadVars, userVars
<1>2. \A d \in Conn \ {c} : SameWork(d)
  BY OthersSame DEF Thread
<1>3. stage'[c] = "recv" /\ InStep(c) /\ reply[c] \in Answer
  BY <1>1 DEF Inv, ThreadsOK, AllInStep
<1>4. ~Idling(c) /\ ~Arriving(c) /\ ~Returning(c)
  BY <1>1 DEF Idling, Arriving, Returning, Listens, Ends
<1>5. ASSUME Working(c), peer[c] = "waiting" PROVE Returning(c)'
  <2>1. PICK q, a : q = asked[c] /\ a = reply[c]
    OBVIOUS
  <2>2. outbox[c] = <<>> /\ outbox'[c] = Append(outbox[c], a) /\ Answers(q, c, a)
    BY <1>1, <1>5, <2>1 DEF Working, Ends, Inv, WiresOK
  <2>3. outbox'[c] = <<a>> /\ a \in Answer' /\ Grows
    BY <1>1, <1>3, <2>1, <2>2 DEF Answer, Grows
  <2>4. Answers(q, c, a)'
    BY <2>2, <2>3, AnswersStay
  <2>5. Answers(asked[c], c, a)'
    BY <1>1, <2>1, <2>4
  <2>. QED
    BY <1>1, <1>3, <1>5, <2>3, <2>5 DEF Returning, Working
<1>6. InStep(c)'
  BY <1>1, <1>3, <1>4, <1>5 DEF InStep
<1>. QED
  BY <1>1, <1>2, <1>6, StepInStep DEF Grows

\* The request arrives at its thread.
LEMMA RecvInStep ==
  ASSUME Inv, AllInStep, NEW c \in Conn, Recv(c)
  PROVE  AllInStep'
<1>1. /\ UNCHANGED <<posted, clients, batch, sql, client_id, reply, outbox,
                     peer, me, asked, split, received>>
      /\ stage[c] = "recv" /\ inbox[c] # <<>> /\ inbox' = [inbox EXCEPT ![c] = Tail(@)]
  BY DEF Recv, registryVars, storeVars, userVars
<1>2. PICK q, next :
        /\ request' = [request EXCEPT ![c] = q] /\ stage' = [stage EXCEPT ![c] = next]
        /\ Head(inbox[c]).type # "short" => q = Head(inbox[c])
        /\ next = NextStage(q)
  BY DEF Recv, GoTo
<1>3. \A d \in Conn \ {c} : SameWork(d)
  BY OthersSame DEF Thread
<1>4. stage'[c] = next /\ request'[c] = q /\ InStep(c)
  BY <1>1, <1>2 DEF Inv, ThreadsOK, AllInStep
<1>5. InStep(c)'
  <2>1. CASE ~split[c] /\ peer[c] \in {"ready", "waiting"}
    <3>1. peer[c] = "waiting" /\ Arriving(c) /\ asked[c].type \in Serviceable \cup {"register"}
      BY <1>1, <1>4, <2>1 DEF InStep, Idling, Working, Returning, Ends
    <3>2. Head(inbox[c]) = asked[c] /\ inbox'[c] = <<>>
      BY <1>1, <3>1, TakenWhole
    <3>3. q = asked[c] /\ ((next = "answer" /\ q.type \in Serviceable) \/ next = "bad")
      BY <1>2, <3>1, <3>2 DEF Serviceable, NextStage
    <3>4. Working(c)'
      BY <1>1, <1>4, <3>1, <3>2, <3>3 DEF Working, Arriving, Serviceable
    <3>. QED
      BY <1>1, <3>1, <3>4 DEF InStep
  <2>2. CASE split[c] \/ peer[c] \notin {"ready", "waiting"}
    BY <1>1, <2>2 DEF InStep
  <2>. QED
    BY <2>1, <2>2
<1>. QED
  BY <1>1, <1>3, <1>5, StepInStep DEF Grows

\* The steps of a session thread.
LEMMA ThreadInStep ==
  ASSUME Inv, Registry!TypeOK, AllInStep, NEW c \in Conn, Thread(c)
  PROVE  AllInStep'
<1>1. CASE TakeRaises(c) \/ ThreadLocked(c) \/ SendRaises(c) \/ RecvEof(c)
  BY <1>1, EndInStep DEF TakeRaises, ThreadLocked, SendRaises, RecvEof, GoTo, registryVars,
                         threadVars, wireVars, userVars, Listening, Ends
<1>. QED
  BY <1>1, StartInStep, AnswersInStep, TakesInStep, SendInStep, RecvInStep DEF Thread

\* A program asks when nothing is under way, and reads the one answer.
LEMMA ProgramInStep ==
  ASSUME Inv, AllInStep, NEW c \in Conn, Program(c)
  PROVE  AllInStep'
<1>1. UNCHANGED <<posted, clients, batch, sql, client_id, request, reply>>
  BY DEF Program, Connect, Ask, ReadAnswer, ReadEof, Quit, registryVars, storeVars, threadVars
<1>2. InStep(c) /\ inbox[c] \in Seq(Request) /\ outbox[c] \in Seq(Answer) /\ ConnOK(c)
  BY DEF AllInStep, Inv, WiresOK
<1>3. \A d \in Conn \ {c} : SameWork(d)
  BY OthersSame
<1>4. CASE Connect(c)
  <2>1. /\ peer'[c] = "ready" /\ stage'[c] = "backlog" /\ UNCHANGED <<inbox, outbox>>
        /\ inbox[c] = <<>> /\ outbox[c] = <<>>
    BY <1>2, <1>4 DEF Connect, wireVars, Inv, UsersOK, ThreadsOK, ConnOK, Early, Idle
  <2>. QED
    BY <1>1, <1>3, <2>1, StepInStep DEF Grows, InStep, Idling, Listens
<1>5. CASE Ask(c)
  <2>1. PICK type \in AskTypes \cup {"register"} : \E q \in Asks(c, type) :
          \E pieces \in Pieces(q) :
            /\ asked' = [asked EXCEPT ![c] = q]
            /\ inbox' = [inbox EXCEPT ![c] = @ \o pieces]
            /\ split' = [split EXCEPT ![c] = @ \/ Len(pieces) > 1]
    BY <1>5 DEF Ask
  <2>2. PICK q \in Asks(c, type) : \E pieces \in Pieces(q) :
            /\ asked' = [asked EXCEPT ![c] = q]
            /\ inbox' = [inbox EXCEPT ![c] = @ \o pieces]
            /\ split' = [split EXCEPT ![c] = @ \/ Len(pieces) > 1]
    BY <2>1
  <2>3. PICK pieces \in Pieces(q) :
            /\ asked' = [asked EXCEPT ![c] = q]
            /\ inbox' = [inbox EXCEPT ![c] = @ \o pieces]
            /\ split' = [split EXCEPT ![c] = @ \/ Len(pieces) > 1]
    BY <2>2
  <2>4. /\ peer[c] = "ready" /\ peer'[c] = "waiting" /\ UNCHANGED <<stage, outbox>>
        /\ asked'[c] = q /\ inbox'[c] = inbox[c] \o pieces
        /\ split'[c] = (split[c] \/ Len(pieces) > 1)
    BY <1>5, <2>3 DEF Ask, Inv, UsersOK, WiresOK
  <2>5. q.type \in Serviceable \cup {"register"}
    BY DEF Asks, Serviceable
  <2>6. ASSUME ~split'[c] PROVE Arriving(c)'
    <3>1. pieces = <<q>>
      <4>1. \/ pieces = <<q>>
            \/ \E t, u \in {"garbled", "short"} : pieces = <<Plain(t), Plain(u)>>
        BY DEF Pieces
      <4>2. ASSUME NEW x, NEW y, pieces = <<x, y>> PROVE Len(pieces) > 1
        BY <4>2
      <4>. QED
        BY <2>4, <2>6, <4>1, <4>2
    <3>2. Idling(c)
      BY <1>2, <2>4, <2>6 DEF InStep
    <3>3. inbox'[c] = <<q>>
      BY <2>4, <3>1, <3>2 DEF Idling
    <3>. QED
      BY <2>4, <3>2, <3>3 DEF Idling, Arriving
  <2>7. InStep(c)'
    BY <2>4, <2>5, <2>6 DEF InStep
  <2>. QED
    BY <1>1, <1>3, <2>7, StepInStep DEF Grows
<1>6. CASE ReadAnswer(c)
  <2>1. /\ peer[c] = "waiting" /\ peer'[c] = "ready" /\ UNCHANGED <<stage, inbox, asked, split>>
        /\ outbox[c] # <<>> /\ outbox'[c] = Tail(outbox[c])
    BY <1>6 DEF ReadAnswer, Inv, UsersOK, WiresOK
  <2>2. ASSUME ~split[c] PROVE Idling(c)'
    <3>1. Returning(c)
      BY <1>2, <2>1, <2>2 DEF InStep, Arriving, Working
    <3>2. PICK a : outbox[c] = <<a>>
      BY <3>1 DEF Returning
    <3>3. outbox'[c] = <<>>
      BY <2>1, <3>2
    <3>. QED
      BY <2>1, <3>1, <3>3 DEF Returning, Idling, Ends, Listens
  <2>3. InStep(c)'
    BY <2>1, <2>2 DEF InStep
  <2>. QED
    BY <1>1, <1>3, <2>3, StepInStep DEF Grows
<1>7. CASE ReadEof(c) \/ Quit(c)
  <2>1. peer'[c] = "gone"
    BY <1>7 DEF ReadEof, Quit, Inv, UsersOK
  <2>2. InStep(c)'
    BY <2>1 DEF InStep
  <2>. QED
    BY <1>1, <1>3, <2>2, StepInStep DEF Grows
<1>. QED
  BY <1>4, <1>5, <1>6, <1>7 DEF Program

\* When the server ends, answers under way arrive or not.
LEMMA CloseInStep ==
  ASSUME Inv, AllInStep, Restart \/ ProcessEnds
  PROVE  AllInStep'
<1>1. /\ UNCHANGED <<posted, clients, client_id, request, reply, inbox,
                     peer, me, asked, split>>
      /\ stage' = [c \in Conn |-> IF stage[c] = "none" THEN "none" ELSE "closed"]
      /\ outbox' \in {outbox, [c \in Conn |-> <<>>]}
  BY DEF Restart, ProcessEnds, Registry!Reload, Store!Drop, registryVars, storeVars,
         threadVars, wireVars, userVars
<1>2. Grows
  BY <1>1 DEF Grows
<1>. SUFFICES ASSUME NEW c \in Conn, ~split[c] PROVE InStep(c)'
  BY <1>1 DEF AllInStep, InStep
<1>3. InStep(c) /\ outbox'[c] \in {outbox[c], <<>>}
      /\ stage'[c] = IF stage[c] = "none" THEN "none" ELSE "closed"
  BY <1>1 DEF AllInStep
<1>4. Idling(c) => Idling(c)'
  BY <1>1, <1>3 DEF Idling, Listens
<1>5. Arriving(c) => Arriving(c)'
  BY <1>1, <1>3 DEF Arriving, Listens
<1>6. Working(c) => Working(c)'
  BY <1>1, <1>3 DEF Working, Ends
<1>7. Returning(c) => Returning(c)' \/ Working(c)'
  <2>. SUFFICES ASSUME Returning(c) PROVE Returning(c)' \/ Working(c)'
    OBVIOUS
  <2>1. PICK q, a : q = asked[c] /\ a \in Answer /\ outbox[c] = <<a>> /\ Answers(q, c, a)
    BY DEF Returning
  <2>2. Answers(q, c, a)' /\ a \in Answer'
    BY <1>2, <2>1, AnswersStay, AnswersGrow DEF Grows
  <2>3. Answers(asked[c], c, a)'
    BY <1>1, <2>1, <2>2
  <2>4. stage'[c] = "closed" /\ inbox'[c] = <<>>
    BY <1>1, <1>3 DEF Returning, Ends
  <2>. QED
    BY <1>3, <2>1, <2>2, <2>3, <2>4 DEF Returning, Working, Ends
<1>. QED
  BY <1>1, <1>3, <1>4, <1>5, <1>6, <1>7 DEF InStep

\* Program c is about to learn that it is i: its thread registered it, or the answer is
\* on its way.
ByThread(c, i) ==
  \/ stage[c] \in {"start", "answer"} /\ request[c].type = "register" /\ i = client_id[c]
  \/ stage[c] = "send" /\ reply[c].code = "registered" /\ i = reply[c].id

ByAnswer(c, i) ==
  \E k \in DOMAIN outbox[c] : outbox[c][k].code = "registered" /\ i = outbox[c][k].id

Claim(c, i) == peer[c] # "gone" /\ (ByThread(c, i) \/ ByAnswer(c, i))

\* A program that is about to learn its identifier waits, and nothing else is on its way.
OneClaim(c) ==
  \A i \in Registry!Id : Claim(c, i) =>
    /\ peer[c] = "waiting" /\ inbox[c] = <<>>
    /\ \/ outbox[c] = <<>>
       \/ (\E a \in Answer : outbox[c] = <<a>>) /\ stage[c] \in Ends \cup {"recv"}

\* Identifiers that programs have, or are about to learn, are those of clients, and no
\* two programs learn one, or learn one that another program has had.
Owners ==
  /\ \A c \in Conn : me[c] # NoId => me[c] \in Registry!RegisteredIds
  /\ \A c \in Conn, i \in Registry!Id : Claim(c, i) =>
       /\ i \in Registry!RegisteredIds
       /\ i # NoId => \A d \in Conn \ {c} : me[d] # i /\ ~Claim(d, i)

LiveInv ==
  /\ \A c \in Conn : OneClaim(c)
  /\ Owners
  /\ LiveIdsDistinct

\* What the claims of c depend on.
SameClaims(c) ==
  /\ stage'[c] = stage[c] /\ request'[c] = request[c] /\ client_id'[c] = client_id[c]
  /\ reply'[c] = reply[c] /\ inbox'[c] = inbox[c] /\ outbox'[c] = outbox[c]
  /\ peer'[c] = peer[c]

LEMMA SameClaimsKeep ==
  ASSUME posted \subseteq posted', NEW c \in Conn, SameClaims(c)
  PROVE  /\ \A i : Claim(c, i)' <=> Claim(c, i)
         /\ OneClaim(c) => OneClaim(c)'
<1>1. Answer \subseteq Answer'
  BY AnswersGrow
<1>2. \A i : Claim(c, i)' <=> Claim(c, i)
  BY DEF SameClaims, Claim, ByThread, ByAnswer
<1>. QED
  BY <1>1, <1>2 DEF OneClaim, SameClaims

\* A step in which nobody learns an identifier, and no registration is accepted.
LEMMA NoClaimKeeps ==
  ASSUME LiveInv, clients \subseteq clients', me' = me,
         \A d \in Conn : peer'[d] \in {"ready", "waiting"} => peer[d] \in {"ready", "waiting"},
         \A d \in Conn : OneClaim(d)',
         \A d \in Conn, i \in Registry!Id : Claim(d, i)' => Claim(d, i)
  PROVE  LiveInv'
<1>1. Registry!RegisteredIds \subseteq Registry!RegisteredIds'
  BY DEF Registry!RegisteredIds
<1>2. Owners'
  BY <1>1 DEF LiveInv, Owners
<1>3. LiveIdsDistinct'
  BY DEF LiveInv, LiveIdsDistinct
<1>. QED
  BY <1>2, <1>3 DEF LiveInv

\* The same for a step at connection c.
LEMMA NoClaimAt ==
  ASSUME LiveInv, Grows, me' = me, NEW c \in Conn,
         peer'[c] \in {"ready", "waiting"} => peer[c] \in {"ready", "waiting"},
         OneClaim(c)', \A i \in Registry!Id : Claim(c, i)' => Claim(c, i),
         \A d \in Conn \ {c} : SameClaims(d)
  PROVE  LiveInv'
<1>1. /\ \A d \in Conn : peer'[d] \in {"ready", "waiting"} => peer[d] \in {"ready", "waiting"}
      /\ \A d \in Conn : OneClaim(d)'
      /\ \A d \in Conn, i \in Registry!Id : Claim(d, i)' => Claim(d, i)
  BY SameClaimsKeep DEF LiveInv, SameClaims, Grows
<1>. QED
  BY <1>1, NoClaimKeeps DEF Grows

\* Before a connection has a thread, there is nothing to learn.
LEMMA EarlyNoClaim ==
  ASSUME Inv, NEW c \in Conn, stage[c] \in Idle
  PROVE  outbox[c] = <<>> /\ \A i : ~Claim(c, i)
BY DEF Inv, ConnOK, Early, Idle, Claim, ByThread, ByAnswer

\* A thread that does something else, or whose connection has more to come, has
\* registered nobody.
LEMMA NoClaim ==
  ASSUME Inv, LiveInv, NEW c \in Conn, NEW i \in Registry!Id, Claim(c, i)
  PROVE  /\ peer[c] = "waiting" /\ inbox[c] = <<>>
         /\ \/ outbox[c] = <<>> /\ ByThread(c, i)
            \/ /\ \E a \in Answer : outbox[c] = <<a>>
               /\ ByAnswer(c, i) /\ stage[c] \in Ends \cup {"recv"}
<1>1. OneClaim(c)
  BY DEF LiveInv
<1>. QED
  BY <1>1 DEF OneClaim, Claim, ByThread, ByAnswer, Ends

\* What others do, and what they are about to learn, stays.
LEMMA OthersClaims ==
  ASSUME Inv, NEW c \in Conn, MainThread(c) \/ Thread(c) \/ Program(c)
  PROVE  \A d \in Conn \ {c} : SameClaims(d) /\ me'[d] = me[d]
BY OthersSame DEF SameWork, Same, SameClaims

\* A connection is accepted, dropped or refused, or gets a thread for a client that is known.
LEMMA MainThreadLive ==
  ASSUME Inv, LiveInv, Grows, NEW c \in Conn, MainThread(c), ~FirstRegister(c)
  PROVE  LiveInv'
<1>1. /\ me' = me /\ peer' = peer /\ stage[c] \in Idle
      /\ \/ stage' = [stage EXCEPT ![c] = "accepted"]
         \/ stage' = [stage EXCEPT ![c] = "closed"]
         \/ stage' = [stage EXCEPT ![c] = "dead"]
         \/ /\ stage' = [stage EXCEPT ![c] = "start"]
            /\ \E q : q.type \in Serviceable /\ request' = [request EXCEPT ![c] = q]
      /\ outbox' = outbox \/ outbox' = [outbox EXCEPT ![c] = Append(@, Error)]
  BY DEF MainThread, Accept, FirstEof, FirstUndecodable, FirstLocked, FirstRefused,
         FirstRefusedRaises, FirstKnown, First, StartThread, Sent, wireVars, userVars, Idle
<1>2. outbox[c] = <<>>
  BY <1>1, EarlyNoClaim
<1>3. outbox'[c] = <<>> \/ outbox'[c] = <<Error>>
  <2>1. outbox'[c] = outbox[c] \/ outbox'[c] = Append(outbox[c], Error)
    BY <1>1 DEF Inv, WiresOK
  <2>. QED
    BY <1>2, <2>1
<1>4. \A i : ~ByThread(c, i)' /\ ~ByAnswer(c, i)'
  BY <1>1, <1>3 DEF ByThread, ByAnswer, Serviceable, Error, Inv, ThreadsOK
<1>5. OneClaim(c)' /\ \A i : ~Claim(c, i)'
  BY <1>4 DEF OneClaim, Claim
<1>. QED
  BY <1>1, <1>5, OthersClaims, NoClaimAt

\* A client is registered: its identifier is new, so that nobody has it.
LEMMA RegisterLive ==
  ASSUME Inv, Registry!TypeOK', LiveInv, Grows, NEW c \in Conn, FirstRegister(c)
  PROVE  LiveInv'
<1>1. PICK q, new :
        /\ inbox[c] # <<>> /\ q = Head(inbox[c]) /\ inbox' = [inbox EXCEPT ![c] = Tail(@)]
        /\ q.type = "register" /\ Registry!Register(q.name)
        /\ new = last_client_id'
        /\ client_id' = [client_id EXCEPT ![c] = new]
        /\ request' = [request EXCEPT ![c] = q] /\ stage' = [stage EXCEPT ![c] = "start"]
        /\ stage[c] = "accepted" /\ UNCHANGED <<outbox, me, peer>>
  BY DEF FirstRegister, First, StartThread, Registry!Register, Registry!AddClient, userVars
<1>2. /\ \A r \in clients : r.id # new
      /\ new \in Registry!RegisteredIds' /\ new \in Registry!Id
  <2>1. PICK row : /\ row.id = new /\ row.name = q.name
                   /\ clients' = {r \in clients : r.id # new} \cup {row}
    BY <1>1 DEF Registry!Register, Registry!AddClient
  <2>2. \A r \in clients : r.name # q.name
    BY <1>1 DEF Registry!Register, Registry!NameExists, Registry!RegisteredNames
  <2>. QED
    BY <1>1, <2>1, <2>2 DEF Grows, Registry!RegisteredIds, Registry!TypeOK
<1>3. new \notin Registry!RegisteredIds
  BY <1>2 DEF Registry!RegisteredIds
<1>4. /\ outbox[c] = <<>> /\ \A i : ~Claim(c, i)
      /\ peer[c] \in {"waiting", "gone"} /\ inbox'[c] = <<>>
  <2>1. Early(c) /\ inbox[c] \in Seq(Request) /\ stage[c] \in Idle
    BY <1>1 DEF Inv, ConnOK, WiresOK, Idle
  <2>2. inbox[c] # <<>> /\ 1 \in DOMAIN inbox[c] /\ q = inbox[c][1]
    BY <1>1, <2>1, TailOf
  <2>3. PICK r \in Request : inbox[c] = <<r>>
    BY <1>1, <2>1, <2>2 DEF Early
  <2>4. inbox'[c] = Tail(inbox[c])
    BY <1>1 DEF Inv, WiresOK
  <2>5. inbox'[c] = <<>>
    BY <2>3, <2>4
  <2>. QED
    BY <2>1, <2>2, <2>5, EarlyNoClaim DEF Early
<1>5. stage'[c] = "start" /\ client_id'[c] = new /\ outbox'[c] = <<>> /\ peer'[c] = peer[c]
  BY <1>1, <1>4 DEF Inv, ThreadsOK
<1>6. /\ OneClaim(c)' /\ \A i : Claim(c, i)' => i = new
  BY <1>4, <1>5 DEF OneClaim, Claim, ByThread, ByAnswer
<1>7. \A d \in Conn \ {c} : /\ SameClaims(d) /\ me'[d] = me[d]
                            /\ \A i : Claim(d, i)' <=> Claim(d, i)
                            /\ OneClaim(d)'
  BY OthersClaims, SameClaimsKeep DEF MainThread, LiveInv, Grows
<1>8. Registry!RegisteredIds \subseteq Registry!RegisteredIds'
  BY DEF Grows, Registry!RegisteredIds
<1>9. Owners'
  <2>1. \A d \in Conn : me'[d] # NoId => me'[d] \in Registry!RegisteredIds'
    BY <1>1, <1>8 DEF LiveInv, Owners
  <2>2. ASSUME NEW d \in Conn, NEW i \in Registry!Id, Claim(d, i)'
        PROVE  /\ i \in Registry!RegisteredIds'
               /\ i # NoId => \A e \in Conn \ {d} : me'[e] # i /\ ~Claim(e, i)'
    <3>1. CASE d = c
      <4>1. i = new
        BY <1>6, <2>2, <3>1
      <4>2. \A e \in Conn \ {c} : ~Claim(e, new)
        BY <1>2, <1>3 DEF LiveInv, Owners
      <4>3. new # NoId => \A e \in Conn : me[e] # new
        BY <1>3 DEF LiveInv, Owners
      <4>. QED
        BY <1>1, <1>2, <1>7, <3>1, <4>1, <4>2, <4>3
    <3>2. CASE d # c
      <4>1. Claim(d, i)
        BY <1>7, <2>2, <3>2
      <4>2. /\ i \in Registry!RegisteredIds
            /\ i # NoId => \A e \in Conn \ {d} : me[e] # i /\ ~Claim(e, i)
        BY <4>1 DEF LiveInv, Owners
      <4>3. i # new
        BY <1>3, <4>2
      <4>. QED
        BY <1>1, <1>6, <1>7, <1>8, <3>2, <4>2, <4>3
    <3>. QED
      BY <3>1, <3>2
  <2>. QED
    BY <2>1, <2>2 DEF Owners
<1>10. LiveIdsDistinct'
  BY <1>1 DEF LiveInv, LiveIdsDistinct
<1>. QED
  BY <1>6, <1>7, <1>9, <1>10 DEF LiveInv

\* The thread of a registration goes on to its answer; other threads register nobody.
LEMMA ThreadLive ==
  ASSUME Inv, LiveInv, Grows, NEW c \in Conn, Thread(c)
  PROVE  LiveInv'
<1>1. me' = me /\ peer' = peer
  BY DEF Thread, Start, AnswerRegister, AnswerList, AnswerKey, AnswerSend, AnswerGet, Take,
         TakeRaises, TakeEnds, ThreadLocked, Bad, Send, SendRaises, Recv, RecvEof, userVars
<1>2. SUFFICES OneClaim(c)' /\ \A i \in Registry!Id : Claim(c, i)' => Claim(c, i)
  BY <1>1, OthersClaims, NoClaimAt
<1>3. /\ stage \in [Conn -> Stages] /\ request \in [Conn -> Request]
      /\ reply \in [Conn -> Answer] /\ outbox \in [Conn -> Seq(Answer)]
  BY DEF Inv, ThreadsOK, WiresOK
<1>4. /\ OneClaim(c) /\ Answer \subseteq Answer'
      /\ \A i \in Registry!Id : Claim(c, i) =>
           /\ inbox[c] = <<>>
           /\ \/ outbox[c] = <<>> /\ ByThread(c, i)
              \/ ByAnswer(c, i) /\ stage[c] \in Ends \cup {"recv"}
  <2>1. OneClaim(c) /\ Answer \subseteq Answer'
    BY AnswersGrow DEF LiveInv, Grows
  <2>2. ASSUME NEW i \in Registry!Id, Claim(c, i)
        PROVE  /\ inbox[c] = <<>>
               /\ \/ outbox[c] = <<>> /\ ByThread(c, i)
                  \/ ByAnswer(c, i) /\ stage[c] \in Ends \cup {"recv"}
    BY <2>2, NoClaim
  <2>. QED
    BY <2>1, <2>2
<1>. HIDE DEF Inv
<1>5. CASE stage'[c] \in Ends
  <2>1. UNCHANGED <<inbox, outbox>> /\ stage[c] \in Listening
    <3>1. ASSUME \/ GoTo(c, "answer") \/ GoTo(c, "send") \/ GoTo(c, "take") \/ GoTo(c, "recv")
                 \/ GoTo(c, "bad") \/ (stage' = stage /\ stage[c] = "take")
          PROVE  FALSE
      BY <1>3, <1>5, <3>1 DEF GoTo, Ends
    <3>2. ~TakeEnds(c) /\ ~Bad(c) /\ ~Send(c) /\ ~Recv(c) /\ ~Take(c) /\ ~AnswerGet(c)
      <4>1. ~TakeEnds(c) /\ ~Bad(c) /\ ~Send(c) /\ ~AnswerGet(c)
        BY <3>1 DEF TakeEnds, Bad, Send, AnswerGet, Reply
      <4>2. ~Recv(c) /\ ~Take(c)
        BY <3>1 DEF Recv, Take, NextStage
      <4>. QED
        BY <4>1, <4>2
    <3>. QED
      BY <3>2 DEF Thread, Start, AnswerRegister, AnswerList, AnswerKey, AnswerSend,
             TakeRaises, ThreadLocked, SendRaises, RecvEof, Answering, wireVars, Listening
  <2>2. \A i \in Registry!Id : Claim(c, i)' => Claim(c, i)
    BY <1>1, <1>5, <2>1 DEF Claim, ByThread, ByAnswer, Ends
  <2>. QED
    BY <1>1, <1>4, <1>5, <2>1, <2>2 DEF OneClaim
<1>6. CASE Start(c) /\ stage'[c] \notin Ends
  <2>1. stage[c] = "start" /\ stage'[c] = "answer"
        /\ UNCHANGED <<client_id, request, inbox, outbox>>
    BY <1>3, <1>6 DEF Start, GoTo, Ends, threadVars, wireVars
  <2>2. \A i \in Registry!Id : Claim(c, i)' => Claim(c, i)
    BY <1>1, <2>1 DEF Claim, ByThread, ByAnswer
  <2>3. OneClaim(c)'
    BY <1>1, <1>4, <2>1, <2>2 DEF OneClaim, Ends
  <2>. QED
    BY <2>2, <2>3
<1>7. CASE AnswerRegister(c)
  <2>1. /\ stage[c] = "answer" /\ request[c].type = "register" /\ stage'[c] = "send"
        /\ reply'[c].id = client_id[c] /\ UNCHANGED <<client_id, request, inbox, outbox>>
    BY <1>3, <1>7 DEF AnswerRegister, Answering, Reply, GoTo, wireVars
  <2>2. \A i \in Registry!Id : Claim(c, i)' => Claim(c, i)
    BY <1>1, <2>1 DEF Claim, ByThread, ByAnswer
  <2>3. OneClaim(c)'
    BY <1>1, <1>4, <2>1, <2>2 DEF OneClaim, Ends
  <2>. QED
    BY <2>2, <2>3
<1>8. CASE Send(c)
  <2>1. /\ stage[c] = "send" /\ stage'[c] = "recv"
        /\ UNCHANGED <<request, client_id, reply, inbox>>
        /\ peer[c] # "gone" => outbox'[c] = Append(outbox[c], reply[c])
    BY <1>3, <1>8 DEF Send, Sent, GoTo, threadVars
  <2>2. ASSUME NEW i \in Registry!Id, Claim(c, i)'
        PROVE  Claim(c, i) /\ outbox'[c] = <<reply[c]>>
    <3>1. peer[c] # "gone" /\ ByAnswer(c, i)'
      BY <1>1, <2>1, <2>2 DEF Claim, ByThread
    <3>2. PICK k \in DOMAIN outbox'[c] : outbox'[c][k].code = "registered"
                                         /\ i = outbox'[c][k].id
      BY <3>1 DEF ByAnswer
    <3>3. outbox'[c][k] = reply[c] \/ (k \in DOMAIN outbox[c] /\ outbox'[c][k] = outbox[c][k])
      <4>1. outbox[c] \in Seq(Answer) /\ k \in DOMAIN Append(outbox[c], reply[c])
        BY <1>3, <2>1, <3>1, <3>2
      <4>. HIDE DEF Answer
      <4>. QED
        BY <2>1, <3>1, <4>1
    <3>4. Claim(c, i)
      BY <2>1, <3>1, <3>2, <3>3 DEF Claim, ByThread, ByAnswer
    <3>5. outbox[c] = <<>>
      BY <1>4, <2>1, <3>4 DEF Ends
    <3>. QED
      BY <2>1, <3>1, <3>4, <3>5
  <2>3. OneClaim(c)'
    BY <1>1, <1>3, <1>4, <2>1, <2>2 DEF OneClaim
  <2>. QED
    BY <2>2, <2>3
<1>9. CASE /\ stage'[c] \notin Ends
           /\ \/ AnswerList(c) \/ AnswerKey(c) \/ AnswerSend(c) \/ AnswerGet(c) \/ Take(c)
              \/ TakeEnds(c) \/ Bad(c) \/ Recv(c)
  <2>1. outbox' = outbox
    BY <1>9
       DEF AnswerList, AnswerKey, AnswerSend, AnswerGet, Take, TakeEnds, Bad, Recv, wireVars
  <2>2. /\ stage[c] \in {"answer", "take", "bad", "recv"}
        /\ stage[c] = "answer" => request[c].type # "register"
        /\ stage[c] = "recv" => inbox[c] # <<>>
    BY <1>9
       DEF AnswerList, AnswerKey, AnswerSend, AnswerGet, Take, TakeEnds, Bad, Recv, Answering
  <2>3. \A i \in Registry!Id : ~Claim(c, i)
    BY <1>4, <2>2 DEF ByThread, Ends
  <2>4. \A i : ~ByThread(c, i)'
    <3>1. CASE Recv(c)
      BY <1>3, <3>1 DEF Recv, GoTo, NextStage, ByThread, Serviceable
    <3>2. CASE Take(c)
      BY <1>3, <3>2 DEF Take, ByThread
    <3>3. CASE TakeEnds(c)
      <4>1. reply[c].code = "messages"
        BY <3>3 DEF TakeEnds, Inv, ConnOK, Served, Listening
      <4>. QED
        BY <1>3, <3>3, <4>1 DEF TakeEnds, GoTo, threadVars, ByThread
    <3>4. CASE AnswerList(c) \/ AnswerKey(c) \/ AnswerSend(c) \/ AnswerGet(c) \/ Bad(c)
      BY <1>3, <1>9, <3>4 DEF AnswerList, AnswerKey, AnswerSend, AnswerGet, Bad, Reply, GoTo,
                              ByThread, Error, Ends
    <3>. QED
      BY <1>9, <3>1, <3>2, <3>3, <3>4
  <2>5. \A i \in Registry!Id : ~Claim(c, i)'
    BY <1>1, <2>1, <2>3, <2>4 DEF Claim, ByAnswer
  <2>. QED
    BY <2>5 DEF OneClaim
<1>10. CASE /\ stage'[c] \notin Ends
            /\ TakeRaises(c) \/ ThreadLocked(c) \/ SendRaises(c) \/ RecvEof(c)
  BY <1>3, <1>10 DEF TakeRaises, ThreadLocked, SendRaises, RecvEof, GoTo, Ends
<1>. QED
  BY <1>5, <1>6, <1>7, <1>8, <1>9, <1>10 DEF Thread

\* A program starts, with the identifier of one that is gone: no other program that runs
\* has it, or is about to learn it.
LEMMA ConnectLive ==
  ASSUME Inv, LiveInv, NEW c \in Conn, Connect(c)
  PROVE  LiveInv'
<1>1. /\ clients' = clients /\ posted' = posted /\ UNCHANGED <<outbox, inbox>>
      /\ peer[c] = "off" /\ peer' = [peer EXCEPT ![c] = "ready"]
      /\ stage'[c] = "backlog" /\ stage[c] \in Idle
  BY DEF Connect, registryVars, storeVars, wireVars, Inv, ConnOK, Idle, ThreadsOK
<1>2. PICK id : /\ me' = [me EXCEPT ![c] = id]
                /\ id = NoId \/ \E e \in Conn : peer[e] = "gone" /\ id = me[e]
                /\ id = NoId \/ \A d \in Conn : peer[d] \in {"ready", "waiting"} => me[d] # id
  <2>1. PICK id \in {NoId} \cup {me[d] : d \in {d \in Conn : peer[d] = "gone"}} :
          /\ id = NoId \/ \A d \in Conn : peer[d] \in {"ready", "waiting"} => me[d] # id
          /\ me' = [me EXCEPT ![c] = id]
    BY DEF Connect
  <2>2. id = NoId \/ \E e \in Conn : peer[e] = "gone" /\ id = me[e]
    OBVIOUS
  <2>. QED
    BY <2>1, <2>2
<1>3. OneClaim(c)' /\ \A i : ~Claim(c, i)'
  BY <1>1, EarlyNoClaim DEF OneClaim, Claim, ByThread, ByAnswer
<1>4. \A d \in Conn \ {c} : /\ SameClaims(d) /\ me'[d] = me[d]
                            /\ \A i : Claim(d, i)' <=> Claim(d, i)
                            /\ OneClaim(d)'
  BY <1>1, OthersClaims, SameClaimsKeep DEF Program, LiveInv
<1>5. Registry!RegisteredIds' = Registry!RegisteredIds
  BY <1>1 DEF Registry!RegisteredIds
<1>6. /\ me'[c] = id /\ peer'[c] = "ready"
      /\ \A d \in Conn \ {c} : me'[d] = me[d] /\ peer'[d] = peer[d]
  BY <1>1, <1>2 DEF Inv, UsersOK
<1>7. Owners'
  <2>1. \A d \in Conn : me'[d] # NoId => me'[d] \in Registry!RegisteredIds'
    BY <1>2, <1>5, <1>6 DEF LiveInv, Owners
  <2>2. ASSUME NEW d \in Conn, NEW i \in Registry!Id, Claim(d, i)'
        PROVE  /\ i \in Registry!RegisteredIds'
               /\ i # NoId => \A e \in Conn \ {d} : me'[e] # i /\ ~Claim(e, i)'
    <3>1. d # c /\ Claim(d, i)
      BY <1>3, <1>4, <2>2
    <3>2. /\ i \in Registry!RegisteredIds
          /\ i # NoId => \A e \in Conn \ {d} : me[e] # i /\ ~Claim(e, i)
      BY <3>1 DEF LiveInv, Owners
    <3>3. peer[d] # "gone"
      BY <3>1 DEF Claim
    <3>4. i # NoId => id # i
      BY <1>2, <3>2, <3>3
    <3>. QED
      BY <1>3, <1>4, <1>5, <1>6, <3>2, <3>4
  <2>. QED
    BY <2>1, <2>2 DEF Owners
<1>8. LiveIdsDistinct'
  BY <1>2, <1>6 DEF LiveInv, LiveIdsDistinct
<1>. QED
  BY <1>3, <1>4, <1>7, <1>8 DEF LiveInv

\* A program reads an answer: if it learns an identifier by it, only it was about to.
LEMMA ReadAnswerLive ==
  ASSUME Inv, LiveInv, NEW c \in Conn, ReadAnswer(c)
  PROVE  LiveInv'
<1>. DEFINE answer == Head(outbox[c])
<1>1. /\ clients' = clients /\ posted' = posted /\ stage' = stage
      /\ UNCHANGED <<request, client_id, reply, inbox>>
      /\ peer[c] = "waiting" /\ peer' = [peer EXCEPT ![c] = "ready"]
      /\ outbox[c] # <<>> /\ outbox' = [outbox EXCEPT ![c] = Tail(@)]
      /\ me' = IF answer.code = "registered" THEN [me EXCEPT ![c] = answer.id] ELSE me
  BY DEF ReadAnswer, registryVars, storeVars, threadVars
<1>2. /\ outbox[c] \in Seq(Answer) /\ outbox'[c] = Tail(outbox[c]) /\ peer'[c] = "ready"
      /\ \A d \in Conn \ {c} : peer'[d] = peer[d]
  BY <1>1 DEF Inv, WiresOK, UsersOK
<1>3. /\ answer \in Answer /\ 1 \in DOMAIN outbox[c] /\ answer = outbox[c][1]
      /\ \A k \in DOMAIN outbox'[c] : k + 1 \in DOMAIN outbox[c]
                                      /\ outbox'[c][k] = outbox[c][k + 1]
  <2>1. outbox[c] \in Seq(Answer) /\ outbox[c] # <<>> /\ outbox'[c] = Tail(outbox[c])
    BY <1>1, <1>2
  <2>. HIDE DEF Answer
  <2>2. /\ answer \in Answer /\ 1 \in DOMAIN outbox[c] /\ answer = outbox[c][1]
        /\ \A k \in DOMAIN Tail(outbox[c]) : k + 1 \in DOMAIN outbox[c]
                                      /\ Tail(outbox[c])[k] = outbox[c][k + 1]
    BY <2>1, TailOf
  <2>. QED
    BY <2>1, <2>2
<1>. HIDE DEF answer
<1>4. OneClaim(c)' /\ \A i \in Registry!Id : ~Claim(c, i)'
  <2>. SUFFICES ASSUME NEW i \in Registry!Id, Claim(c, i)' PROVE FALSE
    BY DEF OneClaim
  <2>1. Claim(c, i)
    BY <1>1, <1>2, <1>3 DEF Claim, ByThread, ByAnswer
  <2>2. (\E a \in Answer : outbox[c] = <<a>>) /\ stage[c] \in Ends \cup {"recv"}
    BY <1>1, <2>1, NoClaim
  <2>3. outbox'[c] = <<>>
    BY <1>2, <2>2
  <2>. QED
    BY <1>1, <2>2, <2>3 DEF Claim, ByThread, ByAnswer, Ends
<1>5. \A d \in Conn \ {c} : /\ SameClaims(d) /\ me'[d] = me[d]
                            /\ \A i : Claim(d, i)' <=> Claim(d, i)
                            /\ OneClaim(d)'
  BY <1>1, OthersClaims, SameClaimsKeep DEF Program, LiveInv
<1>6. Registry!RegisteredIds' = Registry!RegisteredIds
  BY <1>1 DEF Registry!RegisteredIds
<1>7. CASE answer.code # "registered"
  <2>1. me' = me
    BY <1>1, <1>7
  <2>. QED
    BY <1>1, <1>2, <1>4, <1>5, <2>1, NoClaimAt DEF Grows
<1>8. CASE answer.code = "registered"
  <2>. DEFINE new == answer.id
  <2>1. new \in Registry!Id
    BY <1>3, <1>8 DEF Answer, Error
  <2>2. me'[c] = new
    BY <1>1, <1>8 DEF Inv, UsersOK
  <2>3. Claim(c, new)
    BY <1>1, <1>3, <1>8 DEF Claim, ByAnswer
  <2>. HIDE DEF new
  <2>4. /\ new \in Registry!RegisteredIds
        /\ new # NoId => \A d \in Conn \ {c} : me[d] # new /\ ~Claim(d, new)
    BY <2>1, <2>3 DEF LiveInv, Owners
  <2>5. Owners'
    <3>1. \A d \in Conn : me'[d] # NoId => me'[d] \in Registry!RegisteredIds'
      BY <1>5, <1>6, <2>2, <2>4 DEF LiveInv, Owners
    <3>2. ASSUME NEW d \in Conn, NEW i \in Registry!Id, Claim(d, i)'
          PROVE  /\ i \in Registry!RegisteredIds'
                 /\ i # NoId => \A e \in Conn \ {d} : me'[e] # i /\ ~Claim(e, i)'
      <4>1. d # c /\ Claim(d, i)
        BY <1>4, <1>5, <3>2
      <4>2. /\ i \in Registry!RegisteredIds
            /\ i # NoId => \A e \in Conn \ {d} : me[e] # i /\ ~Claim(e, i)
        BY <4>1 DEF LiveInv, Owners
      <4>. QED
        BY <1>4, <1>5, <1>6, <2>2, <2>4, <4>1, <4>2
    <3>. QED
      BY <3>1, <3>2 DEF Owners
  <2>6. LiveIdsDistinct'
    BY <1>1, <1>2, <1>5, <2>2, <2>4 DEF LiveInv, LiveIdsDistinct
  <2>. QED
    BY <1>4, <1>5, <2>5, <2>6 DEF LiveInv
<1>. QED
  BY <1>7, <1>8

\* The other steps of a program.
LEMMA ProgramLive ==
  ASSUME Inv, LiveInv, NEW c \in Conn, Program(c)
  PROVE  LiveInv'
<1>1. CASE Ask(c)
  <2>1. /\ me' = me /\ UNCHANGED <<clients, posted, stage, request, client_id, reply, outbox>>
        /\ peer[c] = "ready" /\ peer'[c] = "waiting"
    BY <1>1 DEF Ask, registryVars, storeVars, threadVars, Inv, UsersOK
  <2>2. \A i \in Registry!Id : ~Claim(c, i)'
    <3>1. \A i \in Registry!Id : ~Claim(c, i)
      BY <2>1, NoClaim
    <3>. QED
      BY <2>1, <3>1 DEF Claim, ByThread, ByAnswer
  <2>3. OneClaim(c)'
    BY <2>2 DEF OneClaim
  <2>. QED
    BY <2>1, <2>2, <2>3, OthersClaims, NoClaimAt DEF Program, Grows
<1>2. CASE ReadEof(c) \/ Quit(c)
  <2>1. /\ me' = me /\ UNCHANGED <<clients, posted>>
        /\ peer'[c] = "gone"
    BY <1>2 DEF ReadEof, Quit, registryVars, storeVars, Inv, UsersOK
  <2>2. OneClaim(c)' /\ \A i \in Registry!Id : ~Claim(c, i)'
    BY <2>1 DEF Claim, OneClaim
  <2>. QED
    BY <2>1, <2>2, OthersClaims, NoClaimAt DEF Program, Grows
<1>. QED
  BY <1>1, <1>2, ConnectLive, ReadAnswerLive DEF Program

\* When the server ends, nobody learns an identifier that is not on its way.
LEMMA CloseLive ==
  ASSUME Inv, LiveInv, Restart \/ ProcessEnds
  PROVE  LiveInv'
<1>1. /\ UNCHANGED <<posted, clients, client_id, request, reply, inbox, peer, me>>
      /\ stage' = [c \in Conn |-> IF stage[c] = "none" THEN "none" ELSE "closed"]
      /\ outbox' \in {outbox, [c \in Conn |-> <<>>]}
  BY DEF Restart, ProcessEnds, Registry!Reload, Store!Drop, registryVars, storeVars,
         threadVars, wireVars, userVars
<1>2. ASSUME NEW c \in Conn
      PROVE  OneClaim(c)' /\ \A i \in Registry!Id : Claim(c, i)' => Claim(c, i)
  <2>1. outbox'[c] \in {outbox[c], <<>>} /\ stage'[c] \in {"none", "closed"}
        /\ (stage'[c] = "none" => stage[c] = "none")
    BY <1>1
  <2>2. \A i \in Registry!Id : Claim(c, i)' => Claim(c, i)
    BY <1>1, <2>1 DEF Claim, ByThread, ByAnswer
  <2>3. \A i \in Registry!Id : Claim(c, i) => stage[c] # "none"
    BY EarlyNoClaim DEF Idle
  <2>4. OneClaim(c) /\ Answer \subseteq Answer'
    BY <1>1, AnswersGrow DEF LiveInv
  <2>5. OneClaim(c)'
    BY <1>1, <2>1, <2>2, <2>3, <2>4 DEF OneClaim, Ends
  <2>. QED
    BY <2>2, <2>5
<1>. QED
  BY <1>1, <1>2, NoClaimKeeps

\* While this holds no identifier was used twice: ClientRegistryProofs.
IdsFresh == restarts = 0 \/ Cardinality(clients) < Base

\* Every step of the server keeps the rows of clients, and was taken after such steps only,
\* as long as identifiers are new.
LEMMA FreshStep ==
  ASSUME RegistryTheory!RegistryInv, [Next]_vars, IdsFresh'
  PROVE  IdsFresh /\ clients \subseteq clients'
<1>1. [RegistryTheory!Next]_(RegistryTheory!registryVars)
  BY RegistryStep, RegistryIsTheory
<1>2. /\ IdsFresh <=> RegistryTheory!IdsFresh
      /\ IdsFresh' <=> RegistryTheory!IdsFresh'
  BY DEF IdsFresh, RegistryTheory!IdsFresh, Cardinality, RegistryTheory!Cardinality
<1>3. RegistryTheory!IdsFresh /\ RegistryTheory!RowsKept
  BY <1>1, <1>2, RegistryTheory!FreshBefore
<1>. QED
  BY <1>2, <1>3 DEF RegistryTheory!RowsKept

\* Messages that were posted stay posted.
LEMMA PostedGrows == [Store!Next]_(Store!storeVars) => posted \subseteq posted'
BY DEF Store!Next, Store!storeVars, Store!Sync, Store!SyncFails, Store!Drop, Store!AddMessage,
       Store!AddMessageFails, Store!GetMessages, Store!DeleteMessage, Store!Stop

\* Every step in which the tables lose no client keeps programs and server in step, and
\* identifiers apart.
LEMMA NextInStep ==
  ASSUME Inv, Registry!TypeOK, Registry!TypeOK', AllInStep, LiveInv,
         clients \subseteq clients', [Next]_vars
  PROVE  AllInStep' /\ LiveInv'
<1>1. Grows
  BY StoreStep, PostedGrows DEF Grows
<1>2. CASE UNCHANGED vars
  <2>1. \A c \in Conn : SameWork(c) /\ SameClaims(c)
    BY <1>2 DEF vars, storeVars, threadVars, wireVars, userVars, SameWork, Same, SameClaims
  <2>2. AllInStep'
    BY <1>1, <2>1, SameInStep DEF AllInStep
  <2>3. me' = me /\ peer' = peer
    BY <1>2 DEF vars, userVars
  <2>4. LiveInv'
    BY <1>1, <2>1, <2>3, SameClaimsKeep, NoClaimKeeps DEF LiveInv, Grows
  <2>. QED
    BY <2>2, <2>4
<1>3. CASE Restart \/ ProcessEnds
  BY <1>3, CloseInStep, CloseLive
<1>4. ASSUME NEW c \in Conn, MainThread(c) PROVE AllInStep' /\ LiveInv'
  <2>1. AllInStep'
    BY <1>1, <1>4, MainThreadInStep, FirstInStep DEF MainThread
  <2>2. LiveInv'
    BY <1>1, <1>4, MainThreadLive, RegisterLive
  <2>. QED
    BY <2>1, <2>2
<1>5. ASSUME NEW c \in Conn, Thread(c) PROVE AllInStep' /\ LiveInv'
  BY <1>1, <1>5, ThreadInStep, ThreadLive
<1>6. ASSUME NEW c \in Conn, Program(c) PROVE AllInStep' /\ LiveInv'
  BY <1>6, ProgramInStep, ProgramLive
<1>. QED
  BY <1>2, <1>3, <1>4, <1>5, <1>6 DEF Next

\* Initially no connection is started.
LEMMA InitInStep == Init => AllInStep /\ LiveInv
<1>. SUFFICES ASSUME Init PROVE AllInStep /\ LiveInv
  OBVIOUS
<1>1. AllInStep
  BY DEF Init, AllInStep, InStep
<1>2. \A c \in Conn, i \in Registry!Id : ~Claim(c, i)
  BY DEF Init, Claim, ByThread, ByAnswer
<1>3. LiveInv
  BY <1>2 DEF Init, LiveInv, OneClaim, Owners, LiveIdsDistinct
<1>. QED
  BY <1>1, <1>3

\* What is proved of the registry's tables holds in the server.
LEMMA ServerRegistryInvariant == Spec => []RegistryTheory!RegistryInv
<1>1. RegistryTheory!Spec => []RegistryTheory!RegistryInv
  BY RegistryTheory!RegistryInvariant
<1>. QED
  BY <1>1, RegistryImplemented, RegistryIsTheory, PTL DEF Registry!Spec, RegistryTheory!Spec

\* Programs and server are in step, and identifiers apart, while identifiers are new.
LEMMA InStepInvariant == Spec => [](IdsFresh => AllInStep /\ LiveInv)
<1>1. /\ Inv /\ Registry!TypeOK /\ Registry!TypeOK' /\ RegistryTheory!RegistryInv
      /\ (IdsFresh => AllInStep /\ LiveInv) /\ [Next]_vars
      => (IdsFresh => AllInStep /\ LiveInv)'
  BY FreshStep, NextInStep
<1>2. Init => (IdsFresh => AllInStep /\ LiveInv)
  BY InitInStep
<1>. QED
  BY <1>1, <1>2, ServerRegistryInvariant, ServerInvariant, ServerOneRowPerClient, PTL
     DEF Spec

\* The answer that a waiting program will read is for the request it asked, and says what
\* the tables say, although the program does not check it: until registrations after a
\* restart may replace the row of a client, at the Base-th.
THEOREM AnswersMatchAlways == Spec => [](IdsFresh => AnswersMatch)
BY InStepInvariant, InStepAnswers, PTL

\* Programs that run at the same time have different identifiers, registrations that are
\* under way, lost answers and restarts included: under the same condition.
THEOREM LiveIdsDistinctAlways == Spec => [](IdsFresh => LiveIdsDistinct)
<1>1. LiveInv => LiveIdsDistinct
  BY DEF LiveInv
<1>. QED
  BY <1>1, InStepInvariant, PTL

\* With fewer names than a digit has values the condition holds for ever.
LEMMA FewNamesFresh ==
  ASSUME IsFiniteSet(Name), Cardinality(Name) < Base, RegistryTheory!RegistryInv
  PROVE  IdsFresh
<1>1. RegistryTheory!IdsFresh
  BY RegistryTheory!FewNamesFresh
     DEF IsFiniteSet, RegistryTheory!IsFiniteSet, Cardinality, RegistryTheory!Cardinality
<1>. QED
  BY <1>1 DEF IdsFresh, RegistryTheory!IdsFresh, Cardinality, RegistryTheory!Cardinality

\* Both without the condition, for any number of restarts, when fewer names than a digit
\* has values, 16 in the code, ever register.
THEOREM FewNamesNeverMixed ==
  ASSUME IsFiniteSet(Name), Cardinality(Name) < Base
  PROVE  Spec => [](AnswersMatch /\ LiveIdsDistinct)
<1>1. RegistryTheory!RegistryInv => IdsFresh
  BY FewNamesFresh
<1>. QED
  BY <1>1, ServerRegistryInvariant, AnswersMatchAlways, LiveIdsDistinctAlways, PTL

-----------------------------------------------------------------------------
(* Streams: what they are. *)

\* Of one sender, m was stored before n.
Precedes(m, n) == m.by = n.by => m.uid < n.uid
Before(M, N)   == \A m \in M, n \in N : Precedes(m, n)

Elements(s)     == {s[i] : i \in DOMAIN s}
SortedRows(s)   == \A i, j \in DOMAIN s : i < j => Precedes(s[i], s[j])
SortedAnswer(a) == a.code = "messages" => SortedRows(a.rows)

\* A stream: rows that were read, answers under way, and an answer that is being made.
InOrder(rec, out, hand) ==
  /\ SortedRows(rec)
  /\ \A i \in DOMAIN out :
       /\ SortedAnswer(out[i])
       /\ Before(Elements(rec), Rows(out[i]))
       /\ \A j \in DOMAIN out : i < j => Before(Rows(out[i]), Rows(out[j]))
       /\ Before(Rows(out[i]), Rows(hand))
  /\ SortedAnswer(hand) /\ Before(Elements(rec), Rows(hand))

AtHand(out, hand) == (UNION {Rows(out[i]) : i \in DOMAIN out}) \cup Rows(hand)

\* The answer that the thread of c makes.
Hand(c) == IF stage[c] \in {"take", "send"} THEN reply[c] ELSE Error

Had(c) == Elements(received[c]) \cup AtHand(outbox[c], Hand(c))

\* What a connection had is mail of one mailbox, and what is in it now came later.
BoxOrder(c) ==
  \A m \in Had(c) : /\ m.to = client_id[c]
                    /\ \A n \in messages : n.to = m.to => Precedes(m, n)

\* The rows that the thread has read and not deleted come next.
BatchOrder(c) ==
  \A m \in batch[c] : /\ m.to = client_id[c]
                      /\ \A n \in Had(c) : Precedes(n, m)
                      /\ \A n \in messages : n.to = m.to => n \in batch[c] \/ Precedes(m, n)

Order(c) ==
  /\ InOrder(received[c], outbox[c], Hand(c))
  /\ stage[c] \in Listening => BoxOrder(c)
  /\ stage[c] = "take" => BatchOrder(c)

Ordered == \A c \in Conn : Order(c)

\* What is known of the tables.
Tables == StoreTheory!StoreInv /\ Inv

\* Nothing is added to the stream of a connection, and what leaves it is lost with
\* the connection.
Quiet(c) ==
  /\ received'[c] = received[c]
  /\ \/ outbox'[c] = outbox[c]
     \/ \E a : Rows(a) = {} /\ outbox'[c] = Append(outbox[c], a)
     \/ outbox'[c] = <<>> /\ Broken(c)'
  /\ \/ Hand(c)' = Hand(c)
     \/ Rows(Hand(c)') = {} /\ (Broken(c)' \/ Rows(Hand(c)) = {})
  /\ Broken(c) => Broken(c)'
  /\ stage'[c] \in Listening => \/ stage[c] \in Listening /\ client_id'[c] = client_id[c]
                                \/ Had(c) = {}

\* The table loses rows, or gets a new one.
Grow == \A n \in messages' : n \in messages \/ n.uid = nextUid

-----------------------------------------------------------------------------
(* Streams. *)

\* Where the rows of a stream are.
LEMMA AtHandParts ==
  ASSUME NEW out, NEW hand, NEW m
  PROVE  m \in AtHand(out, hand) <=> \/ \E i \in DOMAIN out : m \in Rows(out[i])
                                     \/ m \in Rows(hand)
<1>. DEFINE U == UNION {Rows(out[i]) : i \in DOMAIN out}
<1>1. m \in U <=> \E i \in DOMAIN out : m \in Rows(out[i])
  OBVIOUS
<1>2. AtHand(out, hand) = U \cup Rows(hand)
  BY DEF AtHand
<1>. HIDE DEF U
<1>. QED
  BY <1>1, <1>2

\* An answer without rows is in order.
LEMMA NoRows ==
  ASSUME NEW a, Rows(a) = {}
  PROVE  SortedAnswer(a)
BY DEF Rows, SortedAnswer, SortedRows

\* An error brings no messages.
LEMMA ErrorRows == Rows(Error) = {}
BY DEF Rows, Error

\* One more element.
LEMMA AppendParts ==
  ASSUME NEW S, NEW s \in Seq(S), NEW e
  PROVE  /\ \A i \in DOMAIN s : /\ i \in DOMAIN Append(s, e) /\ Append(s, e)[i] = s[i]
                                /\ i < Len(s) + 1
         /\ Len(s) + 1 \in DOMAIN Append(s, e) /\ Append(s, e)[Len(s) + 1] = e
         /\ \A i \in DOMAIN Append(s, e) : i \in DOMAIN s \/ i = Len(s) + 1
         /\ ~(Len(s) + 1 < Len(s) + 1)
         /\ \A i \in DOMAIN s : ~(Len(s) + 1 < i)
<1>1. s \in Seq(S \cup {e}) /\ e \in S \cup {e}
  OBVIOUS
<1>2. PICK T : s \in Seq(T) /\ e \in T
  BY <1>1
<1>. QED
  BY <1>2, SMTT(30)

\* An answer without rows is added.
LEMMA AddRowless ==
  ASSUME NEW S, NEW rec, NEW out \in Seq(S), NEW hand, NEW a, Rows(a) = {},
         InOrder(rec, out, hand)
  PROVE  /\ InOrder(rec, Append(out, a), hand)
         /\ AtHand(Append(out, a), hand) = AtHand(out, hand)
<1>. DEFINE new == Append(out, a)
<1>1. /\ \A i \in DOMAIN out : i \in DOMAIN new /\ new[i] = out[i]
      /\ \A i \in DOMAIN new : (i \in DOMAIN out /\ new[i] = out[i]) \/ new[i] = a
  BY AppendParts
<1>2. SortedAnswer(a)
  BY NoRows
<1>. HIDE DEF new
<1>3. InOrder(rec, new, hand)
  BY <1>1, <1>2 DEF InOrder, Before
<1>4. \A m : m \in AtHand(new, hand) <=> m \in AtHand(out, hand)
  BY <1>1, AtHandParts
<1>. QED
  BY <1>3, <1>4 DEF new

\* The answer at hand is sent.
LEMMA AddHand ==
  ASSUME NEW S, NEW rec, NEW out \in Seq(S), NEW hand, InOrder(rec, out, hand)
  PROVE  /\ InOrder(rec, Append(out, hand), Error)
         /\ AtHand(Append(out, hand), Error) = AtHand(out, hand)
<1>. DEFINE new == Append(out, hand)  n == Len(out) + 1
<1>1. /\ \A i \in DOMAIN out : i \in DOMAIN new /\ new[i] = out[i] /\ i < n /\ ~(n < i)
      /\ n \in DOMAIN new /\ new[n] = hand /\ ~(n < n)
      /\ \A i \in DOMAIN new : i \in DOMAIN out \/ i = n
  BY AppendParts
<1>2. Rows(Error) = {} /\ SortedAnswer(Error)
  BY ErrorRows, NoRows
<1>. HIDE DEF new, n
<1>3. InOrder(rec, new, Error)
  BY <1>1, <1>2 DEF InOrder, Before
<1>4. \A m : m \in AtHand(new, Error) <=> m \in AtHand(out, hand)
  BY <1>1, <1>2, AtHandParts
<1>. QED
  BY <1>3, <1>4 DEF new

\* What is at hand, or under way, is lost.
LEMMA Lose ==
  ASSUME NEW rec, NEW out, NEW hand, NEW a, Rows(a) = {}, InOrder(rec, out, hand)
  PROVE  /\ InOrder(rec, out, a) /\ AtHand(out, a) \subseteq AtHand(out, hand)
         /\ InOrder(rec, <<>>, hand) /\ AtHand(<<>>, hand) \subseteq AtHand(out, hand)
<1>1. SortedAnswer(a)
  BY NoRows
<1>2. InOrder(rec, out, a)
  BY <1>1 DEF InOrder, Before
<1>3. InOrder(rec, <<>>, hand)
  BY DEF InOrder
<1>4. /\ \A m : m \in AtHand(out, a) => m \in AtHand(out, hand)
      /\ \A m : m \in AtHand(<<>>, hand) => m \in AtHand(out, hand)
  BY AtHandParts
<1>. QED
  BY <1>2, <1>3, <1>4

\* A row that comes after all others is put into the answer at hand.
RowAdded(rec, out, hand, new, row) ==
  /\ InOrder(rec, out, hand)
  /\ \A m \in Elements(rec) \cup AtHand(out, hand) : Precedes(m, row)
  /\ hand.code = "messages" /\ new.code = "messages"
  /\ \E S : hand.rows \in Seq(S) /\ new.rows = Append(hand.rows, row)

\* Such a row keeps the stream in order, and is at hand with the others.
LEMMA AddRow ==
  ASSUME NEW rec, NEW out, NEW hand, NEW new, NEW row, RowAdded(rec, out, hand, new, row)
  PROVE  InOrder(rec, out, new) /\ AtHand(out, new) = AtHand(out, hand) \cup {row}
<1>0. PICK S, rows :
        /\ rows \in Seq(S) /\ hand.rows = rows /\ new.rows = Append(rows, row)
        /\ hand.code = "messages" /\ new.code = "messages" /\ InOrder(rec, out, hand)
        /\ \A m \in Elements(rec) \cup AtHand(out, hand) : Precedes(m, row)
  BY DEF RowAdded
<1>. DEFINE more == Append(rows, row)  n == Len(rows) + 1
<1>1. /\ \A i \in DOMAIN rows : i \in DOMAIN more /\ more[i] = rows[i] /\ i < n /\ ~(n < i)
      /\ n \in DOMAIN more /\ more[n] = row /\ ~(n < n)
      /\ \A i \in DOMAIN more : i \in DOMAIN rows \/ i = n
  BY <1>0, AppendParts
<1>. HIDE DEF more, n
<1>2. Rows(hand) = Elements(rows) /\ Rows(new) = Elements(more) /\ new.rows = more
  BY <1>0 DEF Rows, Elements, more
<1>3. Elements(more) = Elements(rows) \cup {row}
  BY <1>1 DEF Elements
<1>4. \A i \in DOMAIN rows : Precedes(rows[i], row)
  BY <1>0, <1>2, AtHandParts DEF Elements
<1>5. SortedAnswer(new)
  BY <1>0, <1>1, <1>2, <1>4 DEF InOrder, SortedAnswer, SortedRows
<1>6. /\ Before(Elements(rec), Rows(new))
      /\ \A i \in DOMAIN out : Before(Rows(out[i]), Rows(new))
  BY <1>0, <1>2, <1>3, AtHandParts DEF InOrder, Before
<1>7. InOrder(rec, out, new)
  BY <1>0, <1>5, <1>6 DEF InOrder
<1>8. \A m : m \in AtHand(out, new) <=> m \in AtHand(out, hand) \/ m = row
  BY <1>2, <1>3, AtHandParts
<1>. QED
  BY <1>7, <1>8

\* The program reads an answer: its rows follow those that it has read.
AnswerRead(rec, out, hand, new) ==
  /\ InOrder(rec, out, hand)
  /\ out # <<>> /\ \E T : out \in Seq(T)
  /\ \E S : rec \in Seq(S) /\ (Head(out).code = "messages" => Head(out).rows \in Seq(S))
  /\ new = IF Head(out).code = "messages" THEN rec \o Head(out).rows ELSE rec

\* Reading keeps the stream in order, and what is read comes before what is left.
LEMMA ReadFirst ==
  ASSUME NEW rec, NEW out, NEW hand, NEW new, AnswerRead(rec, out, hand, new)
  PROVE  /\ InOrder(new, Tail(out), hand)
         /\ Elements(new) = Elements(rec) \cup Rows(Head(out))
         /\ AtHand(out, hand) = AtHand(Tail(out), hand) \cup Rows(Head(out))
         /\ Before(Rows(Head(out)), AtHand(Tail(out), hand))
<1>0. PICK S, T :
        /\ rec \in Seq(S) /\ out \in Seq(T) /\ out # <<>> /\ InOrder(rec, out, hand)
        /\ Head(out).code = "messages" => Head(out).rows \in Seq(S)
        /\ new = IF Head(out).code = "messages" THEN rec \o Head(out).rows ELSE rec
  BY DEF AnswerRead
<1>. DEFINE a == Head(out)  rest == Tail(out)
<1>1. /\ 1 \in DOMAIN out /\ a = out[1]
      /\ \A i \in DOMAIN rest : i + 1 \in DOMAIN out /\ rest[i] = out[i + 1] /\ 1 < i + 1
      /\ \A i, j \in DOMAIN rest : i < j => i + 1 < j + 1
      /\ \A i \in DOMAIN out : i = 1 \/ \E j \in DOMAIN rest : out[i] = rest[j]
  <2>1. PICK n \in Nat : DOMAIN out = 1 .. n /\ n > 0
    BY <1>0
  <2>2. DOMAIN rest = 1 .. n - 1 /\ \A i \in 1 .. n - 1 : rest[i] = out[i + 1]
    BY <1>0, <2>1
  <2>3. a = out[1]
    BY <1>0
  <2>. HIDE DEF a, rest
  <2>4. ASSUME NEW i \in 1 .. n, i # 1 PROVE i - 1 \in 1 .. n - 1 /\ rest[i - 1] = out[i]
    BY <2>1, <2>2, <2>4
  <2>5. \A i \in 1 .. n - 1 : i + 1 \in 1 .. n /\ 1 < i + 1
    BY <2>1
  <2>6. \A i, j \in 1 .. n - 1 : i < j => i + 1 < j + 1
    BY <2>1
  <2>7. 1 \in 1 .. n
    BY <2>1
  <2>. QED
    BY <2>1, <2>2, <2>3, <2>4, <2>5, <2>6, <2>7
<1>. HIDE DEF a, rest
<1>2. /\ SortedRows(rec) /\ SortedAnswer(a) /\ Before(Elements(rec), Rows(a))
      /\ Before(Rows(a), Rows(hand)) /\ SortedAnswer(hand) /\ Before(Elements(rec), Rows(hand))
      /\ \A i \in DOMAIN rest : Before(Rows(a), Rows(rest[i]))
  BY <1>0, <1>1 DEF InOrder
<1>3. /\ \A i \in DOMAIN rest : /\ SortedAnswer(rest[i]) /\ Before(Elements(rec), Rows(rest[i]))
                                /\ Before(Rows(rest[i]), Rows(hand))
      /\ \A i, j \in DOMAIN rest : i < j => Before(Rows(rest[i]), Rows(rest[j]))
  BY <1>0, <1>1 DEF InOrder
<1>4. SortedRows(new) /\ Elements(new) = Elements(rec) \cup Rows(a)
  <2>1. CASE a.code # "messages"
    BY <1>0, <1>2, <2>1 DEF Rows, a
  <2>2. CASE a.code = "messages"
    <3>1. PICK rows \in Seq(S) : rows = a.rows
      BY <1>0, <2>2 DEF a
    <3>2. new = rec \o rows /\ Rows(a) = Elements(rows) /\ SortedRows(rows)
      BY <1>0, <1>2, <2>2, <3>1 DEF a, Rows, Elements, SortedAnswer
    <3>3. PICK m \in Nat, n \in Nat : DOMAIN rec = 1 .. m /\ DOMAIN rows = 1 .. n
      BY <1>0
    <3>4. /\ DOMAIN new = 1 .. m + n
          /\ \A i \in 1 .. m + n : new[i] = IF i <= m THEN rec[i] ELSE rows[i - m]
      <4>1. Len(rec) = m /\ Len(rows) = n
        BY <1>0, <3>3
      <4>. HIDE DEF a
      <4>2. /\ DOMAIN (rec \o rows) = 1 .. Len(rec) + Len(rows)
            /\ \A i \in 1 .. Len(rec) + Len(rows) :
                 (rec \o rows)[i] = IF i <= Len(rec) THEN rec[i] ELSE rows[i - Len(rec)]
        BY <1>0
      <4>. QED
        BY <3>2, <4>1, <4>2
    <3>5. ASSUME NEW i \in 1 .. m + n
          PROVE  \/ i \in 1 .. m /\ new[i] = rec[i]
                 \/ ~(i <= m) /\ i - m \in 1 .. n /\ new[i] = rows[i - m]
      BY <3>4
    <3>6. /\ \A i \in 1 .. m : i \in 1 .. m + n /\ new[i] = rec[i]
          /\ \A i \in 1 .. n : m + i \in 1 .. m + n /\ new[m + i] = rows[i]
      BY <3>4
    <3>7. Elements(new) = Elements(rec) \cup Elements(rows)
      <4>1. ASSUME NEW x \in Elements(new) PROVE x \in Elements(rec) \cup Elements(rows)
        <5>1. PICK i \in 1 .. m + n : x = new[i]
          BY <3>4, <4>1 DEF Elements
        <5>2. (\E j \in DOMAIN rec : x = rec[j]) \/ (\E j \in DOMAIN rows : x = rows[j])
          BY <3>3, <3>5, <5>1
        <5>. QED
          BY <5>2 DEF Elements
      <4>2. ASSUME NEW x \in Elements(rec) \cup Elements(rows) PROVE x \in Elements(new)
        <5>1. (\E j \in 1 .. m : x = rec[j]) \/ (\E j \in 1 .. n : x = rows[j])
          BY <3>3, <4>2 DEF Elements
        <5>2. \E i \in 1 .. m + n : x = new[i]
          BY <3>6, <5>1
        <5>. QED
          BY <3>4, <5>2 DEF Elements
      <4>. QED
        BY <4>1, <4>2
    <3>8. ASSUME NEW i \in 1 .. m + n, NEW j \in 1 .. m + n, i < j PROVE Precedes(new[i], new[j])
      <4>1. CASE i <= m /\ j <= m
        BY <1>2, <3>3, <3>5, <3>8, <4>1 DEF SortedRows
      <4>2. CASE i <= m /\ ~(j <= m)
        <5>2. i \in DOMAIN rec /\ new[i] = rec[i]
          BY <3>3, <3>5, <4>2
        <5>3. j \in 1 .. m + n /\ ~(j \in 1 .. m)
          BY <4>2
        <5>4. j - m \in DOMAIN rows /\ new[j] = rows[j - m]
          BY <3>3, <3>5, <5>3
        <5>1. new[i] \in Elements(rec) /\ new[j] \in Elements(rows)
          BY <5>2, <5>4 DEF Elements
        <5>. QED
          BY <1>2, <3>2, <5>1 DEF Before
      <4>3. CASE ~(i <= m)
        <5>1. ~(j <= m) /\ i - m < j - m
          BY <3>8, <4>3
        <5>2. ~(i \in 1 .. m) /\ ~(j \in 1 .. m)
          BY <4>3, <5>1
        <5>3. /\ i - m \in DOMAIN rows /\ new[i] = rows[i - m]
              /\ j - m \in DOMAIN rows /\ new[j] = rows[j - m]
          BY <3>3, <3>5, <5>2
        <5>. QED
          BY <3>2, <5>1, <5>3 DEF SortedRows
      <4>. QED
        BY <4>1, <4>2, <4>3
    <3>9. SortedRows(new)
      BY <3>4, <3>8 DEF SortedRows
    <3>. QED
      BY <3>2, <3>7, <3>9
  <2>. QED
    BY <2>1, <2>2
<1>5. InOrder(new, rest, hand)
  BY <1>2, <1>3, <1>4 DEF InOrder, Before
<1>6. \A m : m \in AtHand(out, hand) <=> m \in AtHand(rest, hand) \/ m \in Rows(a)
  BY <1>1, AtHandParts
<1>7. Before(Rows(a), AtHand(rest, hand))
  BY <1>2, AtHandParts DEF Before
<1>. QED
  BY <1>4, <1>5, <1>6, <1>7 DEF a, rest

-----------------------------------------------------------------------------
(* Connections at which nothing is added to the stream. *)

\* All rows of a connection were stored at some time.
LEMMA HadPosted ==
  ASSUME Inv, NEW c \in Conn
  PROVE  /\ received[c] \in Seq(posted) /\ outbox[c] \in Seq(Answer) /\ Hand(c) \in Answer
         /\ Had(c) \subseteq posted
<1>1. ASSUME NEW a \in Answer PROVE Rows(a) \subseteq posted
  BY DEF Answer, Error, Rows
<1>2. received[c] \in Seq(posted) /\ outbox[c] \in Seq(Answer) /\ reply[c] \in Answer
  BY DEF Inv, UsersOK, WiresOK, ThreadsOK
<1>3. Hand(c) \in Answer
  BY <1>2 DEF Hand, Answer
<1>4. \A i \in DOMAIN outbox[c] : outbox[c][i] \in Answer
  BY <1>2
<1>5. Elements(received[c]) \subseteq posted
  BY <1>2 DEF Elements
<1>. QED
  BY <1>1, <1>2, <1>3, <1>4, <1>5, AtHandParts DEF Had

\* The stream stays in order, and what it holds, it held before; a connection that is not
\* broken loses nothing.
LEMMA QuietStream ==
  ASSUME Inv, NEW c \in Conn, Quiet(c), InOrder(received[c], outbox[c], Hand(c))
  PROVE  /\ InOrder(received[c], outbox[c], Hand(c))'
         /\ Had(c)' \subseteq Had(c)
         /\ AtHand(outbox[c], Hand(c))' \subseteq AtHand(outbox[c], Hand(c))
         /\ Broken(c)' \/ AtHand(outbox[c], Hand(c))' = AtHand(outbox[c], Hand(c))
<1>. DEFINE rec == received[c]  out == outbox[c]  hand == Hand(c)
<1>1. out \in Seq(Answer) /\ received'[c] = rec
  BY HadPosted DEF Quiet
<1>2. PICK new : new = outbox'[c]
  OBVIOUS
<1>3. /\ InOrder(rec, new, hand) /\ AtHand(new, hand) \subseteq AtHand(out, hand)
      /\ Broken(c)' \/ AtHand(new, hand) = AtHand(out, hand)
  <2>1. CASE new = out
    BY <2>1
  <2>2. ASSUME NEW a, Rows(a) = {}, new = Append(out, a)
        PROVE  InOrder(rec, new, hand) /\ AtHand(new, hand) = AtHand(out, hand)
    BY <1>1, <2>2, AddRowless
  <2>3. CASE new = <<>> /\ Broken(c)'
    BY <2>3, ErrorRows, Lose
  <2>. QED
    BY <1>2, <2>1, <2>2, <2>3 DEF Quiet
<1>4. PICK next : next = Hand(c)'
  OBVIOUS
<1>. HIDE DEF rec, out, hand
<1>5. /\ InOrder(rec, new, next) /\ AtHand(new, next) \subseteq AtHand(out, hand)
      /\ Broken(c)' \/ AtHand(new, next) = AtHand(out, hand)
  <2>1. CASE next = hand
    BY <1>3, <2>1
  <2>2. CASE Rows(next) = {} /\ (Broken(c)' \/ Rows(hand) = {})
    <3>1. InOrder(rec, new, next) /\ AtHand(new, next) \subseteq AtHand(new, hand)
      BY <1>3, <2>2, Lose
    <3>2. Rows(hand) = {} => \A m : m \in AtHand(new, hand) => m \in AtHand(new, next)
      BY AtHandParts
    <3>. QED
      BY <1>3, <2>2, <3>1, <3>2
  <2>. QED
    BY <1>4, <2>1, <2>2 DEF Quiet, hand
<1>. QED
  BY <1>1, <1>2, <1>4, <1>5 DEF rec, out, hand, Had

\* New rows come after all others.
LEMMA NewLast ==
  ASSUME Tables, Grow, NEW m \in posted, NEW n \in messages'
  PROVE  n \in messages \/ Precedes(m, n)
<1>1. m.uid < nextUid
  BY DEF Tables, StoreTheory!StoreInv, StoreTheory!Origins
<1>. QED
  BY <1>1 DEF Grow, Precedes

\* The stream of a connection stays in order when nothing is added to it.
LEMMA QuietKeeps ==
  ASSUME Tables, Grow, NEW c \in Conn, Quiet(c), Order(c),
         stage'[c] = "take" =>
           \/ BatchOrder(c)'
           \/ stage[c] = "take" /\ batch'[c] = batch[c] /\ client_id'[c] = client_id[c]
  PROVE  Order(c)'
<1>1. /\ InOrder(received[c], outbox[c], Hand(c))' /\ Had(c)' \subseteq Had(c)
      /\ Had(c) \subseteq posted
  BY QuietStream, HadPosted DEF Order, Tables
<1>2. ASSUME stage'[c] \in Listening PROVE BoxOrder(c)'
  BY <1>1, <1>2, NewLast DEF Quiet, Order, BoxOrder
<1>3. ASSUME stage[c] = "take", batch'[c] = batch[c], client_id'[c] = client_id[c]
      PROVE  BatchOrder(c)'
  <2>1. batch[c] \subseteq posted
    BY DEF Tables, Inv, TablesOK
  <2>. QED
    BY <1>1, <1>3, <2>1, NewLast DEF Order, BatchOrder
<1>. QED
  BY <1>1, <1>2, <1>3 DEF Order

\* A connection at which nothing happens.
Still(d) ==
  /\ received'[d] = received[d] /\ outbox'[d] = outbox[d] /\ stage'[d] = stage[d]
  /\ reply'[d] = reply[d] /\ client_id'[d] = client_id[d] /\ peer'[d] = peer[d]
  /\ batch'[d] = batch[d]

\* A batch that is being worked on is the one of before.
BatchKept(d) ==
  stage'[d] = "take" => stage[d] = "take" /\ batch'[d] = batch[d] /\ client_id'[d] = client_id[d]

\* Nothing is added where nothing happens.
LEMMA StillQuiet ==
  ASSUME NEW d \in Conn, Still(d)
  PROVE  Quiet(d) /\ BatchKept(d)
<1>1. Hand(d)' = Hand(d) /\ (Broken(d) => Broken(d)')
  BY DEF Still, Hand, Broken
<1>. QED
  BY <1>1 DEF Still, Quiet, BatchKept

\* A step at connection c, and the streams of all connections.
QuietStep(c) ==
  /\ Quiet(c) /\ BatchKept(c)
  /\ \A d \in Conn \ {c} : Still(d)

\* The main thread adds at most an error, to a connection that had nothing.
LEMMA MainThreadQuiet ==
  ASSUME Inv, NEW c \in Conn, MainThread(c)
  PROVE  QuietStep(c)
<1>1. UNCHANGED <<messages, batch, reply, peer, received>>
  BY DEF MainThread, Accept, FirstEof, FirstUndecodable, FirstLocked, FirstRefused,
         FirstRefusedRaises, FirstRegister, FirstKnown, StartThread, storeVars, threadVars,
         userVars
<1>2. PICK next \in {"accepted", "closed", "dead", "start"} :
        /\ stage' = [stage EXCEPT ![c] = next] /\ stage[c] \in {"backlog", "accepted"}
        /\ next = "start" => outbox' = outbox /\ stage[c] = "accepted"
  BY DEF MainThread, Accept, FirstEof, FirstUndecodable, FirstLocked, FirstRefused,
         FirstRefusedRaises, FirstRegister, FirstKnown, First, StartThread
<1>3. outbox' = outbox \/ outbox' = [outbox EXCEPT ![c] = Append(@, Error)]
  BY DEF MainThread, Accept, FirstEof, FirstUndecodable, FirstLocked, FirstRefused,
         FirstRefusedRaises, FirstRegister, FirstKnown, StartThread, Sent, wireVars
<1>4. client_id' = client_id \/ \E id : client_id' = [client_id EXCEPT ![c] = id]
  BY DEF MainThread, Accept, FirstEof, FirstUndecodable, FirstLocked, FirstRefused,
         FirstRefusedRaises, FirstRegister, FirstKnown, StartThread, threadVars
<1>5. stage'[c] = next /\ (outbox'[c] = outbox[c] \/ outbox'[c] = Append(outbox[c], Error))
  BY <1>2, <1>3 DEF Inv, ThreadsOK, WiresOK
<1>6. Early(c)
  BY <1>2 DEF Inv, ConnOK, Idle
<1>7. Hand(c) = Error /\ Hand(c)' = Error
  BY <1>2, <1>5 DEF Hand
<1>8. Had(c) = {}
  <2>1. \A m : m \notin AtHand(outbox[c], Hand(c))
    BY <1>6, <1>7, ErrorRows, AtHandParts DEF Early
  <2>. QED
    BY <1>6, <2>1 DEF Had, Early, Elements
<1>9. Quiet(c)
  BY <1>1, <1>2, <1>5, <1>7, <1>8, ErrorRows DEF Quiet, Broken
<1>10. \A d \in Conn \ {c} : Still(d)
  BY <1>1, <1>2, <1>3, <1>4 DEF Still, Inv, ThreadsOK, WiresOK
<1>. QED
  BY <1>5, <1>9, <1>10 DEF QuietStep, BatchKept

\* A thread begins to answer without rows, or ends, or goes on to receive or to send.
LEMMA ThreadQuiet ==
  ASSUME Inv, NEW c \in Conn,
         \/ Start(c) \/ AnswerRegister(c) \/ AnswerList(c) \/ AnswerKey(c) \/ AnswerSend(c)
         \/ TakeRaises(c) \/ TakeEnds(c) \/ ThreadLocked(c) \/ Bad(c)
         \/ (Send(c) /\ peer[c] = "gone") \/ SendRaises(c) \/ Recv(c) \/ RecvEof(c)
  PROVE  QuietStep(c)
<1>. USE DEF Inv, ThreadsOK
<1>1. UNCHANGED <<outbox, client_id, peer, received>>
  BY DEF Start, AnswerRegister, AnswerList, AnswerKey, AnswerSend, TakeRaises, TakeEnds,
         ThreadLocked, Bad, Send, Sent, SendRaises, Recv, RecvEof, threadVars, wireVars, userVars
<1>2. \A d \in Conn \ {c} : batch'[d] = batch[d]
  BY DEF Start, AnswerRegister, AnswerList, AnswerKey, AnswerSend, TakeRaises, TakeEnds,
         ThreadLocked, Bad, Send, SendRaises, Recv, RecvEof, Store!Sync, Store!SyncFails,
         Store!Drop, Store!AddMessage, Store!AddMessageFails, storeVars
<1>3. \/ reply' = reply
      \/ stage[c] \in {"answer", "bad"} /\ \E a : reply' = [reply EXCEPT ![c] = a]
  BY DEF Start, AnswerRegister, AnswerList, AnswerKey, AnswerSend, TakeRaises, TakeEnds,
         ThreadLocked, Bad, Send, SendRaises, Recv, RecvEof, Answering, Reply, GoTo, threadVars
<1>4. PICK next \in Stages :
        /\ stage' = [stage EXCEPT ![c] = next] /\ stage[c] \in Listening /\ next # "take"
        /\ stage[c] = "send" => next # "send"
        /\ next = "send" => stage[c] \in {"take", "answer", "bad"}
        /\ stage[c] \in {"answer", "bad"} /\ next = "send" =>
             \E a : reply' = [reply EXCEPT ![c] = a] /\ Rows(a) = {}
        /\ stage[c] \in {"take", "send"} =>
             \/ next \in {"dead", "closed"} \/ peer[c] = "gone"
             \/ next = "send" /\ reply' = reply
  <2>1. \A ids, id, key, to :
          /\ Rows([code |-> "registered", id |-> id]) = {}
          /\ Rows([code |-> "clients", ids |-> ids]) = {}
          /\ Rows([code |-> "key", id |-> id, key |-> key]) = {}
          /\ Rows([code |-> "sent", to |-> to, id |-> id]) = {}
    BY DEF Rows
  <2>. QED
    BY <2>1, ErrorRows
       DEF Start, AnswerRegister, AnswerList, AnswerKey, AnswerSend, TakeRaises, TakeEnds,
           ThreadLocked, Bad, Send, SendRaises, Recv, RecvEof, Answering, Reply, GoTo, NextStage,
           threadVars, Stages, Listening, Idle
<1>5. stage'[c] = next
  BY <1>4
<1>6. Hand(c)' = Hand(c) \/ (Rows(Hand(c)') = {} /\ (Broken(c)' \/ Rows(Hand(c)) = {}))
  <2>1. CASE next # "send"
    <3>1. Hand(c)' = Error
      BY <1>4, <1>5, <2>1 DEF Hand
    <3>2. stage[c] \notin {"take", "send"} => Hand(c) = Error
      BY DEF Hand
    <3>3. stage[c] \in {"take", "send"} => Broken(c)'
      BY <1>1, <1>4, <1>5, <2>1 DEF Broken
    <3>. QED
      BY <3>1, <3>2, <3>3, ErrorRows
  <2>2. CASE next = "send" /\ stage[c] = "take"
    <3>1. reply' = reply
      BY <1>3, <2>2
    <3>. QED
      BY <1>5, <2>2, <3>1 DEF Hand
  <2>3. CASE next = "send" /\ stage[c] \in {"answer", "bad"}
    <3>1. PICK a : reply' = [reply EXCEPT ![c] = a] /\ Rows(a) = {}
      BY <1>4, <2>3
    <3>2. Hand(c) = Error /\ Hand(c)' = a
      BY <1>5, <2>3, <3>1 DEF Hand
    <3>. QED
      BY <3>1, <3>2, ErrorRows
  <2>. QED
    BY <1>4, <2>1, <2>2, <2>3
<1>7. Broken(c) => Broken(c)'
  BY <1>1, <1>4 DEF Broken, Listening
<1>8. Quiet(c)
  BY <1>1, <1>4, <1>6, <1>7 DEF Quiet
<1>9. \A d \in Conn \ {c} : Still(d)
  BY <1>1, <1>2, <1>3, <1>4 DEF Still
<1>. QED
  BY <1>4, <1>5, <1>8, <1>9 DEF QuietStep, BatchKept

\* A program starts, asks, finds the connection closed, or quits.
LEMMA ProgramQuiet ==
  ASSUME Inv, NEW c \in Conn, Connect(c) \/ Ask(c) \/ ReadEof(c) \/ Quit(c)
  PROVE  QuietStep(c)
<1>. USE DEF Inv, ThreadsOK, WiresOK, UsersOK
<1>1. UNCHANGED <<batch, reply, client_id, received>>
  BY DEF Connect, Ask, ReadEof, Quit, storeVars, threadVars
<1>2. PICK next \in {"ready", "waiting", "gone"} :
        /\ peer' = [peer EXCEPT ![c] = next]
        /\ peer[c] = "gone" => next = "gone"
        /\ outbox' = outbox \/ (outbox' = [outbox EXCEPT ![c] = <<>>] /\ next = "gone")
        /\ \/ stage' = stage
           \/ stage[c] = "none" /\ stage' = [stage EXCEPT ![c] = "backlog"]
  BY DEF Connect, Ask, ReadEof, Quit, ConnOK, wireVars
<1>3. Hand(c)' = Hand(c)
  BY <1>1, <1>2 DEF Hand
<1>4. Broken(c) => Broken(c)'
  BY <1>2 DEF Broken
<1>5. outbox'[c] = outbox[c] \/ (outbox'[c] = <<>> /\ Broken(c)')
  BY <1>2 DEF Broken
<1>6. Quiet(c) /\ BatchKept(c)
  BY <1>1, <1>2, <1>3, <1>4, <1>5 DEF Quiet, BatchKept, Listening
<1>7. \A d \in Conn \ {c} : Still(d)
  BY <1>1, <1>2 DEF Still
<1>. QED
  BY <1>6, <1>7 DEF QuietStep

\* The server closes all connections.
LEMMA CloseQuiet ==
  ASSUME Inv, Restart \/ ProcessEnds, NEW c \in Conn
  PROVE  Quiet(c) /\ BatchKept(c)
<1>1. /\ received' = received /\ peer' = peer
      /\ stage' = [d \in Conn |-> IF stage[d] = "none" THEN "none" ELSE "closed"]
      /\ outbox' = outbox \/ outbox' = [d \in Conn |-> <<>>]
  BY DEF Restart, ProcessEnds, wireVars, userVars
<1>2. CASE stage[c] = "none"
  <2>1. outbox[c] = <<>>
    BY <1>2 DEF Inv, ConnOK, Idle, Early
  <2>2. stage'[c] = "none" /\ outbox'[c] = outbox[c]
    BY <1>1, <1>2, <2>1
  <2>. QED
    BY <1>1, <1>2, <2>2 DEF Quiet, BatchKept, Hand, Broken, Listening
<1>3. CASE stage[c] # "none"
  <2>1. stage'[c] = "closed" /\ (outbox'[c] = outbox[c] \/ outbox'[c] = <<>>)
    BY <1>1, <1>3
  <2>2. Hand(c)' = Error /\ Broken(c)'
    BY <2>1 DEF Hand, Broken
  <2>. QED
    BY <1>1, <2>1, <2>2, ErrorRows DEF Quiet, BatchKept, Listening
<1>. QED
  BY <1>2, <1>3

-----------------------------------------------------------------------------
(* Connections at which rows move. *)

\* The stream of a connection stays in order when nothing happens there.
LEMMA StillKeeps ==
  ASSUME Tables, Grow, NEW d \in Conn, Order(d), Still(d)
  PROVE  Order(d)'
BY StillQuiet, QuietKeeps DEF BatchKept

\* GET_MESSAGES reads the rows of the client, and begins an answer without rows.
LEMMA AnswerGetQuiet ==
  ASSUME Inv, NEW c \in Conn, AnswerGet(c)
  PROVE  /\ Quiet(c) /\ \A d \in Conn \ {c} : Still(d)
         /\ UNCHANGED <<messages, nextUid, client_id>> /\ (raced => raced')
         /\ stage[c] = "answer" /\ batch'[c] = {m \in messages : m.to = client_id[c]}
<1>1. UNCHANGED <<messages, nextUid, client_id, outbox, peer, received>> /\ (raced => raced')
  BY DEF AnswerGet, Store!GetMessages, wireVars, userVars
<1>2. /\ stage[c] = "answer" /\ stage' = [stage EXCEPT ![c] = "take"]
      /\ reply' = [reply EXCEPT ![c] = [code |-> "messages", rows |-> <<>>]]
      /\ request[c].type = "get"
      /\ batch' = [batch EXCEPT ![c] = {m \in messages : m.to = request[c].id}]
  BY DEF AnswerGet, Answering, GoTo, Store!GetMessages, Store!RowsFor
<1>3. request[c].id = client_id[c]
  BY <1>2 DEF Inv, ConnOK, Served, Proper, Listening, Serviceable
<1>4. stage'[c] = "take" /\ reply'[c] = [code |-> "messages", rows |-> <<>>]
      /\ batch'[c] = {m \in messages : m.to = client_id[c]}
  BY <1>2, <1>3 DEF Inv, ThreadsOK, TablesOK
<1>5. Quiet(c)
  <2>1. Hand(c) = Error /\ Rows(Hand(c)') = {}
    BY <1>2, <1>4 DEF Hand, Rows
  <2>2. ~Broken(c) \/ Broken(c)'
    BY <1>1, <1>2 DEF Broken
  <2>. QED
    BY <1>1, <1>2, <2>1, <2>2, ErrorRows DEF Quiet, Listening
<1>6. \A d \in Conn \ {c} : Still(d)
  BY <1>1, <1>2 DEF Still, Inv, ThreadsOK, TablesOK
<1>. QED
  BY <1>1, <1>2, <1>4, <1>5, <1>6

\* These rows come after all that the connection had.
LEMMA AnswerGetOrders ==
  ASSUME Tables, Grow, NEW c \in Conn, AnswerGet(c), Ordered
  PROVE  Ordered'
<1>1. /\ Quiet(c) /\ (\A d \in Conn \ {c} : Still(d))
      /\ UNCHANGED <<messages, client_id>>
      /\ stage[c] = "answer" /\ batch'[c] = {m \in messages : m.to = client_id[c]}
  BY AnswerGetQuiet DEF Tables
<1>2. Had(c)' \subseteq Had(c) /\ BoxOrder(c)
  BY <1>1, QuietStream DEF Tables, Ordered, Order, Listening
<1>3. BatchOrder(c)'
  BY <1>1, <1>2 DEF BatchOrder, BoxOrder
<1>4. Order(c)'
  BY <1>1, <1>3, QuietKeeps DEF Ordered
<1>. QED
  BY <1>1, <1>4, StillKeeps DEF Ordered

\* The loop takes the row with the least key: of each sender the next one.
Taken(c, row) ==
  /\ row \in batch[c] /\ \A m \in batch[c] : m = row \/ Store!IdLess(row.id, m.id)
  /\ messages' = {m \in messages : m.id # row.id} /\ batch'[c] = batch[c] \ {row}
  /\ UNCHANGED <<stage, client_id, outbox, peer, received, nextUid, raced>>
  /\ InOrder(received[c], outbox[c], Hand(c))'
  /\ AtHand(outbox[c], Hand(c))' = AtHand(outbox[c], Hand(c)) \cup {row}

\* What a round of the loop does to the stream.
LEMMA TakeStream ==
  ASSUME Tables, NEW c \in Conn, Take(c), Ordered
  PROVE  /\ \E row : Taken(c, row)
         /\ stage[c] = "take" /\ \A d \in Conn \ {c} : Still(d)
<1>. USE DEF Tables
<1>1. /\ UNCHANGED <<stage, client_id, outbox, peer, received, nextUid, raced>>
      /\ stage[c] = "take"
  BY DEF Take, Store!DeleteMessage, wireVars, userVars
<1>2. PICK row \in batch[c] :
        /\ \A m \in batch[c] : m = row \/ Store!IdLess(row.id, m.id)
        /\ messages' = {m \in messages : m.id # row.id}
        /\ batch' = [batch EXCEPT ![c] = @ \ {row}]
        /\ reply' = [reply EXCEPT ![c].rows = Append(@, row)]
  BY DEF Take, Store!DeleteMessage, Store!AfterDelete
<1>3. batch'[c] = batch[c] \ {row}
  BY <1>2 DEF Inv, TablesOK
<1>4. PICK rows \in Seq(posted) : reply[c].code = "messages" /\ reply[c].rows = rows
  <2>1. reply[c] \in Answer /\ reply[c].code = "messages"
    BY <1>1 DEF Inv, ThreadsOK, ConnOK, Served, Listening
  <2>. QED
    BY <2>1 DEF Answer, Error
<1>5. reply'[c].code = "messages" /\ reply'[c].rows = Append(rows, row)
  <2>1. reply[c] \in [code : {"messages"}, rows : Seq(posted)]
    BY <1>4 DEF Inv, ThreadsOK, Answer, Error
  <2>2. reply'[c] = [reply[c] EXCEPT !.rows = Append(@, row)]
    BY <1>2 DEF Inv, ThreadsOK
  <2>. QED
    BY <1>4, <2>1, <2>2
<1>6. Hand(c) = reply[c] /\ Hand(c)' = reply'[c]
  BY <1>1 DEF Hand
<1>7. /\ InOrder(received[c], outbox[c], Hand(c))
      /\ \A m \in Had(c) : Precedes(m, row)
  BY <1>1, <1>2 DEF Ordered, Order, BatchOrder
<1>8. /\ InOrder(received[c], outbox[c], Hand(c))'
      /\ AtHand(outbox[c], Hand(c))' = AtHand(outbox[c], Hand(c)) \cup {row}
  <2>. DEFINE rec == received[c]  out == outbox[c]
  <2>1. received'[c] = rec /\ outbox'[c] = out
    BY <1>1
  <2>2. /\ InOrder(rec, out, reply[c])
        /\ \A m \in Elements(rec) \cup AtHand(out, reply[c]) : Precedes(m, row)
    BY <1>6, <1>7 DEF Had
  <2>3. PICK hand, new : hand = reply[c] /\ new = reply'[c]
    OBVIOUS
  <2>. HIDE DEF rec, out
  <2>4. RowAdded(rec, out, hand, new, row)
    BY <1>4, <1>5, <2>2, <2>3 DEF RowAdded
  <2>5. InOrder(rec, out, new) /\ AtHand(out, new) = AtHand(out, hand) \cup {row}
    BY <2>4, AddRow
  <2>. QED
    BY <1>6, <2>1, <2>3, <2>5 DEF rec, out
<1>9. Taken(c, row)
  BY <1>1, <1>2, <1>3, <1>8 DEF Taken
<1>10. \A d \in Conn \ {c} : Still(d)
  BY <1>1, <1>2 DEF Still, Inv, ThreadsOK, TablesOK
<1>. QED
  BY <1>1, <1>9, <1>10

\* The row that is taken comes before the rows that are left.
LEMMA TakeOrders ==
  ASSUME Tables, Grow, NEW c \in Conn, Take(c), Ordered
  PROVE  Ordered'
<1>. USE DEF Tables
<1>1. PICK row : Taken(c, row)
  BY TakeStream
<1>2. /\ stage[c] = "take" /\ \A d \in Conn \ {c} : Still(d)
      /\ UNCHANGED <<stage, client_id, received>>
      /\ row \in batch[c] /\ batch'[c] = batch[c] \ {row}
      /\ \A n \in messages' : n \in messages /\ n # row
  BY <1>1, TakeStream DEF Taken
<1>3. /\ InOrder(received[c], outbox[c], Hand(c))'
      /\ Had(c)' = Had(c) \cup {row}
  BY <1>1 DEF Taken, Had
<1>4. BoxOrder(c) /\ BatchOrder(c)
  BY <1>2 DEF Ordered, Order, Listening
<1>5. \A m \in batch[c] : m = row \/ Precedes(row, m)
  <2>1. batch[c] \subseteq posted
    BY DEF Inv, TablesOK
  <2>. QED
    BY <1>1, <2>1 DEF Taken, StoreTheory!StoreInv, StoreTheory!SessionOrder, Precedes,
                      StoreTheory!IdLess, Store!IdLess
<1>6. BoxOrder(c)'
  <2>. SUFFICES ASSUME NEW m \in Had(c) \cup {row}
                PROVE  /\ m.to = client_id[c]
                       /\ \A n \in messages' : n.to = m.to => Precedes(m, n)
    BY <1>2, <1>3 DEF BoxOrder
  <2>1. CASE m \in Had(c)
    BY <1>2, <1>4, <2>1 DEF BoxOrder
  <2>2. CASE m = row
    BY <1>2, <1>4, <1>5, <2>2 DEF BatchOrder
  <2>. QED
    BY <2>1, <2>2
<1>7. BatchOrder(c)'
  <2>. SUFFICES ASSUME NEW m \in batch[c], m # row
                PROVE  /\ m.to = client_id[c]
                       /\ \A n \in Had(c) \cup {row} : Precedes(n, m)
                       /\ \A n \in messages' :
                            n.to = m.to => n \in batch[c] \ {row} \/ Precedes(m, n)
    BY <1>2, <1>3 DEF BatchOrder
  <2>1. /\ m.to = client_id[c] /\ \A n \in Had(c) : Precedes(n, m)
        /\ \A n \in messages : n.to = m.to => n \in batch[c] \/ Precedes(m, n)
    BY <1>4 DEF BatchOrder
  <2>2. Precedes(row, m)
    BY <1>5
  <2>. QED
    BY <1>2, <2>1, <2>2
<1>8. Order(c)'
  BY <1>3, <1>6, <1>7 DEF Order
<1>. QED
  BY <1>2, <1>8, StillKeeps DEF Ordered

\* The answer goes out, and stays in the stream.
LEMMA SendStream ==
  ASSUME Tables, NEW c \in Conn, Send(c), peer[c] # "gone", Ordered
  PROVE  /\ InOrder(received[c], outbox[c], Hand(c))'
         /\ AtHand(outbox[c], Hand(c))' = AtHand(outbox[c], Hand(c))
         /\ UNCHANGED <<messages, nextUid, raced, client_id, peer, received>>
         /\ stage[c] = "send" /\ stage'[c] = "recv"
         /\ \A d \in Conn \ {c} : Still(d)
<1>. USE DEF Tables
<1>1. UNCHANGED <<messages, nextUid, raced, batch, reply, client_id, peer, received>>
      /\ stage[c] = "send" /\ stage' = [stage EXCEPT ![c] = "recv"]
      /\ outbox' = [outbox EXCEPT ![c] = Append(@, reply[c])]
  BY DEF Send, Sent, GoTo, storeVars, threadVars, userVars
<1>2. /\ stage'[c] = "recv" /\ Hand(c) = reply[c] /\ Hand(c)' = Error
      /\ outbox'[c] = Append(outbox[c], Hand(c)) /\ outbox[c] \in Seq(Answer)
  BY <1>1 DEF Inv, ThreadsOK, WiresOK, Hand
<1>. DEFINE rec == received[c]  out == outbox[c]  hand == Hand(c)
<1>3. received'[c] = rec /\ outbox'[c] = Append(out, hand) /\ out \in Seq(Answer)
  BY <1>1, <1>2
<1>4. InOrder(rec, out, hand)
  BY DEF Ordered, Order
<1>5. /\ InOrder(rec, Append(out, hand), Error)
      /\ AtHand(Append(out, hand), Error) = AtHand(out, hand)
  <2>. HIDE DEF rec, out, hand
  <2>. QED
    BY <1>3, <1>4, AddHand
<1>6. \A d \in Conn \ {c} : Still(d)
  BY <1>1 DEF Still, Inv, ThreadsOK, WiresOK
<1>. QED
  BY <1>1, <1>2, <1>3, <1>5, <1>6

\* So the stream stays in order,
LEMMA SendOrders ==
  ASSUME Tables, Grow, NEW c \in Conn, Send(c), peer[c] # "gone", Ordered
  PROVE  Ordered'
<1>1. /\ InOrder(received[c], outbox[c], Hand(c))'
      /\ AtHand(outbox[c], Hand(c))' = AtHand(outbox[c], Hand(c))
      /\ UNCHANGED <<messages, client_id, received>> /\ stage[c] = "send" /\ stage'[c] = "recv"
      /\ \A d \in Conn \ {c} : Still(d)
  BY SendStream
<1>2. BoxOrder(c)'
  BY <1>1 DEF Ordered, Order, BoxOrder, Listening, Had
<1>3. Order(c)'
  BY <1>1, <1>2 DEF Order
<1>. QED
  BY <1>1, <1>3, StillKeeps DEF Ordered

\* The rows of an answer join those that were read.
LEMMA ReadAnswerStream ==
  ASSUME Tables, NEW c \in Conn, ReadAnswer(c), Ordered
  PROVE  /\ InOrder(received[c], outbox[c], Hand(c))'
         /\ Elements(received[c])' = Elements(received[c]) \cup Rows(Head(outbox[c]))
         /\ AtHand(outbox[c], Hand(c))
              = AtHand(outbox[c], Hand(c))' \cup Rows(Head(outbox[c]))
         /\ Before(Rows(Head(outbox[c])), AtHand(outbox[c], Hand(c))')
         /\ UNCHANGED <<messages, nextUid, raced, batch, client_id, stage>>
         /\ \A d \in Conn \ {c} : Still(d)
<1>. USE DEF Tables
<1>1. /\ UNCHANGED <<messages, nextUid, raced, batch, reply, client_id, stage>>
      /\ outbox[c] # <<>> /\ outbox' = [outbox EXCEPT ![c] = Tail(@)]
      /\ received' = IF Head(outbox[c]).code = "messages"
                     THEN [received EXCEPT ![c] = @ \o Head(outbox[c]).rows] ELSE received
      /\ peer' = [peer EXCEPT ![c] = "ready"]
  BY DEF ReadAnswer, storeVars, threadVars
<1>. DEFINE rec == received[c]  out == outbox[c]  hand == Hand(c)
<1>2. rec \in Seq(posted) /\ out \in Seq(Answer) /\ Head(out) \in Answer
  BY <1>1, HadPosted
<1>3. Head(out).code = "messages" => Head(out).rows \in Seq(posted)
  BY <1>2 DEF Answer, Error
<1>4. /\ received'[c] = IF Head(out).code = "messages" THEN rec \o Head(out).rows ELSE rec
      /\ outbox'[c] = Tail(out) /\ Hand(c)' = hand
  BY <1>1 DEF Inv, UsersOK, WiresOK, Hand
<1>5. PICK new : new = received'[c]
  OBVIOUS
<1>6. InOrder(rec, out, hand)
  BY DEF Ordered, Order
<1>7. out # <<>> /\ new = IF Head(out).code = "messages" THEN rec \o Head(out).rows ELSE rec
  BY <1>1, <1>4, <1>5
<1>8. /\ InOrder(new, Tail(out), hand)
      /\ Elements(new) = Elements(rec) \cup Rows(Head(out))
      /\ AtHand(out, hand) = AtHand(Tail(out), hand) \cup Rows(Head(out))
      /\ Before(Rows(Head(out)), AtHand(Tail(out), hand))
  <2>. HIDE DEF rec, out, hand
  <2>1. AnswerRead(rec, out, hand, new)
    BY <1>2, <1>3, <1>6, <1>7 DEF AnswerRead
  <2>. QED
    BY <2>1, ReadFirst
<1>9. \A d \in Conn \ {c} : Still(d)
  BY <1>1 DEF Still, Inv, UsersOK, WiresOK
<1>. QED
  BY <1>1, <1>4, <1>5, <1>8, <1>9

\* and also when the program reads.
LEMMA ReadAnswerOrders ==
  ASSUME Tables, Grow, NEW c \in Conn, ReadAnswer(c), Ordered
  PROVE  Ordered'
<1>1. /\ InOrder(received[c], outbox[c], Hand(c))'
      /\ UNCHANGED <<messages, batch, client_id, stage>> /\ \A d \in Conn \ {c} : Still(d)
  BY ReadAnswerStream
<1>2. Had(c)' = Had(c)
  BY ReadAnswerStream DEF Had
<1>3. Order(c)'
  BY <1>1, <1>2 DEF Ordered, Order, BoxOrder, BatchOrder
<1>. QED
  BY <1>1, <1>3, StillKeeps DEF Ordered

-----------------------------------------------------------------------------
(* All streams are in order, at all times. *)

\* Rows that appear in the table are new.
LEMMA TableGrows ==
  ASSUME Inv, [Next]_vars
  PROVE  Grow
<1>1. [Store!Next]_(Store!storeVars)
  BY StoreStep
<1>2. CASE UNCHANGED Store!storeVars
  BY <1>2 DEF Store!storeVars, Grow
<1>3. ASSUME NEW S, Store!Drop(S) PROVE Grow
  BY <1>3 DEF Store!Drop, Grow
<1>4. ASSUME NEW s \in Conn, Store!Sync(s) PROVE Grow
  BY <1>4 DEF Store!Sync, Grow
<1>5. ASSUME NEW s, NEW id, NEW to, NEW from, NEW content,
             Store!AddMessage(s, id, to, from, content)
      PROVE  Grow
  BY <1>5 DEF Store!AddMessage, Grow
<1>6. ASSUME NEW s, NEW c, Store!GetMessages(s, c) PROVE Grow
  BY <1>6 DEF Store!GetMessages, Grow
<1>7. ASSUME NEW s, NEW row, Store!DeleteMessage(s, row) PROVE Grow
  BY <1>7 DEF Store!DeleteMessage, Store!AfterDelete, Grow
<1>. QED
  BY <1>1, <1>2, <1>3, <1>4, <1>5, <1>6, <1>7
     DEF Store!Next, Store!Stop, Store!SyncFails, Store!AddMessageFails

\* A step that adds nothing to any stream.
LEMMA QuietStepOrders ==
  ASSUME Tables, Grow, NEW c \in Conn, QuietStep(c), Ordered
  PROVE  Ordered'
<1>1. Order(c)'
  BY QuietKeeps DEF QuietStep, BatchKept, Ordered
<1>. QED
  BY <1>1, StillKeeps DEF QuietStep, Ordered

\* Every step keeps the streams in order.
LEMMA NextOrdered == Tables /\ Ordered /\ [Next]_vars => Ordered'
<1>. SUFFICES ASSUME Tables, Ordered, [Next]_vars PROVE Ordered'
  OBVIOUS
<1>1. Grow /\ Inv
  BY TableGrows DEF Tables
<1>2. CASE UNCHANGED vars
  <2>1. \A d \in Conn : Still(d)
    BY <1>2 DEF vars, storeVars, threadVars, wireVars, userVars, Still
  <2>. QED
    BY <1>1, <2>1, StillKeeps DEF Ordered
<1>3. CASE Restart \/ ProcessEnds
  <2>1. \A d \in Conn : Quiet(d) /\ BatchKept(d)
    BY <1>1, <1>3, CloseQuiet
  <2>. QED
    BY <1>1, <2>1, QuietKeeps DEF BatchKept, Ordered
<1>4. ASSUME NEW c \in Conn, MainThread(c) PROVE Ordered'
  BY <1>1, <1>4, MainThreadQuiet, QuietStepOrders
<1>5. ASSUME NEW c \in Conn, Thread(c) PROVE Ordered'
  <2>1. CASE AnswerGet(c)
    BY <1>1, <2>1, AnswerGetOrders
  <2>2. CASE Take(c)
    BY <1>1, <2>2, TakeOrders
  <2>3. CASE Send(c) /\ peer[c] # "gone"
    BY <1>1, <2>3, SendOrders
  <2>4. CASE QuietStep(c)
    BY <1>1, <2>4, QuietStepOrders
  <2>. QED
    BY <1>1, <1>5, <2>1, <2>2, <2>3, <2>4, ThreadQuiet DEF Thread
<1>6. ASSUME NEW c \in Conn, Program(c) PROVE Ordered'
  <2>1. CASE ReadAnswer(c)
    BY <1>1, <2>1, ReadAnswerOrders
  <2>2. CASE QuietStep(c)
    BY <1>1, <2>2, QuietStepOrders
  <2>. QED
    BY <1>1, <1>6, <2>1, <2>2, ProgramQuiet DEF Program
<1>. QED
  BY <1>2, <1>3, <1>4, <1>5, <1>6 DEF Next

\* Initially they are empty.
LEMMA InitOrdered == Init => Ordered
<1>. SUFFICES ASSUME Init, NEW c \in Conn PROVE Order(c)
  BY DEF Ordered
<1>1. received[c] = <<>> /\ outbox[c] = <<>> /\ Hand(c) = Error /\ stage[c] = "none"
  BY DEF Init, Hand
<1>2. SortedAnswer(Error)
  BY ErrorRows, NoRows
<1>3. InOrder(received[c], outbox[c], Hand(c))
  BY <1>1, <1>2 DEF InOrder, SortedRows, Before, Elements
<1>. QED
  BY <1>1, <1>3 DEF Order, Listening

\* What is known of the tables holds at all times.
LEMMA TablesInvariant == Spec => []Tables
BY ServerIsStore, StoreTheory!StoreInvariant, ServerInvariant, PTL DEF Tables

\* What a connection has read, what is under way to it and what its thread holds is one
\* stream, in the order of each sender, and ahead of all that is still in the table.
THEOREM OrderedInvariant == Spec => []Ordered
BY InitOrdered, NextOrdered, TablesInvariant, PTL DEF Spec

\* A program receives the messages of one connection in the order they were stored, also
\* when several answers bring them and keys are used again.
THEOREM ReceivedInOrderAlways == Spec => []ReceivedInOrder
<1>1. Ordered => ReceivedInOrder
  BY DEF Ordered, Order, InOrder, SortedRows, Precedes, ReceivedInOrder
<1>. QED
  BY <1>1, OrderedInvariant, PTL

-----------------------------------------------------------------------------
(* The server as an implementation of Mailbox. *)

Tags(S) == {Tag(m) : m \in S}

\* What Mailbox sees of connection c.
LEMMA MailSees ==
  ASSUME NEW c \in Conn
  PROVE  /\ InHand(c) = AtHand(outbox[c], Hand(c))
         /\ InHand(c)' = AtHand(outbox[c], Hand(c))'
BY ErrorRows DEF InHand, AtHand, Hand

\* A tag is a letter, and tells the messages apart.
LEMMA TagsDistinct ==
  ASSUME Tables
  PROVE  /\ \A m \in posted : m.by \in Conn /\ m.uid \in Nat /\ m.uid < nextUid
         /\ \A m, n \in posted : Tag(m) = Tag(n) => m = n
         /\ \A m, n \in posted : m.uid = n.uid => m = n
         /\ messages \subseteq posted /\ nextUid \in Nat
<1>. USE DEF Tables, StoreTheory!StoreInv
<1>1. /\ \A m \in posted : m.by \in Conn /\ m.uid \in 0 .. MaxMessages - 1
      /\ nextUid \in 0 .. MaxMessages
  BY DEF StoreTheory!TypeOK, StoreTheory!MessageRow
<1>. QED
  BY <1>1 DEF StoreTheory!Origins, Tag

\* Connections break or stay, and no letter moves elsewhere.
Loses(c) ==
  /\ received'[c] = received[c]
  /\ InHand(c)' \subseteq InHand(c)
  /\ Broken(c)' \/ (~Broken(c) /\ InHand(c)' = InHand(c))

\* When connections at most lose messages, letters break away or stay.
LEMMA LosingIsBreak ==
  ASSUME Tables, UNCHANGED <<messages, nextUid, raced>>, \A c \in Conn : Loses(c)
  PROVE  Mail!Break
<1>1. \A c \in Conn : InHand(c) \subseteq posted
  BY HadPosted, MailSees DEF Had, Tables
<1>2. \A c \in Conn : Tags(InHand(c)) \subseteq Conn \X Nat
  BY <1>1, TagsDistinct DEF Tags, Tag
<1>3. \A c \in Conn : Tags(InHand(c))' \subseteq Tags(InHand(c))
  BY DEF Loses, Tags
<1>4. \A c \in Conn : ~Broken(c)' => ~Broken(c) /\ Tags(InHand(c))' = Tags(InHand(c))
  BY DEF Loses, Tags
<1>5. \A c \in Conn : [i \in DOMAIN received[c] |-> Tag(received[c][i])]'
                      = [i \in DOMAIN received[c] |-> Tag(received[c][i])]
  BY DEF Loses, Tag
<1>6. {Tag(row) : row \in messages}' = {Tag(row) : row \in messages}
  BY DEF Tag
<1>. QED
  BY <1>2, <1>3, <1>4, <1>5, <1>6 DEF Mail!Break, Mail!Letter, Tags

\* A connection at which nothing is added to the stream.
LEMMA QuietLoses ==
  ASSUME Tables, Ordered, NEW c \in Conn, Quiet(c)
  PROVE  Loses(c)
<1>1. Inv /\ InOrder(received[c], outbox[c], Hand(c))
  BY DEF Tables, Ordered, Order
<1>2. /\ AtHand(outbox[c], Hand(c))' \subseteq AtHand(outbox[c], Hand(c))
      /\ Broken(c)' \/ AtHand(outbox[c], Hand(c))' = AtHand(outbox[c], Hand(c))
  BY <1>1, QuietStream
<1>3. InHand(c) = AtHand(outbox[c], Hand(c)) /\ InHand(c)' = AtHand(outbox[c], Hand(c))'
  BY MailSees
<1>. QED
  BY <1>2, <1>3 DEF Loses, Quiet

\* So it is when a step adds nothing to any stream.
LEMMA QuietStepIsBreak ==
  ASSUME Tables, Ordered, UNCHANGED <<messages, nextUid, raced>>, NEW c \in Conn, QuietStep(c)
  PROVE  Mail!Break
BY StillQuiet, QuietLoses, LosingIsBreak DEF QuietStep

\* The other steps are Mailbox's own.  A message is stored.
LEMMA AnswerSendPosts ==
  ASSUME Tables, ~raced, NEW c \in Conn, AnswerSend(c)
  PROVE  Mail!Post(c) \/ UNCHANGED <<messages, nextUid, raced>>
<1>. SUFFICES ASSUME ~UNCHANGED <<messages, nextUid, raced>> PROVE Mail!Post(c)
  OBVIOUS
<1>1. PICK row :
        /\ row.by = c /\ row.uid = nextUid
        /\ messages' = messages \cup {row} /\ nextUid' = nextUid + 1 /\ raced' = raced
  <2>1. ~Store!AddMessageFails(c)
    BY DEF Store!AddMessageFails, Store!Drop
  <2>2. PICK id, to, from, content : Store!AddMessage(c, id, to, from, content)
    BY <2>1 DEF AnswerSend
  <2>. DEFINE new == [id |-> id, to |-> to, from |-> from, content |-> content,
                      uid |-> nextUid, by |-> c]
  <2>3. new.by = c /\ new.uid = nextUid
    OBVIOUS
  <2>4. messages' = messages \cup {new} /\ nextUid' = nextUid + 1 /\ raced' = raced
    BY <2>2 DEF Store!AddMessage
  <2>. HIDE DEF new
  <2>. QED
    BY <2>3, <2>4
<1>2. UNCHANGED <<outbox, peer, received>> /\ stage[c] = "answer"
  BY DEF AnswerSend, Answering, wireVars, userVars
<1>3. \/ stage' = [stage EXCEPT ![c] = "dead"] /\ reply' = reply
      \/ /\ stage' = [stage EXCEPT ![c] = "send"]
         /\ \E a : reply' = [reply EXCEPT ![c] = a] /\ Rows(a) = {}
  <2>1. \A id, to : Rows([code |-> "sent", to |-> to, id |-> id]) = {}
    BY DEF Rows
  <2>. QED
    BY <2>1 DEF AnswerSend, Reply, GoTo
<1>4. \A d \in Conn : InHand(d)' = InHand(d)
  <2>. SUFFICES ASSUME NEW d \in Conn PROVE InHand(d)' = InHand(d)
    OBVIOUS
  <2>1. CASE d = c
    <3>1. Rows(Hand(c)) = {}
      BY <1>2, ErrorRows DEF Hand
    <3>2. Rows(Hand(c)') = {}
      BY <1>3, ErrorRows DEF Hand, Tables, Inv, ThreadsOK
    <3>3. AtHand(outbox[c], Hand(c)) = UNION {Rows(outbox[c][i]) : i \in DOMAIN outbox[c]}
      BY <3>1 DEF AtHand
    <3>4. AtHand(outbox[c], Hand(c)') = UNION {Rows(outbox[c][i]) : i \in DOMAIN outbox[c]}
      BY <3>2 DEF AtHand
    <3>. QED
      BY <1>2, <2>1, <3>3, <3>4, MailSees
  <2>2. CASE d # c
    <3>1. outbox'[d] = outbox[d] /\ stage'[d] = stage[d] /\ reply'[d] = reply[d]
      BY <1>2, <1>3, <2>2 DEF Tables, Inv, ThreadsOK
    <3>. QED
      BY <3>1 DEF InHand, Rows
  <2>. QED
    BY <2>1, <2>2
<1>5. /\ \A d \in Conn \ {c} : Broken(d)' = Broken(d)
      /\ Broken(c)' = Broken(c) \/ Broken(c)'
  BY <1>2, <1>3 DEF Broken, Tables, Inv, ThreadsOK
<1>6. {Tag(m) : m \in messages}' = {Tag(m) : m \in messages} \cup {<<c, nextUid>>}
  <2>1. Tag(row) = <<c, nextUid>>
    BY <1>1 DEF Tag
  <2>2. {Tag(m) : m \in messages}' = {Tag(m) : m \in messages \cup {row}}
    BY <1>1 DEF Tag
  <2>. QED
    BY <2>1, <2>2
<1>7. [d \in Conn |-> {Tag(m) : m \in InHand(d)}]' = [d \in Conn |-> {Tag(m) : m \in InHand(d)}]
  BY <1>4 DEF Tag
<1>8. \A d \in Conn : [i \in DOMAIN received[d] |-> Tag(received[d][i])]'
                      = [i \in DOMAIN received[d] |-> Tag(received[d][i])]
  BY <1>2 DEF Tag
<1>9. LET up == [d \in Conn |-> ~Broken(d)] IN up' = up \/ up' = [up EXCEPT ![c] = FALSE]
  BY <1>5
<1>10. [d \in Conn |-> [i \in DOMAIN received[d] |-> Tag(received[d][i])]]'
       = [d \in Conn |-> [i \in DOMAIN received[d] |-> Tag(received[d][i])]]
  BY <1>8
<1>. QED
  BY <1>1, <1>6, <1>7, <1>9, <1>10, ZenonT(60) DEF Mail!Post

\* GET_MESSAGES begins an answer, and an answer goes out.
LEMMA AnswerGetIsBreak ==
  ASSUME Tables, Ordered, NEW c \in Conn, AnswerGet(c), ~raced'
  PROVE  Mail!Break
<1>1. UNCHANGED <<messages, nextUid, raced>>
  BY AnswerGetQuiet DEF Tables, StoreTheory!StoreInv, StoreTheory!TypeOK, AnswerGet,
                        Store!GetMessages
<1>2. \A d \in Conn : Quiet(d)
  BY AnswerGetQuiet, StillQuiet DEF Tables
<1>. QED
  BY <1>1, <1>2, QuietLoses, LosingIsBreak

\* An answer that goes out stays at hand.
LEMMA SendIsBreak ==
  ASSUME Tables, Ordered, NEW c \in Conn, Send(c), peer[c] # "gone"
  PROVE  Mail!Break
<1>1. /\ AtHand(outbox[c], Hand(c))' = AtHand(outbox[c], Hand(c))
      /\ UNCHANGED <<messages, nextUid, raced, peer, received>>
      /\ stage[c] = "send" /\ stage'[c] = "recv"
      /\ \A d \in Conn \ {c} : Still(d)
  BY SendStream
<1>2. Loses(c)
  BY <1>1, MailSees DEF Loses, Broken
<1>3. \A d \in Conn \ {c} : Loses(d)
  BY <1>1, StillQuiet, QuietLoses
<1>. QED
  BY <1>1, <1>2, <1>3, LosingIsBreak

\* A connection at which nothing happens, as Mailbox sees it.
LEMMA StillMail ==
  ASSUME NEW d \in Conn, Still(d)
  PROVE  /\ InHand(d)' = InHand(d) /\ Broken(d)' = Broken(d) /\ received'[d] = received[d]
BY MailSees DEF Still, Hand, Broken

\* A row that is taken out of the table is still there, and the only one with its key.
LEMMA TakeTakes ==
  ASSUME Tables, Ordered, ~raced, NEW c \in Conn, Take(c)
  PROVE  \E letter \in {Tag(row) : row \in messages} : Mail!Take(c, letter)
<1>1. PICK row : Taken(c, row)
  BY TakeStream
<1>2. /\ row \in batch[c] /\ messages' = {m \in messages : m.id # row.id}
      /\ UNCHANGED <<stage, peer, received, nextUid, raced>>
      /\ InHand(c)' = InHand(c) \cup {row}
      /\ \A d \in Conn \ {c} : Still(d)
  BY <1>1, MailSees, TakeStream DEF Taken
<1>3. row \in messages /\ messages' = messages \ {row}
  BY <1>2 DEF Tables, StoreTheory!StoreInv, StoreTheory!Batches, StoreTheory!Origins
<1>4. Tags(messages)' = Tags(messages) \ {Tag(row)} /\ Tag(row) \in Tags(messages)
  BY <1>3, TagsDistinct DEF Tags, Tag
<1>5. /\ Tags(InHand(c))' = Tags(InHand(c)) \cup {Tag(row)}
      /\ \A d \in Conn \ {c} : Tags(InHand(d))' = Tags(InHand(d))
  BY <1>2, StillMail DEF Tags, Tag
<1>6. [d \in Conn |-> [i \in DOMAIN received[d] |-> Tag(received[d][i])]]'
      = [d \in Conn |-> [i \in DOMAIN received[d] |-> Tag(received[d][i])]]
  BY <1>2 DEF Tag
<1>7. [d \in Conn |-> ~Broken(d)]' = [d \in Conn |-> ~Broken(d)]
  BY <1>2 DEF Broken
<1>8. [d \in Conn |-> Tags(InHand(d))]'
      = [[d \in Conn |-> Tags(InHand(d))] EXCEPT ![c] = @ \cup {Tag(row)}]
  BY <1>5
<1>9. Mail!Take(c, Tag(row))
  BY <1>2, <1>4, <1>6, <1>7, <1>8 DEF Mail!Take, Tags
<1>. QED
  BY <1>4, <1>9 DEF Tags

\* The messages of one answer are different ones: there are not more than were stored.
LEMMA RowsDiffer ==
  ASSUME Tables, NEW rows \in Seq(posted), SortedRows(rows)
  PROVE  /\ Len(rows) \in 0 .. nextUid
         /\ \A i, j \in DOMAIN rows : Tag(rows[i]) = Tag(rows[j]) => i = j
<1>1. PICK n \in Nat : n = Len(rows) /\ DOMAIN rows = 1 .. n
  OBVIOUS
<1>2. \A i \in 1 .. n : rows[i] \in posted
  BY <1>1
<1>3. ASSUME NEW i \in 1 .. n, NEW j \in 1 .. n, rows[i].uid = rows[j].uid PROVE i = j
  <2>1. rows[i] = rows[j] /\ rows[i].uid \in Nat
    BY <1>2, <1>3, TagsDistinct
  <2>2. ~Precedes(rows[i], rows[j]) /\ ~Precedes(rows[j], rows[i])
    BY <2>1 DEF Precedes
  <2>3. ~(i < j) /\ ~(j < i)
    BY <1>1, <2>2 DEF SortedRows
  <2>. QED
    BY <2>3
<1>4. nextUid \in Nat /\ \A i \in 1 .. n : rows[i].uid \in 0 .. nextUid - 1
  BY <1>2, TagsDistinct
<1>. DEFINE rank == [i \in 1 .. n |-> rows[i].uid]
<1>5. rank \in Injection(1 .. n, 0 .. nextUid - 1)
  BY <1>3, <1>4 DEF Injection, IsInjective
<1>6. IsFiniteSet(0 .. nextUid - 1) /\ Cardinality(0 .. nextUid - 1) = nextUid
  BY <1>4, FS_Interval
<1>7. Cardinality(1 .. n) = n
  BY FS_Interval
<1>8. n <= nextUid
  BY <1>5, <1>6, <1>7, FS_Injection
<1>9. \A i, j \in 1 .. n : Tag(rows[i]) = Tag(rows[j]) => i = j
  BY <1>3 DEF Tag
<1>. QED
  BY <1>1, <1>4, <1>8, <1>9

TagsOf(s) == [i \in DOMAIN s |-> Tag(s[i])]

Alike(rec, rows) == \E S : rec \in Seq(S) /\ rows \in Seq(S)

\* Tags of two sequences one after the other.
LEMMA TagsJoin ==
  ASSUME NEW rec, NEW rows, Alike(rec, rows)
  PROVE  TagsOf(rec \o rows) = TagsOf(rec) \o TagsOf(rows)
<1>0. PICK S : rec \in Seq(S) /\ rows \in Seq(S)
  BY DEF Alike
<1>1. PICK m \in Nat, n \in Nat : m = Len(rec) /\ n = Len(rows)
  BY <1>0
<1>2. /\ DOMAIN rec = 1 .. m /\ DOMAIN rows = 1 .. n
      /\ DOMAIN (rec \o rows) = 1 .. m + n
      /\ \A i \in 1 .. m + n : (rec \o rows)[i] = IF i <= m THEN rec[i] ELSE rows[i - m]
  BY <1>0, <1>1
<1>. DEFINE T == {Tag(rec[i]) : i \in 1 .. m} \cup {Tag(rows[i]) : i \in 1 .. n}
<1>3. PICK u, v : u = TagsOf(rec) /\ v = TagsOf(rows)
  OBVIOUS
<1>4. /\ u = [i \in 1 .. m |-> Tag(rec[i])] /\ v = [i \in 1 .. n |-> Tag(rows[i])]
  BY <1>2, <1>3 DEF TagsOf
<1>5. u \in Seq(T) /\ v \in Seq(T) /\ Len(u) = m /\ Len(v) = n
  <2>1. u \in [1 .. m -> T] /\ v \in [1 .. n -> T]
    BY <1>4
  <2>. HIDE DEF T
  <2>. QED
    BY <2>1
<1>6. u \o v = [i \in 1 .. m + n |-> IF i <= m THEN u[i] ELSE v[i - m]]
  <2>. HIDE DEF T
  <2>1. /\ u \o v \in Seq(T) /\ Len(u \o v) = m + n
        /\ \A i \in 1 .. m + n : (u \o v)[i] = IF i <= m THEN u[i] ELSE v[i - m]
    BY <1>5
  <2>2. PICK w : w = u \o v
    OBVIOUS
  <2>3. w = [i \in 1 .. m + n |-> w[i]]
    <3>1. PICK k \in Nat : k = m + n
      OBVIOUS
    <3>2. w \in Seq(T) /\ Len(w) = k
      BY <2>1, <2>2, <3>1
    <3>3. w \in [1 .. k -> T]
      BY <3>2
    <3>. QED
      BY <3>1, <3>3
  <2>. QED
    BY <2>1, <2>2, <2>3
<1>7. \A i \in 1 .. m + n :
        Tag((rec \o rows)[i]) = IF i <= m THEN u[i] ELSE v[i - m]
  <2>. SUFFICES ASSUME NEW i \in 1 .. m + n
                PROVE  Tag((rec \o rows)[i]) = IF i <= m THEN u[i] ELSE v[i - m]
    OBVIOUS
  <2>1. CASE i <= m
    <3>1. i \in 1 .. m
      BY <2>1
    <3>. QED
      BY <1>2, <1>4, <2>1, <3>1
  <2>2. CASE ~(i <= m)
    <3>1. i - m \in 1 .. n
      BY <2>2
    <3>. QED
      BY <1>2, <1>4, <2>2, <3>1
  <2>. QED
    BY <2>1, <2>2
<1>8. TagsOf(rec \o rows) = [i \in 1 .. m + n |-> Tag((rec \o rows)[i])]
  BY <1>2 DEF TagsOf
<1>. QED
  BY <1>3, <1>6, <1>7, <1>8

\* The program reads messages: they are new to it, and follow those of before.
LEMMA ReadAnswerDelivers ==
  ASSUME Tables, Ordered, NEW c \in Conn, ReadAnswer(c), Head(outbox[c]).code = "messages"
  PROVE  \E n \in 0 .. nextUid : \E s \in [1 .. n -> {Tag(row) : row \in InHand(c)}] :
           Mail!Deliver(c, s)
<1>1. /\ InOrder(received[c], outbox[c], Hand(c))'
      /\ InHand(c) = InHand(c)' \cup Rows(Head(outbox[c]))
      /\ Before(Rows(Head(outbox[c])), InHand(c)')
      /\ UNCHANGED <<messages, nextUid, raced, stage>>
      /\ \A d \in Conn \ {c} : Still(d)
  BY ReadAnswerStream, MailSees
<1>2. /\ outbox[c] # <<>> /\ outbox[c] \in Seq(Answer) /\ received[c] \in Seq(posted)
      /\ received'[c] = received[c] \o Head(outbox[c]).rows
      /\ peer[c] = "waiting" /\ peer'[c] = "ready"
  BY DEF ReadAnswer, Tables, Inv, UsersOK, WiresOK
<1>3. PICK rows \in Seq(posted) : rows = Head(outbox[c]).rows
  <2>1. Head(outbox[c]) \in Answer
    BY <1>2
  <2>. QED
    BY <2>1 DEF Answer, Error
<1>4. Rows(Head(outbox[c])) = Elements(rows) /\ SortedRows(rows)
  <2>1. 1 \in DOMAIN outbox[c] /\ Head(outbox[c]) = outbox[c][1]
    BY <1>2
  <2>. QED
    BY <1>3, <2>1 DEF Rows, Elements, Ordered, Order, InOrder, SortedAnswer
<1>5. PICK n \in 0 .. nextUid : n = Len(rows) /\ DOMAIN rows = 1 .. n
  BY <1>4, RowsDiffer
<1>. DEFINE s == TagsOf(rows)
<1>6. s = [i \in 1 .. n |-> Tag(rows[i])] /\ DOMAIN s = 1 .. n
  BY <1>5 DEF TagsOf
<1>7. s \in [1 .. n -> Tags(InHand(c))]
  BY <1>1, <1>4, <1>5, <1>6 DEF Tags, Elements
<1>8. \A i, j \in DOMAIN s : s[i] = s[j] => i = j
  BY <1>4, <1>5, <1>6, RowsDiffer
<1>9. TagsOf(received[c])' = TagsOf(received[c]) \o s
  <2>1. TagsOf(received[c])' = TagsOf(received'[c])
    BY DEF TagsOf, Tag
  <2>. QED
    <3>1. TagsOf(received[c] \o rows) = TagsOf(received[c]) \o TagsOf(rows)
      BY <1>2, TagsJoin DEF Alike
    <3>. QED
      BY <1>2, <1>3, <2>1, <3>1
<1>10. Mail!InPostedOrder(TagsOf(received[c]) \o s)
  <2>1. SortedRows(received'[c])
    BY <1>1 DEF InOrder
  <2>2. Mail!InPostedOrder(TagsOf(received'[c]))
    BY <2>1 DEF SortedRows, Precedes, Mail!InPostedOrder, TagsOf, Tag
  <2>3. TagsOf(received[c])' = TagsOf(received'[c])
    BY DEF TagsOf, Tag
  <2>. QED
    BY <1>9, <2>2, <2>3
<1>11. Tags(InHand(c))' = Tags(InHand(c)) \ {s[i] : i \in DOMAIN s}
  <2>1. {s[i] : i \in DOMAIN s} = Tags(Elements(rows))
    BY <1>5, <1>6 DEF Tags, Elements
  <2>2. InHand(c) \subseteq posted
    BY HadPosted, MailSees DEF Had, Tables
  <2>3. InHand(c) = InHand(c)' \cup Elements(rows)
    BY <1>1, <1>4
  <2>4. \A m \in Elements(rows), k \in InHand(c)' : Tag(m) # Tag(k)
    <3>1. \A m \in Elements(rows), k \in InHand(c)' : m \in posted /\ k \in posted
      BY <2>2, <2>3
    <3>2. \A m \in posted : ~Precedes(m, m)
      BY TagsDistinct DEF Precedes
    <3>. QED
      BY <1>1, <1>4, <3>1, <3>2, TagsDistinct DEF Before
  <2>5. Tags(InHand(c))' = Tags(InHand(c)')
    BY DEF Tags, Tag
  <2>6. PICK P, Q : P = InHand(c)' /\ Q = InHand(c)
    OBVIOUS
  <2>7. Tags(P) = Tags(Q) \ Tags(Elements(rows))
    BY <2>3, <2>4, <2>6 DEF Tags
  <2>. QED
    BY <2>1, <2>5, <2>6, <2>7
<1>12. \A d \in Conn \ {c} : /\ Tags(InHand(d))' = Tags(InHand(d))
                             /\ TagsOf(received[d])' = TagsOf(received[d])
                             /\ Broken(d)' = Broken(d)
  BY <1>1, StillMail DEF Tags, TagsOf, Tag
<1>13. Broken(c)' = Broken(c)
  BY <1>1, <1>2 DEF Broken
<1>14. /\ [d \in Conn |-> ~Broken(d)]' = [d \in Conn |-> ~Broken(d)]
       /\ [d \in Conn |-> TagsOf(received[d])]'
          = [[d \in Conn |-> TagsOf(received[d])] EXCEPT ![c] = @ \o s]
       /\ [d \in Conn |-> Tags(InHand(d))]'
          = [[d \in Conn |-> Tags(InHand(d))] EXCEPT ![c] = @ \ {s[i] : i \in DOMAIN s}]
       /\ {Tag(row) : row \in messages}' = {Tag(row) : row \in messages}
  BY <1>1, <1>9, <1>11, <1>12, <1>13 DEF Tag
<1>15. Mail!Deliver(c, s)
  BY <1>1, <1>8, <1>10, <1>14 DEF Mail!Deliver, Tags, TagsOf
<1>. QED
  BY <1>5, <1>7, <1>15 DEF Tags

\* An answer without messages changes nothing for Mailbox.
LEMMA ReadAnswerIsBreak ==
  ASSUME Tables, Ordered, NEW c \in Conn, ReadAnswer(c), Head(outbox[c]).code # "messages"
  PROVE  Mail!Break
<1>1. /\ AtHand(outbox[c], Hand(c)) = AtHand(outbox[c], Hand(c))' \cup Rows(Head(outbox[c]))
      /\ UNCHANGED <<messages, nextUid, raced, stage>>
      /\ \A d \in Conn \ {c} : Still(d)
  BY ReadAnswerStream
<1>2. Rows(Head(outbox[c])) = {} /\ received'[c] = received[c]
  BY DEF ReadAnswer, Rows
<1>3. peer[c] = "waiting" /\ peer'[c] = "ready"
  BY DEF ReadAnswer, Tables, Inv, UsersOK
<1>4. Loses(c)
  BY <1>1, <1>2, <1>3, MailSees DEF Loses, Broken
<1>. QED
  BY <1>1, <1>4, StillQuiet, QuietLoses, LosingIsBreak

\* Two readers of one mailbox are not forgotten.
LEMMA RacedStays ==
  ASSUME Inv, [Next]_vars, raced
  PROVE  raced'
<1>1. [Store!Next]_(Store!storeVars)
  BY StoreStep
<1>2. ASSUME NEW S, Store!Drop(S) PROVE raced'
  BY <1>2 DEF Store!Drop
<1>3. ASSUME NEW s, NEW id, NEW to, NEW from, NEW content,
             Store!AddMessage(s, id, to, from, content)
      PROVE  raced'
  BY <1>3 DEF Store!AddMessage
<1>4. ASSUME NEW s, NEW c, NEW row,
             Store!Sync(s) \/ Store!GetMessages(s, c) \/ Store!DeleteMessage(s, row)
      PROVE  raced'
  BY <1>4 DEF Store!Sync, Store!GetMessages, Store!DeleteMessage
<1>. QED
  BY <1>1, <1>2, <1>3, <1>4
     DEF Store!Next, Store!Stop, Store!SyncFails, Store!AddMessageFails, Store!storeVars

\* Every step is one of Mailbox.
LEMMA MailStep == Tables /\ Tables' /\ Ordered /\ [Next]_vars => [Mail!Next]_(Mail!vars)
<1>. SUFFICES ASSUME Tables, Tables', Ordered, [Next]_vars PROVE Mail!Next
  OBVIOUS
<1>1. CASE raced'
  <2>1. raced' = TRUE
    BY <1>1
  <2>. QED
    BY <2>1 DEF Mail!Next, Mail!Share
<1>2. CASE ~raced'
  <2>1. Inv /\ ~raced /\ raced' = raced
    <3>1. raced \in BOOLEAN /\ raced' \in BOOLEAN
      BY DEF Tables, StoreTheory!StoreInv, StoreTheory!TypeOK
    <3>. QED
      BY <1>2, <3>1, RacedStays DEF Tables
  <2>. SUFFICES \/ Mail!Break
                \/ \E c \in Conn :
                     \/ Mail!Post(c)
                     \/ \E letter \in {Tag(row) : row \in messages} : Mail!Take(c, letter)
                     \/ \E n \in 0 .. nextUid :
                          \E s \in [1 .. n -> {Tag(row) : row \in InHand(c)}] : Mail!Deliver(c, s)
    BY DEF Mail!Next
  <2>2. CASE UNCHANGED vars
    <3>1. UNCHANGED <<messages, nextUid, raced>> /\ \A d \in Conn : Still(d)
      BY <2>2 DEF vars, storeVars, threadVars, wireVars, userVars, Still
    <3>. QED
      BY <3>1, StillQuiet, QuietLoses, LosingIsBreak
  <2>3. CASE Restart \/ ProcessEnds
    <3>1. UNCHANGED <<messages, nextUid, raced>>
      BY <2>3 DEF Restart, ProcessEnds, Store!Drop, storeVars
    <3>. QED
      BY <2>1, <2>3, <3>1, CloseQuiet, QuietLoses, LosingIsBreak
  <2>4. ASSUME NEW c \in Conn, MainThread(c) PROVE Mail!Break
    <3>1. UNCHANGED <<messages, nextUid, raced>>
      BY <2>4 DEF MainThread, Accept, FirstEof, FirstUndecodable, FirstLocked, FirstRefused,
                  FirstRefusedRaises, FirstRegister, FirstKnown, StartThread, storeVars
    <3>. QED
      BY <2>1, <2>4, <3>1, MainThreadQuiet, QuietStepIsBreak
  <2>5. ASSUME NEW c \in Conn, Thread(c)
        PROVE  \/ Mail!Break \/ Mail!Post(c)
               \/ \E letter \in {Tag(row) : row \in messages} : Mail!Take(c, letter)
    <3>1. CASE AnswerGet(c)
      BY <1>2, <3>1, AnswerGetIsBreak
    <3>2. CASE Take(c)
      BY <2>1, <3>2, TakeTakes
    <3>3. CASE Send(c) /\ peer[c] # "gone"
      BY <3>3, SendIsBreak
    <3>4. CASE AnswerSend(c)
      BY <2>1, <3>4, AnswerSendPosts, ThreadQuiet, QuietStepIsBreak
    <3>5. CASE \/ Start(c) \/ AnswerRegister(c) \/ AnswerList(c) \/ AnswerKey(c)
               \/ TakeRaises(c) \/ TakeEnds(c) \/ ThreadLocked(c) \/ Bad(c)
               \/ (Send(c) /\ peer[c] = "gone") \/ SendRaises(c) \/ Recv(c) \/ RecvEof(c)
      <4>1. UNCHANGED <<messages, nextUid, raced>>
        BY <3>5 DEF Start, AnswerRegister, AnswerList, AnswerKey, TakeRaises, TakeEnds,
                    ThreadLocked, Bad, Send, SendRaises, Recv, RecvEof, Store!Sync, Store!SyncFails,
                    Store!Drop, storeVars
      <4>. QED
        BY <2>1, <3>5, <4>1, ThreadQuiet, QuietStepIsBreak
    <3>. QED
      BY <2>5, <3>1, <3>2, <3>3, <3>4, <3>5 DEF Thread
  <2>6. ASSUME NEW c \in Conn, Program(c)
        PROVE  \/ Mail!Break
               \/ \E n \in 0 .. nextUid :
                    \E s \in [1 .. n -> {Tag(row) : row \in InHand(c)}] : Mail!Deliver(c, s)
    <3>1. CASE ReadAnswer(c)
      BY <3>1, ReadAnswerDelivers, ReadAnswerIsBreak
    <3>2. CASE Connect(c) \/ Ask(c) \/ ReadEof(c) \/ Quit(c)
      <4>1. UNCHANGED <<messages, nextUid, raced>>
        BY <3>2 DEF Connect, Ask, ReadEof, Quit, storeVars
      <4>. QED
        BY <2>1, <3>2, <4>1, ProgramQuiet, QuietStepIsBreak
    <3>. QED
      BY <2>6, <3>1, <3>2 DEF Program
  <2>. QED
    BY <2>2, <2>3, <2>4, <2>5, <2>6 DEF Next
<1>. QED
  BY <1>1, <1>2

\* Initially there are no letters.
LEMMA MailInit == Init => Mail!Init
<1>. SUFFICES ASSUME Init PROVE Mail!Init
  OBVIOUS
<1>1. nextUid = 0 /\ messages = {} /\ raced = FALSE
  BY DEF Init, Store!Init
<1>2. \A c \in Conn : InHand(c) = {} /\ ~Broken(c) /\ received[c] = <<>>
  BY DEF Init, InHand, Broken
<1>3. {Tag(row) : row \in messages} = {}
  BY <1>1
<1>4. [c \in Conn |-> {Tag(row) : row \in InHand(c)}] = [c \in Conn |-> {}]
  BY <1>2
<1>5. \A c \in Conn : [i \in DOMAIN received[c] |-> Tag(received[c][i])] = <<>>
  BY <1>2
<1>6. [c \in Conn |-> [i \in DOMAIN received[c] |-> Tag(received[c][i])]] = [c \in Conn |-> <<>>]
  BY <1>5
<1>7. [c \in Conn |-> ~Broken(c)] = [c \in Conn |-> TRUE]
  BY <1>2
<1>. QED
  BY <1>1, <1>3, <1>4, <1>6, <1>7 DEF Mail!Init

\* The server keeps the promise about mail.
THEOREM MailboxImplemented == Spec => MailboxService
BY MailInit, MailStep, TablesInvariant, OrderedInvariant, PTL DEF Spec, MailboxService, Mail!Spec

\* What follows from the promise.
MailTheory == INSTANCE MailboxProofs
          WITH Connection <- Conn,
               count      <- nextUid,
               stored     <- {Tag(row) : row \in messages},
               inHand     <- [c \in Conn |-> {Tag(row) : row \in InHand(c)}],
               received   <- [c \in Conn |-> [i \in DOMAIN received[c] |-> Tag(received[c][i])]],
               up         <- [c \in Conn |-> ~Broken(c)],
               shared     <- raced

\* The promise is the one that the theorems of MailboxProofs are about.
LEMMA MailIsTheory ==
  /\ Mail!Init => MailTheory!Init
  /\ [Mail!Next]_(Mail!vars) => [MailTheory!Next]_(MailTheory!vars)
<1>1. Mail!vars = MailTheory!vars /\ Mail!vars' = MailTheory!vars'
  BY DEF Mail!vars, MailTheory!vars
<1>2. Mail!Init => MailTheory!Init
  BY DEF Mail!Init, MailTheory!Init
<1>3. Mail!Next => MailTheory!Next
  BY DEF Mail!Next, MailTheory!Next, Mail!Share, MailTheory!Share, Mail!Post, MailTheory!Post,
         Mail!Take, MailTheory!Take, Mail!Deliver, MailTheory!Deliver, Mail!Break,
         MailTheory!Break, Mail!Letter, MailTheory!Letter, Mail!InPostedOrder,
         MailTheory!InPostedOrder
<1>. QED
  BY <1>1, <1>2, <1>3

\* No message is received twice, on one connection or on two, unless two threads read one
\* mailbox at a time.
THEOREM ReceivedOnceAlways == Spec => []ReceivedOnce
<1>1. MailTheory!OnePlace => ReceivedOnce
  <2>. SUFFICES ASSUME MailTheory!OnePlace, ~raced, NEW c \in Conn, NEW d \in Conn,
                       NEW i \in DOMAIN received[c], NEW j \in DOMAIN received[d],
                       received[c][i] = received[d][j]
                PROVE  c = d /\ i = j
    BY DEF ReceivedOnce
  <2>. DEFINE tags == [e \in Conn |-> [k \in DOMAIN received[e] |-> Tag(received[e][k])]]
  <2>1. \A k \in DOMAIN tags[c], l \in DOMAIN tags[d] :
          tags[c][k] = tags[d][l] => c = d /\ k = l
    BY DEF MailTheory!OnePlace
  <2>2. /\ DOMAIN tags[c] = DOMAIN received[c] /\ DOMAIN tags[d] = DOMAIN received[d]
        /\ tags[c][i] = Tag(received[c][i]) /\ tags[d][j] = Tag(received[d][j])
    OBVIOUS
  <2>. HIDE DEF tags
  <2>. QED
    BY <2>1, <2>2
<1>2. MailTheory!Spec => []MailTheory!OnePlace
  BY MailTheory!OnePlaceAlways
<1>3. Mail!Spec => MailTheory!Spec
  BY MailIsTheory, PTL DEF Mail!Spec, MailTheory!Spec
<1>. QED
  BY <1>1, <1>2, <1>3, MailboxImplemented, PTL DEF MailboxService

-----------------------------------------------------------------------------
(* A request to send is executed at most once, as long as requests reach the   *)
(* server in the pieces that it cuts itself: the run server_fragments shows    *)
(* that otherwise it may be executed again.                                    *)

\* Where the request that was decoded is still to be executed, and where a
\* connection has come to its end.
Act == {"start", "answer"}
End == {"dead", "closed"}

\* What is to be executed at a connection: the request, as number 0, and the pieces.
Place(c)   == (IF stage[c] \in Act THEN {0} ELSE {}) \cup DOMAIN inbox[c]
Piece(c, i) == IF i = 0 THEN request[c] ELSE inbox[c][i]
IsSend(c, i) == Piece(c, i).type = "send"
Serial(c, i) == Piece(c, i).content.serial

IsSeq(s) == \E S : s \in Seq(S)

\* Functions are functions.
Shape ==
  /\ stage = [c \in Conn |-> stage[c]] /\ request = [c \in Conn |-> request[c]]
  /\ inbox = [c \in Conn |-> inbox[c]] /\ peer = [c \in Conn |-> peer[c]]
  /\ asks \in [Conn -> Nat]
  /\ \A c \in Conn : IsSeq(inbox[c])

\* What is posted, and what is to be posted, has the numbers of the program's requests,
\* in their order.
Numbered(c) ==
  /\ \A i \in Place(c) : IsSend(c, i) =>
       Piece(c, i).content.conn = c /\ Serial(c, i) \in 1 .. asks[c]
  /\ \A i, j \in Place(c) : i < j /\ IsSend(c, i) /\ IsSend(c, j) => Serial(c, i) < Serial(c, j)
  /\ \A m \in posted : m.content.conn = c =>
       /\ m.content.serial \in 1 .. asks[c]
       /\ \A i \in Place(c) : IsSend(c, i) => m.content.serial < Serial(c, i)

\* The piece that the decoder cannot read comes after one that it flags: it is never
\* the request of before that is executed in its place.
ShortFollows(c) ==
  \A i \in DOMAIN inbox[c] : inbox[c][i].type = "short" =>
    IF i = 1 THEN request[c].type = "garbled" \/ stage[c] \in End
             ELSE inbox[c][i - 1].type = "garbled"

PiecesOK(c) ==
  /\ Numbered(c)
  /\ ShortFollows(c)
  /\ peer[c] = "off" => stage[c] = "none"

PiecesInv == Shape /\ StoredOnce /\ \A c \in Conn : PiecesOK(c)

\* Initially nothing was asked.
LEMMA PiecesInit == Init => PiecesInv
<1>. SUFFICES ASSUME Init PROVE PiecesInv
  OBVIOUS
<1>1. /\ posted = {} /\ asks = [c \in Conn |-> 0]
      /\ stage = [c \in Conn |-> "none"] /\ inbox = [c \in Conn |-> <<>>]
      /\ request = [c \in Conn |-> Plain("none")] /\ peer = [c \in Conn |-> "off"]
  BY DEF Init, Store!Init
<1>2. \A c \in Conn : inbox[c] \in Seq({})
  BY <1>1
<1>3. Shape
  BY <1>1, <1>2 DEF Shape, IsSeq
<1>4. StoredOnce
  BY <1>1 DEF StoredOnce
<1>5. ASSUME NEW c \in Conn PROVE PiecesOK(c)
  BY <1>1 DEF PiecesOK, Numbered, ShortFollows, Place, Act
<1>. QED
  BY <1>3, <1>4, <1>5 DEF PiecesInv

\* A connection whose requests are left alone, and that goes back to no request.
Unmoved(c) ==
  /\ inbox'[c] = inbox[c] /\ request'[c] = request[c] /\ asks'[c] = asks[c]
  /\ stage'[c] \in Act => stage[c] \in Act
  /\ stage[c] \in End => stage'[c] \in End
  /\ peer'[c] = "off" => peer[c] = "off" /\ (stage[c] = "none" => stage'[c] = "none")

\* A connection at which nothing moves stays as it is known, while others post.
LEMMA UnmovedKeeps ==
  ASSUME NEW c \in Conn, PiecesOK(c), Unmoved(c),
         \A m \in posted' : m.content.conn = c => m \in posted
  PROVE  PiecesOK(c)'
<1>1. Place(c)' \subseteq Place(c) /\ \A i \in Place(c) : Piece(c, i)' = Piece(c, i)
  BY DEF Unmoved, Place, Piece
<1>2. Numbered(c)'
  BY <1>1 DEF PiecesOK, Unmoved, Numbered, IsSend, Serial
<1>3. ShortFollows(c)'
  BY DEF PiecesOK, Unmoved, ShortFollows
<1>. QED
  BY <1>2, <1>3 DEF PiecesOK, Unmoved

\* A step that posts nothing and moves no request.
LEMMA AllUnmovedKeep ==
  ASSUME PiecesInv, UNCHANGED <<posted, inbox, request, asks>>,
         stage' = [c \in Conn |-> stage'[c]], peer' = [c \in Conn |-> peer'[c]],
         \A c \in Conn : Unmoved(c)
  PROVE  PiecesInv'
<1>1. Shape'
  BY DEF PiecesInv, Shape
<1>2. StoredOnce'
  BY DEF PiecesInv, StoredOnce
<1>3. \A c \in Conn : PiecesOK(c)'
  BY UnmovedKeeps DEF PiecesInv
<1>. QED
  BY <1>1, <1>2, <1>3 DEF PiecesInv

\* The same for a step that sets the stage of one connection.
LEMMA StageKeeps ==
  ASSUME PiecesInv, UNCHANGED <<posted, inbox, request, asks, peer>>, NEW c \in Conn, NEW next,
         stage' = [stage EXCEPT ![c] = next],
         stage[c] # "none", next \in Act => stage[c] \in Act, stage[c] \in End => next \in End
  PROVE  PiecesInv'
<1>1. /\ stage' = [d \in Conn |-> stage'[d]] /\ peer' = [d \in Conn |-> peer'[d]]
      /\ stage'[c] = next /\ \A d \in Conn \ {c} : stage'[d] = stage[d]
  BY DEF PiecesInv, Shape
<1>2. \A d \in Conn : Unmoved(d)
  BY <1>1 DEF Unmoved
<1>. QED
  BY <1>1, <1>2, AllUnmovedKeep

-----------------------------------------------------------------------------
(* Steps that move no request. *)

\* Dropping SQL objects posts nothing.
LEMMA StoreKeepsPosted ==
  ASSUME NEW S, Store!Drop(S)
  PROVE  posted' = posted
BY DEF Store!Drop

\* Steps of the main thread and of threads that go from one stage to the next.
LEMMA StageStepsKeep ==
  ASSUME PiecesInv, NEW c \in Conn,
         \/ Accept(c) \/ FirstEof(c) \/ Start(c) \/ AnswerRegister(c) \/ AnswerList(c)
         \/ AnswerKey(c) \/ AnswerGet(c) \/ TakeRaises(c) \/ TakeEnds(c) \/ Bad(c)
         \/ ThreadLocked(c) \/ Send(c) \/ SendRaises(c) \/ RecvEof(c)
  PROVE  PiecesInv'
<1>1. UNCHANGED <<posted, inbox, request, asks, peer>>
  BY StoreKeepsPosted
     DEF Accept, FirstEof, Start, AnswerRegister, AnswerList, AnswerKey, AnswerGet,
         TakeRaises, TakeEnds, ThreadLocked, Bad, Send, SendRaises, RecvEof, Store!Sync,
         Store!SyncFails, Store!GetMessages, storeVars, threadVars, wireVars, userVars
<1>2. PICK next \in {"accepted", "closed", "answer", "dead", "send", "take", "recv"} :
        /\ stage' = [stage EXCEPT ![c] = next]
        /\ stage[c] \in {"backlog", "accepted", "start", "answer", "take", "bad",
                         "send", "recv"}
        /\ next = "answer" => stage[c] = "start"
  BY DEF Accept, FirstEof, Start, AnswerRegister, AnswerList, AnswerKey, AnswerGet,
         TakeRaises, TakeEnds, ThreadLocked, Bad, Send, SendRaises, RecvEof, Answering,
         Reply, GoTo
<1>. QED
  BY <1>1, <1>2, StageKeeps DEF Act, End

\* Steps of the programs that send nothing.
LEMMA ProgramStepsKeep ==
  ASSUME PiecesInv, NEW c \in Conn, Connect(c) \/ ReadAnswer(c) \/ ReadEof(c)
  PROVE  PiecesInv'
<1>1. UNCHANGED <<posted, inbox, request, asks>>
  BY DEF Connect, ReadAnswer, ReadEof, storeVars, threadVars, wireVars
<1>2. PICK p \in {"ready", "gone"}, s \in {"backlog", stage[c]} :
        /\ peer' = [peer EXCEPT ![c] = p] /\ stage' = [stage EXCEPT ![c] = s]
        /\ s = stage[c] \/ peer[c] = "off"
  BY DEF Connect, ReadAnswer, ReadEof, PiecesInv, Shape
<1>3. /\ stage' = [d \in Conn |-> stage'[d]] /\ peer' = [d \in Conn |-> peer'[d]]
      /\ peer'[c] = p /\ stage'[c] = s
      /\ \A d \in Conn \ {c} : stage'[d] = stage[d] /\ peer'[d] = peer[d]
  BY <1>2 DEF PiecesInv, Shape
<1>4. peer[c] = "off" => stage[c] = "none"
  BY DEF PiecesInv, PiecesOK
<1>5. \A d \in Conn : Unmoved(d)
  BY <1>1, <1>2, <1>3, <1>4 DEF Unmoved, Act, End
<1>. QED
  BY <1>1, <1>3, <1>5, AllUnmovedKeep

\* A row that is copied stays posted.
LEMMA TakeKeeps ==
  ASSUME PiecesInv, NEW c \in Conn, Take(c)
  PROVE  PiecesInv'
<1>1. UNCHANGED <<posted, inbox, request, asks, peer, stage>>
  BY DEF Take, Store!DeleteMessage, wireVars, userVars
<1>2. stage' = [d \in Conn |-> stage'[d]] /\ peer' = [d \in Conn |-> peer'[d]]
  BY <1>1 DEF PiecesInv, Shape
<1>. QED
  BY <1>1, <1>2, AllUnmovedKeep DEF Unmoved

\* The process stops, or is started again: no connection goes on.
LEMMA ServerStopsKeep ==
  ASSUME PiecesInv, ProcessEnds \/ Restart
  PROVE  PiecesInv'
<1>1. UNCHANGED <<posted, inbox, request, asks, peer>>
  BY StoreKeepsPosted
     DEF ProcessEnds, Restart, storeVars, threadVars, wireVars, userVars
<1>2. stage' = [c \in Conn |-> IF stage[c] = "none" THEN "none" ELSE "closed"]
  BY DEF ProcessEnds, Restart
<1>3. stage' = [c \in Conn |-> stage'[c]] /\ peer' = [c \in Conn |-> peer'[c]]
  BY <1>1, <1>2 DEF PiecesInv, Shape
<1>4. \A c \in Conn : Unmoved(c)
  BY <1>1, <1>2 DEF Unmoved, Act, End
<1>. QED
  BY <1>1, <1>3, <1>4, AllUnmovedKeep

-----------------------------------------------------------------------------
(* Steps that move a request. *)

\* What is left of a sequence without its first element.
LEMMA TailPieces ==
  ASSUME NEW s, IsSeq(s), s # <<>>
  PROVE  /\ IsSeq(Tail(s)) /\ 1 \in DOMAIN s /\ Head(s) = s[1]
         /\ \A i \in DOMAIN Tail(s) : /\ i \in Nat \ {0} /\ i + 1 \in DOMAIN s
                                      /\ Tail(s)[i] = s[i + 1]
<1>1. PICK S : s \in Seq(S)
  BY DEF IsSeq
<1>2. Tail(s) \in Seq(S) /\ Len(s) \in Nat /\ Len(s) # 0
  BY <1>1
<1>3. PICK n \in Nat : n + 1 = Len(s)
  BY <1>2
<1>4. DOMAIN s = 1 .. n + 1 /\ Len(Tail(s)) = n /\ DOMAIN Tail(s) = 1 .. n
  BY <1>1, <1>2, <1>3
<1>5. \A i \in 1 .. n : Tail(s)[i] = s[i + 1]
  BY <1>1, <1>3, <1>4
<1>. QED
  BY <1>1, <1>2, <1>4, <1>5 DEF IsSeq

\* The first piece goes to the decoder, and what comes out of it is executed, unless
\* it is the end of the connection or an error.
LEMMA PieceMoves ==
  ASSUME PiecesInv, NEW c \in Conn, inbox[c] # <<>>, NEW q, NEW next,
         UNCHANGED <<posted, asks, peer>>,
         inbox' = [inbox EXCEPT ![c] = Tail(@)],
         request' = [request EXCEPT ![c] = q],
         stage' = [stage EXCEPT ![c] = next],
         stage[c] \notin {"none"} \cup End,
         next \in Act => q = Head(inbox[c]),
         next \in End \/ (Head(inbox[c]).type = "garbled" => q.type = "garbled")
  PROVE  PiecesInv'
<1>1. /\ IsSeq(inbox[c]) /\ PiecesOK(c)
      /\ inbox'[c] = Tail(inbox[c]) /\ request'[c] = q /\ stage'[c] = next
      /\ \A d \in Conn \ {c} : Unmoved(d)
  BY DEF PiecesInv, Shape, Unmoved
<1>2. Shape'
  BY <1>1, TailPieces DEF PiecesInv, Shape
<1>3. StoredOnce'
  BY DEF PiecesInv, StoredOnce
<1>4. /\ \A i \in Place(c)' : i \in Nat /\ i + 1 \in Place(c)
      /\ \A i \in Place(c)' : Piece(c, i)' = Piece(c, i + 1)
  <2>. SUFFICES ASSUME NEW i \in Place(c)'
                PROVE  i \in Nat /\ i + 1 \in Place(c) /\ Piece(c, i)' = Piece(c, i + 1)
    OBVIOUS
  <2>1. CASE i \in DOMAIN Tail(inbox[c])
    <3>1. i \in Nat \ {0} /\ i + 1 \in DOMAIN inbox[c] /\ Tail(inbox[c])[i] = inbox[c][i + 1]
      BY <1>1, <2>1, TailPieces
    <3>2. i # 0 /\ i + 1 # 0
      BY <3>1
    <3>3. Piece(c, i)' = Tail(inbox[c])[i] /\ Piece(c, i + 1) = inbox[c][i + 1]
      BY <1>1, <3>2, Zenon DEF Piece
    <3>. QED
      BY <3>1, <3>3 DEF Place
  <2>2. CASE i = 0 /\ next \in Act
    <3>1. 1 \in DOMAIN inbox[c] /\ q = inbox[c][1]
      BY <1>1, <2>2, TailPieces
    <3>. QED
      BY <1>1, <2>2, <3>1 DEF Place, Piece
  <2>. QED
    BY <1>1, <2>1, <2>2 DEF Place
<1>5. Numbered(c)'
  <2>1. Numbered(c)
    BY <1>1 DEF PiecesOK
  <2>2. \A i \in Place(c)' : IsSend(c, i)' = IsSend(c, i + 1) /\ Serial(c, i)' = Serial(c, i + 1)
    BY <1>4 DEF IsSend, Serial
  <2>3. \A i, j \in Place(c)' : i < j => i + 1 < j + 1
    BY <1>4
  <2>. QED
    BY <1>4, <2>1, <2>2, <2>3 DEF Numbered
<1>6. ShortFollows(c)'
  <2>. SUFFICES ASSUME NEW i \in DOMAIN Tail(inbox[c]), Tail(inbox[c])[i].type = "short"
                PROVE  IF i = 1 THEN q.type = "garbled" \/ next \in End
                                ELSE Tail(inbox[c])[i - 1].type = "garbled"
    BY <1>1, ZenonT(80) DEF ShortFollows
  <2>0. /\ i \in Nat \ {0} /\ i + 1 \in DOMAIN inbox[c]
        /\ Tail(inbox[c])[i] = inbox[c][i + 1]
    BY <1>1, TailPieces
  <2>1. /\ i \in Nat \ {0} /\ i + 1 \in DOMAIN inbox[c]
        /\ inbox[c][i + 1].type = "short" /\ (i + 1) - 1 = i /\ i + 1 # 1
    BY <2>0
  <2>2. inbox[c][i].type = "garbled"
    BY <1>1, <2>1, ZenonT(80) DEF PiecesOK, ShortFollows
  <2>3. CASE i = 1
    BY <1>1, <2>2, <2>3, TailPieces
  <2>4. CASE i # 1
    <3>1. PICK S : inbox[c] \in Seq(S)
      BY <1>1 DEF IsSeq
    <3>2. i - 1 \in DOMAIN Tail(inbox[c])
      BY <2>1, <2>4, <3>1
    <3>3. Tail(inbox[c])[i - 1] = inbox[c][(i - 1) + 1] /\ (i - 1) + 1 = i
      BY <1>1, <2>1, <3>2, TailPieces
    <3>. QED
      BY <2>2, <2>4, <3>3
  <2>. QED
    BY <2>3, <2>4
<1>7. PiecesOK(c)'
  BY <1>1, <1>5, <1>6 DEF PiecesOK
<1>8. \A d \in Conn \ {c} : PiecesOK(d)'
  BY <1>1, UnmovedKeeps DEF PiecesInv
<1>. QED
  BY <1>2, <1>3, <1>7, <1>8 DEF PiecesInv

\* The main thread takes the first piece.
LEMMA FirstStepsKeep ==
  ASSUME PiecesInv, NEW c \in Conn,
         \/ FirstUndecodable(c) \/ FirstLocked(c) \/ FirstRefused(c) \/ FirstRefusedRaises(c)
         \/ FirstRegister(c) \/ FirstKnown(c)
  PROVE  PiecesInv'
<1>1. /\ stage[c] = "accepted" /\ inbox[c] # <<>>
      /\ inbox' = [inbox EXCEPT ![c] = Tail(@)]
  BY DEF FirstUndecodable, FirstLocked, FirstRefused, FirstRefusedRaises, FirstRegister,
         FirstKnown, First
<1>2. UNCHANGED <<posted, asks, peer>>
  BY DEF FirstUndecodable, FirstLocked, FirstRefused, FirstRefusedRaises, FirstRegister,
         FirstKnown, StartThread, storeVars, userVars
<1>3. CASE FirstRegister(c) \/ FirstKnown(c)
  <2>1. /\ request' = [request EXCEPT ![c] = Head(inbox[c])]
        /\ stage' = [stage EXCEPT ![c] = "start"]
    BY <1>3 DEF FirstRegister, FirstKnown, StartThread
  <2>. QED
    BY <1>1, <1>2, <2>1, PieceMoves DEF End
<1>4. CASE FirstUndecodable(c) \/ FirstLocked(c) \/ FirstRefused(c) \/ FirstRefusedRaises(c)
  <2>1. PICK next \in End : stage' = [stage EXCEPT ![c] = next]
    BY <1>4 DEF FirstUndecodable, FirstLocked, FirstRefused, FirstRefusedRaises, End
  <2>2. request' = [request EXCEPT ![c] = request[c]]
    BY <1>4 DEF FirstUndecodable, FirstLocked, FirstRefused, FirstRefusedRaises,
                threadVars, PiecesInv, Shape
  <2>3. next \notin Act
    BY <2>1 DEF Act, End
  <2>. QED
    BY <1>1, <1>2, <2>1, <2>2, <2>3, PieceMoves DEF End
<1>. QED
  BY <1>3, <1>4

\* A thread takes the next piece; when the decoder raises, the request of before is
\* not one to send.
LEMMA RecvMoves ==
  ASSUME PiecesInv, NEW c \in Conn, Recv(c)
  PROVE  PiecesInv'
<1>. DEFINE piece == Head(inbox[c])
            q == IF piece.type = "short" THEN request[c] ELSE piece
            next == NextStage(q)
<1>1. /\ stage[c] = "recv" /\ inbox[c] # <<>>
      /\ inbox' = [inbox EXCEPT ![c] = Tail(@)]
      /\ request' = [request EXCEPT ![c] = q] /\ stage' = [stage EXCEPT ![c] = next]
      /\ UNCHANGED <<posted, asks, peer>>
  BY DEF Recv, GoTo, storeVars, userVars
<1>2. piece.type = "short" => q.type = "garbled"
  <2>1. IsSeq(inbox[c]) /\ ShortFollows(c)
    BY DEF PiecesInv, Shape, PiecesOK
  <2>2. 1 \in DOMAIN inbox[c] /\ piece = inbox[c][1]
    BY <1>1, <2>1, TailPieces
  <2>. QED
    BY <1>1, <2>1, <2>2 DEF ShortFollows, End
<1>3. next \in Act => q = piece
  BY <1>2 DEF NextStage, Serviceable, Act
<1>4. piece.type = "garbled" => q.type = "garbled"
  OBVIOUS
<1>. HIDE DEF q, next
<1>. QED
  BY <1>1, <1>3, <1>4, PieceMoves DEF End

\* A program quits, and what it sent may be lost.
LEMMA QuitKeeps ==
  ASSUME PiecesInv, NEW c \in Conn, Quit(c)
  PROVE  PiecesInv'
<1>1. PICK sent \in {inbox[c], <<>>} : inbox' = [inbox EXCEPT ![c] = sent]
  BY DEF Quit
<1>2. /\ UNCHANGED <<posted, request, asks, stage>> /\ peer' = [peer EXCEPT ![c] = "gone"]
  BY DEF Quit, storeVars, threadVars
<1>3. /\ inbox'[c] = sent /\ peer'[c] = "gone"
      /\ \A d \in Conn \ {c} : Unmoved(d)
  BY <1>1, <1>2 DEF PiecesInv, Shape, Unmoved
<1>4. Shape'
  <2>1. <<>> \in Seq({})
    OBVIOUS
  <2>. QED
    BY <1>1, <1>2, <1>3, <2>1 DEF PiecesInv, Shape, IsSeq
<1>5. StoredOnce'
  BY <1>2 DEF PiecesInv, StoredOnce
<1>6. PiecesOK(c)
  BY DEF PiecesInv
<1>7. Place(c)' \subseteq Place(c) /\ \A i \in Place(c)' : Piece(c, i)' = Piece(c, i)
  BY <1>2, <1>3 DEF Place, Piece
<1>8. Numbered(c)'
  BY <1>2, <1>6, <1>7 DEF PiecesOK, Numbered, IsSend, Serial
<1>9. ShortFollows(c)'
  BY <1>2, <1>3, <1>6 DEF PiecesOK, ShortFollows
<1>10. PiecesOK(c)'
  BY <1>3, <1>8, <1>9 DEF PiecesOK
<1>11. \A d \in Conn \ {c} : PiecesOK(d)'
  BY <1>2, <1>3, UnmovedKeeps DEF PiecesInv
<1>. QED
  BY <1>4, <1>5, <1>10, <1>11 DEF PiecesInv

\* What a request is when it arrives, if only the server cuts it.
LEMMA AskedPieces ==
  ASSUME "fragmented" \notin Arrivals, NEW c \in Conn,
         NEW type \in AskTypes \cup {"register"}, NEW q \in Asks(c, type),
         NEW pieces \in Pieces(q)
  PROVE  /\ q.type = type
         /\ q.type = "send" => q.content.conn = c /\ q.content.serial = asks[c] + 1
         /\ \/ pieces = <<q>>
            \/ \E t \in {"garbled", "short"} : pieces = <<Plain("garbled"), Plain(t)>>
<1>1. q.type = type
  BY DEF Asks
<1>2. q.type = "send" => q.content.conn = c /\ q.content.serial = asks[c] + 1
  BY <1>1 DEF Asks
<1>3. \/ pieces = <<q>>
      \/ \E t \in {"garbled", "short"} : pieces = <<Plain("garbled"), Plain(t)>>
  BY DEF Pieces
<1>. QED
  BY <1>1, <1>2, <1>3

\* The next request has the next number.
LEMMA AskMoves ==
  ASSUME PiecesInv, "fragmented" \notin Arrivals, NEW c \in Conn, Ask(c)
  PROVE  PiecesInv'
<1>1. PICK type \in AskTypes \cup {"register"} : \E q \in Asks(c, type) :
        \E pieces \in Pieces(q) : inbox' = [inbox EXCEPT ![c] = @ \o pieces]
  BY DEF Ask
<1>2. PICK q \in Asks(c, type) : \E pieces \in Pieces(q) :
        inbox' = [inbox EXCEPT ![c] = @ \o pieces]
  BY <1>1
<1>3. PICK pieces \in Pieces(q) : inbox' = [inbox EXCEPT ![c] = @ \o pieces]
  BY <1>2
<1>4. /\ UNCHANGED <<posted, request, stage>>
      /\ peer[c] = "ready" /\ peer' = [peer EXCEPT ![c] = "waiting"]
      /\ asks' = [asks EXCEPT ![c] = @ + 1]
  BY DEF Ask, storeVars, threadVars
<1>5. PICK old : old = inbox[c]
  OBVIOUS
<1>6. PICK n \in Nat : n = Len(old) /\ DOMAIN old = 1 .. n
  <2>1. IsSeq(old)
    BY <1>5 DEF PiecesInv, Shape
  <2>2. PICK S : old \in Seq(S)
    BY <2>1 DEF IsSeq
  <2>. QED
    BY <2>2
<1>7. PICK k \in {1, 2} :
        /\ IsSeq(old \o pieces) /\ DOMAIN (old \o pieces) = 1 .. n + k
        /\ \A i \in 1 .. n : (old \o pieces)[i] = old[i]
        /\ \/ k = 1 /\ (old \o pieces)[n + 1] = q
           \/ /\ k = 2 /\ (old \o pieces)[n + 1] = Plain("garbled")
              /\ \E t \in {"garbled", "short"} : (old \o pieces)[n + 2] = Plain(t)
  <2>1. PICK S : old \in Seq(S)
    BY <1>5 DEF PiecesInv, Shape, IsSeq
  <2>2. CASE pieces = <<q>>
    <3>1. old \in Seq(S \cup {q}) /\ pieces \in Seq(S \cup {q})
      BY <2>1, <2>2
    <3>2. /\ old \o pieces \in Seq(S \cup {q}) /\ DOMAIN (old \o pieces) = 1 .. n + 1
          /\ \A i \in 1 .. n : (old \o pieces)[i] = old[i]
          /\ (old \o pieces)[n + 1] = q
      BY <1>6, <2>2, <3>1
    <3>. QED
      BY <3>2 DEF IsSeq
  <2>3. ASSUME NEW t \in {"garbled", "short"}, pieces = <<Plain("garbled"), Plain(t)>>
        PROVE  /\ IsSeq(old \o pieces) /\ DOMAIN (old \o pieces) = 1 .. n + 2
               /\ \A i \in 1 .. n : (old \o pieces)[i] = old[i]
               /\ (old \o pieces)[n + 1] = Plain("garbled")
               /\ (old \o pieces)[n + 2] = Plain(t)
    <3>. PICK a, b : a = Plain("garbled") /\ b = Plain(t)
      OBVIOUS
    <3>1. old \in Seq(S \cup {a, b}) /\ pieces \in Seq(S \cup {a, b}) /\ pieces = <<a, b>>
      BY <2>1, <2>3
    <3>2. /\ old \o pieces \in Seq(S \cup {a, b}) /\ DOMAIN (old \o pieces) = 1 .. n + 2
          /\ \A i \in 1 .. n : (old \o pieces)[i] = old[i]
          /\ (old \o pieces)[n + 1] = a /\ (old \o pieces)[n + 2] = b
      BY <1>6, <3>1
    <3>. QED
      BY <3>2 DEF IsSeq
  <2>4. pieces = <<q>> \/ \E t \in {"garbled", "short"} : pieces = <<Plain("garbled"), Plain(t)>>
    BY AskedPieces
  <2>5. CASE pieces = <<q>>
    BY <2>2, <2>5
  <2>6. CASE \E t \in {"garbled", "short"} : pieces = <<Plain("garbled"), Plain(t)>>
    BY <2>3, <2>6
  <2>. QED
    BY <2>4, <2>5, <2>6
<1>. DEFINE new == old \o pieces
<1>8. /\ inbox'[c] = new /\ peer'[c] = "waiting" /\ asks[c] \in Nat /\ asks'[c] = asks[c] + 1
      /\ \A d \in Conn \ {c} : Unmoved(d)
  BY <1>3, <1>4, <1>5 DEF PiecesInv, Shape, Unmoved
<1>9. q.type \notin {"short", "garbled"}
  BY AskedPieces
<1>10. q.type = "send" => q.content.conn = c /\ q.content.serial = asks[c] + 1
  BY AskedPieces
<1>11. Shape'
  <2>1. asks' \in [Conn -> Nat]
    BY <1>4 DEF PiecesInv, Shape
  <2>2. \A d \in Conn : IsSeq(inbox[d])'
    <3>1. IsSeq(new)
      BY <1>7
    <3>2. \A d \in Conn : inbox'[d] = new \/ inbox'[d] = inbox[d]
      BY <1>8 DEF Unmoved
    <3>. HIDE DEF new
    <3>. QED
      BY <3>1, <3>2, ZenonT(80) DEF PiecesInv, Shape, IsSeq
  <2>3. /\ stage' = [d \in Conn |-> stage'[d]] /\ request' = [d \in Conn |-> request'[d]]
        /\ inbox' = [d \in Conn |-> inbox'[d]] /\ peer' = [d \in Conn |-> peer'[d]]
    BY <1>3, <1>4 DEF PiecesInv, Shape
  <2>. QED
    BY <2>1, <2>2, <2>3 DEF Shape
<1>. HIDE DEF new
<1>12. PiecesOK(c) /\ StoredOnce'
  BY <1>4 DEF PiecesInv, StoredOnce
<1>13. /\ Place(c) \subseteq 0 .. n
       /\ \A i \in Place(c)' : i \in Nat /\ (i \in Place(c) \/ i > n)
       /\ \A i \in Place(c) : Piece(c, i)' = Piece(c, i)
       /\ \A i \in Place(c)' : i > n /\ IsSend(c, i)' => i = n + 1 /\ Piece(c, i)' = q
  <2>1. Place(c)' = Place(c) \cup (n + 1 .. n + k) /\ Place(c) \subseteq 0 .. n
    <3>1. DOMAIN inbox[c] = 1 .. n /\ DOMAIN inbox'[c] = 1 .. n + k
      BY <1>5, <1>6, <1>7, <1>8 DEF new
    <3>2. 1 .. n + k = (1 .. n) \cup (n + 1 .. n + k) /\ 0 \in 0 .. n /\ 1 .. n \subseteq 0 .. n
      BY <1>6, <1>7
    <3>. QED
      BY <1>4, <3>1, <3>2 DEF Place
  <2>2. \A i \in Place(c) : Piece(c, i)' = Piece(c, i)
    BY <1>4, <1>5, <1>6, <1>7, <1>8, <2>1 DEF Piece, new
  <2>3. \A i \in n + 1 .. n + k : Piece(c, i)' = new[i]
    BY <1>8 DEF Piece
  <2>4. \A i \in n + 1 .. n + k : new[i].type = "send" => i = n + 1 /\ new[i] = q
    <3>1. \A t : Plain(t).type = t
      BY DEF Plain
    <3>2. CASE k = 1 /\ new[n + 1] = q
      <4>1. \A i \in n + 1 .. n + k : i = n + 1
        BY <3>2
      <4>. QED
        BY <3>2, <4>1
    <3>3. CASE /\ k = 2 /\ new[n + 1] = Plain("garbled")
               /\ \E t \in {"garbled", "short"} : new[n + 2] = Plain(t)
      <4>1. \A i \in n + 1 .. n + k : i = n + 1 \/ i = n + 2
        BY <3>3
      <4>2. new[n + 1].type # "send" /\ new[n + 2].type # "send"
        BY <3>1, <3>3
      <4>. QED
        BY <4>1, <4>2
    <3>. QED
      BY <1>7, <3>2, <3>3 DEF new
  <2>. QED
    BY <2>1, <2>2, <2>3, <2>4 DEF IsSend
<1>14. Numbered(c)'
  <2>1. Numbered(c)
    BY <1>12 DEF PiecesOK
  <2>2. \A i \in Place(c) : IsSend(c, i)' = IsSend(c, i) /\ Serial(c, i)' = Serial(c, i)
    BY <1>13 DEF IsSend, Serial
  <2>3. \A i \in Place(c)' : i > n /\ IsSend(c, i)' =>
          i = n + 1 /\ Piece(c, i)'.content.conn = c /\ Serial(c, i)' = asks[c] + 1
    BY <1>10, <1>13 DEF IsSend, Serial
  <2>4. \A i \in Place(c)' : IsSend(c, i)' =>
          Piece(c, i)'.content.conn = c /\ Serial(c, i)' \in 1 .. asks[c] + 1
    BY <1>8, <1>13, <2>1, <2>2, <2>3 DEF Numbered
  <2>5. \A i, j \in Place(c)' : i < j /\ IsSend(c, i)' /\ IsSend(c, j)' =>
          Serial(c, i)' < Serial(c, j)'
    <3>. SUFFICES ASSUME NEW i \in Place(c)', NEW j \in Place(c)', i < j,
                         IsSend(c, i)', IsSend(c, j)'
                  PROVE  Serial(c, i)' < Serial(c, j)'
      OBVIOUS
    <3>0. i \in Nat /\ j \in Nat
      BY <1>13
    <3>1. CASE j \in Place(c)
      <4>1. i \in Place(c)
        BY <1>13, <3>0, <3>1
      <4>. QED
        BY <2>1, <2>2, <3>1, <4>1 DEF Numbered
    <3>2. CASE j > n
      <4>1. j = n + 1 /\ Serial(c, j)' = asks[c] + 1
        BY <2>3, <3>2
      <4>2. i \in Place(c)
        BY <1>13, <3>0, <4>1
      <4>3. Serial(c, i)' \in 1 .. asks[c]
        BY <2>1, <2>2, <4>2 DEF Numbered
      <4>. QED
        BY <1>8, <4>1, <4>3
    <3>. QED
      BY <1>13, <3>1, <3>2
  <2>6. \A m \in posted : m.content.conn = c =>
          /\ m.content.serial \in 1 .. asks[c] + 1
          /\ \A i \in Place(c)' : IsSend(c, i)' => m.content.serial < Serial(c, i)'
    <3>. SUFFICES ASSUME NEW m \in posted, m.content.conn = c
                  PROVE  /\ m.content.serial \in 1 .. asks[c] + 1
                         /\ \A i \in Place(c)' : IsSend(c, i)' => m.content.serial < Serial(c, i)'
      OBVIOUS
    <3>1. m.content.serial \in 1 .. asks[c]
      BY <2>1 DEF Numbered
    <3>2. \A i \in Place(c) : IsSend(c, i)' => m.content.serial < Serial(c, i)'
      BY <2>1, <2>2 DEF Numbered
    <3>3. \A i \in Place(c)' : i > n /\ IsSend(c, i)' => m.content.serial < Serial(c, i)'
      BY <1>8, <2>3, <3>1
    <3>. QED
      BY <1>8, <1>13, <3>1, <3>2, <3>3
  <2>. QED
    BY <1>4, <1>8, <2>4, <2>5, <2>6 DEF Numbered
<1>15. ShortFollows(c)'
  <2>. SUFFICES ASSUME NEW i \in 1 .. n + k, new[i].type = "short"
                PROVE  IF i = 1 THEN request[c].type = "garbled" \/ stage[c] \in End
                                ELSE new[i - 1].type = "garbled"
    <3>1. DOMAIN new = 1 .. n + k
      BY <1>7 DEF new
    <3>. QED
      BY <1>4, <1>8, <3>1 DEF ShortFollows
  <2>1. CASE i \in 1 .. n
    <3>1. new[i] = old[i] /\ (i # 1 => i - 1 \in 1 .. n /\ new[i - 1] = old[i - 1])
      BY <1>6, <1>7, <2>1 DEF new
    <3>. QED
      BY <1>5, <1>6, <1>12, <2>1, <3>1 DEF PiecesOK, ShortFollows
  <2>2. CASE i = n + 1
    BY <1>7, <1>9, <2>2 DEF new, Plain
  <2>3. CASE i = n + 2 /\ k = 2
    <3>1. i # 1 /\ i - 1 = n + 1 /\ new[n + 1] = Plain("garbled")
      BY <1>6, <1>7, <2>3 DEF new
    <3>. QED
      BY <3>1 DEF Plain
  <2>. QED
    BY <1>6, <1>7, <2>1, <2>2, <2>3
<1>16. PiecesOK(c)'
  BY <1>8, <1>14, <1>15 DEF PiecesOK
<1>17. \A d \in Conn \ {c} : PiecesOK(d)'
  BY <1>4, <1>8, UnmovedKeeps DEF PiecesInv
<1>. QED
  BY <1>11, <1>12, <1>16, <1>17 DEF PiecesInv

\* A message that is stored has a number that no stored message of the connection has.
LEMMA AnswerSendKeeps ==
  ASSUME PiecesInv, NEW c \in Conn, AnswerSend(c)
  PROVE  PiecesInv'
<1>1. /\ stage[c] = "answer" /\ request[c].type = "send"
      /\ UNCHANGED <<inbox, request, asks, peer>>
  BY DEF AnswerSend, Answering, wireVars, userVars
<1>2. PICK next \in {"send", "dead"} : stage' = [stage EXCEPT ![c] = next]
  BY DEF AnswerSend, Reply, GoTo
<1>3. CASE Store!AddMessageFails(c)
  <2>1. posted' = posted
    BY <1>3, StoreKeepsPosted DEF Store!AddMessageFails
  <2>. QED
    BY <1>1, <1>2, <2>1, StageKeeps DEF Act, End
<1>4. ASSUME NEW id, Store!AddMessage(c, id, request[c].to, request[c].id, request[c].content)
      PROVE  PiecesInv'
  <2>1. PICK row : posted' = posted \cup {row} /\ row.content = request[c].content
    <3>. DEFINE new == [id |-> id, to |-> request[c].to, from |-> request[c].id,
                        content |-> request[c].content, uid |-> nextUid, by |-> c]
    <3>1. posted' = posted \cup {new}
      BY <1>4 DEF Store!AddMessage
    <3>2. new.content = request[c].content
      OBVIOUS
    <3>. HIDE DEF new
    <3>. QED
      BY <3>1, <3>2
  <2>2. /\ stage'[c] = next /\ PiecesOK(c)
        /\ \A d \in Conn \ {c} : Unmoved(d)
    BY <1>1, <1>2 DEF PiecesInv, Shape, Unmoved
  <2>3. 0 \in Place(c) /\ Piece(c, 0) = request[c] /\ IsSend(c, 0)
    BY <1>1 DEF Place, Piece, IsSend, Act
  <2>4. /\ row.content.conn = c /\ row.content.serial \in 1 .. asks[c]
        /\ row.content.serial = Serial(c, 0)
    BY <2>1, <2>2, <2>3 DEF PiecesOK, Numbered, Serial
  <2>5. Shape'
    BY <1>1, <1>2 DEF PiecesInv, Shape
  <2>6. StoredOnce'
    <3>1. \A m \in posted : m.content # row.content
      <4>. SUFFICES ASSUME NEW m \in posted, m.content = row.content PROVE FALSE
        OBVIOUS
      <4>1. m.content.serial < Serial(c, 0) /\ m.content.serial = Serial(c, 0)
        BY <2>2, <2>3, <2>4 DEF PiecesOK, Numbered
      <4>2. asks[c] \in Nat
        BY DEF PiecesInv, Shape
      <4>. QED
        BY <2>4, <4>1, <4>2
    <3>. QED
      BY <2>1, <3>1 DEF PiecesInv, StoredOnce
  <2>7. /\ \A i \in Place(c)' : i \in Place(c) /\ i \in Nat /\ 0 < i
        /\ \A i \in Place(c)' : Piece(c, i)' = Piece(c, i)
    <3>0. PICK S : inbox[c] \in Seq(S)
      BY DEF PiecesInv, Shape, IsSeq
    <3>1. PICK n \in Nat : DOMAIN inbox[c] = 1 .. n
      BY <3>0
    <3>2. Place(c)' = DOMAIN inbox[c]
      BY <1>1, <2>2 DEF Place, Act
    <3>3. Place(c)' \subseteq Place(c)
      BY <3>2 DEF Place
    <3>. QED
      BY <1>1, <3>1, <3>2, <3>3 DEF Piece
  <2>8. Numbered(c)'
    <3>1. Numbered(c)
      BY <2>2 DEF PiecesOK
    <3>2. \A i \in Place(c)' : IsSend(c, i)' = IsSend(c, i) /\ Serial(c, i)' = Serial(c, i)
      BY <2>7 DEF IsSend, Serial
    <3>3. \A i \in Place(c)' : IsSend(c, i)' => row.content.serial < Serial(c, i)'
      BY <2>3, <2>4, <2>7, <3>1, <3>2 DEF Numbered
    <3>. QED
      BY <1>1, <2>1, <2>4, <2>7, <3>1, <3>2, <3>3 DEF Numbered
  <2>9. ShortFollows(c)'
    BY <1>1, <2>2 DEF PiecesOK, ShortFollows, End
  <2>10. PiecesOK(c)'
    BY <1>1, <2>2, <2>8, <2>9 DEF PiecesOK
  <2>11. \A d \in Conn \ {c} : PiecesOK(d)'
    BY <2>1, <2>2, <2>4, UnmovedKeeps DEF PiecesInv
  <2>. QED
    BY <2>5, <2>6, <2>10, <2>11 DEF PiecesInv
<1>. QED
  BY <1>3, <1>4 DEF AnswerSend

-----------------------------------------------------------------------------

\* Every step keeps the invariant.
LEMMA PiecesNext ==
  ASSUME "fragmented" \notin Arrivals
  PROVE  PiecesInv /\ [Next]_vars => PiecesInv'
<1>. SUFFICES ASSUME PiecesInv, [Next]_vars PROVE PiecesInv'
  OBVIOUS
<1>1. CASE UNCHANGED vars
  <2>1. UNCHANGED <<posted, inbox, request, asks, stage, peer>>
    BY <1>1 DEF vars, storeVars, threadVars, wireVars, userVars
  <2>2. stage' = [c \in Conn |-> stage'[c]] /\ peer' = [c \in Conn |-> peer'[c]]
    BY <2>1 DEF PiecesInv, Shape
  <2>. QED
    BY <2>1, <2>2, AllUnmovedKeep DEF Unmoved
<1>2. CASE Restart \/ ProcessEnds
  BY <1>2, ServerStopsKeep
<1>3. ASSUME NEW c \in Conn, MainThread(c) PROVE PiecesInv'
  BY <1>3, StageStepsKeep, FirstStepsKeep DEF MainThread
<1>4. ASSUME NEW c \in Conn, Thread(c) PROVE PiecesInv'
  BY <1>4, StageStepsKeep, TakeKeeps, RecvMoves, AnswerSendKeeps DEF Thread
<1>5. ASSUME NEW c \in Conn, Program(c) PROVE PiecesInv'
  BY <1>5, ProgramStepsKeep, AskMoves, QuitKeeps DEF Program
<1>. QED
  BY <1>1, <1>2, <1>3, <1>4, <1>5 DEF Next

\* The server stores a message once, whatever breaks, stops or is started again in
\* between (AnswerSend, Recv), if requests come in the pieces that the server cuts.
THEOREM StoredOnceAlways ==
  ASSUME "fragmented" \notin Arrivals
  PROVE  Spec => []StoredOnce
<1>1. PiecesInv /\ [Next]_vars => PiecesInv'
  BY PiecesNext
<1>2. PiecesInv => StoredOnce
  BY DEF PiecesInv
<1>. QED
  BY <1>1, <1>2, PiecesInit, PTL DEF Spec

=============================================================================

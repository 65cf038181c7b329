------------------------ MODULE MessageUClientProofs ------------------------
(***************************************************************************)
(* Proofs about the client programs, for every number of users, runs, key  *)
(* pairs, clients and messages: first the types, then the keys.            *)
(*                                                                         *)
(* A public key is kept in five places (the program's pair, me.info, the   *)
(* request and the answer of the registration, the server's table) and a   *)
(* friend's keys in two more.  KeyInv says which of the copies agree in    *)
(* every state, and what a message that is stored or on its way is         *)
(* encrypted with.                                                         *)
(***************************************************************************)
EXTENDS MessageUClient, TLAPS

\* What types alone do not say: a program that runs was started, and a
\* registration that is under way is that of the pair the program holds.
Started ==
  \A u \in User :
    /\ state[u] # "off" => runs[u] >= 1
    /\ state[u] # "waiting" => request[u] = Nothing
    /\ state[u] # "answered" => answer[u] = Nothing
    /\ request[u].type = "register" => request[u].key = rsa[u]
    /\ answer[u].type = "registered" => rsa[u] # None

TypeInv == TypeOK /\ Started

USE MessageUClientAssumption DEF MessageUClientAssumption, Nothing

\* None is no identifier and no key.
LEMMA NoneIsNew == None \notin ClientId /\ None \notin Pair /\ None \notin AesKey
BY DEF ClientId, Pair, AesKey

\* Initially no program runs.
LEMMA InitType == Init => TypeInv
BY DEF Init, TypeInv, TypeOK, Started, Request, Answer

\* The end of a program, whatever ends it.
LEMMA EndsType ==
  ASSUME TypeInv, NEW u \in User, Ends(u), mailbox' \subseteq Message,
         UNCHANGED <<clients, meInfo, runs, pairs>>
  PROVE  TypeInv'
<1>1. /\ state' \in [User -> {"off", "cli", "waiting", "answered", "reading"}]
      /\ id' \in [User -> ClientId \cup {None}] /\ rsa' \in [User -> Pair \cup {None}]
      /\ pubKeys' \in [User -> [ClientId -> Pair \cup {None}]]
      /\ aesKeys' \in [User -> [ClientId -> AesKey \cup {None}]]
  BY DEF Ends, TypeInv, TypeOK
<1>2. /\ request' \in [User -> Request] /\ answer' \in [User -> Answer]
      /\ batch' \in [User -> SUBSET Message] /\ sent' \in [User -> 0 .. MaxSent]
  BY DEF Ends, TypeInv, TypeOK, Request, Answer
<1>3. TypeOK'
  BY <1>1, <1>2 DEF TypeInv, TypeOK
<1>4. \A v \in User \ {u} : /\ state'[v] = state[v] /\ rsa'[v] = rsa[v]
                            /\ request'[v] = request[v] /\ answer'[v] = answer[v]
  BY DEF Ends, TypeInv, TypeOK
<1>5. state'[u] = "off" /\ request'[u] = Nothing /\ answer'[u] = Nothing
  BY DEF Ends, TypeInv, TypeOK
<1>. QED
  BY <1>3, <1>4, <1>5 DEF TypeInv, Started

\* Steps of the user.
LEMMA UserStepsType ==
  ASSUME TypeInv, NEW u \in User,
         \/ Start(u) \/ Exit(u) \/ Register(u) \/ GetMessages(u)
         \/ \E i \in DOMAIN clients : GetPublicKey(u, i)
  PROVE  TypeInv'
<1>1. CASE Start(u)
  <2>1. runs' \in [User -> 0 .. MaxRuns] /\ runs'[u] >= 1
    BY <1>1 DEF Start, TypeInv, TypeOK
  <2>2. id' \in [User -> ClientId \cup {None}] /\ rsa' \in [User -> Pair \cup {None}]
    BY <1>1 DEF Start, TypeInv, TypeOK
  <2>3. TypeOK'
    BY <1>1, <2>1, <2>2 DEF Start, TypeInv, TypeOK
  <2>4. Started'
    <3>1. request[u] = Nothing /\ answer[u] = Nothing
      BY <1>1 DEF Start, TypeInv, Started
    <3>2. \A v \in User \ {u} : rsa'[v] = rsa[v] /\ state'[v] = state[v] /\ runs'[v] = runs[v]
      BY <1>1 DEF Start, TypeInv, TypeOK
    <3>3. state'[u] = "cli"
      BY <1>1 DEF Start, TypeInv, TypeOK
    <3>. QED
      BY <1>1, <2>1, <3>1, <3>2, <3>3 DEF Start, TypeInv, Started
  <2>. QED
    BY <2>3, <2>4 DEF TypeInv
<1>2. CASE Exit(u)
  BY <1>2, EndsType DEF Exit, TypeInv, TypeOK
<1>3. CASE Register(u)
  <2>. DEFINE key == <<u, pairs[u] + 1>>
  <2>1. key \in Pair /\ pairs' \in [User -> 0 .. MaxPairs]
    BY <1>3 DEF Register, TypeInv, TypeOK, Pair
  <2>2. [type |-> "register", key |-> key] \in Request
    BY <2>1 DEF Request
  <2>. HIDE DEF key
  <2>3. /\ rsa' = [rsa EXCEPT ![u] = key]
        /\ Asks(u, [type |-> "register", key |-> key])
        /\ UNCHANGED sent
    BY <1>3 DEF Register, key
  <2>4. TypeOK'
    BY <2>1, <2>2, <2>3 DEF Asks, TypeInv, TypeOK
  <2>5. Started'
    BY <2>1, <2>3 DEF Asks, TypeInv, TypeOK, Started
  <2>. QED
    BY <2>4, <2>5 DEF TypeInv
<1>4. CASE GetMessages(u)
  BY <1>4 DEF GetMessages, Asks, TypeInv, TypeOK, Started, Request
<1>5. ASSUME NEW i \in DOMAIN clients, GetPublicKey(u, i) PROVE TypeInv'
  BY <1>5 DEF GetPublicKey, Asks, TypeInv, TypeOK, Started, Request, ClientId
<1>. QED
  BY <1>1, <1>2, <1>3, <1>4, <1>5

\* A message that is sent is one: its keys are known to the sender.
LEMMA NewMessageType ==
  ASSUME TypeInv, NEW u \in User, NEW i \in DOMAIN clients, NEW type \in Types,
         SendMessage(u, i, type)
  PROVE  NewMessage(u, i, type) \in Message
<1>1. i \in ClientId /\ id[u] \in ClientId
  BY DEF SendMessage, TypeInv, TypeOK, ClientId
<1>2. OwnKey(u) \in AesKey
  BY DEF SendMessage, Asks, OwnKey, AesKey, TypeInv, TypeOK, Started
<1>3. TextKey(u, i) \in AesKey \cup {None} /\ KeyKey(u, i) \in Pair \cup {None}
  BY <1>1 DEF TextKey, KeyKey, TypeInv, TypeOK
<1>4. sent[u] + 1 \in 1 .. MaxSent
  BY DEF SendMessage, TypeInv, TypeOK
<1>. QED
  BY <1>1, <1>2, <1>3, <1>4 DEF NewMessage, Message

\* A message that the user sends has its type.
LEMMA SendMessageType ==
  ASSUME TypeInv, NEW u \in User, NEW i \in DOMAIN clients, NEW type \in Types,
         SendMessage(u, i, type)
  PROVE  TypeInv'
<1>. DEFINE q == [type |-> "send", msg |-> NewMessage(u, i, type)]
<1>1. q \in Request /\ q.type = "send"
  BY NewMessageType DEF Request
<1>. HIDE DEF q
<1>2. Asks(u, q) /\ UNCHANGED <<pairs, rsa>>
  BY DEF SendMessage, q
<1>3. sent' \in [User -> 0 .. MaxSent]
  BY DEF SendMessage, TypeInv, TypeOK
<1>4. TypeOK'
  BY <1>1, <1>2, <1>3 DEF Asks, TypeInv, TypeOK
<1>5. Started'
  BY <1>1, <1>2 DEF Asks, TypeInv, TypeOK, Started
<1>. QED
  BY <1>4, <1>5 DEF TypeInv

-----------------------------------------------------------------------------

\* Whatever the server answers, the program goes on with it.
LEMMA AnswersType ==
  ASSUME TypeInv, NEW u \in User, NEW a \in Answer, Answers(u, a),
         clients' \in Seq(Pair), Len(clients') <= MaxClients,
         mailbox' \subseteq Message, state[u] = "waiting",
         a.type = "registered" => rsa[u] # None
  PROVE  TypeInv'
<1>1. state' \in [User -> {"off", "cli", "waiting", "answered", "reading"}]
  BY DEF Answers, TypeInv, TypeOK
<1>2. request' \in [User -> Request]
  BY DEF Answers, TypeInv, TypeOK, Request
<1>3. answer' \in [User -> Answer]
  BY DEF Answers, TypeInv, TypeOK
<1>4. UNCHANGED <<meInfo, runs, pairs, id, rsa, pubKeys, aesKeys, batch, sent>>
  BY DEF Answers, clientVars
<1>5. TypeOK'
  BY <1>1, <1>2, <1>3, <1>4 DEF TypeInv, TypeOK
<1>6. \A v \in User \ {u} :
        state'[v] = state[v] /\ request'[v] = request[v] /\ answer'[v] = answer[v]
  BY DEF Answers, TypeInv, TypeOK
<1>7. state'[u] = "answered" /\ request'[u] = Nothing /\ answer'[u] = a
  BY DEF Answers, TypeInv, TypeOK
<1>. QED
  BY <1>4, <1>5, <1>6, <1>7 DEF TypeInv, Started

\* A registration adds a client.
LEMMA ServeRegisterType ==
  ASSUME TypeInv, NEW u \in User, ServeRegister(u)
  PROVE  TypeInv'
<1>1. clients \in Seq(Pair) /\ Len(clients) <= MaxClients /\ mailbox' \subseteq Message
  BY DEF ServeRegister, TypeInv, TypeOK
<1>2. state[u] = "waiting" /\ request[u].type = "register"
  BY DEF ServeRegister, Pending
<1>3. request[u].key \in Pair /\ rsa[u] = request[u].key
  <2>1. request[u] \in Request
    BY DEF TypeInv, TypeOK
  <2>2. request[u].key \in Pair
    BY <1>2, <2>1 DEF Request
  <2>3. rsa[u] = request[u].key
    BY <1>2 DEF TypeInv, Started
  <2>. QED
    BY <2>2, <2>3
<1>4. CASE clients' = clients /\ Answers(u, [type |-> "error"])
  <2>1. [type |-> "error"] \in Answer
    BY DEF Answer
  <2>. QED
    BY <1>1, <1>2, <1>4, <2>1, AnswersType
<1>5. CASE /\ Len(clients) < MaxClients
           /\ clients' = Append(clients, request[u].key)
           /\ Answers(u, [type |-> "registered", id |-> Len(clients) + 1])
  <2>1. clients' \in Seq(Pair) /\ Len(clients') <= MaxClients
    BY <1>1, <1>3, <1>5
  <2>2. Len(clients) + 1 \in ClientId
    BY <1>1, <1>5 DEF ClientId
  <2>3. [type |-> "registered", id |-> Len(clients) + 1] \in Answer
    BY <2>2 DEF Answer
  <2>4. rsa[u] # None
    BY <1>3, NoneIsNew
  <2>. QED
    BY <1>1, <1>2, <1>5, <2>1, <2>3, <2>4, AnswersType
<1>. QED
  BY <1>4, <1>5 DEF ServeRegister

\* The steps of the server keep the types.
LEMMA ServerStepsType ==
  ASSUME TypeInv, NEW u \in User,
         \/ ServeRegister(u) \/ ServePublicKey(u) \/ ServeSend(u)
         \/ ServeGet(u) \/ ServeGetBreaks(u)
  PROVE  TypeInv'
<1>1. clients \in Seq(Pair) /\ Len(clients) <= MaxClients /\ mailbox \subseteq Message
  BY DEF TypeInv, TypeOK
<1>2. CASE ServePublicKey(u)
  <2>. DEFINE of == request[u].of
              a == [type |-> "public", id |-> of, key |-> clients[of]]
  <2>1. of \in ClientId /\ clients[of] \in Pair
    BY <1>1, <1>2 DEF ServePublicKey, ClientId
  <2>2. a \in Answer /\ a.type = "public"
    BY <2>1 DEF Answer
  <2>3. state[u] = "waiting" /\ Answers(u, a) /\ UNCHANGED <<clients, mailbox>>
    BY <1>2 DEF ServePublicKey, Pending
  <2>. HIDE DEF a
  <2>4. /\ clients' \in Seq(Pair) /\ Len(clients') <= MaxClients
        /\ mailbox' \subseteq Message
    BY <1>1, <2>3
  <2>. QED
    BY <2>2, <2>3, <2>4, AnswersType
<1>3. CASE ServeSend(u)
  <2>1. request[u].msg \in Message
    <3>1. request[u] \in Request /\ request[u].type = "send"
      BY <1>3 DEF ServeSend, Pending, TypeInv, TypeOK
    <3>. QED
      BY <3>1 DEF Request
  <2>2. [type |-> "sent"] \in Answer
    BY DEF Answer
  <2>3. state[u] = "waiting" /\ mailbox' \subseteq Message
    BY <1>1, <1>3, <2>1 DEF ServeSend, Pending
  <2>. QED
    BY <1>1, <1>3, <2>2, <2>3, AnswersType DEF ServeSend
<1>4. CASE ServeGet(u)
  <2>. DEFINE a == [type |-> "messages", rows |-> MailFor(id[u])]
  <2>1. MailFor(id[u]) \in SUBSET Message
    BY <1>1 DEF MailFor
  <2>2. a \in Answer /\ a.type = "messages"
    BY <2>1 DEF Answer
  <2>3. state[u] = "waiting" /\ Answers(u, a) /\ clients' = clients /\ mailbox' \subseteq Message
    BY <1>1, <1>4 DEF ServeGet, Pending
  <2>. HIDE DEF a
  <2>. QED
    BY <1>1, <2>2, <2>3, AnswersType
<1>5. CASE ServeGetBreaks(u)
  <2>1. mailbox' \subseteq Message
    BY <1>1, <1>5 DEF ServeGetBreaks
  <2>. QED
    BY <1>5, <2>1, EndsType DEF ServeGetBreaks
<1>. QED
  BY <1>2, <1>3, <1>4, <1>5, ServeRegisterType

-----------------------------------------------------------------------------

\* What reading an answer leaves, before the program uses it.
LEMMA ReadsType ==
  ASSUME TypeInv, NEW u \in User, NEW type, Reads(u, type)
  PROVE  /\ answer[u] \in Answer /\ state[u] = "answered" /\ runs[u] >= 1
         /\ request[u] = Nothing
         /\ answer' \in [User -> Answer]
         /\ answer'[u] = Nothing
         /\ \A v \in User \ {u} : answer'[v] = answer[v]
         /\ UNCHANGED <<clients, mailbox, runs, pairs, request, rsa, sent>>
BY DEF Reads, TypeInv, TypeOK, Started, Answer

\* And after, whatever else changes.
LEMMA AfterReadType ==
  ASSUME TypeInv, NEW u \in User, NEW type, Reads(u, type),
         NEW next \in {"cli", "reading"}, state' = [state EXCEPT ![u] = next],
         meInfo' \in [User -> [id : ClientId, key : Pair] \cup {None}],
         id' \in [User -> ClientId \cup {None}],
         pubKeys' \in [User -> [ClientId -> Pair \cup {None}]],
         batch' \in [User -> SUBSET Message],
         UNCHANGED aesKeys
  PROVE  TypeInv'
<1>1. /\ state' \in [User -> {"off", "cli", "waiting", "answered", "reading"}]
      /\ state'[u] = next
      /\ \A v \in User \ {u} : state'[v] = state[v]
  BY DEF TypeInv, TypeOK
<1>2. TypeOK'
  BY <1>1, ReadsType DEF TypeInv, TypeOK
<1>3. Started'
  BY <1>1, ReadsType DEF TypeInv, Started
<1>. QED
  BY <1>2, <1>3 DEF TypeInv

\* Reading an answer keeps the types.
LEMMA ReadStepsType ==
  ASSUME TypeInv, NEW u \in User,
         ReadRegistered(u) \/ ReadPublicKey(u) \/ ReadDone(u) \/ ReadMessages(u)
  PROVE  TypeInv'
<1>1. /\ meInfo \in [User -> [id : ClientId, key : Pair] \cup {None}]
      /\ id \in [User -> ClientId \cup {None}]
      /\ pubKeys \in [User -> [ClientId -> Pair \cup {None}]]
      /\ batch \in [User -> SUBSET Message]
  BY DEF TypeInv, TypeOK
<1>2. CASE ReadRegistered(u)
  <2>1. Reads(u, "registered") /\ answer[u].type = "registered"
    BY <1>2 DEF ReadRegistered, Reads
  <2>2. answer[u].id \in ClientId
    BY <2>1, ReadsType DEF Answer
  <2>3. rsa[u] \in Pair
    BY <2>1 DEF TypeInv, TypeOK, Started
  <2>4. id' \in [User -> ClientId \cup {None}]
    BY <1>1, <1>2, <2>2 DEF ReadRegistered
  <2>5. meInfo' \in [User -> [id : ClientId, key : Pair] \cup {None}]
    BY <1>1, <1>2, <2>2, <2>3 DEF ReadRegistered, WriteMeInfo
  <2>. QED
    BY <1>1, <1>2, <2>1, <2>4, <2>5, AfterReadType DEF ReadRegistered, BackToCli
<1>3. CASE ReadPublicKey(u)
  <2>1. Reads(u, "public") /\ answer[u].type = "public"
    BY <1>3 DEF ReadPublicKey, Reads
  <2>2. answer[u].id \in ClientId /\ answer[u].key \in Pair
    BY <2>1, ReadsType DEF Answer
  <2>3. pubKeys' \in [User -> [ClientId -> Pair \cup {None}]]
    BY <1>1, <1>3, <2>2 DEF ReadPublicKey, SavePubKey
  <2>. QED
    BY <1>1, <1>3, <2>1, <2>3, AfterReadType DEF ReadPublicKey, BackToCli
<1>4. CASE ReadDone(u)
  <2>1. CASE Reads(u, "sent")
    BY <1>1, <1>4, <2>1, AfterReadType DEF ReadDone, BackToCli
  <2>2. CASE Reads(u, "error")
    BY <1>1, <1>4, <2>2, AfterReadType DEF ReadDone, BackToCli
  <2>. QED
    BY <1>4, <2>1, <2>2 DEF ReadDone
<1>5. CASE ReadMessages(u)
  <2>1. Reads(u, "messages") /\ answer[u].type = "messages"
    BY <1>5 DEF ReadMessages, Reads
  <2>2. answer[u].rows \in SUBSET Message
    BY <2>1, ReadsType DEF Answer
  <2>3. batch' \in [User -> SUBSET Message]
    BY <1>1, <1>5, <2>2 DEF ReadMessages
  <2>. DEFINE next == IF answer[u].rows = {} THEN "cli" ELSE "reading"
  <2>4. next \in {"cli", "reading"} /\ state' = [state EXCEPT ![u] = next]
    BY <1>5 DEF ReadMessages
  <2>. HIDE DEF next
  <2>. QED
    BY <1>1, <1>5, <2>1, <2>3, <2>4, AfterReadType DEF ReadMessages
<1>. QED
  BY <1>2, <1>3, <1>4, <1>5

\* Steps through a batch.
LEMMA ConsumeType ==
  ASSUME TypeInv, NEW u \in User, NEW m \in batch[u], NextInBatch(u, m), Consume(u, m),
         aesKeys' \in [User -> [ClientId -> AesKey \cup {None}]]
  PROVE  TypeInv'
<1>1. batch' \in [User -> SUBSET Message]
  BY DEF Consume, TypeInv, TypeOK
<1>2. /\ state' \in [User -> {"off", "cli", "waiting", "answered", "reading"}]
      /\ state[u] = "reading" /\ state'[u] \in {"cli", "reading"}
      /\ \A v \in User \ {u} : state'[v] = state[v]
  BY DEF Consume, NextInBatch, TypeInv, TypeOK
<1>3. UNCHANGED <<clients, mailbox, meInfo, runs, pairs, request, answer, id, rsa,
                  pubKeys, sent>>
  BY DEF Consume
<1>4. TypeOK'
  BY <1>1, <1>2, <1>3 DEF TypeInv, TypeOK
<1>5. Started'
  BY <1>2, <1>3 DEF TypeInv, Started
<1>. QED
  BY <1>4, <1>5 DEF TypeInv

\* So does the loop over the messages of an answer.
LEMMA BatchStepsType ==
  ASSUME TypeInv, NEW u \in User, NEW m \in batch[u], ShowMessage(u, m) \/ ReceiveKey(u, m)
  PROVE  TypeInv'
<1>1. aesKeys \in [User -> [ClientId -> AesKey \cup {None}]] /\ m \in Message
  BY DEF TypeInv, TypeOK
<1>2. CASE ShowMessage(u, m)
  BY <1>1, <1>2, ConsumeType DEF ShowMessage
<1>3. CASE Consume(u, m) /\ aesKeys' = SaveAesKey(u, m) /\ NextInBatch(u, m)
  <2>1. m.from \in ClientId /\ m.aes \in AesKey \cup {None}
    BY <1>1 DEF Message
  <2>2. aesKeys' \in [User -> [ClientId -> AesKey \cup {None}]]
    BY <1>1, <1>3, <2>1 DEF SaveAesKey
  <2>. QED
    BY <1>3, <2>2, ConsumeType
<1>4. CASE Ends(u) /\ UNCHANGED <<clients, mailbox, meInfo, runs, pairs>>
  BY <1>4, EndsType DEF TypeInv, TypeOK
<1>. QED
  BY <1>2, <1>3, <1>4 DEF ReceiveKey

\* Every step keeps the types.
LEMMA TypeInductive == TypeInv /\ [Next]_vars => TypeInv'
<1>. SUFFICES ASSUME TypeInv, [Next]_vars PROVE TypeInv'
  OBVIOUS
<1>1. CASE UNCHANGED vars
  BY <1>1 DEF vars, clientVars, TypeInv, TypeOK, Started
<1>2. CASE Next
  BY <1>2, UserStepsType, SendMessageType, ServerStepsType, ReadStepsType,
     BatchStepsType DEF Next
<1>. QED
  BY <1>1, <1>2

\* The programs and the server keep to the types, for every number of users, runs,
\* pairs, clients and messages.  In particular the registration writes no me.info
\* without a key.
THEOREM TypeCorrect == Spec => []TypeOK
<1>1. TypeInv => TypeOK
  BY DEF TypeInv
<1>. QED
  BY <1>1, InitType, TypeInductive, PTL DEF Spec

-----------------------------------------------------------------------------
(* The keys. *)

\* Key k was made by a program of user v.
MadeBy(k, v) == \E run \in 1 .. runs[v] : k = <<v, run>>

\* A key is under the public key that the server has for its addressee, and is the
\* sender's; a text is under a key of the addressee.
Good(m) ==
  /\ m.to \in DOMAIN clients /\ m.from \in DOMAIN clients
  /\ m.type = "key" => m.under = clients[m.to] /\ MadeBy(m.aes, Owner(m.from))
  /\ m.type \in {"text", "file"} => MadeBy(m.aes, Owner(m.to))

\* What a program holds is its user's.
IdOwned(u) == id[u] # None => id[u] \in DOMAIN clients /\ Owner(id[u]) = u
PairOwned(u) == rsa[u] # None => rsa[u][1] = u

\* me.info is a registration, and that of the program.
FileOfClient(u) ==
  meInfo[u] # None =>
    /\ meInfo[u].id \in DOMAIN clients
    /\ meInfo[u].key = clients[meInfo[u].id] /\ meInfo[u].key[1] = u
FileOfProgram(u) ==
  meInfo[u] # None /\ state[u] # "off" => id[u] = meInfo[u].id /\ rsa[u] = meInfo[u].key

\* While a registration is under way there is no me.info.
Registering(u) ==
  /\ request[u].type = "register" => meInfo[u] = None
  /\ answer[u].type = "registered" =>
       /\ meInfo[u] = None
       /\ answer[u].id \in DOMAIN clients /\ clients[answer[u].id] = rsa[u]

\* Public keys are those of the server, symmetric keys those of their owners.
IsKeyOf(key, i) == i \in DOMAIN clients /\ key = clients[i]
PublicAnswered(u) == answer[u].type = "public" => IsKeyOf(answer[u].key, answer[u].id)
PublicKnown(u) ==
  \A i \in ClientId : pubKeys[u][i] # None => IsKeyOf(pubKeys[u][i], i)
FriendsKnown(u) ==
  \A i \in ClientId :
    aesKeys[u][i] # None => i \in DOMAIN clients /\ MadeBy(aesKeys[u][i], Owner(i))

\* The messages that a program sends and reads.
SendingGood(u) == request[u].type = "send" => Good(request[u].msg)
ArrivingGood(u) == \A m \in Arriving(u) : Good(m)

UserOK(u) ==
  /\ IdOwned(u) /\ PairOwned(u) /\ FileOfClient(u) /\ FileOfProgram(u)
  /\ Registering(u) /\ PublicAnswered(u) /\ PublicKnown(u) /\ FriendsKnown(u)
  /\ SendingGood(u) /\ ArrivingGood(u)

MailboxGood == \A m \in mailbox : Good(m)

KeyInv == TypeInv /\ MailboxGood /\ \A u \in User : UserOK(u)

-----------------------------------------------------------------------------
(* What stays. *)

\* Clients are added, never changed, and runs are counted up.
Grows ==
  /\ \A i \in DOMAIN clients : i \in DOMAIN clients' /\ clients'[i] = clients[i]
  /\ \A v \in User : runs[v] \in Nat /\ runs'[v] \in Nat /\ runs[v] <= runs'[v]

\* Nothing is forgotten where nothing changes.
LEMMA UnchangedGrows ==
  ASSUME TypeInv, UNCHANGED <<clients, runs>>
  PROVE  Grows
BY DEF Grows, TypeInv, TypeOK

\* A client belongs to a user.
LEMMA OwnerIsUser ==
  ASSUME TypeInv, NEW i \in DOMAIN clients
  PROVE  Owner(i) \in User
BY DEF Owner, Pair, TypeInv, TypeOK

\* A key stays the work of its user,
LEMMA MadeByStays ==
  ASSUME Grows, NEW v \in User, NEW k, MadeBy(k, v)
  PROVE  MadeBy(k, v)'
BY DEF Grows, MadeBy

\* a client keeps its owner,
LEMMA OwnerStays ==
  ASSUME Grows, NEW i \in DOMAIN clients
  PROVE  i \in DOMAIN clients' /\ Owner(i)' = Owner(i)
BY DEF Grows, Owner

\* a good message stays good,
LEMMA GoodStays ==
  ASSUME TypeInv, Grows, NEW m, Good(m)
  PROVE  Good(m)'
<1>1. /\ m.to \in DOMAIN clients /\ m.from \in DOMAIN clients
      /\ m.to \in DOMAIN clients' /\ m.from \in DOMAIN clients'
      /\ clients'[m.to] = clients[m.to]
  BY DEF Good, Grows
<1>2. /\ Owner(m.to) \in User /\ Owner(m.from) \in User
      /\ Owner(m.to)' = Owner(m.to) /\ Owner(m.from)' = Owner(m.from)
  BY <1>1, OwnerIsUser, OwnerStays
<1>3. PICK to \in User, from \in User :
        to = Owner(m.to) /\ from = Owner(m.from)
  BY <1>2
<1>4. m.type = "key" => MadeBy(m.aes, from)'
  BY <1>3, MadeByStays DEF Good
<1>5. m.type \in {"text", "file"} => MadeBy(m.aes, to)'
  BY <1>3, MadeByStays DEF Good
<1>. QED
  BY <1>1, <1>2, <1>3, <1>4, <1>5 DEF Good

\* and so does the mailbox.
LEMMA MailboxStays ==
  ASSUME TypeInv, Grows, MailboxGood, mailbox' \subseteq mailbox
  PROVE  MailboxGood'
BY GoodStays DEF MailboxGood

\* Each part stays when what it is about does.
LEMMA PartsStay ==
  ASSUME TypeInv, Grows, NEW v \in User, UserOK(v)
  PROVE  /\ id'[v] = id[v] => IdOwned(v)'
         /\ rsa'[v] = rsa[v] => PairOwned(v)'
         /\ meInfo'[v] = meInfo[v] => FileOfClient(v)'
         /\ meInfo'[v] = meInfo[v] /\ state'[v] = state[v] /\ id'[v] = id[v]
              /\ rsa'[v] = rsa[v] => FileOfProgram(v)'
         /\ request'[v] = request[v] /\ answer'[v] = answer[v] /\ meInfo'[v] = meInfo[v]
              /\ rsa'[v] = rsa[v] => Registering(v)'
         /\ answer'[v] = answer[v] => PublicAnswered(v)'
         /\ pubKeys'[v] = pubKeys[v] => PublicKnown(v)'
         /\ aesKeys'[v] = aesKeys[v] => FriendsKnown(v)'
         /\ request'[v] = request[v] => SendingGood(v)'
         /\ answer'[v] = answer[v] /\ batch'[v] = batch[v] => ArrivingGood(v)'
<1>1. id'[v] = id[v] => IdOwned(v)'
  BY OwnerStays DEF UserOK, IdOwned
<1>2. rsa'[v] = rsa[v] => PairOwned(v)'
  BY DEF UserOK, PairOwned
<1>3. meInfo'[v] = meInfo[v] => FileOfClient(v)'
  BY DEF UserOK, FileOfClient, Grows
<1>4. meInfo'[v] = meInfo[v] /\ state'[v] = state[v] /\ id'[v] = id[v]
        /\ rsa'[v] = rsa[v] => FileOfProgram(v)'
  BY DEF UserOK, FileOfProgram
<1>5. request'[v] = request[v] /\ answer'[v] = answer[v] /\ meInfo'[v] = meInfo[v]
        /\ rsa'[v] = rsa[v] => Registering(v)'
  BY DEF UserOK, Registering, Grows
<1>6. answer'[v] = answer[v] => PublicAnswered(v)'
  BY DEF UserOK, PublicAnswered, IsKeyOf, Grows
<1>7. pubKeys'[v] = pubKeys[v] => PublicKnown(v)'
  BY DEF UserOK, PublicKnown, IsKeyOf, Grows
<1>8. aesKeys'[v] = aesKeys[v] => FriendsKnown(v)'
  <2>. SUFFICES ASSUME aesKeys'[v] = aesKeys[v], NEW i \in ClientId, aesKeys[v][i] # None
                PROVE  i \in DOMAIN clients' /\ MadeBy(aesKeys[v][i], Owner(i))'
    BY DEF FriendsKnown
  <2>1. i \in DOMAIN clients /\ MadeBy(aesKeys[v][i], Owner(i))
    BY DEF UserOK, FriendsKnown
  <2>2. PICK w, k : w \in User /\ w = Owner(i) /\ k = aesKeys[v][i]
    BY <2>1, OwnerIsUser
  <2>3. i \in DOMAIN clients' /\ Owner(i)' = w /\ aesKeys'[v][i] = k
    BY <2>1, <2>2, OwnerStays
  <2>4. MadeBy(k, w)'
    BY <2>1, <2>2, MadeByStays
  <2>. QED
    BY <2>3, <2>4 DEF MadeBy
<1>9. request'[v] = request[v] => SendingGood(v)'
  <2>1. PICK m : m = request[v].msg
    OBVIOUS
  <2>2. request[v].type = "send" => Good(m)'
    BY <2>1, GoodStays DEF UserOK, SendingGood
  <2>. QED
    BY <2>1, <2>2 DEF SendingGood, Good, MadeBy
<1>10. answer'[v] = answer[v] /\ batch'[v] = batch[v] => ArrivingGood(v)'
  <2>1. answer'[v] = answer[v] /\ batch'[v] = batch[v] => Arriving(v)' = Arriving(v)
    BY DEF Arriving
  <2>2. \A m \in Arriving(v) : Good(m)'
    BY GoodStays DEF UserOK, ArrivingGood
  <2>. QED
    BY <2>1, <2>2 DEF ArrivingGood
<1>. QED
  BY <1>1, <1>2, <1>3, <1>4, <1>5, <1>6, <1>7, <1>8, <1>9, <1>10

\* What the programs of other users hold.
Own(v) == <<meInfo[v], state[v], id[v], rsa[v], pubKeys[v], aesKeys[v],
            request[v], answer[v], batch[v]>>

\* A step of user u.
LEMMA StepKeeps ==
  ASSUME KeyInv, TypeInv', Grows, NEW u \in User, MailboxGood', UserOK(u)',
         \A v \in User \ {u} : UNCHANGED Own(v)
  PROVE  KeyInv'
<1>1. ASSUME NEW v \in User \ {u} PROVE UserOK(v)'
  <2>1. UserOK(v) /\ TypeInv
    BY DEF KeyInv
  <2>2. /\ meInfo'[v] = meInfo[v] /\ state'[v] = state[v] /\ id'[v] = id[v]
        /\ rsa'[v] = rsa[v] /\ pubKeys'[v] = pubKeys[v] /\ aesKeys'[v] = aesKeys[v]
        /\ request'[v] = request[v] /\ answer'[v] = answer[v] /\ batch'[v] = batch[v]
    BY DEF Own
  <2>. QED
    BY <2>1, <2>2, PartsStay DEF UserOK
<1>. QED
  BY <1>1 DEF KeyInv

-----------------------------------------------------------------------------

\* Initially there is no key.
LEMMA InitKeys == Init => KeyInv
<1>. SUFFICES ASSUME Init PROVE KeyInv
  OBVIOUS
<1>1. TypeInv /\ MailboxGood
  BY InitType DEF Init, MailboxGood
<1>2. ASSUME NEW u \in User PROVE UserOK(u)
  <2>1. /\ id[u] = None /\ rsa[u] = None /\ meInfo[u] = None
        /\ request[u].type = "none" /\ answer[u].type = "none" /\ batch[u] = {}
    BY DEF Init
  <2>2. \A i \in ClientId : pubKeys[u][i] = None /\ aesKeys[u][i] = None
    BY DEF Init
  <2>3. IdOwned(u) /\ PairOwned(u) /\ FileOfClient(u) /\ FileOfProgram(u)
    BY <2>1 DEF IdOwned, PairOwned, FileOfClient, FileOfProgram
  <2>4. PublicKnown(u) /\ FriendsKnown(u)
    BY <2>2 DEF PublicKnown, FriendsKnown
  <2>5. Registering(u) /\ PublicAnswered(u) /\ SendingGood(u) /\ ArrivingGood(u)
    BY <2>1 DEF Registering, PublicAnswered, SendingGood, ArrivingGood, Arriving
  <2>. QED
    BY <2>3, <2>4, <2>5 DEF UserOK
<1>. QED
  BY <1>1, <1>2 DEF KeyInv

\* The end of a program, whatever ends it: what it had in memory is gone.
LEMMA EndsKeeps ==
  ASSUME KeyInv, NEW u \in User, Ends(u), mailbox' \subseteq mailbox,
         UNCHANGED <<clients, meInfo, runs, pairs>>
  PROVE  KeyInv'
<1>1. TypeInv /\ UserOK(u) /\ MailboxGood /\ mailbox \subseteq Message
  BY DEF KeyInv, TypeInv, TypeOK
<1>2. TypeInv'
  BY <1>1, EndsType
<1>3. Grows /\ MailboxGood'
  BY <1>1, UnchangedGrows, MailboxStays
<1>4. /\ \A v \in User \ {u} : UNCHANGED Own(v)
      /\ id'[u] = None /\ rsa'[u] = None /\ state'[u] = "off"
      /\ request'[u] = Nothing /\ answer'[u] = Nothing /\ batch'[u] = {}
      /\ \A i \in ClientId : pubKeys'[u][i] = None /\ aesKeys'[u][i] = None
  BY <1>1 DEF Ends, Own, TypeInv, TypeOK
<1>5. UserOK(u)'
  <2>1. FileOfClient(u)'
    BY <1>1, <1>3, PartsStay
  <2>2. IdOwned(u)' /\ PairOwned(u)' /\ FileOfProgram(u)'
    BY <1>4 DEF IdOwned, PairOwned, FileOfProgram
  <2>3. PublicKnown(u)' /\ FriendsKnown(u)'
    BY <1>4 DEF PublicKnown, FriendsKnown
  <2>4. Registering(u)' /\ PublicAnswered(u)' /\ SendingGood(u)' /\ ArrivingGood(u)'
    BY <1>4 DEF Registering, PublicAnswered, SendingGood, ArrivingGood, Arriving
  <2>. QED
    BY <2>1, <2>2, <2>3, <2>4 DEF UserOK
<1>. QED
  BY <1>2, <1>3, <1>4, <1>5, StepKeeps

\* A program that starts takes what it holds from me.info.
LEMMA StartKeeps ==
  ASSUME KeyInv, NEW u \in User, Start(u)
  PROVE  KeyInv'
<1>1. TypeInv /\ UserOK(u) /\ MailboxGood
  BY DEF KeyInv
<1>2. TypeInv'
  BY <1>1, UserStepsType
<1>3. Grows
  BY <1>1 DEF Grows, Start, TypeInv, TypeOK
<1>4. MailboxGood'
  BY <1>1, <1>3, MailboxStays DEF Start
<1>5. \A v \in User \ {u} : UNCHANGED Own(v)
  BY <1>1 DEF Start, Own, TypeInv, TypeOK
<1>6. /\ UNCHANGED <<clients, meInfo, pubKeys, aesKeys, request, answer, batch>>
      /\ IF meInfo[u] = None THEN id'[u] = id[u] /\ rsa'[u] = rsa[u]
         ELSE id'[u] = meInfo[u].id /\ rsa'[u] = meInfo[u].key
      /\ request[u] = Nothing /\ answer[u] = Nothing
  BY <1>1 DEF Start, TypeInv, TypeOK, Started
<1>7. UserOK(u)'
  <2>1. /\ FileOfClient(u)' /\ PublicAnswered(u)' /\ PublicKnown(u)'
        /\ FriendsKnown(u)' /\ SendingGood(u)' /\ ArrivingGood(u)'
    BY <1>1, <1>3, <1>6, PartsStay
  <2>2. IdOwned(u)' /\ PairOwned(u)' /\ FileOfProgram(u)'
    BY <1>1, <1>6 DEF UserOK, IdOwned, PairOwned, FileOfClient, FileOfProgram, Owner
  <2>3. Registering(u)'
    BY <1>6 DEF Registering
  <2>. QED
    BY <2>1, <2>2, <2>3 DEF UserOK
<1>. QED
  BY <1>2, <1>3, <1>4, <1>5, <1>7, StepKeeps

-----------------------------------------------------------------------------
(* Requests. *)

\* A request that is not a registration changes what the program waits for.
LEMMA AsksKeeps ==
  ASSUME KeyInv, TypeInv', NEW u \in User, NEW q, Asks(u, q), UNCHANGED rsa,
         q.type # "register", q.type = "send" => Good(q.msg)
  PROVE  KeyInv'
<1>1. TypeInv /\ UserOK(u) /\ MailboxGood
  BY DEF KeyInv
<1>2. Grows
  BY <1>1, UnchangedGrows DEF Asks
<1>3. MailboxGood'
  BY <1>1, <1>2, MailboxStays DEF Asks
<1>4. /\ \A v \in User \ {u} : UNCHANGED Own(v)
      /\ UNCHANGED <<clients, runs, meInfo, answer, id, rsa, pubKeys, aesKeys, batch>>
      /\ request'[u] = q /\ answer[u] = Nothing /\ state[u] # "off"
  BY <1>1 DEF Asks, Own, TypeInv, TypeOK, Started
<1>5. UserOK(u)'
  <2>1. /\ IdOwned(u)' /\ PairOwned(u)' /\ FileOfClient(u)' /\ PublicAnswered(u)'
        /\ PublicKnown(u)' /\ FriendsKnown(u)' /\ ArrivingGood(u)'
    BY <1>1, <1>2, <1>4, PartsStay
  <2>2. FileOfProgram(u)'
    BY <1>1, <1>4 DEF UserOK, FileOfProgram
  <2>3. Registering(u)'
    BY <1>4 DEF Registering
  <2>4. SendingGood(u)'
    <3>1. q.type = "send" => Good(q.msg)'
      BY <1>1, <1>2, GoodStays
    <3>. QED
      BY <1>4, <3>1 DEF SendingGood, Good, MadeBy
  <2>. QED
    BY <2>1, <2>2, <2>3, <2>4 DEF UserOK
<1>. QED
  BY <1>2, <1>3, <1>4, <1>5, StepKeeps

\* A registration begins without a me.info, so no pair that is in use is replaced.
LEMMA RegisterKeeps ==
  ASSUME KeyInv, NEW u \in User, Register(u)
  PROVE  KeyInv'
<1>. DEFINE key == <<u, pairs[u] + 1>>
            q == [type |-> "register", key |-> key]
<1>1. TypeInv /\ UserOK(u) /\ MailboxGood
  BY DEF KeyInv
<1>2. TypeInv'
  BY <1>1, UserStepsType
<1>3. /\ rsa' = [rsa EXCEPT ![u] = key] /\ key[1] = u
      /\ q.type = "register" /\ meInfo[u] = None /\ Asks(u, q)
  BY DEF Register, MayRegister
<1>. HIDE DEF key, q
<1>4. Grows
  BY <1>1, <1>3, UnchangedGrows DEF Asks
<1>5. MailboxGood'
  BY <1>1, <1>3, <1>4, MailboxStays DEF Asks
<1>6. /\ \A v \in User \ {u} : UNCHANGED Own(v)
      /\ UNCHANGED <<meInfo, answer, id, pubKeys, aesKeys, batch>>
      /\ request'[u] = q /\ rsa'[u] = key /\ answer[u] = Nothing
  BY <1>1, <1>3 DEF Asks, Own, TypeInv, TypeOK, Started
<1>7. UserOK(u)'
  <2>1. /\ IdOwned(u)' /\ FileOfClient(u)' /\ PublicAnswered(u)'
        /\ PublicKnown(u)' /\ FriendsKnown(u)' /\ ArrivingGood(u)'
    BY <1>1, <1>4, <1>6, PartsStay
  <2>2. PairOwned(u)' /\ FileOfProgram(u)' /\ Registering(u)' /\ SendingGood(u)'
    BY <1>3, <1>6 DEF PairOwned, FileOfProgram, Registering, SendingGood
  <2>. QED
    BY <2>1, <2>2 DEF UserOK
<1>. QED
  BY <1>2, <1>4, <1>5, <1>6, <1>7, StepKeeps

\* What a program encrypts is under a key that its addressee can use.
LEMMA NewMessageGood ==
  ASSUME KeyInv, NEW u \in User, NEW i \in DOMAIN clients, NEW type \in Types,
         SendMessage(u, i, type)
  PROVE  Good(NewMessage(u, i, type))
<1>. DEFINE m == NewMessage(u, i, type)
<1>1. TypeInv /\ UserOK(u)
  BY DEF KeyInv
<1>2. i \in ClientId
  BY <1>1 DEF ClientId, TypeInv, TypeOK
<1>3. id[u] \in DOMAIN clients /\ Owner(id[u]) = u
  BY <1>1 DEF SendMessage, UserOK, IdOwned
<1>4. m.to = i /\ m.from = id[u] /\ m.type = type
  BY DEF NewMessage
<1>5. type = "key" => m.under = clients[i] /\ MadeBy(m.aes, u)
  <2>. SUFFICES ASSUME type = "key" PROVE m.under = clients[i] /\ MadeBy(m.aes, u)
    OBVIOUS
  <2>1. m.under = pubKeys[u][i] /\ pubKeys[u][i] # None /\ m.aes = <<u, runs[u]>>
    BY DEF NewMessage, SendMessage, KeyKey, OwnKey
  <2>2. m.under = clients[i]
    BY <1>1, <1>2, <2>1 DEF UserOK, PublicKnown, IsKeyOf
  <2>3. runs[u] \in 1 .. runs[u]
    BY <1>1 DEF SendMessage, Asks, TypeInv, TypeOK, Started
  <2>. QED
    BY <2>1, <2>2, <2>3 DEF MadeBy
<1>6. type \in {"text", "file"} => MadeBy(m.aes, Owner(i))
  <2>. SUFFICES ASSUME type \in {"text", "file"} PROVE MadeBy(m.aes, Owner(i))
    OBVIOUS
  <2>1. m.aes = aesKeys[u][i] /\ aesKeys[u][i] # None
    BY DEF NewMessage, SendMessage, TextKey
  <2>. QED
    BY <1>1, <1>2, <2>1 DEF UserOK, FriendsKnown
<1>. HIDE DEF m
<1>7. Good(m)
  BY <1>3, <1>4, <1>5, <1>6 DEF Good
<1>. QED
  BY <1>7 DEF m

\* Requests keep the invariant.
LEMMA RequestsKeep ==
  ASSUME KeyInv, NEW u \in User,
         \/ Register(u) \/ GetMessages(u)
         \/ \E i \in DOMAIN clients :
              GetPublicKey(u, i) \/ \E type \in Types : SendMessage(u, i, type)
  PROVE  KeyInv'
<1>0. TypeInv
  BY DEF KeyInv
<1>1. CASE GetMessages(u)
  <2>1. TypeInv'
    BY <1>0, <1>1, UserStepsType
  <2>. QED
    BY <1>1, <2>1, AsksKeeps DEF GetMessages
<1>2. ASSUME NEW i \in DOMAIN clients, GetPublicKey(u, i) PROVE KeyInv'
  <2>1. TypeInv'
    BY <1>0, <1>2, UserStepsType
  <2>. QED
    BY <1>2, <2>1, AsksKeeps DEF GetPublicKey
<1>3. ASSUME NEW i \in DOMAIN clients, NEW type \in Types, SendMessage(u, i, type)
      PROVE  KeyInv'
  <2>1. TypeInv'
    BY <1>0, <1>3, SendMessageType
  <2>2. PICK m : m = NewMessage(u, i, type)
    OBVIOUS
  <2>3. Good(m) /\ Asks(u, [type |-> "send", msg |-> m]) /\ UNCHANGED rsa
    BY <1>3, <2>2, NewMessageGood DEF SendMessage
  <2>. QED
    BY <2>1, <2>3, AsksKeeps
<1>. QED
  BY <1>1, <1>2, <1>3, RegisterKeeps

-----------------------------------------------------------------------------
(* The server's answers. *)

\* What Answers leaves of the program.
LEMMA AnswersOwn ==
  ASSUME TypeInv, NEW u \in User, NEW a, Answers(u, a), state[u] = "waiting"
  PROVE  /\ \A v \in User \ {u} : UNCHANGED Own(v)
         /\ UNCHANGED <<meInfo, runs, id, rsa, pubKeys, aesKeys, batch>>
         /\ request'[u] = Nothing /\ answer'[u] = a /\ state[u] # "off"
BY DEF Answers, clientVars, Own, TypeInv, TypeOK

\* An answer may give a registration, a public key, or messages.
LEMMA AnswersKeep ==
  ASSUME KeyInv, TypeInv', Grows, MailboxGood', NEW u \in User, NEW a, Answers(u, a),
         state[u] = "waiting",
         a.type = "registered" =>
           meInfo[u] = None /\ a.id \in DOMAIN clients' /\ clients'[a.id] = rsa[u],
         a.type = "public" => a.id \in DOMAIN clients' /\ a.key = clients'[a.id],
         a.type = "messages" => \A m \in a.rows : Good(m)'
  PROVE  KeyInv'
<1>1. TypeInv /\ UserOK(u)
  BY DEF KeyInv
<1>2. /\ \A v \in User \ {u} : UNCHANGED Own(v)
      /\ UNCHANGED <<meInfo, runs, id, rsa, pubKeys, aesKeys, batch>>
      /\ request'[u] = Nothing /\ answer'[u] = a /\ state[u] # "off"
  BY <1>1, AnswersOwn
<1>3. UserOK(u)'
  <2>1. /\ IdOwned(u)' /\ PairOwned(u)' /\ FileOfClient(u)'
        /\ PublicKnown(u)' /\ FriendsKnown(u)'
    BY <1>1, <1>2, PartsStay
  <2>2. FileOfProgram(u)'
    BY <1>1, <1>2 DEF UserOK, FileOfProgram
  <2>3. Registering(u)' /\ PublicAnswered(u)' /\ SendingGood(u)'
    BY <1>2 DEF Registering, PublicAnswered, IsKeyOf, SendingGood
  <2>4. ArrivingGood(u)'
    <3>1. ASSUME NEW m \in Arriving(u)' PROVE Good(m)'
      <4>1. m \in batch[u] \/ (a.type = "messages" /\ m \in a.rows)
        BY <1>2, <3>1 DEF Arriving
      <4>2. CASE m \in batch[u]
        BY <1>1, <4>2, GoodStays DEF UserOK, ArrivingGood, Arriving
      <4>. QED
        BY <4>1, <4>2
    <3>. QED
      BY <3>1 DEF ArrivingGood
  <2>. QED
    BY <2>1, <2>2, <2>3, <2>4 DEF UserOK
<1>. QED
  BY <1>2, <1>3, StepKeeps

\* A registration gives the program its own key's place, and disturbs no other.
LEMMA ServeRegisterKeeps ==
  ASSUME KeyInv, NEW u \in User, ServeRegister(u)
  PROVE  KeyInv'
<1>1. TypeInv /\ UserOK(u) /\ MailboxGood /\ TypeInv'
  BY ServeRegisterType DEF KeyInv
<1>2. clients \in Seq(Pair) /\ runs \in [User -> 0 .. MaxRuns]
  BY <1>1 DEF TypeInv, TypeOK
<1>3. state[u] = "waiting" /\ request[u].type = "register" /\ mailbox' = mailbox
  BY DEF ServeRegister, Pending
<1>4. meInfo[u] = None /\ rsa[u] = request[u].key
  BY <1>1, <1>3 DEF UserOK, Registering, TypeInv, Started
<1>5. CASE clients' = clients /\ Answers(u, [type |-> "error"])
  <2>1. Grows
    BY <1>1, <1>5, UnchangedGrows DEF Answers
  <2>2. MailboxGood'
    BY <1>1, <1>3, <2>1, MailboxStays
  <2>. QED
    BY <1>1, <1>3, <1>5, <2>1, <2>2, AnswersKeep
<1>6. CASE /\ clients' = Append(clients, request[u].key)
           /\ Answers(u, [type |-> "registered", id |-> Len(clients) + 1])
  <2>1. request[u].key \in Pair
    <3>1. request[u] \in Request
      BY <1>1 DEF TypeInv, TypeOK
    <3>. QED
      BY <1>3, <3>1 DEF Request
  <2>2. /\ Len(clients) + 1 \in DOMAIN clients'
        /\ clients'[Len(clients) + 1] = request[u].key
        /\ \A i \in DOMAIN clients : i \in DOMAIN clients' /\ clients'[i] = clients[i]
    BY <1>2, <1>6, <2>1
  <2>3. Grows
    BY <1>2, <1>6, <2>2 DEF Grows, Answers
  <2>4. MailboxGood'
    BY <1>1, <1>3, <2>3, MailboxStays
  <2>. QED
    BY <1>1, <1>3, <1>4, <1>6, <2>2, <2>3, <2>4, AnswersKeep
<1>. QED
  BY <1>5, <1>6 DEF ServeRegister

\* The steps of the server keep the invariant.
LEMMA ServerStepsKeep ==
  ASSUME KeyInv, NEW u \in User,
         ServePublicKey(u) \/ ServeSend(u) \/ ServeGet(u) \/ ServeGetBreaks(u)
  PROVE  KeyInv'
<1>1. TypeInv /\ UserOK(u) /\ MailboxGood /\ TypeInv'
  BY ServerStepsType DEF KeyInv
<1>2. CASE ServePublicKey(u)
  <2>. DEFINE of == request[u].of
  <2>1. PICK a : a = [type |-> "public", id |-> of, key |-> clients[of]]
    OBVIOUS
  <2>2. /\ state[u] = "waiting" /\ of \in DOMAIN clients /\ Answers(u, a)
        /\ UNCHANGED <<clients, mailbox>>
    BY <1>2, <2>1 DEF ServePublicKey, Pending
  <2>3. Grows
    BY <1>1, <2>2, UnchangedGrows DEF Answers
  <2>4. MailboxGood'
    BY <1>1, <2>2, <2>3, MailboxStays
  <2>. QED
    BY <1>1, <2>1, <2>2, <2>3, <2>4, AnswersKeep
<1>3. CASE ServeSend(u)
  <2>1. PICK m : m = request[u].msg
    OBVIOUS
  <2>2. /\ state[u] = "waiting" /\ request[u].type = "send"
        /\ Answers(u, [type |-> "sent"])
        /\ mailbox' = mailbox \cup {m} /\ clients' = clients
    BY <1>3, <2>1 DEF ServeSend, Pending
  <2>3. Grows
    BY <1>1, <2>2, UnchangedGrows DEF Answers
  <2>4. Good(m)'
    BY <1>1, <2>1, <2>2, <2>3, GoodStays DEF UserOK, SendingGood
  <2>5. MailboxGood'
    BY <1>1, <2>2, <2>3, <2>4, GoodStays DEF MailboxGood
  <2>. QED
    BY <1>1, <2>2, <2>3, <2>5, AnswersKeep
<1>4. CASE ServeGet(u)
  <2>1. PICK a : a = [type |-> "messages", rows |-> MailFor(id[u])]
    OBVIOUS
  <2>2. /\ state[u] = "waiting" /\ Answers(u, a) /\ clients' = clients
        /\ mailbox' \subseteq mailbox
    BY <1>4, <2>1 DEF ServeGet, Pending
  <2>3. Grows
    BY <1>1, <2>2, UnchangedGrows DEF Answers
  <2>4. MailboxGood'
    BY <1>1, <2>2, <2>3, MailboxStays
  <2>5. \A m \in a.rows : Good(m)'
    BY <1>1, <2>1, <2>3, GoodStays DEF MailFor, MailboxGood
  <2>. QED
    BY <1>1, <2>1, <2>2, <2>3, <2>4, <2>5, AnswersKeep
<1>5. CASE ServeGetBreaks(u)
  BY <1>5, EndsKeeps DEF ServeGetBreaks
<1>. QED
  BY <1>2, <1>3, <1>4, <1>5

-----------------------------------------------------------------------------
(* The programs' reading of the answers. *)

\* What is common to the steps that read an answer.
LEMMA ReadsKeep ==
  ASSUME KeyInv, TypeInv', NEW u \in User, NEW type, Reads(u, type),
         \A v \in User \ {u} : UNCHANGED Own(v)
  PROVE  /\ TypeInv /\ UserOK(u) /\ Grows /\ MailboxGood'
         /\ UNCHANGED <<clients, runs, request, rsa>>
         /\ answer[u].type = type /\ answer'[u] = Nothing
         /\ request[u] = Nothing /\ state[u] # "off"
         /\ PairOwned(u)' /\ PublicAnswered(u)' /\ SendingGood(u)' /\ Registering(u)'
<1>1. TypeInv /\ UserOK(u) /\ MailboxGood
  BY DEF KeyInv
<1>2. Grows
  BY <1>1, UnchangedGrows DEF Reads
<1>3. MailboxGood'
  BY <1>1, <1>2, MailboxStays DEF Reads
<1>4. /\ UNCHANGED <<clients, runs, request, rsa>>
      /\ answer[u].type = type /\ answer'[u] = Nothing
      /\ request[u] = Nothing /\ state[u] # "off"
  BY <1>1 DEF Reads, TypeInv, TypeOK, Started
<1>5. PairOwned(u)' /\ PublicAnswered(u)' /\ SendingGood(u)' /\ Registering(u)'
  BY <1>1, <1>2, <1>4, PartsStay DEF PublicAnswered, SendingGood, Registering
<1>. QED
  BY <1>1, <1>2, <1>3, <1>4, <1>5

\* The identifier of the answer is the place of the program's own public key, and
\* that is what me.info says, when it is written.
LEMMA ReadRegisteredKeeps ==
  ASSUME KeyInv, NEW u \in User, ReadRegistered(u)
  PROVE  KeyInv'
<1>. DEFINE i == answer[u].id
<1>1. TypeInv' /\ TypeInv
  BY ReadStepsType DEF KeyInv
<1>2. \A v \in User \ {u} : UNCHANGED Own(v)
  BY <1>1 DEF ReadRegistered, Reads, BackToCli, WriteMeInfo, Own, TypeInv, TypeOK
<1>3. /\ UserOK(u) /\ Grows /\ MailboxGood' /\ UNCHANGED <<clients, runs, request, rsa>>
      /\ answer[u].type = "registered" /\ answer'[u] = Nothing
      /\ PairOwned(u)' /\ PublicAnswered(u)' /\ SendingGood(u)' /\ Registering(u)'
  BY <1>1, <1>2, ReadsKeep DEF ReadRegistered
<1>4. /\ i \in DOMAIN clients /\ clients[i] = rsa[u] /\ meInfo[u] = None
      /\ rsa[u] # None /\ rsa[u][1] = u
  BY <1>1, <1>3 DEF UserOK, Registering, PairOwned, TypeInv, Started
<1>5. /\ UNCHANGED <<pubKeys, aesKeys, batch>> /\ id'[u] = i
      /\ meInfo'[u] = None \/ meInfo'[u] = [id |-> i, key |-> rsa[u]]
  BY <1>1, <1>4 DEF ReadRegistered, WriteMeInfo, TypeInv, TypeOK
<1>6. UserOK(u)'
  <2>1. PublicKnown(u)' /\ FriendsKnown(u)'
    BY <1>1, <1>3, <1>5, PartsStay
  <2>2. IdOwned(u)' /\ FileOfClient(u)' /\ FileOfProgram(u)'
    BY <1>3, <1>4, <1>5 DEF IdOwned, FileOfClient, FileOfProgram, Owner
  <2>3. ArrivingGood(u)'
    BY <1>1, <1>3, <1>5, GoodStays DEF UserOK, ArrivingGood, Arriving
  <2>. QED
    BY <1>3, <2>1, <2>2, <2>3 DEF UserOK
<1>. QED
  BY <1>1, <1>2, <1>3, <1>6, StepKeeps

\* Reading an answer keeps the invariant.
LEMMA ReadStepsKeep ==
  ASSUME KeyInv, NEW u \in User, ReadPublicKey(u) \/ ReadDone(u) \/ ReadMessages(u)
  PROVE  KeyInv'
<1>1. TypeInv' /\ TypeInv
  BY ReadStepsType DEF KeyInv
<1>2. PICK type \in {"public", "sent", "error", "messages"} :
        /\ Reads(u, type)
        /\ ReadPublicKey(u) => type = "public"
        /\ ReadMessages(u) => type = "messages"
  BY DEF ReadPublicKey, ReadDone, ReadMessages, Reads
<1>3. \A v \in User \ {u} : UNCHANGED Own(v)
  <2>1. CASE ReadPublicKey(u)
    BY <1>1, <2>1 DEF ReadPublicKey, Reads, BackToCli, SavePubKey, Own, TypeInv, TypeOK
  <2>2. CASE ReadDone(u)
    BY <1>1, <2>2 DEF ReadDone, Reads, BackToCli, Own, TypeInv, TypeOK
  <2>3. CASE ReadMessages(u)
    BY <1>1, <2>3 DEF ReadMessages, Reads, BackToCli, Own, TypeInv, TypeOK
  <2>. QED
    BY <2>1, <2>2, <2>3
<1>4. /\ UserOK(u) /\ Grows /\ MailboxGood' /\ UNCHANGED <<clients, runs, request, rsa>>
      /\ answer[u].type = type /\ answer'[u] = Nothing /\ state[u] # "off"
      /\ PairOwned(u)' /\ PublicAnswered(u)' /\ SendingGood(u)' /\ Registering(u)'
  BY <1>1, <1>2, <1>3, ReadsKeep
<1>5. UNCHANGED <<meInfo, id, aesKeys>>
  BY DEF ReadPublicKey, ReadDone, ReadMessages
<1>6. IdOwned(u)' /\ FileOfClient(u)' /\ FileOfProgram(u)' /\ FriendsKnown(u)'
  BY <1>1, <1>4, <1>5, PartsStay DEF UserOK, FileOfProgram
<1>7. PublicKnown(u)'
  <2>1. CASE pubKeys' = pubKeys
    BY <1>1, <1>4, <2>1, PartsStay
  <2>2. CASE ReadPublicKey(u)
    <3>1. answer[u].type = "public"
      BY <1>2, <1>4, <2>2
    <3>2. answer[u].id \in DOMAIN clients /\ answer[u].key = clients[answer[u].id]
      BY <1>4, <3>1 DEF UserOK, PublicAnswered, IsKeyOf
    <3>3. \A i \in ClientId :
            pubKeys'[u][i] = pubKeys[u][i]
              \/ (i = answer[u].id /\ pubKeys'[u][i] = answer[u].key)
      BY <1>1, <2>2 DEF ReadPublicKey, SavePubKey, TypeInv, TypeOK
    <3>. QED
      BY <1>4, <3>2, <3>3 DEF UserOK, PublicKnown, IsKeyOf
  <2>. QED
    BY <2>1, <2>2 DEF ReadDone, ReadMessages
<1>8. ArrivingGood(u)'
  <2>1. batch'[u] = batch[u] \/ (type = "messages" /\ batch'[u] = answer[u].rows)
    BY <1>1, <1>2 DEF ReadPublicKey, ReadDone, ReadMessages, TypeInv, TypeOK
  <2>2. Arriving(u)' \subseteq Arriving(u)
    BY <1>4, <2>1 DEF Arriving
  <2>. QED
    BY <1>1, <1>4, <2>2, GoodStays DEF UserOK, ArrivingGood
<1>9. UserOK(u)'
  BY <1>4, <1>6, <1>7, <1>8 DEF UserOK
<1>. QED
  BY <1>1, <1>3, <1>4, <1>9, StepKeeps

\* A message is taken from the batch; only a symmetric key is kept.
LEMMA ConsumeKeeps ==
  ASSUME KeyInv, TypeInv', NEW u \in User, NEW m \in batch[u],
         NextInBatch(u, m), Consume(u, m),
         aesKeys' = aesKeys \/ (m.type = "key" /\ aesKeys' = SaveAesKey(u, m))
  PROVE  KeyInv'
<1>1. TypeInv /\ UserOK(u) /\ MailboxGood
  BY DEF KeyInv
<1>2. Grows
  BY <1>1, UnchangedGrows DEF Consume
<1>3. MailboxGood'
  BY <1>1, <1>2, MailboxStays DEF Consume
<1>4. \A v \in User \ {u} : UNCHANGED Own(v)
  BY <1>1 DEF Consume, SaveAesKey, Own, TypeInv, TypeOK
<1>5. /\ UNCHANGED <<clients, runs, meInfo, request, answer, id, rsa, pubKeys>>
      /\ batch'[u] \subseteq batch[u] /\ state[u] # "off"
  BY <1>1 DEF Consume, NextInBatch, TypeInv, TypeOK
<1>6. Good(m)
  BY <1>1 DEF UserOK, ArrivingGood, Arriving
<1>7. FriendsKnown(u)'
  <2>1. CASE aesKeys' = aesKeys
    BY <1>1, <1>2, <2>1, PartsStay
  <2>2. CASE m.type = "key" /\ aesKeys' = SaveAesKey(u, m)
    <3>1. m.from \in DOMAIN clients /\ MadeBy(m.aes, Owner(m.from))
      BY <1>6, <2>2 DEF Good
    <3>2. \A i \in ClientId :
            aesKeys'[u][i] = aesKeys[u][i] \/ (i = m.from /\ aesKeys'[u][i] = m.aes)
      BY <1>1, <2>2 DEF SaveAesKey, TypeInv, TypeOK
    <3>3. \A k, i : MadeBy(k, Owner(i)) => MadeBy(k, Owner(i))'
      BY <1>5 DEF MadeBy, Owner
    <3>. QED
      BY <1>1, <1>5, <3>1, <3>2, <3>3 DEF UserOK, FriendsKnown
  <2>. QED
    BY <2>1, <2>2
<1>8. UserOK(u)'
  <2>1. /\ IdOwned(u)' /\ PairOwned(u)' /\ FileOfClient(u)' /\ Registering(u)'
        /\ PublicAnswered(u)' /\ PublicKnown(u)' /\ SendingGood(u)'
    BY <1>1, <1>2, <1>5, PartsStay
  <2>2. FileOfProgram(u)'
    BY <1>1, <1>5 DEF UserOK, FileOfProgram
  <2>3. ArrivingGood(u)'
    BY <1>1, <1>2, <1>5, GoodStays DEF UserOK, ArrivingGood, Arriving
  <2>. QED
    BY <1>7, <2>1, <2>2, <2>3 DEF UserOK
<1>. QED
  BY <1>2, <1>3, <1>4, <1>8, StepKeeps

\* So does the loop over the messages of an answer.
LEMMA BatchStepsKeep ==
  ASSUME KeyInv, NEW u \in User, NEW m \in batch[u], ShowMessage(u, m) \/ ReceiveKey(u, m)
  PROVE  KeyInv'
<1>1. TypeInv'
  BY BatchStepsType DEF KeyInv
<1>2. CASE Ends(u) /\ UNCHANGED <<clients, mailbox, meInfo, runs, pairs>>
  BY <1>2, EndsKeeps
<1>. QED
  BY <1>1, <1>2, ConsumeKeeps DEF ShowMessage, ReceiveKey

-----------------------------------------------------------------------------

\* Every step keeps the invariant.
LEMMA KeysInductive == KeyInv /\ [Next]_vars => KeyInv'
<1>. SUFFICES ASSUME KeyInv, [Next]_vars PROVE KeyInv'
  OBVIOUS
<1>1. CASE UNCHANGED vars
  <2>1. TypeInv'
    BY TypeInductive DEF KeyInv
  <2>2. Grows
    BY <1>1, UnchangedGrows DEF vars, clientVars, KeyInv
  <2>3. MailboxGood'
    BY <1>1, <2>2, GoodStays DEF vars, KeyInv, MailboxGood
  <2>4. ASSUME NEW v \in User PROVE UserOK(v)'
    <3>1. TypeInv /\ UserOK(v)
      BY DEF KeyInv
    <3>2. /\ meInfo'[v] = meInfo[v] /\ state'[v] = state[v] /\ id'[v] = id[v]
          /\ rsa'[v] = rsa[v] /\ pubKeys'[v] = pubKeys[v] /\ aesKeys'[v] = aesKeys[v]
          /\ request'[v] = request[v] /\ answer'[v] = answer[v] /\ batch'[v] = batch[v]
      BY <1>1 DEF vars, clientVars
    <3>. QED
      BY <2>2, <3>1, <3>2, PartsStay DEF UserOK
  <2>. QED
    BY <2>1, <2>3, <2>4 DEF KeyInv
<1>2. CASE Next
  <2>. SUFFICES ASSUME NEW u \in User,
         \/ Start(u) \/ Exit(u)
         \/ \/ Register(u) \/ GetMessages(u)
            \/ \E i \in DOMAIN clients :
                 GetPublicKey(u, i) \/ \E type \in Types : SendMessage(u, i, type)
         \/ ServeRegister(u)
         \/ ServePublicKey(u) \/ ServeSend(u) \/ ServeGet(u) \/ ServeGetBreaks(u)
         \/ ReadRegistered(u)
         \/ ReadPublicKey(u) \/ ReadDone(u) \/ ReadMessages(u)
         \/ \E m \in batch[u] : ShowMessage(u, m) \/ ReceiveKey(u, m)
       PROVE KeyInv'
    BY <1>2 DEF Next
  <2>1. CASE Exit(u)
    BY <2>1, EndsKeeps DEF Exit
  <2>. QED
    BY <2>1, StartKeeps, RequestsKeep, ServeRegisterKeeps, ServerStepsKeep,
       ReadRegisteredKeeps, ReadStepsKeep, BatchStepsKeep
<1>. QED
  BY <1>1, <1>2

\* What the copies of the keys have to do with each other in every state.
THEOREM KeyInvariant == Spec => []KeyInv
BY InitKeys, KeysInductive, PTL DEF Spec

\* All messages that are stored or on their way are good.
LEMMA UnderwayGood == KeyInv => \A m \in Underway : Good(m) /\ m \in Message
<1>. SUFFICES ASSUME KeyInv, NEW m \in Underway PROVE Good(m) /\ m \in Message
  OBVIOUS
<1>1. CASE m \in mailbox
  BY <1>1 DEF KeyInv, MailboxGood, TypeInv, TypeOK
<1>2. ASSUME NEW u \in User, m \in Arriving(u) PROVE Good(m) /\ m \in Message
  <2>1. Good(m)
    BY <1>2 DEF KeyInv, UserOK, ArrivingGood
  <2>2. answer[u] \in Answer /\ batch[u] \subseteq Message
    BY DEF KeyInv, TypeInv, TypeOK
  <2>3. answer[u].type = "messages" => answer[u].rows \subseteq Message
    BY <2>2 DEF Answer
  <2>. QED
    BY <1>2, <2>1, <2>2, <2>3 DEF Arriving
<1>. QED
  BY <1>1, <1>2 DEF Underway

\* A text or a file that is stored or on its way is encrypted with a key that a
\* program of its addressee made.
THEOREM TextKeyIsAddresseesAlways == Spec => []TextKeyIsAddressees
<1>1. KeyInv => TextKeyIsAddressees
  BY UnderwayGood DEF Good, MadeBy, TextKeyIsAddressees
<1>. QED
  BY <1>1, KeyInvariant, PTL

\* A program whose me.info was written holds what me.info says, and every key that is
\* on its way to it is under the public key of that pair: no such key ends it.
THEOREM KeysDecryptAlways == Spec => []KeysDecrypt
<1>1. KeyInv => KeysDecrypt
  <2>. SUFFICES ASSUME KeyInv, NEW u \in User, meInfo[u] # None
                PROVE  /\ state[u] # "off" => id[u] = meInfo[u].id /\ rsa[u] = meInfo[u].key
                       /\ \A m \in Underway :
                            m.type = "key" /\ m.to = meInfo[u].id => m.under = meInfo[u].key
    BY DEF KeysDecrypt
  <2>1. FileOfClient(u) /\ FileOfProgram(u)
    BY DEF KeyInv, UserOK
  <2>. QED
    BY <2>1, UnderwayGood DEF FileOfClient, FileOfProgram, Good
<1>. QED
  BY <1>1, KeyInvariant, PTL

=============================================================================

--------------------------- MODULE MessageUClient ---------------------------
(***************************************************************************)
(* The client programs of several users: the registration and me.info, the *)
(* exchange of keys between friends, the messages encrypted with them, and *)
(* programs that are ended and started again.                              *)
(*                                                                         *)
(* The server is what MessageUServer promises a program whose requests     *)
(* arrive in one piece: each request is served at most once, its answer is *)
(* the next thing the program reads, and messages of one connection stay   *)
(* in order.  A request or an answer may be lost with the connection.      *)
(***************************************************************************)
EXTENDS Integers, Sequences

CONSTANTS
  User,         \* users; each has a directory with a me.info of its own
  None,         \* no identifier, no key, no file
  Types,        \* of the messages: "ask", "key", "text", "file"
  MaxRuns,      \* bound: runs of a user's program
  MaxPairs,     \* bound: RSA pairs of a user
  MaxClients,   \* bound: registered clients
  MaxSent       \* bound: messages of one run

ASSUME MessageUClientAssumption ==
  /\ MaxRuns \in Nat /\ MaxPairs \in Nat /\ MaxClients \in Nat /\ MaxSent \in Nat
  /\ Types \subseteq {"ask", "key", "text", "file"}
  /\ None \notin (User \X Nat) \cup Nat

VARIABLES
  clients,   \* server: public keys; the place in the sequence is the identifier
  mailbox,   \* server: the messages that are stored
  meInfo,    \* me.info of each user
  runs,      \* runs of the user's program so far
  pairs,     \* RSA pairs that the user's programs made so far
  state,     \* the program: off, at its command line, waiting, reading a batch
  id,        \* req.header.id, None before the registration
  rsa,       \* rsapriv_wrapper; a public key is named as its private key
  pubKeys,   \* frind_pub_keys
  aesKeys,   \* frind_aes_keys
  request,   \* what the program waits for an answer to
  answer,    \* what the server sent
  batch,     \* messages of the answer that are not read yet
  sent       \* messages of this run so far

clientVars == <<id, rsa, pubKeys, aesKeys, batch, sent>>
vars == <<clients, mailbox, meInfo, runs, pairs, state, request, answer, clientVars>>

ClientId == 1 .. MaxClients
Pair     == User \X (1 .. MaxPairs)
AesKey   == User \X (1 .. MaxRuns)   \* aes_key is made by the constructor

\* by and serial tell which send of which run a message is from.  "ask" has no
\* key; "key" is the key aes under the public key under; "text" and "file" are
\* encrypted with aes.
Message == [type : Types, to : ClientId, from : ClientId,
            aes : AesKey \cup {None}, under : Pair \cup {None},
            by : AesKey, serial : 1 .. MaxSent]

OwnKey(u) == <<u, runs[u]>>

Nothing == [type |-> "none"]

\* saveFriendPubKey, saveFriendAesKey: an entry that is there is never replaced.
SavePubKey(u, i, key) ==
  [pubKeys EXCEPT ![u][i] = IF @ = None THEN key ELSE @]

SaveAesKey(u, m) ==
  [aesKeys EXCEPT ![u][m.from] = IF @ = None THEN m.aes ELSE @]

\* Mutant: encryptedMessage takes the member aes_key, not the local of that name.
TextKeyOwn(u, i) == OwnKey(u)

\* encryptedMessage: the friend's key.
TextKey(u, i) == aesKeys[u][i]

\* encryptedAESKey: the public key that the own key is encrypted with.
KeyKey(u, i) == pubKeys[u][i]

\* RSAPrivateWrapper::decrypt: it raises for a message under another pair's key.
Decrypts(u, m) == m.under = rsa[u]

\* Mutant: the file is written before the identifier is set.
WriteMeInfoEarly(u, i) ==
  \/ meInfo' = [meInfo EXCEPT ![u] = [id |-> id[u], key |-> rsa[u]]]
  \/ UNCHANGED meInfo

\* setID and writeData; it may fail.
WriteMeInfo(u, i) ==
  \/ meInfo' = [meInfo EXCEPT ![u] = [id |-> i, key |-> rsa[u]]]
  \/ UNCHANGED meInfo

-----------------------------------------------------------------------------

Init ==
  /\ clients = <<>>
  /\ mailbox = {}
  /\ meInfo = [u \in User |-> None]
  /\ runs = [u \in User |-> 0]
  /\ pairs = [u \in User |-> 0]
  /\ state = [u \in User |-> "off"]
  /\ id = [u \in User |-> None]
  /\ rsa = [u \in User |-> None]
  /\ pubKeys = [u \in User |-> [i \in ClientId |-> None]]
  /\ aesKeys = [u \in User |-> [i \in ClientId |-> None]]
  /\ request = [u \in User |-> Nothing]
  /\ answer = [u \in User |-> Nothing]
  /\ batch = [u \in User |-> {}]
  /\ sent = [u \in User |-> 0]

\* The constructor of MessageUClient, and connect.
Start(u) ==
  /\ state[u] = "off"
  /\ runs[u] < MaxRuns
  /\ runs' = [runs EXCEPT ![u] = @ + 1]
  /\ state' = [state EXCEPT ![u] = "cli"]
  /\ IF meInfo[u] = None THEN UNCHANGED <<id, rsa>>
     ELSE /\ id' = [id EXCEPT ![u] = meInfo[u].id]
          /\ rsa' = [rsa EXCEPT ![u] = meInfo[u].key]
  /\ UNCHANGED <<clients, mailbox, meInfo, pairs, request, answer,
                 pubKeys, aesKeys, batch, sent>>

\* The program ends, and what it had in memory is gone.
Ends(u) ==
  /\ state' = [state EXCEPT ![u] = "off"]
  /\ id' = [id EXCEPT ![u] = None]
  /\ rsa' = [rsa EXCEPT ![u] = None]
  /\ pubKeys' = [pubKeys EXCEPT ![u] = [i \in ClientId |-> None]]
  /\ aesKeys' = [aesKeys EXCEPT ![u] = [i \in ClientId |-> None]]
  /\ request' = [request EXCEPT ![u] = Nothing]
  /\ answer' = [answer EXCEPT ![u] = Nothing]
  /\ batch' = [batch EXCEPT ![u] = {}]
  /\ sent' = [sent EXCEPT ![u] = 0]

\* The user leaves or the program is killed.  A program that lost its connection
\* goes on with its command line, but no request of it reaches the server.
Exit(u) ==
  /\ state[u] # "off"
  /\ Ends(u)
  /\ UNCHANGED <<clients, mailbox, meInfo, runs, pairs>>

-----------------------------------------------------------------------------
(* Requests.  One that fails before it is sent changes nothing.  A program
   that is not registered is refused all but the registration. *)

Asks(u, q) ==
  /\ state[u] = "cli"
  /\ state' = [state EXCEPT ![u] = "waiting"]
  /\ request' = [request EXCEPT ![u] = q]
  /\ UNCHANGED <<clients, mailbox, meInfo, runs, answer, id, pubKeys, aesKeys, batch>>

\* Mutant: registered or not.
MayRegisterAgain(u) == TRUE

\* regitrete: a file me.info stands for a registration.
MayRegister(u) == meInfo[u] = None

\* Command 10.  The new pair takes the place of the one before at once, and is
\* written to me.info with the answer.
Register(u) ==
  /\ MayRegister(u)
  /\ pairs[u] < MaxPairs
  /\ pairs' = [pairs EXCEPT ![u] = @ + 1]
  /\ rsa' = [rsa EXCEPT ![u] = <<u, pairs[u] + 1>>]
  /\ Asks(u, [type |-> "register", key |-> <<u, pairs[u] + 1>>])
  /\ UNCHANGED sent

\* Command 30
GetPublicKey(u, i) ==
  /\ id[u] # None
  /\ Asks(u, [type |-> "public", of |-> i])
  /\ UNCHANGED <<pairs, rsa, sent>>

\* Command 40
GetMessages(u) ==
  /\ id[u] # None
  /\ Asks(u, [type |-> "get"])
  /\ UNCHANGED <<pairs, rsa, sent>>

\* The payload of SEND_MESSAGE.
NewMessage(u, i, type) ==
  [type |-> type, to |-> i, from |-> id[u],
   aes |-> CASE type = "ask" -> None
             [] type = "key" -> OwnKey(u)
             [] OTHER -> TextKey(u, i),
   under |-> IF type = "key" THEN KeyKey(u, i) ELSE None,
   by |-> OwnKey(u), serial |-> sent[u] + 1]

\* Commands 50 to 53.  A key goes out under the friend's public key, a text or a
\* file under the friend's symmetric key; without it nothing is sent.
SendMessage(u, i, type) ==
  /\ id[u] # None
  /\ sent[u] < MaxSent
  /\ type = "key" => KeyKey(u, i) # None
  /\ type \in {"text", "file"} => TextKey(u, i) # None
  /\ Asks(u, [type |-> "send", msg |-> NewMessage(u, i, type)])
  /\ sent' = [sent EXCEPT ![u] = @ + 1]
  /\ UNCHANGED <<pairs, rsa>>

-----------------------------------------------------------------------------
(* The server. *)

Pending(u, type) == state[u] = "waiting" /\ request[u].type = type

Answers(u, a) ==
  /\ state' = [state EXCEPT ![u] = "answered"]
  /\ request' = [request EXCEPT ![u] = Nothing]
  /\ answer' = [answer EXCEPT ![u] = a]
  /\ UNCHANGED <<meInfo, runs, pairs, clientVars>>

\* The first request of the connection is served; a registration on a
\* connection that has its thread is answered with an error.
ServeRegister(u) ==
  /\ Pending(u, "register")
  /\ \/ /\ id[u] = None
        /\ Len(clients) < MaxClients
        /\ clients' = Append(clients, request[u].key)
        /\ Answers(u, [type |-> "registered", id |-> Len(clients) + 1])
     \/ /\ id[u] # None
        /\ UNCHANGED clients
        /\ Answers(u, [type |-> "error"])
  /\ UNCHANGED mailbox

ServePublicKey(u) ==
  /\ Pending(u, "public")
  /\ request[u].of \in DOMAIN clients
  /\ Answers(u, [type |-> "public", id |-> request[u].of,
                 key |-> clients[request[u].of]])
  /\ UNCHANGED <<clients, mailbox>>

ServeSend(u) ==
  /\ Pending(u, "send")
  /\ mailbox' = mailbox \cup {request[u].msg}
  /\ Answers(u, [type |-> "sent"])
  /\ UNCHANGED clients

MailFor(i) == {m \in mailbox : m.to = i}

ServeGet(u) ==
  /\ Pending(u, "get")
  /\ Answers(u, [type |-> "messages", rows |-> MailFor(id[u])])
  /\ mailbox' = mailbox \ MailFor(id[u])
  /\ UNCHANGED clients

\* The thread ends in the loop over the messages: the ones before are lost, and
\* the program waits until it is ended.
ServeGetBreaks(u) ==
  /\ Pending(u, "get")
  /\ \E lost \in SUBSET MailFor(id[u]) : mailbox' = mailbox \ lost
  /\ Ends(u)
  /\ UNCHANGED <<clients, meInfo, runs, pairs>>

-----------------------------------------------------------------------------
(* Answers. *)

Reads(u, type) ==
  /\ state[u] = "answered"
  /\ answer[u].type = type
  /\ answer' = [answer EXCEPT ![u] = Nothing]
  /\ UNCHANGED <<clients, mailbox, runs, pairs, request, rsa, sent>>

BackToCli(u) == state' = [state EXCEPT ![u] = "cli"]

\* The identifier is in the request header before me.info is written, and stays
\* there when the file cannot be written.
ReadRegistered(u) ==
  /\ Reads(u, "registered")
  /\ BackToCli(u)
  /\ id' = [id EXCEPT ![u] = answer[u].id]
  /\ WriteMeInfo(u, answer[u].id)
  /\ UNCHANGED <<pubKeys, aesKeys, batch>>

ReadPublicKey(u) ==
  /\ Reads(u, "public")
  /\ BackToCli(u)
  /\ pubKeys' = SavePubKey(u, answer[u].id, answer[u].key)
  /\ UNCHANGED <<meInfo, id, aesKeys, batch>>

ReadDone(u) ==
  /\ Reads(u, "sent") \/ Reads(u, "error")
  /\ BackToCli(u)
  /\ UNCHANGED <<meInfo, id, pubKeys, aesKeys, batch>>

ReadMessages(u) ==
  /\ Reads(u, "messages")
  /\ batch' = [batch EXCEPT ![u] = answer[u].rows]
  /\ state' = [state EXCEPT ![u] = IF answer[u].rows = {} THEN "cli" ELSE "reading"]
  /\ UNCHANGED <<meInfo, id, pubKeys, aesKeys>>

\* Messages of one run come in the order they were sent.
NextInBatch(u, m) ==
  /\ state[u] = "reading"
  /\ m \in batch[u]
  /\ \A n \in batch[u] : n.by = m.by => m.serial <= n.serial

Consume(u, m) ==
  /\ batch' = [batch EXCEPT ![u] = @ \ {m}]
  /\ state' = [state EXCEPT ![u] = IF batch[u] = {m} THEN "cli" ELSE @]
  /\ UNCHANGED <<clients, mailbox, meInfo, runs, pairs, request, answer,
                 id, rsa, pubKeys, sent>>

\* A request for the key, a text or a file: shown, written or not decrypted.
ShowMessage(u, m) ==
  /\ NextInBatch(u, m)
  /\ m.type # "key"
  /\ Consume(u, m)
  /\ UNCHANGED aesKeys

\* A key.  If the private key is not the one for it, decrypt raises, nothing
\* before main catches it, and the program ends with the rest of its batch.
ReceiveKey(u, m) ==
  /\ NextInBatch(u, m)
  /\ m.type = "key"
  /\ \/ /\ Decrypts(u, m)
        /\ aesKeys' = SaveAesKey(u, m)
        /\ Consume(u, m)
     \/ /\ ~Decrypts(u, m)
        /\ Ends(u)
        /\ UNCHANGED <<clients, mailbox, meInfo, runs, pairs>>

-----------------------------------------------------------------------------

Next ==
  \E u \in User :
    \/ Start(u)
    \/ Exit(u)
    \/ Register(u)
    \/ \E i \in DOMAIN clients :
         \/ GetPublicKey(u, i)
         \/ \E type \in Types : SendMessage(u, i, type)
    \/ GetMessages(u)
    \/ ServeRegister(u)
    \/ ServePublicKey(u)
    \/ ServeSend(u)
    \/ ServeGet(u)
    \/ ServeGetBreaks(u)
    \/ ReadRegistered(u)
    \/ ReadPublicKey(u)
    \/ ReadDone(u)
    \/ ReadMessages(u)
    \/ \E m \in batch[u] : ShowMessage(u, m) \/ ReceiveKey(u, m)

Spec == Init /\ [][Next]_vars

-----------------------------------------------------------------------------

Request ==
  {Nothing}
  \cup [type : {"register"}, key : Pair]
  \cup [type : {"public"}, of : ClientId]
  \cup [type : {"get"}]
  \cup [type : {"send"}, msg : Message]

Answer ==
  {Nothing, [type |-> "sent"], [type |-> "error"]}
  \cup [type : {"registered"}, id : ClientId]
  \cup [type : {"public"}, id : ClientId, key : Pair]
  \cup [type : {"messages"}, rows : SUBSET Message]

\* What the variables hold.
TypeOK ==
  /\ clients \in Seq(Pair) /\ Len(clients) <= MaxClients
  /\ mailbox \subseteq Message
  /\ meInfo \in [User -> [id : ClientId, key : Pair] \cup {None}]
  /\ runs \in [User -> 0 .. MaxRuns]
  /\ pairs \in [User -> 0 .. MaxPairs]
  /\ state \in [User -> {"off", "cli", "waiting", "answered", "reading"}]
  /\ id \in [User -> ClientId \cup {None}]
  /\ rsa \in [User -> Pair \cup {None}]
  /\ pubKeys \in [User -> [ClientId -> Pair \cup {None}]]
  /\ aesKeys \in [User -> [ClientId -> AesKey \cup {None}]]
  /\ request \in [User -> Request]
  /\ answer \in [User -> Answer]
  /\ batch \in [User -> SUBSET Message]
  /\ sent \in [User -> 0 .. MaxSent]

\* The messages on their way to user u, who has identifier id[u].
Arriving(u) ==
  (IF answer[u].type = "messages" THEN answer[u].rows ELSE {}) \cup batch[u]

\* Every message that is stored or on its way to a reader.
Underway == mailbox \cup UNION {Arriving(u) : u \in User}

Owner(i) == clients[i][1]

\* A text or a file is encrypted with a key that the program of the addressee
\* made: a friend's key is taken from a message that the friend sent, under the
\* identifier the friend has.  Only the addressee's restart makes it unreadable.
TextKeyIsAddressees ==
  \A m \in Underway :
    m.type \in {"text", "file"} =>
      \E run \in 1 .. runs[Owner(m.to)] : m.aes = <<Owner(m.to), run>>

\* Reading its mailbox never ends a program whose me.info was written: every key
\* sent to it is under the public key of the pair it holds, in this run and in
\* the next, although public keys and pairs are kept in five places.
KeysDecrypt ==
  \A u \in User :
    meInfo[u] # None =>
      /\ state[u] # "off" => id[u] = meInfo[u].id /\ rsa[u] = meInfo[u].key
      /\ \A m \in Underway :
           m.type = "key" /\ m.to = meInfo[u].id => m.under = meInfo[u].key

\* "symmetric key received": from then on the program uses this key for the
\* friend, or one that the friend made later, not one of an earlier run.
ReceivedKeyIsUsed ==
  [][\A u \in User : \A m \in batch[u] :
       m.type = "key" /\ m.from # id[u] /\ m \notin batch'[u] /\ state'[u] # "off" =>
         aesKeys'[u][m.from][2] >= m.aes[2]]_vars

=============================================================================

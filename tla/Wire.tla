------------------------------- MODULE Wire --------------------------------
(***************************************************************************)
(* What requests and answers carry: the structures of the protocol as      *)
(* arrays of bytes, the conversions between them, Python's strings and the *)
(* text of the database, and the loops that take an answer apart.          *)
(*                                                                         *)
(* A request is answered before the next one is sent; what goes wrong      *)
(* between several programs is the subject of MessageUServer and Framing.  *)
(* A field that is a number takes one place in the array, whatever its     *)
(* width: no structure reads a part of it.                                 *)
(***************************************************************************)
EXTENDS Integers, Sequences, FiniteSets, FiniteSetsExt, SequencesExt

CONSTANTS
  IdSize,       \* ID_SIZE
  NameSize,     \* MAX_NAEM_SIZE
  KeySize,      \* PUBLIC_KEY_SIZE
  Name,         \* names that users enter, without NUL
  PublicKey,    \* public keys, KeySize bytes each
  Content,      \* contents of messages
  Type,         \* types of messages, of MUPMessageType
  Behind,       \* bytes that lie behind a string in the server's memory
  MaxClients,   \* bound: registered clients
  MaxMessages   \* bound: messages

ASSUME WireAssumption ==
  /\ IdSize \in Nat \ {0} /\ NameSize \in Nat \ {0} /\ KeySize \in Nat \ {0}
  /\ Name \subseteq Seq(1 .. 127) /\ \A s \in Name : Len(s) <= NameSize
  /\ PublicKey \subseteq [1 .. KeySize -> 0 .. 255]
  /\ Content \subseteq Seq(0 .. 255)
  /\ Behind \subseteq 0 .. 255
  /\ Type \subseteq 1 .. 4
  /\ MaxClients \in Nat /\ MaxMessages \in Nat

VARIABLES
  clients,    \* table clients: identifier, name and key as text
  messages,   \* table messages, in the order of its key
  bytes,      \* the request or the payload of the answer that is under way
  step,       \* idle, request, reading, done; silent: no answer will come
  code,       \* code of the request
  reader,     \* the client whose turn it is
  at,         \* mem_ptr, or the place in the list of clients
  shown,      \* what the program made of the answer so far
  meant,      \* history: name and key of each client, as they were entered
  sent        \* history: messages as they were entered, neither fetched nor lost

vars == <<clients, messages, bytes, step, code, reader, at, shown, meant, sent>>

REGISTRATION == 1000
CLIENT_LIST  == 1001
PUBLIC_KEY   == 1002
SEND_MESSAGE == 1003
GET_MESSAGES == 1004

-----------------------------------------------------------------------------
(* Text and bytes. *)

\* A digit of f"{x:02x}".
Digit(v) == IF v < 10 THEN 48 + v ELSE 87 + v

HexText(b) ==
  [j \in 1 .. 2 * Len(b) |->
     IF j % 2 = 1 THEN Digit(b[(j + 1) \div 2] \div 16) ELSE Digit(b[j \div 2] % 16)]

\* Mutant: a letter counts from zero.
ValueOfLetter(c) == IF c <= 57 THEN c - 48 ELSE IF 97 <= c THEN c - 97 ELSE c

\* clientPublicKey: a digit's value; any other character is left as it is.
Value(c) == IF c <= 57 THEN c - 48 ELSE IF 97 <= c THEN c - 87 ELSE c

\* (bch << 4) | lch, in a char.
FromHex(text, size) == [i \in 1 .. size |-> (16 * Value(text[2 * i - 1]) + Value(text[2 * i])) % 256]

\* Digits, or digits with an exponent: of the digits of HexText, e is one.
LooksLikeNumber(text) ==
  /\ text # <<>>
  /\ \A k \in DOMAIN text :
       \/ text[k] \in 48 .. 57
       \/ /\ text[k] = 101 /\ k \notin {1, Len(text)}
          /\ \A j \in 1 .. k - 1 : text[j] # 101

\* What SQLite keeps of a text in a column of type NUMBER: a text that looks like a
\* number becomes one, of whatever size.  Which one is left out, for nobody reads it.
InNumberColumn(text) ==
  LET number == LooksLikeNumber(text) IN
    [number |-> number, text |-> IF number THEN <<>> ELSE text]

Padded(s, size) == [k \in 1 .. size |-> IF k <= Len(s) THEN s[k] ELSE 0]

\* clientName(str): size bytes from where the string lies; b is behind its NUL.
Copied(s, size, b) ==
  [k \in 1 .. size |-> IF k <= Len(s) THEN s[k] ELSE IF k = Len(s) + 1 THEN 0 ELSE b]

\* strip('\0')
Strip(s) ==
  LET chars == {k \in DOMAIN s : s[k] # 0} IN
    IF chars = {} THEN <<>> ELSE SubSeq(s, Min(chars), Max(chars))

\* What << writes of the char array at place k: up to a NUL, or the end of what is
\* there (the code goes on).
CString(b, k) ==
  SubSeq(b, k, Min({j \in k .. Len(b) + 1 : j = Len(b) + 1 \/ b[j] = 0}) - 1)

Field(b, k, size) == SubSeq(b, k, k + size - 1)

\* The rows of a table with the numbers in T, in the order of their numbers.
Ascending(T) ==
  CHOOSE order \in SetToSeqs(T) : \A i, j \in DOMAIN order : i < j => order[i] < order[j]

Rows(table, T) == LET order == Ascending(T) IN [k \in DOMAIN order |-> table[order[k]]]

-----------------------------------------------------------------------------
(* The structures. *)

ClientId(i) == [k \in 1 .. IdSize |-> IF k = 1 THEN 48 + i ELSE 48]
NoId        == [k \in 1 .. IdSize |-> 0]

\* MUPReqHeader: identifier, version, code, payload_size.
HeaderSize == IdSize + 3
ReqMessage(id, c, payload) == id \o <<2, c, Len(payload)>> \o payload

\* MUPReqMessageWrapper
Code(b)          == b[IdSize + 2]
SizeIsGood(b)    == Len(b) = HeaderSize + b[IdSize + 3]
FromId(b)        == Field(b, 1, IdSize)
NameOf(b)        == Field(b, HeaderSize + 1, NameSize)
PublicKeyOf(b)   == Field(b, HeaderSize + NameSize + 1, KeySize)
PayloadId(b)     == Field(b, HeaderSize + 1, IdSize)

\* MUPReqSendMessagePayload: identifier, type, content_size and a pointer.
SendSize         == IdSize + 3
SendPayload(id, type, content) == id \o <<type, Len(content), 0>> \o content
TypeOf(b)        == b[HeaderSize + IdSize + 1]
ContentOf(b)     == Field(b, HeaderSize + SendSize + 1, b[HeaderSize + IdSize + 2])

\* MUPRespHeader: what the program knows of the payload's length.
PayloadSize == Len(bytes)

\* MUPRespRegistretionSuccessedPayload, MUPRespGetPublicKeyPayload,
\* MUPRespMessageSentPayload
RegisteredPayload(id)       == id
KeyPayload(id, key)         == id \o key
SentPayload(id, message_id) == Append(id, message_id)

\* MUPReqResClientStruct
ClientSize == IdSize + NameSize

\* MUPRespGotMessagePayload: identifier, message_id, type, message_size, a pointer.
GotSize == IdSize + 4
GotMessage(id, message_id, type, content) ==
  id \o <<message_id, type, Len(content), 0>> \o content

-----------------------------------------------------------------------------

Init ==
  /\ clients = <<>>
  /\ messages = <<>>
  /\ bytes = <<>>
  /\ step = "idle"
  /\ code = 0
  /\ reader = 0
  /\ at = 0
  /\ shown = <<>>
  /\ meant = <<>>
  /\ sent = <<>>

Asks(u, id, c, payload) ==
  /\ step = "idle"
  /\ code' = c
  /\ step' = "request"
  /\ reader' = u
  /\ bytes' = ReqMessage(id, c, payload)
  /\ at' = 0 /\ shown' = <<>>
  /\ UNCHANGED <<clients, messages>>

\* A new client; the name was resized.  Nobody looks at header.id.
AskRegistration(name, key) ==
  /\ Len(clients) < MaxClients
  /\ Asks(Len(clients) + 1, NoId, REGISTRATION, Padded(name, NameSize) \o key)
  /\ meant' = IF \E i \in DOMAIN meant : meant[i].name = name THEN meant
              ELSE Append(meant, [name |-> name, key |-> key])
  /\ UNCHANGED sent

AskList(u) == Asks(u, ClientId(u), CLIENT_LIST, <<>>) /\ UNCHANGED <<meant, sent>>

AskPublicKey(u, v) ==
  Asks(u, ClientId(u), PUBLIC_KEY, ClientId(v)) /\ UNCHANGED <<meant, sent>>

AskSend(u, v, type, content) ==
  /\ Len(messages) < MaxMessages
  /\ Asks(u, ClientId(u), SEND_MESSAGE, SendPayload(ClientId(v), type, content))
  /\ sent' = Append(sent, [from |-> u, to |-> v, type |-> type, content |-> content])
  /\ UNCHANGED meant

AskMessages(u) == Asks(u, ClientId(u), GET_MESSAGES, <<>>) /\ UNCHANGED <<meant, sent>>

-----------------------------------------------------------------------------
(* The server. *)

Serves(c) ==
  /\ step = "request" /\ SizeIsGood(bytes) /\ Code(bytes) = c
  /\ UNCHANGED <<code, reader, at, shown, meant, sent>>

Answers(payload) == bytes' = payload /\ step' = "reading"

\* name_exists and add_client, or an error, with which the program is done.
ServeRegistration ==
  LET name == Strip(NameOf(bytes)) IN
  /\ Serves(REGISTRATION)
  /\ IF \E i \in DOMAIN clients : clients[i].name = name
     THEN UNCHANGED <<clients, bytes>> /\ step' = "done"
     ELSE /\ clients' = Append(clients,
               [id |-> ClientId(Len(clients) + 1), name |-> name,
                public_key |-> HexText(PublicKeyOf(bytes))])
          /\ Answers(RegisteredPayload(ClientId(Len(clients) + 1)))
  /\ UNCHANGED messages

\* Mutant: the struct ends with its string.
ClientStructShort(row, b) == row.id \o Append(row.name, 0)

ClientStruct(row, b) == row.id \o Copied(row.name, NameSize, b)

\* The other clients, in the order of a set.
ServeList ==
  /\ Serves(CLIENT_LIST)
  /\ \E order \in SetToSeqs({i \in DOMAIN clients : clients[i].id # FromId(bytes)}), b \in Behind :
       Answers(FlattenSeq([k \in DOMAIN order |-> ClientStruct(clients[order[k]], b)]))
  /\ UNCHANGED <<clients, messages>>

ServePublicKey ==
  /\ Serves(PUBLIC_KEY)
  /\ \E i \in DOMAIN clients :
       /\ clients[i].id = PayloadId(bytes)
       /\ Answers(KeyPayload(clients[i].id, FromHex(clients[i].public_key, KeySize)))
  /\ UNCHANGED <<clients, messages>>

ServeSend ==
  /\ Serves(SEND_MESSAGE)
  /\ messages' = Append(messages,
       [to |-> PayloadId(bytes), from |-> FromId(bytes), type |-> TypeOf(bytes),
        content |-> InNumberColumn(HexText(ContentOf(bytes)))])
  /\ Answers(SentPayload(PayloadId(bytes), Len(messages)))
  /\ UNCHANGED clients

\* Mutant: the text is taken for the content.
PackedText(row) == GotMessage(row.from, 0, row.type, row.content.text)

\* A row of the mailbox: two digits of the text are a byte.
Packed(row) ==
  GotMessage(row.from, 0, row.type, FromHex(row.content.text, Len(row.content.text) \div 2))

\* The rows that SELECT finds for the client who asks.
Chosen == {k \in DOMAIN messages : messages[k].to = FromId(bytes)}

\* The loop takes the rows in order and deletes each, as long as none is a number.
ServeMessages ==
  LET mail == Rows(messages, Chosen) IN
  /\ Serves(GET_MESSAGES)
  /\ \A k \in Chosen : ~messages[k].content.number
  /\ Answers(FlattenSeq([k \in DOMAIN mail |-> Packed(mail[k])]))
  /\ messages' = Rows(messages, DOMAIN messages \ Chosen)
  /\ UNCHANGED clients

\* Mutant: the row with the number is deleted before it is copied.
RowsBeforeAndIt(k) == {j \in Chosen : j <= k}

\* The rows that the loop deletes before row k.
RowsBefore(k) == {j \in Chosen : j < k}

\* The first number has no digits to take apart: TypeError, and the thread ends.
\* The rows before it are deleted, and nothing was sent.
ServeMessagesRaises ==
  /\ Serves(GET_MESSAGES)
  /\ \E k \in Chosen :
       /\ messages[k].content.number
       /\ \A j \in Chosen : messages[j].content.number => k <= j
       /\ messages' = Rows(messages, DOMAIN messages \ RowsBefore(k))
  /\ step' = "silent"
  /\ UNCHANGED <<clients, bytes>>

-----------------------------------------------------------------------------
(* The program. *)

Reads(c, what) ==
  /\ step = "reading" /\ code = c
  /\ shown' = Append(shown, what)
  /\ UNCHANGED <<clients, messages, bytes, code, reader, meant, sent>>

ReadAll == step' = "done" /\ UNCHANGED at

ReadRegistered == Reads(REGISTRATION, Field(bytes, 1, IdSize)) /\ ReadAll

\* One turn of the loop over the clients of the list.
ReadClient ==
  /\ at < PayloadSize \div ClientSize
  /\ Reads(CLIENT_LIST, [id |-> Field(bytes, at * ClientSize + 1, IdSize),
                    name |-> CString(bytes, at * ClientSize + IdSize + 1)])
  /\ at' = at + 1
  /\ UNCHANGED step

\* An answer for another identifier is not taken; there is none here.
ReadKey == Reads(PUBLIC_KEY, Field(bytes, IdSize + 1, KeySize)) /\ ReadAll

ReadSent == Reads(SEND_MESSAGE, Field(bytes, 1, IdSize)) /\ ReadAll

\* Mutant: a structure is longer in the program than in the server.
NextMessageLong == at + GotSize + 1 + bytes[at + IdSize + 3]

\* mem_ptr
NextMessage == at + GotSize + bytes[at + IdSize + 3]

\* One turn of the loop over the messages.
ReadMessage ==
  /\ at < PayloadSize
  /\ Reads(GET_MESSAGES, [from |-> Field(bytes, at + 1, IdSize), type |-> bytes[at + IdSize + 2],
                    content |-> Field(bytes, at + GotSize + 1, bytes[at + IdSize + 3])])
  /\ at' = NextMessage
  /\ UNCHANGED step

\* The loop ends.
ReadDone ==
  /\ step = "reading"
  /\ \/ code = CLIENT_LIST /\ at >= PayloadSize \div ClientSize
     \/ code = GET_MESSAGES /\ at >= PayloadSize
  /\ step' = "done"
  /\ UNCHANGED <<clients, messages, bytes, code, reader, at, shown, meant, sent>>

\* The numbers of the messages in sent that are for the reader.
ForReader == {k \in DOMAIN sent : sent[k].to = reader}

\* Those that the loop took before it met a number.
Lost ==
  {k \in ForReader : \A j \in ForReader : j <= k => ~LooksLikeNumber(HexText(sent[j].content))}

\* A program without an answer waits until it is killed; another one is started.
GiveUp ==
  /\ step = "silent"
  /\ step' = "idle"
  /\ bytes' = <<>> /\ at' = 0 /\ shown' = <<>>
  /\ sent' = Rows(sent, DOMAIN sent \ Lost)
  /\ UNCHANGED <<clients, messages, code, reader, meant>>

\* The program is back at its command line.
Forget ==
  /\ step = "done"
  /\ step' = "idle"
  /\ bytes' = <<>> /\ at' = 0 /\ shown' = <<>>
  /\ sent' = IF code = GET_MESSAGES THEN Rows(sent, DOMAIN sent \ ForReader) ELSE sent
  /\ UNCHANGED <<clients, messages, code, reader, meant>>

Next ==
  \/ \E name \in Name, key \in PublicKey : AskRegistration(name, key)
  \/ \E u \in DOMAIN clients :
       \/ AskList(u)
       \/ AskMessages(u)
       \/ \E v \in DOMAIN clients :
            \/ AskPublicKey(u, v)
            \/ \E type \in Type, content \in Content : AskSend(u, v, type, content)
  \/ ServeRegistration \/ ServeList \/ ServePublicKey \/ ServeSend
  \/ ServeMessages \/ ServeMessagesRaises
  \/ ReadRegistered \/ ReadClient \/ ReadKey \/ ReadSent \/ ReadMessage \/ ReadDone
  \/ Forget \/ GiveUp

Spec == Init /\ [][Next]_vars

-----------------------------------------------------------------------------

\* What the variables hold: a text in the database has two digits for a byte, and a
\* place in an answer is never behind its end, whatever the lengths in it.
TypeOK ==
  /\ \A i \in DOMAIN clients :
       /\ clients[i].id = ClientId(i)
       /\ clients[i].name \in Name
       /\ Len(clients[i].public_key) = 2 * KeySize
  /\ \A k \in DOMAIN messages :
       /\ messages[k].content.number \in BOOLEAN
       /\ Len(messages[k].content.text) % 2 = 0
  /\ step \in {"idle", "request", "reading", "done", "silent"}
  /\ reader \in 0 .. MaxClients
  /\ at \in 0 .. Len(bytes)
  /\ Len(clients) <= Len(meant) /\ Len(meant) <= Len(clients) + 1
  /\ Len(messages) <= Len(sent) /\ Len(sent) <= MaxMessages + 1

Done(c) == step = "done" /\ code = c

\* A name as it is shown: whole, but of one that fills its field no end is seen.
ShownAs(name, text) ==
  IF Len(name) < NameSize THEN text = name ELSE IsPrefix(name, text)

\* The list of clients has every other client once, under its identifier and with
\* the name its user entered; only after a name that fills its field something may
\* follow (recvResp for the list, clientName).
ListIsComplete ==
  Done(CLIENT_LIST) =>
    /\ Len(shown) = Len(meant) - 1
    /\ \A i \in DOMAIN meant \ {reader} : \E k \in DOMAIN shown :
         shown[k].id = ClientId(i) /\ ShownAs(meant[i].name, shown[k].name)

\* The public key that a program gets is the one that its owner's program sent, for
\* every byte, although it was a text in between.
KeyArrives ==
  Done(PUBLIC_KEY) =>
    \E i \in DOMAIN meant : /\ SubSeq(bytes, 1, IdSize) = ClientId(i)
                            /\ shown = <<meant[i].key>>

\* If mail is answered, the program takes the answer apart into the messages that were
\* sent to it, whole, in order, and no others, wherever one ends and the next begins.
MessagesArrive ==
  LET mail == Rows(sent, ForReader) IN
  Done(GET_MESSAGES) =>
    shown = [k \in DOMAIN mail |-> [from |-> ClientId(mail[k].from), type |-> mail[k].type,
                                     content |-> mail[k].content]]

\* Mail is left without an answer for one reason: a content waits whose hexadecimal
\* form is a number to SQLite.  The messages before the first such one are deleted
\* although nobody gets them; all others, those for other readers too, are still in the
\* table, in their order and as they were sent (the loop over the rows in answer;
\* utils.py:65).
SilentAtNumber ==
  LET kept == Rows(sent, DOMAIN sent \ Lost) IN
  step = "silent" =>
    /\ \E k \in ForReader \ Lost : LooksLikeNumber(HexText(sent[k].content))
    /\ messages = [k \in DOMAIN kept |->
                     [to |-> ClientId(kept[k].to), from |-> ClientId(kept[k].from),
                      type |-> kept[k].type,
                      content |-> InNumberColumn(HexText(kept[k].content))]]

=============================================================================

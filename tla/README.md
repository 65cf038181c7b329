# MessageU: a verification project

MessageU is a messenger: a Python server (`src/server`, `src/main.py`) that keeps
clients and undelivered messages in SQLite, a C++ client with a command line
(`src/client`), and a C++ module with the wire format that the server loads
(`src/protocol`). This directory holds TLA+ models of it, the TLC configurations that
check them, and TLAPS proofs. Line numbers below are those of the source files.

## 1. The system

| component | source | state | operations |
|---|---|---|---|
| client registry | `server/utils.py` (table `clients`), `MassageUServer.py` 187-204, 226-237, `dllmain.cpp` 66-92 | table `clients`; `last_client_id` | register (`name_exists`, `inc_last_client_id`, `add_client`), reload after a restart (`update_last_client_id`) |
| message store | `server/utils.py` 10-47, 139-151 | table `messages`; one `IdSync` (free identifiers) per thread | `SQL()`, `add_message`, `get_messages`, `delete_messages` |
| main thread | `Server.py`, `MassageUServer.py` 212-249 | which connection it serves | accept, read the first request, refuse it or start a thread |
| session threads | `MassageUServer.py` 25-180 | `request_status`, `request`, `response`, `client_id` | `recv`, `answer` (five requests), `send`, `close` |
| client program | `MessageUClient.cpp`, `Client.cpp`, `client_main.cpp` | request header, key pair, own symmetric key, keys of friends | commands 10, 20, 30, 40, 50-53, 0 |
| wire format | `dllmain.cpp`, `MessageUProtocolReq.h`, `MessageUProtocolResp.h`, `Utils.h`, `Server.py` | a stream of bytes each way | cut a stream into requests and answers; encode and decode structures |
| client files | `MeInfoFileRWIF.cpp`, `FileRWIF.cpp`, `ServerInfo*`, `Utils.cpp` | `me.info`, `server.info` | exists, write, read, parse |
| cryptography | `cryptopp_wrapper/*` | none | encrypt, decrypt, Base64 |
| not modelled | `MessageUProtocol.cpp` (older binding, not imported), build files | | |

How they interact. A program connects and sends its first request. The *main thread*
reads it before it accepts the next connection; it refuses it, or starts a *session
thread* with the request already decoded. Each session thread opens the database for
itself, and with it makes its own list of free message identifiers. Threads share the
two tables and nothing else; each SQL statement is a transaction. The program sends a
request, waits for the next answer, and takes it for the answer to that request.
Programs of different users talk through messages only: the public key from the server,
then a symmetric key under the public key, then texts under the symmetric key. What a
program keeps between two runs is in `me.info`.

What is hard here, and what therefore has properties (the full list with lines is in
`PROJECT.json`, "hazards"):

* allocators that are out of date about rows of other threads; keys that are reused
  while another thread still holds rows of before; SELECT and DELETE apart;
* messages deleted before the answer with them is sent; threads that raise in between;
* a counter of identifiers that is guessed after a restart;
* requests cut by the size of a buffer, answers cut at a marker, nothing in an answer
  that says what it is for, and a `recv` whose error status is overwritten;
* threads that die and leave their connection open; a main thread that one silent
  program holds up and one bad first request ends;
* on the client: a registration interrupted before `me.info` is written, or by a full
  disk, or by a second program in the same directory; keys of friends that outlive the
  friend's run;
* bytes that become text in the database and bytes again, and arrays without an end.

The properties that make each component correct:

* registry: a name and an identifier denote one client, and no client is replaced;
* store: keys are handed out in order and without gaps, and a DELETE by key hits the row
  that was read;
* server: every answer is for the request it follows, every request is executed once,
  every message is received once, in order, and is lost only with a connection; a program
  that waits is answered and the main thread goes on;
* client: what is encrypted can be decrypted by whom it is for, and `me.info` is always
  the file of one registration;
* wire: what one side enters is what the other side shows.

## 2. The modules

| module | what it models |
|---|---|
| `ClientId` | identifiers as functions from positions to digits, `Add1` (`id_add1`) and the two orders: the order of counting (`CountsBefore`, last position first) and the order of the text column (`SortsBefore`, first position first) |
| `ClientRegistry` | table, counter, `Register`, `Reload` |
| `MessageStore` | table `messages`, the SQL object of each session (`Sync`, `AddMessage`, `GetMessages`, `DeleteMessage`) and the ways they raise (`SyncFails`, `AddMessageFails`), `Drop` when threads end |
| `MessageUServer` | the server, composed of `Registry == INSTANCE ClientRegistry` and `Store == INSTANCE MessageStore`: main thread, session threads, sockets, the programs at the other end, restarts |
| `Mailbox` | the abstract specification: what the server promises about mail, without threads, keys, requests or sockets |
| `MessageUClient` | the client programs of several users, with the server reduced to what `MessageUServer` shows of it |
| `Framing` | one connection as a stream of bytes: requests cut by the server's buffer, answers cut at the marker |
| `ClientFiles` | `me.info` and `server.info` of one directory, and the programs started in it |
| `Wire` | requests and answers as arrays of bytes, Python's strings, the text of the database, and the loops that take an answer apart |
| `*Proofs` | theorems and proofs, see section 4 |
| `MC*` | instances for TLC |

`Mutant:` above a definition marks a faulty form of the one below it. No specification
uses it; it is there to show that a property would notice.

### State and actions

*Registry.* `clients` is a set of rows `[id, name]`. The public key is written with the
row and never changed, so that the name stands for it. `LastSeen` is written and never
read. `Register` is one step: only the main thread registers. `get_last_id` has no
ORDER BY; the query reads the key column only and SQLite answers it from the index of
the key, in the order of the text (`IsLastId`).

*Store.* An identifier `(page << 32) | slot` is the pair `<<page, slot>>`. `free[s]` is the
union of the pages of `IdSync.free_message_ids`; a page that is not created yet counts as
free, because `allocate_message_id` creates it when it gets there. A row also carries
its rank `uid` and the session `by` that stored it; `synced`, `posted`, `taken`, `raced` are
history as well, and no guard reads them. `MaxMessages` bounds the messages ever stored.
`GetMessages` and each `DeleteMessage` are separate steps, as they are separate
transactions. `free_message_id` is never called, and not modelled.

*Server.* `stage[c]` says where the server is with connection `c`:

    none -> backlog -> accepted -> start -> answer -> (take ->) send -> recv -> answer ...
                          |                                               `-> bad -> send
                          `-> closed, dead

`stage` stands for `request_status` (answer, send, recv, bad) between the statements that
other threads can see; `take` is the loop over the rows in `answer`. "closed" is a
connection the server closed; "dead" one whose thread raised: nothing closes its socket
while the process lives. When the main thread has raised too and no thread is left, the
process ends and the sockets are closed (`ProcessEnds`). `inbox[c]` is what each `recv()`
will return: a request is one piece ("whole"), two that the decoder rejects ("oversize": more
than two buffers; the first read ends before the request does) or two arbitrary pieces
("fragmented"). A piece is "garbled" (`err` is set), or "short" (the decoder raises). A name
in `ForeignName` has a letter outside ASCII: the string that is made of it raises, in the
main thread. `send` to a program that is gone succeeds or raises. `Restart` ends all
threads and reloads the registry. The accept queue of the code is in order; the model
accepts in any order, which allows more. A program asks one request at a time (`peer`), and
may quit at any moment, with what it sent lost or not. A user runs one program at a time.

SQLite lets one connection write, and a transaction that waits for another one for more
than five seconds raises "database is locked", which nothing in the server catches. The
model has no clock: with `Locking`, a transaction of one connection (`Works`) may fail at
any time while one of another is under way, if either writes (`Writes`). Nothing of it is
done; the main thread ends (`FirstLocked`), or the session does (`ThreadLocked`), at its first use
of the database, at a request, or between two rows of a mailbox.

*Mailbox.* Letters are posted into a box, taken out of it by one connection, and
delivered there in the order of each sender, or lost when the connection breaks.
`MessageUServer!Mail` maps the server to it:

| Mailbox | MessageUServer |
|---|---|
| a letter | `Tag(row)`: the connection that stored it and its rank |
| `count` | `nextUid` |
| `stored` | the table `messages` |
| `inHand[c]` | rows in answers under way to `c`, and in `reply[c]` while its thread takes or sends |
| `received[c]` | `received[c]` |
| `up[c]` | neither has the thread raised, nor the connection been closed, nor the program quit |
| `shared` | `raced`: two threads read one mailbox at a time; from there on nothing is promised |

`AnswerSend` is `Post`, `Take` is `Take`, `ReadAnswer` of messages is `Deliver`; whatever
ends a thread, a program or the server is `Break`; everything else stutters.

*Client.* Public keys are named by their pair `<<user, n>>`, the symmetric key of a run by
`<<user, run>>`: `aes_key` is made by the constructor of each run. `pubKeys` and `aesKeys`
are the two maps, `meInfo` the file. A request goes through three steps: it is asked, served
and its answer is read, and the program may end between any two. Requests of a program
without identifier other than the registration are refused by the server and left out; the
list of clients is in `Wire`. The reading of a batch is one step per message;
messages of one run come in their order, others in any. The server half of this module is an
abstraction: one step per request, justified by `AnswersMatch`, `StoredOnce` and
`MailboxService` of `MessageUServer` for requests that arrive whole.

*Framing.* The stream of requests is known by where each request ends (`ends`); `arrived`,
`start` and `read` are positions in it. `Recv` is one round of the loop in `recv`: it goes on
while it has exactly one buffer. A piece is a request if it begins and ends where one does;
else it is flagged (`DecodeGarbled`), or shorter than a header and raises: then the thread
looks at the request of before again (`DecodeRaises`), and the main thread ends
(`FirstRaises`). `socket` is what the program has not read of the answers: each is an answer
up to its marker and a tail, the NUL behind it. `GetMsg` reads up to a marker, and may take
in and lose what follows; `GetMsgRaises` is the end of the stream, with which the program
uses what it has. `whole` says whether requests arrive at once, as on a loopback device, or
in any pieces. `Stop` is a server that stops, with the end of what it sent lost.

*Client files.* A text is the sequence of its lines. `OpenFile` empties the file,
`WriteFile` puts the text there, or, on a full disk, a beginning of it (`Beginnings`), or,
if another program wrote meanwhile, the text over a longer one (`Over`). `Exit` is a
program that ends or is killed in any state. `Parsed` is `parseData` with its early returns,
`Start` the constructor with the key it loads. `full` and `together` are history.

*Wire.* Every structure is an array of bytes in which a number takes one place. `Padded` is
the client's resized name, `Copied` what the server's module copies from a string,
`CString` what the program shows of an array, `HexText` and `FromHex` the way to and from the
database's text. The text of a content goes into a column of type `NUMBER` (`utils.py` 65):
`InNumberColumn` keeps it, unless it consists of digits, or of digits with one `e` among them
(`LooksLikeNumber`); then SQLite makes it a number, and what number is left out, since the
server only tries to subscript it. `ServeMessages` answers if there is no number in the
mailbox; `ServeMessagesRaises` is the loop that meets one (`MassageUServer.py` 154): the rows
before it are deleted, nothing is sent, and the program waits (`step` is "silent") until it is
ended (`GiveUp`). `Lost` are the messages that went that way. `ReadClient` and `ReadMessage` are one turn each of the loops over an answer.
`Rows` are the rows of a table that a `SELECT` finds, in the order of the table: it takes the
set of their numbers, not a test of each row, so that what is selected of the database and of
the history can be compared number by number.

## 3. What the runs check

| run | module / cfg | distinct states | what it shows |
|---|---|---|---|
| registry | `MCClientRegistry` | 2.2 thousand | names and identifiers denote one client (`OneRowPerClient`); no row is replaced before a restart or below Base clients (`NoClientReplaced`) |
| registry_reload | `MCClientRegistryReload` | violation | after a restart the counter may be an identifier before the last one: a registration replaces a client |
| store | `MCMessageStore` | 0.25 million | `FreeListSound`, `SessionOrder`, `NoKeySkipped`, `Conservation` with three sessions, four keys in two pages |
| server_reconnect | `MCServerReconnect` | 1.2 million | `ReceivedOnce`, `ReceivedInOrder`, `MailboxService`: three connections of one user, whose threads outlive them |
| server_restart | `MCServerRestart` | 0.8 million | types, `AnswersMatch`, `LiveIdsDistinct`, `StoredOnce`, `MailboxService`: all five requests, some longer than two buffers, two restarts, pages of one identifier, a message to an identifier that nobody has yet |
| server_live | `MCServerLive` | 0.2 million | `Answered`, `AcceptorProgress` under fairness, with all ways a request may arrive |
| server_fragments | `MCServerFragments` | violation | a piece shorter than a header has the request before it executed again |
| client_keys | `MCMessageUClient` | 2.5 million | `TextKeyIsAddressees`, `KeysDecrypt`: two users, two runs each, a registration that is repeated |
| client_stale_key | `MCMessageUClientStaleKey` | violation | a friend's new symmetric key is announced and dropped |
| framing | `MCFraming` | 0.25 million | `UsedIsOwn`, `ExecutedInOrder`, `NeverWaitsForMore`, `Answered`, `ThreadEnds`, for requests whole and in pieces |
| files | `MCClientFiles` | 0.5 million | `MeInfoIsRegistration`, `CanStart`, `ProgramHasFilesPair`, `FileNeverReplaced`: two programs of one directory, killed anywhere, with a disk that fills up |
| wire | `MCWire` | 1.5 million | `ListIsComplete`, `KeyArrives`, `MessagesArrive`, `SilentAtNumber`: three clients, two messages, contents that are a number to SQLite and such that are none |

`CHECK_DEADLOCK FALSE` everywhere: connections, runs, names and restarts get used up, and a
system in which nobody asks anything stops rightly.

The properties, in words:

* `FreeListSound`: an allocator is out of date in one way only. A stored row whose key it
  holds as free was stored by another session after its sync.
* `SessionOrder`, `NoKeySkipped`: the keys of one session are in the order of its messages,
  although they are reused and shared, and page 1 is reached only when page 0 is used up.
* `Conservation`: while no two sessions read one mailbox at a time, each message is either
  stored or taken by exactly one session; a DELETE by key never hits another row. With two
  readers it may: `raced` marks that regime, which a user enters who starts a program while a
  thread of an earlier connection still reads.
* `AnswersMatch`: the answer a waiting program will read is for what it asked.
* `StoredOnce`, `ReceivedOnce`, `ReceivedInOrder`: a request stores one message at most; it
  is received at most once, and in order per connection that sent it.
* `MailboxService`: the refinement of `Mailbox`.
* `LiveIdsDistinct`: programs that run at the same time have different identifiers.
* `Answered`, `AcceptorProgress`: see fairness below.
* `TextKeyIsAddressees`: a text under way is encrypted with a key that a run of its addressee
  made.
* `KeysDecrypt`: a key message never ends a program whose `me.info` was written (its
  private key, its file, the server's row, the keys cached by friends and the messages
  under way all agree).
* `UsedIsOwn`: while requests fit (at once, no longer than two buffers, not exactly one), the
  answer that a program uses is for the request it waits on, also with a NUL of the answer
  before still in the socket and with a server that stops in the middle of an answer.
* `ExecutedInOrder`: however the stream is cut, requests are executed in order; once each
  while they fit. `NeverWaitsForMore`: while they fit, `recv` does not wait for bytes that
  nobody sends.
* `Framing!Answered`, `ThreadEnds`: in whatever pieces, a waiting program goes on and the
  thread of a program that is gone ends, but for a last piece of exactly one buffer, and a
  first piece that ends the main thread.
* `MeInfoIsRegistration`: a file that a program can start with has the name, identifier and
  key of one registration. `CanStart`: a file that is there can be started with, however many
  programs wrote it, but for a kill between opening and writing, or a full disk.
  `ProgramHasFilesPair`: a program with the file's identifier has the file's pair.
  `FileNeverReplaced`: a usable file is replaced only by a program that ran at the same time.
* `ListIsComplete`, `KeyArrives`, `MessagesArrive`: lists, keys and mail are shown as they
  were entered, byte by byte, if there is an answer; only a name that fills its field is followed
  by what lies behind it.
* `SilentAtNumber`: mail stays without an answer for one reason, a content whose hexadecimal
  form is a number to SQLite. The messages before the first one are lost; it and all others,
  of every reader, are still in the table as they were sent.

### Findings

1. `get_last_id` (`server/utils.py` 135) reads the order of the text while `id_add1` counts
   with the first character as the lowest digit. After 16 clients and a restart the next
   registration may replace a client (`registry_reload`).
2. `MessageUClient.recv` (`MassageUServer.py` 76-93) sets the status to bad when the decoder
   raises, and goes on to overwrite it: the request of before is executed again
   (`server_fragments`).
3. `saveFriendAesKey` (`MessageUClient.cpp` 214-219) keeps the old key of a friend while the
   program says "symmetric key received" (`client_stale_key`).

Modelled too, as the actions that raise (`AnswerKey`, `AnswerSend`, `TakeRaises`,
`SyncFails`, `FirstUndecodable`, `FirstRefusedRaises`, `SendRaises`, `AddMessageFails`,
`FirstLocked`, `ThreadLocked`): a key of an unknown client, a locked database, a duplicate key, an identifier of more than 32 bits, content that
SQLite turned into a number, a name that is not ASCII, and a program that went away each
end a thread and leave its program waiting; the properties say what holds nevertheless.

Seen in the models without a run of their own, as conditions of the properties:

* the NUL that the server sends behind the marker stays in the socket (`Client.cpp` 45) and
  is read before the next answer: the tail in `Framing`; the header is then sought behind it;
* an answer whose end never came is used (`MessageUClient.cpp` 72-75): `GetMsgRaises`;
* after a request of more than two buffers, answers are one request late, since it is
  answered as two (`UsedIsOwn` is false without `Fits`);
* two programs of one directory look for `me.info` before either wrote it
  (`MessageUClient.cpp` 138-148): `together` in `FileNeverReplaced`;
* a name of full length is shown with what follows it in the answer (`MessageUClient.cpp`
  164): `ShownAs`.

### Bounds

* Registry: Base 3 and Digits 2 instead of 16 and 32: nine identifiers, five names, so that
  identifiers carry into the second digit and all orders of registrations and three restarts
  occur. Server runs use Base 4, Digits 1, where identifiers never carry: with `MaxRestarts = 2`
  and two names the registry is in the regime of `NoClientReplaced`.
* Store: two pages of two slots, three messages: keys are reused, page 0 overflows, an
  allocator meets a stored row, and two sessions hold rows of one client. One sender, since
  nothing in the store looks at who sent a row.
* Server: two or three connections, two requests each. Two messages are enough for
  order, duplicates and one taken while another is stored; a connection can connect, be left
  and be followed by another of the same user. `MaxMessages` is 4 in the live run and is never
  reached there, so that it disables nothing. A request that comes in more than one piece comes
  in two: a third would be decoded and answered as the second is. A user may address a message
  to any identifier; server_restart has one that is nobody's until later (`Strangers`), the
  other runs have registered ones. The database may be found locked in
  server_restart and server_live (`Locking`); server_reconnect, with three connections, and
  server_fragments leave it out to stay small.
* Client: two users, two runs, two key pairs, one message per run. A key, a text under it,
  a restart and the new key need four runs in all; a repeated registration needs two pairs.
* Framing: a buffer of 4 bytes and a header of 2; requests of 2, 4, 8 and 9 bytes: less
  than a buffer, exactly one, exactly two, more than two. Four requests when they arrive at
  once, two when they arrive in pieces.
* Files: two programs, four starts, three pairs, two names, a key of two lines, three texts
  of `server.info` (good, a port that is no number, no colon).
* Wire: fields of 2, 3 and 16 bytes; three names (empty, short, filling the field), one key
  with every digit in both places of a byte; three contents: none, one whose hexadecimal form is
  a number ("1e52"), and one with a NUL that begins in the same way and is none ("1e00ab").
  Two messages put a number first, last or twice into a mailbox, or into that of another.
* Symmetry is used in runs without liveness only; names of users, sessions, connections and
  clients are interchangeable there.

### Fairness

`FairSpec` of the server has weak fairness of the main thread and of each session thread,
since the operating system schedules them, and of a program that waits reading what arrives
(`read_until`). Nothing obliges a user to start a program, to ask, or to quit, nor the server
to be restarted. `Answered` excepts threads that raised: the code does not close their
connections. `AcceptorProgress` excepts a main thread that ended and a silent connection: the
code reads the first request before it accepts the next connection, without a timeout.

`FairSpec` of the framing has weak fairness of the network (`Arrive`), of the server's step
and of the waiting program's two ways to read. Nobody has to ask, to quit or to stop.

## 4. What is proved

`tlapm` checks, for every value of the constants that the ASSUMEs of the modules allow:

* `ClientRegistryProofs`: `RegistryInvariant`, `TypeCorrect`, `OneRowPerClientAlways`,
  `NoClientReplacedEver`, `OneLastIdAlways`. The lemmas about `Add1` show that it returns an identifier and
  the next one in the order of counting, for every base and length; the position where the
  carry stops is found as a minimum by well-foundedness, not by recursion. The invariant adds
  to `OneRowPerClient` that the counter is not before any identifier in the table while there
  was no restart (`Numbered`), and that below Base clients all identifiers differ in the
  first digit only (`OneDigit`), where the two orders agree: each is what makes the next
  identifier new in one of the two cases of `NoClientReplaced`. `OneLastIdAlways`: `IsLastId`
  names exactly one identifier of a table that is not empty, so that `Reload` is neither stuck
  nor a choice.
* `MessageStoreProofs`: `TypeCorrect`, `StoreInvariant`, `FreeListSoundAlways`,
  `SessionOrderAlways`, `NoKeySkippedAlways`, `ConservationAlways`. None of the four is
  inductive. The invariant adds where rows come from (`Origins`), that a free list lies above
  the keys its session used and lacks only keys used by it or stored at its sync
  (`Allocators`), and that open batches of different sessions are of different clients and
  still stored while `~raced` (`Batches`).
* `MessageUServerProofs`: every step of the server is a step of its parts or
  leaves them alone (`RegistryImplemented`, `StoreImplemented`). The theorems of the parts,
  taken as `RegistryTheory == INSTANCE ClientRegistryProofs` and
  `StoreTheory == INSTANCE MessageStoreProofs`, therefore hold in the server:
  `ServerOneRowPerClient`, `ServerNoClientReplaced`, `ServerKeysInOrder`,
  `ServerConservation`. That a thread calls the store only as the store allows needs
  `ServerInvariant`: what a connection is before it has a thread (`Early`), what holds once it
  has one (`Served`: its client is known, its database open, its requests its own), and the
  registration in between, when the program does not know its identifier (`Registering`).
  `TypeCorrect` follows.
* The same module proves `AnswersMatchAlways` and `LiveIdsDistinctAlways`, in every state in
  which `IdsFresh` holds: the server was not restarted, or has fewer than Base clients.
  Beyond that both are false of the code, since a registration may be given an identifier
  that a client has (finding 1). Once `IdsFresh` does not hold it never holds again
  (`FreshBefore`), so that where it holds no row was ever replaced (`RowsKept`), which is what
  answers that are under way need to stay right (`AnswersStay`). `FewNamesNeverMixed` has no
  condition on the state: with fewer than Base names `IdsFresh` is an invariant. `InStep` is the
  inductive form of `AnswersMatch`: a connection whose requests arrive whole is idle, or its
  one request is on its way (`Arriving`), in work (`Working`) or answered (`Returning`), and what
  the thread has in `request`, `batch` and `reply` belongs to it. `LiveInv` is that of
  `LiveIdsDistinct`: an identifier that a thread is about to answer a registration with, or that
  is in an unread answer, is a claim (`Claim`); it is new, so that no two connections claim it
  (`OneClaim`) and no running program has it (`Owners`).
* In the same module: `MailboxImplemented`, the refinement, with
  `ReceivedInOrderAlways` and, through it, `ReceivedOnceAlways`. `OrderedInvariant` joins what
  a connection has read, the answers under way and the answer in work into one stream, in
  which rows of one sender are in order (`InOrder`), and ahead of the rows that its thread
  has read and not deleted (`BatchOrder`) and of all that is in the table (`BoxOrder`). Most
  steps add nothing to a stream (`Quiet`), which leaves those that store, select, delete and
  read. For `Deliver`, which has to be a sequence of letters at hand, no longer than the count
  of letters, distinct ranks below that count bound its length. `MailStep` puts the cases
  together.
* The same module proves `StoredOnceAlways`, if "fragmented" is not in `Arrivals` (with it
  the property is false: `server_fragments`). `StoredOnce` is not inductive, since it says
  nothing of what is still to be executed. The invariant (`PiecesInv`) numbers the requests of
  a connection: those in `Place(c)`, the one in work and the pieces in the inbox, come later
  than all that connection `c` has stored, and in order (`Numbered`); and a piece that the
  decoder cannot read follows one that it flagged (`ShortFollows`), so that the request of
  before is not one to send.
* `MailboxProofs`: `MailboxInvariant`, `OnePlaceAlways`, `DeliveredInOrderAlways`: what the
  abstract mailbox is good for. A letter is in one place.
* `MessageUClientProofs`: `TypeCorrect`, `KeyInvariant`, `TextKeyIsAddresseesAlways`,
  `KeysDecryptAlways`. The types alone are not inductive: `Started` adds that a registration
  under way is of the pair the program holds, which is why `me.info` never gets an empty key.
  `KeyInv` relates all copies of a key: the row, the file, the program, what an answer brings,
  what friends keep, and every message in the mailbox, in a batch or under way (`Good`).
* `FramingProofs`: `FramingInvariant`, `TypeCorrect`, `UsedIsOwnAlways`,
  `ExecutedInOrderAlways`, `NeverWaitsForMoreAlways`, for every size of buffer and header and
  every set of lengths. `Behind` holds of every stream: what was executed ends before the
  piece in work. `InSync` holds while requests fit: the server has read everything or is about
  to serve the last request (`InStep`), and besides tails the socket holds the answer to it,
  once (`AnswerIsOwn`). `RequestsNeverFillTheBuffer` shows for the sizes of the code that a
  message never has exactly the length of the buffer.
* `ClientFilesProofs`: `FilesInvariant`, `TypeCorrect`, `MeInfoIsRegistrationAlways`,
  `ProgramHasFilesPairAlways`, `CanStartAlways`, `FileNeverReplacedAlways`. The first half is
  about texts: whatever is left of the text of a registration (`Written`: whole, a beginning,
  or over a longer one) loads no key, or has all the lines that a program reads (`Agrees`), and
  then gives its name, identifier and pair back and no other. The invariant says that the file
  is left of one registration (`FileOK`); that between request and file `me_info` is what the
  server has (`Registering`), with an old identifier or the end of another file's text in it
  before; that one program may write the file of an identifier, once, and that no other has
  that identifier before (`OneWriter`), which is why a program that replaced its pair in a
  registration that failed never meets a file with its old identifier (`PairOfFile`); and that
  clients and waiting registrations have pairs of their own (`PairsApart`), which also bounds
  the number of clients by the number of pairs. `CanStartAlways` and `FileNeverReplacedAlways`
  have small invariants of their own on top (`WholeUnlessFull`, `Alone`).
* `WireProofs`: `WireInvariant`, `TypeCorrect`, `KeyArrivesAlways`, `ListIsCompleteAlways`,
  `MessagesArriveAlways`, `SilentAtNumberAlways`, for every size of the fields, every key and
  content, every name without NUL that fits, and any number of clients and messages. For a
  content that is a number to SQLite this says that it is kept as one and that its reader gets
  no answer; `MessagesArriveAlways` is about the answers there are. The first half is about the
  operators: `HexRoundTrip` (text and bytes), `StripPadded` and `NameIsShown` (names), the
  fields of each structure, `Flatten` (where each structure begins when they are put one
  behind the other) and `RowsOfTable`. The recursion in `FlattenSeq` and the order in `Rows`
  are reached by a least counterexample among the numbers, not by induction over sequences.
  The invariant says of each place what it stands for: the rows of the database are the
  history as text, or as a number where the column makes it one (`ClientsInv`, `MessagesInv`;
  after a number was met, the history without what was lost, `KeptMail`), a request is the one the program remembers
  (`RequestInv`), an answer is a list of structures, each at the place where the program looks
  for it, and the screen has those before that place (`ListInv`, `MailInv`).

Assumptions: those named in the modules (Base at least 2, at least one digit, page and slot;
a header no longer than the buffer; a value for "nothing" that is nothing else; in `Wire` fields
of at least one byte, keys and contents of bytes, names of characters of one byte that are no
NUL and fit their field; bounds natural numbers), and those of `StoredOnceAlways` and
`FewNamesNeverMixed`, which their statements name.

Only model-checked:

* all liveness: the provers here treat neither fairness nor ENABLED. Every invariant and
  action property of the runs has a theorem.

## 5. Not modelled

* which of two transactions waits for SQLite's lock, and for how long: a transaction is one
  step that may fail while another is under way (`Locked`);
* the names of received files (`MessageUClient.cpp` 315-322): a pointer that is moved along
  a literal, one expression without state;
* standard input at its end (`MessageUClient.cpp` 104): the menu loops for ever, without
  state;
* the marker inside an answer: its 18 bytes are in encrypted content by chance only, and in
  a name only if a user enters them;
* cryptography: decryption works with the right key only; the algorithms are a library's;
* the answer to a request for a key under an identifier that is no text, which a user would have
  to enter (`MassageUServer.py` 142-143): an error, where `AnswerKey` has an identifier;
* what a mailbox that is unreadable, a store whose page 0 is used up, or a main thread that has
  ended mean for ever after: the steps are there, and the properties except them by name
  (`PROJECT.json` says so at each hazard);
* `check`, `disconnect_long_last_seen`, `free_message_id`, `hexify`: never called;
* `MessageUProtocol.cpp`, an older binding that the server does not import, and the build
  files.

## 6. Plan

Done: all modules of the plan, with `Mailbox` as the server's abstract specification and its
refinement proved, and a theorem for every safety property of the runs. What is left would be
`MessageUClient` over `Mailbox` instead of its own mailbox, so that the abstraction it makes of
the server is a refinement, too.

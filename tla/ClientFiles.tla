---------------------------- MODULE ClientFiles ----------------------------
(***************************************************************************)
(* The files of one directory, me.info and server.info, and the programs   *)
(* that a user starts in it: how me.info is parsed and written, and what   *)
(* is left of it when a program ends, or the disk is full, in between.     *)
(*                                                                         *)
(* A text is the sequence of its lines; what follows the last end of line  *)
(* is the last element, mostly Empty.                                      *)
(***************************************************************************)
EXTENDS Integers, Sequences

CONSTANTS
  Program,      \* the places where the user starts the client
  Name,         \* names that the user enters
  None,         \* no file, no identifier, no pair
  KeyLines,     \* lines that the Base64 form of a private key has
  ServerInfos,  \* texts of server.info, cut at the colons
  MaxStarts,    \* bound: starts of the client
  MaxPairs      \* bound: RSA pairs

ASSUME ClientFilesAssumption ==
  /\ KeyLines \in Nat \ {0} /\ MaxStarts \in Nat /\ MaxPairs \in Nat
  /\ None \notin Int

VARIABLES
  serverInfo,  \* server.info
  meInfo,      \* me.info: its text, or None
  clients,     \* server: name and pair of each client; its place is its identifier
  pairs,       \* RSA pairs made so far
  starts,      \* starts of the client so far
  state,       \* off, cli, waiting, answered, opening, writing, reading
  session,     \* what the server has for the connection: new, thread, closed
  me,          \* me_info: the name, the identifier and the key as text
  exist,       \* me_info.exist
  id,          \* req.header.id
  rsa,         \* rsapriv_wrapper: a pair
  answer,      \* an identifier, or None for an error
  full,        \* history: the disk was full, or a writing program was killed
  together     \* history: two programs were running at a time

memory == <<me, exist, id, rsa>>
history == <<full, together>>
vars == <<serverInfo, meInfo, clients, pairs, starts, state, session, answer, history, memory>>

Empty == <<>>
Cut   == <<"cut">>   \* a line that is not whole, or whose bytes are of two texts

Line ==
  {Empty, Cut} \cup ({"name"} \X Name) \cup ({"id"} \X (1 .. MaxPairs))
  \cup ({"key"} \X (1 .. MaxPairs) \X (1 .. KeyLines))

Nobody == [name |-> Empty, id |-> Empty, key |-> <<>>]

\* Base64Wrapper::encode ends its last line, too.
Encoded(pair) == [k \in 1 .. KeyLines |-> <<"key", pair, k>>]

\* RSAPrivateWrapper's Load raises for anything shorter than a key.
Loads(key, pair) ==
  Len(key) >= KeyLines /\ SubSeq(key, 1, KeyLines) = Encoded(pair)

\* setID: hexadecimal and ID_SIZE long.
IsId(line) == line # Empty /\ line[1] = "id"

\* parseData: a text that is too short changes nothing, a bad identifier all but
\* the name; what follows the last end of line belongs to no key.
Parsed(m, text) ==
  IF Len(text) < 3 THEN m
  ELSE IF ~IsId(text[2]) THEN [m EXCEPT !.name = text[1]]
  ELSE [name |-> text[1], id |-> text[2], key |-> SubSeq(text, 3, Len(text) - 1)]

\* Mutant: the last line of the key is not ended.
TextUnended(m) == <<m.name, m.id>> \o m.key

\* The text that writeData builds.
Text(m) == <<m.name, m.id>> \o m.key \o <<Empty>>

\* The beginnings of a text.
Beginnings(text) ==
  {SubSeq(text, 1, k) \o <<line>> : k \in 0 .. Len(text) - 1, line \in {Empty, Cut}}

\* A text written over another one, of which a shorter end may be left.
Over(text) == {text, SubSeq(text, 1, Len(text) - 1) \o <<Cut, Empty>>}

\* ServerInfoFileRWIF: two parts, an address and a number; else it exits.
GoodServerInfo(parts) == Len(parts) = 2 /\ parts[1] = "address" /\ parts[2] = "number"

-----------------------------------------------------------------------------

Init ==
  /\ serverInfo \in ServerInfos
  /\ meInfo = None
  /\ clients = <<>>
  /\ pairs = 0
  /\ starts = 0
  /\ state = [p \in Program |-> "off"]
  /\ session = [p \in Program |-> "closed"]
  /\ me = [p \in Program |-> Nobody]
  /\ exist = [p \in Program |-> FALSE]
  /\ id = [p \in Program |-> None]
  /\ rsa = [p \in Program |-> None]
  /\ answer = [p \in Program |-> None]
  /\ full = FALSE /\ together = FALSE

\* The constructor parses the file, and takes the keys of a file that exists,
\* whatever came of it.  connect() then parses server.info.
Start(p) ==
  LET m == IF meInfo = None THEN Nobody ELSE Parsed(Nobody, meInfo) IN
  /\ state[p] = "off" /\ starts < MaxStarts
  /\ starts' = starts + 1
  /\ GoodServerInfo(serverInfo)
  /\ \/ meInfo = None /\ UNCHANGED <<rsa, id>>
     \/ \E pair \in 1 .. pairs :
          /\ meInfo # None /\ Loads(m.key, pair)
          /\ rsa' = [rsa EXCEPT ![p] = pair]
          /\ id' = [id EXCEPT ![p] = m.id[2]]
  /\ me' = [me EXCEPT ![p] = m]
  /\ exist' = [exist EXCEPT ![p] = meInfo # None]
  /\ state' = [state EXCEPT ![p] = "cli"]
  /\ session' = [session EXCEPT ![p] = "new"]
  /\ together' = (together \/ \E q \in Program : state[q] # "off")
  /\ UNCHANGED <<serverInfo, meInfo, clients, pairs, answer, full>>

\* The constructor raises outside of main's try, or connect() exits.
CannotStart ==
  \/ ~GoodServerInfo(serverInfo)
  \/ meInfo # None /\ \A pair \in 1 .. pairs : ~Loads(Parsed(Nobody, meInfo).key, pair)

StartFails(p) ==
  /\ state[p] = "off" /\ starts < MaxStarts
  /\ CannotStart
  /\ starts' = starts + 1
  /\ UNCHANGED <<serverInfo, meInfo, clients, pairs, state, session, answer, history, memory>>

\* The program ends or is killed, and writes nothing that it has not written.
Exit(p) ==
  /\ state[p] # "off"
  /\ state' = [state EXCEPT ![p] = "off"]
  /\ session' = [session EXCEPT ![p] = "closed"]
  /\ me' = [me EXCEPT ![p] = Nobody]
  /\ exist' = [exist EXCEPT ![p] = FALSE]
  /\ id' = [id EXCEPT ![p] = None]
  /\ rsa' = [rsa EXCEPT ![p] = None]
  /\ answer' = [answer EXCEPT ![p] = None]
  /\ full' = (full \/ state[p] = "writing")
  /\ UNCHANGED <<serverInfo, meInfo, clients, pairs, starts, together>>

-----------------------------------------------------------------------------
(* Command 10. *)

\* Mutant: a file that exists does not matter.
ExistsNever(p) == FALSE

\* exists(): once it was there, it is.
Exists(p) == exist[p] \/ meInfo # None

RegisterRefused(p) ==
  /\ state[p] = "cli" /\ Exists(p)
  /\ exist' = [exist EXCEPT ![p] = TRUE]
  /\ UNCHANGED <<serverInfo, meInfo, clients, pairs, starts, state, session, answer,
                 history, me, id, rsa>>

\* sendRegistrationReq: name and keys are replaced before anything is sent.  Nothing
\* is answered on a connection that is closed.
Register(p, n) ==
  /\ state[p] = "cli" /\ ~Exists(p)
  /\ pairs < MaxPairs
  /\ pairs' = pairs + 1
  /\ rsa' = [rsa EXCEPT ![p] = pairs + 1]
  /\ me' = [me EXCEPT ![p].name = <<"name", n>>, ![p].key = Encoded(pairs + 1)]
  /\ state' = [state EXCEPT ![p] = IF session[p] = "closed" THEN "cli" ELSE "waiting"]
  /\ UNCHANGED <<serverInfo, meInfo, clients, starts, session, answer, history, exist, id>>

\* Mutant: the counter is incremented twice.
NewIdTwice == Len(clients) + 2

\* inc_last_client_id
NewId == Len(clients) + 1

\* The server's part: the first request of a connection is served, unless the name
\* is there; a thread answers a registration with an error.
Serve(p) ==
  LET n == me[p].name[2] IN
  /\ state[p] = "waiting"
  /\ state' = [state EXCEPT ![p] = "answered"]
  /\ \/ /\ session[p] = "new" /\ \A i \in DOMAIN clients : clients[i].name # n
        /\ clients' = Append(clients, [name |-> n, pair |-> rsa[p]])
        /\ answer' = [answer EXCEPT ![p] = NewId]
        /\ session' = [session EXCEPT ![p] = "thread"]
     \/ /\ session[p] = "new" /\ \E i \in DOMAIN clients : clients[i].name = n
        /\ session' = [session EXCEPT ![p] = "closed"]
        /\ UNCHANGED <<clients, answer>>
     \/ /\ session[p] = "thread"
        /\ UNCHANGED <<clients, answer, session>>
  /\ UNCHANGED <<serverInfo, meInfo, pairs, starts, history, memory>>

\* The connection breaks, and an answer may be lost with it.
Break(p) ==
  /\ session[p] # "closed"
  /\ session' = [session EXCEPT ![p] = "closed"]
  /\ state' = [state EXCEPT ![p] = IF @ \in {"waiting", "answered"} THEN "cli" ELSE @]
  /\ answer' = [answer EXCEPT ![p] = None]
  /\ UNCHANGED <<serverInfo, meInfo, clients, pairs, starts, history, memory>>

\* Mutant: the status of recvResp is not looked at.
GotErrorIgnored(p) ==
  /\ state[p] = "answered" /\ answer[p] = None
  /\ state' = [state EXCEPT ![p] = "opening"]
  /\ UNCHANGED <<serverInfo, meInfo, clients, pairs, starts, session, answer, history, memory>>

\* recvResp fails.
GotError(p) ==
  /\ state[p] = "answered" /\ answer[p] = None
  /\ state' = [state EXCEPT ![p] = "cli"]
  /\ UNCHANGED <<serverInfo, meInfo, clients, pairs, starts, session, answer, history, memory>>

\* regitrete has its answer: the header, and setID.
GotId(p) ==
  /\ state[p] = "answered" /\ answer[p] # None
  /\ id' = [id EXCEPT ![p] = answer[p]]
  /\ me' = [me EXCEPT ![p].id = <<"id", answer[p]>>]
  /\ state' = [state EXCEPT ![p] = "opening"]
  /\ answer' = [answer EXCEPT ![p] = None]
  /\ UNCHANGED <<serverInfo, meInfo, clients, pairs, starts, session, history, exist, rsa>>

\* writeFile: opening the file empties it, and may fail.
OpenFile(p) ==
  /\ state[p] = "opening"
  /\ \/ meInfo' = <<Empty>> /\ state' = [state EXCEPT ![p] = "writing"]
     \/ UNCHANGED meInfo /\ state' = [state EXCEPT ![p] = "cli"]
  /\ UNCHANGED <<serverInfo, clients, pairs, starts, session, answer, history, memory>>

\* The text goes out when the file is closed.  Nobody asks whether it was written.
WriteFile(p) ==
  /\ state[p] = "writing"
  /\ state' = [state EXCEPT ![p] = "reading"]
  /\ \/ /\ meInfo' \in IF meInfo = <<Empty>> THEN {Text(me[p])} ELSE Over(Text(me[p]))
        /\ UNCHANGED full
     \/ /\ meInfo = <<Empty>>
        /\ meInfo' \in Beginnings(Text(me[p]))
        /\ full' = TRUE
  /\ UNCHANGED <<serverInfo, clients, pairs, starts, session, answer, memory, together>>

\* writeData ends with parseData.
ReadBack(p) ==
  /\ state[p] = "reading"
  /\ me' = [me EXCEPT ![p] = Parsed(@, meInfo)]
  /\ state' = [state EXCEPT ![p] = "cli"]
  /\ UNCHANGED <<serverInfo, meInfo, clients, pairs, starts, session, answer, history,
                 exist, id, rsa>>

-----------------------------------------------------------------------------

Next ==
  \E p \in Program :
    \/ Start(p) \/ StartFails(p) \/ Exit(p)
    \/ RegisterRefused(p)
    \/ \E n \in Name : Register(p, n)
    \/ Serve(p) \/ Break(p)
    \/ GotError(p) \/ GotId(p)
    \/ OpenFile(p) \/ WriteFile(p) \/ ReadBack(p)

Spec == Init /\ [][Next]_vars

-----------------------------------------------------------------------------

\* What the variables hold.
TypeOK ==
  /\ serverInfo \in ServerInfos
  /\ meInfo \in Seq(Line) \cup {None}
  /\ clients \in Seq([name : Name, pair : 1 .. MaxPairs])
  /\ pairs \in 0 .. MaxPairs
  /\ starts \in 0 .. MaxStarts
  /\ state \in [Program ->
       {"off", "cli", "waiting", "answered", "opening", "writing", "reading"}]
  /\ session \in [Program -> {"new", "thread", "closed"}]
  /\ me \in [Program -> [name : Line, id : Line, key : Seq(Line)]]
  /\ exist \in [Program -> BOOLEAN]
  /\ id \in [Program -> (1 .. MaxPairs) \cup {None}]
  /\ rsa \in [Program -> (1 .. MaxPairs) \cup {None}]
  /\ answer \in [Program -> DOMAIN clients \cup {None}]
  /\ full \in BOOLEAN /\ together \in BOOLEAN

\* The file of a registration: pair is the one whose key it has.
Holds(pair) == meInfo # None /\ Loads(Parsed(Nobody, meInfo).key, pair)

\* A file that a program can start with is the file of one registration: name and
\* key are those the server has for its identifier, whatever failed before it was
\* written and whoever else wrote it.
MeInfoIsRegistration ==
  \A pair \in 1 .. pairs :
    Holds(pair) =>
      LET m == Parsed(Nobody, meInfo) IN
        /\ m.id[2] \in DOMAIN clients
        /\ m.name = <<"name", clients[m.id[2]].name>>
        /\ clients[m.id[2]].pair = pair

\* A file that is there can be started with, however many programs wrote it, unless one
\* is about to write it, was killed there, or the disk was full (writeData, parseData).
CanStart ==
  meInfo # None /\ ~full /\ (\A p \in Program : state[p] # "writing")
    => \E pair \in 1 .. pairs : Holds(pair)

\* A running program with the identifier of the file has the file's pair, although
\* a registration replaces the pair before it is accepted.
ProgramHasFilesPair ==
  \A p \in Program, pair \in 1 .. pairs :
    Holds(pair) /\ id[p] = Parsed(Nobody, meInfo).id[2] => rsa[p] = pair

\* "me.info allredy exists": a registration is never replaced by another one, unless
\* by a program that was running at the same time (sendRegistrationReq).
FileNeverReplaced ==
  [][~together => \A pair \in 1 .. pairs : Holds(pair) => meInfo' = meInfo]_vars

=============================================================================

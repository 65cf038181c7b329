------------------------- MODULE ClientFilesProofs -------------------------
(***************************************************************************)
(* Proofs about me.info, for every number of programs, names, starts, RSA  *)
(* pairs and lines of a key: what is in the file, whoever wrote it and     *)
(* whatever failed, and which program may still write it.                  *)
(***************************************************************************)
EXTENDS ClientFiles, FiniteSetTheorems, SequenceTheorems, TLAPS

\* me.info as the program that registered client i writes it.
Registration(i) ==
  [name |-> <<"name", clients[i].name>>, id |-> <<"id", i>>, key |-> Encoded(clients[i].pair)]

\* The texts that are left of it: whole, or not.
Whole(i)   == Over(Text(Registration(i)))
Written(i) == Whole(i) \cup Beginnings(Text(Registration(i)))

\* The file is there and has the key of client i.
FileOf(i) == meInfo # None /\ Loads(Parsed(Nobody, meInfo).key, clients[i].pair)

-----------------------------------------------------------------------------
(* Texts. *)

\* What the lines are.
LEMMA Lines ==
  /\ Empty \in Line /\ Cut \in Line /\ ~IsId(Empty) /\ ~IsId(Cut)
  /\ \A n \in Name : <<"name", n>> \in Line
  /\ \A i \in 1 .. MaxPairs : <<"id", i>> \in Line
  /\ \A i : IsId(<<"id", i>>)
  /\ \A pair \in 1 .. MaxPairs : Encoded(pair) \in Seq(Line)
  /\ \A pair : /\ Len(Encoded(pair)) = KeyLines
               /\ \A k \in 1 .. KeyLines : Encoded(pair)[k] = <<"key", pair, k>>
<1>1. Empty \in Line /\ Cut \in Line /\ ~IsId(Empty) /\ ~IsId(Cut)
  BY DEF Line, Empty, Cut, IsId
<1>2. \A n \in Name : <<"name", n>> \in Line
  BY DEF Line
<1>3. \A i \in 1 .. MaxPairs : <<"id", i>> \in Line
  BY DEF Line
<1>4. \A i : IsId(<<"id", i>>)
  BY DEF IsId, Empty
<1>5. \A pair \in 1 .. MaxPairs : Encoded(pair) \in Seq(Line)
  <2>. TAKE pair \in 1 .. MaxPairs
  <2>1. \A k \in 1 .. KeyLines : <<"key", pair, k>> \in Line
    BY DEF Line
  <2>. QED
    BY <2>1, ClientFilesAssumption DEF Encoded
<1>6. \A pair : /\ Len(Encoded(pair)) = KeyLines
                /\ \A k \in 1 .. KeyLines : Encoded(pair)[k] = <<"key", pair, k>>
  BY ClientFilesAssumption DEF Encoded
<1>. QED
  BY <1>1, <1>2, <1>3, <1>4, <1>5, <1>6

\* The lines of the text that writeData builds.
LEMMA TextLines ==
  ASSUME NEW m \in [name : Line, id : Line, key : Seq(Line)]
  PROVE  /\ Text(m) \in Seq(Line) /\ Len(Text(m)) = Len(m.key) + 3
         /\ Text(m)[1] = m.name /\ Text(m)[2] = m.id
         /\ \A k \in 1 .. Len(m.key) : Text(m)[k + 2] = m.key[k]
         /\ Text(m)[Len(m.key) + 3] = Empty
<1>1. <<m.name, m.id>> \in Seq(Line) /\ m.key \in Seq(Line) /\ <<Empty>> \in Seq(Line)
  BY Lines
<1>. DEFINE front == <<m.name, m.id>> \o m.key
<1>2. /\ front \in Seq(Line) /\ Len(front) = Len(m.key) + 2
      /\ front[1] = m.name /\ front[2] = m.id
      /\ \A k \in 1 .. Len(m.key) : front[k + 2] = m.key[k]
  BY <1>1
<1>3. Text(m) = front \o <<Empty>>
  BY DEF Text
<1>. HIDE DEF front
<1>. QED
  BY <1>1, <1>2, <1>3

\* Parsing gives the fields of a me_info.
LEMMA ParsedType ==
  ASSUME NEW m \in [name : Line, id : Line, key : Seq(Line)], NEW text \in Seq(Line)
  PROVE  Parsed(m, text) \in [name : Line, id : Line, key : Seq(Line)]
<1>1. Len(text) >= 3 => SubSeq(text, 3, Len(text) - 1) \in Seq(Line)
  OBVIOUS
<1>. QED
  BY <1>1 DEF Parsed

\* The beginning of a text with another line behind it.
LEMMA BeginningLines ==
  ASSUME NEW t \in Seq(Line), NEW k \in 0 .. Len(t), NEW e \in Seq(Line)
  PROVE  LET text == SubSeq(t, 1, k) \o e IN
           /\ text \in Seq(Line) /\ Len(text) = k + Len(e)
           /\ \A j \in 1 .. k : text[j] = t[j]
<1>1. /\ SubSeq(t, 1, k) \in Seq(Line) /\ Len(SubSeq(t, 1, k)) = k
      /\ \A j \in 1 .. k : SubSeq(t, 1, k)[j] = t[j]
  OBVIOUS
<1>. QED
  BY <1>1

-----------------------------------------------------------------------------
(* The file of a registration. *)

\* A client of the server.
KnownClient(i) ==
  i \in 1 .. MaxPairs /\ clients[i].name \in Name /\ clients[i].pair \in 1 .. MaxPairs

\* All that a program reads of the text is the text of client i.
Agrees(text, i) ==
  /\ text \in Seq(Line) /\ Len(text) >= KeyLines + 3
  /\ \A j \in 1 .. KeyLines + 2 : text[j] = Text(Registration(i))[j]

LEMMA RegistrationLines ==
  ASSUME NEW i, KnownClient(i)
  PROVE  LET m == Registration(i)  t == Text(m) IN
           /\ m \in [name : Line, id : Line, key : Seq(Line)]
           /\ t \in Seq(Line) /\ Len(t) = KeyLines + 3
           /\ t[1] = m.name /\ t[2] = <<"id", i>>
           /\ \A k \in 1 .. KeyLines : t[k + 2] = <<"key", clients[i].pair, k>>
<1>1. Registration(i) \in [name : Line, id : Line, key : Seq(Line)]
  BY Lines DEF Registration, KnownClient
<1>2. /\ Registration(i).id = <<"id", i>> /\ Len(Registration(i).key) = KeyLines
      /\ \A k \in 1 .. KeyLines : Registration(i).key[k] = <<"key", clients[i].pair, k>>
  BY Lines DEF Registration
<1>. QED
  BY <1>1, <1>2, TextLines

\* Such a text is parsed as it was written, and loads the pair of the client and no other.
LEMMA AgreeingParsed ==
  ASSUME NEW i, KnownClient(i), NEW text, Agrees(text, i)
  PROVE  LET m == Parsed(Nobody, text) IN
           /\ m.name = Registration(i).name /\ m.id = <<"id", i>>
           /\ Loads(m.key, clients[i].pair)
           /\ \A pair : Loads(m.key, pair) => pair = clients[i].pair
<1>. DEFINE m == Parsed(Nobody, text)
            key == SubSeq(text, 3, Len(text) - 1)
<1>1. KeyLines \in Nat /\ KeyLines >= 1
  BY ClientFilesAssumption
<1>2. /\ text \in Seq(Line) /\ Len(text) >= KeyLines + 3
      /\ text[1] = Registration(i).name /\ text[2] = <<"id", i>>
      /\ \A k \in 1 .. KeyLines : text[k + 2] = <<"key", clients[i].pair, k>>
  <2>. DEFINE t == Text(Registration(i))
  <2>1. /\ t[1] = Registration(i).name /\ t[2] = <<"id", i>>
        /\ \A k \in 1 .. KeyLines : t[k + 2] = <<"key", clients[i].pair, k>>
    BY RegistrationLines
  <2>2. /\ text \in Seq(Line) /\ Len(text) >= KeyLines + 3
        /\ \A j \in 1 .. KeyLines + 2 : text[j] = t[j]
    BY DEF Agrees
  <2>3. 1 \in 1 .. KeyLines + 2 /\ 2 \in 1 .. KeyLines + 2
    BY <1>1
  <2>4. \A k \in 1 .. KeyLines : k + 2 \in 1 .. KeyLines + 2
    BY <1>1
  <2>. HIDE DEF t
  <2>5. \A k \in 1 .. KeyLines : text[k + 2] = t[k + 2]
    BY <2>2, <2>4
  <2>. QED
    BY <2>1, <2>2, <2>3, <2>5
<1>3. m = [name |-> text[1], id |-> text[2], key |-> key]
  BY <1>1, <1>2, Lines DEF Parsed
<1>4. /\ key \in Seq(Line) /\ Len(key) = Len(text) - 3
      /\ \A k \in 1 .. Len(text) - 3 : key[k] = text[k + 2]
  BY <1>1, <1>2
<1>. HIDE DEF key
<1>5. \A k \in 1 .. KeyLines : key[k] = <<"key", clients[i].pair, k>>
  <2>1. 1 .. KeyLines \subseteq 1 .. Len(text) - 3
    BY <1>1, <1>2
  <2>. QED
    BY <1>2, <1>4, <2>1
<1>6. /\ SubSeq(key, 1, KeyLines) = Encoded(clients[i].pair)
      /\ SubSeq(key, 1, KeyLines)[1] = <<"key", clients[i].pair, 1>>
  <2>1. /\ SubSeq(key, 1, KeyLines) \in Seq(Line) /\ Len(SubSeq(key, 1, KeyLines)) = KeyLines
        /\ \A k \in 1 .. KeyLines : SubSeq(key, 1, KeyLines)[k] = key[k]
    BY <1>1, <1>2, <1>4
  <2>2. Encoded(clients[i].pair) \in Seq(Line)
    BY Lines DEF KnownClient
  <2>. QED
    <3>. DEFINE e == Encoded(clients[i].pair)
                f == SubSeq(key, 1, KeyLines)
    <3>1. Len(e) = KeyLines /\ \A k \in 1 .. KeyLines : e[k] = <<"key", clients[i].pair, k>>
      BY Lines
    <3>2. e \in Seq(Line) /\ f \in Seq(Line) /\ Len(f) = KeyLines
          /\ \A k \in 1 .. KeyLines : f[k] = <<"key", clients[i].pair, k>>
      BY <1>5, <2>1, <2>2
    <3>. HIDE DEF e, f
    <3>3. Len(f) = Len(e) /\ \A k \in 1 .. Len(f) : f[k] = e[k]
      BY <3>1, <3>2
    <3>4. f = e
      BY <3>2, <3>3, SeqEqual
    <3>5. f[1] = <<"key", clients[i].pair, 1>>
      BY <1>1, <3>2
    <3>. QED
      BY <3>4, <3>5 DEF e, f
<1>7. \A pair : Loads(key, pair) => pair = clients[i].pair
  BY <1>1, <1>6, Lines DEF Loads
<1>. QED
  BY <1>1, <1>2, <1>3, <1>4, <1>6, <1>7 DEF Loads

\* The whole texts agree.
LEMMA WholeAgrees ==
  ASSUME NEW i, KnownClient(i), NEW text \in Whole(i)
  PROVE  Agrees(text, i)
<1>. DEFINE t == Text(Registration(i))
<1>1. t \in Seq(Line) /\ Len(t) = KeyLines + 3 /\ KeyLines \in Nat
  BY RegistrationLines, ClientFilesAssumption
<1>2. CASE text = t
  BY <1>1, <1>2 DEF Agrees
<1>3. CASE text = SubSeq(t, 1, Len(t) - 1) \o <<Cut, Empty>>
  <2>1. <<Cut, Empty>> \in Seq(Line) /\ Len(<<Cut, Empty>>) = 2 /\ Len(t) - 1 \in 0 .. Len(t)
    BY <1>1, Lines
  <2>2. /\ text \in Seq(Line) /\ Len(text) = Len(t) - 1 + 2
        /\ \A j \in 1 .. Len(t) - 1 : text[j] = t[j]
    BY <1>1, <1>3, <2>1, BeginningLines
  <2>. QED
    BY <1>1, <2>2 DEF Agrees
<1>. QED
  BY <1>2, <1>3 DEF Whole, Over

\* Whatever is left of a text, it loads no pair or agrees.
LEMMA WrittenLoads ==
  ASSUME NEW i, KnownClient(i), NEW text \in Written(i)
  PROVE  /\ text \in Seq(Line)
         /\ \A pair : Loads(Parsed(Nobody, text).key, pair) => Agrees(text, i)
<1>. DEFINE t == Text(Registration(i))
            key == Parsed(Nobody, text).key
<1>1. t \in Seq(Line) /\ Len(t) = KeyLines + 3 /\ KeyLines \in Nat /\ KeyLines >= 1
  BY RegistrationLines, ClientFilesAssumption
<1>2. CASE text \in Whole(i)
  BY <1>2, WholeAgrees DEF Agrees
<1>3. ASSUME NEW k \in 0 .. Len(t) - 1, NEW line \in {Empty, Cut},
             text = SubSeq(t, 1, k) \o <<line>>
      PROVE  text \in Seq(Line) /\ (Len(key) >= KeyLines => Agrees(text, i))
  <2>1. <<line>> \in Seq(Line) /\ Len(<<line>>) = 1 /\ k \in 0 .. Len(t)
    BY <1>1, Lines
  <2>2. /\ text \in Seq(Line) /\ Len(text) = k + 1
        /\ \A j \in 1 .. k : text[j] = t[j]
    BY <1>1, <1>3, <2>1, BeginningLines
  <2>3. CASE Len(text) < 3 \/ ~IsId(text[2])
    BY <1>1, <2>2, <2>3 DEF Parsed, Nobody
  <2>4. CASE Len(text) >= 3 /\ IsId(text[2])
    <3>1. key = SubSeq(text, 3, k) /\ Len(key) = k - 2
      BY <2>2, <2>4 DEF Parsed
    <3>. QED
      BY <1>1, <2>2, <3>1 DEF Agrees
  <2>. QED
    BY <2>2, <2>3, <2>4
<1>. QED
  BY <1>2, <1>3 DEF Written, Beginnings, Loads

-----------------------------------------------------------------------------
(* The invariant. *)

\* Each client has a pair of its own, and so has each program that registers.
PairsApart ==
  /\ \A i \in DOMAIN clients : clients[i].pair <= pairs
  /\ \A i, j \in DOMAIN clients : clients[i].pair = clients[j].pair => i = j
  /\ \A p \in Program : state[p] = "waiting" =>
       /\ rsa[p] \in 1 .. pairs
       /\ \A i \in DOMAIN clients : clients[i].pair # rsa[p]
       /\ \A q \in Program : state[q] = "waiting" /\ rsa[q] = rsa[p] => q = p

\* Identifiers are clients'; programs that register saw no file, and those that will
\* read it back have made one.
ProgramOK(p) ==
  /\ id[p] \in DOMAIN clients \cup {None}
  /\ rsa[p] \in (1 .. pairs) \cup {None}
  /\ state[p] \notin {"off", "cli"} => ~exist[p]
  /\ state[p] \in {"writing", "reading"} => meInfo \in Seq(Line)

\* From the request to the file, me_info is what the server has or will have.
Registering(p) ==
  /\ state[p] = "waiting" =>
       /\ me[p].name \in {"name"} \X Name
       /\ me[p].key = Encoded(rsa[p])
  /\ answer[p] # None =>
       /\ state[p] = "answered"
       /\ rsa[p] = clients[answer[p]].pair
       /\ me[p].name = Registration(answer[p]).name
       /\ me[p].key = Registration(answer[p]).key
  /\ state[p] \in {"opening", "writing"} =>
       /\ id[p] # None
       /\ me[p] = Registration(id[p])
       /\ rsa[p] = clients[id[p]].pair

\* The program that got the identifier i has not written its file yet.
MayWrite(p, i) ==
  answer[p] = i \/ (state[p] \in {"opening", "writing"} /\ id[p] = i)

\* One program writes the file of a client, once, and no other has its identifier before.
OneWriter ==
  \A p \in Program, i \in DOMAIN clients : MayWrite(p, i) =>
    /\ \A q \in Program : MayWrite(q, i) \/ id[q] = i => q = p
    /\ ~FileOf(i)

\* The file is empty or what is left of one registration.
FileOK == meInfo \in {None, <<Empty>>} \cup UNION {Written(i) : i \in DOMAIN clients}

\* Who has the identifier of the file has its pair.
PairOfFile ==
  \A p \in Program, i \in DOMAIN clients : id[p] = i /\ FileOf(i) => rsa[p] = clients[i].pair

FilesInv ==
  /\ TypeOK
  /\ PairsApart
  /\ \A p \in Program : ProgramOK(p) /\ Registering(p)
  /\ FileOK
  /\ OneWriter
  /\ PairOfFile

\* There are no more clients than pairs.
LEMMA FewerClients ==
  ASSUME TypeOK, PairsApart
  PROVE  /\ Len(clients) \in Nat /\ DOMAIN clients = 1 .. Len(clients)
         /\ Len(clients) <= pairs /\ pairs \in 0 .. MaxPairs /\ MaxPairs \in Nat
         /\ \A i \in DOMAIN clients : KnownClient(i) /\ clients[i].pair \in 1 .. pairs
<1>. DEFINE Row == [name : Name, pair : 1 .. MaxPairs]
            PairOf == [i \in 1 .. Len(clients) |-> clients[i].pair]
<1>1. /\ Len(clients) \in Nat /\ DOMAIN clients = 1 .. Len(clients)
      /\ pairs \in 0 .. MaxPairs /\ MaxPairs \in Nat
      /\ \A i \in DOMAIN clients : clients[i] \in Row
  <2>1. clients \in Seq(Row) /\ pairs \in 0 .. MaxPairs /\ MaxPairs \in Nat
    BY ClientFilesAssumption DEF TypeOK
  <2>. HIDE DEF Row
  <2>. QED
    BY <2>1
<1>2. \A i \in DOMAIN clients : clients[i].name \in Name /\ clients[i].pair \in 1 .. pairs
  BY <1>1 DEF PairsApart
<1>3. PairOf \in Injection(1 .. Len(clients), 1 .. pairs)
  BY <1>1, <1>2 DEF PairsApart, Injection, IsInjective
<1>4. /\ IsFiniteSet(1 .. pairs) /\ Cardinality(1 .. pairs) = pairs
      /\ Cardinality(1 .. Len(clients)) = Len(clients)
  <2>1. pairs \in Int /\ Len(clients) \in Int /\ pairs >= 0 /\ Len(clients) >= 0
    BY <1>1
  <2>2. /\ IsFiniteSet(1 .. pairs)
        /\ Cardinality(1 .. pairs) = IF 1 > pairs THEN 0 ELSE pairs - 1 + 1
        /\ Cardinality(1 .. Len(clients)) = IF 1 > Len(clients) THEN 0 ELSE Len(clients) - 1 + 1
    <3>. HIDE DEF PairOf
    <3>1. \A n \in Int : /\ IsFiniteSet(1 .. n)
                         /\ Cardinality(1 .. n) = IF 1 > n THEN 0 ELSE n - 1 + 1
      BY FS_Interval
    <3>. QED
      BY <2>1, <3>1
  <2>. QED
    BY <2>1, <2>2
<1>5. Len(clients) <= pairs
  <2>. HIDE DEF PairOf
  <2>. QED
    BY <1>3, <1>4, FS_Injection
<1>. QED
  BY <1>1, <1>2, <1>5 DEF KnownClient

\* A file that can be loaded is the file of one client.
LEMMA FileParsed ==
  ASSUME FilesInv, meInfo # None, NEW pair, Loads(Parsed(Nobody, meInfo).key, pair)
  PROVE  \E i \in DOMAIN clients :
           /\ KnownClient(i) /\ Agrees(meInfo, i) /\ FileOf(i)
           /\ Parsed(Nobody, meInfo).name = Registration(i).name
           /\ Parsed(Nobody, meInfo).id = <<"id", i>>
           /\ pair = clients[i].pair
<1>1. meInfo # <<Empty>>
  BY ClientFilesAssumption DEF Parsed, Nobody, Loads
<1>2. PICK i \in DOMAIN clients : meInfo \in Written(i)
  BY <1>1 DEF FilesInv, FileOK
<1>3. KnownClient(i)
  BY FewerClients DEF FilesInv
<1>4. Agrees(meInfo, i)
  BY <1>2, <1>3, WrittenLoads
<1>. QED
  BY <1>3, <1>4, AgreeingParsed DEF FileOf

\* The file is of one client.
LEMMA FileOfOne ==
  ASSUME FilesInv, NEW i \in DOMAIN clients, NEW j \in DOMAIN clients, FileOf(i),
         Parsed(Nobody, meInfo).id = <<"id", j>>
  PROVE  i = j
<1>1. PICK k \in DOMAIN clients :
        Parsed(Nobody, meInfo).id = <<"id", k>> /\ clients[i].pair = clients[k].pair
  BY FileParsed DEF FileOf
<1>. QED
  BY <1>1 DEF FilesInv, PairsApart

\* The registration of a client depends on its row alone.
LEMMA RegistrationStays ==
  ASSUME NEW i, clients'[i] = clients[i]
  PROVE  /\ Registration(i)' = Registration(i) /\ Whole(i)' = Whole(i)
         /\ Written(i)' = Written(i) /\ (meInfo' = meInfo => FileOf(i)' = FileOf(i))
<1>1. Registration(i)' = Registration(i)
  BY DEF Registration
<1>. QED
  BY <1>1 DEF Whole, Written, FileOf

\* What the variables hold after a step.
LEMMA TypeStep ==
  ASSUME FilesInv, Next
  PROVE  TypeOK'
<1>. DEFINE Me == [name : Line, id : Line, key : Seq(Line)]
<1>1. TypeOK /\ (\A p \in Program : ProgramOK(p) /\ Registering(p))
  BY DEF FilesInv
<1>2. Nobody \in Me
  BY Lines DEF Nobody
<1>3. ASSUME NEW p \in Program, Start(p) PROVE TypeOK'
  <2>. DEFINE m == IF meInfo = None THEN Nobody ELSE Parsed(Nobody, meInfo)
  <2>1. m \in Me
    BY <1>1, <1>2, ParsedType DEF TypeOK
  <2>2. ASSUME NEW pair \in 1 .. pairs, meInfo # None, Loads(m.key, pair)
        PROVE  m.id[2] \in 1 .. MaxPairs /\ pair \in 1 .. MaxPairs
    <3>1. PICK i \in DOMAIN clients : KnownClient(i) /\ m.id = <<"id", i>>
      BY <2>2, FileParsed
    <3>. QED
      BY <1>1, <3>1, FewerClients DEF FilesInv, KnownClient
  <2>3. /\ rsa' \in [Program -> (1 .. MaxPairs) \cup {None}]
        /\ id' \in [Program -> (1 .. MaxPairs) \cup {None}]
    <3>1. CASE UNCHANGED <<rsa, id>>
      BY <1>1, <3>1 DEF TypeOK
    <3>2. ASSUME NEW pair \in 1 .. pairs, meInfo # None, Loads(m.key, pair),
                 rsa' = [rsa EXCEPT ![p] = pair], id' = [id EXCEPT ![p] = m.id[2]]
          PROVE  /\ rsa' \in [Program -> (1 .. MaxPairs) \cup {None}]
                 /\ id' \in [Program -> (1 .. MaxPairs) \cup {None}]
      BY <1>1, <2>2, <3>2 DEF TypeOK
    <3>. QED
      BY <1>3, <3>1, <3>2 DEF Start
  <2>4. me' \in [Program -> Me]
    BY <1>1, <1>3, <2>1 DEF Start, TypeOK
  <2>. QED
    BY <1>1, <1>3, <2>3, <2>4, ClientFilesAssumption DEF Start, TypeOK
<1>4. ASSUME NEW p \in Program, StartFails(p) PROVE TypeOK'
  BY <1>1, <1>4, ClientFilesAssumption DEF StartFails, TypeOK, history, memory
<1>5. ASSUME NEW p \in Program, Exit(p) PROVE TypeOK'
  BY <1>1, <1>2, <1>5 DEF Exit, TypeOK
<1>6. ASSUME NEW p \in Program, RegisterRefused(p) PROVE TypeOK'
  BY <1>1, <1>6 DEF RegisterRefused, TypeOK, history
<1>7. ASSUME NEW p \in Program, NEW n \in Name, Register(p, n) PROVE TypeOK'
  <2>1. /\ pairs + 1 \in 1 .. MaxPairs /\ <<"name", n>> \in Line
        /\ Encoded(pairs + 1) \in Seq(Line)
    <3>1. pairs \in 0 .. MaxPairs /\ MaxPairs \in Nat /\ pairs < MaxPairs
      BY <1>1, <1>7, ClientFilesAssumption DEF Register, TypeOK
    <3>2. pairs + 1 \in 1 .. MaxPairs
      BY <3>1
    <3>. QED
      BY <3>2, Lines
  <2>2. me' \in [Program -> Me]
    <3>. PICK m : m = [me[p] EXCEPT !.name = <<"name", n>>, !.key = Encoded(pairs + 1)]
      OBVIOUS
    <3>1. me \in [Program -> Me]
      BY <1>1 DEF TypeOK
    <3>2. m \in Me
      BY <2>1, <3>1
    <3>3. me' = [me EXCEPT ![p] = m]
      BY <1>7 DEF Register
    <3>. HIDE DEF Me
    <3>. QED
      BY <3>1, <3>2, <3>3
  <2>. QED
    BY <1>1, <1>7, <2>1, <2>2 DEF Register, TypeOK, history
<1>8. ASSUME NEW p \in Program, Serve(p) PROVE TypeOK'
  <2>. DEFINE row == [name |-> me[p].name[2], pair |-> rsa[p]]
              Row == [name : Name, pair : 1 .. MaxPairs]
  <2>1. row \in Row
    <3>1. me[p].name \in {"name"} \X Name /\ state[p] = "waiting"
      BY <1>1, <1>8 DEF Serve, Registering
    <3>2. rsa[p] \in 1 .. MaxPairs
      BY <1>1, <3>1, ClientFilesAssumption DEF FilesInv, PairsApart, TypeOK
    <3>3. me[p].name[2] \in Name
      BY <3>1
    <3>. QED
      BY <3>2, <3>3
  <2>2. clients \in Seq(Row) /\ (clients' = clients \/ clients' = Append(clients, row))
    BY <1>1, <1>8 DEF Serve, TypeOK
  <2>3. /\ clients' \in Seq(Row) /\ DOMAIN clients \subseteq DOMAIN clients'
        /\ clients' = Append(clients, row) => NewId \in DOMAIN clients'
    <3>. HIDE DEF row, Row
    <3>. QED
      BY <2>1, <2>2 DEF NewId
  <2>4. answer' \in [Program -> DOMAIN clients' \cup {None}]
    BY <1>1, <1>8, <2>3 DEF Serve, TypeOK
  <2>. QED
    BY <1>1, <1>8, <2>3, <2>4 DEF Serve, TypeOK, history, memory
<1>9. ASSUME NEW p \in Program, Break(p) PROVE TypeOK'
  BY <1>1, <1>9 DEF Break, TypeOK, history, memory
<1>10. ASSUME NEW p \in Program, GotError(p) PROVE TypeOK'
  BY <1>1, <1>10 DEF GotError, TypeOK, history, memory
<1>11. ASSUME NEW p \in Program, GotId(p) PROVE TypeOK'
  <2>1. answer[p] \in 1 .. MaxPairs
    <3>1. answer[p] # None /\ answer[p] \in DOMAIN clients \cup {None}
      BY <1>1, <1>11 DEF GotId, TypeOK
    <3>2. answer[p] \in 1 .. Len(clients) /\ Len(clients) \in Nat
      BY <1>1, <3>1, FewerClients DEF FilesInv
    <3>3. Len(clients) <= pairs /\ pairs \in 0 .. MaxPairs /\ MaxPairs \in Nat
      BY <1>1, FewerClients DEF FilesInv
    <3>. QED
      BY <3>2, <3>3
  <2>2. <<"id", answer[p]>> \in Line
    BY <2>1, Lines
  <2>3. me' \in [Program -> Me]
    <3>. PICK m : m = [me[p] EXCEPT !.id = <<"id", answer[p]>>]
      OBVIOUS
    <3>1. me \in [Program -> Me]
      BY <1>1 DEF TypeOK
    <3>2. m \in Me
      BY <2>2, <3>1
    <3>3. me' = [me EXCEPT ![p] = m]
      BY <1>11 DEF GotId
    <3>. HIDE DEF Me
    <3>. QED
      BY <3>1, <3>2, <3>3
  <2>. QED
    BY <1>1, <1>11, <2>1, <2>3 DEF GotId, TypeOK, history
<1>12. ASSUME NEW p \in Program, OpenFile(p) PROVE TypeOK'
  <2>1. <<Empty>> \in Seq(Line)
    BY Lines
  <2>2. meInfo' \in Seq(Line) \cup {None}
    BY <1>1, <1>12, <2>1 DEF OpenFile, TypeOK
  <2>. QED
    BY <1>1, <1>12, <2>2 DEF OpenFile, TypeOK, history, memory
<1>13. ASSUME NEW p \in Program, WriteFile(p) PROVE TypeOK'
  <2>1. PICK i \in DOMAIN clients : me[p] = Registration(i)
    BY <1>1, <1>13 DEF WriteFile, ProgramOK, Registering
  <2>2. KnownClient(i) /\ meInfo' \in Written(i)
    BY <1>13, <2>1, FewerClients DEF WriteFile, Written, Whole, Over, FilesInv
  <2>3. meInfo' \in Seq(Line)
    BY <2>2, WrittenLoads
  <2>. QED
    BY <1>1, <1>13, <2>3 DEF WriteFile, TypeOK, memory
<1>14. ASSUME NEW p \in Program, ReadBack(p) PROVE TypeOK'
  <2>1. Parsed(me[p], meInfo) \in Me
    BY <1>1, <1>14, ParsedType DEF ReadBack, ProgramOK, TypeOK
  <2>2. me' \in [Program -> Me]
    BY <1>1, <1>14, <2>1 DEF ReadBack, TypeOK
  <2>. QED
    BY <1>1, <1>14, <2>2 DEF ReadBack, TypeOK, history
<1>. QED
  BY <1>3, <1>4, <1>5, <1>6, <1>7, <1>8, <1>9, <1>10, <1>11, <1>12, <1>13, <1>14 DEF Next

\* Steps that neither make a pair nor add a client.
Else(p) ==
  \/ Start(p) \/ StartFails(p) \/ Exit(p) \/ RegisterRefused(p) \/ Break(p)
  \/ GotError(p) \/ GotId(p) \/ OpenFile(p) \/ WriteFile(p) \/ ReadBack(p)

LEMMA ElseStep ==
  ASSUME FilesInv, NEW p \in Program, Else(p)
  PROVE  /\ UNCHANGED <<clients, pairs>>
         /\ \A q \in Program \ {p} :
              UNCHANGED <<state[q], me[q], exist[q], id[q], rsa[q]>> /\ answer'[q] = answer[q]
         /\ state'[p] # "waiting" \/ (state[p] = "waiting" /\ rsa'[p] = rsa[p])
         /\ answer'[p] \in {answer[p], None}
<1>1. /\ DOMAIN me = Program /\ DOMAIN exist = Program
      /\ DOMAIN id = Program /\ DOMAIN rsa = Program /\ DOMAIN answer = Program
      /\ DOMAIN state = Program
  BY DEF FilesInv, TypeOK
<1>2. CASE Start(p) \/ StartFails(p) \/ Exit(p)
  BY <1>1, <1>2 DEF Start, StartFails, Exit, history, memory
<1>3. CASE RegisterRefused(p) \/ Break(p) \/ GotError(p) \/ GotId(p)
  BY <1>1, <1>3 DEF RegisterRefused, Break, GotError, GotId, history, memory
<1>4. CASE OpenFile(p) \/ WriteFile(p) \/ ReadBack(p)
  BY <1>1, <1>4 DEF OpenFile, WriteFile, ReadBack, history, memory
<1>. QED
  BY <1>2, <1>3, <1>4 DEF Else

\* Serving a request adds at most one client, whose row is what the program asked for.
LEMMA ServeStep ==
  ASSUME FilesInv, NEW p \in Program, Serve(p)
  PROVE  /\ UNCHANGED <<meInfo, pairs, me, exist, id, rsa>>
         /\ state[p] = "waiting" /\ state'[p] = "answered"
         /\ \A q \in Program \ {p} : state'[q] = state[q] /\ answer'[q] = answer[q]
         /\ NewId \notin DOMAIN clients
         /\ \A i \in DOMAIN clients : i \in DOMAIN clients' /\ clients'[i] = clients[i]
         /\ \/ clients' = clients /\ answer' = answer
            \/ /\ DOMAIN clients' = DOMAIN clients \cup {NewId} /\ answer'[p] = NewId
               /\ clients'[NewId].name = me[p].name[2] /\ clients'[NewId].pair = rsa[p]
<1>1. TypeOK /\ PairsApart
  BY DEF FilesInv
<1>2. /\ UNCHANGED <<meInfo, pairs, me, exist, id, rsa>>
      /\ state[p] = "waiting" /\ state'[p] = "answered"
      /\ \A q \in Program \ {p} : state'[q] = state[q] /\ answer'[q] = answer[q]
  BY <1>1 DEF Serve, TypeOK, memory
<1>. DEFINE row == [name |-> me[p].name[2], pair |-> rsa[p]]
<1>3. CASE clients' = clients /\ answer' = answer
  BY <1>1, <1>2, <1>3, FewerClients DEF NewId
<1>4. CASE clients' = Append(clients, row) /\ answer' = [answer EXCEPT ![p] = NewId]
  <2>1. /\ DOMAIN clients' = DOMAIN clients \cup {NewId}
        /\ \A i \in DOMAIN clients : i # NewId /\ clients'[i] = clients[i]
        /\ clients'[NewId] = row
    BY <1>1, <1>4, FewerClients DEF NewId, TypeOK
  <2>2. answer'[p] = NewId
    BY <1>1, <1>4 DEF TypeOK
  <2>3. row.name = me[p].name[2] /\ row.pair = rsa[p]
    OBVIOUS
  <2>. HIDE DEF row
  <2>. QED
    BY <1>2, <2>1, <2>2, <2>3
<1>. QED
  BY <1>3, <1>4 DEF Serve

\* Pairs are new when they are made, and go to one client.
LEMMA PairsStep ==
  ASSUME FilesInv, Next
  PROVE  PairsApart'
<1>1. TypeOK /\ PairsApart
  BY DEF FilesInv
<1>2. ASSUME NEW p \in Program, Else(p) PROVE PairsApart'
  BY <1>1, <1>2, ElseStep DEF PairsApart
<1>3. ASSUME NEW p \in Program, NEW n \in Name, Register(p, n) PROVE PairsApart'
  <2>1. /\ pairs \in Nat /\ pairs' = pairs + 1 /\ clients' = clients
        /\ rsa'[p] = pairs + 1
        /\ \A q \in Program \ {p} : rsa'[q] = rsa[q] /\ state'[q] = state[q]
    BY <1>1, <1>3, FewerClients DEF Register, TypeOK
  <2>2. \A i \in DOMAIN clients : clients[i].pair \in 1 .. pairs
    BY <1>1, FewerClients
  <2>3. \A q \in Program \ {p} : state[q] = "waiting" => rsa[q] \in 1 .. pairs
    BY <1>1 DEF PairsApart
  <2>4. \A q \in Program : state'[q] = "waiting" /\ q # p => state[q] = "waiting"
    BY <2>1
  <2>5. \A i \in DOMAIN clients : clients[i].pair <= pairs + 1 /\ clients[i].pair # pairs + 1
    BY <2>1, <2>2
  <2>6. \A q \in Program \ {p} :
          state[q] = "waiting" => rsa[q] \in 1 .. pairs + 1 /\ rsa[q] # pairs + 1
    BY <2>1, <2>3
  <2>. QED
    BY <1>1, <2>1, <2>4, <2>5, <2>6 DEF PairsApart
<1>4. ASSUME NEW p \in Program, Serve(p) PROVE PairsApart'
  <2>1. /\ state[p] = "waiting" /\ UNCHANGED <<pairs, rsa>>
        /\ \A q \in Program : state'[q] = "waiting" => q # p /\ state[q] = "waiting"
    BY <1>4, ServeStep
  <2>2. CASE clients' = clients
    BY <1>1, <2>1, <2>2 DEF PairsApart
  <2>3. ASSUME DOMAIN clients' = DOMAIN clients \cup {NewId}, NewId \notin DOMAIN clients,
               \A i \in DOMAIN clients : clients'[i] = clients[i],
               clients'[NewId].pair = rsa[p]
        PROVE  PairsApart'
    <3>1. rsa[p] \in 1 .. pairs /\ \A i \in DOMAIN clients : clients[i].pair # rsa[p]
      BY <1>1, <2>1 DEF PairsApart
    <3>2. /\ \A i \in DOMAIN clients' : clients'[i].pair <= pairs'
          /\ \A i, j \in DOMAIN clients' : clients'[i].pair = clients'[j].pair => i = j
      BY <1>1, <2>1, <2>3, <3>1 DEF PairsApart
    <3>3. \A q \in Program : state'[q] = "waiting" =>
            \A i \in DOMAIN clients' : clients'[i].pair # rsa'[q]
      BY <1>1, <2>1, <2>3 DEF PairsApart
    <3>. QED
      BY <1>1, <2>1, <3>2, <3>3 DEF PairsApart
  <2>4. NewId \notin DOMAIN clients /\ \A i \in DOMAIN clients : clients'[i] = clients[i]
    BY <1>4, ServeStep
  <2>5. \/ clients' = clients
        \/ /\ DOMAIN clients' = DOMAIN clients \cup {NewId}
           /\ clients'[NewId].pair = rsa[p]
    BY <1>4, ServeStep
  <2>. QED
    BY <2>2, <2>3, <2>4, <2>5
<1>. QED
  BY <1>2, <1>3, <1>4 DEF Next, Else

\* A program writes the file of the client that it registered.
LEMMA WriteStep ==
  ASSUME FilesInv, NEW p \in Program, WriteFile(p)
  PROVE  \E i \in DOMAIN clients :
           /\ KnownClient(i) /\ MayWrite(p, i) /\ id[p] = i /\ rsa[p] = clients[i].pair
           /\ meInfo' \in Written(i) /\ meInfo' \in Seq(Line)
           /\ ~full' => meInfo' \in Whole(i)
           /\ state[p] = "writing" /\ state'[p] = "reading"
           /\ UNCHANGED <<clients, pairs, me, exist, id, rsa, answer>>
           /\ \A q \in Program \ {p} : state'[q] = state[q]
<1>1. /\ TypeOK /\ ProgramOK(p) /\ Registering(p) /\ state[p] = "writing"
      /\ state'[p] = "reading" /\ \A q \in Program \ {p} : state'[q] = state[q]
  BY DEF FilesInv, WriteFile, TypeOK
<1>2. /\ id[p] \in DOMAIN clients /\ me[p] = Registration(id[p])
      /\ rsa[p] = clients[id[p]].pair
  BY <1>1 DEF ProgramOK, Registering
<1>3. KnownClient(id[p])
  BY <1>2, FewerClients DEF FilesInv
<1>4. meInfo' \in Written(id[p]) /\ (~full' => meInfo' \in Whole(id[p]))
  BY <1>2 DEF WriteFile, Written, Whole, Over
<1>5. meInfo' \in Seq(Line)
  BY <1>3, <1>4, WrittenLoads
<1>. QED
  BY <1>1, <1>2, <1>3, <1>4, <1>5 DEF WriteFile, MayWrite, memory

\* The file is of one registration, whoever writes it and however far.
LEMMA FileStep ==
  ASSUME FilesInv, Next
  PROVE  FileOK' /\ (meInfo' = meInfo \/ meInfo' \in Seq(Line))
<1>1. ASSUME \A i \in DOMAIN clients : i \in DOMAIN clients' /\ clients'[i] = clients[i],
             meInfo' \in {meInfo, <<Empty>>}
      PROVE  FileOK' /\ (meInfo' = meInfo \/ meInfo' \in Seq(Line))
  <2>1. \A i \in DOMAIN clients : Written(i)' = Written(i)
    BY <1>1, RegistrationStays
  <2>2. <<Empty>> \in Seq(Line)
    BY Lines
  <2>. QED
    BY <1>1, <2>1, <2>2 DEF FilesInv, FileOK
<1>2. ASSUME NEW p \in Program, Else(p), ~WriteFile(p)
      PROVE  clients' = clients /\ meInfo' \in {meInfo, <<Empty>>}
  <2>1. meInfo' \in {meInfo, <<Empty>>}
    BY <1>2
       DEF Else, Start, StartFails, Exit, RegisterRefused, Break, GotError, GotId, OpenFile,
           ReadBack
  <2>. QED
    BY <1>2, <2>1, ElseStep
<1>3. ASSUME NEW p \in Program, NEW n \in Name, Register(p, n)
      PROVE  clients' = clients /\ meInfo' = meInfo
  BY <1>3 DEF Register
<1>4. ASSUME NEW p \in Program, WriteFile(p)
      PROVE  FileOK' /\ meInfo' \in Seq(Line)
  <2>1. PICK i \in DOMAIN clients :
          clients' = clients /\ meInfo' \in Written(i) /\ meInfo' \in Seq(Line)
    BY <1>4, WriteStep
  <2>2. Written(i)' = Written(i)
    BY <2>1, RegistrationStays
  <2>. QED
    BY <2>1, <2>2 DEF FileOK
<1>. QED
  BY <1>1, <1>2, <1>3, <1>4, ServeStep DEF Next, Else

\* What the programs hold.
LEMMA ProgramStep ==
  ASSUME FilesInv, Next, NEW q \in Program
  PROVE  ProgramOK(q)'
<1>1. TypeOK /\ PairsApart /\ ProgramOK(q)
  BY DEF FilesInv
<1>2. /\ pairs \in Nat /\ pairs' \in {pairs, pairs + 1}
      /\ DOMAIN clients \subseteq DOMAIN clients'
      /\ meInfo \in Seq(Line) => meInfo' \in Seq(Line)
  <2>1. \A p \in Program, n \in Name :
          Register(p, n) => clients' = clients /\ pairs' = pairs + 1
    BY DEF Register
  <2>. QED
    BY <1>1, <2>1, FileStep, ElseStep, ServeStep, FewerClients DEF Next, Else
<1>3. 1 .. pairs \subseteq 1 .. pairs'
  BY <1>2
<1>4. ASSUME UNCHANGED <<state[q], exist[q], id[q], rsa[q]>> PROVE ProgramOK(q)'
  BY <1>1, <1>2, <1>3, <1>4 DEF ProgramOK
<1>5. CASE Start(q)
  <2>1. state'[q] = "cli" /\ pairs' = pairs /\ clients' = clients
    BY <1>1, <1>5 DEF Start, TypeOK
  <2>2. CASE UNCHANGED <<rsa, id>>
    BY <1>1, <2>1, <2>2 DEF ProgramOK
  <2>3. ASSUME NEW pair \in 1 .. pairs, meInfo # None,
               Loads(Parsed(Nobody, meInfo).key, pair),
               rsa' = [rsa EXCEPT ![q] = pair],
               id' = [id EXCEPT ![q] = Parsed(Nobody, meInfo).id[2]]
        PROVE  ProgramOK(q)'
    <3>1. PICK i \in DOMAIN clients : Parsed(Nobody, meInfo).id = <<"id", i>>
      BY <2>3, FileParsed
    <3>2. id'[q] = i /\ rsa'[q] = pair
      BY <1>1, <2>3, <3>1 DEF TypeOK
    <3>. QED
      BY <2>1, <2>3, <3>2 DEF ProgramOK
  <2>. QED
    BY <1>5, <2>2, <2>3 DEF Start
<1>6. CASE StartFails(q) \/ Exit(q) \/ RegisterRefused(q) \/ Break(q) \/ GotError(q) \/ GotId(q)
  BY <1>1, <1>2, <1>3, <1>6
     DEF StartFails, Exit, RegisterRefused, Break, GotError, GotId, memory, ProgramOK, TypeOK
<1>7. CASE OpenFile(q) \/ ReadBack(q)
  <2>1. <<Empty>> \in Seq(Line)
    BY Lines
  <2>. QED
    BY <1>1, <1>2, <1>3, <1>7, <2>1 DEF OpenFile, ReadBack, memory, ProgramOK, TypeOK
<1>8. CASE WriteFile(q)
  BY <1>1, <1>2, <1>3, <1>8, WriteStep DEF ProgramOK
<1>9. ASSUME NEW n \in Name, Register(q, n) PROVE ProgramOK(q)'
  BY <1>1, <1>2, <1>9 DEF Register, Exists, ProgramOK, TypeOK
<1>10. CASE Serve(q)
  BY <1>1, <1>2, <1>3, <1>10, ServeStep DEF ProgramOK
<1>11. ASSUME NEW p \in Program \ {q}, Else(p) \/ (\E n \in Name : Register(p, n)) \/ Serve(p)
       PROVE  UNCHANGED <<state[q], exist[q], id[q], rsa[q]>>
  <2>1. ASSUME NEW n \in Name, Register(p, n)
        PROVE  UNCHANGED <<state[q], exist[q], id[q], rsa[q]>>
    BY <1>1, <2>1 DEF Register, TypeOK
  <2>. QED
    BY <1>11, <2>1, ElseStep, ServeStep
<1>. QED
  BY <1>4, <1>5, <1>6, <1>7, <1>8, <1>9, <1>10, <1>11 DEF Next, Else

\* From the request to the file me_info is what the server has.
LEMMA RegisteringStep ==
  ASSUME FilesInv, Next, NEW q \in Program
  PROVE  Registering(q)'
<1>1. TypeOK /\ PairsApart /\ ProgramOK(q) /\ Registering(q)
  BY DEF FilesInv
<1>2. \A i \in DOMAIN clients : i \in DOMAIN clients' /\ clients'[i] = clients[i]
  <2>1. \A p \in Program, n \in Name : Register(p, n) => clients' = clients
    BY DEF Register
  <2>. QED
    BY <2>1, ElseStep, ServeStep DEF Next, Else
<1>3. \A i \in DOMAIN clients :
        Registration(i)' = Registration(i) /\ clients'[i].pair = clients[i].pair
  BY <1>2, RegistrationStays
<1>4. answer[q] \in DOMAIN clients \cup {None} /\ id[q] \in DOMAIN clients \cup {None}
  BY <1>1 DEF TypeOK, ProgramOK
<1>5. ASSUME UNCHANGED <<state[q], me[q], id[q], rsa[q], answer[q]>> PROVE Registering(q)'
  BY <1>1, <1>3, <1>4, <1>5 DEF Registering
<1>6. ASSUME state'[q] \in {"off", "cli", "reading"}, answer'[q] = None PROVE Registering(q)'
  BY <1>6 DEF Registering
<1>7. CASE Start(q) \/ Exit(q) \/ RegisterRefused(q) \/ GotError(q) \/ ReadBack(q)
  <2>1. state'[q] \in {"off", "cli"} /\ (answer'[q] = None \/ answer'[q] = answer[q])
    BY <1>1, <1>7 DEF Start, Exit, RegisterRefused, GotError, ReadBack, memory, TypeOK
  <2>2. answer[q] = None \/ Exit(q)
    BY <1>1, <1>7 DEF Registering, Start, RegisterRefused, GotError, ReadBack
  <2>3. Exit(q) => answer'[q] = None
    BY <1>1 DEF Exit, TypeOK
  <2>. QED
    BY <1>6, <2>1, <2>2, <2>3
<1>8. CASE StartFails(q) \/ Break(q) \/ WriteFile(q)
  BY <1>1, <1>3, <1>4, <1>8
     DEF StartFails, Break, WriteFile, memory, Registering, TypeOK
<1>9. CASE OpenFile(q)
  BY <1>1, <1>3, <1>4, <1>9 DEF OpenFile, memory, Registering, TypeOK
<1>10. ASSUME NEW n \in Name, Register(q, n) PROVE Registering(q)'
  <2>1. /\ state'[q] \in {"cli", "waiting"} /\ answer'[q] = answer[q] /\ answer[q] = None
        /\ rsa'[q] = pairs + 1 /\ me'[q].name = <<"name", n>> /\ me'[q].key = Encoded(pairs + 1)
    BY <1>1, <1>10 DEF Register, TypeOK, Registering
  <2>. QED
    BY <2>1 DEF Registering
<1>11. CASE Serve(q)
  <2>1. /\ state'[q] = "answered" /\ me'[q] = me[q] /\ rsa'[q] = rsa[q]
        /\ me[q].key = Encoded(rsa[q]) /\ me[q].name = <<"name", me[q].name[2]>>
        /\ answer[q] = None
    BY <1>1, <1>11, ServeStep DEF Registering
  <2>2. \/ answer'[q] = None
        \/ clients'[answer'[q]].name = me[q].name[2] /\ clients'[answer'[q]].pair = rsa[q]
    BY <1>11, <2>1, ServeStep
  <2>. QED
    BY <2>1, <2>2 DEF Registering, Registration
<1>12. CASE GotId(q)
  <2>1. /\ state'[q] = "opening" /\ answer'[q] = None /\ id'[q] = answer[q] /\ answer[q] # None
        /\ me'[q] = [me[q] EXCEPT !.id = <<"id", answer[q]>>] /\ rsa'[q] = rsa[q]
        /\ me[q] \in [name : Line, id : Line, key : Seq(Line)]
    BY <1>1, <1>12 DEF GotId, TypeOK
  <2>2. /\ me[q].name = Registration(answer[q]).name /\ me[q].key = Registration(answer[q]).key
        /\ rsa[q] = clients[answer[q]].pair
    BY <1>1, <2>1 DEF Registering
  <2>3. me'[q] = Registration(answer[q])
    BY <2>1, <2>2 DEF Registration
  <2>. QED
    BY <1>3, <1>4, <2>1, <2>2, <2>3 DEF Registering
<1>13. ASSUME NEW p \in Program \ {q}, Else(p) \/ (\E n \in Name : Register(p, n)) \/ Serve(p)
       PROVE  UNCHANGED <<state[q], me[q], id[q], rsa[q], answer[q]>>
  <2>1. ASSUME NEW n \in Name, Register(p, n)
        PROVE  UNCHANGED <<state[q], me[q], id[q], rsa[q], answer[q]>>
    BY <1>1, <2>1 DEF Register, TypeOK
  <2>. QED
    BY <1>13, <2>1, ElseStep, ServeStep
<1>. QED
  BY <1>5, <1>7, <1>8, <1>9, <1>10, <1>11, <1>12, <1>13 DEF Next, Else

\* A step that adds no client, opens no file but an empty one, and gives no program an
\* identifier that it may not have written.
Quiet ==
  /\ clients' = clients /\ meInfo' \in {meInfo, <<Empty>>}
  /\ \A q \in Program, i \in DOMAIN clients :
       /\ MayWrite(q, i)' => MayWrite(q, i)
       /\ id'[q] = i => id[q] = i \/ MayWrite(q, i)

LEMMA QuietFile ==
  ASSUME Quiet, NEW i \in DOMAIN clients, FileOf(i)'
  PROVE  meInfo' = meInfo /\ FileOf(i)
<1>1. meInfo' # <<Empty>>
  BY ClientFilesAssumption DEF FileOf, Loads, Parsed, Nobody
<1>. QED
  BY <1>1, RegistrationStays DEF Quiet

LEMMA QuietWriter ==
  ASSUME FilesInv, Quiet
  PROVE  OneWriter'
<1>. SUFFICES ASSUME NEW p \in Program, NEW i \in DOMAIN clients, MayWrite(p, i)'
              PROVE  /\ \A q \in Program : MayWrite(q, i)' \/ id'[q] = i => q = p
                     /\ ~FileOf(i)'
  BY DEF OneWriter, Quiet
<1>1. MayWrite(p, i)
  BY DEF Quiet
<1>2. /\ \A q \in Program : MayWrite(q, i) \/ id[q] = i => q = p
      /\ ~FileOf(i)
  BY <1>1 DEF FilesInv, OneWriter
<1>. QED
  BY <1>2, QuietFile DEF Quiet

\* The steps that are quiet.
LEMMA QuietSteps ==
  ASSUME FilesInv, NEW p \in Program
  PROVE  /\ Else(p) /\ ~Start(p) /\ ~WriteFile(p) => Quiet
         /\ \A n \in Name : Register(p, n) => Quiet
<1>1. TypeOK /\ (\A q \in Program : ProgramOK(q) /\ Registering(q))
  BY DEF FilesInv
<1>2. ASSUME clients' = clients, meInfo' \in {meInfo, <<Empty>>},
             \A q \in Program \ {p} :
               UNCHANGED <<state[q], id[q]>> /\ answer'[q] = answer[q],
             \A i \in DOMAIN clients :
               /\ MayWrite(p, i)' => MayWrite(p, i)
               /\ id'[p] = i => id[p] = i \/ MayWrite(p, i)
      PROVE  Quiet
  BY <1>2 DEF Quiet, MayWrite
<1>3. CASE StartFails(p) \/ Exit(p) \/ RegisterRefused(p)
  BY <1>1, <1>2, <1>3, ElseStep, ClientFilesAssumption, FewerClients
     DEF Else, StartFails, Exit, RegisterRefused, memory, history, MayWrite, TypeOK, FilesInv
<1>4. CASE Break(p)
  BY <1>1, <1>2, <1>4, ElseStep, ClientFilesAssumption, FewerClients
     DEF Else, Break, memory, history, MayWrite, TypeOK, FilesInv
<1>5. CASE GotError(p)
  BY <1>1, <1>2, <1>5, ElseStep, ClientFilesAssumption, FewerClients
     DEF Else, GotError, memory, history, MayWrite, TypeOK, FilesInv
<1>6. CASE GotId(p)
  BY <1>1, <1>2, <1>6, ElseStep, ClientFilesAssumption, FewerClients
     DEF Else, GotId, memory, history, MayWrite, TypeOK, FilesInv
<1>7. CASE OpenFile(p) \/ ReadBack(p)
  BY <1>1, <1>2, <1>7, ElseStep DEF Else, OpenFile, ReadBack, memory, MayWrite, TypeOK
<1>8. ASSUME NEW n \in Name, Register(p, n) PROVE Quiet
  BY <1>1, <1>2, <1>8 DEF Register, MayWrite, TypeOK
<1>. QED
  BY <1>3, <1>4, <1>5, <1>6, <1>7, <1>8 DEF Else

\* A program that starts takes identifier and pair from the file, or has neither.
LEMMA StartStep ==
  ASSUME FilesInv, NEW p \in Program, Start(p)
  PROVE  /\ UNCHANGED <<clients, meInfo>> /\ state'[p] = "cli" /\ answer'[p] = None
         /\ \A q \in Program \ {p} :
              UNCHANGED <<state[q], id[q], rsa[q]>> /\ answer'[q] = answer[q]
         /\ \/ meInfo = None /\ id'[p] = id[p] /\ rsa'[p] = rsa[p]
            \/ \E i \in DOMAIN clients :
                 FileOf(i) /\ id'[p] = i /\ rsa'[p] = clients[i].pair
<1>1. TypeOK /\ Registering(p)
  BY DEF FilesInv
<1>2. /\ UNCHANGED <<clients, meInfo>> /\ state'[p] = "cli" /\ answer'[p] = None
  BY <1>1 DEF Start, Registering, TypeOK
<1>3. \A q \in Program \ {p} : UNCHANGED <<state[q], id[q], rsa[q]>> /\ answer'[q] = answer[q]
  BY ElseStep DEF Else
<1>4. ASSUME NEW pair, meInfo # None, Loads(Parsed(Nobody, meInfo).key, pair),
             rsa' = [rsa EXCEPT ![p] = pair],
             id' = [id EXCEPT ![p] = Parsed(Nobody, meInfo).id[2]]
      PROVE  \E i \in DOMAIN clients : FileOf(i) /\ id'[p] = i /\ rsa'[p] = clients[i].pair
  <2>1. PICK i \in DOMAIN clients :
          FileOf(i) /\ Parsed(Nobody, meInfo).id = <<"id", i>> /\ pair = clients[i].pair
    BY <1>4, FileParsed
  <2>. QED
    BY <1>1, <1>4, <2>1 DEF TypeOK
<1>. QED
  BY <1>2, <1>3, <1>4 DEF Start

\* An identifier is given to one program, which has not written it.
LEMMA WriterStep ==
  ASSUME FilesInv, Next
  PROVE  OneWriter'
<1>1. /\ TypeOK /\ PairsApart /\ OneWriter
      /\ \A q \in Program : ProgramOK(q) /\ Registering(q)
  BY DEF FilesInv
<1>2. ASSUME NEW p \in Program, Start(p) PROVE OneWriter'
  <2>1. \A q \in Program, i \in DOMAIN clients : MayWrite(q, i)' => MayWrite(q, i)
    BY <1>2, StartStep, ClientFilesAssumption, FewerClients DEF MayWrite, FilesInv
  <2>2. \A i \in DOMAIN clients : id'[p] = i => id[p] = i \/ FileOf(i)
    BY <1>2, StartStep
  <2>3. \A i \in DOMAIN clients : FileOf(i)' = FileOf(i)
    BY <1>2, StartStep, RegistrationStays
  <2>4. \A q \in Program, i \in DOMAIN clients : id'[q] = i => id[q] = i \/ FileOf(i)
    BY <1>2, <2>2, StartStep
  <2>. QED
    BY <1>1, <1>2, <2>1, <2>3, <2>4, StartStep DEF OneWriter
<1>3. ASSUME NEW p \in Program, WriteFile(p) PROVE OneWriter'
  <2>1. PICK i \in DOMAIN clients :
          /\ KnownClient(i) /\ MayWrite(p, i) /\ id[p] = i /\ state'[p] = "reading"
          /\ meInfo' \in Written(i)
          /\ UNCHANGED <<clients, id, answer>>
          /\ \A q \in Program \ {p} : state'[q] = state[q]
    BY <1>3, WriteStep
  <2>2. answer[p] = None
    BY <1>1, <1>3 DEF WriteFile, Registering
  <2>3. \A q \in Program, j \in DOMAIN clients :
          MayWrite(q, j)' => q # p /\ MayWrite(q, j) /\ j # i
    <3>1. \A q \in Program, j \in DOMAIN clients : MayWrite(q, j)' => q # p /\ MayWrite(q, j)
      BY <1>1, <2>1, <2>2, ClientFilesAssumption, FewerClients DEF MayWrite
    <3>2. \A q \in Program : MayWrite(q, i) => q = p
      BY <1>1, <2>1 DEF OneWriter
    <3>. QED
      BY <3>1, <3>2
  <2>4. \A j \in DOMAIN clients : FileOf(j)' => j = i
    <3>. SUFFICES ASSUME NEW j \in DOMAIN clients, FileOf(j)' PROVE j = i
      OBVIOUS
    <3>1. Loads(Parsed(Nobody, meInfo').key, clients[j].pair)
      BY <2>1 DEF FileOf
    <3>2. Agrees(meInfo', i)
      BY <2>1, <3>1, WrittenLoads
    <3>3. clients[j].pair = clients[i].pair
      BY <2>1, <3>1, <3>2, AgreeingParsed
    <3>. QED
      BY <1>1, <3>3 DEF PairsApart
  <2>. QED
    BY <1>1, <2>1, <2>3, <2>4 DEF OneWriter
<1>4. ASSUME NEW p \in Program, Serve(p) PROVE OneWriter'
  <2>1. PICK n : n = NewId
    OBVIOUS
  <2>2. \A q \in Program, i \in DOMAIN clients : MayWrite(q, i)' => MayWrite(q, i)
    <3>1. \A q \in Program : state'[q] \in {"opening", "writing"} => state[q] = state'[q]
      BY <1>4, ServeStep
    <3>2. \A q \in Program, i \in DOMAIN clients : answer'[q] = i => answer[q] = i
      BY <1>4, ServeStep
    <3>. QED
      BY <1>4, <3>1, <3>2, ServeStep DEF MayWrite
  <2>3. \A i \in DOMAIN clients : FileOf(i)' = FileOf(i)
    BY <1>4, ServeStep, RegistrationStays
  <2>4. \A q \in Program : n # answer[q] /\ n # id[q]
    BY <1>1, <1>4, <2>1, ServeStep, ClientFilesAssumption, FewerClients
       DEF ProgramOK, TypeOK, NewId
  <2>5. \A q \in Program : MayWrite(q, n)' \/ id'[q] = n => q = p
    BY <1>4, <2>1, <2>4, ServeStep DEF MayWrite
  <2>6. clients'[n].pair = rsa[p] => ~FileOf(n)'
    <3>. SUFFICES ASSUME clients'[n].pair = rsa[p], FileOf(n)' PROVE FALSE
      OBVIOUS
    <3>1. meInfo # None /\ Loads(Parsed(Nobody, meInfo).key, rsa[p])
      BY <1>4, ServeStep DEF FileOf
    <3>2. PICK i \in DOMAIN clients : rsa[p] = clients[i].pair
      BY <3>1, FileParsed
    <3>. QED
      BY <1>1, <1>4, <3>2, ServeStep DEF PairsApart
  <2>7. \A i \in DOMAIN clients : \A q \in Program, r \in Program :
          MayWrite(q, i)' => (MayWrite(r, i)' \/ id'[r] = i => r = q) /\ ~FileOf(i)'
    BY <1>1, <1>4, <2>2, <2>3, ServeStep DEF OneWriter
  <2>8. clients' # clients =>
          /\ DOMAIN clients' = DOMAIN clients \cup {n} /\ clients'[n].pair = rsa[p]
    BY <1>4, <2>1, ServeStep
  <2>. QED
    BY <1>4, <2>5, <2>6, <2>7, <2>8, ServeStep DEF OneWriter
<1>. QED
  BY <1>2, <1>3, <1>4, QuietSteps, QuietWriter DEF Next, Else

\* Who has the identifier of the file has its pair, after every step.
LEMMA PairStep ==
  ASSUME FilesInv, Next
  PROVE  PairOfFile'
<1>1. /\ TypeOK /\ PairsApart /\ OneWriter /\ PairOfFile
      /\ \A q \in Program : ProgramOK(q) /\ Registering(q)
  BY DEF FilesInv
<1>2. ASSUME NEW p \in Program, Quiet,
             \A q \in Program \ {p} : rsa'[q] = rsa[q],
             rsa'[p] = rsa[p] \/ meInfo = None \/ id'[p] = None
      PROVE  PairOfFile'
  <2>. SUFFICES ASSUME NEW q \in Program, NEW i \in DOMAIN clients, id'[q] = i, FileOf(i)'
                PROVE  rsa'[q] = clients[i].pair
    BY <1>2 DEF PairOfFile, Quiet
  <2>1. FileOf(i) /\ meInfo # None
    BY <1>2, QuietFile DEF FileOf
  <2>2. id[q] = i
    BY <1>1, <1>2, <2>1 DEF Quiet, OneWriter
  <2>3. i # None
    BY <1>1, FewerClients, ClientFilesAssumption
  <2>4. rsa'[q] = rsa[q]
    BY <1>2, <2>1, <2>3
  <2>. QED
    BY <1>1, <2>1, <2>2, <2>4 DEF PairOfFile
<1>3. ASSUME NEW p \in Program, Else(p), ~Start(p), ~WriteFile(p) PROVE PairOfFile'
  <2>1. rsa'[p] = rsa[p] \/ id'[p] = None
    BY <1>1, <1>3
       DEF Else, StartFails, Exit, RegisterRefused, Break, GotError, GotId, OpenFile, ReadBack,
           memory, TypeOK
  <2>. QED
    BY <1>2, <1>3, <2>1, QuietSteps, ElseStep
<1>4. ASSUME NEW p \in Program, NEW n \in Name, Register(p, n) PROVE PairOfFile'
  <2>1. meInfo = None /\ \A q \in Program \ {p} : rsa'[q] = rsa[q]
    BY <1>1, <1>4 DEF Register, Exists, TypeOK
  <2>. QED
    BY <1>2, <1>4, <2>1, QuietSteps
<1>5. ASSUME NEW p \in Program, Start(p) PROVE PairOfFile'
  <2>1. \A i \in DOMAIN clients : FileOf(i)' = FileOf(i)
    BY <1>5, StartStep, RegistrationStays
  <2>2. \A i \in DOMAIN clients, q \in Program :
          id'[q] = i /\ FileOf(i) => rsa'[q] = clients[i].pair
    BY <1>1, <1>5, StartStep DEF PairOfFile, FileOf
  <2>. QED
    BY <1>5, <2>1, <2>2, StartStep DEF PairOfFile
<1>6. ASSUME NEW p \in Program, WriteFile(p) PROVE PairOfFile'
  <2>1. PICK i \in DOMAIN clients :
          /\ KnownClient(i) /\ MayWrite(p, i) /\ rsa[p] = clients[i].pair
          /\ meInfo' \in Written(i) /\ UNCHANGED <<clients, id, rsa>>
    BY <1>6, WriteStep
  <2>. SUFFICES ASSUME NEW q \in Program, NEW j \in DOMAIN clients, id[q] = j, FileOf(j)'
                PROVE  rsa[q] = clients[j].pair
    BY <2>1 DEF PairOfFile
  <2>2. Loads(Parsed(Nobody, meInfo').key, clients[j].pair)
    BY <2>1 DEF FileOf
  <2>3. clients[j].pair = clients[i].pair
    BY <2>1, <2>2, WrittenLoads, AgreeingParsed
  <2>4. j = i /\ q = p
    BY <1>1, <2>1, <2>3 DEF PairsApart, OneWriter
  <2>. QED
    BY <2>1, <2>4
<1>7. ASSUME NEW p \in Program, Serve(p) PROVE PairOfFile'
  <2>. SUFFICES ASSUME NEW q \in Program, NEW j \in DOMAIN clients', id'[q] = j, FileOf(j)'
                PROVE  rsa'[q] = clients'[j].pair
    BY DEF PairOfFile
  <2>1. j \in DOMAIN clients /\ id[q] = j /\ clients'[j] = clients[j] /\ rsa'[q] = rsa[q]
    BY <1>1, <1>7, ServeStep, ClientFilesAssumption, FewerClients DEF ProgramOK, NewId
  <2>2. FileOf(j)
    BY <1>7, <2>1, ServeStep, RegistrationStays
  <2>. QED
    BY <1>1, <2>1, <2>2 DEF PairOfFile
<1>. QED
  BY <1>3, <1>4, <1>5, <1>6, <1>7 DEF Next, Else

\* The initial state.
LEMMA InitFiles == Init => FilesInv
<1>. SUFFICES ASSUME Init PROVE FilesInv
  OBVIOUS
<1>1. Nobody \in [name : Line, id : Line, key : Seq(Line)]
  BY Lines DEF Nobody
<1>2. DOMAIN clients = {} /\ clients \in Seq([name : Name, pair : 1 .. MaxPairs])
  BY DEF Init
<1>3. TypeOK
  <2>1. pairs \in 0 .. MaxPairs /\ starts \in 0 .. MaxStarts
    BY ClientFilesAssumption DEF Init
  <2>2. me \in [Program -> [name : Line, id : Line, key : Seq(Line)]]
    BY <1>1 DEF Init
  <2>. QED
    BY <1>2, <2>1, <2>2 DEF Init, TypeOK
<1>4. PairsApart /\ OneWriter /\ PairOfFile
  BY <1>2 DEF Init, PairsApart, OneWriter, PairOfFile
<1>5. FileOK /\ \A p \in Program : ProgramOK(p) /\ Registering(p)
  BY DEF Init, FileOK, ProgramOK, Registering
<1>. QED
  BY <1>3, <1>4, <1>5 DEF FilesInv

\* What is in the file, who may write it, and who has its pair.
THEOREM FilesInvariant == Spec => []FilesInv
<1>1. FilesInv /\ [Next]_vars => FilesInv'
  <2>1. FilesInv /\ Next => FilesInv'
    BY TypeStep, PairsStep, ProgramStep, RegisteringStep, FileStep, WriterStep, PairStep
       DEF FilesInv
  <2>2. FilesInv /\ UNCHANGED vars => FilesInv'
    <3>. SUFFICES ASSUME FilesInv, UNCHANGED vars PROVE FilesInv'
      OBVIOUS
    <3>1. \A i \in DOMAIN clients : /\ Registration(i)' = Registration(i)
                                    /\ Written(i)' = Written(i) /\ FileOf(i)' = FileOf(i)
      BY RegistrationStays DEF vars
    <3>2. Quiet
      BY DEF Quiet, MayWrite, vars, memory
    <3>3. TypeOK' /\ PairsApart' /\ OneWriter' /\ PairOfFile'
      BY <3>1, <3>2, QuietWriter
         DEF FilesInv, TypeOK, PairsApart, PairOfFile, vars, memory, history
    <3>4. FileOK'
      BY <3>1 DEF FilesInv, FileOK, vars
    <3>5. \A p \in Program : ProgramOK(p)' /\ Registering(p)'
      BY <3>1 DEF FilesInv, TypeOK, ProgramOK, Registering, vars, memory
    <3>. QED
      BY <3>3, <3>4, <3>5 DEF FilesInv
  <2>. QED
    BY <2>1, <2>2
<1>. QED
  BY <1>1, InitFiles, PTL DEF Spec

\* The variables have their types; the server has no more clients than pairs were made.
THEOREM TypeCorrect == Spec => []TypeOK
<1>1. FilesInv => TypeOK
  BY DEF FilesInv
<1>. QED
  BY <1>1, FilesInvariant, PTL

\* A file that a program can start with is the file of one registration, whatever failed
\* before it was written and whoever else wrote it.
THEOREM MeInfoIsRegistrationAlways == Spec => []MeInfoIsRegistration
<1>1. FilesInv => MeInfoIsRegistration
  <2>. SUFFICES ASSUME FilesInv, NEW pair \in 1 .. pairs, Holds(pair)
                PROVE  LET m == Parsed(Nobody, meInfo) IN
                         /\ m.id[2] \in DOMAIN clients
                         /\ m.name = <<"name", clients[m.id[2]].name>>
                         /\ clients[m.id[2]].pair = pair
    BY DEF MeInfoIsRegistration
  <2>1. PICK i \in DOMAIN clients :
          /\ Parsed(Nobody, meInfo).name = Registration(i).name
          /\ Parsed(Nobody, meInfo).id = <<"id", i>>
          /\ pair = clients[i].pair
    BY FileParsed DEF Holds
  <2>. QED
    BY <2>1 DEF Registration
<1>. QED
  BY <1>1, FilesInvariant, PTL

\* A running program with the identifier of the file has the file's pair, although it
\* replaces its pair before a registration is accepted.
THEOREM ProgramHasFilesPairAlways == Spec => []ProgramHasFilesPair
<1>1. FilesInv => ProgramHasFilesPair
  <2>. SUFFICES ASSUME FilesInv, NEW p \in Program, NEW pair \in 1 .. pairs, Holds(pair),
                       id[p] = Parsed(Nobody, meInfo).id[2]
                PROVE  rsa[p] = pair
    BY DEF ProgramHasFilesPair
  <2>1. PICK i \in DOMAIN clients :
          FileOf(i) /\ Parsed(Nobody, meInfo).id = <<"id", i>> /\ pair = clients[i].pair
    BY FileParsed DEF Holds
  <2>. QED
    BY <2>1 DEF FilesInv, PairOfFile
<1>. QED
  BY <1>1, FilesInvariant, PTL

-----------------------------------------------------------------------------
(* Files that are whole. *)

\* The text of a registration is in the file, unless it is being written or was not.
WholeUnlessFull ==
  \/ full \/ meInfo = None
  \/ \E p \in Program : state[p] = "writing"
  \/ \E i \in DOMAIN clients : meInfo \in Whole(i)

LEMMA WholeStep ==
  ASSUME FilesInv, WholeUnlessFull, Next
  PROVE  WholeUnlessFull'
<1>1. TypeOK
  BY DEF FilesInv
<1>2. ASSUME \A i \in DOMAIN clients : i \in DOMAIN clients' /\ clients'[i] = clients[i],
             meInfo' = meInfo, full => full',
             \A q \in Program : state[q] = "writing" => state'[q] = "writing" \/ full'
      PROVE  WholeUnlessFull'
  <2>1. \A i \in DOMAIN clients : Whole(i)' = Whole(i)
    BY <1>2, RegistrationStays
  <2>. QED
    BY <1>2, <2>1 DEF WholeUnlessFull
<1>3. ASSUME NEW p \in Program, Else(p), ~OpenFile(p), ~WriteFile(p) PROVE WholeUnlessFull'
  <2>1. /\ meInfo' = meInfo /\ (full => full')
        /\ state[p] = "writing" => state'[p] = "writing" \/ full'
    <3>1. CASE Start(p) \/ StartFails(p) \/ Exit(p) \/ RegisterRefused(p)
      BY <1>1, <3>1 DEF Start, StartFails, Exit, RegisterRefused, history, TypeOK
    <3>2. CASE Break(p) \/ GotError(p) \/ GotId(p) \/ ReadBack(p)
      BY <1>1, <3>2 DEF Break, GotError, GotId, ReadBack, history, TypeOK
    <3>. QED
      BY <1>3, <3>1, <3>2 DEF Else
  <2>. QED
    BY <1>2, <1>3, <2>1, ElseStep
<1>4. ASSUME NEW p \in Program, OpenFile(p) PROVE WholeUnlessFull'
  <2>1. CASE state'[p] = "writing"
    BY <2>1 DEF WholeUnlessFull
  <2>2. CASE UNCHANGED meInfo
    <3>1. clients' = clients /\ full' = full /\ state[p] = "opening"
      BY <1>4 DEF OpenFile, history
    <3>. QED
      BY <1>2, <1>4, <2>2, <3>1, ElseStep DEF Else
  <2>. QED
    BY <1>1, <1>4, <2>1, <2>2 DEF OpenFile, TypeOK
<1>5. ASSUME NEW p \in Program, WriteFile(p) PROVE WholeUnlessFull'
  <2>1. PICK i \in DOMAIN clients : clients' = clients /\ (~full' => meInfo' \in Whole(i))
    BY <1>5, WriteStep
  <2>2. Whole(i)' = Whole(i)
    BY <2>1, RegistrationStays
  <2>. QED
    BY <2>1, <2>2 DEF WholeUnlessFull
<1>6. ASSUME NEW p \in Program, NEW n \in Name, Register(p, n) PROVE WholeUnlessFull'
  <2>1. /\ clients' = clients /\ meInfo' = meInfo /\ full' = full /\ state[p] = "cli"
        /\ \A q \in Program \ {p} : state'[q] = state[q]
    BY <1>1, <1>6 DEF Register, history, TypeOK
  <2>. QED
    BY <1>2, <2>1
<1>7. ASSUME NEW p \in Program, Serve(p) PROVE WholeUnlessFull'
  <2>1. full' = full
    BY <1>7 DEF Serve, history
  <2>. QED
    BY <1>2, <1>7, <2>1, ServeStep
<1>. QED
  BY <1>3, <1>4, <1>5, <1>6, <1>7 DEF Next, Else

\* A file that is there can be started with, unless a program is about to write it, was
\* killed there, or the disk was full.
THEOREM CanStartAlways == Spec => []CanStart
<1>1. Init => WholeUnlessFull
  BY DEF Init, WholeUnlessFull
<1>2. WholeUnlessFull /\ UNCHANGED vars => WholeUnlessFull'
  <2>1. \A i \in DOMAIN clients : clients'[i] = clients[i] => Whole(i)' = Whole(i)
    BY RegistrationStays
  <2>. QED
    BY <2>1 DEF WholeUnlessFull, vars, history
<1>3. FilesInv /\ WholeUnlessFull => CanStart
  <2>. SUFFICES ASSUME FilesInv, WholeUnlessFull, meInfo # None, ~full,
                       \A p \in Program : state[p] # "writing"
                PROVE  \E pair \in 1 .. pairs : Holds(pair)
    BY DEF CanStart
  <2>1. PICK i \in DOMAIN clients : meInfo \in Whole(i)
    BY DEF WholeUnlessFull
  <2>2. KnownClient(i) /\ clients[i].pair \in 1 .. pairs
    BY FewerClients DEF FilesInv
  <2>. QED
    BY <2>1, <2>2, WholeAgrees, AgreeingParsed DEF Holds
<1>. QED
  BY <1>1, <1>2, <1>3, WholeStep, FilesInvariant, PTL DEF Spec

-----------------------------------------------------------------------------
(* One program at a time. *)

\* While programs never ran together, a program that registers saw no file, and there is
\* none until it writes it.
Alone ==
  ~together => \A p \in Program :
    /\ \A q \in Program : state[p] # "off" /\ state[q] # "off" => p = q
    /\ state[p] \in {"waiting", "answered", "opening"} => meInfo = None
    /\ state[p] = "writing" => meInfo = <<Empty>>

LEMMA AloneStep ==
  ASSUME FilesInv, Alone, Next
  PROVE  Alone'
<1>1. TypeOK
  BY DEF FilesInv
<1>. SUFFICES ASSUME ~together' PROVE Alone'
  BY DEF Alone
<1>2. ~together
  <2>1. \A p \in Program, n \in Name : Register(p, n) => together' = together
    BY DEF Register, history
  <2>. QED
    BY <2>1 DEF Next, Start, StartFails, Exit, RegisterRefused, Serve, Break, GotError, GotId,
                OpenFile, WriteFile, ReadBack, history
<1>3. ASSUME NEW p \in Program, \A q \in Program \ {p} : state[q] = "off" /\ state'[q] = "off",
             state'[p] \in {"waiting", "answered", "opening"} => meInfo' = None,
             state'[p] = "writing" => meInfo' = <<Empty>>
      PROVE  Alone'
  BY <1>3 DEF Alone
<1>4. \A p \in Program : state[p] # "off" =>
        \A q \in Program \ {p} : state[q] = "off"
  BY <1>2 DEF Alone
<1>5. ASSUME NEW p \in Program, Start(p) PROVE Alone'
  BY <1>1, <1>3, <1>5 DEF Start, TypeOK
<1>6. ASSUME NEW p \in Program, StartFails(p) PROVE Alone'
  BY <1>2, <1>6 DEF StartFails, history, Alone
<1>7. ASSUME NEW p \in Program, Else(p), state[p] # "off" PROVE Alone'
  <2>1. \A q \in Program \ {p} : state[q] = "off" /\ state'[q] = "off"
    BY <1>4, <1>7, ElseStep
  <2>2. /\ state[p] \in {"waiting", "answered", "opening"} => meInfo = None
        /\ state[p] = "writing" => meInfo = <<Empty>>
    BY <1>2 DEF Alone
  <2>3. /\ state'[p] \in {"waiting", "answered", "opening"} => meInfo' = None
        /\ state'[p] = "writing" => meInfo' = <<Empty>>
    BY <1>1, <1>7, <2>2
       DEF Else, Start, StartFails, Exit, RegisterRefused, Break, GotError, GotId, OpenFile,
           WriteFile, ReadBack, TypeOK
  <2>. QED
    BY <1>3, <2>1, <2>3
<1>8. ASSUME NEW p \in Program, Break(p) PROVE Alone'
  <2>1. CASE state[p] = "off"
    <3>1. UNCHANGED <<state, meInfo, together>>
      BY <1>1, <1>8, <2>1 DEF Break, history, TypeOK
    <3>. QED
      BY <1>2, <3>1 DEF Alone
  <2>. QED
    BY <1>7, <1>8, <2>1 DEF Else
<1>9. ASSUME NEW p \in Program, NEW n \in Name, Register(p, n) PROVE Alone'
  <2>1. /\ meInfo' = None /\ state'[p] # "writing" /\ state[p] = "cli"
        /\ \A q \in Program \ {p} : state'[q] = state[q]
    BY <1>1, <1>9 DEF Register, Exists, TypeOK
  <2>. QED
    BY <1>3, <1>4, <2>1
<1>10. ASSUME NEW p \in Program, Serve(p) PROVE Alone'
  <2>1. /\ meInfo' = None /\ state'[p] = "answered" /\ state[p] = "waiting"
        /\ \A q \in Program \ {p} : state'[q] = state[q]
    BY <1>2, <1>10, ServeStep DEF Alone
  <2>. QED
    BY <1>3, <1>4, <2>1
<1>11. ASSUME NEW p \in Program, Exit(p) \/ RegisterRefused(p) \/ GotError(p) \/ GotId(p)
                                \/ OpenFile(p) \/ WriteFile(p) \/ ReadBack(p)
       PROVE  Alone'
  <2>1. state[p] # "off"
    BY <1>11 DEF Exit, RegisterRefused, GotError, GotId, OpenFile, WriteFile, ReadBack
  <2>. QED
    BY <1>7, <1>11, <2>1 DEF Else
<1>. QED
  BY <1>5, <1>6, <1>8, <1>9, <1>10, <1>11 DEF Next

\* A registration in the file is never replaced, unless by a program that was running at
\* the same time as another.
THEOREM FileNeverReplacedAlways == Spec => FileNeverReplaced
<1>1. Init => Alone
  BY DEF Init, Alone
<1>2. Alone /\ UNCHANGED vars => Alone'
  BY DEF Alone, vars, history
<1>3. FilesInv /\ Alone /\ [Next]_vars
        => [~together => \A pair \in 1 .. pairs : Holds(pair) => meInfo' = meInfo]_vars
  <2>. SUFFICES ASSUME FilesInv, Alone, Next, ~together, NEW pair \in 1 .. pairs, Holds(pair)
                PROVE  meInfo' = meInfo
    OBVIOUS
  <2>1. meInfo # None /\ meInfo # <<Empty>>
    BY ClientFilesAssumption DEF Holds, Loads, Parsed, Nobody
  <2>2. \A p \in Program : ~OpenFile(p) /\ ~WriteFile(p)
    BY <2>1 DEF Alone, OpenFile, WriteFile
  <2>3. \A p \in Program, n \in Name : Register(p, n) => meInfo' = meInfo
    BY DEF Register
  <2>. QED
    BY <2>2, <2>3
       DEF Next, Start, StartFails, Exit, RegisterRefused, Serve, Break, GotError, GotId,
           ReadBack
<1>. QED
  BY <1>1, <1>2, <1>3, AloneStep, FilesInvariant, PTL DEF Spec, FileNeverReplaced

=============================================================================

--------------------------- MODULE FramingProofs ---------------------------
(***************************************************************************)
(* Proofs about the framing, for every size of the buffer and the header   *)
(* and every set of lengths: as long as the requests arrive at once, and   *)
(* each is no longer than two buffers and is not exactly one, the program  *)
(* and the server stay in step.  In order the requests are executed always.*)
(***************************************************************************)
EXTENDS Framing, SequenceTheorems, TLAPS

USE FramingAssumption DEF FramingAssumption

Unit == [kind : Kind, of : Number]
Use  == [for : Number, of : Number]

(* What holds of every stream. *)

\* Where requests begin and end in the stream.
Positions ==
  /\ \A i, j \in 1 .. Len(ends) : i < j => ends[i] < ends[j]
  /\ \A i \in 1 .. Len(ends) : ends[i] - Begin(i) \in Lengths

\* Requests that were executed end before the piece that is being read, and the
\* last of them is the one that may be looked at again.
Behind ==
  /\ \A i \in 1 .. Len(executed) :
       executed[i] \in 1 .. Len(ends) /\ ends[executed[i]] <= start
  /\ \A i, j \in 1 .. Len(executed) : i < j => executed[i] <= executed[j]
  /\ request > 0 => executed # <<>> /\ executed[Len(executed)] = request

Always == TypeOK /\ Positions /\ Behind

(* What holds as long as the requests fit. *)

NothingToRead == \A i \in 1 .. Len(socket) : socket[i].kind = "tail"

\* The request that the program waits on is not executed yet.
Unserved ==
  /\ ends # <<>>
  /\ start = Begin(Len(ends))
  /\ program # "ready"
  /\ NothingToRead
  /\ \A i \in 1 .. Len(executed) : executed[i] < Len(ends)
  /\ server = "recv" => read = start \/ (read = start + BufferSize /\ read < SentBytes)
  /\ server = "decode" => read = SentBytes

\* A server that is up either has read everything, or is about to serve the last
\* request.
InStep ==
  /\ arrived = SentBytes
  /\ server # "spins"
  /\ server \in {"recv", "decode"} => (server = "recv" /\ start = SentBytes) \/ Unserved

\* What the program will read is the answer to its last request, once.
AnswerIsOwn ==
  \A i \in 1 .. Len(socket) : socket[i].kind # "tail" =>
    /\ socket[i].kind \in {"answer", "part"}
    /\ socket[i].of = Len(ends)
    /\ program = "waiting"
    /\ \A j \in 1 .. Len(socket) : socket[j].kind # "tail" => j = i

OwnUsed == \A i \in 1 .. Len(used) : used[i].for = used[i].of

ExecutedOnce == \A i, j \in 1 .. Len(executed) : i < j => executed[i] # executed[j]

InSync == InStep /\ AnswerIsOwn /\ OwnUsed /\ ExecutedOnce

Inv == Always /\ (Fits => InSync)

-----------------------------------------------------------------------------

\* The types of what the proofs speak of.
LEMMA Types ==
  ASSUME TypeOK
  PROVE  /\ ends \in Seq(Nat) /\ Len(ends) \in Nat /\ Len(ends) \in Number
         /\ \A i \in 1 .. Len(ends) : ends[i] \in Nat
         /\ SentBytes \in Nat /\ arrived \in Nat /\ start \in Nat /\ read \in Nat
         /\ start <= read /\ read <= arrived /\ arrived <= SentBytes
         /\ whole \in BOOLEAN /\ MaxRequests[whole] \in Nat /\ Number \subseteq Nat
         /\ socket \in Seq(Unit) /\ executed \in Seq(Number) /\ used \in Seq(Use)
<1>1. /\ ends \in Seq(Nat) /\ Len(ends) \in Nat /\ Len(ends) <= MaxRequests[whole]
      /\ whole \in BOOLEAN /\ MaxRequests[whole] \in Nat
  BY DEF TypeOK
<1>2. \A i \in 1 .. Len(ends) : ends[i] \in Nat
  BY <1>1
<1>3. SentBytes \in Nat
  BY <1>1, <1>2 DEF SentBytes
<1>. QED
  BY <1>1, <1>2, <1>3 DEF TypeOK, Unit, Use, Number

\* Initially nothing is under way.
LEMMA InitInv == Init => Inv
<1>1. SUFFICES ASSUME Init PROVE Inv
  OBVIOUS
<1>2. MaxRequests[whole] \in Nat
  BY <1>1 DEF Init
<1>3. TypeOK
  BY <1>1, <1>2 DEF Init, TypeOK, SentBytes, None, Number
<1>4. Positions /\ Behind /\ InSync
  BY <1>1 DEF Init, Positions, Behind, InSync, InStep, AnswerIsOwn, OwnUsed, ExecutedOnce,
              SentBytes, None
<1>. QED
  BY <1>3, <1>4 DEF Inv, Always

\* The last request begins before the end of the stream, and alone ends there.
LEMMA LastRequest ==
  ASSUME Always, ends # <<>>
  PROVE  /\ Len(ends) \in 1 .. Len(ends) /\ Len(ends) \in Number
         /\ SentBytes = ends[Len(ends)]
         /\ Begin(Len(ends)) \in Nat /\ SentBytes - Begin(Len(ends)) \in Lengths
         /\ \A n \in 1 .. Len(ends) : ends[n] <= SentBytes
         /\ \A n \in 1 .. Len(ends) : ends[n] = SentBytes => n = Len(ends)
<1>1. /\ Len(ends) \in 1 .. Len(ends) /\ Len(ends) \in Number /\ Len(ends) \in Nat
      /\ SentBytes = ends[Len(ends)] /\ \A i \in 1 .. Len(ends) : ends[i] \in Nat
  BY Types DEF Always, SentBytes
<1>2. Begin(Len(ends)) \in Nat /\ SentBytes - Begin(Len(ends)) \in Lengths
  <2>1. ends[Len(ends)] - Begin(Len(ends)) \in Lengths
    BY <1>1 DEF Always, Positions
  <2>2. CASE Len(ends) = 1
    BY <2>1, <2>2, <1>1 DEF Begin
  <2>3. CASE Len(ends) # 1
    <3>1. Begin(Len(ends)) = ends[Len(ends) - 1]
      BY <2>3 DEF Begin
    <3>2. PICK n \in Nat : n = Len(ends) /\ n >= 1
      BY <1>1
    <3>3. n - 1 \in 1 .. n
      BY <3>2, <2>3
    <3>. QED
      BY <3>1, <3>2, <3>3, <2>1, <1>1
  <2>. QED
    BY <2>2, <2>3
<1>3. ASSUME NEW n \in 1 .. Len(ends)
      PROVE  ends[n] <= SentBytes /\ (ends[n] = SentBytes => n = Len(ends))
  <2>1. CASE n = Len(ends)
    BY <2>1, <1>1
  <2>2. CASE n # Len(ends)
    <3>1. n < Len(ends)
      BY <2>2, <1>1
    <3>2. ends[n] < ends[Len(ends)] /\ ends[n] \in Nat /\ ends[Len(ends)] \in Nat
      BY <3>1, <1>1 DEF Always, Positions
    <3>. QED
      BY <3>2, <1>1
  <2>. QED
    BY <2>1, <2>2
<1>. QED
  BY <1>1, <1>2, <1>3

-----------------------------------------------------------------------------
(* Types, positions and the order of execution. *)

\* What Left keeps of the answers.
LEMMA LeftType ==
  ASSUME NEW s \in Seq(Unit), NEW left \in Left(s)
  PROVE  /\ left \in Seq(Unit)
         /\ (\A i \in 1 .. Len(s) : s[i].kind = "tail") =>
              \A i \in 1 .. Len(left) : left[i].kind = "tail"
<1> DEFINE S(k) == SubSeq(s, k, Len(s))
           suffixes == {S(k) : k \in 1 .. Len(s) + 1}
           marked   == {u \in suffixes : u # <<>> /\ Marked(u[1])}
<1>1. ASSUME NEW k \in 1 .. Len(s) + 1
      PROVE  /\ S(k) \in Seq(Unit)
             /\ \A i \in 1 .. Len(S(k)) : \E j \in 1 .. Len(s) : S(k)[i] = s[j]
  <2>1. Len(s) \in Nat /\ \A i \in k .. Len(s) : s[i] \in Unit
    OBVIOUS
  <2>2. S(k) \in Seq(Unit) /\ Len(S(k)) = Len(s) - k + 1
    BY <2>1, SubSeqProperties
  <2>3. \A i \in 1 .. Len(S(k)) : S(k)[i] = s[k + i - 1] /\ k + i - 1 \in 1 .. Len(s)
    BY <2>1, <2>2, SubSeqProperties
  <2>. QED
    BY <2>2, <2>3
<1>2. CASE left \in suffixes
  <2>1. PICK k \in 1 .. Len(s) + 1 : left = S(k)
    BY <1>2
  <2>. QED
    BY <1>1, <2>1
<1>3. ASSUME NEW k \in {"rest", "tail"}, NEW t \in marked,
             left = <<[t[1] EXCEPT !.kind = k]>> \o Tail(t)
      PROVE  left \in Seq(Unit) /\ ~(\A i \in 1 .. Len(s) : s[i].kind = "tail")
  <2>1. PICK n \in 1 .. Len(s) + 1 : t = S(n)
    OBVIOUS
  <2>2. t \in Seq(Unit) /\ t # <<>> /\ Marked(t[1])
    BY <1>1, <2>1
  <2>3. 1 \in 1 .. Len(t) /\ t[1] \in Unit /\ Tail(t) \in Seq(Unit)
    BY <2>2
  <2>4. [t[1] EXCEPT !.kind = k] \in Unit
    BY <2>3 DEF Unit, Kind
  <2>5. left \in Seq(Unit)
    BY <2>3, <2>4, <1>3
  <2>6. PICK j \in 1 .. Len(s) : t[1] = s[j]
    BY <1>1, <2>1, <2>3
  <2>. QED
    BY <2>2, <2>5, <2>6 DEF Marked
<1>4. left \in suffixes \/ \E k \in {"rest", "tail"}, t \in marked :
                              left = <<[t[1] EXCEPT !.kind = k]>> \o Tail(t)
  <2> DEFINE Cut(k, t) == <<[t[1] EXCEPT !.kind = k]>> \o Tail(t)
             cuts == {Cut(k, t) : k \in {"rest", "tail"}, t \in marked}
  <2>1. Left(s) = suffixes \cup cuts
    BY DEF Left
  <2>. HIDE DEF suffixes, marked, Cut
  <2>2. left \in cuts => \E k \in {"rest", "tail"}, t \in marked : left = Cut(k, t)
    OBVIOUS
  <2>. HIDE DEF cuts
  <2>3. left \in suffixes \/ \E k \in {"rest", "tail"}, t \in marked : left = Cut(k, t)
    BY <2>1, <2>2
  <2>. QED
    BY <2>3 DEF Cut
<1>. QED
  BY <1>2, <1>3, <1>4

\* A step that leaves requests, pieces and execution alone, but for what arrives.
LEMMA ReaderAlways ==
  ASSUME Always, UNCHANGED <<whole, ends, server, start, read, request, executed>>,
         arrived' \in Nat, arrived <= arrived', arrived' <= SentBytes,
         program' \in {"ready", "waiting", "gone"},
         socket' \in Seq(Unit), used' \in Seq(Use)
  PROVE  Always'
<1>1. Number' = Number /\ SentBytes' = SentBytes /\ start \in Nat /\ read \in Nat
      /\ arrived \in Nat
  BY Types DEF Always, Number, SentBytes
<1>2. TypeOK'
  BY <1>1 DEF Always, TypeOK, Unit, Use
<1>. QED
  BY <1>2 DEF Always, Positions, Behind, Begin

\* What the program makes of an answer keeps the types.
LEMMA UsesType ==
  ASSUME TypeOK, NEW m \in 1 .. Len(socket), Uses(m)
  PROVE  used' \in Seq(Use)
<1>1. socket[m] \in Unit /\ Len(ends) \in Number /\ used \in Seq(Use)
  BY Types
<1>2. [for |-> Len(ends), of |-> socket[m].of] \in Use
  BY <1>1 DEF Unit, Use
<1>. QED
  BY <1>1, <1>2 DEF Uses

\* Reading an answer, and asking for the next, keeps the basic facts.
LEMMA ProgramAlways ==
  ASSUME Always, Arrive \/ GetMsg \/ GetMsgRaises \/ Quit
  PROVE  Always'
<1>1. TypeOK /\ socket \in Seq(Unit) /\ used \in Seq(Use) /\ arrived \in Nat
      /\ SentBytes \in Nat /\ arrived <= SentBytes /\ DOMAIN socket = 1 .. Len(socket)
      /\ program \in {"ready", "waiting", "gone"}
  BY Types DEF Always, TypeOK
<1>2. CASE Arrive
  BY <1>1, <1>2, ReaderAlways DEF Arrive
<1>3. CASE GetMsg
  <2>1. PICK m \in 1 .. Len(socket) :
          Uses(m) /\ socket' \in Left(SubSeq(socket, m + 1, Len(socket)))
    BY <1>1, <1>3 DEF GetMsg
  <2>2. SubSeq(socket, m + 1, Len(socket)) \in Seq(Unit)
    BY <1>1
  <2>3. socket' \in Seq(Unit) /\ used' \in Seq(Use)
    BY <1>1, <2>1, <2>2, LeftType, UsesType
  <2>. QED
    BY <1>1, <2>1, <2>3, ReaderAlways DEF Uses
<1>4. CASE GetMsgRaises
  <2>1. used' \in Seq(Use)
    <3>1. CASE socket = <<>>
      BY <1>1, <1>4, <3>1 DEF GetMsgRaises
    <3>2. CASE socket # <<>>
      <4>1. 1 \in 1 .. Len(socket)
        BY <3>2, <1>1
      <4>. QED
        BY <1>1, <1>4, <3>2, <4>1, UsesType DEF GetMsgRaises
    <3>. QED
      BY <3>1, <3>2
  <2>2. /\ UNCHANGED <<whole, ends, arrived, server, start, read, request, executed>>
        /\ program' = "ready" /\ socket' = <<>>
    BY <1>4 DEF GetMsgRaises, Uses
  <2>. QED
    BY <1>1, <2>1, <2>2, ReaderAlways
<1>5. CASE Quit
  BY <1>1, <1>5, ReaderAlways DEF Quit
<1>. QED
  BY <1>2, <1>3, <1>4, <1>5

\* A step of the server that executes nothing.
LEMMA ServerAlways ==
  ASSUME Always, UNCHANGED <<whole, program, ends, arrived, executed, used>>,
         server' \in {"recv", "decode", "closed", "dead", "spins"},
         start' \in {start, read}, read' \in Nat, read <= read', read' <= arrived,
         request' \in {request, Garbled}, socket' \in Seq(Unit)
  PROVE  Always'
<1>1. /\ Number' = Number /\ SentBytes' = SentBytes
      /\ start \in Nat /\ read \in Nat /\ start <= read /\ arrived \in Nat
      /\ \A i \in 1 .. Len(ends) : ends[i] \in Nat
  BY Types DEF Always, Number, SentBytes
<1>2. TypeOK'
  BY <1>1 DEF Always, TypeOK, Unit
<1>3. Behind'
  <2>1. \A i \in 1 .. Len(executed) : executed[i] \in 1 .. Len(ends) /\ ends[executed[i]] <= start'
    <3>1. TAKE i \in 1 .. Len(executed)
    <3>2. executed[i] \in 1 .. Len(ends) /\ ends[executed[i]] <= start
      BY DEF Always, Behind
    <3>. QED
      BY <1>1, <3>2
  <2>2. request' > 0 => request' = request
    BY DEF Garbled
  <2>. QED
    BY <2>1, <2>2 DEF Always, Behind
<1>. QED
  BY <1>2, <1>3 DEF Always, Positions, Begin

\* A step that executes request n, which is not before any that was executed.
LEMMA ExecuteAlways ==
  ASSUME Always, NEW n \in 1 .. Len(ends), Execute(n), ends[n] <= read,
         \A i \in 1 .. Len(executed) : executed[i] <= n
  PROVE  Always'
<1>1. /\ UNCHANGED <<whole, program, ends, arrived, read, used>>
      /\ server' \in {"recv", "dead"} /\ start' = read /\ request' = n
      /\ executed' = Append(executed, n)
      /\ socket' = IF program = "gone" THEN socket ELSE socket \o Packet(n)
  BY DEF Execute, Replies
<1>2. /\ Number' = Number /\ SentBytes' = SentBytes /\ n \in Number /\ n > 0
      /\ start \in Nat /\ read \in Nat /\ start <= read
      /\ socket \in Seq(Unit) /\ executed \in Seq(Number) /\ Number \subseteq Nat
      /\ \A i \in 1 .. Len(ends) : ends[i] \in Nat
  <2>1. Len(ends) \in Number /\ n \in Nat
    BY Types DEF Always
  <2>2. n \in Number
    BY <2>1, Types DEF Number, Always
  <2>. QED
    BY <1>1, <2>2, Types DEF Always, Number, SentBytes
<1>3. Packet(n) \in Seq(Unit)
  BY <1>2 DEF Packet, Unit, Kind
<1>4. socket' \in Seq(Unit) /\ executed' \in Seq(Number)
  BY <1>1, <1>2, <1>3
<1>5. TypeOK'
  BY <1>1, <1>2, <1>4 DEF Always, TypeOK, Unit
<1>6. Behind'
  <2>1. /\ Len(executed') = Len(executed) + 1 /\ Len(executed) \in Nat
        /\ executed'[Len(executed) + 1] = n
        /\ \A i \in 1 .. Len(executed) : executed'[i] = executed[i]
    BY <1>1, <1>2
  <2>2. \A i \in 1 .. Len(executed) :
          executed[i] \in 1 .. Len(ends) /\ ends[executed[i]] <= read /\ executed[i] \in Nat
    <3>1. TAKE i \in 1 .. Len(executed)
    <3>2. executed[i] \in 1 .. Len(ends) /\ ends[executed[i]] <= start
      BY DEF Always, Behind
    <3>. QED
      BY <1>2, <3>2
  <2>3. \A i \in 1 .. Len(executed') : executed'[i] \in 1 .. Len(ends) /\ ends[executed'[i]] <= read
    BY <2>1, <2>2
  <2>4. \A i, j \in 1 .. Len(executed') : i < j => executed'[i] <= executed'[j]
    <3>1. TAKE i, j \in 1 .. Len(executed')
    <3>2. HAVE i < j
    <3>3. i \in 1 .. Len(executed)
      BY <3>2, <2>1
    <3>4. CASE j = Len(executed) + 1
      BY <3>3, <3>4, <2>1
    <3>5. CASE j \in 1 .. Len(executed)
      BY <3>2, <3>3, <3>5, <2>1 DEF Always, Behind
    <3>. QED
      BY <3>4, <3>5, <2>1
  <2>. QED
    BY <1>1, <2>1, <2>3, <2>4 DEF Behind
<1>. QED
  BY <1>1, <1>5, <1>6 DEF Always, Positions, Begin

\* When the server stops, the program can read at most what it could before, the last of it cut.
LEMMA StopType ==
  ASSUME Always, Stop
  PROVE  /\ socket' \in Seq(Unit)
         /\ Len(socket') <= Len(socket)
         /\ \A i \in 1 .. Len(socket') :
              /\ socket'[i].of = socket[i].of
              /\ socket'[i].kind # "tail" => socket[i].kind # "tail"
              /\ socket'[i].kind \in {socket[i].kind, "part", "tail"}
<1>1. PICK k \in 0 .. Len(socket) :
        \/ socket' = SubSeq(socket, 1, k)
        \/ /\ k > 0
           /\ socket' = Append(SubSeq(socket, 1, k - 1),
                          IF socket[k].kind = "answer" THEN [socket[k] EXCEPT !.kind = "part"]
                          ELSE [socket[k] EXCEPT !.kind = "tail"])
  BY DEF Stop
<1>2. socket \in Seq(Unit) /\ Len(socket) \in Nat
  BY Types DEF Always
<1>3. CASE socket' = SubSeq(socket, 1, k)
  BY <1>2, <1>3
<1>4. ASSUME k > 0,
             socket' = Append(SubSeq(socket, 1, k - 1),
                        IF socket[k].kind = "answer" THEN [socket[k] EXCEPT !.kind = "part"]
                        ELSE [socket[k] EXCEPT !.kind = "tail"])
      PROVE  /\ socket' \in Seq(Unit) /\ Len(socket') = k
             /\ \A i \in 1 .. k :
                  /\ socket'[i].of = socket[i].of
                  /\ socket'[i].kind # "tail" => socket[i].kind # "tail"
                  /\ socket'[i].kind \in {socket[i].kind, "part", "tail"}
  <2>1. socket[k] \in Unit /\ k \in 1 .. Len(socket)
    BY <1>2, <1>4
  <2> DEFINE last == IF socket[k].kind = "answer" THEN [socket[k] EXCEPT !.kind = "part"]
                     ELSE [socket[k] EXCEPT !.kind = "tail"]
  <2>2. /\ last \in Unit /\ last.of = socket[k].of
        /\ last.kind \in {"part", "tail"} /\ (last.kind = "part" => socket[k].kind = "answer")
    BY <2>1 DEF Unit, Kind
  <2>3. /\ SubSeq(socket, 1, k - 1) \in Seq(Unit) /\ Len(SubSeq(socket, 1, k - 1)) = k - 1
        /\ \A i \in 1 .. k - 1 : SubSeq(socket, 1, k - 1)[i] = socket[i]
    BY <1>2, <2>1
  <2> HIDE DEF last
  <2>4. socket' = Append(SubSeq(socket, 1, k - 1), last)
    BY <1>4 DEF last
  <2>5. /\ socket' \in Seq(Unit) /\ Len(socket') = k /\ socket'[k] = last
        /\ \A i \in 1 .. k - 1 : socket'[i] = socket[i]
    BY <2>1, <2>2, <2>3, <2>4
  <2>. QED
    BY <2>1, <2>2, <2>5
<1>. QED
  BY <1>1, <1>2, <1>3, <1>4

\* The steps of the server and the end of either side keep the basic facts.
LEMMA StepsAlways == ASSUME Always, Server \/ Stop PROVE Always'
<1>1. /\ TypeOK /\ socket \in Seq(Unit) /\ start \in Nat /\ read \in Nat /\ start <= read
      /\ arrived \in Nat /\ read <= arrived /\ DOMAIN ends = 1 .. Len(ends)
      /\ ends \in Seq(Nat) /\ executed \in Seq(Number) /\ Number \subseteq Nat
      /\ \A i \in 1 .. Len(ends) : ends[i] \in Nat
  BY Types DEF Always
<1>2. CASE Recv
  <2>1. Received \in Nat /\ read + Received <= arrived
    BY <1>1 DEF Received
  <2>. QED
    BY <1>1, <1>2, <2>1, ServerAlways DEF Recv
<1>3. CASE RecvEof
  BY <1>1, <1>3, ServerAlways DEF RecvEof
<1>4. CASE DecodeRequest
  <2>1. PICK n \in 1 .. Len(ends) : IsRequest(n) /\ Execute(n)
    BY <1>1, <1>4 DEF DecodeRequest
  <2>2. ends[n] = read
    BY <2>1 DEF IsRequest
  <2>3. ASSUME NEW i \in 1 .. Len(executed) PROVE executed[i] <= n
    <3>1. executed[i] \in 1 .. Len(ends) /\ ends[executed[i]] <= start
      BY DEF Always, Behind
    <3>2. n < executed[i] => ends[n] < ends[executed[i]]
      BY <3>1 DEF Always, Positions
    <3>. QED
      BY <1>1, <2>2, <3>1, <3>2
  <2>. QED
    BY <1>1, <2>1, <2>2, <2>3, ExecuteAlways
<1>5. ASSUME Replies(Error) PROVE socket' \in Seq(Unit)
  <2>1. Packet(Error) \in Seq(Unit)
    BY Types DEF Packet, Unit, Kind, Error, Number, Always
  <2>. QED
    BY <1>1, <1>5, <2>1 DEF Replies
<1>6. CASE DecodeGarbled
  BY <1>1, <1>5, <1>6, ServerAlways DEF DecodeGarbled, Replies
<1>7. CASE DecodeRaises
  <2>1. CASE request > 0 /\ Execute(request)
    <3>1. executed # <<>> /\ executed[Len(executed)] = request
      BY <2>1 DEF Always, Behind
    <3>2. PICK k \in Nat : k = Len(executed) /\ k \in 1 .. Len(executed)
      BY <1>1, <3>1
    <3>3. request \in 1 .. Len(ends) /\ ends[request] <= start
      BY <3>1, <3>2 DEF Always, Behind
    <3>4. ASSUME NEW i \in 1 .. Len(executed) PROVE executed[i] <= request
      <4>1. i = k \/ i < k
        BY <3>2
      <4>2. CASE i < k
        BY <3>1, <3>2, <4>2 DEF Always, Behind
      <4>3. CASE i = k
        BY <3>1, <3>2, <3>3, <4>3
      <4>. QED
        BY <4>1, <4>2, <4>3
    <3>. QED
      BY <1>1, <2>1, <3>3, <3>4, ExecuteAlways
  <2>2. CASE request = Garbled /\ Replies(Error) /\ UNCHANGED <<request, executed>>
    BY <1>1, <1>5, <2>2, ServerAlways DEF Replies
  <2>. QED
    BY <1>7, <2>1, <2>2 DEF DecodeRaises
<1>8. CASE FirstGarbled
  <2>1. Packet(Error) \in Seq(Unit)
    BY Types DEF Packet, Unit, Kind, Error, Number, Always
  <2>2. socket' = socket \o Packet(Error) \/ socket' = socket
    BY <1>8 DEF FirstGarbled
  <2>3. socket' \in Seq(Unit)
    <3>1. socket \in Seq(Unit)
      BY <1>1
    <3> DEFINE packet == Packet(Error)
    <3>2. packet \in Seq(Unit) /\ (socket' = socket \o packet \/ socket' = socket)
      BY <2>1, <2>2
    <3> HIDE DEF packet
    <3>3. socket \o packet \in Seq(Unit)
      BY <3>1, <3>2
    <3>. QED
      BY <3>1, <3>2, <3>3
  <2>. QED
    BY <1>1, <1>8, <2>3, ServerAlways DEF FirstGarbled
<1>9. CASE FirstRaises
  BY <1>1, <1>9, ServerAlways DEF FirstRaises
<1>10. CASE Stop
  <2>1. /\ UNCHANGED <<whole, program, ends, arrived, start, read, request, executed, used>>
        /\ server' = "closed"
    BY <1>10 DEF Stop
  <2>2. socket' \in Seq(Unit)
    BY <1>10, StopType
  <2>. QED
    BY <1>1, <2>1, <2>2, ServerAlways
<1>. QED
  BY <1>2, <1>3, <1>4, <1>6, <1>7, <1>8, <1>9, <1>10 DEF Server

\* What Ask makes of the stream.
LEMMA AskStream ==
  ASSUME Always, NEW length \in Lengths, Ask(length)
  PROVE  /\ length \in Nat /\ length > 0 /\ Len(ends) \in Nat /\ SentBytes \in Nat
         /\ ends' \in Seq(Nat) /\ Len(ends') = Len(ends) + 1
         /\ ends'[Len(ends) + 1] = SentBytes + length
         /\ \A i \in 1 .. Len(ends) : ends'[i] = ends[i] /\ Begin(i)' = Begin(i)
         /\ \A n \in Nat : n = Len(ends) + 1 => Begin(n)' = SentBytes
         /\ SentBytes' = SentBytes + length
<1>1. length \in Nat /\ length > 0 /\ SentBytes \in Nat /\ ends \in Seq(Nat) /\ Len(ends) \in Nat
  BY Types DEF Always
<1>2. /\ ends' = Append(ends, SentBytes + length)
      /\ ends' \in Seq(Nat) /\ Len(ends') = Len(ends) + 1
      /\ ends'[Len(ends) + 1] = SentBytes + length
      /\ \A i \in 1 .. Len(ends) : ends'[i] = ends[i]
  BY <1>1 DEF Ask
<1>3. SentBytes' = SentBytes + length
  BY <1>1, <1>2 DEF SentBytes
<1>4. ASSUME NEW n \in Nat, n = Len(ends) + 1 PROVE Begin(n)' = SentBytes
  <2>1. CASE ends = <<>>
    BY <1>4, <2>1, <1>2 DEF Begin, SentBytes
  <2>2. CASE ends # <<>>
    <3>1. n # 1 /\ n - 1 = Len(ends) /\ Len(ends) \in 1 .. Len(ends)
      BY <1>1, <1>4, <2>2
    <3>. QED
      BY <3>1, <2>2, <1>2 DEF Begin, SentBytes
  <2>. QED
    BY <2>1, <2>2
<1>5. ASSUME NEW i \in 1 .. Len(ends) PROVE Begin(i)' = Begin(i)
  <2>1. i = 1 \/ i - 1 \in 1 .. Len(ends)
    BY <1>1
  <2>. QED
    BY <2>1, <1>2 DEF Begin
<1>. QED
  BY <1>1, <1>2, <1>3, <1>4, <1>5

\* A request that is asked keeps the basic facts.
LEMMA AskAlways ==
  ASSUME Always, NEW length \in Lengths, Ask(length)
  PROVE  Always'
<1>1. /\ TypeOK /\ arrived \in Nat /\ SentBytes \in Nat /\ start \in Nat /\ read \in Nat
      /\ read <= arrived /\ arrived <= SentBytes /\ Len(ends) \in Nat
      /\ \A i \in 1 .. Len(ends) : ends[i] \in Nat
  BY Types DEF Always
<1>2. /\ length \in Nat /\ length > 0 /\ ends' \in Seq(Nat) /\ Len(ends') = Len(ends) + 1
      /\ ends'[Len(ends) + 1] = SentBytes + length /\ SentBytes' = SentBytes + length
      /\ \A i \in 1 .. Len(ends) : ends'[i] = ends[i] /\ Begin(i)' = Begin(i)
  BY AskStream
<1>3. /\ arrived' \in {arrived, SentBytes + length} /\ program' = "waiting"
      /\ UNCHANGED <<whole, server, start, read, request, socket, executed, used>>
  BY DEF Ask
<1>4. Number' = Number
  BY <1>3 DEF Number
<1>5. Len(ends') <= MaxRequests[whole]
  BY <1>2, Types DEF Ask, Always
<1>6. TypeOK'
  BY <1>1, <1>2, <1>3, <1>4, <1>5 DEF TypeOK
<1>7. Positions'
  <2>1. \A i \in 1 .. Len(ends) : ends[i] <= SentBytes
    <3>1. CASE ends = <<>>
      BY <3>1
    <3>2. CASE ends # <<>>
      BY <3>2, LastRequest
    <3>. QED
      BY <3>1, <3>2
  <2>2. ASSUME NEW i \in 1 .. Len(ends) + 1, NEW j \in 1 .. Len(ends) + 1, i < j
        PROVE  ends'[i] < ends'[j]
    <3>1. i \in 1 .. Len(ends) /\ ends'[i] = ends[i] /\ ends[i] \in Nat
      BY <2>2, <1>1, <1>2
    <3>2. CASE j = Len(ends) + 1
      BY <3>1, <3>2, <1>1, <1>2, <2>1
    <3>3. CASE j \in 1 .. Len(ends)
      BY <3>1, <3>3, <2>2, <1>2 DEF Always, Positions
    <3>. QED
      BY <3>2, <3>3, <1>1
  <2>3. ASSUME NEW i \in 1 .. Len(ends) + 1 PROVE ends'[i] - Begin(i)' \in Lengths
    <3>1. CASE i = Len(ends) + 1
      <4>1. Begin(i)' = SentBytes
        BY <3>1, AskStream
      <4>. QED
        BY <3>1, <4>1, <1>1, <1>2
    <3>2. CASE i \in 1 .. Len(ends)
      <4>1. ends[i] - Begin(i) \in Lengths
        BY <3>2 DEF Always, Positions
      <4>. QED
        BY <3>2, <4>1, <1>2
    <3>. QED
      BY <3>1, <3>2, <1>1
  <2>. QED
    BY <2>2, <2>3, <1>2 DEF Positions
<1>8. Behind'
  <2>1. \A i \in 1 .. Len(executed) :
          /\ executed[i] \in 1 .. Len(ends) /\ executed[i] \in 1 .. Len(ends')
          /\ ends'[executed[i]] <= start
    BY <1>1, <1>2 DEF Always, Behind
  <2>. QED
    BY <2>1, <1>3 DEF Always, Behind
<1>. QED
  BY <1>6, <1>7, <1>8 DEF Always

\* What was sent so far fits, if it fits with what is added.
LEMMA FitsBefore == ASSUME Always, [Next]_vars, Fits' PROVE Fits
<1>1. DOMAIN ends = 1 .. Len(ends)
  BY Types DEF Always
<1>2. ASSUME NEW length \in Lengths, Ask(length) PROVE Fits
  <2>1. DOMAIN ends' = 1 .. Len(ends')
    BY <1>2, AskStream
  <2>2. \A n \in DOMAIN ends :
          n \in DOMAIN ends' /\ ends'[n] = ends[n] /\ Begin(n)' = Begin(n)
    <3>1. TAKE n \in DOMAIN ends
    <3>2. n \in 1 .. Len(ends) /\ ends'[n] = ends[n] /\ Begin(n)' = Begin(n)
      BY <1>1, <1>2, AskStream
    <3>3. Len(ends') = Len(ends) + 1 /\ Len(ends) \in Nat
      BY <1>2, AskStream
    <3>. QED
      BY <2>1, <3>2, <3>3
  <2>3. whole' = whole
    BY <1>2 DEF Ask
  <2>. QED
    BY <2>2, <2>3 DEF Fits
<1>3. CASE UNCHANGED <<whole, ends>>
  BY <1>3 DEF Fits, Begin
<1>. QED
  BY <1>2, <1>3 DEF Next, vars, Arrive, GetMsg, GetMsgRaises, Uses, Quit, Server, Recv,
     RecvEof, DecodeRequest, DecodeGarbled, DecodeRaises, FirstGarbled, FirstRaises,
     Execute, Replies, Stop

-----------------------------------------------------------------------------
(* Steps while the requests fit. *)

\* A request is asked only after the program is done with the answer to the last.
LEMMA AskInSync ==
  ASSUME Always, Fits, InSync, NEW length \in Lengths, Ask(length)
  PROVE  InSync'
<1>1. /\ TypeOK /\ start \in Nat /\ read \in Nat /\ start <= read /\ read <= SentBytes
      /\ Len(ends) \in Nat
  BY Types DEF Always, InSync, InStep
<1>2. /\ length > 0 /\ length \in Nat /\ SentBytes \in Nat
      /\ Len(ends') = Len(ends) + 1 /\ SentBytes' = SentBytes + length
      /\ \A n \in Nat : n = Len(ends) + 1 => Begin(n)' = SentBytes
  BY AskStream
<1>3. /\ arrived' = SentBytes + length /\ program = "ready" /\ program' = "waiting"
      /\ UNCHANGED <<server, start, read, request, socket, executed, used>>
  BY DEF Ask, Fits
<1>4. NothingToRead
  BY <1>3 DEF InSync, AnswerIsOwn, NothingToRead
<1>5. ASSUME server \in {"recv", "decode"} PROVE server = "recv" /\ Unserved'
  <2>1. server = "recv" /\ start = SentBytes /\ read = start
    BY <1>1, <1>3, <1>5 DEF InSync, InStep, Unserved
  <2>2. PICK n \in Nat : n = Len(ends) + 1
    BY <1>1
  <2>3. ends' # <<>> /\ start' = Begin(n)' /\ Len(ends') = n
    BY <1>1, <1>2, <1>3, <2>1, <2>2
  <2>4. start' = Begin(Len(ends))'
    BY <2>3 DEF Begin
  <2>5. \A i \in 1 .. Len(executed) : executed[i] < Len(ends')
    BY <1>1, <1>2 DEF Always, Behind
  <2>. QED
    BY <1>3, <1>4, <2>1, <2>3, <2>4, <2>5 DEF Unserved, NothingToRead
<1>6. InStep'
  BY <1>2, <1>3, <1>5 DEF InSync, InStep
<1>7. AnswerIsOwn' /\ OwnUsed' /\ ExecutedOnce'
  BY <1>3, <1>4 DEF InSync, AnswerIsOwn, NothingToRead, OwnUsed, ExecutedOnce
<1>. QED
  BY <1>6, <1>7 DEF InSync

\* Requests that arrive at once leave nothing to arrive.
LEMMA ArriveInSync == ASSUME Always, InSync, Arrive PROVE InSync'
<1>1. arrived' \in arrived + 1 .. arrived /\ arrived \in Nat
  BY Types DEF Arrive, InSync, InStep, Always
<1>. QED
  BY <1>1

\* A step of the program after which nothing but tails is left in the socket.
LEMMA ReaderInSync ==
  ASSUME Always, InSync, program' \in {"ready", "gone"},
         UNCHANGED <<ends, arrived, server, start, read, executed>>,
         NothingToRead', program' = "ready" => server \notin {"recv", "decode"} \/ ~Unserved,
         OwnUsed'
  PROVE  InSync'
<1>1. InStep'
  BY DEF InSync, InStep, Unserved, SentBytes, Begin
<1>. QED
  BY <1>1 DEF InSync, AnswerIsOwn, NothingToRead, ExecutedOnce

\* Reading an answer, or the end of the stream.
LEMMA UsesOwn ==
  ASSUME Always, InSync, NEW m \in 1 .. Len(socket), Uses(m)
  PROVE  OwnUsed'
<1>1. socket[m] \in Unit /\ used \in Seq(Use) /\ Len(ends) \in Number
  BY Types DEF Always
<1>2. CASE ~Accepts(m)
  BY <1>2 DEF Uses, InSync, OwnUsed
<1>3. CASE Accepts(m)
  <2>1. socket[m].of = Len(ends)
    BY <1>3 DEF Accepts, InSync, AnswerIsOwn
  <2>2. used' = Append(used, [for |-> Len(ends), of |-> Len(ends)])
    BY <1>3, <2>1 DEF Uses
  <2>3. [for |-> Len(ends), of |-> Len(ends)] \in Use
    BY <1>1 DEF Use
  <2>. QED
    BY <1>1, <2>2, <2>3 DEF InSync, OwnUsed
<1>. QED
  BY <1>2, <1>3

\* The answer that the program reads is its own.
LEMMA GetMsgInSync == ASSUME Always, InSync, GetMsg PROVE InSync'
<1>1. socket \in Seq(Unit) /\ Len(socket) \in Nat /\ DOMAIN socket = 1 .. Len(socket)
  BY Types DEF Always
<1>2. PICK m \in 1 .. Len(socket) :
        /\ Marked(socket[m])
        /\ Uses(m)
        /\ socket' \in Left(SubSeq(socket, m + 1, Len(socket)))
  BY <1>1 DEF GetMsg
<1>3. socket[m].kind # "tail" /\ ~Unserved
  BY <1>2 DEF Marked, Unserved, NothingToRead
<1>4. \A i \in 1 .. Len(socket) : i # m => socket[i].kind = "tail"
  BY <1>3 DEF InSync, AnswerIsOwn
<1>5. /\ SubSeq(socket, m + 1, Len(socket)) \in Seq(Unit)
      /\ \A i \in 1 .. Len(SubSeq(socket, m + 1, Len(socket))) :
           SubSeq(socket, m + 1, Len(socket))[i].kind = "tail"
  <2> DEFINE rest == SubSeq(socket, m + 1, Len(socket))
  <2>1. socket \in Seq(Unit) /\ Len(socket) \in Nat
    BY <1>1
  <2>2. \A i \in m + 1 .. Len(socket) : socket[i] \in Unit
    BY <2>1
  <2>3. rest \in Seq(Unit) /\ Len(rest) = Len(socket) - m
    BY <2>1, <2>2, SubSeqProperties
  <2>4. \A i \in 1 .. Len(rest) :
          rest[i] = socket[m + i] /\ m + i \in 1 .. Len(socket) /\ m + i # m
    BY <2>1, <2>2, <2>3, SubSeqProperties
  <2>. QED
    BY <2>3, <2>4, <1>4
<1>6. NothingToRead'
  BY <1>2, <1>5, LeftType DEF NothingToRead
<1>7. OwnUsed'
  BY <1>2, UsesOwn
<1>. QED
  BY <1>2, <1>3, <1>6, <1>7, ReaderInSync DEF Uses

\* So is what is there when get_msg raises.
LEMMA GetMsgRaisesInSync == ASSUME Always, InSync, GetMsgRaises PROVE InSync'
<1>1. /\ server = "closed" /\ socket' = <<>> /\ program' = "ready"
      /\ UNCHANGED <<ends, arrived, server, start, read, executed>>
  BY DEF GetMsgRaises, Uses
<1>2. NothingToRead'
  BY <1>1 DEF NothingToRead
<1>3. OwnUsed'
  <2>1. CASE socket = <<>>
    BY <2>1 DEF GetMsgRaises, InSync, OwnUsed
  <2>2. CASE socket # <<>>
    <3>1. 1 \in 1 .. Len(socket) /\ Uses(1)
      BY <2>2, Types DEF GetMsgRaises, Always
    <3>. QED
      BY <3>1, UsesOwn
  <2>. QED
    BY <2>1, <2>2
<1>. QED
  BY <1>1, <1>2, <1>3, ReaderInSync

\* A program that quits uses nothing more.
LEMMA QuitInSync == ASSUME Always, InSync, Quit PROVE InSync'
<1>1. NothingToRead' /\ OwnUsed'
  BY DEF Quit, NothingToRead, InSync, OwnUsed
<1>. QED
  BY <1>1, ReaderInSync DEF Quit

\* A step of the server that reads: it stops at the end of the request.
LEMMA RecvInSync == ASSUME Always, Fits, InSync, Recv PROVE InSync'
<1>1. /\ server = "recv" /\ read \in Nat /\ start \in Nat /\ SentBytes = arrived
      /\ arrived \in Nat /\ start <= read /\ read < arrived
      /\ UNCHANGED <<program, ends, arrived, start, request, socket, executed, used>>
      /\ read' = read + Received
      /\ server' = IF read + Received - start = BufferSize THEN "recv" ELSE "decode"
  BY Types DEF Recv, Always, InSync, InStep, Size, GoesOn, Received
<1>2. Unserved
  BY <1>1 DEF InSync, InStep
<1>3. /\ start = Begin(Len(ends)) /\ SentBytes = ends[Len(ends)] /\ Len(ends) \in 1 .. Len(ends)
  BY <1>2, LastRequest DEF Unserved
<1>4. SentBytes - start <= 2 * BufferSize /\ SentBytes - start # BufferSize
  BY <1>3, Types DEF Fits, Always
<1>5. \/ server' = "recv" /\ read' = start + BufferSize /\ read' < SentBytes
      \/ server' = "decode" /\ read' = SentBytes
  <2>1. CASE read = start
    BY <2>1, <1>1, <1>4 DEF Received
  <2>2. CASE read = start + BufferSize
    BY <2>2, <1>1, <1>4 DEF Received
  <2>. QED
    BY <2>1, <2>2, <1>1, <1>2 DEF Unserved
<1>6. SentBytes' = SentBytes /\ Begin(Len(ends))' = Begin(Len(ends))
  BY <1>1 DEF SentBytes, Begin
<1>7. Unserved'
  BY <1>1, <1>2, <1>3, <1>5, <1>6 DEF Unserved, Begin, NothingToRead
<1>8. InStep'
  BY <1>1, <1>5, <1>6, <1>7 DEF InStep
<1>. QED
  BY <1>1, <1>8 DEF InSync, AnswerIsOwn, OwnUsed, ExecutedOnce

\* The end of the stream comes when nothing is left to serve.
LEMMA RecvEofInSync == ASSUME Always, InSync, RecvEof PROVE InSync'
<1>1. /\ server = "recv" /\ read = arrived /\ arrived = SentBytes
      /\ start \in Nat /\ read \in Nat
      /\ UNCHANGED <<program, ends, arrived, start, read, request, socket, executed, used>>
      /\ server' = IF read = start THEN "closed" ELSE "spins"
  BY Types DEF RecvEof, Size, Always
<1>2. ~Unserved
  <2>1. SUFFICES ASSUME Unserved PROVE FALSE
    OBVIOUS
  <2>2. start = Begin(Len(ends)) /\ SentBytes - start \in Lengths
    BY <2>1, LastRequest DEF Unserved
  <2>3. read = start \/ read < SentBytes
    BY <2>1, <1>1 DEF Unserved
  <2>. QED
    BY <1>1, <2>2, <2>3
<1>3. server' = "closed"
  BY <1>1, <1>2 DEF InSync, InStep
<1>. QED
  BY <1>1, <1>3 DEF InSync, InStep, SentBytes, AnswerIsOwn, OwnUsed, ExecutedOnce

\* What is decoded is the last request, never anything else.
LEMMA DecodesLast ==
  ASSUME Always, InSync, server = "decode"
  PROVE  /\ Unserved /\ read = SentBytes /\ ends # <<>> /\ Len(ends) \in 1 .. Len(ends)
         /\ ~Raises /\ ~IsGarbled
         /\ \A n \in DOMAIN ends : IsRequest(n) => n = Len(ends)
<1>1. Unserved
  BY DEF InSync, InStep
<1>2. start = Begin(Len(ends)) /\ read = SentBytes /\ ends # <<>>
  BY <1>1 DEF Unserved
<1>3. /\ read = ends[Len(ends)] /\ Len(ends) \in 1 .. Len(ends)
      /\ read - start \in Lengths /\ DOMAIN ends = 1 .. Len(ends)
      /\ \A n \in DOMAIN ends : IsRequest(n) => n = Len(ends)
  <2>1. DOMAIN ends = 1 .. Len(ends)
    BY Types DEF Always
  <2>2. /\ SentBytes = ends[Len(ends)] /\ SentBytes - Begin(Len(ends)) \in Lengths
        /\ Len(ends) \in 1 .. Len(ends)
        /\ \A n \in 1 .. Len(ends) : ends[n] = SentBytes => n = Len(ends)
    BY <1>2, LastRequest
  <2>. QED
    BY <1>2, <2>1, <2>2 DEF IsRequest
<1>4. ~Raises
  <2>1. PICK length \in Lengths : length = read - start
    BY <1>3
  <2>. QED
    BY <2>1 DEF Raises, Size
<1>5. ~IsGarbled
  BY <1>2, <1>3 DEF IsGarbled, IsRequest
<1>. QED
  BY <1>1, <1>2, <1>3, <1>4, <1>5

\* The server executes the last request once, and answers it.
LEMMA DecodeRequestInSync == ASSUME Always, InSync, DecodeRequest PROVE InSync'
<1>1. PICK n \in DOMAIN ends : IsRequest(n) /\ Execute(n)
  BY DEF DecodeRequest
<1>2. server = "decode"
  BY <1>1 DEF Execute, Replies
<1>3. /\ n = Len(ends) /\ n \in Nat
      /\ Unserved /\ read = SentBytes /\ ends # <<>>
  BY <1>1, <1>2, DecodesLast, Types DEF Always
<1>4. /\ server' \in {"recv", "dead"} /\ start' = read /\ request' = n
      /\ executed' = Append(executed, n)
      /\ socket' = IF program = "gone" THEN socket ELSE socket \o Packet(n)
      /\ UNCHANGED <<program, ends, arrived, read, used>>
      /\ SentBytes' = SentBytes
  BY <1>1 DEF Execute, Replies, SentBytes
<1>5. /\ socket \in Seq(Unit) /\ executed \in Seq(Number) /\ Number \subseteq Nat
      /\ n \in Number
  BY <1>3, Types DEF Always
<1>6. AnswerIsOwn'
  <2>1. CASE program = "gone"
    BY <1>3, <1>4, <2>1 DEF AnswerIsOwn, Unserved, NothingToRead
  <2>2. CASE program # "gone"
    <3>1. /\ socket' = socket \o Packet(n) /\ program' = "waiting"
      BY <1>3, <1>4, <2>2 DEF Unserved, Always, TypeOK
    <3> DEFINE packet == Packet(n)
    <3>2. /\ packet = <<[kind |-> "answer", of |-> n], [kind |-> "tail", of |-> n]>>
          /\ packet \in Seq(Unit)
      BY <1>5 DEF Packet, Unit, Kind
    <3> HIDE DEF packet
    <3>3. /\ Len(socket') = Len(socket) + 2 /\ Len(socket) \in Nat
          /\ \A i \in 1 .. Len(socket) : socket'[i] = socket[i]
          /\ socket'[Len(socket) + 1] = [kind |-> "answer", of |-> n]
          /\ socket'[Len(socket) + 2] = [kind |-> "tail", of |-> n]
      <4>1. socket' = socket \o packet
        BY <3>1 DEF packet
      <4>2. socket \in Seq(Unit)
        BY <1>5
      <4>. QED
        BY <4>1, <4>2, <3>2
    <3>4. \A i \in 1 .. Len(socket') : i # Len(socket) + 1 => socket'[i].kind = "tail"
      <4>1. \A i \in 1 .. Len(socket) : socket[i].kind = "tail"
        BY <1>3 DEF Unserved, NothingToRead
      <4>2. TAKE i \in 1 .. Len(socket')
      <4>3. i \in 1 .. Len(socket) \/ i = Len(socket) + 1 \/ i = Len(socket) + 2
        BY <3>3
      <4>. QED
        BY <3>3, <4>1, <4>3
    <3>5. socket'[Len(socket) + 1].kind = "answer" /\ socket'[Len(socket) + 1].of = n
      BY <3>3
    <3>6. Len(ends') = n /\ Len(socket) + 1 \in 1 .. Len(socket')
      BY <3>3, <1>3, <1>4
    <3>. QED
      BY <3>1, <3>4, <3>5, <3>6 DEF AnswerIsOwn
  <2>. QED
    BY <2>1, <2>2
<1>7. ExecutedOnce'
  <2>1. /\ Len(executed') = Len(executed) + 1 /\ Len(executed) \in Nat
        /\ \A i \in 1 .. Len(executed) : executed'[i] = executed[i] /\ executed[i] < n
        /\ executed'[Len(executed) + 1] = n
    <3>1. executed \in Seq(Number) /\ n \in Number /\ executed' = Append(executed, n)
      BY <1>4, <1>5
    <3>2. \A i \in 1 .. Len(executed) : executed[i] < n
      BY <1>3 DEF Unserved
    <3>. QED
      BY <3>1, <3>2
  <2>2. SUFFICES ASSUME NEW i \in 1 .. Len(executed'), NEW j \in 1 .. Len(executed'), i < j
                 PROVE  executed'[i] # executed'[j]
    BY DEF ExecutedOnce
  <2>3. i < j
    BY <2>2
  <2>4. i \in 1 .. Len(executed) /\ executed'[i] = executed[i] /\ executed[i] < n
    BY <2>3, <2>1
  <2>5. CASE j = Len(executed) + 1
    BY <2>4, <2>5, <2>1, <1>3
  <2>6. CASE j \in 1 .. Len(executed)
    BY <2>3, <2>4, <2>6, <2>1 DEF InSync, ExecutedOnce
  <2>. QED
    BY <2>5, <2>6, <2>1
<1>8. InStep' /\ OwnUsed'
  BY <1>3, <1>4 DEF InSync, InStep, OwnUsed
<1>. QED
  BY <1>6, <1>7, <1>8 DEF InSync

\* Stopping the server keeps at most what was there.
LEMMA StopInSync == ASSUME Always, InSync, Stop PROVE InSync'
<1>1. /\ server' = "closed"
      /\ UNCHANGED <<program, ends, arrived, start, read, executed, used>>
  BY DEF Stop
<1>2. \A i \in 1 .. Len(socket') :
        /\ i \in 1 .. Len(socket) /\ socket'[i].of = socket[i].of
        /\ socket'[i].kind # "tail" => socket[i].kind # "tail"
        /\ socket'[i].kind \in {socket[i].kind, "part", "tail"}
  <2>1. Len(socket') \in Nat /\ Len(socket) \in Nat /\ Len(socket') <= Len(socket)
    BY StopType, Types DEF Always
  <2>. QED
    BY <2>1, StopType
<1>3. AnswerIsOwn'
  BY <1>1, <1>2 DEF InSync, AnswerIsOwn
<1>. QED
  BY <1>1, <1>3 DEF InSync, InStep, SentBytes, OwnUsed, ExecutedOnce

\* Every step keeps the invariant.
LEMMA NextInv == ASSUME Inv, [Next]_vars PROVE Inv'
<1>1. Always /\ (Fits' => Fits /\ InSync)
  BY FitsBefore DEF Inv
<1>2. ASSUME NEW length \in Lengths, Ask(length) PROVE Inv'
  BY <1>1, <1>2, AskAlways, AskInSync DEF Inv
<1>3. CASE Arrive \/ GetMsg \/ GetMsgRaises \/ Quit
  BY <1>1, <1>3, ProgramAlways, ArriveInSync, GetMsgInSync, GetMsgRaisesInSync, QuitInSync
     DEF Inv
<1>4. CASE Server \/ Stop
  <2>1. Always'
    BY <1>1, <1>4, StepsAlways
  <2>2. ASSUME Fits, InSync PROVE InSync'
    <3>1. CASE Recv \/ RecvEof \/ DecodeRequest \/ Stop
      BY <1>1, <2>2, <3>1, RecvInSync, RecvEofInSync, DecodeRequestInSync, StopInSync
    <3>2. CASE DecodeGarbled \/ DecodeRaises \/ FirstGarbled \/ FirstRaises
      <4>1. server = "decode" /\ (IsGarbled \/ Raises)
        BY <3>2 DEF DecodeGarbled, DecodeRaises, FirstGarbled, FirstRaises, Replies, Execute
      <4>. QED
        BY <1>1, <2>2, <4>1, DecodesLast
    <3>. QED
      BY <1>4, <3>1, <3>2 DEF Server
  <2>. QED
    BY <1>1, <2>1, <2>2 DEF Inv
<1>5. CASE UNCHANGED vars
  <2>1. Always'
    BY <1>1, <1>5 DEF vars, Always, TypeOK, Number, SentBytes, Positions, Behind, Begin
  <2>2. Fits' => InSync'
    BY <1>1, <1>5 DEF vars, InSync, InStep, Unserved, NothingToRead, AnswerIsOwn, OwnUsed,
       ExecutedOnce, SentBytes, Begin
  <2>. QED
    BY <2>1, <2>2 DEF Inv
<1>. QED
  BY <1>2, <1>3, <1>4, <1>5 DEF Next

-----------------------------------------------------------------------------

\* The server's pieces stay behind one another, and while the requests fit the
\* program and the server stay in step: MessageUServer.recv, getMsg.
THEOREM FramingInvariant == Spec => []Inv
<1>1. Inv /\ [Next]_vars => Inv'
  BY NextInv
<1>. QED
  BY <1>1, InitInv, PTL DEF Spec

\* Positions, sockets and history have their types (recv, getMsg).
THEOREM TypeCorrect == Spec => []TypeOK
BY FramingInvariant, PTL DEF Inv, Always

\* While the requests fit, no answer is used for another request than its own
\* (reciveRespHeader).
THEOREM UsedIsOwnAlways == Spec => []UsedIsOwn
<1>1. Inv => UsedIsOwn
  <2>1. Inv => DOMAIN used = 1 .. Len(used)
    BY Types DEF Inv, Always
  <2>. QED
    BY <2>1 DEF Inv, InSync, OwnUsed, UsedIsOwn
<1>. QED
  BY <1>1, FramingInvariant, PTL

\* Requests are executed in order, and once if they fit (MessageUClient.recv).
THEOREM ExecutedInOrderAlways == Spec => []ExecutedInOrder
<1>1. Inv => ExecutedInOrder
  <2>1. Inv => DOMAIN executed = 1 .. Len(executed)
    BY Types DEF Inv, Always
  <2>. QED
    BY <2>1 DEF Inv, Always, Behind, InSync, ExecutedOnce, ExecutedInOrder
<1>. QED
  BY <1>1, FramingInvariant, PTL

\* While the requests fit, recv never waits for bytes that do not come.
THEOREM NeverWaitsForMoreAlways == Spec => []NeverWaitsForMore
<1>1. Inv => NeverWaitsForMore
  <2>1. SUFFICES ASSUME Inv, Fits, WaitsForMore PROVE FALSE
    BY DEF NeverWaitsForMore
  <2>2. /\ server = "recv" /\ read = SentBytes /\ read \in Nat /\ start \in Nat
        /\ read # start
    BY <2>1, Types DEF WaitsForMore, Size, Inv, Always
  <2>3. Unserved
    BY <2>1, <2>2 DEF Inv, InSync, InStep
  <2>. QED
    BY <2>2, <2>3 DEF Unserved
<1>. QED
  BY <1>1, FramingInvariant, PTL

\* The lengths of the code's requests.  A header and the payload's header take 88
\* bytes (92 on a program of 64 bits) and a message is blocks of 16, so no request
\* is exactly one buffer, as Fits asks: sendMsg.
THEOREM RequestsNeverFillTheBuffer ==
  ASSUME NEW blocks \in Nat
  PROVE  \A headers \in {88, 92} : headers + 16 * blocks # 1024
OBVIOUS

=============================================================================

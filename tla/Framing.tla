------------------------------ MODULE Framing ------------------------------
(***************************************************************************)
(* One connection as a stream of bytes.  The server cuts what arrives into *)
(* pieces by the size of its buffer and takes each piece for a request;    *)
(* the client program cuts the answers at a marker.                        *)
(*                                                                         *)
(* A request is the bytes between two positions of the stream; its content *)
(* does not matter, only where it begins and ends.                         *)
(***************************************************************************)
EXTENDS Integers, Sequences

CONSTANTS
  BufferSize,   \* bytes that one recv() returns at most (1024 in the code)
  HeaderSize,   \* bytes of a request's header (44 in the code)
  Lengths,      \* lengths of requests, in bytes
  MaxRequests   \* bound: requests of the connection, if whole and if in pieces

ASSUME FramingAssumption ==
  /\ BufferSize \in Nat \ {0} /\ HeaderSize \in 1 .. BufferSize
  /\ Lengths \subseteq {n \in Nat : n >= HeaderSize}
  /\ MaxRequests \in [BOOLEAN -> Nat]

VARIABLES
  whole,     \* requests arrive at once, as on a loopback device
  program,   \* the client program: ready to ask, waiting, gone
  ends,      \* where each of its requests ends in the stream
  arrived,   \* bytes that are at the server
  server,    \* "recv", "decode", "closed", "dead" or, in recv for ever, "spins"
  start,     \* where the piece that is being read begins
  read,      \* where it ends so far
  request,   \* self.request: a number, None or Garbled
  socket,    \* what the program has not read of the answers
  executed,  \* history: requests that were executed
  used       \* history: answers that the program used, and what for

vars ==
  <<whole, program, ends, arrived, server, start, read, request, socket, executed, used>>

None    == 0
Garbled == -1

Begin(n)  == IF n = 1 THEN 0 ELSE ends[n - 1]
SentBytes == IF ends = <<>> THEN 0 ELSE ends[Len(ends)]

\* A stretch of the answers: an answer up to the marker; the rest of one whose
\* header is gone; bytes without a marker, as the NUL that follows it; the part
\* of an answer that was sent before the server ended.
Kind == {"answer", "rest", "tail", "part"}

Marked(unit) == unit.kind \in {"answer", "rest"}

\* What MessageUClient.send sends for request n, or Error.
Error     == 0
Packet(n) == <<[kind |-> "answer", of |-> n], [kind |-> "tail", of |-> n]>>

-----------------------------------------------------------------------------

Init ==
  /\ whole \in BOOLEAN
  /\ program = "ready"
  /\ ends = <<>>
  /\ arrived = 0
  /\ server = "recv"
  /\ start = 0 /\ read = 0
  /\ request = None
  /\ socket = <<>>
  /\ executed = <<>>
  /\ used = <<>>

(* The client program. *)

\* sendReq: header and payload are one write.
Ask(length) ==
  /\ program = "ready"
  /\ Len(ends) < MaxRequests[whole]
  /\ program' = "waiting"
  /\ ends' = Append(ends, SentBytes + length)
  /\ arrived' = IF whole THEN SentBytes + length ELSE arrived
  /\ UNCHANGED <<whole, server, start, read, request, socket, executed, used>>

\* Bytes arrive at the server.
Arrive ==
  /\ arrived' \in arrived + 1 .. SentBytes
  /\ UNCHANGED <<whole, program, ends, server, start, read, request, socket, executed, used>>

\* What a read that went on past the marker may leave of the rest s: read_until
\* takes in what the socket has, and the buffer is gone with the call.
Left(s) ==
  LET suffixes == {SubSeq(s, k, Len(s)) : k \in 1 .. Len(s) + 1} IN
    suffixes
    \cup {<<[t[1] EXCEPT !.kind = k]>> \o Tail(t) :
            k \in {"rest", "tail"}, t \in {u \in suffixes : u # <<>> /\ Marked(u[1])}}

\* checkCode: with bytes before it, or without its header, an answer has no
\* valid code.
Accepts(m) == m = 1 /\ socket[1].kind \in {"answer", "part"} /\ socket[1].of # Error

\* The program goes on with stretch m, or with none when the code is not valid.
Uses(m) ==
  /\ program' = "ready"
  /\ used' = IF Accepts(m) THEN Append(used, [for |-> Len(ends), of |-> socket[m].of])
             ELSE used
  /\ UNCHANGED <<whole, ends, arrived, server, start, read, request, executed>>

\* getMsg: read_until stops behind the first marker.
GetMsg ==
  /\ program = "waiting"
  /\ \E m \in DOMAIN socket :
       /\ Marked(socket[m])
       /\ \A k \in 1 .. m - 1 : ~Marked(socket[k])
       /\ Uses(m)
       /\ socket' \in Left(SubSeq(socket, m + 1, Len(socket)))

\* read_until raises at the end of the stream; what came is in the buffer, and
\* nobody looks at the zero that getMsg returns.
GetMsgRaises ==
  /\ program = "waiting"
  /\ server = "closed"
  /\ \A m \in DOMAIN socket : ~Marked(socket[m])
  /\ IF socket = <<>> THEN /\ program' = "ready"
                           /\ UNCHANGED <<whole, ends, arrived, server, start, read,
                                          request, executed, used>>
     ELSE Uses(1)
  /\ socket' = <<>>

\* The program ends; what is on its way still arrives.
Quit ==
  /\ program # "gone"
  /\ program' = "gone"
  /\ socket' = <<>>
  /\ UNCHANGED <<whole, ends, arrived, server, start, read, request, executed, used>>

-----------------------------------------------------------------------------
(* The server. *)

Size == read - start

\* Mutant: recv returns a full buffer, whatever has arrived.
ReceivedFull == BufferSize

\* Bytes that recv() returns.
Received == IF arrived - read > BufferSize THEN BufferSize ELSE arrived - read

\* Mutant: one recv() only.
GoesOnNever(n) == FALSE

\* Mutant: the last recv(), not what came so far, is compared with the buffer.
GoesOnLast(n) == n = BufferSize

\* recv goes on while it has exactly one buffer.
GoesOn(n) == Size + n = BufferSize

\* recv of MessageUServer and of MessageUClient: one round of the loop.
Recv ==
  /\ server = "recv"
  /\ read < arrived
  /\ read' = read + Received
  /\ server' = IF GoesOn(Received) THEN "recv" ELSE "decode"
  /\ UNCHANGED <<whole, program, ends, arrived, start, request, socket, executed, used>>

\* Mutant: what recv returns is decoded, also when it is nothing.
RecvEofDecoded ==
  /\ server = "recv"
  /\ program = "gone" /\ arrived = SentBytes /\ read = arrived
  /\ server' = IF Size = 0 THEN "decode" ELSE "spins"
  /\ UNCHANGED <<whole, program, ends, arrived, start, read, request, socket, executed, used>>

\* recv returns nothing.  With exactly one buffer read the loop never ends.
RecvEof ==
  /\ server = "recv"
  /\ program = "gone" /\ arrived = SentBytes /\ read = arrived
  /\ server' = IF Size = 0 THEN "closed" ELSE "spins"
  /\ UNCHANGED <<whole, program, ends, arrived, start, read, request, socket, executed, used>>

IsRequest(n) == start = Begin(n) /\ read = ends[n]

\* Mutant: the decoder reads a header that is longer than the client's.
RaisesLonger == Size < HeaderSize + 2

\* What the decoder makes of the piece.
Raises    == Size < HeaderSize
IsGarbled == ~Raises /\ \A n \in DOMAIN ends : ~IsRequest(n)

\* The piece is done with, and the program may read the answer.  If it is gone,
\* send may raise, and the thread ends.
Replies(n) ==
  /\ server = "decode"
  /\ server' = "recv" \/ (program = "gone" /\ server' = "dead")
  /\ start' = read
  /\ socket' = IF program = "gone" THEN socket ELSE socket \o Packet(n)
  /\ UNCHANGED <<whole, program, ends, arrived, read, used>>

Execute(n) ==
  /\ Replies(n)
  /\ request' = n
  /\ executed' = Append(executed, n)

DecodeRequest == \E n \in DOMAIN ends : IsRequest(n) /\ Execute(n)

DecodeGarbled ==
  /\ IsGarbled /\ start > 0
  /\ Replies(Error)
  /\ request' = Garbled
  /\ UNCHANGED executed

\* The first piece is answered by the main thread, which closes the connection.
\* If there is more that nobody read, the error may be lost with it.
FirstGarbled ==
  /\ server = "decode" /\ IsGarbled /\ start = 0
  /\ server' = "closed" \/ (program = "gone" /\ server' = "dead")
  /\ start' = read
  /\ \/ program # "gone" /\ socket' = socket \o Packet(Error)
     \/ (program = "gone" \/ read < arrived) /\ UNCHANGED socket
  /\ UNCHANGED <<whole, program, ends, arrived, read, request, executed, used>>

\* Mutant: the thread goes back to recv without an answer.
DecodeRaisesSilent ==
  /\ server = "decode" /\ Raises /\ request # None
  /\ server' = "recv"
  /\ start' = read
  /\ UNCHANGED <<whole, program, ends, arrived, read, request, socket, executed, used>>

\* The decoder raises, and the request of before is looked at again.
DecodeRaises ==
  /\ Raises
  /\ \/ request > 0 /\ Execute(request)
     \/ /\ request = Garbled
        /\ Replies(Error)
        /\ UNCHANGED <<whole, request, executed>>

\* On the first piece it raises in the main thread, which ends.
FirstRaises ==
  /\ server = "decode" /\ Raises /\ request = None
  /\ server' = "dead"
  /\ UNCHANGED <<whole, program, ends, arrived, start, read, request, socket, executed, used>>

\* The server is stopped.  The end of what it sent may be lost.
Stop ==
  /\ server # "closed"
  /\ server' = "closed"
  /\ \E k \in 0 .. Len(socket) :
       \/ socket' = SubSeq(socket, 1, k)
       \/ /\ k > 0
          /\ socket' = Append(SubSeq(socket, 1, k - 1),
                         IF socket[k].kind = "answer" THEN [socket[k] EXCEPT !.kind = "part"]
                         ELSE [socket[k] EXCEPT !.kind = "tail"])
  /\ UNCHANGED <<whole, program, ends, arrived, start, read, request, executed, used>>

-----------------------------------------------------------------------------

Server ==
  \/ Recv
  \/ RecvEof
  \/ DecodeRequest
  \/ DecodeGarbled
  \/ DecodeRaises
  \/ FirstGarbled
  \/ FirstRaises

Next ==
  \/ \E length \in Lengths : Ask(length)
  \/ Arrive
  \/ GetMsg
  \/ GetMsgRaises
  \/ Quit
  \/ Server
  \/ Stop

Spec == Init /\ [][Next]_vars

\* The network delivers, the server's threads run, and a program that waits reads.
\* Nobody has to ask, to quit or to stop the server.
FairSpec ==
  /\ Spec
  /\ WF_vars(Arrive)
  /\ WF_vars(Server)
  /\ WF_vars(GetMsg)
  /\ WF_vars(GetMsgRaises)

-----------------------------------------------------------------------------

Number == 0 .. MaxRequests[whole]

\* What the variables hold, and how the positions lie.
TypeOK ==
  /\ whole \in BOOLEAN
  /\ program \in {"ready", "waiting", "gone"}
  /\ ends \in Seq(Nat) /\ Len(ends) <= MaxRequests[whole]
  /\ arrived \in Nat /\ start \in Nat /\ read \in Nat
  /\ start <= read /\ read <= arrived /\ arrived <= SentBytes
  /\ server \in {"recv", "decode", "closed", "dead", "spins"}
  /\ request \in Number \cup {Garbled}
  /\ socket \in Seq([kind : Kind, of : Number])
  /\ executed \in Seq(Number)
  /\ used \in Seq([for : Number, of : Number])

\* Every request so far arrives at once, and two recv() bring all of it.
Fits ==
  whole /\ \A n \in DOMAIN ends :
             /\ ends[n] - Begin(n) <= 2 * BufferSize
             /\ ends[n] - Begin(n) # BufferSize

\* An answer that the program uses is the answer to the request it waits for,
\* although nothing in an answer says so, a NUL of the answer before may still be
\* in the socket, and the server may stop in the middle of an answer
\* (reciveRespHeader, getMsg).
UsedIsOwn == Fits => \A i \in DOMAIN used : used[i].for = used[i].of

\* The requests are executed in order, however the server cuts the stream; at most
\* once each, if they fit (recv, DecodeReq).
ExecutedInOrder ==
  \A i, j \in DOMAIN executed :
    i < j => executed[i] <= executed[j] /\ (Fits => executed[i] # executed[j])

\* The server waits for more when it has read all there is.
WaitsForMore == server = "recv" /\ Size > 0 /\ read = SentBytes

\* The server never waits for more than a request has: each is one piece (recv).
NeverWaitsForMore == Fits => ~WaitsForMore

\* A program that waits gets an answer or finds the connection closed, in whatever
\* pieces its requests arrive, unless the last piece is exactly one buffer or the
\* first one made the main thread raise.
Answered ==
  program = "waiting" ~>
    program # "waiting" \/ server = "dead" \/ (WaitsForMore /\ Size = BufferSize)

\* The thread of a program that is gone ends, unless the last piece it reads is
\* exactly one buffer.
ThreadEnds ==
  program = "gone" ~> server \in {"closed", "dead"} \/ (server = "spins" /\ Size = BufferSize)

=============================================================================

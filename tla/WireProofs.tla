----------------------------- MODULE WireProofs ----------------------------
(***************************************************************************)
(* Proofs about Wire, for names, keys and contents of every length, every  *)
(* size of the fields and any number of clients and messages:              *)
(*  - lemmas about the operators: texts and bytes, fields of a structure,  *)
(*    structures one behind the other, rows of a table;                    *)
(*  - the inductive invariant WireInv, which says for every place a text   *)
(*    can be in (the database, a request, an answer, the screen) which of  *)
(*    the things that users entered it stands for, and in which form; the  *)
(*    database has a content as text, or as a number when its hexadecimal  *)
(*    form looks like one, and then its reader gets no answer;             *)
(*  - one lemma for each action, and from them the properties that the     *)
(*    runs check.                                                          *)
(***************************************************************************)
EXTENDS Wire, FiniteSetTheorems, SequenceTheorems, TLAPS

-----------------------------------------------------------------------------
(* Conversions. *)

\* An array of n elements is a sequence of that length.
LEMMA ArrayIsSeq ==
  ASSUME NEW S, NEW n \in Nat, NEW f \in [1 .. n -> S]
  PROVE  f \in Seq(S) /\ Len(f) = n
<1>1. f \in Seq(S)
  BY SeqDef
<1>. QED
  BY <1>1, LenProperties

\* The text that the database keeps for bytes, and back: every byte is there again.
LEMMA HexRoundTrip ==
  ASSUME NEW b \in Seq(0 .. 255)
  PROVE  /\ HexText(b) \in Seq(Nat)
         /\ Len(HexText(b)) = 2 * Len(b)
         /\ FromHex(HexText(b), Len(b)) = b
<1>. DEFINE n == Len(b)
<1>1. n \in Nat /\ b \in [1 .. n -> 0 .. 255] /\ DOMAIN b = 1 .. n
  <2>. DEFINE S == 0 .. 255
  <2>1. b \in Seq(S)
    OBVIOUS
  <2>. HIDE DEF S, n
  <2>2. Len(b) \in Nat /\ b \in [1 .. Len(b) -> S] /\ DOMAIN b = 1 .. Len(b)
    BY <2>1, LenProperties
  <2>. QED
    BY <2>2 DEF S, n
<1>2. \A v \in 0 .. 15 : Digit(v) \in Nat /\ Value(Digit(v)) = v
  BY DEF Digit, Value
<1>3. \A i \in 1 .. n : b[i] \in 0 .. 255
  BY <1>1
<1>4. \A v \in 0 .. 255 : /\ v \div 16 \in 0 .. 15 /\ v % 16 \in 0 .. 15
                          /\ (16 * (v \div 16) + (v % 16)) % 256 = v
  OBVIOUS
<1>5. ASSUME NEW j \in 1 .. 2 * n
      PROVE  HexText(b)[j] \in Nat
  <2>1. CASE j % 2 = 1
    <3>1. (j + 1) \div 2 \in 1 .. n
      BY <1>1, <2>1
    <3>2. HexText(b)[j] = Digit(b[(j + 1) \div 2] \div 16)
      BY <2>1 DEF HexText
    <3>3. b[(j + 1) \div 2] \div 16 \in 0 .. 15
      <4>1. b[(j + 1) \div 2] \in 0 .. 255
        BY <1>3, <3>1
      <4>. QED
        BY <1>4, <4>1, Zenon
    <3>. QED
      BY <1>2, <3>2, <3>3
  <2>2. CASE j % 2 # 1
    <3>1. j \div 2 \in 1 .. n
      BY <1>1, <2>2
    <3>2. HexText(b)[j] = Digit(b[j \div 2] % 16)
      BY <2>2 DEF HexText
    <3>3. b[j \div 2] % 16 \in 0 .. 15
      <4>1. PICK v \in 0 .. 255 : v = b[j \div 2]
        BY <1>3, <3>1
      <4>2. v % 16 \in 0 .. 15
        OBVIOUS
      <4>. QED
        BY <4>1, <4>2
    <3>. QED
      BY <1>2, <3>2, <3>3
  <2>. QED
    BY <2>1, <2>2
<1>6. HexText(b) \in [1 .. 2 * n -> Nat]
  BY <1>1, <1>5 DEF HexText
<1>7. ASSUME NEW i \in 1 .. n
      PROVE  FromHex(HexText(b), n)[i] = b[i]
  <2>1. /\ 2 * i - 1 \in 1 .. 2 * n /\ (2 * i - 1) % 2 = 1 /\ (2 * i - 1 + 1) \div 2 = i
        /\ 2 * i \in 1 .. 2 * n /\ (2 * i) % 2 = 0 /\ (2 * i) \div 2 = i
    BY <1>1
  <2>2. HexText(b)[2 * i - 1] = Digit(b[i] \div 16) /\ HexText(b)[2 * i] = Digit(b[i] % 16)
    BY <2>1 DEF HexText
  <2>3. FromHex(HexText(b), n)[i]
          = (16 * Value(HexText(b)[2 * i - 1]) + Value(HexText(b)[2 * i])) % 256
    BY DEF FromHex
  <2>4. b[i] \div 16 \in 0 .. 15 /\ b[i] % 16 \in 0 .. 15
    <3>1. PICK v \in 0 .. 255 : v = b[i]
      BY <1>3
    <3>2. v \div 16 \in 0 .. 15 /\ v % 16 \in 0 .. 15
      OBVIOUS
    <3>. QED
      BY <3>1, <3>2
  <2>5. FromHex(HexText(b), n)[i] = (16 * (b[i] \div 16) + (b[i] % 16)) % 256
    <3>1. /\ Value(HexText(b)[2 * i - 1]) = b[i] \div 16
          /\ Value(HexText(b)[2 * i]) = b[i] % 16
      BY <1>2, <2>2, <2>4
    <3>. QED
      BY <2>3, <3>1
  <2>. QED
    BY <1>3, <1>4, <2>5
<1>8. FromHex(HexText(b), n) = b
  <2>1. FromHex(HexText(b), n) = [i \in 1 .. n |-> FromHex(HexText(b), n)[i]]
    BY DEF FromHex
  <2>. QED
    BY <1>1, <1>7, <2>1
<1>. QED
  <2>1. 2 * n \in Nat
    BY <1>1
  <2>. QED
    BY <1>6, <1>8, <2>1, ArrayIsSeq

\* The least element of a set of natural numbers.
LEMMA LeastNumber ==
  ASSUME NEW T \in SUBSET Nat, T # {}
  PROVE  \E p \in T : \A q \in T : p <= q
<1>. DEFINE Upto == {0 .. p : p \in T}
<1>1. \A p \in T : IsFiniteSet(0 .. p) /\ 0 .. p \subseteq Nat
  BY FS_Interval
<1>2. Upto \subseteq FiniteSubsetsOf(Nat) /\ Upto # {}
  BY <1>1 DEF FiniteSubsetsOf
<1>3. PICK x \in Upto : \A y \in Upto : <<y, x>> \notin StrictSubsetOrdering(Nat)
  BY <1>2, FS_StrictSubsetOrderingWellFounded, WFMin
<1>4. PICK p \in T : x = 0 .. p
  OBVIOUS
<1>5. ASSUME NEW q \in T, q < p
      PROVE  FALSE
  <2>1. 0 .. q \in Upto /\ 0 .. q \in SUBSET Nat /\ x \in SUBSET Nat
    BY <1>1, <1>4
  <2>2. 0 .. q \subseteq x /\ x # 0 .. q
    BY <1>4, <1>5
  <2>. QED
    BY <1>3, <2>1, <2>2 DEF StrictSubsetOrdering
<1>. QED
  BY <1>4, <1>5

\* A name that was padded with NULs to the size of its field is itself again
\* when they are stripped.
LEMMA StripPadded ==
  ASSUME NEW s \in Seq(1 .. 127), NEW size \in Nat, Len(s) <= size
  PROVE  /\ Padded(s, size) \in Seq(0 .. 255)
         /\ Len(Padded(s, size)) = size
         /\ Strip(Padded(s, size)) = s
<1>. DEFINE p == Padded(s, size)
            chars == {k \in DOMAIN p : p[k] # 0}
<1>1. Len(s) \in Nat /\ DOMAIN s = 1 .. Len(s) /\ \A k \in 1 .. Len(s) : s[k] \in 1 .. 127
  BY LenProperties
<1>2. p \in [1 .. size -> 0 .. 255]
  BY <1>1 DEF Padded
<1>3. p \in Seq(0 .. 255) /\ Len(p) = size
  BY <1>2, ArrayIsSeq
<1>4. /\ \A k \in 1 .. Len(s) : p[k] = s[k]
      /\ \A k \in 1 .. size : k > Len(s) => p[k] = 0
      /\ DOMAIN p = 1 .. size
  BY <1>1 DEF Padded
<1>5. Strip(p) = IF chars = {} THEN <<>> ELSE SubSeq(p, Min(chars), Max(chars))
  BY DEF Strip
<1>. HIDE DEF p
<1>8. chars = 1 .. Len(s)
  <2>1. ASSUME NEW k \in chars
        PROVE  k \in 1 .. Len(s)
    BY <1>1, <1>4
  <2>2. ASSUME NEW k \in 1 .. Len(s)
        PROVE  k \in chars
    <3>1. k \in 1 .. size
      BY <1>1
    <3>2. p[k] = s[k] /\ s[k] \in 1 .. 127 /\ k \in DOMAIN p
      BY <1>1, <1>4, <3>1
    <3>3. \A x \in 1 .. 127 : x # 0
      OBVIOUS
    <3>4. p[k] # 0
      BY <3>2, <3>3, Zenon
    <3>. QED
      BY <3>2, <3>4
  <2>. QED
    BY <2>1, <2>2
<1>. HIDE DEF chars
<1>6. CASE Len(s) = 0
  <2>1. s = <<>> /\ chars = {}
    BY <1>1, <1>6, <1>8, EmptySeq
  <2>2. Strip(p) = s
    BY <1>5, <2>1
  <2>. QED
    BY <1>3, <2>2 DEF p
<1>7. CASE Len(s) # 0
  <2>1. Min(1 .. Len(s)) = 1 /\ Max(1 .. Len(s)) = Len(s)
    <3>1. 1 \in 1 .. Len(s) /\ \A y \in 1 .. Len(s) : 1 <= y
      BY <1>1, <1>7
    <3>2. Len(s) \in 1 .. Len(s) /\ \A y \in 1 .. Len(s) : Len(s) >= y
      BY <1>1, <1>7
    <3>3. Min(1 .. Len(s)) \in 1 .. Len(s) /\ \A y \in 1 .. Len(s) : Min(1 .. Len(s)) <= y
      BY <3>1, Zenon DEF Min
    <3>4. Max(1 .. Len(s)) \in 1 .. Len(s) /\ \A y \in 1 .. Len(s) : Max(1 .. Len(s)) >= y
      BY <3>2, Zenon DEF Max
    <3>. HIDE DEF Min, Max
    <3>. QED
      BY <1>1, <3>1, <3>2, <3>3, <3>4
  <2>2. Strip(p) = SubSeq(p, 1, Len(s))
    BY <1>1, <1>5, <1>7, <1>8, <2>1
  <2>3. \A k \in 1 .. Len(s) : p[k] \in 1 .. 127
    BY <1>1, <1>4
  <2>4. /\ SubSeq(p, 1, Len(s)) \in Seq(1 .. 127)
        /\ Len(SubSeq(p, 1, Len(s))) = Len(s)
        /\ \A k \in 1 .. Len(s) : SubSeq(p, 1, Len(s))[k] = p[k]
    <3>. HIDE DEF p
    <3>1. \A m \in Nat \ {0} : \A k \in 1 .. m - 1 + 1 : 1 + k - 1 = k /\ k \in 1 .. m
      OBVIOUS
    <3>. QED
      BY <1>1, <1>7, <2>3, SubSeqProperties
  <2>. QED
    <3>1. \A k \in 1 .. Len(s) : SubSeq(p, 1, Len(s))[k] = s[k]
      BY <1>4, <2>4
    <3>. QED
      <4>1. Strip(p) = s
        BY <2>2, <2>4, <3>1, SeqEqual
      <4>. QED
        BY <1>3, <4>1 DEF p
<1>. QED
  BY <1>1, <1>6, <1>7

-----------------------------------------------------------------------------
(* Fields of structures. *)

\* Who finds a sequence from some place of an array on reads it there as a field.
LEMMA FieldIs ==
  ASSUME NEW b, NEW f \in Seq(Nat), NEW k \in Nat,
         \A j \in 1 .. Len(f) : b[k + j - 1] = f[j]
  PROVE  Field(b, k, Len(f)) = f
<1>. DEFINE n == Len(f)
            m == k + n - 1
<1>1. n \in Nat /\ m \in Int /\ \A j \in 1 .. n : f[j] \in Nat
  BY LenProperties
<1>2. \A i \in k .. m : i - k + 1 \in 1 .. n /\ k + (i - k + 1) - 1 = i
  BY <1>1
<1>3. \A i \in k .. m : b[i] \in Nat
  BY <1>1, <1>2
<1>4. /\ SubSeq(b, k, m) \in Seq(Nat)
      /\ Len(SubSeq(b, k, m)) = IF k <= m THEN m - k + 1 ELSE 0
      /\ \A i \in 1 .. m - k + 1 : SubSeq(b, k, m)[i] = b[k + i - 1]
  BY <1>1, <1>3, SubSeqProperties
<1>5. Len(SubSeq(b, k, m)) = n /\ m - k + 1 = n
  BY <1>1, <1>4
<1>6. SubSeq(b, k, m) = f
  BY <1>1, <1>4, <1>5, SeqEqual
<1>. QED
  BY <1>6 DEF Field

\* Where the elements of two sequences are in their concatenation.
LEMMA Concatenation ==
  ASSUME NEW S, NEW s \in Seq(S), NEW t \in Seq(S)
  PROVE  /\ s \o t \in Seq(S)
         /\ Len(s \o t) = Len(s) + Len(t)
         /\ \A k \in 1 .. Len(s) : (s \o t)[k] = s[k]
         /\ \A k \in 1 .. Len(t) : (s \o t)[Len(s) + k] = t[k]
<1>1. Len(s) \in Nat /\ Len(t) \in Nat
  BY LenProperties
<1>2. /\ s \o t \in Seq(S)
      /\ Len(s \o t) = Len(s) + Len(t)
      /\ \A i \in 1 .. Len(s) + Len(t) :
           (s \o t)[i] = IF i <= Len(s) THEN s[i] ELSE t[i - Len(s)]
  BY ConcatProperties
<1>3. ASSUME NEW k \in 1 .. Len(s)
      PROVE  (s \o t)[k] = s[k]
  <2>1. k \in 1 .. Len(s) + Len(t) /\ k <= Len(s)
    BY <1>1
  <2>. QED
    BY <1>2, <2>1
<1>4. ASSUME NEW k \in 1 .. Len(t)
      PROVE  (s \o t)[Len(s) + k] = t[k]
  <2>1. Len(s) + k \in 1 .. Len(s) + Len(t) /\ ~(Len(s) + k <= Len(s)) /\ (Len(s) + k) - Len(s) = k
    BY <1>1
  <2>2. (s \o t)[Len(s) + k] = t[(Len(s) + k) - Len(s)]
    BY <1>2, <2>1
  <2>. QED
    BY <2>1, <2>2
<1>. QED
  BY <1>2, <1>3, <1>4

\* What is where in an array put together from three.
LEMMA ThreeParts ==
  ASSUME NEW s \in Seq(Nat), NEW t \in Seq(Nat), NEW u \in Seq(Nat)
  PROVE  /\ s \o t \o u \in Seq(Nat)
         /\ Len(s \o t \o u) = Len(s) + Len(t) + Len(u)
         /\ \A k \in 1 .. Len(s) : (s \o t \o u)[k] = s[k]
         /\ \A k \in 1 .. Len(t) : (s \o t \o u)[Len(s) + k] = t[k]
         /\ \A k \in 1 .. Len(u) : (s \o t \o u)[Len(s) + Len(t) + k] = u[k]
<1>. DEFINE a == s \o t
            b == a \o u
<1>1. Len(s) \in Nat /\ Len(t) \in Nat /\ Len(u) \in Nat
  BY LenProperties
<1>2. /\ a \in Seq(Nat)
      /\ Len(a) = Len(s) + Len(t)
      /\ \A k \in 1 .. Len(s) : a[k] = s[k]
      /\ \A k \in 1 .. Len(t) : a[Len(s) + k] = t[k]
  BY Concatenation
<1>8. a \in Seq(Nat)
  BY <1>2
<1>. HIDE DEF a
<1>3. /\ b \in Seq(Nat)
      /\ Len(b) = Len(a) + Len(u)
      /\ \A k \in 1 .. Len(a) : b[k] = a[k]
      /\ \A k \in 1 .. Len(u) : b[Len(a) + k] = u[k]
  BY <1>8, Concatenation
<1>. HIDE DEF b
<1>4. \A k \in 1 .. Len(s) : b[k] = s[k]
  <2>1. \A k \in 1 .. Len(s) : k \in 1 .. Len(a)
    BY <1>1, <1>2
  <2>. QED
    BY <1>2, <1>3, <2>1
<1>5. \A k \in 1 .. Len(t) : b[Len(s) + k] = t[k]
  <2>1. \A k \in 1 .. Len(t) : Len(s) + k \in 1 .. Len(a)
    BY <1>1, <1>2
  <2>. QED
    BY <1>2, <1>3, <2>1
<1>6. /\ Len(b) = Len(s) + Len(t) + Len(u)
      /\ \A k \in 1 .. Len(u) : b[Len(s) + Len(t) + k] = u[k]
  BY <1>2, <1>3
<1>7. b = s \o t \o u
  BY DEF a, b
<1>. QED
  BY <1>3, <1>4, <1>5, <1>6, <1>7

\* Identifiers of clients are arrays of ID_SIZE bytes, each of its own.
LEMMA ClientIdIsArray ==
  ASSUME NEW i \in Nat
  PROVE  /\ ClientId(i) \in [1 .. IdSize -> Nat]
         /\ ClientId(i) \in Seq(Nat) /\ Len(ClientId(i)) = IdSize
<1>1. IdSize \in Nat /\ ClientId(i) \in [1 .. IdSize -> Nat]
  BY WireAssumption DEF ClientId
<1>. QED
  BY <1>1, ArrayIsSeq

\* The identifier of a request for a registration has the width of an identifier.
LEMMA NoIdIsArray ==
  NoId \in [1 .. IdSize -> Nat] /\ NoId \in Seq(Nat) /\ Len(NoId) = IdSize
<1>1. IdSize \in Nat /\ NoId \in [1 .. IdSize -> Nat]
  BY WireAssumption DEF NoId
<1>. QED
  BY <1>1, ArrayIsSeq

\* Different clients have different identifiers.
LEMMA ClientIdsDiffer ==
  ASSUME NEW i \in Nat, NEW j \in Nat, ClientId(i) = ClientId(j)
  PROVE  i = j
<1>1. 1 \in 1 .. IdSize
  BY WireAssumption
<1>2. ClientId(i)[1] = 48 + i /\ ClientId(j)[1] = 48 + j
  BY <1>1 DEF ClientId
<1>. QED
  BY <1>2

\* What the server reads of a request is what the program wrote into it.
LEMMA RequestFields ==
  ASSUME NEW id \in [1 .. IdSize -> Nat], NEW c \in Nat, NEW payload \in Seq(Nat)
  PROVE  LET b == ReqMessage(id, c, payload) IN
         /\ b \in Seq(Nat)
         /\ Len(b) = HeaderSize + Len(payload)
         /\ Code(b) = c
         /\ SizeIsGood(b)
         /\ FromId(b) = id
         /\ \A k \in 1 .. Len(payload) : b[HeaderSize + k] = payload[k]
<1>. DEFINE h == <<2, c, Len(payload)>>
            b == id \o h \o payload
<1>1. IdSize \in Nat /\ Len(payload) \in Nat
  BY WireAssumption, LenProperties
<1>11. id \in Seq(Nat)
  BY <1>1, ArrayIsSeq
<1>12. Len(id) = IdSize
  BY <1>1, ArrayIsSeq
<1>2. h \in Seq(Nat) /\ Len(h) = 3 /\ h[2] = c /\ h[3] = Len(payload)
  BY <1>1
<1>3. b = ReqMessage(id, c, payload)
  BY DEF ReqMessage
<1>. HIDE DEF h
<1>4. /\ b \in Seq(Nat)
      /\ Len(b) = Len(id) + Len(h) + Len(payload)
      /\ \A k \in 1 .. Len(id) : b[k] = id[k]
      /\ \A k \in 1 .. Len(h) : b[Len(id) + k] = h[k]
      /\ \A k \in 1 .. Len(payload) : b[Len(id) + Len(h) + k] = payload[k]
  <2>1. h \in Seq(Nat)
    BY <1>2
  <2>. QED
    BY <1>11, <2>1, ThreeParts
<1>. HIDE DEF b
<1>5. Len(id) + Len(h) = HeaderSize
  BY <1>1, <1>2, <1>12 DEF HeaderSize
<1>6. /\ Len(b) = HeaderSize + Len(payload)
      /\ \A k \in 1 .. Len(payload) : b[HeaderSize + k] = payload[k]
  BY <1>4, <1>5
<1>7. b[IdSize + 2] = c /\ b[IdSize + 3] = Len(payload)
  <2>1. 2 \in 1 .. Len(h) /\ 3 \in 1 .. Len(h)
    BY <1>2
  <2>. QED
    BY <1>2, <1>4, <1>12, <2>1
<1>8. \A k \in 1 .. IdSize : b[k] = id[k]
  BY <1>4, <1>12
<1>9. FromId(b) = id
  <2>1. \A j \in 1 .. Len(id) : b[1 + j - 1] = id[j]
    BY <1>1, <1>8, <1>12
  <2>2. Field(b, 1, Len(id)) = id
    BY <1>11, <2>1, FieldIs
  <2>. QED
    BY <1>12, <2>2 DEF FromId
<1>. QED
  BY <1>3, <1>4, <1>6, <1>7, <1>9 DEF Code, SizeIsGood

\* The identifier in a request for a key.
LEMMA RequestForKey ==
  ASSUME NEW u \in Nat, NEW v \in Nat
  PROVE  LET b == ReqMessage(ClientId(u), PUBLIC_KEY, ClientId(v)) IN PayloadId(b) = ClientId(v)
<1>. DEFINE b == ReqMessage(ClientId(u), PUBLIC_KEY, ClientId(v))
<1>1. \A k \in 1 .. Len(ClientId(v)) : b[HeaderSize + k] = ClientId(v)[k]
  <2>1. PUBLIC_KEY \in Nat
    BY DEF PUBLIC_KEY
  <2>. QED
    BY <2>1, ClientIdIsArray, RequestFields
<1>. HIDE DEF b
<1>2. HeaderSize + 1 \in Nat /\ Len(ClientId(v)) = IdSize /\ ClientId(v) \in Seq(Nat)
  BY WireAssumption, ClientIdIsArray DEF HeaderSize
<1>3. \A j \in 1 .. Len(ClientId(v)) : b[HeaderSize + 1 + j - 1] = ClientId(v)[j]
  <2>1. \A j \in 1 .. Len(ClientId(v)) : HeaderSize + 1 + j - 1 = HeaderSize + j
    BY <1>2, WireAssumption DEF HeaderSize
  <2>. QED
    BY <1>1, <2>1
<1>4. Field(b, HeaderSize + 1, Len(ClientId(v))) = ClientId(v)
  BY <1>2, <1>3, FieldIs
<1>. QED
  BY <1>2, <1>4 DEF PayloadId, b

\* The name and the key in a request for registration.
LEMMA RequestForRegistration ==
  ASSUME NEW name \in Name, NEW key \in PublicKey
  PROVE  LET b == ReqMessage(NoId, REGISTRATION, Padded(name, NameSize) \o key) IN
         /\ Code(b) = REGISTRATION
         /\ Strip(NameOf(b)) = name
         /\ PublicKeyOf(b) = key
<1>. DEFINE p == Padded(name, NameSize)
            q == p \o key
            b == ReqMessage(NoId, REGISTRATION, q)
<1>1. /\ NameSize \in Nat /\ KeySize \in Nat /\ IdSize \in Nat
      /\ name \in Seq(1 .. 127) /\ Len(name) <= NameSize
      /\ key \in [1 .. KeySize -> 0 .. 255]
  BY WireAssumption
<1>2. p \in Seq(0 .. 255) /\ Len(p) = NameSize /\ Strip(p) = name
  BY <1>1, StripPadded
<1>3. key \in Seq(0 .. 255) /\ Len(key) = KeySize
  BY <1>1, ArrayIsSeq
<1>4. p \in Seq(Nat) /\ key \in Seq(Nat)
  <2>1. 0 .. 255 \subseteq Nat
    OBVIOUS
  <2>. QED
    BY <1>2, <1>3, <2>1, SeqMonotonic
<1>. HIDE DEF p
<1>5. /\ q \in Seq(Nat) /\ Len(q) = NameSize + KeySize
      /\ \A k \in 1 .. NameSize : q[k] = p[k]
      /\ \A k \in 1 .. KeySize : q[NameSize + k] = key[k]
  <2>1. /\ q \in Seq(Nat) /\ Len(q) = Len(p) + Len(key)
        /\ \A k \in 1 .. Len(p) : q[k] = p[k]
        /\ \A k \in 1 .. Len(key) : q[Len(p) + k] = key[k]
    BY <1>4, Concatenation
  <2>. QED
    BY <1>2, <1>3, <2>1
<1>. HIDE DEF q
<1>6. /\ Code(b) = REGISTRATION
      /\ \A k \in 1 .. NameSize + KeySize : b[HeaderSize + k] = q[k]
  <2>1. REGISTRATION \in Nat
    BY DEF REGISTRATION
  <2>2. NoId \in [1 .. IdSize -> Nat]
    BY NoIdIsArray
  <2>3. Code(b) = REGISTRATION /\ \A k \in 1 .. Len(q) : b[HeaderSize + k] = q[k]
    BY <1>5, <2>1, <2>2, RequestFields
  <2>. QED
    BY <1>5, <2>3
<1>. HIDE DEF b
<1>7. HeaderSize \in Nat
  BY <1>1 DEF HeaderSize
<1>8. ASSUME NEW j \in 1 .. Len(p)
      PROVE  b[HeaderSize + 1 + j - 1] = p[j]
  <2>1. /\ HeaderSize + 1 + j - 1 = HeaderSize + j
        /\ j \in 1 .. NameSize + KeySize /\ j \in 1 .. NameSize
    BY <1>1, <1>2, <1>7
  <2>. QED
    BY <1>5, <1>6, <2>1
<1>9. ASSUME NEW j \in 1 .. Len(key)
      PROVE  b[HeaderSize + NameSize + 1 + j - 1] = key[j]
  <2>1. /\ HeaderSize + NameSize + 1 + j - 1 = HeaderSize + (NameSize + j)
        /\ NameSize + j \in 1 .. NameSize + KeySize /\ j \in 1 .. KeySize
    BY <1>1, <1>3, <1>7
  <2>. QED
    BY <1>5, <1>6, <2>1
<1>10. HeaderSize + 1 \in Nat /\ HeaderSize + NameSize + 1 \in Nat
  BY <1>1, <1>7
<1>11. NameOf(b) = p
  BY <1>2, <1>4, <1>8, <1>10, FieldIs DEF NameOf
<1>12. PublicKeyOf(b) = key
  BY <1>3, <1>4, <1>9, <1>10, FieldIs DEF PublicKeyOf
<1>. QED
  BY <1>2, <1>6, <1>11, <1>12 DEF b, q, p

-----------------------------------------------------------------------------
(* Sequences of sequences. *)

\* flat is the first n of seqs, one behind the other; pos[k] elements are before
\* the k-th of them.
Cut(pos, seqs, n, flat) ==
  /\ pos \in [1 .. n + 1 -> 0 .. Len(flat)]
  /\ pos[1] = 0 /\ pos[n + 1] = Len(flat)
  /\ \A k \in 1 .. n :
       /\ Len(seqs[k]) \in Nat /\ pos[k + 1] = pos[k] + Len(seqs[k])
       /\ \A j \in 1 .. Len(seqs[k]) : flat[pos[k] + j] = seqs[k][j]

\* One more at the end.
LEMMA CutAppend ==
  ASSUME NEW seqs, NEW n \in Nat, NEW flat \in Seq(Nat), NEW pos,
         Cut(pos, seqs, n, flat), seqs[n + 1] \in Seq(Nat)
  PROVE  \E p : Cut(p, seqs, n + 1, flat \o seqs[n + 1])
<1>. DEFINE s == seqs[n + 1]
            g == flat \o s
            p == [k \in 1 .. n + 2 |-> IF k <= n + 1 THEN pos[k] ELSE Len(g)]
<1>1. s \in Seq(Nat)
  OBVIOUS
<1>. HIDE DEF s
<1>2. /\ Len(g) = Len(flat) + Len(s)
      /\ \A k \in 1 .. Len(flat) : g[k] = flat[k]
      /\ \A k \in 1 .. Len(s) : g[Len(flat) + k] = s[k]
  BY <1>1, Concatenation
<1>3. Len(flat) \in Nat /\ Len(s) \in Nat
  BY <1>1, LenProperties
<1>. HIDE DEF g
<1>4. /\ pos \in [1 .. n + 1 -> 0 .. Len(flat)]
      /\ pos[1] = 0 /\ pos[n + 1] = Len(flat)
      /\ \A k \in 1 .. n : /\ Len(seqs[k]) \in Nat /\ pos[k + 1] = pos[k] + Len(seqs[k])
                           /\ \A j \in 1 .. Len(seqs[k]) : flat[pos[k] + j] = seqs[k][j]
  BY DEF Cut
<1>5. /\ \A k \in 1 .. n + 1 : p[k] = pos[k]
      /\ p[n + 2] = Len(g)
  OBVIOUS
<1>6. p \in [1 .. n + 2 -> 0 .. Len(g)]
  <2>1. \A k \in 1 .. n + 1 : pos[k] \in 0 .. Len(g)
    BY <1>2, <1>3, <1>4
  <2>2. Len(g) \in 0 .. Len(g)
    BY <1>2, <1>3
  <2>. QED
    BY <2>1, <2>2
<1>. HIDE DEF p
<1>7. ASSUME NEW k \in 1 .. n
      PROVE  /\ Len(seqs[k]) \in Nat /\ p[k + 1] = p[k] + Len(seqs[k])
             /\ \A j \in 1 .. Len(seqs[k]) : g[p[k] + j] = seqs[k][j]
  <2>1. k \in 1 .. n + 1 /\ k + 1 \in 1 .. n + 1
    OBVIOUS
  <2>2. p[k] = pos[k] /\ p[k + 1] = pos[k + 1]
    BY <1>5, <2>1
  <2>3. pos[k] \in Nat /\ pos[k + 1] \in 0 .. Len(flat)
    BY <1>3, <1>4, <2>1
  <2>4. Len(seqs[k]) \in Nat /\ pos[k + 1] = pos[k] + Len(seqs[k])
    BY <1>4
  <2>5. \A j \in 1 .. Len(seqs[k]) : pos[k] + j \in 1 .. Len(flat)
    <3>1. \A a, l, m \in Nat : a + l \in 0 .. m => \A j \in 1 .. l : a + j \in 1 .. m
      OBVIOUS
    <3>2. pos[k] + Len(seqs[k]) \in 0 .. Len(flat)
      BY <2>3, <2>4
    <3>. QED
      BY <1>3, <2>3, <2>4, <3>1, <3>2
  <2>6. \A j \in 1 .. Len(seqs[k]) : g[pos[k] + j] = seqs[k][j]
    <3>1. \A j \in 1 .. Len(seqs[k]) : flat[pos[k] + j] = seqs[k][j]
      BY <1>4
    <3>2. \A i \in 1 .. Len(flat) : g[i] = flat[i]
      BY <1>2
    <3>. QED
      BY <2>5, <3>1, <3>2
  <2>. QED
    BY <2>2, <2>4, <2>6
<1>8. /\ Len(seqs[n + 1]) \in Nat /\ p[n + 1 + 1] = p[n + 1] + Len(seqs[n + 1])
      /\ \A j \in 1 .. Len(seqs[n + 1]) : g[p[n + 1] + j] = seqs[n + 1][j]
  <2>1. p[n + 1] = Len(flat) /\ p[n + 2] = Len(g) /\ n + 1 + 1 = n + 2
    BY <1>4, <1>5
  <2>. QED
    BY <1>2, <1>3, <2>1 DEF s
<1>9. p[1] = 0 /\ n + 1 + 1 = n + 2
  BY <1>4, <1>5
<1>10. \A k \in 1 .. n + 1 : k \in 1 .. n \/ k = n + 1
  OBVIOUS
<1>11. Cut(p, seqs, n + 1, g)
  BY <1>5, <1>6, <1>7, <1>8, <1>9, <1>10 DEF Cut
<1>. QED
  BY <1>11 DEF g, s

\* FlattenSeq is defined by recursion; the function that it means exists.
LEMMA FlattenExists ==
  ASSUME NEW seqs, NEW n \in Nat
  PROVE  \E f : f = [i \in 1 .. n |-> IF i = 1 THEN seqs[i] ELSE f[i - 1] \o seqs[i]]
<1>. DEFINE Is(f, m) == f = [i \in 1 .. m |-> IF i = 1 THEN seqs[i] ELSE f[i - 1] \o seqs[i]]
            T == {m \in Nat : ~ \E f : Is(f, m)}
<1>1. SUFFICES ASSUME T # {}
               PROVE  FALSE
  BY Zenon
<1>2. PICK m \in T : \A q \in T : m <= q
  BY <1>1, LeastNumber
<1>3. m # 0
  <2>1. Is([i \in 1 .. 0 |-> seqs[i]], 0)
    BY EmptySeq
  <2>. QED
    BY <2>1, <1>2, Zenon
<1>4. m - 1 \in Nat /\ m - 1 \notin T
  <2>1. m \in Nat
    BY <1>2
  <2>2. m - 1 \in Nat /\ ~(m <= m - 1)
    BY <1>3, <2>1
  <2>. HIDE DEF T
  <2>. QED
    BY <1>2, <2>2
<1>5. PICK g : Is(g, m - 1)
  BY <1>4
<1>. DEFINE h == [i \in 1 .. m |-> IF i = 1 THEN seqs[i] ELSE g[i - 1] \o seqs[i]]
<1>6. ASSUME NEW i \in 1 .. m - 1
      PROVE  h[i] = g[i]
  <2>1. i \in 1 .. m
    BY <1>4
  <2>2. h[i] = IF i = 1 THEN seqs[i] ELSE g[i - 1] \o seqs[i]
    BY <2>1
  <2>3. g[i] = IF i = 1 THEN seqs[i] ELSE g[i - 1] \o seqs[i]
    <3>. HIDE DEF h, T
    <3>. QED
      BY <1>5
  <2>. QED
    BY <2>2, <2>3
<1>7. \A i \in 1 .. m : i # 1 => i - 1 \in 1 .. m - 1
  BY <1>4
<1>8. Is(h, m)
  <2>1. \A i \in 1 .. m : (IF i = 1 THEN seqs[i] ELSE g[i - 1] \o seqs[i])
                           = IF i = 1 THEN seqs[i] ELSE h[i - 1] \o seqs[i]
    <3>. HIDE DEF h
    <3>. QED
      BY <1>6, <1>7
  <2>2. h = [i \in 1 .. m |-> IF i = 1 THEN seqs[i] ELSE g[i - 1] \o seqs[i]]
    OBVIOUS
  <2>. HIDE DEF h
  <2>. QED
    BY <2>1, <2>2
<1>. QED
  BY <1>2, <1>8, Zenon

\* What FlattenSeq makes of sequences of numbers.
LEMMA Flatten ==
  ASSUME NEW seqs \in Seq(Seq(Nat))
  PROVE  /\ FlattenSeq(seqs) \in Seq(Nat)
         /\ \E pos : Cut(pos, seqs, Len(seqs), FlattenSeq(seqs))
<1>. DEFINE n == Len(seqs)
<1>1. n \in Nat /\ \A i \in 1 .. n : seqs[i] \in Seq(Nat)
  BY LenProperties
<1>2. Cut([k \in 1 .. 1 |-> 0], seqs, 0, <<>>)
  BY EmptySeq DEF Cut
<1>3. CASE n = 0
  <2>1. seqs = <<>> /\ FlattenSeq(seqs) = seqs
    BY <1>3, EmptySeq DEF FlattenSeq
  <2>. QED
    BY <1>2, <1>3, <2>1, EmptySeq
<1>4. CASE n # 0
  <2>. DEFINE f == CHOOSE f : f = [i \in 1 .. n |-> IF i = 1 THEN seqs[i] ELSE f[i - 1] \o seqs[i]]
  <2>1. f = [i \in 1 .. n |-> IF i = 1 THEN seqs[i] ELSE f[i - 1] \o seqs[i]]
    BY <1>1, FlattenExists
  <2>2. FlattenSeq(seqs) = f[n]
    BY <1>4 DEF FlattenSeq
  <2>. HIDE DEF f
  <2>. DEFINE Q(i) == f[i] \in Seq(Nat) /\ \E pos : Cut(pos, seqs, i, f[i])
              T == {i \in 1 .. n : ~Q(i)}
  <2>3. SUFFICES ASSUME T # {}
                 PROVE  FALSE
    <3>1. n \in 1 .. n
      BY <1>1, <1>4
    <3>2. Q(n) => /\ FlattenSeq(seqs) \in Seq(Nat)
                  /\ \E pos : Cut(pos, seqs, Len(seqs), FlattenSeq(seqs))
      BY <2>2
    <3>. HIDE DEF Q
    <3>. QED
      BY <3>1, <3>2
  <2>8. T \subseteq 1 .. n /\ T \in SUBSET Nat
    OBVIOUS
  <2>4. PICK m \in T : \A q \in T : m <= q
    <3>. HIDE DEF T
    <3>. QED
      BY <2>3, <2>8, LeastNumber
  <2>5. seqs[m] \in Seq(Nat)
    BY <1>1
  <2>6. CASE m = 1
    <3>1. f[1] = seqs[1] /\ seqs[1] = <<>> \o seqs[1]
      BY <1>1, <1>4, <2>1, <2>5, <2>6, ConcatEmptySeq
    <3>2. \E p : Cut(p, seqs, 0 + 1, <<>> \o seqs[0 + 1])
      <4>1. 0 + 1 = 1 /\ 0 \in Nat /\ <<>> \in Seq(Nat) /\ seqs[0 + 1] \in Seq(Nat)
        BY <2>5, <2>6, EmptySeq
      <4>. QED
        BY <1>2, <4>1, CutAppend, Zenon
    <3>3. Q(1)
      BY <2>5, <2>6, <3>1, <3>2
    <3>. QED
      BY <2>4, <2>6, <3>3
  <2>7. CASE m # 1
    <3>9. m - 1 \in 1 .. n /\ ~(m <= m - 1) /\ m - 1 \in Nat
      BY <1>1, <2>7, <2>8
    <3>1. m - 1 \notin T
      <4>. HIDE DEF T
      <4>. QED
        BY <2>4, <3>9
    <3>2. Q(m - 1)
      <4>. HIDE DEF Q
      <4>. QED
        BY <3>1, <3>9
    <3>3. f[m] = f[m - 1] \o seqs[m]
      BY <2>1, <2>7
    <3>4. f[m] \in Seq(Nat)
      BY <2>5, <3>2, <3>3, ConcatProperties
    <3>5. PICK pos : Cut(pos, seqs, m - 1, f[m - 1])
      BY <3>2
    <3>6. (m - 1) + 1 = m
      BY <1>1
    <3>7. \E p : Cut(p, seqs, (m - 1) + 1, f[m - 1] \o seqs[(m - 1) + 1])
      BY <2>5, <3>2, <3>5, <3>6, <3>9, CutAppend
    <3>8. Q(m)
      BY <3>3, <3>4, <3>6, <3>7
    <3>. QED
      BY <2>4, <3>8
  <2>. QED
    BY <2>6, <2>7
<1>. QED
  BY <1>3, <1>4

-----------------------------------------------------------------------------
(* Rows of a table. *)

\* order is T in ascending order.
IsAscending(order, T) ==
  order \in SetToSeqs(T) /\ \A i, j \in DOMAIN order : i < j => order[i] < order[j]

\* One more row, behind all others.
LEMMA AscendingAppend ==
  ASSUME NEW m \in Nat, NEW T \in SUBSET (1 .. m), NEW order, IsAscending(order, T)
  PROVE  \E o : IsAscending(o, T \cup {m + 1})
<1>. DEFINE n == Cardinality(T)
            U == T \cup {m + 1}
            o == [k \in 1 .. n + 1 |-> IF k <= n THEN order[k] ELSE m + 1]
<1>1. IsFiniteSet(T) /\ n \in Nat
  <2>1. IsFiniteSet(1 .. m)
    BY FS_Interval
  <2>. QED
    BY <2>1, FS_Subset, FS_CardinalityType
<1>2. Cardinality(U) = n + 1
  <2>1. m + 1 \notin T
    OBVIOUS
  <2>. QED
    BY <1>1, <2>1, FS_AddElement
<1>3. /\ order \in [1 .. n -> T]
      /\ \A i, j \in 1 .. n : i # j => order[i] # order[j]
      /\ \A i, j \in 1 .. n : i < j => order[i] < order[j]
  BY DEF IsAscending, SetToSeqs
<1>. HIDE DEF n
<1>4. \A k \in 1 .. n : o[k] = order[k] /\ order[k] \in 1 .. m
  <2>1. \A k \in 1 .. n : k \in 1 .. n + 1 /\ k <= n /\ order[k] \in T
    BY <1>1, <1>3
  <2>. QED
    BY <2>1
<1>5. o[n + 1] = m + 1
  BY <1>1
<1>6. o \in [1 .. n + 1 -> U]
  BY <1>1, <1>3
<1>. HIDE DEF o
<1>7. ASSUME NEW i \in 1 .. n + 1, NEW j \in 1 .. n + 1, i < j
      PROVE  o[i] < o[j] /\ o[i] # o[j]
  <2>1. i \in 1 .. n
    BY <1>1, <1>7
  <2>2. CASE j \in 1 .. n
    <3>1. order[i] < order[j] /\ order[i] # order[j]
      BY <1>3, <1>7, <2>1, <2>2
    <3>. QED
      BY <1>4, <2>1, <2>2, <3>1
  <2>3. CASE j = n + 1
    <3>1. o[i] \in 1 .. m /\ o[j] = m + 1
      BY <1>4, <1>5, <2>1, <2>3
    <3>. QED
      BY <3>1
  <2>. QED
    BY <1>1, <2>2, <2>3
<1>8. \A i, j \in 1 .. n + 1 : i # j => i < j \/ j < i
  BY <1>1
<1>9. \A i, j \in 1 .. n + 1 : i # j => o[i] # o[j]
  BY <1>7, <1>8
<1>10. o \in SetToSeqs(U)
  BY <1>2, <1>6, <1>9 DEF SetToSeqs
<1>11. DOMAIN o = 1 .. n + 1
  BY <1>6
<1>12. IsAscending(o, U)
  BY <1>7, <1>10, <1>11 DEF IsAscending
<1>. QED
  BY <1>12

\* Every set of row numbers has its ascending order.
LEMMA AscendingExists ==
  ASSUME NEW n \in Nat, NEW T \in SUBSET (1 .. n)
  PROVE  \E o : IsAscending(o, T)
<1>. DEFINE P(m) == \A U \in SUBSET (1 .. m) : \E o : IsAscending(o, U)
            Bad  == {m \in Nat : ~P(m)}
<1>1. SUFFICES ASSUME Bad # {}
               PROVE  FALSE
  <2>1. Bad = {} => P(n)
    <3>. HIDE DEF P
    <3>. QED
      OBVIOUS
  <2>. HIDE DEF Bad
  <2>. QED
    BY <2>1
<1>2. PICK m \in Bad : \A q \in Bad : m <= q
  <2>1. Bad \in SUBSET Nat
    OBVIOUS
  <2>. HIDE DEF Bad
  <2>. QED
    BY <1>1, <2>1, LeastNumber
<1>3. m \in Nat /\ ~P(m)
  OBVIOUS
<1>4. CASE m = 0
  <2>1. <<>> \in SetToSeqs({}) /\ DOMAIN <<>> = {}
    BY FS_EmptySet DEF SetToSeqs
  <2>2. IsAscending(<<>>, {})
    BY <2>1 DEF IsAscending
  <2>3. SUBSET (1 .. 0) = {{}}
    OBVIOUS
  <2>4. \A U \in SUBSET (1 .. 0) : \E o : IsAscending(o, U)
    <3>1. \A U \in SUBSET (1 .. 0) : U = {}
      BY <2>3
    <3>. QED
      BY <2>2, <3>1
  <2>5. P(m)
    BY <1>4, <2>4
  <2>. QED
    BY <1>3, <2>5
<1>5. CASE m # 0
  <2>1. m - 1 \in Nat /\ ~(m <= m - 1) /\ (m - 1) + 1 = m
    BY <1>3, <1>5
  <2>2. P(m - 1)
    <3>1. m - 1 \notin Bad
      <4>. HIDE DEF Bad
      <4>. QED
        BY <1>2, <2>1
    <3>. HIDE DEF P
    <3>. QED
      BY <2>1, <3>1
  <2>3. ASSUME NEW U \in SUBSET (1 .. m)
        PROVE  \E o : IsAscending(o, U)
    <3>. DEFINE V == U \ {m}
    <3>1. V \in SUBSET (1 .. m - 1)
      BY <1>3, <2>1
    <3>2. PICK o : IsAscending(o, V)
      BY <2>2, <3>1
    <3>3. CASE m \in U
      <4>1. V \cup {(m - 1) + 1} = U
        BY <2>1, <3>3
      <4>. HIDE DEF V
      <4>2. \E p : IsAscending(p, V \cup {(m - 1) + 1})
        BY <2>1, <3>1, <3>2, AscendingAppend, Zenon
      <4>. QED
        BY <4>1, <4>2
    <3>4. CASE m \notin U
      BY <3>2, <3>4
    <3>. QED
      BY <3>3, <3>4
  <2>. QED
    BY <1>3, <2>3
<1>. QED
  BY <1>4, <1>5

\* The rows with the numbers in T.
LEMMA RowsOfTable ==
  ASSUME NEW S, NEW table \in Seq(S), NEW T \in SUBSET (DOMAIN table)
  PROVE  /\ Rows(table, T) \in Seq(S)
         /\ Len(Rows(table, T)) = Cardinality(T)
         /\ Cardinality(T) \in Nat /\ Cardinality(T) <= Len(table)
         /\ DOMAIN Ascending(T) = 1 .. Cardinality(T)
         /\ \A k \in 1 .. Cardinality(T) : /\ Ascending(T)[k] \in T
                                           /\ Rows(table, T)[k] = table[Ascending(T)[k]]
<1>. DEFINE n == Cardinality(T)
            o == Ascending(T)
<1>1. Len(table) \in Nat /\ DOMAIN table = 1 .. Len(table)
      /\ \A k \in DOMAIN table : table[k] \in S
  BY LenProperties, ElementOfSeq
<1>2. n \in Nat /\ n <= Len(table)
  <2>1. IsFiniteSet(1 .. Len(table)) /\ Cardinality(1 .. Len(table)) = Len(table)
    <3>1. \A m \in Nat : IsFiniteSet(1 .. m) /\ Cardinality(1 .. m) = m
      <4>1. ASSUME NEW m \in Nat
            PROVE  IsFiniteSet(1 .. m) /\ Cardinality(1 .. m) = IF 1 > m THEN 0 ELSE m - 1 + 1
        BY FS_Interval
      <4>2. \A m \in Nat : (IF 1 > m THEN 0 ELSE m - 1 + 1) = m
        OBVIOUS
      <4>. QED
        BY <4>1, <4>2
    <3>. QED
      BY <1>1, <3>1
  <2>. QED
    BY <1>1, <2>1, FS_Subset, FS_CardinalityType
<1>3. o \in SetToSeqs(T)
  <2>1. \E x \in SetToSeqs(T) : \A i, j \in DOMAIN x : i < j => x[i] < x[j]
    BY <1>1, AscendingExists DEF IsAscending
  <2>. QED
    BY <2>1, Zenon DEF Ascending
<1>4. o \in [1 .. n -> T] /\ DOMAIN o = 1 .. n
  BY <1>3 DEF SetToSeqs
<1>5. Rows(table, T) = [k \in 1 .. n |-> table[o[k]]]
  BY <1>4 DEF Rows
<1>. HIDE DEF n, o
<1>6. \A k \in 1 .. n : o[k] \in T /\ table[o[k]] \in S
  BY <1>1, <1>4
<1>7. Rows(table, T) \in [1 .. n -> S]
  BY <1>5, <1>6
<1>8. Rows(table, T) \in Seq(S) /\ Len(Rows(table, T)) = n
  BY <1>2, <1>7, ArrayIsSeq
<1>. QED
  BY <1>2, <1>4, <1>5, <1>6, <1>8 DEF n, o

\* An array, of whatever it holds, gets longer by one.
LEMMA AppendArray ==
  ASSUME NEW f, NEW e, Len(f) \in Nat, f = [k \in 1 .. Len(f) |-> f[k]]
  PROVE  /\ Len(Append(f, e)) = Len(f) + 1
         /\ Append(f, e) = [k \in 1 .. Len(f) + 1 |-> Append(f, e)[k]]
         /\ \A k \in 1 .. Len(f) : Append(f, e)[k] = f[k]
         /\ Append(f, e)[Len(f) + 1] = e
<1>. DEFINE S == {f[k] : k \in 1 .. Len(f)} \cup {e}
            g == Append(f, e)
<1>1. f \in [1 .. Len(f) -> S]
  OBVIOUS
<1>. HIDE DEF S
<1>2. f \in Seq(S)
  BY <1>1, ArrayIsSeq
<1>3. e \in S
  BY DEF S
<1>4. /\ g \in Seq(S)
      /\ Len(g) = Len(f) + 1
      /\ \A k \in 1 .. Len(f) : g[k] = f[k]
      /\ g[Len(f) + 1] = e
  BY <1>2, <1>3, AppendProperties
<1>. HIDE DEF g
<1>5. g \in [1 .. Len(g) -> S]
  BY <1>4, LenProperties
<1>6. g = [k \in 1 .. Len(f) + 1 |-> g[k]]
  BY <1>4, <1>5
<1>. QED
  BY <1>4, <1>6 DEF g

-----------------------------------------------------------------------------
(* Structures in answers, and the request that carries a message. *)

Entry      == [name : Name, key : PublicKey]
Mail       == [from : Nat, to : Nat, type : Nat, content : Content]
ClientRow  == [id : Seq(Nat), name : Name, public_key : Seq(Nat)]
MessageRow == [to : Seq(Nat), from : Seq(Nat), type : Nat,
               content : [number : BOOLEAN, text : Seq(Nat)]]

\* The rows that a client and a message should have in the database.
RowOfClient(e, i) == [id |-> ClientId(i), name |-> e.name, public_key |-> HexText(e.key)]
RowOfMessage(m) == [to |-> ClientId(m.to), from |-> ClientId(m.from), type |-> m.type,
                    content |-> InNumberColumn(HexText(m.content))]

\* A message whose content the database keeps as a number.
IsNumber(m) == LooksLikeNumber(HexText(m.content))

\* A message as the program shows it.
AsShown(m) == [from |-> ClientId(m.from), type |-> m.type, content |-> m.content]

\* A name has no NUL, and fits its field.
LEMMA NamesAreText ==
  ASSUME NEW name \in Name
  PROVE  /\ name \in Seq(Nat) /\ Len(name) \in Nat /\ Len(name) <= NameSize
         /\ \A k \in 1 .. Len(name) : name[k] \in 1 .. 127
<1>1. name \in Seq(1 .. 127) /\ Len(name) <= NameSize /\ 1 .. 127 \subseteq Nat
  BY WireAssumption
<1>2. name \in Seq(Nat)
  BY <1>1, SeqMonotonic
<1>3. Len(name) \in Nat /\ \A k \in 1 .. Len(name) : name[k] \in 1 .. 127
  BY <1>1, LenProperties
<1>. QED
  BY <1>1, <1>2, <1>3

\* A content is a sequence of bytes.
LEMMA ContentsAreBytes ==
  ASSUME NEW content \in Content
  PROVE  content \in Seq(0 .. 255) /\ content \in Seq(Nat) /\ Len(content) \in Nat
<1>1. content \in Seq(0 .. 255) /\ 0 .. 255 \subseteq Nat
  BY WireAssumption
<1>2. content \in Seq(Nat)
  BY <1>1, SeqMonotonic
<1>3. Len(content) \in Nat
  BY <1>1, LenProperties
<1>. QED
  BY <1>1, <1>2, <1>3

\* The row of a message: its content is a number, or the text of the content.
LEMMA RowOfMessageIsRow ==
  ASSUME NEW m \in Mail
  PROVE  /\ RowOfMessage(m) \in MessageRow
         /\ RowOfMessage(m).to = ClientId(m.to)
         /\ RowOfMessage(m).content.number = IsNumber(m)
         /\ ~IsNumber(m) => RowOfMessage(m).content.text = HexText(m.content)
         /\ IsNumber(m) => RowOfMessage(m).content.text = <<>>
<1>. DEFINE text == HexText(m.content)
<1>1. /\ m.from \in Nat /\ m.to \in Nat /\ m.type \in Nat
      /\ m.content \in Seq(0 .. 255)
  BY ContentsAreBytes DEF Mail
<1>2. ClientId(m.from) \in Seq(Nat) /\ ClientId(m.to) \in Seq(Nat) /\ text \in Seq(Nat)
  BY <1>1, ClientIdIsArray, HexRoundTrip
<1>. HIDE DEF text
<1>3. LooksLikeNumber(text) \in BOOLEAN
  BY DEF LooksLikeNumber
<1>4. <<>> \in Seq(Nat)
  BY EmptySeq
<1>5. InNumberColumn(text) \in [number : BOOLEAN, text : Seq(Nat)]
  BY <1>2, <1>3, <1>4 DEF InNumberColumn
<1>6. /\ RowOfMessage(m) = [to |-> ClientId(m.to), from |-> ClientId(m.from),
                            type |-> m.type, content |-> InNumberColumn(text)]
      /\ IsNumber(m) = LooksLikeNumber(text)
  BY DEF RowOfMessage, IsNumber, text
<1>7. RowOfMessage(m) \in MessageRow
  BY <1>1, <1>2, <1>5, <1>6 DEF MessageRow
<1>8. /\ InNumberColumn(text).number = LooksLikeNumber(text)
      /\ ~LooksLikeNumber(text) => InNumberColumn(text).text = text
      /\ LooksLikeNumber(text) => InNumberColumn(text).text = <<>>
  BY DEF InNumberColumn
<1>9. RowOfMessage(m).to = ClientId(m.to) /\ RowOfMessage(m).content = InNumberColumn(text)
  BY <1>6
<1>. QED
  BY <1>6, <1>7, <1>8, <1>9 DEF text

\* A client in the list: its identifier and the field of its name.
LEMMA ClientStructFields ==
  ASSUME NEW row, NEW i \in Nat, NEW b \in Behind, row.id = ClientId(i), row.name \in Name
  PROVE  LET st == ClientStruct(row, b) IN
         /\ st \in Seq(Nat) /\ Len(st) = ClientSize
         /\ \A j \in 1 .. IdSize : st[j] = ClientId(i)[j]
         /\ \A j \in 1 .. NameSize : st[IdSize + j] = Copied(row.name, NameSize, b)[j]
<1>. DEFINE c == Copied(row.name, NameSize, b)
            st == row.id \o c
<1>1. IdSize \in Nat /\ NameSize \in Nat /\ b \in Nat
  BY WireAssumption
<1>2. c \in [1 .. NameSize -> Nat]
  BY <1>1, NamesAreText DEF Copied
<1>. HIDE DEF c
<1>3. c \in Seq(Nat)
  BY <1>1, <1>2, ArrayIsSeq
<1>4. Len(c) = NameSize
  BY <1>1, <1>2, ArrayIsSeq
<1>5. row.id \in Seq(Nat)
  BY ClientIdIsArray
<1>6. /\ st \in Seq(Nat)
      /\ Len(st) = Len(row.id) + Len(c)
      /\ \A k \in 1 .. Len(row.id) : st[k] = row.id[k]
      /\ \A k \in 1 .. Len(c) : st[Len(row.id) + k] = c[k]
  BY <1>3, <1>5, Concatenation
<1>7. Len(row.id) = IdSize
  BY ClientIdIsArray
<1>8. st = ClientStruct(row, b)
  BY DEF ClientStruct, c
<1>. HIDE DEF st
<1>. QED
  BY <1>4, <1>6, <1>7, <1>8 DEF ClientSize, c

\* The program reads a name up to the NUL, or further when it fills its field.
LEMMA NameIsShown ==
  ASSUME NEW text \in Seq(Nat), NEW k \in Nat \ {0}, NEW name \in Name, NEW b \in Behind,
         k + NameSize - 1 <= Len(text),
         \A j \in 1 .. NameSize : text[k + j - 1] = Copied(name, NameSize, b)[j]
  PROVE  ShownAs(name, CString(text, k))
<1>. DEFINE n == Len(name)
            end == Len(text) + 1
            E == {j \in k .. end : j = end \/ text[j] = 0}
            e == Min(E)
            c == CString(text, k)
<1>1. /\ NameSize \in Nat /\ Len(text) \in Nat
      /\ name \in Seq(Nat) /\ n \in Nat /\ n <= NameSize
      /\ \A j \in 1 .. n : name[j] \in 1 .. 127
  BY WireAssumption, LenProperties, NamesAreText
<1>2. ASSUME NEW j \in 1 .. n
      PROVE  text[k + j - 1] = name[j]
  <2>1. j \in 1 .. NameSize /\ j <= Len(name)
    BY <1>1
  <2>2. Copied(name, NameSize, b)[j] = name[j]
    BY <2>1 DEF Copied
  <2>. QED
    BY <2>1, <2>2
<1>3. \A j \in k .. k + n - 1 : text[j] # 0
  <2>1. ASSUME NEW j \in k .. k + n - 1
        PROVE  text[j] # 0
    <3>1. j - k + 1 \in 1 .. n /\ k + (j - k + 1) - 1 = j
      BY <1>1
    <3>2. text[j] = name[j - k + 1] /\ name[j - k + 1] \in 1 .. 127
      BY <1>1, <1>2, <3>1
    <3>3. \A x \in 1 .. 127 : x # 0
      OBVIOUS
    <3>. QED
      BY <3>2, <3>3, Zenon
  <2>. QED
    BY <2>1
<1>4. e \in E /\ \A y \in E : e <= y
  <2>1. end \in E /\ E \in SUBSET Nat
    BY <1>1
  <2>. HIDE DEF E
  <2>2. \E x \in E : \A y \in E : x <= y
    BY <2>1, LeastNumber
  <2>. QED
    BY <2>2, Zenon DEF Min
<1>5. c = SubSeq(text, k, e - 1)
  BY DEF CString
<1>. HIDE DEF c, e
<1>6. e \in k .. end
  BY <1>4
<1>7. k + n <= e
  <2>1. e = end \/ text[e] = 0
    BY <1>4
  <2>2. CASE e = end
    BY <1>1, <2>2
  <2>3. CASE text[e] = 0
    <3>1. e \notin k .. k + n - 1
      BY <1>3, <2>3
    <3>. QED
      BY <1>1, <1>6, <3>1
  <2>. QED
    BY <2>1, <2>2, <2>3
<1>8. CASE n < NameSize
  <2>1. text[k + n] = 0
    <3>1. n + 1 \in 1 .. NameSize /\ ~(n + 1 <= n) /\ k + (n + 1) - 1 = k + n
      BY <1>1, <1>8
    <3>2. Copied(name, NameSize, b)[n + 1] = 0
      BY <3>1 DEF Copied
    <3>3. text[k + (n + 1) - 1] = Copied(name, NameSize, b)[n + 1]
      BY <3>1
    <3>. QED
      BY <3>1, <3>2, <3>3
  <2>2. k + n \in k .. end
    BY <1>1, <1>8
  <2>3. e <= k + n
    BY <1>4, <2>1, <2>2
  <2>4. e - 1 = k + n - 1
    BY <1>1, <1>6, <1>7, <2>3
  <2>5. Field(text, k, Len(name)) = name
    BY <1>1, <1>2, FieldIs
  <2>6. c = name
    BY <1>5, <2>4, <2>5 DEF Field
  <2>. QED
    BY <1>8, <2>6 DEF ShownAs, c
<1>9. CASE ~(n < NameSize)
  <2>1. \A i \in k .. e - 1 : text[i] \in Nat
    <3>1. \A i \in k .. e - 1 : i \in 1 .. Len(text)
      BY <1>1, <1>6
    <3>. QED
      BY <3>1, ElementOfSeq
  <2>2. k \in Int /\ e - 1 \in Int
    BY <1>1, <1>6
  <2>3. /\ c \in Seq(Nat)
        /\ Len(c) = IF k <= e - 1 THEN e - 1 - k + 1 ELSE 0
        /\ \A i \in 1 .. e - 1 - k + 1 : c[i] = text[k + i - 1]
    BY <1>5, <2>1, <2>2, SubSeqProperties
  <2>4. n <= Len(c)
    BY <1>1, <1>6, <1>7, <2>3
  <2>5. \A j \in 1 .. n : c[1 + j - 1] = name[j]
    <3>1. \A j \in 1 .. n : 1 + j - 1 = j /\ j \in 1 .. e - 1 - k + 1
      BY <1>1, <1>6, <1>7
    <3>. QED
      BY <1>2, <2>3, <3>1
  <2>6. Field(c, 1, Len(name)) = name
    <3>1. name \in Seq(Nat) /\ 1 \in Nat
      BY <1>1
    <3>. QED
      BY <2>5, <3>1, FieldIs
  <2>7. SubSeq(c, 1, Len(name)) = name
    <3>1. 1 + n - 1 = n
      BY <1>1
    <3>. QED
      BY <2>6, <3>1 DEF Field
  <2>8. SubSeq(name, 1, Len(name)) = name
    BY <1>1, SubSeqFull
  <2>. QED
    BY <1>9, <2>4, <2>7, <2>8 DEF ShownAs, IsPrefix, c
<1>. QED
  BY <1>8, <1>9

\* A message in the answer: what the server takes from its row.
LEMMA PackedFields ==
  ASSUME NEW m \in Mail, ~IsNumber(m)
  PROVE  LET p == Packed(RowOfMessage(m)) IN
         /\ p \in Seq(Nat) /\ Len(p) = GotSize + Len(m.content)
         /\ \A j \in 1 .. IdSize : p[j] = ClientId(m.from)[j]
         /\ p[IdSize + 2] = m.type /\ p[IdSize + 3] = Len(m.content)
         /\ \A j \in 1 .. Len(m.content) : p[GotSize + j] = m.content[j]
<1>. DEFINE id   == ClientId(m.from)
            text == m.content
            h    == <<0, m.type, Len(text), 0>>
            p    == id \o h \o text
<1>1. /\ m.from \in Nat /\ m.type \in Nat /\ text \in Content
      /\ IdSize \in Nat /\ Len(text) \in Nat
      /\ text \in Seq(0 .. 255) /\ text \in Seq(Nat)
  BY WireAssumption, ContentsAreBytes DEF Mail
<1>2. h \in Seq(Nat) /\ Len(h) = 4 /\ h[2] = m.type /\ h[3] = Len(text)
  BY <1>1
<1>3. p = Packed(RowOfMessage(m))
  <2>1. Len(HexText(text)) \div 2 = Len(text) /\ FromHex(HexText(text), Len(text)) = text
    <3>1. /\ Len(HexText(text)) = 2 * Len(text)
          /\ FromHex(HexText(text), Len(text)) = text
      BY <1>1, HexRoundTrip
    <3>2. \A x \in Nat : (2 * x) \div 2 = x
      OBVIOUS
    <3>. QED
      BY <1>1, <3>1, <3>2
  <2>2. RowOfMessage(m).content.text = HexText(text)
    BY RowOfMessageIsRow
  <2>3. RowOfMessage(m).from = id /\ RowOfMessage(m).type = m.type
    BY DEF RowOfMessage
  <2>. QED
    BY <2>1, <2>2, <2>3 DEF Packed, GotMessage
<1>. HIDE DEF h
<1>4. id \in Seq(Nat) /\ text \in Seq(Nat) /\ h \in Seq(Nat)
  BY <1>1, <1>2, ClientIdIsArray
<1>5. Len(id) = IdSize
  BY <1>1, ClientIdIsArray
<1>. HIDE DEF id, text
<1>6. /\ p \in Seq(Nat)
      /\ Len(p) = Len(id) + Len(h) + Len(text)
      /\ \A k \in 1 .. Len(id) : p[k] = id[k]
      /\ \A k \in 1 .. Len(h) : p[Len(id) + k] = h[k]
      /\ \A k \in 1 .. Len(text) : p[Len(id) + Len(h) + k] = text[k]
  BY <1>4, ThreeParts, ZenonT(30)
<1>. HIDE DEF p
<1>7. Len(id) + Len(h) = GotSize
  BY <1>1, <1>2, <1>5 DEF GotSize
<1>8. /\ Len(p) = GotSize + Len(text)
      /\ \A k \in 1 .. Len(text) : p[GotSize + k] = text[k]
  BY <1>6, <1>7
<1>9. p[IdSize + 2] = m.type /\ p[IdSize + 3] = Len(text)
  <2>1. 2 \in 1 .. Len(h) /\ 3 \in 1 .. Len(h)
    BY <1>2
  <2>. QED
    BY <1>2, <1>5, <1>6, <2>1
<1>10. \A k \in 1 .. IdSize : p[k] = id[k]
  BY <1>5, <1>6
<1>. QED
  BY <1>3, <1>6, <1>8, <1>9, <1>10 DEF id, text

\* What the server reads of the request that carries a message.
LEMMA RequestForSend ==
  ASSUME NEW m \in Mail
  PROVE  LET b == ReqMessage(ClientId(m.from), SEND_MESSAGE,
                             SendPayload(ClientId(m.to), m.type, m.content)) IN
         /\ b \in Seq(Nat) /\ Code(b) = SEND_MESSAGE
         /\ FromId(b) = ClientId(m.from) /\ PayloadId(b) = ClientId(m.to)
         /\ TypeOf(b) = m.type /\ ContentOf(b) = m.content
<1>. DEFINE id   == ClientId(m.to)
            text == m.content
            h    == <<m.type, Len(text), 0>>
            p    == id \o h \o text
            b    == ReqMessage(ClientId(m.from), SEND_MESSAGE, p)
<1>1. /\ m.from \in Nat /\ m.to \in Nat /\ m.type \in Nat
      /\ IdSize \in Nat /\ Len(text) \in Nat /\ text \in Seq(Nat)
  BY WireAssumption, ContentsAreBytes DEF Mail
<1>2. h \in Seq(Nat) /\ Len(h) = 3 /\ h[1] = m.type /\ h[2] = Len(text)
  BY <1>1
<1>3. p = SendPayload(ClientId(m.to), m.type, m.content)
  BY DEF SendPayload
<1>. HIDE DEF h
<1>4. id \in Seq(Nat) /\ text \in Seq(Nat) /\ h \in Seq(Nat)
  BY <1>1, <1>2, ClientIdIsArray
<1>5. Len(id) = IdSize
  BY <1>1, ClientIdIsArray
<1>. HIDE DEF id, text
<1>6. /\ p \in Seq(Nat)
      /\ Len(p) = Len(id) + Len(h) + Len(text)
      /\ \A k \in 1 .. Len(id) : p[k] = id[k]
      /\ \A k \in 1 .. Len(h) : p[Len(id) + k] = h[k]
      /\ \A k \in 1 .. Len(text) : p[Len(id) + Len(h) + k] = text[k]
  BY <1>4, ThreeParts, ZenonT(30)
<1>. HIDE DEF p
<1>7. /\ b \in Seq(Nat) /\ Code(b) = SEND_MESSAGE /\ FromId(b) = ClientId(m.from)
      /\ \A k \in 1 .. Len(p) : b[HeaderSize + k] = p[k]
  <2>1. SEND_MESSAGE \in Nat /\ ClientId(m.from) \in [1 .. IdSize -> Nat] /\ p \in Seq(Nat)
    <3>1. SEND_MESSAGE \in Nat
      BY DEF SEND_MESSAGE
    <3>2. ClientId(m.from) \in [1 .. IdSize -> Nat]
      BY <1>1, ClientIdIsArray
    <3>. QED
      BY <1>6, <3>1, <3>2
  <2>. QED
    BY <2>1, RequestFields
<1>. HIDE DEF b
<1>8. HeaderSize \in Nat /\ Len(p) = IdSize + 3 + Len(text) /\ SendSize = IdSize + 3
  BY <1>1, <1>2, <1>5, <1>6 DEF HeaderSize, SendSize
<1>9. \A k \in 1 .. IdSize : b[HeaderSize + k] = id[k]
  <2>1. \A k \in 1 .. IdSize : k \in 1 .. Len(p) /\ k \in 1 .. Len(id)
    BY <1>1, <1>5, <1>8
  <2>. QED
    BY <1>6, <1>7, <2>1
<1>10. b[HeaderSize + IdSize + 1] = m.type /\ b[HeaderSize + IdSize + 2] = Len(text)
  <2>1. /\ 1 \in 1 .. Len(h) /\ 2 \in 1 .. Len(h)
        /\ IdSize + 1 \in 1 .. Len(p) /\ IdSize + 2 \in 1 .. Len(p)
        /\ HeaderSize + IdSize + 1 = HeaderSize + (IdSize + 1)
        /\ HeaderSize + IdSize + 2 = HeaderSize + (IdSize + 2)
    BY <1>1, <1>2, <1>8
  <2>2. p[IdSize + 1] = h[1] /\ p[IdSize + 2] = h[2]
    BY <1>5, <1>6, <2>1
  <2>. QED
    BY <1>2, <1>7, <2>1, <2>2
<1>11. \A k \in 1 .. Len(text) : b[HeaderSize + SendSize + k] = text[k]
  <2>1. ASSUME NEW k \in 1 .. Len(text)
        PROVE  /\ Len(id) + Len(h) + k \in 1 .. Len(p)
               /\ HeaderSize + SendSize + k = HeaderSize + (Len(id) + Len(h) + k)
    BY <1>1, <1>2, <1>5, <1>8
  <2>. QED
    BY <1>6, <1>7, <2>1
<1>12. PayloadId(b) = id
  <2>1. HeaderSize + 1 \in Nat
    BY <1>8
  <2>2. \A j \in 1 .. Len(id) : b[HeaderSize + 1 + j - 1] = id[j]
    <3>1. \A j \in 1 .. Len(id) : HeaderSize + 1 + j - 1 = HeaderSize + j /\ j \in 1 .. IdSize
      BY <1>1, <1>5, <1>8
    <3>. QED
      BY <1>9, <3>1
  <2>3. Field(b, HeaderSize + 1, Len(id)) = id
    BY <1>4, <2>1, <2>2, FieldIs
  <2>. QED
    BY <1>5, <2>3 DEF PayloadId
<1>13. ContentOf(b) = text
  <2>1. HeaderSize + SendSize + 1 \in Nat
    BY <1>1, <1>8
  <2>2. \A j \in 1 .. Len(text) : b[HeaderSize + SendSize + 1 + j - 1] = text[j]
    <3>1. \A j \in 1 .. Len(text) : HeaderSize + SendSize + 1 + j - 1 = HeaderSize + SendSize + j
      BY <1>1, <1>8
    <3>. QED
      BY <1>11, <3>1
  <2>3. Field(b, HeaderSize + SendSize + 1, Len(text)) = text
    BY <1>4, <2>1, <2>2, FieldIs
  <2>. QED
    BY <1>10, <2>3 DEF ContentOf
<1>. QED
  BY <1>3, <1>7, <1>10, <1>12, <1>13 DEF TypeOf, b, id, text

\* Clients stand in the answer one behind the other, each in a structure.
Listed(text, order, entries) ==
  /\ Len(text) = Len(order) * ClientSize
  /\ \A k \in 1 .. Len(order) :
       /\ Field(text, (k - 1) * ClientSize + 1, IdSize) = ClientId(order[k])
       /\ ShownAs(entries[order[k]].name, CString(text, (k - 1) * ClientSize + IdSize + 1))

\* Messages stand in the answer one behind the other; pos[k] is what is before the
\* k-th of them.
Placed(text, pos, mail) ==
  /\ pos[1] = 0 /\ pos[Len(mail) + 1] = Len(text)
  /\ \A k \in 1 .. Len(mail) :
       /\ pos[k + 1] = pos[k] + GotSize + Len(mail[k].content)
       /\ Field(text, pos[k] + 1, IdSize) = ClientId(mail[k].from)
       /\ text[pos[k] + IdSize + 2] = mail[k].type
       /\ text[pos[k] + IdSize + 3] = Len(mail[k].content)
       /\ Field(text, pos[k] + GotSize + 1, Len(mail[k].content)) = mail[k].content

\* Structures of one size are at multiples of that size.
LEMMA CutEvenly ==
  ASSUME NEW n \in Nat, NEW size \in Nat, NEW pos \in [1 .. n + 1 -> Nat],
         pos[1] = 0, \A k \in 1 .. n : pos[k + 1] = pos[k] + size
  PROVE  \A k \in 1 .. n + 1 : pos[k] = (k - 1) * size
<1>. DEFINE Bad == {k \in 1 .. n + 1 : pos[k] # (k - 1) * size}
<1>1. SUFFICES ASSUME Bad # {}
               PROVE  FALSE
  OBVIOUS
<1>2. Bad \in SUBSET Nat
  OBVIOUS
<1>3. PICK m \in Bad : \A q \in Bad : m <= q
  <2>. HIDE DEF Bad
  <2>. QED
    BY <1>1, <1>2, LeastNumber
<1>4. m \in 1 .. n + 1 /\ pos[m] # (m - 1) * size
  OBVIOUS
<1>6. m # 1
  <2>1. (1 - 1) * size = 0
    OBVIOUS
  <2>. QED
    BY <1>4, <2>1
<1>7. m - 1 \in 1 .. n /\ m - 1 \in 1 .. n + 1 /\ ~(m <= m - 1) /\ (m - 1) + 1 = m
  BY <1>4, <1>6
<1>8. pos[m - 1] = (m - 1 - 1) * size
  <2>1. m - 1 \notin Bad
    <3>. HIDE DEF Bad
    <3>. QED
      BY <1>3, <1>7
  <2>. QED
    BY <1>7, <2>1
<1>9. pos[m] = (m - 1 - 1) * size + size
  BY <1>7, <1>8
<1>10. \A x, y \in Nat : x * y + y = (x + 1) * y
  OBVIOUS
<1>11. m - 1 - 1 \in Nat /\ (m - 1 - 1) + 1 = m - 1
  BY <1>7
<1>. QED
  BY <1>4, <1>9, <1>10, <1>11

\* The answer with the list of clients.
LEMMA ListIsLaidOut ==
  ASSUME NEW n \in Nat, NEW order \in [1 .. n -> Nat], NEW table, NEW entries, NEW b \in Behind,
         \A k \in 1 .. n : /\ table[order[k]].id = ClientId(order[k])
                           /\ table[order[k]].name = entries[order[k]].name
                           /\ entries[order[k]].name \in Name
  PROVE  LET text == FlattenSeq([k \in 1 .. n |-> ClientStruct(table[order[k]], b)]) IN
         text \in Seq(Nat) /\ Listed(text, order, entries)
<1>. DEFINE seqs == [k \in 1 .. n |-> ClientStruct(table[order[k]], b)]
            text == FlattenSeq(seqs)
            C    == ClientSize
<1>1. IdSize \in Nat \ {0} /\ NameSize \in Nat \ {0}
  BY WireAssumption
<1>2. ASSUME NEW k \in 1 .. n
      PROVE  /\ seqs[k] \in Seq(Nat) /\ Len(seqs[k]) = C
             /\ \A j \in 1 .. IdSize : seqs[k][j] = ClientId(order[k])[j]
             /\ \A j \in 1 .. NameSize :
                  seqs[k][IdSize + j] = Copied(entries[order[k]].name, NameSize, b)[j]
  <2>1. order[k] \in Nat
    OBVIOUS
  <2>. DEFINE row == table[order[k]]
  <2>2. row.id = ClientId(order[k]) /\ row.name \in Name /\ row.name = entries[order[k]].name
    OBVIOUS
  <2>3. seqs[k] = ClientStruct(row, b)
    OBVIOUS
  <2>. HIDE DEF seqs, row
  <2>. QED
    BY <2>1, <2>2, <2>3, ClientStructFields
<1>3. seqs \in [1 .. n -> Seq(Nat)]
  BY <1>2
<1>. HIDE DEF seqs
<1>4. seqs \in Seq(Seq(Nat)) /\ Len(seqs) = n
  BY <1>3, ArrayIsSeq
<1>5. text \in Seq(Nat)
  BY <1>4, Flatten
<1>6. PICK pos : Cut(pos, seqs, n, text)
  BY <1>4, Flatten
<1>. HIDE DEF text
<1>7. C \in Nat /\ C = IdSize + NameSize
  BY <1>1 DEF ClientSize
<1>. HIDE DEF C
<1>8. \A k \in 1 .. n + 1 : pos[k] = (k - 1) * C
  <2>1. C \in Nat
    BY <1>7
  <2>2. pos \in [1 .. n + 1 -> 0 .. Len(text)] /\ pos[1] = 0
    BY <1>6 DEF Cut
  <2>3. \A k \in 1 .. n : pos[k + 1] = pos[k] + C
    <3>1. \A k \in 1 .. n : Len(seqs[k]) = C
      BY <1>2
    <3>2. \A k \in 1 .. n : pos[k + 1] = pos[k] + Len(seqs[k])
      BY <1>6 DEF Cut
    <3>. QED
      BY <3>1, <3>2
  <2>4. pos \in [1 .. n + 1 -> Nat]
    BY <2>2
  <2>. QED
    BY <2>1, <2>2, <2>3, <2>4, CutEvenly
<1>9. /\ pos[n + 1] = Len(text) /\ pos \in [1 .. n + 1 -> 0 .. Len(text)]
      /\ \A k \in 1 .. n : /\ pos[k + 1] = pos[k] + C
                           /\ \A j \in 1 .. C : text[pos[k] + j] = seqs[k][j]
  <2>1. \A k \in 1 .. n : Len(seqs[k]) = C
    BY <1>2
  <2>. QED
    BY <1>6, <2>1 DEF Cut
<1>10. Len(text) \in Nat
  BY <1>5, LenProperties
<1>11. ASSUME NEW k \in 1 .. n
       PROVE  /\ Field(text, pos[k] + 1, IdSize) = ClientId(order[k])
              /\ ShownAs(entries[order[k]].name, CString(text, pos[k] + IdSize + 1))
  <2>1. /\ k \in 1 .. n + 1 /\ k + 1 \in 1 .. n + 1
    OBVIOUS
  <2>2. pos[k] \in Nat /\ pos[k] + C <= Len(text)
    <3>1. pos[k] \in 0 .. Len(text) /\ pos[k + 1] \in 0 .. Len(text)
      BY <1>9, <2>1
    <3>2. pos[k + 1] = pos[k] + C
      BY <1>9
    <3>. QED
      BY <1>7, <1>10, <3>1, <3>2
  <2>. DEFINE p == pos[k]
              id == ClientId(order[k])
  <2>3. p \in Nat /\ p + IdSize + NameSize <= Len(text)
    BY <1>1, <1>7, <1>10, <2>2
  <2>4. id \in Seq(Nat) /\ Len(id) = IdSize
    BY ClientIdIsArray
  <2>5. \A j \in 1 .. IdSize : p + 1 + j - 1 = p + j /\ j \in 1 .. C
    BY <1>1, <1>7, <2>3
  <2>6. /\ \A j \in 1 .. NameSize : p + IdSize + 1 + j - 1 = p + (IdSize + j)
        /\ \A j \in 1 .. NameSize : IdSize + j \in 1 .. C
    <3>. HIDE DEF p
    <3>1. \A j \in 1 .. NameSize : p + IdSize + 1 + j - 1 = p + (IdSize + j)
      BY <1>1, <2>3
    <3>2. \A j \in 1 .. NameSize : IdSize + j \in 1 .. C
      BY <1>1, <1>7
    <3>. QED
      BY <3>1, <3>2
  <2>11. /\ \A j \in 1 .. C : text[p + j] = seqs[k][j]
         /\ \A j \in 1 .. IdSize : seqs[k][j] = id[j]
    BY <1>2, <1>9
  <2>7. \A j \in 1 .. Len(id) : text[p + 1 + j - 1] = id[j]
    <3>. HIDE DEF p, id
    <3>. QED
      BY <2>4, <2>5, <2>11
  <2>12. \A j \in 1 .. NameSize :
           seqs[k][IdSize + j] = Copied(entries[order[k]].name, NameSize, b)[j]
    BY <1>2
  <2>8. \A j \in 1 .. NameSize :
          text[p + IdSize + 1 + j - 1] = Copied(entries[order[k]].name, NameSize, b)[j]
    <3>. HIDE DEF p, id
    <3>. QED
      BY <2>6, <2>11, <2>12
  <2>. HIDE DEF id, p
  <2>9. Field(text, p + 1, Len(id)) = id
    <3>1. p + 1 \in Nat /\ id \in Seq(Nat)
      BY <2>3, <2>4
    <3>. QED
      BY <2>7, <3>1, FieldIs
  <2>10. ShownAs(entries[order[k]].name, CString(text, p + IdSize + 1))
    <3>1. p + IdSize + 1 \in Nat \ {0} /\ (p + IdSize + 1) + NameSize - 1 <= Len(text)
      BY <1>1, <1>10, <2>3
    <3>2. entries[order[k]].name \in Name
      OBVIOUS
    <3>. QED
      BY <1>5, <2>8, <3>1, <3>2, NameIsShown
  <2>. QED
    BY <2>4, <2>9, <2>10 DEF p, id
<1>12. Len(order) = n
  BY ArrayIsSeq
<1>13. n + 1 - 1 = n /\ n + 1 \in 1 .. n + 1
  OBVIOUS
<1>14. Len(text) = n * C
  BY <1>8, <1>9, <1>13
<1>15. \A k \in 1 .. n : pos[k] = (k - 1) * C
  BY <1>8
<1>16. Listed(text, order, entries)
  BY <1>11, <1>12, <1>14, <1>15 DEF Listed, C
<1>. QED
  BY <1>5, <1>16 DEF text, seqs

\* The answer with the messages.
LEMMA MailIsLaidOut ==
  ASSUME NEW mail \in Seq(Mail), NEW rows, Len(rows) = Len(mail),
         DOMAIN rows = 1 .. Len(mail),
         \A k \in 1 .. Len(mail) : rows[k] = RowOfMessage(mail[k]) /\ ~IsNumber(mail[k])
  PROVE  LET text == FlattenSeq([k \in DOMAIN rows |-> Packed(rows[k])]) IN
         /\ text \in Seq(Nat)
         /\ \E pos \in [1 .. Len(mail) + 1 -> 0 .. Len(text)] : Placed(text, pos, mail)
<1>. DEFINE n    == Len(mail)
            seqs == [k \in 1 .. n |-> Packed(RowOfMessage(mail[k]))]
            text == FlattenSeq(seqs)
<1>1. n \in Nat /\ IdSize \in Nat /\ \A k \in 1 .. n : mail[k] \in Mail
  BY WireAssumption, LenProperties, ElementOfSeq
<1>2. [k \in DOMAIN rows |-> Packed(rows[k])] = seqs
  OBVIOUS
<1>3. \A k \in 1 .. n : seqs[k] = Packed(RowOfMessage(mail[k]))
  OBVIOUS
<1>. HIDE DEF n
<1>4. ASSUME NEW k \in 1 .. n
      PROVE  /\ seqs[k] \in Seq(Nat)
             /\ Len(seqs[k]) = GotSize + Len(mail[k].content)
             /\ \A j \in 1 .. IdSize : seqs[k][j] = ClientId(mail[k].from)[j]
             /\ seqs[k][IdSize + 2] = mail[k].type /\ seqs[k][IdSize + 3] = Len(mail[k].content)
             /\ \A j \in 1 .. Len(mail[k].content) : seqs[k][GotSize + j] = mail[k].content[j]
  <2>. DEFINE m == mail[k]
  <2>1. m \in Mail /\ seqs[k] = Packed(RowOfMessage(m)) /\ ~IsNumber(m)
    BY <1>1, <1>3 DEF n
  <2>. HIDE DEF m, seqs
  <2>2. /\ seqs[k] \in Seq(Nat)
        /\ Len(seqs[k]) = GotSize + Len(m.content)
        /\ \A j \in 1 .. IdSize : seqs[k][j] = ClientId(m.from)[j]
        /\ seqs[k][IdSize + 2] = m.type /\ seqs[k][IdSize + 3] = Len(m.content)
        /\ \A j \in 1 .. Len(m.content) : seqs[k][GotSize + j] = m.content[j]
    BY <2>1, PackedFields
  <2>. QED
    BY <2>2 DEF m
<1>5. seqs \in [1 .. n -> Seq(Nat)]
  BY <1>4
<1>. HIDE DEF seqs
<1>6. seqs \in Seq(Seq(Nat)) /\ Len(seqs) = n
  BY <1>1, <1>5, ArrayIsSeq
<1>7. text \in Seq(Nat)
  BY <1>6, Flatten
<1>8. PICK pos : Cut(pos, seqs, n, text)
  BY <1>6, Flatten
<1>. HIDE DEF text
<1>9. /\ pos \in [1 .. n + 1 -> 0 .. Len(text)] /\ pos[1] = 0 /\ pos[n + 1] = Len(text)
      /\ \A k \in 1 .. n : /\ pos[k + 1] = pos[k] + Len(seqs[k])
                           /\ \A j \in 1 .. Len(seqs[k]) : text[pos[k] + j] = seqs[k][j]
  BY <1>8 DEF Cut
<1>10. ASSUME NEW k \in 1 .. n
       PROVE  /\ pos[k + 1] = pos[k] + GotSize + Len(mail[k].content)
              /\ Field(text, pos[k] + 1, IdSize) = ClientId(mail[k].from)
              /\ text[pos[k] + IdSize + 2] = mail[k].type
              /\ text[pos[k] + IdSize + 3] = Len(mail[k].content)
              /\ Field(text, pos[k] + GotSize + 1, Len(mail[k].content)) = mail[k].content
  <2>. DEFINE p       == pos[k]
              s       == seqs[k]
              content == mail[k].content
              id      == ClientId(mail[k].from)
  <2>1. /\ Len(s) = GotSize + Len(content)
        /\ \A j \in 1 .. IdSize : s[j] = id[j]
        /\ s[IdSize + 2] = mail[k].type /\ s[IdSize + 3] = Len(content)
        /\ \A j \in 1 .. Len(content) : s[GotSize + j] = content[j]
    BY <1>4
  <2>2. p \in Nat /\ pos[k + 1] = p + Len(s)
    <3>1. k \in 1 .. n + 1
      BY <1>1
    <3>. QED
      BY <1>9, <3>1
  <2>3. \A j \in 1 .. Len(s) : text[p + j] = s[j]
    BY <1>9
  <2>4. /\ id \in Seq(Nat) /\ Len(id) = IdSize
        /\ content \in Seq(Nat) /\ Len(content) \in Nat
        /\ GotSize = IdSize + 4
    BY <1>1, ClientIdIsArray, ContentsAreBytes DEF Mail, GotSize
  <2>. HIDE DEF p, s, content, id
  <2>5. pos[k + 1] = p + GotSize + Len(content)
    BY <1>1, <2>1, <2>2, <2>4
  <2>6. \A j \in 1 .. Len(id) : text[p + 1 + j - 1] = id[j]
    <3>1. \A j \in 1 .. Len(id) : p + 1 + j - 1 = p + j /\ j \in 1 .. IdSize /\ j \in 1 .. Len(s)
      BY <1>1, <2>1, <2>2, <2>4
    <3>. QED
      BY <2>1, <2>3, <3>1
  <2>7. text[p + IdSize + 2] = mail[k].type /\ text[p + IdSize + 3] = Len(content)
    <3>1. /\ IdSize + 2 \in 1 .. Len(s) /\ IdSize + 3 \in 1 .. Len(s)
          /\ p + IdSize + 2 = p + (IdSize + 2) /\ p + IdSize + 3 = p + (IdSize + 3)
      BY <1>1, <2>1, <2>2, <2>4
    <3>. QED
      BY <2>1, <2>3, <3>1
  <2>8. \A j \in 1 .. Len(content) : text[p + GotSize + 1 + j - 1] = content[j]
    <3>1. \A j \in 1 .. Len(content) : /\ p + GotSize + 1 + j - 1 = p + (GotSize + j)
                                       /\ GotSize + j \in 1 .. Len(s)
      BY <1>1, <2>1, <2>2, <2>4
    <3>. QED
      BY <2>1, <2>3, <3>1
  <2>9. Field(text, p + 1, Len(id)) = id
    <3>1. p + 1 \in Nat /\ id \in Seq(Nat)
      BY <2>2, <2>4
    <3>. QED
      BY <2>6, <3>1, FieldIs
  <2>10. Field(text, p + GotSize + 1, Len(content)) = content
    <3>1. p + GotSize + 1 \in Nat /\ content \in Seq(Nat)
      BY <1>1, <2>2, <2>4
    <3>. QED
      BY <2>8, <3>1, FieldIs
  <2>. QED
    BY <2>4, <2>5, <2>7, <2>9, <2>10 DEF p, content, id
<1>11. Placed(text, pos, mail)
  BY <1>9, <1>10 DEF Placed, n
<1>12. pos \in [1 .. Len(mail) + 1 -> 0 .. Len(text)]
  BY <1>9 DEF n
<1>. QED
  BY <1>2, <1>7, <1>11, <1>12 DEF text

\* How many structures an answer of whole structures has.
LEMMA WholeStructures ==
  ASSUME NEW n \in Nat
  PROVE  (n * ClientSize) \div ClientSize = n /\ n <= n * ClientSize
<1>1. ClientSize \in Nat \ {0}
  BY WireAssumption DEF ClientSize
<1>2. \A x \in Nat, y \in Nat \ {0} : (x * y) \div y = x
  OBVIOUS
<1>3. \A x \in Nat, y \in Nat \ {0} : x <= x * y
  OBVIOUS
<1>. QED
  BY <1>1, <1>2, <1>3

-----------------------------------------------------------------------------
(* The inductive invariant: what is in the database, in the request or answer that *)
(* is under way and on the screen, in terms of what the users entered.             *)

Asked(c)    == step = "request" /\ code = c
Answered(c) == step \in {"reading", "done"} /\ code = c

\* What the request for a registration asks; a new name is in the history before it
\* is in the database.
RegistrationAsked ==
  \E name \in Name, key \in PublicKey :
    /\ bytes = ReqMessage(NoId, REGISTRATION, Padded(name, NameSize) \o key)
    /\ Len(clients) < MaxClients
    /\ \/ /\ Len(meant) = Len(clients)
          /\ \E i \in DOMAIN meant : meant[i].name = name
       \/ /\ Len(meant) = Len(clients) + 1
          /\ meant[Len(meant)] = [name |-> name, key |-> key]
          /\ \A i \in DOMAIN clients : meant[i].name # name

ClientsInv ==
  /\ meant \in Seq(Entry) /\ clients \in Seq(ClientRow)
  /\ Len(clients) <= MaxClients /\ Len(clients) <= Len(meant)
  /\ \A i \in DOMAIN clients : clients[i] = RowOfClient(meant[i], i)
  /\ Asked(REGISTRATION) => RegistrationAsked
  /\ ~Asked(REGISTRATION) => Len(meant) = Len(clients)

\* The table of messages has the first n of kept, as rows.
Stored(kept, n) ==
  Len(messages) = n /\ \A k \in DOMAIN messages : messages[k] = RowOfMessage(kept[k])

SendAsked ==
  /\ Len(sent) # 0
  /\ LET m == sent[Len(sent)] IN
       bytes = ReqMessage(ClientId(m.from), SEND_MESSAGE,
                          SendPayload(ClientId(m.to), m.type, m.content))
  /\ Stored(sent, Len(sent) - 1)

\* The messages that the history has for the reader, and the others.
MailForReader == Rows(sent, ForReader)
OtherMail     == Rows(sent, DOMAIN sent \ ForReader)

\* The messages that are left when the server met a number.
KeptMail == Rows(sent, DOMAIN sent \ Lost)

MessagesInv ==
  /\ sent \in Seq(Mail) /\ messages \in Seq(MessageRow)
  /\ Len(sent) <= MaxMessages
  /\ Asked(SEND_MESSAGE) => SendAsked
  /\ Answered(GET_MESSAGES) => Stored(OtherMail, Len(OtherMail))
  /\ step = "silent" => Stored(KeptMail, Len(KeptMail)) /\ ForReader \ Lost # {}
  /\ ~Asked(SEND_MESSAGE) /\ ~Answered(GET_MESSAGES) /\ step # "silent" =>
       Stored(sent, Len(sent))

\* The program's place in an answer, and what it has read.
ProgramInv ==
  /\ step \in {"idle", "request", "reading", "done", "silent"}
  /\ step = "silent" => code = GET_MESSAGES
  /\ step # "idle" => code \in {REGISTRATION, CLIENT_LIST, PUBLIC_KEY, SEND_MESSAGE, GET_MESSAGES}
  /\ bytes \in Seq(Nat)
  /\ Len(shown) \in Nat /\ shown = [k \in 1 .. Len(shown) |-> shown[k]]
  /\ reader \in 0 .. MaxClients
  /\ step # "idle" /\ code # REGISTRATION => reader \in DOMAIN clients
  /\ step \in {"idle", "request", "silent"} => at = 0
  /\ code \in {REGISTRATION, PUBLIC_KEY, SEND_MESSAGE} => at = 0
  /\ step = "request" => shown = <<>>
  /\ step = "reading" /\ at = 0 => shown = <<>>

RequestInv ==
  /\ \A c \in {CLIENT_LIST, GET_MESSAGES} :
       Asked(c) => bytes = ReqMessage(ClientId(reader), c, <<>>)
  /\ Asked(PUBLIC_KEY) => \E v \in DOMAIN clients :
                            bytes = ReqMessage(ClientId(reader), PUBLIC_KEY, ClientId(v))

KeyInv ==
  Answered(PUBLIC_KEY) =>
    \E v \in DOMAIN clients : /\ bytes = KeyPayload(ClientId(v), meant[v].key)
                              /\ step = "done" => shown = <<meant[v].key>>

ListInv ==
  Answered(CLIENT_LIST) =>
    \E order \in SetToSeqs(DOMAIN clients \ {reader}) :
      /\ Listed(bytes, order, meant)
      /\ at \in 0 .. Len(order) /\ Len(shown) = at
      /\ \A k \in 1 .. at : /\ shown[k].id = ClientId(order[k])
                            /\ ShownAs(meant[order[k]].name, shown[k].name)
      /\ step = "done" => at = Len(order)

MailInv ==
  Answered(GET_MESSAGES) =>
    \E pos \in [1 .. Len(MailForReader) + 1 -> 0 .. Len(bytes)] :
      /\ Placed(bytes, pos, MailForReader)
      /\ Len(shown) <= Len(MailForReader) /\ at = pos[Len(shown) + 1]
      /\ \A k \in 1 .. Len(shown) : shown[k] = AsShown(MailForReader[k])
      /\ step = "done" => Len(shown) = Len(MailForReader)

WireInv ==
  /\ ClientsInv /\ MessagesInv /\ ProgramInv /\ RequestInv
  /\ KeyInv /\ ListInv /\ MailInv

\* The start.
LEMMA StartInv == Init => WireInv
<1>. SUFFICES ASSUME Init
              PROVE  WireInv
  OBVIOUS
<1>. USE DEF Init
<1>1. /\ Len(<<>>) = 0 /\ DOMAIN <<>> = {}
      /\ <<>> \in Seq(Nat) /\ <<>> \in Seq(Entry) /\ <<>> \in Seq(ClientRow)
      /\ <<>> \in Seq(Mail) /\ <<>> \in Seq(MessageRow)
      /\ 0 <= MaxClients /\ 0 <= MaxMessages /\ 0 \in 0 .. MaxClients
  BY WireAssumption, EmptySeq
<1>2. ClientsInv
  BY <1>1 DEF ClientsInv, Asked
<1>3. MessagesInv
  BY <1>1 DEF MessagesInv, Asked, Answered, Stored
<1>4. ProgramInv
  BY <1>1 DEF ProgramInv
<1>5. RequestInv /\ KeyInv /\ ListInv /\ MailInv
  BY DEF RequestInv, KeyInv, ListInv, MailInv, Asked, Answered
<1>. QED
  BY <1>2, <1>3, <1>4, <1>5 DEF WireInv

\* The codes are different numbers.
LEMMA CodesDiffer ==
  /\ REGISTRATION \in Nat /\ CLIENT_LIST \in Nat /\ PUBLIC_KEY \in Nat
  /\ SEND_MESSAGE \in Nat /\ GET_MESSAGES \in Nat
  /\ REGISTRATION # CLIENT_LIST /\ REGISTRATION # PUBLIC_KEY /\ REGISTRATION # SEND_MESSAGE
  /\ REGISTRATION # GET_MESSAGES /\ CLIENT_LIST # PUBLIC_KEY /\ CLIENT_LIST # SEND_MESSAGE
  /\ CLIENT_LIST # GET_MESSAGES /\ PUBLIC_KEY # SEND_MESSAGE /\ PUBLIC_KEY # GET_MESSAGES
  /\ SEND_MESSAGE # GET_MESSAGES
BY DEF REGISTRATION, CLIENT_LIST, PUBLIC_KEY, SEND_MESSAGE, GET_MESSAGES

\* A request that the server dispatches by the code in its header is the one that the
\* program remembers.
LEMMA ServesWhatWasAsked ==
  ASSUME WireInv, NEW c, Serves(c)
  PROVE  Asked(c)
<1>1. step = "request" /\ Code(bytes) = c
  BY DEF Serves
<1>2. code \in {REGISTRATION, CLIENT_LIST, PUBLIC_KEY, SEND_MESSAGE, GET_MESSAGES}
  BY <1>1 DEF WireInv, ProgramInv
<1>3. \A i \in DOMAIN clients : i \in Nat
  BY DEF WireInv, ClientsInv
<1>4. code # REGISTRATION => reader \in Nat
  BY <1>1, <1>3 DEF WireInv, ProgramInv
<1>5. CASE code = REGISTRATION
  <2>1. PICK name \in Name, key \in PublicKey :
          bytes = ReqMessage(NoId, REGISTRATION, Padded(name, NameSize) \o key)
    BY <1>1, <1>5 DEF WireInv, ClientsInv, Asked, RegistrationAsked
  <2>. QED
    BY <1>1, <1>5, <2>1, RequestForRegistration DEF Asked
<1>6. CASE code \in {CLIENT_LIST, GET_MESSAGES}
  <2>1. bytes = ReqMessage(ClientId(reader), code, <<>>)
    BY <1>1, <1>6 DEF WireInv, RequestInv, Asked
  <2>2. <<>> \in Seq(Nat) /\ ClientId(reader) \in [1 .. IdSize -> Nat] /\ code \in Nat
    BY <1>4, <1>6, CodesDiffer, ClientIdIsArray, EmptySeq
  <2>3. Code(bytes) = code
    BY <2>1, <2>2, RequestFields
  <2>. QED
    BY <1>1, <2>3 DEF Asked
<1>7. CASE code = PUBLIC_KEY
  <2>1. PICK v \in DOMAIN clients :
          bytes = ReqMessage(ClientId(reader), PUBLIC_KEY, ClientId(v))
    BY <1>1, <1>7 DEF WireInv, RequestInv, Asked
  <2>2. ClientId(v) \in Seq(Nat) /\ ClientId(reader) \in [1 .. IdSize -> Nat] /\ PUBLIC_KEY \in Nat
    BY <1>3, <1>4, <1>7, CodesDiffer, ClientIdIsArray
  <2>3. Code(bytes) = PUBLIC_KEY
    BY <2>1, <2>2, RequestFields
  <2>. QED
    BY <1>1, <1>7, <2>3 DEF Asked
<1>8. CASE code = SEND_MESSAGE
  <2>. DEFINE m == sent[Len(sent)]
  <2>1. /\ bytes = ReqMessage(ClientId(m.from), SEND_MESSAGE,
                              SendPayload(ClientId(m.to), m.type, m.content))
        /\ sent \in Seq(Mail) /\ Len(sent) # 0
    BY <1>1, <1>8 DEF WireInv, MessagesInv, SendAsked, Asked
  <2>2. m \in Mail
    BY <2>1, LenProperties, ElementOfSeq
  <2>. HIDE DEF m
  <2>3. Code(bytes) = SEND_MESSAGE
    BY <2>1, <2>2, RequestForSend
  <2>. QED
    BY <1>1, <1>8, <2>3 DEF Asked
<1>. QED
  BY <1>2, <1>5, <1>6, <1>7, <1>8

-----------------------------------------------------------------------------
(* Requests. *)

\* Every key that was entered is a sequence of bytes.
LEMMA KeysAreBytes ==
  ASSUME NEW key \in PublicKey
  PROVE  key \in Seq(0 .. 255) /\ key \in Seq(Nat) /\ Len(key) = KeySize
<1>1. KeySize \in Nat /\ key \in [1 .. KeySize -> 0 .. 255] /\ 0 .. 255 \subseteq Nat
  BY WireAssumption
<1>2. key \in Seq(0 .. 255) /\ Len(key) = KeySize
  BY <1>1, ArrayIsSeq
<1>. QED
  BY <1>1, <1>2, SeqMonotonic

\* What every request leaves behind in the program.
LEMMA AskProgram ==
  ASSUME WireInv, NEW u, NEW id \in [1 .. IdSize -> Nat], NEW c, NEW payload \in Seq(Nat),
         c \in {REGISTRATION, CLIENT_LIST, PUBLIC_KEY, SEND_MESSAGE, GET_MESSAGES},
         c # REGISTRATION => u \in DOMAIN clients,
         u \in 0 .. MaxClients,
         Asks(u, id, c, payload)
  PROVE  /\ ProgramInv' /\ KeyInv' /\ ListInv' /\ MailInv'
         /\ step = "idle" /\ step' = "request" /\ code' = c /\ reader' = u
         /\ bytes' = ReqMessage(id, c, payload)
         /\ clients' = clients /\ messages' = messages
<1>. USE DEF Asks
<1>1. c \in Nat
  BY CodesDiffer
<1>2. bytes' \in Seq(Nat)
  BY <1>1, RequestFields
<1>3. Len(<<>>) = 0 /\ <<>> = [k \in 1 .. 0 |-> <<>>[k]]
  BY EmptySeq
<1>4. ProgramInv'
  BY <1>2, <1>3 DEF ProgramInv
<1>5. KeyInv' /\ ListInv' /\ MailInv'
  BY DEF KeyInv, ListInv, MailInv, Answered
<1>. QED
  BY <1>4, <1>5

\* Numbers of clients.
LEMMA ClientNumbers ==
  ASSUME ClientsInv, NEW u \in DOMAIN clients
  PROVE  u \in Nat /\ u \in 0 .. MaxClients /\ u \in DOMAIN meant
<1>1. /\ Len(clients) \in Nat /\ DOMAIN clients = 1 .. Len(clients)
      /\ Len(meant) \in Nat /\ DOMAIN meant = 1 .. Len(meant)
  BY LenProperties DEF ClientsInv
<1>2. Len(clients) <= MaxClients /\ Len(clients) <= Len(meant) /\ MaxClients \in Nat
  BY WireAssumption DEF ClientsInv
<1>. QED
  BY <1>1, <1>2

\* In a step that changes neither the database nor the history the clients stay right,
\* unless a registration begins or ends.
LEMMA ClientsStay ==
  ASSUME ClientsInv, clients' = clients, meant' = meant,
         ~Asked(REGISTRATION), ~Asked(REGISTRATION)'
  PROVE  ClientsInv'
BY DEF ClientsInv

\* A request for the list of clients.
LEMMA AskListStep ==
  ASSUME WireInv, NEW u \in DOMAIN clients, AskList(u)
  PROVE  WireInv'
<1>1. u \in Nat /\ u \in 0 .. MaxClients
  BY ClientNumbers DEF WireInv
<1>2. ClientId(u) \in [1 .. IdSize -> Nat] /\ <<>> \in Seq(Nat)
  BY <1>1, ClientIdIsArray, EmptySeq
<1>3. Asks(u, ClientId(u), CLIENT_LIST, <<>>) /\ meant' = meant /\ sent' = sent
  BY DEF AskList
<1>4. /\ ProgramInv' /\ KeyInv' /\ ListInv' /\ MailInv'
      /\ step = "idle" /\ step' = "request" /\ code' = CLIENT_LIST /\ reader' = u
      /\ bytes' = ReqMessage(ClientId(u), CLIENT_LIST, <<>>)
      /\ clients' = clients /\ messages' = messages
  BY <1>1, <1>2, <1>3, AskProgram
<1>5. ClientsInv'
  BY <1>3, <1>4, CodesDiffer, ClientsStay DEF WireInv, Asked
<1>6. MessagesInv'
  BY <1>3, <1>4, CodesDiffer DEF WireInv, MessagesInv, Asked, Answered, Stored
<1>7. RequestInv'
  BY <1>4, CodesDiffer DEF RequestInv, Asked
<1>. QED
  BY <1>4, <1>5, <1>6, <1>7 DEF WireInv

\* A request for the waiting messages.
LEMMA AskMessagesStep ==
  ASSUME WireInv, NEW u \in DOMAIN clients, AskMessages(u)
  PROVE  WireInv'
<1>1. u \in Nat /\ u \in 0 .. MaxClients
  BY ClientNumbers DEF WireInv
<1>2. ClientId(u) \in [1 .. IdSize -> Nat] /\ <<>> \in Seq(Nat)
  BY <1>1, ClientIdIsArray, EmptySeq
<1>3. Asks(u, ClientId(u), GET_MESSAGES, <<>>) /\ meant' = meant /\ sent' = sent
  BY DEF AskMessages
<1>4. /\ ProgramInv' /\ KeyInv' /\ ListInv' /\ MailInv'
      /\ step = "idle" /\ step' = "request" /\ code' = GET_MESSAGES /\ reader' = u
      /\ bytes' = ReqMessage(ClientId(u), GET_MESSAGES, <<>>)
      /\ clients' = clients /\ messages' = messages
  BY <1>1, <1>2, <1>3, AskProgram
<1>5. ClientsInv'
  BY <1>3, <1>4, CodesDiffer, ClientsStay DEF WireInv, Asked
<1>6. MessagesInv'
  BY <1>3, <1>4, CodesDiffer DEF WireInv, MessagesInv, Asked, Answered, Stored
<1>7. RequestInv'
  BY <1>4, CodesDiffer DEF RequestInv, Asked
<1>. QED
  BY <1>4, <1>5, <1>6, <1>7 DEF WireInv

\* A request for a client's public key.
LEMMA AskPublicKeyStep ==
  ASSUME WireInv, NEW u \in DOMAIN clients, NEW v \in DOMAIN clients, AskPublicKey(u, v)
  PROVE  WireInv'
<1>1. u \in Nat /\ u \in 0 .. MaxClients /\ v \in Nat
  BY ClientNumbers DEF WireInv
<1>2. ClientId(u) \in [1 .. IdSize -> Nat] /\ ClientId(v) \in Seq(Nat)
  BY <1>1, ClientIdIsArray
<1>3. Asks(u, ClientId(u), PUBLIC_KEY, ClientId(v)) /\ meant' = meant /\ sent' = sent
  BY DEF AskPublicKey
<1>4. /\ ProgramInv' /\ KeyInv' /\ ListInv' /\ MailInv'
      /\ step = "idle" /\ step' = "request" /\ code' = PUBLIC_KEY /\ reader' = u
      /\ bytes' = ReqMessage(ClientId(u), PUBLIC_KEY, ClientId(v))
      /\ clients' = clients /\ messages' = messages
  BY <1>1, <1>2, <1>3, AskProgram
<1>5. ClientsInv'
  BY <1>3, <1>4, CodesDiffer, ClientsStay DEF WireInv, Asked
<1>6. MessagesInv'
  BY <1>3, <1>4, CodesDiffer DEF WireInv, MessagesInv, Asked, Answered, Stored
<1>7. RequestInv'
  BY <1>4, CodesDiffer DEF RequestInv, Asked
<1>. QED
  BY <1>4, <1>5, <1>6, <1>7 DEF WireInv

\* A request with a message, which is in the history at once.
LEMMA AskSendStep ==
  ASSUME WireInv, NEW u \in DOMAIN clients, NEW v \in DOMAIN clients,
         NEW type \in Type, NEW content \in Content, AskSend(u, v, type, content)
  PROVE  WireInv'
<1>. DEFINE m == [from |-> u, to |-> v, type |-> type, content |-> content]
<1>1. /\ u \in Nat /\ u \in 0 .. MaxClients /\ v \in Nat /\ type \in Nat
      /\ IdSize \in Nat /\ MaxMessages \in Nat
  BY ClientNumbers, WireAssumption DEF WireInv
<1>2. ClientId(u) \in [1 .. IdSize -> Nat]
  BY <1>1, ClientIdIsArray
<1>3. m \in Mail
  BY <1>1 DEF Mail
<1>4. SendPayload(ClientId(v), type, content) \in Seq(Nat)
  <2>1. /\ ClientId(v) \in Seq(Nat)
        /\ <<type, Len(content), 0>> \in Seq(Nat) /\ content \in Seq(Nat)
    BY <1>1, ClientIdIsArray, ContentsAreBytes
  <2>. QED
    BY <2>1, ThreeParts DEF SendPayload
<1>5. /\ Asks(u, ClientId(u), SEND_MESSAGE, SendPayload(ClientId(v), type, content))
      /\ meant' = meant /\ sent' = Append(sent, m) /\ Len(messages) < MaxMessages
  BY DEF AskSend
<1>6. /\ ProgramInv' /\ KeyInv' /\ ListInv' /\ MailInv'
      /\ step = "idle" /\ step' = "request" /\ code' = SEND_MESSAGE /\ reader' = u
      /\ bytes' = ReqMessage(ClientId(u), SEND_MESSAGE, SendPayload(ClientId(v), type, content))
      /\ clients' = clients /\ messages' = messages
  BY <1>1, <1>2, <1>4, <1>5, AskProgram
<1>7. ClientsInv'
  BY <1>5, <1>6, CodesDiffer, ClientsStay DEF WireInv, Asked
<1>8. MessagesInv'
  <2>1. sent \in Seq(Mail) /\ messages \in Seq(MessageRow) /\ Stored(sent, Len(sent))
    BY <1>6 DEF WireInv, MessagesInv, Asked, Answered
  <2>2. Len(sent) \in Nat /\ Len(messages) = Len(sent) /\ DOMAIN messages = 1 .. Len(messages)
    BY <2>1, LenProperties DEF Stored
  <2>3. /\ sent' \in Seq(Mail) /\ Len(sent') = Len(sent) + 1
        /\ \A k \in 1 .. Len(sent) : sent'[k] = sent[k]
        /\ sent'[Len(sent) + 1] = m
    BY <1>3, <1>5, <2>1, AppendProperties
  <2>4. sent'[Len(sent')] = m /\ Len(sent') # 0 /\ Len(sent') - 1 = Len(sent)
    BY <2>2, <2>3
  <2>5. Stored(sent, Len(sent) - 1)'
    BY <1>6, <2>1, <2>2, <2>3, <2>4 DEF Stored
  <2>6. bytes' = ReqMessage(ClientId(m.from), SEND_MESSAGE,
                            SendPayload(ClientId(m.to), m.type, m.content))
    BY <1>6
  <2>. HIDE DEF m
  <2>7. SendAsked'
    BY <2>4, <2>5, <2>6 DEF SendAsked
  <2>8. Len(sent') <= MaxMessages
    BY <1>1, <1>5, <2>2, <2>3
  <2>. QED
    BY <1>6, <2>1, <2>3, <2>7, <2>8, CodesDiffer DEF MessagesInv, Asked, Answered
<1>9. RequestInv'
  BY <1>6, CodesDiffer DEF RequestInv, Asked
<1>. QED
  BY <1>6, <1>7, <1>8, <1>9 DEF WireInv

\* A request for a registration, whose name may be taken.
LEMMA AskRegistrationStep ==
  ASSUME WireInv, NEW name \in Name, NEW key \in PublicKey, AskRegistration(name, key)
  PROVE  WireInv'
<1>. DEFINE e    == [name |-> name, key |-> key]
            n    == Len(clients)
            text == Padded(name, NameSize) \o key
<1>1. /\ clients \in Seq(ClientRow) /\ meant \in Seq(Entry)
      /\ n \in Nat /\ n <= MaxClients /\ DOMAIN clients = 1 .. n
      /\ MaxClients \in Nat /\ NameSize \in Nat
  BY WireAssumption, LenProperties DEF WireInv, ClientsInv
<1>2. NoId \in [1 .. IdSize -> Nat] /\ text \in Seq(Nat)
  <2>1. /\ name \in Seq(1 .. 127) /\ Len(name) <= NameSize
    BY WireAssumption
  <2>2. Padded(name, NameSize) \in Seq(0 .. 255) /\ 0 .. 255 \subseteq Nat
    BY <1>1, <2>1, StripPadded
  <2>3. Padded(name, NameSize) \in Seq(Nat)
    BY <2>2, SeqMonotonic
  <2>4. key \in Seq(Nat)
    BY KeysAreBytes
  <2>5. text \in Seq(Nat)
    BY <2>3, <2>4, ConcatProperties
  <2>. QED
    BY <2>5, NoIdIsArray
<1>3. /\ Asks(n + 1, NoId, REGISTRATION, text) /\ n < MaxClients /\ sent' = sent
      /\ meant' = IF \E i \in DOMAIN meant : meant[i].name = name THEN meant
                  ELSE Append(meant, e)
  BY DEF AskRegistration
<1>4. n + 1 \in 0 .. MaxClients
  BY <1>1, <1>3
<1>. HIDE DEF text
<1>5. /\ ProgramInv' /\ KeyInv' /\ ListInv' /\ MailInv'
      /\ step = "idle" /\ step' = "request" /\ code' = REGISTRATION
      /\ bytes' = ReqMessage(NoId, REGISTRATION, text)
      /\ clients' = clients /\ messages' = messages
  BY <1>2, <1>3, <1>4, AskProgram
<1>6. ClientsInv'
  <2>1. Len(meant) = n /\ DOMAIN meant = 1 .. n
    <3>1. Len(meant) = n
      BY <1>5 DEF WireInv, ClientsInv, Asked
    <3>. QED
      BY <1>1, <3>1, LenProperties
  <2>2. bytes' = ReqMessage(NoId, REGISTRATION, Padded(name, NameSize) \o key)
    BY <1>5 DEF text
  <2>3. Len(clients') < MaxClients
    BY <1>3, <1>5
  <2>4. \A i \in DOMAIN clients : clients[i] = RowOfClient(meant[i], i)
    BY DEF WireInv, ClientsInv
  <2>5. CASE \E i \in DOMAIN meant : meant[i].name = name
    <3>1. meant' = meant
      BY <1>3, <2>5
    <3>2. RegistrationAsked'
      BY <1>5, <2>1, <2>2, <2>3, <2>5, <3>1 DEF RegistrationAsked
    <3>. QED
      BY <1>1, <1>5, <2>1, <2>4, <3>1, <3>2 DEF ClientsInv, Asked
  <2>6. CASE ~ \E i \in DOMAIN meant : meant[i].name = name
    <3>1. e \in Entry
      BY DEF Entry
    <3>2. meant' = Append(meant, e)
      BY <1>3, <2>6
    <3>. HIDE DEF e
    <3>3. /\ meant' \in Seq(Entry) /\ Len(meant') = n + 1
          /\ \A i \in 1 .. n : meant'[i] = meant[i]
          /\ meant'[n + 1] = e
      BY <1>1, <2>1, <3>1, <3>2, AppendProperties
    <3>4. \A i \in DOMAIN clients' : meant'[i].name # name
      BY <1>1, <1>5, <2>1, <2>6, <3>3
    <3>5. RegistrationAsked'
      <4>1. meant'[Len(meant')] = [name |-> name, key |-> key]
        BY <3>3 DEF e
      <4>. QED
        BY <1>5, <2>2, <2>3, <3>3, <3>4, <4>1 DEF RegistrationAsked
    <3>6. \A i \in DOMAIN clients' : clients'[i] = RowOfClient(meant'[i], i)
      BY <1>1, <1>5, <2>4, <3>3
    <3>. QED
      BY <1>1, <1>5, <3>3, <3>5, <3>6 DEF ClientsInv, Asked
  <2>. QED
    BY <2>5, <2>6
<1>7. MessagesInv'
  BY <1>3, <1>5, CodesDiffer DEF WireInv, MessagesInv, Asked, Answered, Stored
<1>8. RequestInv'
  BY <1>5, CodesDiffer DEF RequestInv, Asked
<1>. QED
  BY <1>5, <1>6, <1>7, <1>8 DEF WireInv

-----------------------------------------------------------------------------
(* Answers. *)

\* What every answer leaves as it is in the program.
LEMMA ServeProgram ==
  ASSUME WireInv, NEW c, Serves(c), bytes' \in Seq(Nat), step' \in {"reading", "done", "silent"},
         step' = "silent" => c = GET_MESSAGES, DOMAIN clients \subseteq DOMAIN clients'
  PROVE  /\ ProgramInv' /\ RequestInv'
         /\ Asked(c) /\ code' = c /\ reader' = reader /\ meant' = meant /\ sent' = sent
         /\ at' = 0 /\ shown' = <<>> /\ at = 0 /\ shown = <<>>
         /\ c # REGISTRATION => reader \in DOMAIN clients
<1>1. Asked(c)
  BY ServesWhatWasAsked
<1>2. /\ code' = code /\ reader' = reader /\ at' = at /\ shown' = shown
      /\ meant' = meant /\ sent' = sent
  BY DEF Serves
<1>3. step = "request" /\ code = c
  BY <1>1 DEF Asked
<1>4. /\ at = 0 /\ shown = <<>> /\ reader \in 0 .. MaxClients
      /\ c \in {REGISTRATION, CLIENT_LIST, PUBLIC_KEY, SEND_MESSAGE, GET_MESSAGES}
      /\ c # REGISTRATION => reader \in DOMAIN clients
      /\ Len(shown) \in Nat /\ shown = [k \in 1 .. Len(shown) |-> shown[k]]
  BY <1>3 DEF WireInv, ProgramInv
<1>5. ProgramInv'
  BY <1>2, <1>3, <1>4 DEF ProgramInv
<1>6. RequestInv'
  BY DEF RequestInv, Asked
<1>. QED
  BY <1>1, <1>2, <1>3, <1>4, <1>5, <1>6

\* The server stores the name and the key as they were entered, as text.
LEMMA ServeRegistrationStep ==
  ASSUME WireInv, ServeRegistration
  PROVE  WireInv'
<1>. DEFINE n == Len(clients)
<1>1. /\ Serves(REGISTRATION) /\ messages' = messages
      /\ meant' = meant /\ sent' = sent /\ code' = code
  BY DEF ServeRegistration, Serves
<1>2. Asked(REGISTRATION)
  BY <1>1, ServesWhatWasAsked
<1>3. /\ clients \in Seq(ClientRow) /\ meant \in Seq(Entry)
      /\ n \in Nat /\ n <= MaxClients /\ DOMAIN clients = 1 .. n
      /\ MaxClients \in Nat /\ IdSize \in Nat
      /\ \A i \in 1 .. n : clients[i] = RowOfClient(meant[i], i)
      /\ bytes \in Seq(Nat)
  BY WireAssumption, LenProperties DEF WireInv, ClientsInv, ProgramInv
<1>4. PICK name \in Name, key \in PublicKey :
        /\ bytes = ReqMessage(NoId, REGISTRATION, Padded(name, NameSize) \o key)
        /\ n < MaxClients
        /\ \/ /\ Len(meant) = n
              /\ \E i \in DOMAIN meant : meant[i].name = name
           \/ /\ Len(meant) = n + 1
              /\ meant[Len(meant)] = [name |-> name, key |-> key]
              /\ \A i \in DOMAIN clients : meant[i].name # name
  BY <1>2 DEF WireInv, ClientsInv, RegistrationAsked
<1>5. Strip(NameOf(bytes)) = name /\ PublicKeyOf(bytes) = key
  BY <1>4, RequestForRegistration
<1>6. \A i \in 1 .. n : clients[i].name = meant[i].name
  BY <1>3 DEF RowOfClient
<1>7. /\ step' \in {"reading", "done"} /\ bytes' \in Seq(Nat)
      /\ DOMAIN clients \subseteq DOMAIN clients' /\ ClientsInv'
  <2>1. CASE \E i \in DOMAIN clients : clients[i].name = name
    <3>1. clients' = clients /\ bytes' = bytes /\ step' = "done"
      BY <1>5, <2>1 DEF ServeRegistration
    <3>2. Len(meant) = n
      BY <1>3, <1>4, <1>6, <2>1
    <3>. QED
      BY <1>1, <1>3, <3>1, <3>2 DEF ClientsInv, Asked
  <2>2. CASE ~ \E i \in DOMAIN clients : clients[i].name = name
    <3>. DEFINE row == [id |-> ClientId(n + 1), name |-> name, public_key |-> HexText(key)]
    <3>1. /\ clients' = Append(clients, row) /\ step' = "reading"
          /\ bytes' = ClientId(n + 1)
      BY <1>5, <2>2 DEF ServeRegistration, Answers, RegisteredPayload
    <3>2. row \in ClientRow /\ bytes' \in Seq(Nat)
      <4>1. ClientId(n + 1) \in Seq(Nat) /\ HexText(key) \in Seq(Nat)
        BY <1>3, ClientIdIsArray, KeysAreBytes, HexRoundTrip
      <4>. QED
        BY <3>1, <4>1 DEF ClientRow
    <3>3. /\ Len(meant) = n + 1 /\ DOMAIN meant = 1 .. n + 1
          /\ meant[n + 1] = [name |-> name, key |-> key]
      <4>1. ~(Len(meant) = n /\ \E i \in DOMAIN meant : meant[i].name = name)
        <5>1. Len(meant) = n => DOMAIN meant = 1 .. n
          BY <1>3, LenProperties
        <5>. QED
          BY <1>3, <1>6, <2>2, <5>1
      <4>2. Len(meant) = n + 1 /\ meant[n + 1] = [name |-> name, key |-> key]
        BY <1>4, <4>1
      <4>. QED
        BY <1>3, <4>2, LenProperties
    <3>4. row = RowOfClient(meant[n + 1], n + 1)
      BY <3>3 DEF RowOfClient
    <3>. HIDE DEF row
    <3>5. /\ clients' \in Seq(ClientRow) /\ Len(clients') = n + 1
          /\ \A i \in 1 .. n : clients'[i] = clients[i]
          /\ clients'[n + 1] = row
      BY <1>3, <3>1, <3>2, AppendProperties
    <3>6. DOMAIN clients' = 1 .. n + 1
      BY <3>5, LenProperties
    <3>7. \A i \in DOMAIN clients' : clients'[i] = RowOfClient(meant[i], i)
      <4>1. \A i \in 1 .. n + 1 : i \in 1 .. n \/ i = n + 1
        BY <1>3
      <4>. QED
        BY <1>3, <3>4, <3>5, <3>6, <4>1
    <3>8. Len(clients') <= MaxClients /\ Len(clients') <= Len(meant)
      <4>1. n + 1 <= MaxClients /\ n + 1 <= n + 1
        BY <1>3, <1>4
      <4>. QED
        BY <3>3, <3>5, <4>1
    <3>9. ClientsInv'
      BY <1>1, <1>3, <3>1, <3>3, <3>5, <3>7, <3>8 DEF ClientsInv, Asked
    <3>. QED
      BY <1>3, <3>1, <3>2, <3>6, <3>9
  <2>. QED
    BY <2>1, <2>2
<1>8. ProgramInv' /\ RequestInv' /\ code' = REGISTRATION /\ reader' = reader
  BY <1>1, <1>7, ServeProgram
<1>9. MessagesInv'
  BY <1>1, <1>2, <1>7, <1>8, CodesDiffer DEF WireInv, MessagesInv, Asked, Answered, Stored
<1>10. KeyInv' /\ ListInv' /\ MailInv'
  BY <1>8, CodesDiffer DEF KeyInv, ListInv, MailInv, Answered
<1>. QED
  BY <1>7, <1>8, <1>9, <1>10 DEF WireInv

\* The server answers with the bytes of the key.
LEMMA ServePublicKeyStep ==
  ASSUME WireInv, ServePublicKey
  PROVE  WireInv'
<1>1. PICK i \in DOMAIN clients :
        /\ clients[i].id = PayloadId(bytes)
        /\ Answers(KeyPayload(clients[i].id, FromHex(clients[i].public_key, KeySize)))
  BY DEF ServePublicKey
<1>2. Serves(PUBLIC_KEY) /\ clients' = clients /\ messages' = messages
  BY DEF ServePublicKey
<1>3. /\ i \in Nat /\ i \in DOMAIN meant /\ meant[i] \in Entry
      /\ clients[i] = RowOfClient(meant[i], i)
  <2>1. i \in Nat /\ i \in DOMAIN meant /\ meant \in Seq(Entry)
    BY ClientNumbers DEF WireInv, ClientsInv
  <2>2. meant[i] \in Entry
    BY <2>1, LenProperties, ElementOfSeq
  <2>. QED
    BY <2>1, <2>2 DEF WireInv, ClientsInv
<1>4. meant[i].key \in PublicKey
  BY <1>3 DEF Entry
<1>. DEFINE key == meant[i].key
<1>5. FromHex(HexText(key), KeySize) = key
  <2>1. key \in Seq(0 .. 255) /\ Len(key) = KeySize
    BY <1>4, KeysAreBytes
  <2>2. FromHex(HexText(key), Len(key)) = key
    BY <2>1, HexRoundTrip
  <2>. QED
    BY <2>1, <2>2
<1>6. bytes' = KeyPayload(ClientId(i), key) /\ step' = "reading"
  BY <1>1, <1>3, <1>5 DEF Answers, RowOfClient
<1>7. bytes' \in Seq(Nat)
  <2>1. ClientId(i) \in Seq(Nat) /\ key \in Seq(Nat)
    BY <1>3, <1>4, ClientIdIsArray, KeysAreBytes
  <2>. QED
    BY <1>6, <2>1, ConcatProperties DEF KeyPayload
<1>8. /\ ProgramInv' /\ RequestInv' /\ Asked(PUBLIC_KEY)
      /\ code' = PUBLIC_KEY /\ meant' = meant /\ sent' = sent /\ reader' = reader
  BY <1>2, <1>6, <1>7, ServeProgram
<1>9. ClientsInv'
  BY <1>2, <1>6, <1>8, CodesDiffer, ClientsStay DEF WireInv, Asked
<1>10. MessagesInv'
  BY <1>2, <1>6, <1>8, CodesDiffer DEF WireInv, MessagesInv, Asked, Answered, Stored
<1>11. KeyInv'
  BY <1>2, <1>6, <1>8 DEF KeyInv
<1>12. ListInv' /\ MailInv'
  BY <1>8, CodesDiffer DEF ListInv, MailInv, Answered
<1>. QED
  BY <1>8, <1>9, <1>10, <1>11, <1>12 DEF WireInv

\* The server answers with the structures of the other clients, in some order.
LEMMA ServeListStep ==
  ASSUME WireInv, ServeList
  PROVE  WireInv'
<1>1. Serves(CLIENT_LIST) /\ clients' = clients /\ messages' = messages
  BY DEF ServeList
<1>2. Asked(CLIENT_LIST)
  BY <1>1, ServesWhatWasAsked
<1>3. /\ reader \in DOMAIN clients /\ reader \in Nat
      /\ bytes = ReqMessage(ClientId(reader), CLIENT_LIST, <<>>)
  <2>1. reader \in DOMAIN clients
    BY <1>2, CodesDiffer DEF WireInv, ProgramInv, Asked
  <2>. QED
    BY <1>2, <2>1, ClientNumbers DEF WireInv, RequestInv
<1>4. FromId(bytes) = ClientId(reader)
  <2>1. <<>> \in Seq(Nat) /\ ClientId(reader) \in [1 .. IdSize -> Nat] /\ CLIENT_LIST \in Nat
    BY <1>3, CodesDiffer, ClientIdIsArray, EmptySeq
  <2>. QED
    BY <1>3, <2>1, RequestFields
<1>5. \A i \in DOMAIN clients : /\ i \in Nat /\ i \in DOMAIN meant
                                /\ clients[i] = RowOfClient(meant[i], i)
                                /\ meant[i].name \in Name
  <2>1. ASSUME NEW i \in DOMAIN clients
        PROVE  /\ i \in Nat /\ i \in DOMAIN meant
               /\ clients[i] = RowOfClient(meant[i], i)
               /\ meant[i] \in Entry
    <3>1. i \in Nat /\ i \in DOMAIN meant /\ meant \in Seq(Entry)
      BY ClientNumbers DEF WireInv, ClientsInv
    <3>2. meant[i] \in Entry
      BY <3>1, LenProperties, ElementOfSeq
    <3>. QED
      BY <3>1, <3>2 DEF WireInv, ClientsInv
  <2>. QED
    BY <2>1 DEF Entry
<1>. DEFINE others == DOMAIN clients \ {reader}
            n      == Cardinality(others)
<1>6. {i \in DOMAIN clients : clients[i].id # FromId(bytes)} = others
  <2>1. \A i \in DOMAIN clients : clients[i].id = ClientId(i)
    BY <1>5 DEF RowOfClient
  <2>2. \A i \in DOMAIN clients : ClientId(i) = ClientId(reader) => i = reader
    BY <1>3, <1>5, ClientIdsDiffer
  <2>. QED
    BY <1>4, <2>1, <2>2
<1>7. PICK order \in SetToSeqs(others), b \in Behind :
        Answers(FlattenSeq([k \in DOMAIN order |-> ClientStruct(clients[order[k]], b)]))
  BY <1>6 DEF ServeList
<1>8. n \in Nat
  <2>1. Len(clients) \in Nat /\ DOMAIN clients = 1 .. Len(clients)
    BY LenProperties DEF WireInv, ClientsInv
  <2>2. IsFiniteSet(DOMAIN clients)
    BY <2>1, FS_Interval
  <2>3. IsFiniteSet(others)
    BY <2>2, FS_Subset
  <2>. QED
    BY <2>3, FS_CardinalityType
<1>9. order \in [1 .. n -> others] /\ DOMAIN order = 1 .. n
  BY <1>7 DEF SetToSeqs
<1>. HIDE DEF n
<1>10. order \in [1 .. n -> Nat] /\ Len(order) = n
  <2>1. order \in [1 .. n -> Nat]
    BY <1>5, <1>9
  <2>. QED
    BY <1>8, <2>1, ArrayIsSeq
<1>. DEFINE text == FlattenSeq([k \in 1 .. n |-> ClientStruct(clients[order[k]], b)])
<1>11. text \in Seq(Nat) /\ Listed(text, order, meant)
  <2>1. \A k \in 1 .. n : /\ clients[order[k]].id = ClientId(order[k])
                          /\ clients[order[k]].name = meant[order[k]].name
                          /\ meant[order[k]].name \in Name
    BY <1>5, <1>9 DEF RowOfClient
  <2>. QED
    BY <1>8, <1>10, <2>1, ListIsLaidOut
<1>12. bytes' = text /\ step' = "reading"
  BY <1>7, <1>9 DEF Answers
<1>. HIDE DEF text
<1>13. /\ ProgramInv' /\ RequestInv'
       /\ code' = CLIENT_LIST /\ reader' = reader /\ meant' = meant /\ sent' = sent
       /\ at' = 0 /\ shown' = <<>>
  BY <1>1, <1>11, <1>12, ServeProgram
<1>14. ClientsInv'
  BY <1>1, <1>2, <1>12, <1>13, CodesDiffer, ClientsStay DEF WireInv, Asked
<1>15. MessagesInv'
  BY <1>1, <1>2, <1>12, <1>13, CodesDiffer DEF WireInv, MessagesInv, Asked, Answered, Stored
<1>16. ListInv'
  <2>1. at' \in 0 .. Len(order) /\ Len(shown') = at'
    BY <1>8, <1>10, <1>13, EmptySeq
  <2>2. Listed(bytes', order, meant')
    BY <1>11, <1>12, <1>13
  <2>3. order \in SetToSeqs(DOMAIN clients' \ {reader'})
    BY <1>1, <1>7, <1>13
  <2>4. \A k \in 1 .. at' : /\ shown'[k].id = ClientId(order[k])
                            /\ ShownAs(meant'[order[k]].name, shown'[k].name)
    BY <1>13
  <2>. QED
    BY <1>12, <2>1, <2>2, <2>3, <2>4 DEF ListInv
<1>17. KeyInv' /\ MailInv'
  BY <1>13, CodesDiffer DEF KeyInv, MailInv, Answered
<1>. QED
  BY <1>13, <1>14, <1>15, <1>16, <1>17 DEF WireInv

\* The server stores the message as it was entered, its content as text.
LEMMA ServeSendStep ==
  ASSUME WireInv, ServeSend
  PROVE  WireInv'
<1>. DEFINE m   == sent[Len(sent)]
            row == [to |-> PayloadId(bytes), from |-> FromId(bytes), type |-> TypeOf(bytes),
                    content |-> InNumberColumn(HexText(ContentOf(bytes)))]
<1>1. /\ Serves(SEND_MESSAGE) /\ clients' = clients
      /\ messages' = Append(messages, row)
      /\ bytes' = Append(PayloadId(bytes), Len(messages)) /\ step' = "reading"
  BY DEF ServeSend, Answers, SentPayload
<1>2. Asked(SEND_MESSAGE)
  BY <1>1, ServesWhatWasAsked
<1>3. /\ sent \in Seq(Mail) /\ messages \in Seq(MessageRow) /\ Len(sent) <= MaxMessages
      /\ Len(sent) # 0 /\ Stored(sent, Len(sent) - 1)
      /\ bytes = ReqMessage(ClientId(m.from), SEND_MESSAGE,
                            SendPayload(ClientId(m.to), m.type, m.content))
  BY <1>2 DEF WireInv, MessagesInv, SendAsked
<1>4. Len(sent) \in Nat /\ Len(messages) \in Nat /\ DOMAIN messages = 1 .. Len(messages)
  BY <1>3, LenProperties
<1>5. m \in Mail
  BY <1>3, <1>4, ElementOfSeq
<1>6. row = RowOfMessage(m)
  <2>. HIDE DEF m
  <2>1. /\ FromId(bytes) = ClientId(m.from) /\ PayloadId(bytes) = ClientId(m.to)
        /\ TypeOf(bytes) = m.type /\ ContentOf(bytes) = m.content
    BY <1>3, <1>5, RequestForSend
  <2>. QED
    BY <2>1 DEF RowOfMessage
<1>7. row \in MessageRow /\ PayloadId(bytes) \in Seq(Nat)
  <2>1. RowOfMessage(m) \in MessageRow
    BY <1>5, RowOfMessageIsRow
  <2>. QED
    BY <1>6, <2>1 DEF MessageRow
<1>. HIDE DEF row
<1>8. bytes' \in Seq(Nat)
  BY <1>1, <1>4, <1>7, AppendProperties
<1>9. /\ ProgramInv' /\ RequestInv'
      /\ code' = SEND_MESSAGE /\ reader' = reader /\ meant' = meant /\ sent' = sent
  BY <1>1, <1>8, ServeProgram
<1>10. ClientsInv'
  BY <1>1, <1>2, <1>9, CodesDiffer, ClientsStay DEF WireInv, Asked
<1>11. MessagesInv'
  <2>1. /\ messages' \in Seq(MessageRow) /\ Len(messages') = Len(messages) + 1
        /\ \A k \in 1 .. Len(messages) : messages'[k] = messages[k]
        /\ messages'[Len(messages) + 1] = row
    BY <1>1, <1>3, <1>7, AppendProperties
  <2>2. DOMAIN messages' = 1 .. Len(messages) + 1
    BY <2>1, LenProperties
  <2>3. /\ Len(messages) + 1 = Len(sent)
        /\ \A k \in 1 .. Len(messages) : messages[k] = RowOfMessage(sent[k])
    BY <1>3, <1>4 DEF Stored
  <2>4. messages'[Len(messages) + 1] = RowOfMessage(sent[Len(messages) + 1])
    BY <1>6, <2>1, <2>3
  <2>5. \A k \in 1 .. Len(messages) + 1 : k \in 1 .. Len(messages) \/ k = Len(messages) + 1
    BY <1>4
  <2>6. \A k \in DOMAIN messages' : messages'[k] = RowOfMessage(sent[k])
    BY <2>1, <2>2, <2>3, <2>4, <2>5
  <2>7. Stored(sent, Len(sent))'
    BY <1>9, <2>1, <2>3, <2>6 DEF Stored
  <2>. QED
    BY <1>1, <1>3, <1>9, <2>1, <2>7, CodesDiffer DEF MessagesInv, Asked, Answered
<1>12. KeyInv' /\ ListInv' /\ MailInv'
  BY <1>9, CodesDiffer DEF KeyInv, ListInv, MailInv, Answered
<1>. QED
  BY <1>9, <1>10, <1>11, <1>12 DEF WireInv

\* What rows are taken of the table are the rows of what is taken of the history.
LEMMA RowsCorrespond ==
  ASSUME sent \in Seq(Mail), messages \in Seq(MessageRow), Stored(sent, Len(sent)),
         NEW T \in SUBSET (DOMAIN sent)
  PROVE  /\ Rows(messages, T) \in Seq(MessageRow) /\ Rows(sent, T) \in Seq(Mail)
         /\ Len(Rows(messages, T)) = Len(Rows(sent, T))
         /\ DOMAIN Rows(messages, T) = 1 .. Len(Rows(sent, T))
         /\ \A k \in 1 .. Len(Rows(sent, T)) :
              Rows(messages, T)[k] = RowOfMessage(Rows(sent, T)[k])
<1>1. /\ DOMAIN sent = DOMAIN messages
      /\ \A k \in DOMAIN messages : messages[k] = RowOfMessage(sent[k])
  BY LenProperties DEF Stored
<1>2. /\ Rows(messages, T) \in Seq(MessageRow)
      /\ Len(Rows(messages, T)) = Cardinality(T)
      /\ \A k \in 1 .. Cardinality(T) :
           Ascending(T)[k] \in T /\ Rows(messages, T)[k] = messages[Ascending(T)[k]]
  BY <1>1, RowsOfTable
<1>3. /\ Rows(sent, T) \in Seq(Mail)
      /\ Len(Rows(sent, T)) = Cardinality(T)
      /\ \A k \in 1 .. Cardinality(T) : Rows(sent, T)[k] = sent[Ascending(T)[k]]
  BY RowsOfTable
<1>4. DOMAIN Rows(messages, T) = 1 .. Len(Rows(messages, T))
  BY <1>2, LenProperties
<1>5. \A k \in 1 .. Cardinality(T) : Rows(messages, T)[k] = RowOfMessage(Rows(sent, T)[k])
  BY <1>1, <1>2, <1>3
<1>. QED
  BY <1>2, <1>3, <1>4, <1>5

\* The rows that the server chooses are those of the reader's messages.
LEMMA ChosenForReader ==
  ASSUME WireInv, Serves(GET_MESSAGES)
  PROVE  /\ Asked(GET_MESSAGES) /\ reader \in Nat
         /\ sent \in Seq(Mail) /\ messages \in Seq(MessageRow) /\ Stored(sent, Len(sent))
         /\ Len(sent) <= MaxMessages /\ DOMAIN messages = DOMAIN sent
         /\ \A k \in DOMAIN sent : /\ messages[k].content.number = IsNumber(sent[k])
                                  /\ sent[k] \in Mail
         /\ Chosen = ForReader
<1>2. Asked(GET_MESSAGES)
  BY ServesWhatWasAsked
<1>3. /\ reader \in DOMAIN clients /\ reader \in Nat
      /\ bytes = ReqMessage(ClientId(reader), GET_MESSAGES, <<>>)
  <2>1. reader \in DOMAIN clients
    BY <1>2, CodesDiffer DEF WireInv, ProgramInv, Asked
  <2>. QED
    BY <1>2, <2>1, ClientNumbers DEF WireInv, RequestInv
<1>4. FromId(bytes) = ClientId(reader)
  <2>1. <<>> \in Seq(Nat) /\ ClientId(reader) \in [1 .. IdSize -> Nat] /\ GET_MESSAGES \in Nat
    BY <1>3, CodesDiffer, ClientIdIsArray, EmptySeq
  <2>. QED
    BY <1>3, <2>1, RequestFields
<1>5. sent \in Seq(Mail) /\ messages \in Seq(MessageRow) /\ Stored(sent, Len(sent))
      /\ Len(sent) <= MaxMessages
  BY <1>2, CodesDiffer DEF WireInv, MessagesInv, Asked, Answered
<1>6. /\ DOMAIN messages = DOMAIN sent
      /\ \A k \in DOMAIN sent : messages[k] = RowOfMessage(sent[k]) /\ sent[k] \in Mail
  BY <1>5, LenProperties, ElementOfSeq DEF Stored
<1>7. \A k \in DOMAIN sent : /\ messages[k].to = ClientId(sent[k].to) /\ sent[k].to \in Nat
                           /\ messages[k].content.number = IsNumber(sent[k])
  BY <1>6, RowOfMessageIsRow DEF Mail
<1>8. Chosen = ForReader
  <2>1. \A k \in DOMAIN sent : ClientId(sent[k].to) = ClientId(reader) => sent[k].to = reader
    BY <1>3, <1>7, ClientIdsDiffer
  <2>. QED
    BY <1>4, <1>6, <1>7, <2>1 DEF ForReader, Chosen
<1>. QED
  BY <1>2, <1>3, <1>5, <1>6, <1>7, <1>8

\* The server answers with the reader's messages and keeps the others.
LEMMA ServeMessagesStep ==
  ASSUME WireInv, ServeMessages
  PROVE  WireInv'
<1>. DEFINE rows == Rows(messages, Chosen)
            text == FlattenSeq([k \in DOMAIN rows |-> Packed(rows[k])])
<1>1. /\ Serves(GET_MESSAGES) /\ clients' = clients
      /\ \A k \in Chosen : ~messages[k].content.number
      /\ messages' = Rows(messages, DOMAIN messages \ Chosen)
      /\ bytes' = text /\ step' = "reading"
  BY DEF ServeMessages, Answers
<1>2. Asked(GET_MESSAGES)
  BY <1>1, ChosenForReader
<1>3. sent \in Seq(Mail) /\ messages \in Seq(MessageRow) /\ Stored(sent, Len(sent))
      /\ Len(sent) <= MaxMessages
  BY <1>1, ChosenForReader
<1>4. DOMAIN messages = DOMAIN sent
  BY <1>1, ChosenForReader
<1>5. Chosen = ForReader
  BY <1>1, ChosenForReader
<1>6. \A k \in ForReader : ~IsNumber(sent[k])
  <2>1. \A k \in ForReader : k \in DOMAIN sent
    BY DEF ForReader
  <2>. QED
    BY <1>1, <1>5, <2>1, ChosenForReader
<1>. HIDE DEF rows, text
<1>7. ForReader \in SUBSET (DOMAIN sent) /\ DOMAIN sent \ ForReader \in SUBSET (DOMAIN sent)
  BY DEF ForReader
<1>8. \A k \in 1 .. Len(MailForReader) : ~IsNumber(MailForReader[k])
  <2>1. /\ Len(MailForReader) = Cardinality(ForReader)
        /\ \A k \in 1 .. Cardinality(ForReader) :
             /\ Ascending(ForReader)[k] \in ForReader
             /\ MailForReader[k] = sent[Ascending(ForReader)[k]]
    BY <1>3, <1>7, RowsOfTable DEF MailForReader
  <2>. QED
    BY <1>6, <2>1
<1>9. /\ MailForReader \in Seq(Mail)
      /\ Len(rows) = Len(MailForReader) /\ DOMAIN rows = 1 .. Len(MailForReader)
      /\ \A k \in 1 .. Len(MailForReader) : rows[k] = RowOfMessage(MailForReader[k])
  BY <1>3, <1>5, <1>7, RowsCorrespond DEF rows, MailForReader
<1>10. /\ OtherMail \in Seq(Mail) /\ messages' \in Seq(MessageRow)
       /\ Len(messages') = Len(OtherMail) /\ DOMAIN messages' = 1 .. Len(OtherMail)
       /\ \A k \in 1 .. Len(OtherMail) : messages'[k] = RowOfMessage(OtherMail[k])
  <2>1. messages' = Rows(messages, DOMAIN sent \ ForReader)
    BY <1>1, <1>4, <1>5
  <2>. QED
    BY <1>3, <1>7, <2>1, RowsCorrespond DEF OtherMail
<1>11. /\ text \in Seq(Nat)
       /\ \E pos \in [1 .. Len(MailForReader) + 1 -> 0 .. Len(text)] :
            Placed(text, pos, MailForReader)
  BY <1>8, <1>9, MailIsLaidOut DEF text
<1>12. /\ ProgramInv' /\ RequestInv'
       /\ code' = GET_MESSAGES /\ reader' = reader /\ meant' = meant /\ sent' = sent
       /\ at' = 0 /\ shown' = <<>>
  BY <1>1, <1>11, ServeProgram
<1>13. MailForReader' = MailForReader /\ OtherMail' = OtherMail
  BY <1>12 DEF MailForReader, OtherMail, ForReader
<1>14. ClientsInv'
  BY <1>1, <1>2, <1>12, CodesDiffer, ClientsStay DEF WireInv, Asked
<1>15. MessagesInv'
  <2>1. Stored(OtherMail, Len(OtherMail))'
    BY <1>10, <1>13 DEF Stored
  <2>. QED
    BY <1>1, <1>3, <1>10, <1>12, <2>1, CodesDiffer DEF MessagesInv, Asked, Answered
<1>16. MailInv'
  <2>1. PICK pos \in [1 .. Len(MailForReader) + 1 -> 0 .. Len(text)] :
          Placed(text, pos, MailForReader)
    BY <1>11
  <2>2. Len(MailForReader) \in Nat
    BY <1>9, LenProperties
  <2>3. /\ Len(shown') = 0 /\ 0 <= Len(MailForReader)
        /\ at' = pos[Len(shown') + 1] /\ \A k \in 1 .. Len(shown') : FALSE
    <3>1. Len(shown') = 0
      BY <1>12, EmptySeq
    <3>2. pos[1] = 0
      BY <2>1 DEF Placed
    <3>. QED
      BY <1>12, <2>2, <3>1, <3>2
  <2>4. /\ Placed(bytes', pos, MailForReader')
        /\ pos \in [1 .. Len(MailForReader') + 1 -> 0 .. Len(bytes')]
    BY <1>1, <1>13, <2>1
  <2>. QED
    BY <1>1, <1>13, <2>3, <2>4 DEF MailInv
<1>17. KeyInv' /\ ListInv'
  BY <1>12, CodesDiffer DEF KeyInv, ListInv, Answered
<1>. QED
  BY <1>12, <1>14, <1>15, <1>16, <1>17 DEF WireInv

\* The server meets a number: the rows of the reader before it are deleted, it and the
\* ones behind it stay, and there is no answer.
LEMMA ServeMessagesRaisesStep ==
  ASSUME WireInv, ServeMessagesRaises
  PROVE  WireInv'
<1>1. /\ Serves(GET_MESSAGES) /\ clients' = clients /\ bytes' = bytes /\ step' = "silent"
  BY DEF ServeMessagesRaises
<1>2. PICK k \in Chosen : /\ messages[k].content.number
                          /\ \A j \in Chosen : messages[j].content.number => k <= j
                          /\ messages' = Rows(messages, DOMAIN messages \ RowsBefore(k))
  BY DEF ServeMessagesRaises
<1>3. /\ Asked(GET_MESSAGES)
      /\ sent \in Seq(Mail) /\ messages \in Seq(MessageRow) /\ Stored(sent, Len(sent))
      /\ Len(sent) <= MaxMessages
  BY <1>1, ChosenForReader
<1>4. /\ Chosen = ForReader /\ DOMAIN messages = DOMAIN sent
      /\ \A j \in DOMAIN sent : messages[j].content.number = IsNumber(sent[j])
  BY <1>1, ChosenForReader
<1>5. ForReader \subseteq DOMAIN sent /\ DOMAIN sent \subseteq Nat
  BY <1>3, LenProperties DEF ForReader
<1>6. IsNumber(sent[k]) /\ \A j \in ForReader : j < k => ~IsNumber(sent[j])
  BY <1>2, <1>4, <1>5
<1>7. Lost = RowsBefore(k) /\ k \in ForReader \ Lost
  <2>1. \A i \in ForReader : (\A j \in ForReader : j <= i => ~IsNumber(sent[j])) <=> i < k
    BY <1>2, <1>4, <1>5, <1>6
  <2>2. \A i \in ForReader : i \in Lost <=> i < k
    BY <2>1 DEF Lost, IsNumber
  <2>3. Lost \subseteq ForReader
    BY DEF Lost
  <2>. QED
    BY <1>2, <1>4, <1>5, <2>2, <2>3 DEF RowsBefore
<1>8. bytes \in Seq(Nat)
  BY DEF WireInv, ProgramInv
<1>9. /\ ProgramInv' /\ RequestInv'
      /\ code' = GET_MESSAGES /\ reader' = reader /\ meant' = meant /\ sent' = sent
  BY <1>1, <1>8, ServeProgram
<1>10. ForReader' = ForReader /\ Lost' = Lost /\ KeptMail' = KeptMail
  BY <1>9 DEF KeptMail, Lost, ForReader
<1>11. /\ messages' \in Seq(MessageRow)
       /\ Len(messages') = Len(KeptMail) /\ DOMAIN messages' = 1 .. Len(KeptMail)
       /\ \A j \in 1 .. Len(KeptMail) : messages'[j] = RowOfMessage(KeptMail[j])
  <2>1. messages' = Rows(messages, DOMAIN sent \ Lost)
    BY <1>2, <1>4, <1>7
  <2>2. DOMAIN sent \ Lost \in SUBSET (DOMAIN sent)
    OBVIOUS
  <2>. QED
    BY <1>3, <2>1, <2>2, RowsCorrespond DEF KeptMail
<1>12. ClientsInv'
  BY <1>1, <1>3, <1>9, CodesDiffer, ClientsStay DEF WireInv, Asked
<1>13. MessagesInv'
  <2>1. Stored(KeptMail, Len(KeptMail))'
    BY <1>10, <1>11 DEF Stored
  <2>. QED
    BY <1>1, <1>3, <1>7, <1>9, <1>10, <1>11, <2>1 DEF MessagesInv, Asked, Answered
<1>14. KeyInv' /\ ListInv' /\ MailInv'
  BY <1>1 DEF KeyInv, ListInv, MailInv, Answered
<1>. QED
  BY <1>9, <1>12, <1>13, <1>14 DEF WireInv

-----------------------------------------------------------------------------
(* The program. *)

\* What every step of the program leaves as it is.
LEMMA ReadProgram ==
  ASSUME WireInv, step = "reading", step' \in {"reading", "done"},
         clients' = clients, messages' = messages, bytes' = bytes, code' = code,
         reader' = reader, meant' = meant, sent' = sent
  PROVE  /\ ClientsInv' /\ MessagesInv' /\ RequestInv'
         /\ MailForReader' = MailForReader
<1>1. ClientsInv'
  BY ClientsStay DEF WireInv, Asked
<1>2. MailForReader' = MailForReader /\ OtherMail' = OtherMail
  BY DEF MailForReader, OtherMail, ForReader
<1>3. MessagesInv'
  BY <1>2 DEF WireInv, MessagesInv, Asked, Answered, Stored
<1>4. RequestInv'
  BY DEF RequestInv, Asked
<1>. QED
  BY <1>1, <1>2, <1>3, <1>4

\* One more thing on the screen.
LEMMA ReadShows ==
  ASSUME WireInv, NEW c, NEW what, Reads(c, what)
  PROVE  /\ Len(shown) \in Nat /\ Len(shown') = Len(shown) + 1
         /\ shown' = [k \in 1 .. Len(shown') |-> shown'[k]]
         /\ \A k \in 1 .. Len(shown) : shown'[k] = shown[k]
         /\ shown'[Len(shown) + 1] = what
<1>1. Len(shown) \in Nat /\ shown = [k \in 1 .. Len(shown) |-> shown[k]]
  BY DEF WireInv, ProgramInv
<1>2. shown' = Append(shown, what)
  BY DEF Reads
<1>. QED
  BY <1>1, <1>2, AppendArray

\* The answers that are read at once.
LEMMA ReadAllStep ==
  ASSUME WireInv, NEW c \in {REGISTRATION, PUBLIC_KEY, SEND_MESSAGE}, NEW what,
         Reads(c, what), ReadAll,
         c = PUBLIC_KEY => what = Field(bytes, IdSize + 1, KeySize)
  PROVE  WireInv'
<1>1. /\ step = "reading" /\ code = c /\ step' = "done" /\ at' = at
      /\ clients' = clients /\ messages' = messages /\ bytes' = bytes /\ code' = code
      /\ reader' = reader /\ meant' = meant /\ sent' = sent
  BY DEF Reads, ReadAll
<1>2. ClientsInv' /\ MessagesInv' /\ RequestInv'
  BY <1>1, ReadProgram
<1>3. ProgramInv'
  <2>1. Len(shown') \in Nat /\ shown' = [k \in 1 .. Len(shown') |-> shown'[k]]
    BY ReadShows
  <2>. QED
    BY <1>1, <2>1 DEF WireInv, ProgramInv
<1>4. KeyInv'
  <2>1. SUFFICES ASSUME c = PUBLIC_KEY
                 PROVE  KeyInv'
    BY <1>1 DEF KeyInv, Answered
  <2>2. PICK v \in DOMAIN clients : bytes = KeyPayload(ClientId(v), meant[v].key)
    BY <1>1, <2>1 DEF WireInv, KeyInv, Answered
  <2>. DEFINE key == meant[v].key
              id  == ClientId(v)
  <2>3. v \in Nat /\ meant[v] \in Entry
    <3>1. v \in Nat /\ v \in DOMAIN meant /\ meant \in Seq(Entry)
      BY ClientNumbers DEF WireInv, ClientsInv
    <3>. QED
      BY <3>1, LenProperties, ElementOfSeq
  <2>4. key \in PublicKey
    BY <2>3 DEF Entry
  <2>5. id \in Seq(Nat) /\ key \in Seq(Nat)
    BY <2>3, <2>4, ClientIdIsArray, KeysAreBytes
  <2>6. Len(id) = IdSize /\ Len(key) = KeySize /\ IdSize + 1 \in Nat /\ IdSize \in Nat
    <3>1. Len(id) = IdSize
      BY <2>3, ClientIdIsArray
    <3>2. Len(key) = KeySize
      BY <2>4, KeysAreBytes
    <3>3. IdSize + 1 \in Nat /\ IdSize \in Nat
      BY WireAssumption
    <3>. QED
      BY <3>1, <3>2, <3>3
  <2>. HIDE DEF id, key
  <2>7. \A j \in 1 .. Len(key) : (id \o key)[Len(id) + j] = key[j]
    BY <2>5, Concatenation
  <2>8. \A j \in 1 .. Len(key) : (id \o key)[IdSize + 1 + j - 1] = key[j]
    <3>1. \A j \in 1 .. Len(key) : IdSize + 1 + j - 1 = IdSize + j
      BY <2>6
    <3>. QED
      BY <2>6, <2>7, <3>1
  <2>9. Field(id \o key, IdSize + 1, Len(key)) = key
    BY <2>5, <2>6, <2>8, FieldIs
  <2>10. what = key
    BY <2>1, <2>2, <2>6, <2>9 DEF KeyPayload, id, key
  <2>11. shown' = <<key>>
    <3>1. at = 0
      BY <1>1 DEF WireInv, ProgramInv
    <3>2. shown = <<>>
      BY <1>1, <3>1 DEF WireInv, ProgramInv
    <3>. QED
      BY <2>10, <3>2 DEF Reads
  <2>. QED
    BY <1>1, <2>2, <2>11 DEF KeyInv, key
<1>5. ListInv' /\ MailInv'
  BY <1>1, CodesDiffer DEF ListInv, MailInv, Answered
<1>. QED
  BY <1>2, <1>3, <1>4, <1>5 DEF WireInv

\* An order of all clients but one has each of the others once.
LEMMA OrderOfOthers ==
  ASSUME ClientsInv, NEW u \in DOMAIN clients,
         NEW order \in SetToSeqs(DOMAIN clients \ {u})
  PROVE  /\ Len(order) \in Nat /\ Len(order) = Len(clients) - 1
         /\ DOMAIN order = 1 .. Len(order)
         /\ \A k \in 1 .. Len(order) : order[k] \in DOMAIN clients
         /\ \A i \in DOMAIN clients \ {u} : \E k \in 1 .. Len(order) : order[k] = i
<1>. DEFINE others == DOMAIN clients \ {u}
            n      == Cardinality(others)
<1>1. Len(clients) \in Nat /\ DOMAIN clients = 1 .. Len(clients)
  BY LenProperties DEF ClientsInv
<1>2. IsFiniteSet(DOMAIN clients) /\ Cardinality(DOMAIN clients) = Len(clients)
  <2>1. \A m \in Nat : IsFiniteSet(1 .. m) /\ Cardinality(1 .. m) = m
    BY FS_Interval
  <2>. QED
    BY <1>1, <2>1
<1>3. IsFiniteSet(others) /\ n = Len(clients) - 1
  BY <1>2, FS_RemoveElement
<1>4. n \in Nat
  BY <1>3, FS_CardinalityType
<1>5. order \in [1 .. n -> others] /\ \A i, j \in 1 .. n : i # j => order[i] # order[j]
  BY DEF SetToSeqs
<1>. HIDE DEF n, others
<1>6. Len(order) = n /\ DOMAIN order = 1 .. n
  BY <1>4, <1>5, ArrayIsSeq
<1>7. order \in Surjection(1 .. n, others)
  <2>1. order \in Injection(1 .. n, others)
    BY <1>5 DEF Injection, IsInjective
  <2>2. Cardinality(1 .. n) = n
    BY <1>4, FS_Interval
  <2>3. Cardinality(1 .. n) = Cardinality(others)
    BY <2>2 DEF n
  <2>. QED
    BY <1>3, <2>1, <2>3, FS_Injection
<1>8. \A i \in others : \E k \in 1 .. n : order[k] = i
  BY <1>7 DEF Surjection
<1>9. \A k \in 1 .. n : order[k] \in DOMAIN clients
  BY <1>5 DEF others
<1>. QED
  BY <1>3, <1>4, <1>6, <1>8, <1>9 DEF others

\* One turn of the loop over the list shows the next client.
LEMMA ReadClientStep ==
  ASSUME WireInv, ReadClient
  PROVE  WireInv'
<1>. DEFINE what == [id   |-> Field(bytes, at * ClientSize + 1, IdSize),
                     name |-> CString(bytes, at * ClientSize + IdSize + 1)]
<1>1. /\ Reads(CLIENT_LIST, what)
      /\ at < PayloadSize \div ClientSize /\ at' = at + 1 /\ step' = step
  BY DEF ReadClient
<1>2. /\ step = "reading" /\ code = CLIENT_LIST
      /\ clients' = clients /\ messages' = messages /\ bytes' = bytes /\ code' = code
      /\ reader' = reader /\ meant' = meant /\ sent' = sent
  BY <1>1 DEF Reads
<1>3. ClientsInv' /\ MessagesInv' /\ RequestInv'
  BY <1>1, <1>2, ReadProgram
<1>4. /\ Len(shown) \in Nat /\ Len(shown') = Len(shown) + 1
      /\ shown' = [k \in 1 .. Len(shown') |-> shown'[k]]
      /\ \A k \in 1 .. Len(shown) : shown'[k] = shown[k]
      /\ shown'[Len(shown) + 1] = what
  BY <1>1, ReadShows
<1>. HIDE DEF what
<1>5. PICK order \in SetToSeqs(DOMAIN clients \ {reader}) :
        /\ Listed(bytes, order, meant)
        /\ at \in 0 .. Len(order) /\ Len(shown) = at
        /\ \A k \in 1 .. at : /\ shown[k].id = ClientId(order[k])
                              /\ ShownAs(meant[order[k]].name, shown[k].name)
  BY <1>2 DEF WireInv, ListInv, Answered
<1>6. at \in Nat /\ Len(order) \in Nat /\ at < Len(order)
  <2>1. at \in Nat /\ Len(order) \in Nat
    <3>1. ClientsInv /\ reader \in DOMAIN clients
      BY <1>2, CodesDiffer DEF WireInv, ProgramInv
    <3>2. Len(order) \in Nat
      BY <1>5, <3>1, OrderOfOthers
    <3>. QED
      BY <1>5, <3>2
  <2>2. Len(bytes) = Len(order) * ClientSize
    BY <1>5 DEF Listed
  <2>3. PayloadSize \div ClientSize = Len(order)
    BY <2>1, <2>2, WholeStructures DEF PayloadSize
  <2>. QED
    BY <1>1, <2>1, <2>3
<1>7. at + 1 \in 1 .. Len(order) /\ at + 1 - 1 = at /\ at + 1 \in 0 .. Len(order) /\ at + 1 # 0
  BY <1>6
<1>8. what.id = ClientId(order[at + 1]) /\ ShownAs(meant[order[at + 1]].name, what.name)
  BY <1>5, <1>7 DEF Listed, what
<1>9. ProgramInv'
  BY <1>1, <1>2, <1>4, <1>7, CodesDiffer DEF WireInv, ProgramInv
<1>10. ListInv'
  <2>1. \A k \in 1 .. at + 1 : /\ shown'[k].id = ClientId(order[k])
                               /\ ShownAs(meant[order[k]].name, shown'[k].name)
    <3>1. SUFFICES ASSUME NEW k \in 1 .. at + 1
                   PROVE  /\ shown'[k].id = ClientId(order[k])
                          /\ ShownAs(meant[order[k]].name, shown'[k].name)
      OBVIOUS
    <3>2. CASE k = at + 1
      BY <1>4, <1>5, <1>8, <3>2
    <3>3. CASE k # at + 1
      <4>1. k \in 1 .. at
        BY <1>6, <3>3
      <4>. QED
        BY <1>4, <1>5, <4>1
    <3>. QED
      BY <3>2, <3>3
  <2>. QED
    BY <1>1, <1>2, <1>4, <1>5, <1>7, <2>1 DEF ListInv
<1>11. KeyInv' /\ MailInv'
  BY <1>2, CodesDiffer DEF KeyInv, MailInv, Answered
<1>. QED
  BY <1>3, <1>9, <1>10, <1>11 DEF WireInv

\* The reader's messages in the history are messages.
LEMMA MailOfReader ==
  ASSUME MessagesInv
  PROVE  /\ MailForReader \in Seq(Mail) /\ OtherMail \in Seq(Mail)
         /\ Len(MailForReader) \in Nat /\ DOMAIN MailForReader = 1 .. Len(MailForReader)
         /\ Len(OtherMail) \in Nat /\ Len(OtherMail) <= Len(sent)
<1>1. /\ ForReader \in SUBSET (DOMAIN sent) /\ DOMAIN sent \ ForReader \in SUBSET (DOMAIN sent)
      /\ sent \in Seq(Mail)
  BY DEF ForReader, MessagesInv
<1>2. MailForReader \in Seq(Mail) /\ OtherMail \in Seq(Mail)
  BY <1>1, RowsOfTable DEF MailForReader, OtherMail
<1>3. Len(OtherMail) <= Len(sent)
  BY <1>1, RowsOfTable DEF OtherMail
<1>. QED
  BY <1>2, <1>3, LenProperties

\* So are those that are left when the server met a number.
LEMMA KeptMailOfReader ==
  ASSUME MessagesInv
  PROVE  KeptMail \in Seq(Mail) /\ Len(KeptMail) \in Nat /\ Len(KeptMail) <= Len(sent)
<1>1. DOMAIN sent \ Lost \in SUBSET (DOMAIN sent) /\ sent \in Seq(Mail)
  BY DEF MessagesInv
<1>2. KeptMail \in Seq(Mail) /\ Len(KeptMail) <= Len(sent)
  BY <1>1, RowsOfTable DEF KeptMail
<1>. QED
  BY <1>2, LenProperties

\* One turn of the loop over the messages shows the next message.
LEMMA ReadMessageStep ==
  ASSUME WireInv, ReadMessage
  PROVE  WireInv'
<1>. DEFINE what == [from    |-> Field(bytes, at + 1, IdSize), type |-> bytes[at + IdSize + 2],
                     content |-> Field(bytes, at + GotSize + 1, bytes[at + IdSize + 3])]
            mail == MailForReader
            n    == Len(mail)
            j    == Len(shown)
<1>1. /\ Reads(GET_MESSAGES, what)
      /\ at < Len(bytes) /\ at' = NextMessage /\ step' = step
  BY DEF ReadMessage, PayloadSize
<1>2. /\ step = "reading" /\ code = GET_MESSAGES
      /\ clients' = clients /\ messages' = messages /\ bytes' = bytes /\ code' = code
      /\ reader' = reader /\ meant' = meant /\ sent' = sent
  BY <1>1 DEF Reads
<1>3. /\ ClientsInv' /\ MessagesInv' /\ RequestInv'
      /\ mail' = mail
  BY <1>1, <1>2, ReadProgram
<1>4. /\ j \in Nat /\ Len(shown') = j + 1
      /\ shown' = [k \in 1 .. Len(shown') |-> shown'[k]]
      /\ \A k \in 1 .. j : shown'[k] = shown[k]
      /\ shown'[j + 1] = what
  BY <1>1, ReadShows
<1>. HIDE DEF what
<1>5. PICK pos \in [1 .. n + 1 -> 0 .. Len(bytes)] :
        /\ Placed(bytes, pos, mail)
        /\ j <= n /\ at = pos[j + 1]
        /\ \A k \in 1 .. j : shown[k] = AsShown(mail[k])
  BY <1>2 DEF WireInv, MailInv, Answered
<1>6. mail \in Seq(Mail) /\ n \in Nat /\ DOMAIN mail = 1 .. n
  BY MailOfReader DEF WireInv
<1>7. Len(bytes) \in Nat
  BY LenProperties DEF WireInv, ProgramInv
<1>. HIDE DEF j, n, mail
<1>8. j < n /\ j + 1 \in 1 .. n /\ j + 1 \in 1 .. n + 1 /\ j + 2 \in 1 .. n + 1 /\ j + 1 + 1 = j + 2
  <2>1. pos[n + 1] = Len(bytes)
    BY <1>5 DEF Placed, n
  <2>2. j # n
    BY <1>1, <1>5, <1>7, <2>1
  <2>. QED
    BY <1>4, <1>5, <1>6, <2>2
<1>. DEFINE m == mail[j + 1]
<1>9. /\ pos[j + 2] = at + GotSize + Len(m.content)
      /\ Field(bytes, at + 1, IdSize) = ClientId(m.from)
      /\ bytes[at + IdSize + 2] = m.type
      /\ bytes[at + IdSize + 3] = Len(m.content)
      /\ Field(bytes, at + GotSize + 1, Len(m.content)) = m.content
  BY <1>5, <1>8 DEF Placed, n
<1>10. at' = pos[j + 2] /\ what = AsShown(m)
  BY <1>1, <1>9 DEF NextMessage, what, AsShown
<1>11. at' # 0
  <2>1. m \in Mail
    BY <1>6, <1>8, ElementOfSeq DEF n
  <2>2. Len(m.content) \in Nat
    BY <2>1, ContentsAreBytes DEF Mail
  <2>3. GotSize \in Nat \ {0} /\ at \in Nat
    BY <1>5, <1>7, <1>8, WireAssumption DEF GotSize
  <2>. QED
    BY <1>9, <1>10, <2>2, <2>3
<1>12. ProgramInv'
  BY <1>1, <1>2, <1>4, <1>11, CodesDiffer DEF WireInv, ProgramInv
<1>13. MailInv'
  <2>1. \A k \in 1 .. j + 1 : shown'[k] = AsShown(mail[k])
    <3>1. \A k \in 1 .. j + 1 : k # j + 1 => k \in 1 .. j
      BY <1>4
    <3>. QED
      BY <1>4, <1>5, <1>10, <3>1
  <2>2. /\ Placed(bytes', pos, mail') /\ pos \in [1 .. Len(mail') + 1 -> 0 .. Len(bytes')]
    BY <1>2, <1>3, <1>5 DEF n
  <2>3. /\ Len(shown') <= Len(mail') /\ at' = pos[Len(shown') + 1]
        /\ \A k \in 1 .. Len(shown') : shown'[k] = AsShown(mail'[k])
    <3>1. Len(shown') <= n /\ Len(shown') + 1 = j + 2
      BY <1>4, <1>6, <1>8
    <3>2. Len(shown') <= Len(mail')
      BY <1>3, <3>1 DEF n
    <3>. QED
      BY <1>3, <1>4, <1>10, <2>1, <3>1, <3>2
  <2>4. step' # "done"
    BY <1>1, <1>2
  <2>. QED
    BY <2>2, <2>3, <2>4 DEF MailInv, mail
<1>14. KeyInv' /\ ListInv'
  BY <1>2, CodesDiffer DEF KeyInv, ListInv, Answered
<1>. QED
  BY <1>3, <1>12, <1>13, <1>14 DEF WireInv

\* The loops end when the whole answer was shown.
LEMMA ReadDoneStep ==
  ASSUME WireInv, ReadDone
  PROVE  WireInv'
<1>1. /\ step = "reading" /\ step' = "done" /\ at' = at /\ shown' = shown
      /\ clients' = clients /\ messages' = messages /\ bytes' = bytes /\ code' = code
      /\ reader' = reader /\ meant' = meant /\ sent' = sent
      /\ \/ code = CLIENT_LIST /\ at >= PayloadSize \div ClientSize
         \/ code = GET_MESSAGES /\ at >= PayloadSize
  BY DEF ReadDone
<1>2. ClientsInv' /\ MessagesInv' /\ RequestInv' /\ MailForReader' = MailForReader
  BY <1>1, ReadProgram
<1>3. ProgramInv'
  BY <1>1 DEF WireInv, ProgramInv
<1>4. KeyInv'
  BY <1>1, CodesDiffer DEF KeyInv, Answered
<1>5. ListInv'
  <2>1. SUFFICES ASSUME code = CLIENT_LIST
                 PROVE  ListInv'
    BY <1>1 DEF ListInv, Answered
  <2>2. PICK order \in SetToSeqs(DOMAIN clients \ {reader}) :
          /\ Listed(bytes, order, meant)
          /\ at \in 0 .. Len(order) /\ Len(shown) = at
          /\ \A k \in 1 .. at : /\ shown[k].id = ClientId(order[k])
                                /\ ShownAs(meant[order[k]].name, shown[k].name)
    BY <1>1, <2>1 DEF WireInv, ListInv, Answered
  <2>3. Len(order) \in Nat
    <3>1. ClientsInv /\ reader \in DOMAIN clients
      BY <1>1, <2>1, CodesDiffer DEF WireInv, ProgramInv
    <3>. QED
      BY <3>1, OrderOfOthers
  <2>4. at = Len(order)
    <3>1. Len(bytes) = Len(order) * ClientSize
      BY <2>2 DEF Listed
    <3>2. PayloadSize \div ClientSize = Len(order)
      BY <2>3, <3>1, WholeStructures DEF PayloadSize
    <3>3. at >= Len(order)
      BY <1>1, <2>1, <3>2, CodesDiffer
    <3>. QED
      BY <2>2, <2>3, <3>3
  <2>. QED
    BY <1>1, <2>2, <2>4 DEF ListInv
<1>6. MailInv'
  <2>. DEFINE n == Len(MailForReader)
              j == Len(shown)
  <2>1. SUFFICES ASSUME code = GET_MESSAGES
                 PROVE  MailInv'
    BY <1>1 DEF MailInv, Answered
  <2>2. PICK pos \in [1 .. n + 1 -> 0 .. Len(bytes)] :
          /\ Placed(bytes, pos, MailForReader)
          /\ j <= n /\ at = pos[j + 1]
          /\ \A k \in 1 .. j : shown[k] = AsShown(MailForReader[k])
    BY <1>1, <2>1 DEF WireInv, MailInv, Answered
  <2>3. MailForReader \in Seq(Mail) /\ n \in Nat /\ DOMAIN MailForReader = 1 .. n
    BY MailOfReader DEF WireInv
  <2>4. Len(bytes) \in Nat /\ j \in Nat
    BY LenProperties DEF WireInv, ProgramInv
  <2>5. at >= Len(bytes)
    BY <1>1, <2>1, CodesDiffer DEF PayloadSize
  <2>. HIDE DEF n, j
  <2>6. j = n
    <3>1. SUFFICES ASSUME j < n
                   PROVE  FALSE
      BY <2>2, <2>3, <2>4
    <3>2. j + 1 \in 1 .. n /\ j + 1 \in 1 .. n + 1 /\ j + 1 + 1 \in 1 .. n + 1
      BY <2>3, <2>4, <3>1
    <3>3. pos[j + 1 + 1] = pos[j + 1] + GotSize + Len(MailForReader[j + 1].content)
      BY <2>2, <3>2 DEF Placed, n
    <3>4. MailForReader[j + 1] \in Mail
      BY <2>3, <3>2, ElementOfSeq DEF n
    <3>5. Len(MailForReader[j + 1].content) \in Nat
      BY <3>4, ContentsAreBytes DEF Mail
    <3>6. GotSize \in Nat \ {0}
      BY WireAssumption DEF GotSize
    <3>7. pos[j + 1 + 1] \in 0 .. Len(bytes)
      BY <2>2, <3>2
    <3>8. pos[j + 1] \in Nat /\ pos[j + 1] >= Len(bytes)
      BY <2>2, <2>4, <2>5, <3>2
    <3>. QED
      <4>1. \A a, c, l \in Nat, g \in Nat \ {0} : a >= l => a + g + c \notin 0 .. l
        OBVIOUS
      <4>. DEFINE c == Len(MailForReader[j + 1].content)
                  a == pos[j + 1]
      <4>2. a \in Nat /\ c \in Nat /\ Len(bytes) \in Nat /\ a >= Len(bytes)
        BY <2>4, <3>5, <3>8
      <4>3. a + GotSize + c \in 0 .. Len(bytes)
        BY <3>3, <3>7
      <4>. HIDE DEF a, c
      <4>. QED
        BY <3>6, <4>1, <4>2, <4>3
  <2>7. /\ Placed(bytes', pos, MailForReader')
        /\ pos \in [1 .. Len(MailForReader') + 1 -> 0 .. Len(bytes')]
    BY <1>1, <1>2, <2>2 DEF n
  <2>8. /\ Len(shown') <= Len(MailForReader') /\ at' = pos[Len(shown') + 1]
        /\ \A k \in 1 .. Len(shown') : shown'[k] = AsShown(MailForReader'[k])
        /\ Len(shown') = Len(MailForReader')
    BY <1>1, <1>2, <2>2, <2>6 DEF n, j
  <2>. QED
    BY <2>7, <2>8 DEF MailInv
<1>. QED
  BY <1>2, <1>3, <1>4, <1>5, <1>6 DEF WireInv

\* Back at the command line, with the messages that were fetched out of the history.
LEMMA ForgetStep ==
  ASSUME WireInv, Forget
  PROVE  WireInv'
<1>1. /\ step = "done" /\ step' = "idle" /\ at' = 0 /\ shown' = <<>> /\ bytes' = <<>>
      /\ clients' = clients /\ messages' = messages /\ code' = code
      /\ reader' = reader /\ meant' = meant
      /\ sent' = IF code = GET_MESSAGES THEN OtherMail ELSE sent
  BY DEF Forget, OtherMail
<1>2. ClientsInv'
  BY <1>1, ClientsStay DEF WireInv, Asked
<1>3. sent \in Seq(Mail) /\ messages \in Seq(MessageRow) /\ Len(sent) <= MaxMessages
      /\ Len(sent) \in Nat /\ MaxMessages \in Nat
  BY LenProperties, WireAssumption DEF WireInv, MessagesInv
<1>4. OtherMail \in Seq(Mail) /\ Len(OtherMail) \in Nat /\ Len(OtherMail) <= Len(sent)
  BY MailOfReader DEF WireInv
<1>5. sent' \in Seq(Mail) /\ Len(sent') <= MaxMessages
  <2>1. CASE code = GET_MESSAGES
    <3>1. sent' = OtherMail
      BY <1>1, <2>1
    <3>. QED
      BY <1>3, <1>4, <3>1
  <2>2. CASE code # GET_MESSAGES
    BY <1>1, <1>3, <2>2
  <2>. QED
    BY <2>1, <2>2
<1>6. Stored(sent, Len(sent))'
  <2>1. CASE code = GET_MESSAGES
    BY <1>1, <2>1 DEF WireInv, MessagesInv, Answered, Stored
  <2>2. CASE code # GET_MESSAGES
    BY <1>1, <2>2 DEF WireInv, MessagesInv, Asked, Answered, Stored
  <2>. QED
    BY <2>1, <2>2
<1>7. MessagesInv'
  BY <1>1, <1>3, <1>5, <1>6 DEF MessagesInv, Asked, Answered
<1>8. ProgramInv'
  <2>1. Len(<<>>) = 0 /\ <<>> = [k \in 1 .. 0 |-> <<>>[k]] /\ <<>> \in Seq(Nat)
    BY EmptySeq
  <2>. QED
    BY <1>1, <2>1 DEF WireInv, ProgramInv
<1>9. RequestInv' /\ KeyInv' /\ ListInv' /\ MailInv'
  BY <1>1 DEF RequestInv, KeyInv, ListInv, MailInv, Asked, Answered
<1>. QED
  BY <1>2, <1>7, <1>8, <1>9 DEF WireInv

\* A program without an answer is given up, with the messages that were lost taken out
\* of the history.
LEMMA GiveUpStep ==
  ASSUME WireInv, GiveUp
  PROVE  WireInv'
<1>1. /\ step = "silent" /\ step' = "idle" /\ at' = 0 /\ shown' = <<>> /\ bytes' = <<>>
      /\ clients' = clients /\ messages' = messages /\ code' = code
      /\ reader' = reader /\ meant' = meant /\ sent' = KeptMail
  BY DEF GiveUp, KeptMail
<1>2. ClientsInv'
  BY <1>1, ClientsStay DEF WireInv, Asked
<1>3. /\ sent \in Seq(Mail) /\ messages \in Seq(MessageRow) /\ Len(sent) <= MaxMessages
      /\ Len(sent) \in Nat /\ MaxMessages \in Nat
      /\ Stored(KeptMail, Len(KeptMail))
  BY <1>1, LenProperties, WireAssumption DEF WireInv, MessagesInv
<1>4. KeptMail \in Seq(Mail) /\ Len(KeptMail) \in Nat /\ Len(KeptMail) <= Len(sent)
  BY KeptMailOfReader DEF WireInv
<1>5. Stored(sent, Len(sent))'
  BY <1>1, <1>3 DEF Stored
<1>6. MessagesInv'
  <2>1. sent' \in Seq(Mail) /\ Len(sent') <= MaxMessages /\ messages' \in Seq(MessageRow)
    BY <1>1, <1>3, <1>4
  <2>. QED
    BY <1>1, <1>5, <2>1 DEF MessagesInv, Asked, Answered
<1>7. ProgramInv'
  <2>1. Len(<<>>) = 0 /\ <<>> = [k \in 1 .. 0 |-> <<>>[k]] /\ <<>> \in Seq(Nat)
    BY EmptySeq
  <2>. QED
    BY <1>1, <2>1 DEF WireInv, ProgramInv
<1>8. RequestInv' /\ KeyInv' /\ ListInv' /\ MailInv'
  BY <1>1 DEF RequestInv, KeyInv, ListInv, MailInv, Asked, Answered
<1>. QED
  BY <1>2, <1>6, <1>7, <1>8 DEF WireInv

-----------------------------------------------------------------------------

\* Every step keeps the invariant.
LEMMA Step == WireInv /\ [Next]_vars => WireInv'
<1>. SUFFICES ASSUME WireInv, [Next]_vars
              PROVE  WireInv'
  OBVIOUS
<1>1. CASE \E name \in Name, key \in PublicKey : AskRegistration(name, key)
  BY <1>1, AskRegistrationStep
<1>2. CASE \E u \in DOMAIN clients :
             \/ AskList(u)
             \/ AskMessages(u)
             \/ \E v \in DOMAIN clients :
                  \/ AskPublicKey(u, v)
                  \/ \E type \in Type, content \in Content : AskSend(u, v, type, content)
  BY <1>2, AskListStep, AskMessagesStep, AskPublicKeyStep, AskSendStep
<1>3. CASE ServeRegistration
  BY <1>3, ServeRegistrationStep
<1>4. CASE ServeList
  BY <1>4, ServeListStep
<1>5. CASE ServePublicKey
  BY <1>5, ServePublicKeyStep
<1>6. CASE ServeSend
  BY <1>6, ServeSendStep
<1>7. CASE ServeMessages
  BY <1>7, ServeMessagesStep
<1>8. CASE ReadRegistered
  BY <1>8, CodesDiffer, ReadAllStep DEF ReadRegistered
<1>9. CASE ReadClient
  BY <1>9, ReadClientStep
<1>10. CASE ReadKey
  BY <1>10, ReadAllStep DEF ReadKey
<1>11. CASE ReadSent
  BY <1>11, CodesDiffer, ReadAllStep DEF ReadSent
<1>12. CASE ReadMessage
  BY <1>12, ReadMessageStep
<1>13. CASE ReadDone
  BY <1>13, ReadDoneStep
<1>14. CASE Forget
  BY <1>14, ForgetStep
<1>15. CASE ServeMessagesRaises
  BY <1>15, ServeMessagesRaisesStep
<1>16. CASE GiveUp
  BY <1>16, GiveUpStep
<1>17. CASE UNCHANGED vars
  <2>. USE <1>17 DEF vars
  <2>1. ForReader' = ForReader
    BY DEF ForReader
  <2>2. /\ MailForReader' = MailForReader /\ OtherMail' = OtherMail
        /\ Lost' = Lost /\ KeptMail' = KeptMail
    BY <2>1 DEF MailForReader, OtherMail, KeptMail, Lost
  <2>3. ClientsInv' /\ RequestInv'
    <3>1. (Asked(REGISTRATION)' <=> Asked(REGISTRATION))
          /\ (RegistrationAsked' <=> RegistrationAsked)
      BY DEF Asked, RegistrationAsked
    <3>2. ClientsInv'
      BY <3>1 DEF WireInv, ClientsInv
    <3>3. RequestInv'
      BY DEF WireInv, RequestInv, Asked
    <3>. QED
      BY <3>2, <3>3
  <2>4. MessagesInv'
    BY <2>1, <2>2 DEF WireInv, MessagesInv, Asked, Answered, SendAsked, Stored
  <2>5. ProgramInv' /\ KeyInv' /\ ListInv'
    BY DEF WireInv, ProgramInv, KeyInv, ListInv, Answered
  <2>6. MailInv'
    BY <2>2 DEF WireInv, MailInv, Answered
  <2>. QED
    BY <2>3, <2>4, <2>5, <2>6 DEF WireInv
<1>. QED
  BY <1>1, <1>2, <1>3, <1>4, <1>5, <1>6, <1>7, <1>8, <1>9, <1>10, <1>11, <1>12, <1>13,
     <1>14, <1>17, <1>15, <1>16 DEF Next

\* What is in the database, under way and on the screen is always what the users
\* entered, in the form that belongs to the place.
THEOREM WireInvariant == Spec => []WireInv
<1>. QED
  BY StartInv, Step, PTL DEF Spec

-----------------------------------------------------------------------------
(* What the runs check, from the invariant. *)

\* The place in an answer is never behind its end.
LEMMA PlaceInAnswer ==
  ASSUME WireInv
  PROVE  at \in 0 .. Len(bytes)
<1>1. Len(bytes) \in Nat
  BY LenProperties DEF WireInv, ProgramInv
<1>2. \/ at = 0
      \/ Answered(CLIENT_LIST)
      \/ Answered(GET_MESSAGES)
  BY DEF WireInv, ProgramInv, Answered
<1>3. CASE at = 0
  BY <1>1, <1>3
<1>4. CASE Answered(CLIENT_LIST)
  <2>1. PICK order \in SetToSeqs(DOMAIN clients \ {reader}) :
          Listed(bytes, order, meant) /\ at \in 0 .. Len(order)
    BY <1>4 DEF WireInv, ListInv
  <2>2. ClientsInv /\ reader \in DOMAIN clients
    BY <1>4, CodesDiffer DEF WireInv, ProgramInv, Answered
  <2>3. Len(order) \in Nat
    BY <2>2, OrderOfOthers
  <2>4. Len(order) <= Len(bytes)
    BY <2>1, <2>3, WholeStructures DEF Listed
  <2>. QED
    BY <1>1, <2>1, <2>3, <2>4
<1>5. CASE Answered(GET_MESSAGES)
  <2>1. PICK pos \in [1 .. Len(MailForReader) + 1 -> 0 .. Len(bytes)] :
          Len(shown) <= Len(MailForReader) /\ at = pos[Len(shown) + 1]
    BY <1>5 DEF WireInv, MailInv
  <2>2. Len(MailForReader) \in Nat /\ Len(shown) \in Nat
    BY MailOfReader DEF WireInv, ProgramInv
  <2>3. Len(shown) + 1 \in 1 .. Len(MailForReader) + 1
    BY <2>1, <2>2
  <2>. QED
    BY <2>1, <2>3
<1>. QED
  BY <1>2, <1>3, <1>4, <1>5

\* Every row of the database is one of the history, and the history is not behind.
LEMMA RowsOfDatabase ==
  ASSUME WireInv
  PROVE  /\ \A i \in DOMAIN clients : i \in DOMAIN meant /\ meant[i] \in Entry
         /\ \A k \in DOMAIN messages : \E m \in Mail : messages[k] = RowOfMessage(m)
         /\ Len(messages) <= Len(sent)
<1>1. \A i \in DOMAIN clients : i \in DOMAIN meant /\ meant[i] \in Entry
  <2>1. \A i \in DOMAIN clients : i \in DOMAIN meant
    BY ClientNumbers DEF WireInv
  <2>2. meant \in Seq(Entry)
    BY DEF WireInv, ClientsInv
  <2>. QED
    BY <2>1, <2>2, LenProperties, ElementOfSeq
<1>2. PICK kept \in Seq(Mail) : /\ Len(messages) <= Len(kept) /\ Len(kept) <= Len(sent)
                                /\ \A k \in DOMAIN messages : messages[k] = RowOfMessage(kept[k])
  <2>1. /\ OtherMail \in Seq(Mail) /\ Len(OtherMail) \in Nat /\ Len(OtherMail) <= Len(sent)
        /\ sent \in Seq(Mail) /\ Len(sent) \in Nat
    BY MailOfReader, LenProperties DEF WireInv, MessagesInv
  <2>2. CASE Asked(SEND_MESSAGE)
    <3>1. Stored(sent, Len(sent) - 1)
      BY <2>2 DEF WireInv, MessagesInv, SendAsked
    <3>2. Len(messages) <= Len(sent) /\ Len(sent) <= Len(sent)
      BY <2>1, <3>1 DEF Stored
    <3>3. \A k \in DOMAIN messages : messages[k] = RowOfMessage(sent[k])
      BY <3>1 DEF Stored
    <3>. QED
      BY <2>1, <3>2, <3>3
  <2>3. CASE Answered(GET_MESSAGES)
    <3>1. Stored(OtherMail, Len(OtherMail))
      BY <2>3 DEF WireInv, MessagesInv
    <3>2. /\ Len(messages) = Len(OtherMail)
          /\ \A k \in DOMAIN messages : messages[k] = RowOfMessage(OtherMail[k])
      BY <3>1 DEF Stored
    <3>3. Len(messages) <= Len(OtherMail)
      BY <2>1, <3>2
    <3>. QED
      BY <2>1, <3>2, <3>3
  <2>4. CASE step = "silent"
    <3>1. Stored(KeptMail, Len(KeptMail))
      BY <2>4 DEF WireInv, MessagesInv
    <3>2. /\ Len(messages) = Len(KeptMail)
          /\ \A k \in DOMAIN messages : messages[k] = RowOfMessage(KeptMail[k])
      BY <3>1 DEF Stored
    <3>3. KeptMail \in Seq(Mail) /\ Len(KeptMail) \in Nat /\ Len(KeptMail) <= Len(sent)
      BY KeptMailOfReader DEF WireInv
    <3>. QED
      BY <3>2, <3>3
  <2>5. CASE ~Asked(SEND_MESSAGE) /\ ~Answered(GET_MESSAGES) /\ step # "silent"
    <3>1. Stored(sent, Len(sent))
      BY <2>5 DEF WireInv, MessagesInv
    <3>2. /\ Len(messages) = Len(sent)
          /\ \A k \in DOMAIN messages : messages[k] = RowOfMessage(sent[k])
      BY <3>1 DEF Stored
    <3>3. Len(messages) <= Len(sent) /\ Len(sent) <= Len(sent)
      BY <2>1, <3>2
    <3>. QED
      BY <2>1, <3>2, <3>3
  <2>. QED
    BY <2>2, <2>3, <2>4, <2>5
<1>3. /\ Len(messages) \in Nat /\ DOMAIN messages = 1 .. Len(messages)
      /\ Len(kept) \in Nat /\ DOMAIN kept = 1 .. Len(kept) /\ Len(sent) \in Nat
  BY LenProperties DEF WireInv, MessagesInv
<1>4. \A k \in DOMAIN messages : k \in 1 .. Len(kept)
  BY <1>2, <1>3
<1>5. \A k \in DOMAIN messages : kept[k] \in Mail
  BY <1>4, ElementOfSeq
<1>6. Len(messages) <= Len(sent)
  BY <1>2, <1>3
<1>. QED
  BY <1>1, <1>2, <1>5, <1>6

\* Types: a content that is kept as text has two digits for a byte, as a key has, and a
\* place in an answer is never behind its end, whatever lengths the answer has in it.
THEOREM TypeCorrect == Spec => []TypeOK
<1>1. WireInv => TypeOK
  <2>. SUFFICES ASSUME WireInv
                PROVE  TypeOK
    OBVIOUS
  <2>1. \A i \in DOMAIN clients : /\ clients[i].id = ClientId(i)
                                  /\ clients[i].name \in Name
                                  /\ Len(clients[i].public_key) = 2 * KeySize
    <3>1. SUFFICES ASSUME NEW i \in DOMAIN clients
                   PROVE  /\ clients[i].id = ClientId(i)
                          /\ clients[i].name \in Name
                          /\ Len(clients[i].public_key) = 2 * KeySize
      OBVIOUS
    <3>2. clients[i] = RowOfClient(meant[i], i)
      BY DEF WireInv, ClientsInv
    <3>3. meant[i].name \in Name /\ meant[i].key \in PublicKey
      BY RowsOfDatabase DEF Entry
    <3>4. Len(HexText(meant[i].key)) = 2 * KeySize
      <4>1. meant[i].key \in Seq(0 .. 255)
        BY <3>3, KeysAreBytes
      <4>2. Len(HexText(meant[i].key)) = 2 * Len(meant[i].key)
        BY <4>1, HexRoundTrip
      <4>. QED
        BY <3>3, <4>2, KeysAreBytes
    <3>. QED
      BY <3>2, <3>3, <3>4 DEF RowOfClient
  <2>2. \A k \in DOMAIN messages : /\ messages[k].content.number \in BOOLEAN
                                   /\ Len(messages[k].content.text) % 2 = 0
    <3>1. SUFFICES ASSUME NEW k \in DOMAIN messages, NEW m \in Mail,
                          messages[k] = RowOfMessage(m)
                   PROVE  /\ messages[k].content.number \in BOOLEAN
                          /\ Len(messages[k].content.text) % 2 = 0
      BY RowsOfDatabase
    <3>2. m.content \in Seq(0 .. 255) /\ Len(m.content) \in Nat
      BY ContentsAreBytes DEF Mail
    <3>3. Len(HexText(m.content)) % 2 = 0
      <4>1. Len(HexText(m.content)) = 2 * Len(m.content)
        BY <3>2, HexRoundTrip
      <4>2. \A x \in Nat : (2 * x) % 2 = 0
        OBVIOUS
      <4>. QED
        BY <3>2, <4>1, <4>2
    <3>4. Len(<<>>) % 2 = 0
      <4>1. Len(<<>>) = 0
        BY EmptySeq
      <4>. QED
        BY <4>1
    <3>5. messages[k].content.number \in BOOLEAN
      BY <3>1, RowOfMessageIsRow DEF MessageRow
    <3>6. messages[k].content.text \in {HexText(m.content), <<>>}
      BY <3>1, RowOfMessageIsRow
    <3>. QED
      BY <3>3, <3>4, <3>5, <3>6
  <2>3. at \in 0 .. Len(bytes)
    BY PlaceInAnswer
  <2>4. step \in {"idle", "request", "reading", "done", "silent"} /\ reader \in 0 .. MaxClients
    BY DEF WireInv, ProgramInv
  <2>5. Len(clients) <= Len(meant) /\ Len(meant) <= Len(clients) + 1
    <3>1. Len(clients) \in Nat /\ Len(meant) \in Nat
      BY LenProperties DEF WireInv, ClientsInv
    <3>2. Len(meant) = Len(clients) \/ Len(meant) = Len(clients) + 1
      BY DEF WireInv, ClientsInv, RegistrationAsked
    <3>. QED
      BY <3>1, <3>2
  <2>6. Len(messages) <= Len(sent) /\ Len(sent) <= MaxMessages + 1
    <3>1. Len(sent) \in Nat /\ Len(sent) <= MaxMessages /\ MaxMessages \in Nat
      BY LenProperties, WireAssumption DEF WireInv, MessagesInv
    <3>. QED
      BY <3>1, RowsOfDatabase
  <2>. QED
    BY <2>1, <2>2, <2>3, <2>4, <2>5, <2>6 DEF TypeOK
<1>. QED
  BY <1>1, WireInvariant, PTL

\* The public key that a program is given is the one that its owner's program sent.
THEOREM KeyArrivesAlways == Spec => []KeyArrives
<1>1. WireInv => KeyArrives
  <2>. SUFFICES ASSUME WireInv, Done(PUBLIC_KEY)
                PROVE  \E i \in DOMAIN meant : /\ SubSeq(bytes, 1, IdSize) = ClientId(i)
                                               /\ shown = <<meant[i].key>>
    BY DEF KeyArrives
  <2>1. PICK v \in DOMAIN clients : /\ bytes = KeyPayload(ClientId(v), meant[v].key)
                                    /\ shown = <<meant[v].key>>
    BY DEF WireInv, KeyInv, Answered, Done
  <2>2. v \in DOMAIN meant /\ v \in Nat /\ meant[v] \in Entry
    BY RowsOfDatabase, ClientNumbers DEF WireInv
  <2>. DEFINE id  == ClientId(v)
              key == meant[v].key
  <2>3. id \in Seq(Nat) /\ key \in Seq(Nat)
    BY <2>2, ClientIdIsArray, KeysAreBytes DEF Entry
  <2>4. Len(id) = IdSize /\ IdSize \in Nat
    BY <2>2, ClientIdIsArray, WireAssumption
  <2>. HIDE DEF id, key
  <2>5. \A j \in 1 .. Len(id) : (id \o key)[j] = id[j]
    BY <2>3, Concatenation
  <2>6. \A j \in 1 .. Len(id) : (id \o key)[1 + j - 1] = id[j]
    <3>1. \A j \in 1 .. Len(id) : 1 + j - 1 = j
      OBVIOUS
    <3>. QED
      BY <2>5, <3>1
  <2>7. Field(id \o key, 1, Len(id)) = id
    BY <2>3, <2>6, FieldIs
  <2>8. SubSeq(bytes, 1, IdSize) = id
    <3>1. 1 + IdSize - 1 = IdSize
      BY <2>4
    <3>. QED
      BY <2>1, <2>4, <2>7, <3>1 DEF Field, KeyPayload, id, key
  <2>. QED
    BY <2>1, <2>2, <2>8 DEF id
<1>. QED
  BY <1>1, WireInvariant, PTL

\* The list that a program shows has every other client once, under its identifier
\* and with the name that its user entered.
THEOREM ListIsCompleteAlways == Spec => []ListIsComplete
<1>1. WireInv => ListIsComplete
  <2>. SUFFICES ASSUME WireInv, Done(CLIENT_LIST)
                PROVE  /\ Len(shown) = Len(meant) - 1
                       /\ \A i \in DOMAIN meant \ {reader} : \E k \in DOMAIN shown :
                            shown[k].id = ClientId(i) /\ ShownAs(meant[i].name, shown[k].name)
    BY DEF ListIsComplete
  <2>1. step = "done" /\ code = CLIENT_LIST
    BY DEF Done
  <2>2. PICK order \in SetToSeqs(DOMAIN clients \ {reader}) :
          /\ Len(shown) = Len(order)
          /\ \A k \in 1 .. Len(order) :
               /\ shown[k].id = ClientId(order[k])
               /\ ShownAs(meant[order[k]].name, shown[k].name)
    BY <2>1 DEF WireInv, ListInv, Answered
  <2>3. ClientsInv /\ reader \in DOMAIN clients
    BY <2>1, CodesDiffer DEF WireInv, ProgramInv
  <2>4. /\ Len(order) = Len(clients) - 1
        /\ \A i \in DOMAIN clients \ {reader} : \E k \in 1 .. Len(order) : order[k] = i
    BY <2>3, OrderOfOthers
  <2>5. Len(meant) = Len(clients) /\ DOMAIN meant = DOMAIN clients
    <3>1. Len(meant) = Len(clients)
      BY <2>1, <2>3 DEF ClientsInv, Asked
    <3>. QED
      BY <2>3, <3>1, LenProperties DEF ClientsInv
  <2>6. DOMAIN shown = 1 .. Len(order)
    BY <2>2 DEF WireInv, ProgramInv
  <2>. QED
    BY <2>2, <2>4, <2>5, <2>6
<1>. QED
  BY <1>1, WireInvariant, PTL

\* If there is an answer, which is when no content that waits looks like a number, the
\* program takes it apart into the messages that were sent to it, whole, in order, and
\* no others.
THEOREM MessagesArriveAlways == Spec => []MessagesArrive
<1>1. WireInv => MessagesArrive
  <2>. SUFFICES ASSUME WireInv, Done(GET_MESSAGES)
                PROVE  shown = [k \in DOMAIN MailForReader |-> AsShown(MailForReader[k])]
    BY DEF MessagesArrive, MailForReader, AsShown
  <2>1. /\ Len(shown) = Len(MailForReader)
        /\ \A k \in 1 .. Len(shown) : shown[k] = AsShown(MailForReader[k])
    BY DEF WireInv, MailInv, Answered, Done
  <2>2. DOMAIN MailForReader = 1 .. Len(shown)
    BY <2>1, MailOfReader DEF WireInv
  <2>3. shown = [k \in 1 .. Len(shown) |-> shown[k]]
    BY DEF WireInv, ProgramInv
  <2>4. shown = [k \in 1 .. Len(shown) |-> AsShown(MailForReader[k])]
    BY <2>1, <2>3
  <2>. QED
    BY <2>2, <2>4
<1>. QED
  BY <1>1, WireInvariant, PTL

\* When the thread ended at a number, the table has every message but the ones before
\* it, as they were sent, and the number is among them.
THEOREM SilentAtNumberAlways == Spec => []SilentAtNumber
<1>1. WireInv => SilentAtNumber
  <2>. SUFFICES ASSUME WireInv, step = "silent"
                PROVE  /\ \E k \in ForReader \ Lost : IsNumber(sent[k])
                       /\ messages = [k \in DOMAIN KeptMail |-> RowOfMessage(KeptMail[k])]
    BY DEF SilentAtNumber, KeptMail, RowOfMessage, IsNumber
  <2>1. Stored(KeptMail, Len(KeptMail)) /\ ForReader \ Lost # {}
    BY DEF WireInv, MessagesInv
  <2>2. \E k \in ForReader \ Lost : IsNumber(sent[k])
    <3>1. PICK k \in ForReader : k \notin Lost
      BY <2>1
    <3>2. PICK j \in ForReader : j <= k /\ IsNumber(sent[j])
      BY <3>1 DEF Lost, IsNumber
    <3>3. j \in Nat
      BY LenProperties DEF WireInv, MessagesInv, ForReader
    <3>4. j \notin Lost
      BY <3>2, <3>3 DEF Lost, IsNumber
    <3>. QED
      BY <3>2, <3>4
  <2>3. KeptMail \in Seq(Mail) /\ messages \in Seq(MessageRow)
    BY KeptMailOfReader DEF WireInv, MessagesInv
  <2>4. /\ DOMAIN messages = DOMAIN KeptMail
        /\ \A k \in DOMAIN messages : messages[k] = RowOfMessage(KeptMail[k])
    BY <2>1, <2>3, LenProperties DEF Stored
  <2>5. messages = [k \in DOMAIN messages |-> messages[k]]
    BY <2>3
  <2>. QED
    BY <2>2, <2>4, <2>5
<1>. QED
  BY <1>1, WireInvariant, PTL

=============================================================================

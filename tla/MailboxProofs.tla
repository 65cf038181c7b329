---------------------------- MODULE MailboxProofs ----------------------------
(***************************************************************************)
(* What follows from the promise about mail, for every number of           *)
(* connections and letters.                                                *)
(***************************************************************************)
EXTENDS Mailbox, SequenceTheorems, TLAPS

\* The letters somewhere are among those that were posted.
Known(S) == \A letter \in S : letter[2] < count

Places ==
  /\ count \in Nat
  /\ stored \subseteq Letter
  /\ inHand \in [Connection -> SUBSET Letter]
  /\ received \in [Connection -> Seq(Letter)]
  /\ Known(stored)
  /\ \A c \in Connection : Known(inHand[c]) /\ Known(Delivered(c))

\* While nothing is shared: a letter is posted under a new number, and moved on,
\* never copied.
Inv == (~shared => Places) /\ OnePlace /\ DeliveredInOrder

\* The empty box is in order.
LEMMA InitInv == Init => Inv
BY DEF Init, Inv, Places, OnePlace, DeliveredInOrder, Known, Delivered, InPostedOrder

\* A letter is posted under a number that no other letter has.
LEMMA PostInv ==
  ASSUME Inv, ~shared, NEW c \in Connection, Post(c)
  PROVE  Inv'
<1>1. /\ Places /\ UNCHANGED <<inHand, received, shared>>
      /\ count' = count + 1 /\ stored' = stored \cup {<<c, count>>}
  BY DEF Inv, Post
<1>2. \A d \in Connection : Delivered(d)' = Delivered(d)
  BY <1>1 DEF Delivered
<1>3. Places'
  <2>1. stored' \subseteq Letter
    BY <1>1 DEF Places, Letter
  <2>2. Known(stored)'
    BY <1>1 DEF Places, Known, Letter
  <2>3. \A d \in Connection : Known(inHand[d])' /\ Known(Delivered(d))'
    <3>. SUFFICES ASSUME NEW d \in Connection, NEW letter \in inHand[d] \cup Delivered(d)
                  PROVE  letter[2] < count + 1
      BY <1>1, <1>2 DEF Known
    <3>1. letter[2] < count /\ count \in Nat /\ letter \in Letter
      BY <1>1 DEF Places, Known, Delivered
    <3>. QED
      BY <3>1 DEF Letter
  <2>. QED
    BY <1>1, <2>1, <2>2, <2>3 DEF Places
<1>4. \A d \in Connection : <<c, count>> \notin inHand[d] \cup Delivered(d)
  BY <1>1 DEF Places, Known
<1>5. OnePlace'
  BY <1>1, <1>2, <1>4 DEF Inv, OnePlace
<1>6. DeliveredInOrder'
  BY <1>1 DEF Inv, DeliveredInOrder, InPostedOrder
<1>. QED
  BY <1>3, <1>5, <1>6 DEF Inv

\* A letter that is taken leaves the box.
LEMMA TakeInv ==
  ASSUME Inv, ~shared, NEW c \in Connection, NEW letter \in stored, Take(c, letter)
  PROVE  Inv'
<1>1. /\ Places /\ UNCHANGED <<count, received, shared>>
      /\ stored' = stored \ {letter}
      /\ inHand' = [inHand EXCEPT ![c] = @ \cup {letter}]
  BY DEF Inv, Take
<1>2. \A d \in Connection : Delivered(d)' = Delivered(d)
  BY <1>1 DEF Delivered
<1>3. /\ inHand'[c] = inHand[c] \cup {letter}
      /\ \A d \in Connection \ {c} : inHand'[d] = inHand[d]
  BY <1>1 DEF Places
<1>4. Places'
  BY <1>1, <1>2, <1>3 DEF Places, Known
<1>5. OnePlace'
  BY <1>1, <1>2, <1>3 DEF Inv, OnePlace
<1>6. DeliveredInOrder'
  BY <1>1 DEF Inv, DeliveredInOrder, InPostedOrder
<1>. QED
  BY <1>4, <1>5, <1>6 DEF Inv

\* What is appended was at hand, so it was not delivered before.
LEMMA DeliverInv ==
  ASSUME Inv, ~shared, NEW c \in Connection, NEW n \in 0 .. count,
         NEW s \in [1 .. n -> inHand[c]], Deliver(c, s)
  PROVE  Inv'
<1>. DEFINE old == received[c]
            given == {s[i] : i \in DOMAIN s}
<1>1. /\ Places /\ UNCHANGED <<count, stored, shared>>
      /\ \A i, j \in DOMAIN s : s[i] = s[j] => i = j
      /\ InPostedOrder(old \o s)
      /\ received' = [received EXCEPT ![c] = old \o s]
      /\ inHand' = [inHand EXCEPT ![c] = @ \ given]
  BY DEF Inv, Deliver
<1>2. n \in Nat /\ inHand[c] \subseteq Letter /\ old \in Seq(Letter)
  BY <1>1 DEF Places
<1>3. s \in Seq(Letter) /\ Len(s) = n /\ DOMAIN s = 1 .. n
  BY <1>2
<1>4. /\ old \o s \in Seq(Letter)
      /\ Len(old \o s) = Len(old) + n
      /\ \A i \in 1 .. Len(old) + n :
           (old \o s)[i] = IF i <= Len(old) THEN old[i] ELSE s[i - Len(old)]
  BY <1>2, <1>3
<1>5. /\ received'[c] = old \o s /\ inHand'[c] = inHand[c] \ given
      /\ \A d \in Connection \ {c} :
           received'[d] = received[d] /\ inHand'[d] = inHand[d]
  BY <1>1 DEF Places
<1>6. /\ Delivered(c)' = Delivered(c) \cup given
      /\ \A d \in Connection \ {c} : Delivered(d)' = Delivered(d)
  <2>1. PICK k \in Nat : k = Len(old)
    BY <1>2
  <2>2. DOMAIN old = 1 .. k /\ DOMAIN (old \o s) = 1 .. k + n
    BY <1>2, <1>4, <2>1
  <2>. DEFINE new == old \o s
  <2>3. /\ \A i \in 1 .. k + n : new[i] = IF i <= k THEN old[i] ELSE s[i - k]
        /\ DOMAIN new = 1 .. k + n
    BY <1>4, <2>1, <2>2
  <2>4. received'[c] = new
    BY <1>5
  <2>. HIDE DEF new
  <2>5. \A i \in 1 .. k + n : new[i] \in Delivered(c) \cup given
    <3>. SUFFICES ASSUME NEW i \in 1 .. k + n PROVE new[i] \in Delivered(c) \cup given
      OBVIOUS
    <3>1. CASE i <= k
      <4>1. i \in DOMAIN old
        BY <2>1, <2>2, <3>1
      <4>2. new[i] = old[i]
        BY <2>3, <3>1
      <4>. QED
        BY <4>1, <4>2 DEF Delivered
    <3>2. CASE i > k
      <4>1. i - k \in 1 .. n /\ new[i] = s[i - k]
        BY <1>2, <2>1, <2>3, <3>2
      <4>. QED
        BY <1>3, <4>1
    <3>. QED
      BY <1>2, <2>1, <3>1, <3>2
  <2>6. \A letter \in Delivered(c) \cup given : \E i \in 1 .. k + n : new[i] = letter
    <3>1. \A i \in 1 .. k : i \in 1 .. k + n /\ new[i] = old[i]
      BY <1>2, <2>1, <2>3
    <3>2. \A i \in 1 .. n : i + k \in 1 .. k + n /\ new[i + k] = s[i]
      <4>. SUFFICES ASSUME NEW i \in 1 .. n
                    PROVE  i + k \in 1 .. k + n /\ new[i + k] = s[i]
        OBVIOUS
      <4>1. n \in Nat
        BY <1>2
      <4>2. i + k \in 1 .. k + n /\ ~(i + k <= k) /\ (i + k) - k = i
        BY <4>1
      <4>. QED
        BY <2>3, <4>2
    <3>. QED
      BY <1>3, <2>2, <3>1, <3>2 DEF Delivered
  <2>7. Delivered(c)' = {new[i] : i \in 1 .. k + n}
    BY <2>3, <2>4 DEF Delivered
  <2>8. {new[i] : i \in 1 .. k + n} = Delivered(c) \cup given
    BY <2>5, <2>6
  <2>9. \A d \in Connection \ {c} : Delivered(d)' = Delivered(d)
    BY <1>5 DEF Delivered
  <2>. QED
    BY <2>7, <2>8, <2>9
<1>7. given \subseteq inHand[c]
  BY <1>3
<1>8. Places'
  BY <1>1, <1>4, <1>5, <1>6, <1>7 DEF Places, Known
<1>9. OnePlace'
  <2>1. \A d, e \in Connection :
          /\ stored \cap (inHand[d] \cup Delivered(d)) = {}
          /\ inHand[d] \cap Delivered(e) = {}
          /\ d # e => inHand[d] \cap inHand[e] = {}
          /\ \A i \in DOMAIN received[d], j \in DOMAIN received[e] :
               received[d][i] = received[e][j] => d = e /\ i = j
    BY DEF Inv, OnePlace
  <2>2. /\ \A d \in Connection : stored' \cap (inHand[d] \cup Delivered(d))' = {}
        /\ \A d, e \in Connection :
             /\ inHand'[d] \cap Delivered(e)' = {}
             /\ d # e => inHand'[d] \cap inHand'[e] = {}
    BY <1>1, <1>5, <1>6, <1>7, <2>1
  <2>3. ASSUME NEW d \in Connection, NEW e \in Connection,
               NEW i \in DOMAIN received'[d], NEW j \in DOMAIN received'[e],
               received'[d][i] = received'[e][j]
        PROVE  d = e /\ i = j
    <3>0. Len(old) \in Nat /\ DOMAIN old = 1 .. Len(old)
          /\ DOMAIN (old \o s) = 1 .. Len(old) + n
      BY <1>2, <1>4
    <3>1. CASE d # c /\ e # c
      BY <1>5, <2>1, <2>3, <3>1
    <3>2. CASE d = c /\ e = c
      <4>1. i \in 1 .. Len(old) + n /\ j \in 1 .. Len(old) + n
            /\ (old \o s)[i] = (old \o s)[j]
        BY <1>5, <2>3, <3>0, <3>2
      <4>2. CASE i <= Len(old) /\ j <= Len(old)
        BY <1>4, <2>1, <3>0, <3>2, <4>1, <4>2
      <4>3. CASE i > Len(old) /\ j > Len(old)
        <5>1. i - Len(old) \in 1 .. n /\ j - Len(old) \in 1 .. n
              /\ s[i - Len(old)] = s[j - Len(old)]
          BY <1>2, <1>4, <3>0, <4>1, <4>3, SMTT(40)
        <5>. QED
          BY <1>1, <1>3, <3>0, <3>2, <4>1, <5>1
      <4>4. \A k, l \in 1 .. Len(old) + n :
              k <= Len(old) /\ l > Len(old) => (old \o s)[k] # (old \o s)[l]
        <5>1. SUFFICES ASSUME NEW k \in 1 .. Len(old), NEW l \in 1 .. Len(old) + n,
                              l > Len(old)
                       PROVE  old[k] # s[l - Len(old)]
          BY <1>2, <1>4, <3>0
        <5>2. l - Len(old) \in 1 .. n
          BY <1>2, <3>0, <5>1
        <5>3. s[l - Len(old)] \in inHand[c] /\ old[k] \in Delivered(c)
          BY <3>0, <5>1, <5>2 DEF Delivered
        <5>. QED
          BY <2>1, <5>3
      <4>. QED
        BY <3>0, <4>1, <4>2, <4>3, <4>4, SMTT(40)
    <3>3. CASE (d = c) # (e = c)
      <4>1. \A f \in Connection \ {c} : \A k \in DOMAIN received[f] :
              received[f][k] \notin Delivered(c) \cup given
        BY <1>7, <2>1 DEF Delivered
      <4>2. received'[d][i] \in Delivered(d)' /\ received'[e][j] \in Delivered(e)'
        BY DEF Delivered
      <4>. QED
        BY <1>5, <1>6, <2>3, <3>3, <4>1, <4>2, SMTT(40)
    <3>. QED
      BY <3>1, <3>2, <3>3
  <2>. QED
    BY <2>2, <2>3 DEF OnePlace
<1>10. DeliveredInOrder'
  <2>1. \A d \in Connection : InPostedOrder(received[d])
    BY DEF Inv, DeliveredInOrder
  <2>2. ASSUME NEW d \in Connection PROVE InPostedOrder(received[d])'
    <3>1. CASE d # c
      BY <1>5, <2>1, <3>1 DEF InPostedOrder
    <3>2. CASE d = c
      <4>. DEFINE new == old \o s
      <4>1. received'[d] = new /\ InPostedOrder(new)
        BY <1>1, <1>5, <3>2
      <4>. HIDE DEF new
      <4>. QED
        BY <4>1 DEF InPostedOrder
    <3>. QED
      BY <3>1, <3>2
  <2>. QED
    BY <2>2 DEF DeliveredInOrder
<1>. QED
  BY <1>8, <1>9, <1>10 DEF Inv

\* Letters are lost with a connection, and none appears.
LEMMA BreakInv ==
  ASSUME Inv, ~shared, Break
  PROVE  Inv'
<1>1. /\ Places /\ UNCHANGED <<count, stored, received, shared>>
      /\ inHand' \in [Connection -> SUBSET Letter]
      /\ \A c \in Connection : inHand'[c] \subseteq inHand[c]
  BY DEF Inv, Break
<1>2. \A d \in Connection : Delivered(d)' = Delivered(d)
  BY <1>1 DEF Delivered
<1>3. Places'
  BY <1>1, <1>2 DEF Places, Known
<1>4. OnePlace'
  BY <1>1, <1>2 DEF Inv, OnePlace
<1>5. DeliveredInOrder'
  BY <1>1 DEF Inv, DeliveredInOrder, InPostedOrder
<1>. QED
  BY <1>3, <1>4, <1>5 DEF Inv

\* Every step keeps the invariant.
LEMMA NextInv == Inv /\ [Next]_vars => Inv'
<1>. SUFFICES ASSUME Inv, [Next]_vars PROVE Inv'
  OBVIOUS
<1>1. CASE shared' = TRUE
  BY <1>1 DEF Inv, OnePlace, DeliveredInOrder
<1>2. CASE UNCHANGED vars
  BY <1>2 DEF vars, Inv, Places, OnePlace, DeliveredInOrder, Known, Delivered, InPostedOrder
<1>3. CASE shared /\ shared' = shared
  BY <1>3 DEF Inv, OnePlace, DeliveredInOrder
<1>4. CASE Next /\ ~shared /\ shared' # TRUE
  BY <1>4, PostInv, TakeInv, DeliverInv, BreakInv DEF Next, Share
<1>. QED
  BY <1>1, <1>2, <1>3, <1>4 DEF Next, Share, Post, Take, Deliver, Break

\* The inductive invariant, and with it the types.
THEOREM MailboxInvariant == Spec => []Inv
BY InitInv, NextInv, PTL DEF Spec

\* A letter is in the box, at hand of one connection, or delivered once: whoever keeps
\* the promise neither copies a letter nor delivers it twice.
THEOREM OnePlaceAlways == Spec => []OnePlace
<1>1. Inv => OnePlace
  BY DEF Inv
<1>. QED
  BY <1>1, MailboxInvariant, PTL

\* And it is delivered in the order of its sender.
THEOREM DeliveredInOrderAlways == Spec => []DeliveredInOrder
<1>1. Inv => DeliveredInOrder
  BY DEF Inv
<1>. QED
  BY <1>1, MailboxInvariant, PTL

=============================================================================

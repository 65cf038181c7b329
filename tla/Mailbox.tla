------------------------------ MODULE Mailbox -------------------------------
(***************************************************************************)
(* What the server promises about mail, without threads, identifiers,      *)
(* requests or sockets: a letter is posted, taken out of the box by one    *)
(* connection, and delivered there or lost with the connection.            *)
(*                                                                         *)
(* The promise ends when two sessions read one mailbox at a time.  That    *)
(* MessageUServer keeps it is MailboxService there.                        *)
(***************************************************************************)
EXTENDS Integers, Sequences

CONSTANT Connection   \* connections; each is used once

VARIABLES
  count,      \* letters posted so far
  stored,     \* letters in the box
  inHand,     \* letters that a connection took out and did not deliver yet
  received,   \* letters that were delivered at a connection, in order
  up,         \* the connection is not broken
  shared      \* two sessions read one mailbox at a time

vars == <<count, stored, inHand, received, up, shared>>

\* A letter is who posted it, and its rank among all letters.
Letter == Connection \X Nat

\* Letters of one sender are in the order they were posted.
InPostedOrder(s) ==
  \A i, j \in DOMAIN s : i < j /\ s[i][1] = s[j][1] => s[i][2] < s[j][2]

-----------------------------------------------------------------------------

Init ==
  /\ count = 0
  /\ stored = {}
  /\ inHand = [c \in Connection |-> {}]
  /\ received = [c \in Connection |-> <<>>]
  /\ up = [c \in Connection |-> TRUE]
  /\ shared = FALSE

\* The connection may break in the same moment.
Post(c) ==
  /\ count' = count + 1
  /\ stored' = stored \cup {<<c, count>>}
  /\ up' = up \/ up' = [up EXCEPT ![c] = FALSE]
  /\ UNCHANGED <<inHand, received, shared>>

Take(c, letter) ==
  /\ letter \in stored
  /\ stored' = stored \ {letter}
  /\ inHand' = [inHand EXCEPT ![c] = @ \cup {letter}]
  /\ UNCHANGED <<count, received, up, shared>>

\* One answer: some of the letters at hand, each once.
Deliver(c, s) ==
  /\ \A i, j \in DOMAIN s : s[i] = s[j] => i = j
  /\ InPostedOrder(received[c] \o s)
  /\ received' = [received EXCEPT ![c] = @ \o s]
  /\ inHand' = [inHand EXCEPT ![c] = @ \ {s[i] : i \in DOMAIN s}]
  /\ UNCHANGED <<count, stored, up, shared>>

\* Connections break, for good, and letters at hand there may be lost.
Break ==
  /\ up' \in [Connection -> BOOLEAN]
  /\ inHand' \in [Connection -> SUBSET Letter]
  /\ \A c \in Connection :
       /\ up'[c] => up[c] /\ inHand'[c] = inHand[c]
       /\ inHand'[c] \subseteq inHand[c]
  /\ UNCHANGED <<count, stored, received, shared>>

\* From here on nothing is promised.
Share == shared' = TRUE

Next ==
  \/ Share
  \/ \E c \in Connection :
       \/ Post(c)
       \/ \E letter \in stored : Take(c, letter)
       \/ \E n \in 0 .. count : \E s \in [1 .. n -> inHand[c]] : Deliver(c, s)
  \/ Break

Spec == Init /\ [][Next]_vars

-----------------------------------------------------------------------------

Delivered(c) == {received[c][i] : i \in DOMAIN received[c]}

\* A letter is in one place: in the box, at hand of one connection, or delivered at
\* one connection, once.
OnePlace ==
  ~shared =>
    /\ \A c \in Connection : stored \cap (inHand[c] \cup Delivered(c)) = {}
    /\ \A c, d \in Connection :
         /\ inHand[c] \cap Delivered(d) = {}
         /\ c # d => inHand[c] \cap inHand[d] = {}
         /\ \A i \in DOMAIN received[c], j \in DOMAIN received[d] :
              received[c][i] = received[d][j] => c = d /\ i = j

\* Letters of one sender are delivered at a connection in the order they were posted.
DeliveredInOrder ==
  ~shared => \A c \in Connection : InPostedOrder(received[c])

=============================================================================

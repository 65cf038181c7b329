------------------------------ MODULE ClientId ------------------------------
(***************************************************************************)
(* Client identifiers: 32 hexadecimal digits kept as text.  The server     *)
(* counts with the FIRST character as the least significant digit, and the *)
(* database compares the text from the first character on, so that the two *)
(* orders below are different orders.                                      *)
(***************************************************************************)
EXTENDS Integers

CONSTANTS
  Base,    \* digits of an identifier are 0 .. Base-1 (16 in the code: '0'..'f')
  Digits   \* length of an identifier (ID_SIZE = 32 in the code)

ASSUME ClientIdAssumption == Base \in Nat \ {0, 1} /\ Digits \in Nat \ {0}

Position == 0 .. Digits - 1
Digit    == 0 .. Base - 1
Id       == [Position -> Digit]

ZeroId == [p \in Position |-> 0]
MaxId  == [p \in Position |-> Base - 1]

\* Leading digits that id_add1 turns from 'f' into '0' before it stops.
Carried(id) == {p \in Position : \A q \in 0 .. p : id[q] = Base - 1}

\* Mutant: id_add1 does not carry.
Add1NoCarry(id) == [id EXCEPT ![0] = @ + 1]

\* id_add1: carry over the digits 'f' from the first position, then increment.
Add1(id) ==
  [p \in Position |->
     IF p \in Carried(id) THEN 0
     ELSE IF \A q \in 0 .. p - 1 : q \in Carried(id) THEN id[p] + 1
     ELSE id[p]]

\* The order in which Add1 hands identifiers out: the last position where two
\* identifiers differ decides.
CountsBefore(a, b) ==
  \E p \in Position : /\ a[p] < b[p]
                      /\ \A q \in p + 1 .. Digits - 1 : a[q] = b[q]

\* The order of the text column: the first position where they differ decides.
SortsBefore(a, b) ==
  \E p \in Position : /\ a[p] < b[p]
                      /\ \A q \in 0 .. p - 1 : a[q] = b[q]

=============================================================================

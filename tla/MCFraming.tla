----------------------------- MODULE MCFraming -----------------------------
(* A small instance of the framing for TLC: a buffer of 4 bytes, a header of 2. *)
EXTENDS Framing

\* Requests that one recv, or two, bring whole, that fill the buffer, and that are
\* longer than two of it.
MCLengths == {2, 4, 8, 9}

\* Four requests that arrive at once, or two in pieces.
MCMaxRequests == [w \in BOOLEAN |-> IF w THEN 4 ELSE 2]

=============================================================================

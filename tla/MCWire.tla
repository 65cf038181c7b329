------------------------------- MODULE MCWire ------------------------------
(* A small instance of the structures of the protocol for TLC. *)
EXTENDS Wire

\* Names: empty, shorter than the field, and as long as it is.
MCNames == {<<>>, <<65>>, <<66, 65, 67>>}

\* A key with every digit in both places of a byte.
MCKeys == {<<0, 31, 46, 61, 76, 91, 106, 121, 136, 151, 166, 181, 196, 211, 226, 241>>}

\* No content, one whose hexadecimal form is a number ("1e52"), and one with NUL that
\* begins in the same way and is none ("1e00ab").
MCContents == {<<>>, <<30, 82>>, <<30, 0, 171>>}

=============================================================================

-------------------------- MODULE MCClientRegistry --------------------------
(* A small instance of the client registry for TLC: identifiers of two
   ternary digits, more clients than one digit can number. *)
EXTENDS ClientRegistry

CONSTANTS ann, ben, cid, dan, eve

MCName == {ann, ben, cid, dan, eve}

=============================================================================

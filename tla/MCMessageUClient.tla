-------------------------- MODULE MCMessageUClient --------------------------
(* A small instance of the client programs for TLC. *)
EXTENDS MessageUClient, TLC

CONSTANTS alice, bob

MCUsers    == {alice, bob}
MCSymmetry == Permutations(MCUsers)
MCTypes    == {"key", "text"}
MCAllTypes == {"ask", "key", "text", "file"}

=============================================================================

--------------------------- MODULE MCMessageStore ---------------------------
(* A small instance of the message store for TLC. *)
EXTENDS MessageStore, TLC

CONSTANTS s1, s2, s3, alice, bob, carl, text

MCSession  == {s1, s2, s3}
MCClient   == {alice, bob}
MCSender   == {carl}
MCContent  == {text}
MCSymmetry == Permutations(MCSession) \cup Permutations(MCClient)

=============================================================================

-------------------------- MODULE MCMessageUServer --------------------------
(* Small instances of the server for TLC. *)
EXTENDS MessageUServer, TLC

CONSTANTS c1, c2, c3, ann, ben, zoe

MCConns2 == {c1, c2}
MCConns3 == {c1, c2, c3}
MCNames1 == {ann}
MCNames2 == {ann, ben}

\* An addressee that is registered only after it was written to, or never.
MCStrangers == {[p \in {0} |-> 2]}

MCSymmetry2 == Permutations(MCConns2) \cup Permutations(MCNames2)
MCSymmetry3 == Permutations(MCConns3)

=============================================================================

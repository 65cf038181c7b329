--------------------------- MODULE MCClientFiles ---------------------------
(* A small instance of the client's files for TLC. *)
EXTENDS ClientFiles

\* A good server.info, one with a line end behind the port, and a file that is
\* missing or has no colon.
MCServerInfos == {<<"address", "number">>, <<"address", "text">>, <<Empty>>}

=============================================================================

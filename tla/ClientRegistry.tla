--------------------------- MODULE ClientRegistry ---------------------------
(***************************************************************************)
(* The table "clients" and the counter last_client_id of the server: how   *)
(* a registration gets its identifier, and what a restart of the server    *)
(* makes of the counter.  Everything here runs on the server's main thread *)
(* so that a registration is one step.                                     *)
(***************************************************************************)
EXTENDS ClientId, FiniteSets

CONSTANTS
  Name,          \* names users register with
  MaxRestarts    \* bound: restarts of the server

VARIABLES
  clients,         \* the table: a set of rows
  last_client_id,  \* MessageUServer.last_client_id
  restarts         \* history: restarts so far

registryVars == <<clients, last_client_id, restarts>>

ASSUME ClientRegistryAssumption == MaxRestarts \in Nat

ClientRow == [id : Id, name : Name]

RegisteredIds   == {r.id : r \in clients}
RegisteredNames == {r.name : r \in clients}

\* get_last_id: id is the last row of "SELECT ID FROM clients".  The query
\* reads only the key, so that SQLite scans the index of the key: the rows come
\* in the order of the text, not in the order they were inserted.
IsLastId(id) ==
  /\ id \in RegisteredIds
  /\ \A other \in RegisteredIds : other = id \/ SortsBefore(other, id)

\* Mutant: last_client_id is not increased before the row is added.
AddClientNoInc(name) ==
  /\ clients' = {r \in clients : r.id # last_client_id}
                  \cup {[id |-> last_client_id, name |-> name]}
  /\ UNCHANGED last_client_id

\* Mutant: the name is not looked up before the registration.
NoNameExists(name) == FALSE

\* SQL.name_exists
NameExists(name) == name \in RegisteredNames

\* inc_last_client_id, then SQL.add_client: "insert or replace".
AddClient(name) ==
  LET id == Add1(last_client_id) IN
    /\ last_client_id' = id
    /\ clients' = {r \in clients : r.id # id} \cup {[id |-> id, name |-> name]}

-----------------------------------------------------------------------------

Init ==
  /\ clients = {}
  /\ last_client_id = ZeroId
  /\ restarts = 0

\* A registration that MessageUServer.recv accepts.  The bound: 16^32
\* identifiers are never used up.
Register(name) ==
  /\ ~NameExists(name)
  /\ last_client_id # MaxId
  /\ AddClient(name)
  /\ UNCHANGED restarts

\* Mutant: the counter starts from zero.
ReloadZero ==
  /\ restarts < MaxRestarts
  /\ restarts' = restarts + 1
  /\ last_client_id' = ZeroId
  /\ UNCHANGED clients

\* The server stops and is started again on the same database:
\* MessageUServer.__init__ calls update_last_client_id.
Reload ==
  /\ restarts < MaxRestarts
  /\ restarts' = restarts + 1
  /\ IF clients = {} THEN last_client_id' = ZeroId
     ELSE \E id \in RegisteredIds : IsLastId(id) /\ last_client_id' = id
  /\ UNCHANGED clients

Next == (\E name \in Name : Register(name)) \/ Reload

Spec == Init /\ [][Next]_registryVars

-----------------------------------------------------------------------------

TypeOK ==
  /\ clients \subseteq ClientRow
  /\ last_client_id \in Id
  /\ restarts \in Nat

\* A name and an identifier each denote at most one registered client: what
\* the lookup of the name, the counter and the key of the table are for.
OneRowPerClient ==
  \A r, s \in clients : r.name = s.name \/ r.id = s.id => r = s

\* A step of the registry in which every registered client keeps its row.
RowsKept == clients \subseteq clients'

\* "insert or replace" never replaces the row of a registered client, as long
\* as the server has not been restarted or there are fewer than Base clients
\* (16 in the code).
NoClientReplaced ==
  [][restarts = 0 \/ Cardinality(clients) < Base => RowsKept]_registryVars

\* The same without the condition: the counter reloaded after a restart is the
\* identifier that was handed out last, so that the next one is new.
ReloadedCounterIsFresh == [][RowsKept]_registryVars

=============================================================================
